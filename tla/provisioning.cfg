\* Three nodes brought up as in the README, with the certificate commands:
\* one CA for n1 and n2, another for n3.
SPECIFICATION Spec
CONSTANTS
    n1 = n1
    n2 = n2
    n3 = n3
    dg = dg
    g1 = g1
    g2 = g2
    ca1 = ca1
    ca2 = ca2
    None = None
    Nodes = {n1, n2, n3}
    Groups = {dg, g1, g2}
    DefaultGroup = dg
    CAs = {ca1, ca2}
    Calls <- AllCalls
    Community = FALSE
    ServerGroup <- SpreadGroups
    External = {n2}
    NoData = {n3}
    CaCert <- OtherCa
    CaKey <- OtherCa
    GroupRetries = 1
    RebalanceRetries = 1
    WaitRetries = 1
    CertRetries = 1
    MaxRuns = 4
    MaxFaults = 2
CHECK_DEADLOCK FALSE
INVARIANTS
    SuccessCertified
    NodeCertTrusted
    SuccessConfigured
    TypeOK
    MembersPrepared
    MoveFresh
PROPERTIES
    GroupKept
    ImplementsProvisioning

\* Community Edition: no groups, certificates or rebalance.
SPECIFICATION Spec
CONSTANTS
    n1 = n1
    n2 = n2
    n3 = n3
    dg = dg
    g1 = g1
    g2 = g2
    ca1 = ca1
    ca2 = ca2
    None = None
    Nodes = {n1, n2}
    Groups = {dg, g1, g2}
    DefaultGroup = dg
    CAs = {ca1}
    Calls <- CommunityCalls
    Community = TRUE
    ServerGroup <- TwoGroups
    External = {n2}
    NoData = {n2}
    CaCert <- SameCa
    CaKey <- SameCa
    GroupRetries = 1
    RebalanceRetries = 1
    WaitRetries = 1
    CertRetries = 1
    MaxRuns = 4
    MaxFaults = 2
CHECK_DEADLOCK FALSE
INVARIANTS
    CommunityUntouched
PROPERTIES
    ImplementsProvisioning

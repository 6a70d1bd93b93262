\* A create or an add that failed half way, run again.
SPECIFICATION Spec
CONSTANTS
    n1 = n1
    n2 = n2
    n3 = n3
    dg = dg
    g1 = g1
    g2 = g2
    ca1 = ca1
    ca2 = ca2
    None = None
    Nodes = {n1, n2}
    Groups = {dg, g1, g2}
    DefaultGroup = dg
    CAs = {ca1}
    Calls <- TwoNodeCalls
    Community = FALSE
    ServerGroup <- OneGroup
    External = {n2}
    NoData = {}
    CaCert <- NoCa
    CaKey <- NoCa
    GroupRetries = 1
    RebalanceRetries = 1
    WaitRetries = 1
    CertRetries = 1
    MaxRuns = 3
    MaxFaults = 1
CHECK_DEADLOCK FALSE
INVARIANTS
    AlreadyConfigured

\* Any command line on any of two nodes, under fairness.
SPECIFICATION FairSpec
CONSTANTS
    n1 = n1
    n2 = n2
    n3 = n3
    dg = dg
    g1 = g1
    g2 = g2
    ca1 = ca1
    ca2 = ca2
    None = None
    Nodes = {n1, n2}
    Groups = {dg, g1, g2}
    DefaultGroup = dg
    CAs = {ca1}
    Calls <- EveryCall
    Community = FALSE
    ServerGroup <- OneGroup
    External = {n2}
    NoData = {}
    CaCert <- SameCa
    CaKey <- SameCa
    GroupRetries = 1
    RebalanceRetries = 1
    WaitRetries = 1
    CertRetries = 2
    MaxRuns = 2
    MaxFaults = 2
CHECK_DEADLOCK FALSE
INVARIANTS
    SuccessConfigured
    MoveFresh
PROPERTIES
    Terminates

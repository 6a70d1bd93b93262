\* Every fleet of four hosts whose nodes are alike where they share a service.
SPECIFICATION Spec
CONSTANTS
    n1 = n1
    n2 = n2
    n3 = n3
    n4 = n4
    Nodes = {n1, n2, n3, n4}
    Rally = n1
    Fleets <- AlikeFleets
    Preset <- SomeQuotas
    Community = FALSE
    MaxRuns = 5
    MaxFaults = 1
CHECK_DEADLOCK FALSE
INVARIANTS
    TypeOK
    MembersSized
    MembersFit
PROPERTY
    DataQuotaKept

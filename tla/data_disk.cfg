\* A data disk that was mounted before it could be given to its user.
SPECIFICATION Spec
CONSTANTS
    Machines <- Hosts
    Askable <- NamedBundles
    MaxNamed = 1
    MaxRuns = 2
    MaxFaults = 1
CHECK_DEADLOCK FALSE
INVARIANT
    DataDiskIsOwned

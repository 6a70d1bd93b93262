\* Every command line of up to two bundles on every operating system and kind
\* of host.
SPECIFICATION Spec
CONSTANTS
    Machines <- Hosts
    Askable <- NamedBundles
    MaxNamed = 2
    MaxRuns = 2
    MaxFaults = 1
CHECK_DEADLOCK FALSE
INVARIANTS
    TypeOK
    RequirementsFirst
    SuccessfulIsComplete
    PlayedOnce
    OfferedInstallable
    SuccessIsMounted
    RerunSucceeds
PROPERTY
    DataKept
    ImplementsPreparation

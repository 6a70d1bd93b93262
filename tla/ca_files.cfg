\* Every mix of options, files and generated authorities, with two faults.
SPECIFICATION Spec
CONSTANTS
    ca1 = ca1
    ca2 = ca2
    None = None
    Empty = Empty
    CAs = {ca1, ca2}
    Options <- AllOptions
    OutDirs = {"home", "data"}
    MaxRuns = 4
    MaxFaults = 2
CHECK_DEADLOCK FALSE
INVARIANTS
    TypeOK
    NodeCertReady
    ReloadMatches
PROPERTIES
    KeyBeforeTrust
    ImplementsCertificates

\* Files only: an authority generated where the ca.pem of an older one is.
SPECIFICATION Spec
CONSTANTS
    ca1 = ca1
    ca2 = ca2
    None = None
    Empty = Empty
    CAs = {ca1, ca2}
    Options <- FilesOnly
    OutDirs = {"home", "data"}
    MaxRuns = 4
    MaxFaults = 0
CHECK_DEADLOCK FALSE
INVARIANTS
    GeneratedCaUsable

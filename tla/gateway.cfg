\* Any four runs of configure and wait, stopped anywhere; the delays overflow
\* before the number of retries is reached, as 36 of them do before 300.
SPECIFICATION FairSpec
CONSTANTS
    s1 = s1
    s2 = s2
    Servers = {s1, s2}
    None = None
    Torn = Torn
    Total = 2
    PollRetries = 2
    Sleepable = 1
    MaxRuns = 4
CHECK_DEADLOCK FALSE
INVARIANTS
    TypeOK
    ConfiguredOnDisk
PROPERTIES
    RunEnds

SPECIFICATION MCSpec
CONSTANTS
    Clients = {c1, c2}
    Versions = {1, 2}
    Files = {jar, pom}
    Digests = {d1}
    None = None
    Keep = 1
    RetainDownloaded = TRUE
    ImmutableDefault = FALSE
    MaxPayloads = 3
    MaxCommands = 4
    MaxFaults = 1
SYMMETRY Symmetry
INVARIANTS ListedIsStored ImmutableExplained SweepsKeepNewest HalfBlobsExplained AcceptedStays
CHECK_DEADLOCK FALSE

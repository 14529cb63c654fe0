SPECIFICATION Spec
CONSTANTS
    Clients = {c1, c2}
    Versions = {1}
    Files = {jar, pom}
    Digests = {d1}
    None = None
    Keep = 1
    RetainDownloaded = TRUE
    ImmutableDefault = FALSE
    MaxPayloads = 3
    MaxCommands = 4
    MaxFaults = 0
INVARIANT ImmutableForGood
CHECK_DEADLOCK FALSE

SPECIFICATION MCSpec
CONSTANTS
    Meetings = {m1, m2}
    Recs = {r1, r2}
    Callers = {c1, c2}
    None = None
    MaxAttempts = 2
SYMMETRY Symmetry
INVARIANTS ConfirmedJobHeld StopsExclude ReclaimedNeverArmed AloneLiveJobHeld AloneOneLiveJob
PROPERTIES TerminalIsFinal
CHECK_DEADLOCK FALSE

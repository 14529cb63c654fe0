SPECIFICATION Spec
CONSTANTS
    Meetings = {m1}
    Recs = {r1, r2}
    Callers = {c1, c2}
    None = None
    MaxAttempts = 2
INVARIANT OneLiveJob
CHECK_DEADLOCK FALSE

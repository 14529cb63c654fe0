SPECIFICATION MCSpec
CONSTANTS
  Targets = {t1, t2}
  Deps = {d1, d2}
  Callers = {c1, c2}
  None = None
  MaxFaults = 2
SYMMETRY Symmetry
INVARIANTS NeverSkips DistinctPromoters AloneOneCurrent AloneAnnounced
PROPERTY AloneStepsLegal
VIEW Unheard
CHECK_DEADLOCK FALSE

SPECIFICATION MCSpec
CONSTANTS
  Jobs = {j1}
  Callers = {server, page}
  Tickers = {server, page}
  Server = server
  None = None
  Minute = 2
  Fires = {2, 4}
  Skew = 0
  Horizon = 6
  MaxFaults = 2
  Runs = {1, 2}
  Workers = {w1, w2}
  Agents = {w1, w2}
  Grace = 0
  MaxSteps = 1
  Clocks = 1
  Only = w1
  MaxLosses = 1
INVARIANTS OncePerFire WatermarkCovers HandedOnce EndedStays
PROPERTIES CatchesUp DisabledStays ExecutedEnds

SPECIFICATION FairSpec
CONSTANTS
  Jobs = {j1}
  Callers = {server, page}
  Tickers = {server, page}
  Server = server
  None = None
  Minute = 2
  Fires = {2, 4}
  Skew = 1
  Horizon = 6
  MaxFaults = 0
PROPERTY CatchesUp

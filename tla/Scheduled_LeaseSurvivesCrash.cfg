SPECIFICATION MCSpec
CONSTANTS
    Ids = {1, 2}
    Senders = {ticker, admin}
    Ticker = ticker
    Authors = {a1, a2}
    Texts = {"a"}
    None = None
    MaxTime = 2
    Asked = {2}
    Limit = 2
    MaxFaults = 1

PROPERTIES LeaseSurvivesCrash
CHECK_DEADLOCK FALSE

SPECIFICATION MCSpec
CONSTANTS
    Hooks = {h1}
    Dlv = {d1, d2}
    First = d1
    Second = d2
    Workers = {ticker, clerk, aide}
    Ticker = ticker
    Aide = aide
    None = None
    Lease = 3
    Hold = 1
    Budgets = {2, 3}
    MaxFaults = 1
INVARIANTS OneDeliverer RequestsCounted DeadOnlyWhenSpent
PROPERTIES ImplementsContract Settles

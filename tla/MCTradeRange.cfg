SPECIFICATION Spec
CONSTANTS
    t1 = t1
    t2 = t2
    x = x
    y = y
    None = None
    Trades <- MCTrades
    Price <- MCPrice
    Volume <- MCVolume
    Strategies <- MCStrategies
    Types = {"rsi", "custom"}
    DefaultMaxPrice = 9
    DefaultMinVolume = 1
    SentConditions <- MCSent
    SentStatus = {"active", "paused"}
    MaxRequests = 3
INVARIANT
    SignalsWithinRange
SYMMETRY MCSymmetry
\* All trades are handled and all requests made.
CHECK_DEADLOCK FALSE

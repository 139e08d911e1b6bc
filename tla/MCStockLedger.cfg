SPECIFICATION Spec
CONSTANTS
    t1 = t1
    t2 = t2
    t3 = t3
    q1 = q1
    q2 = q2
    o1 = o1
    i1 = i1
    i2 = i2
    i3 = i3
    u = u
    v = v
    p = p
    r = r
    None = None
    Trades <- MCTrades
    Queries <- MCQueries
    Orders <- MCOrders
    Users = {u, v}
    Portfolios = {p, r}
    Owner <- MCOwner
    StockIds <- MCStockIds
    Spellings = {"TSLA", "tsla"}
    Upper = "TSLA"
INVARIANTS
    TypeOK
    NoOlderPrice
    OneRowPerSymbol
    ReferencesHold
PROPERTY
    ImplementsRegister
SYMMETRY MCSymmetry
\* All trades, queries and orders have come.
CHECK_DEADLOCK FALSE

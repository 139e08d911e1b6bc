SPECIFICATION RestSpec
CONSTANTS
    r1 = r1
    r2 = r2
    r3 = r3
    r4 = r4
    r5 = r5
    None = None
    SeedEmail = seeded
    Emails = {seeded, ann, bob}
    MaxId = 3
    Requests <- MCRequests
    Trades <- MCTrades
    Fees = {1}
    OtherStatuses = {}
    Edits = {e1}
    Periods <- MCPeriods
    DefaultPeriod = "yesterday"
    MaxTransactions = 3
    MaxTime = 1
    NoTransaction = NoTransaction
    HoldingIds = {h1, h2, h3}
    Positions <- MCPositions
    StockPrices = {120}
    Unpriced = Unpriced
    NoHolding = NoHolding
    NoReport = NoReport
    MaxWrites = 1
SYMMETRY Symmetry
INVARIANTS
    OneUserPerEmail
    ReportsAddUp
    QuietReportsAreExact
PROPERTIES
    ClosedStaysClosed
    CompletedIsFinal
\* Every request has been made, or the ids are used up.
CHECK_DEADLOCK FALSE

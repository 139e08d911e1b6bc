SPECIFICATION FairSpec
CONSTANTS
    alice = alice
    bob = bob
    p1 = p1
    p2 = p2
    tsla = tsla
    i1 = i1
    i2 = i2
    Totals = Totals
    Zero = Zero
    None = None
    Users <- MCUsers
    Portfolios <- MCPortfolio
    Owner <- MCOwner
    SeedUser = alice
    SeedPortfolio = p1
    Symbols <- MCStocks
    Stocks <- MCStocks
    Held <- MCHeld
    Names = {"a"}
    Slots <- MCSlots
    MaxVersion = 1
    MaxBoots = 2
PROPERTIES
    TotalsConverge
    HoldingsConverge
CHECK_DEADLOCK FALSE

SPECIFICATION Spec
CONSTANTS
    alice = alice
    bob = bob
    p1 = p1
    p2 = p2
    tsla = tsla
    i1 = i1
    i2 = i2
    Totals = Totals
    Zero = Zero
    None = None
    Users <- MCUsers
    Portfolios <- MCPortfolios
    Owner <- MCBoth
    SeedUser = alice
    SeedPortfolio = p1
    Symbols <- MCStocks
    Stocks <- MCStocks
    Held <- MCHeld
    Names = {"a"}
    Slots <- MCSlots
    MaxVersion = 1
    MaxBoots = 1
INVARIANT
    PollsDoNotCrash

SPECIFICATION Spec
CONSTANTS
    alice = alice
    bob = bob
    p1 = p1
    p2 = p2
    tsla = tsla
    i1 = i1
    i2 = i2
    Totals = Totals
    Zero = Zero
    None = None
    Users <- MCTwoUsers
    Portfolios <- MCPortfolios
    Owner <- MCOwners
    SeedUser = alice
    SeedPortfolio = p1
    Symbols <- MCStocks
    Stocks <- MCStocks
    Held <- MCHeld
    Names = {"a"}
    Slots <- MCSlots
    MaxVersion = 0
    MaxBoots = 1
INVARIANTS
    TypeOK
    OwnNumbersOnly
SYMMETRY MCSymmetry
\* Only boots that are used up stop the model, after a crash.
CHECK_DEADLOCK FALSE

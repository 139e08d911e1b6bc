---------------------------- MODULE MCRestServices ----------------------------
(***************************************************************************)
(* Services that answer requests and share no state, for TLC: a behaviour  *)
(* is one of any of them, and the others stay where they start.            *)
(***************************************************************************)
EXTENDS Accounts, Transactions, PortfolioReturns, TLC

CONSTANTS r1, r2, r3, r4, r5

MCRequests == {r1, r2, r3, r4, r5}

\* Requests can be swapped.
Symmetry == Permutations(MCRequests)

MCTrades == {[stock |-> "tsla", quantity |-> 1, pricePerShare |-> 3],
             [stock |-> "tsla", quantity |-> 2, pricePerShare |-> 1],
             [stock |-> "aapl", quantity |-> 2, pricePerShare |-> 3]}

MCPeriods == [today |-> 0, yesterday |-> 1]

MCPositions == {[symbol |-> "tsla", quantity |-> 1, averagePrice |-> 80],
                [symbol |-> "aapl", quantity |-> 2, averagePrice |-> 150]}

VARIABLE service   \* the one that is looked at

AccountsRest == UNCHANGED vars
TransactionsRest == UNCHANGED transactionsVars
ReturnsRest == UNCHANGED returnsVars

RestInit ==
    /\ service \in {"accounts", "transactions", "returns"}
    /\ Init /\ TransactionsInit /\ ReturnsInit
    /\ service # "returns" => Held = {} /\ prices = [s \in Symbols |-> Unpriced]

RestNext ==
    /\ UNCHANGED service
    /\ \/ service = "accounts" /\ Next /\ TransactionsRest /\ ReturnsRest
       \/ service = "transactions" /\ TransactionsNext /\ AccountsRest /\ ReturnsRest
       \/ service = "returns" /\ ReturnsNext /\ AccountsRest /\ TransactionsRest

RestSpec == RestInit /\ [][RestNext]_<<service, vars, transactionsVars, returnsVars>>
=============================================================================

---------------------------- MODULE MCStockLedger ----------------------------
(* Model values for StockLedger.                                           *)
EXTENDS StockLedger, TLC

CONSTANTS t1, t2, t3, q1, q2, o1, i1, i2, i3, u, v, p, r

MCTrades == {t1, t2, t3}
MCQueries == {q1, q2}
MCOrders == {o1}
MCStockIds == {i1, i2, i3}
MCOwner == [x \in {p, r} |-> IF x = p THEN u ELSE v]

\* Trades, queries and ids are interchangeable.
MCSymmetry == Permutations(MCTrades) \cup Permutations(MCQueries)
                \cup Permutations(MCStockIds)
==============================================================================

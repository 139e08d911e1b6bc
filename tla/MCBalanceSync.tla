---------------------------- MODULE MCBalanceSync ----------------------------
(* Model values for BalanceSync.                                           *)
EXTENDS BalanceSync, TLC

CONSTANTS alice, bob, p1, p2, tsla, i1, i2

MCUsers == {alice}
MCTwoUsers == {alice, bob}
MCPortfolios == {p1, p2}
MCPortfolio == {p1}
MCOwner == [p \in MCPortfolio |-> alice]
MCBoth == [p \in MCPortfolios |-> alice]
MCOwners == [p \in MCPortfolios |-> IF p = p1 THEN alice ELSE bob]

MCStocks == {tsla}
MCHeld == [v \in 0..MaxVersion |-> {tsla}]

\* Slots only name the runs of the poll.
MCSlots == {i1, i2}
MCSymmetry == Permutations(MCSlots)
==============================================================================

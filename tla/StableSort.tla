------------------------------ MODULE StableSort ------------------------------
(***************************************************************************)
(* sort() of an array by numbers, the largest first.  It is stable: of     *)
(* equal ones, the one that came first stays first.                        *)
(***************************************************************************)
EXTENDS Integers, FiniteSets

\* The positions of what goes before what is at position i.
Before(keys, i) ==
    {j \in DOMAIN keys : keys[j] > keys[i] \/ (keys[j] = keys[i] /\ j < i)}

\* Sorted(keys)[k]: the position at which the k-th was.
Sorted(keys) ==
    [k \in DOMAIN keys |-> CHOOSE i \in DOMAIN keys : Cardinality(Before(keys, i)) = k - 1]
=============================================================================

---------------------------- MODULE PriceRegister ----------------------------
(***************************************************************************)
(* What the rest of the server may assume of a stock's price, with rows,   *)
(* loads, saves and undefined columns left out: there is one register,     *)
(* each trade writes it at one moment between its arrival and the end of   *)
(* its handler or not at all, and nothing else changes it but taking the   *)
(* stock off the list, which empties it.  StockLedger implements this (its *)
(* Register instance).                                                     *)
(***************************************************************************)

CONSTANTS
    Trades,
    None        \* no price

VARIABLES
    listed,     \* whether the stock is there
    price,      \* the trade whose price is stored, or None
    arrived,    \* trades that have come
    writing     \* those of them whose handlers are under way

registerVars == <<listed, price, arrived, writing>>

RegisterInit == listed = TRUE /\ price = None /\ arrived = {} /\ writing = {}

\* Of a stock that is not listed there is nothing to write.
Arrive(t) ==
    /\ t \notin arrived /\ arrived' = arrived \cup {t}
    /\ writing' = IF listed THEN writing \cup {t} ELSE writing
    /\ UNCHANGED <<listed, price>>

Write(t) ==
    /\ t \in writing /\ writing' = writing \ {t}
    /\ price' = t /\ listed' = TRUE
    /\ UNCHANGED arrived

GiveUp(t) ==
    /\ t \in writing /\ writing' = writing \ {t}
    /\ UNCHANGED <<listed, price, arrived>>

List == ~listed /\ listed' = TRUE /\ UNCHANGED <<price, arrived, writing>>

Delist ==
    /\ listed /\ listed' = FALSE
    /\ price' = None
    /\ UNCHANGED <<arrived, writing>>

RegisterNext ==
    \/ \E t \in Trades : Arrive(t) \/ Write(t) \/ GiveUp(t)
    \/ List \/ Delist

RegisterSpec == RegisterInit /\ [][RegisterNext]_registerVars
=============================================================================

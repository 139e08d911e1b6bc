------------------------------- MODULE KisLink -------------------------------
(***************************************************************************)
(* What the rest of the server may assume of the connection to the KIS     *)
(* real-time feed, with the sockets, flags and timers left out: there is   *)
(* one link, it is dialled only while it is down, its keep-alive runs      *)
(* exactly while it is up, and it keeps coming back until the process      *)
(* retires it.  KisWebSocket implements this (its Link instance).          *)
(***************************************************************************)

VARIABLES
    link,       \* "down", "dialling", "up", or "retired" once the process stops
    keepAlive   \* number of keep-alive timers running

linkVars == <<link, keepAlive>>

LinkInit == link = "down" /\ keepAlive = 0

Dial == link = "down" /\ link' = "dialling" /\ UNCHANGED keepAlive

Establish == link = "dialling" /\ link' = "up" /\ keepAlive' = 1

DialFails == link = "dialling" /\ link' = "down" /\ UNCHANGED keepAlive

Lose == link = "up" /\ link' = "down" /\ keepAlive' = 0

Retire == link # "retired" /\ link' = "retired" /\ keepAlive' = 0

LinkNext == Dial \/ Establish \/ DialFails \/ Lose \/ Retire

LinkSafety == LinkInit /\ [][LinkNext]_linkVars

\* The link is up again and again, unless the process has retired it.
LinkRecovers == []<>(link \in {"up", "retired"})

LinkSpec == LinkSafety /\ LinkRecovers
=============================================================================

-------------------------- MODULE MCTradingGateway --------------------------
(* Model values for TradingGateway.                                        *)
EXTENDS TradingGateway, TLC

CONSTANTS k1, k2, k3, u1, u2, ch1, ch2

MCClients == {k1, k2, k3}
MCUsers == {u1, u2}
MCChannels == {ch1, ch2}

\* Sockets, users and channels are interchangeable.
MCSymmetry == Permutations(MCClients) \cup Permutations(MCUsers)
                \cup Permutations(MCChannels)
=============================================================================

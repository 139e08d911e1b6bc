--------------------------- MODULE MCKisWebSocket ---------------------------
(* Model values for KisWebSocket.                                          *)
EXTENDS KisWebSocket, TLC

CONSTANTS s1, s2, c1, c2

MCSockets == {s1, s2}
MCCodes == {c1, c2}
MCOneCode == {c1}
MCUnsubscribeCodes == {c2}
=============================================================================

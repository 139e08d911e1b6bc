------------------------ MODULE TradingGatewayProofs ------------------------
(***************************************************************************)
(* Proofs about TradingGateway, for any number of sockets, users and       *)
(* channels.  The properties are not inductive by themselves: what holds   *)
(* them together is that a socket has a user and confirmed channels only   *)
(* while it is live, and that a user has subscriptions only as a key.      *)
(***************************************************************************)
EXTENDS TradingGateway, TLAPS

\* Only a live socket has a user or confirmed channels (Gone clears them).
SocketsTidy ==
    \A s \in Clients : /\ s \in live <=> userId[s] \in Users
                       /\ s \notin live => confirmed[s] = {}

\* A user that is no key has no subscriptions.
KeysTidy == \A u \in Users : u \notin subscribers => clientSubscriptions[u] = {}

\* The socket in connectedClients is live and the user's, who is a key.
Recipients ==
    \A u \in Users :
        connectedClients[u] # NoClient =>
            /\ connectedClients[u] \in live
            /\ userId[connectedClients[u]] = u
            /\ u \in subscribers

\* A user that is a key has a live socket.
Keys ==
    \A u \in subscribers : \E s \in live : userId[s] = u

\* A channel of a user has been confirmed to one of the user's live sockets.
Channelled ==
    \A u \in Users : \A ch \in clientSubscriptions[u] :
        \E s \in live : userId[s] = u /\ ch \in confirmed[s]

\* A sole client that receives events is broadcast what it was told of.
Sole ==
    \A u \in Users : \A s \in live :
        (connectedClients[u] = s /\ \A t \in live : userId[t] = u => t = s)
            => clientSubscriptions[u] = confirmed[s]

Inv == TypeOK /\ SocketsTidy /\ KeysTidy /\ Recipients /\ Keys /\ Channelled /\ Sole

-----------------------------------------------------------------------------
LEMMA InitInv == Init => Inv
  BY TradingGatewayAssumption
  DEF Init, Inv, TypeOK, SocketsTidy, KeysTidy, Recipients, Keys, Channelled, Sole

(***************************************************************************)
(* Each handler preserves Inv: one lemma per handler, one step per part.   *)
(***************************************************************************)

LEMMA HandleConnectionInv ==
  ASSUME Inv, NEW s \in Clients, NEW u \in Users, HandleConnection(s, u)
  PROVE  Inv'
  <1>1. TypeOK /\ SocketsTidy /\ KeysTidy /\ Recipients /\ Keys /\ Channelled /\ Sole
    BY DEF Inv
  <1>2. s \in live => userId[s] \in Users
    BY <1>1 DEF SocketsTidy
  <1>3. TypeOK'
    BY <1>1, <1>2, TradingGatewayAssumption DEF HandleConnection, TypeOK
  <1>4. SocketsTidy'
    BY <1>1, <1>2, TradingGatewayAssumption DEF HandleConnection, SocketsTidy, TypeOK
  <1>5. KeysTidy'
    BY <1>1, <1>2, TradingGatewayAssumption DEF HandleConnection, KeysTidy, TypeOK
  <1>6. Recipients'
    BY <1>1, <1>2, TradingGatewayAssumption DEF HandleConnection, Recipients, SocketsTidy, TypeOK
  <1>7. Keys'
    BY <1>1, <1>2, TradingGatewayAssumption DEF HandleConnection, Keys, SocketsTidy, TypeOK
  <1>8. Channelled'
    BY <1>1, <1>2, TradingGatewayAssumption DEF Channelled, HandleConnection, SocketsTidy, TypeOK
  <1>9. Sole'
    <2> SUFFICES ASSUME NEW v \in Users, NEW t \in live', connectedClients'[v] = t,
                        \A r \in live' : userId'[r] = v => r = t
                 PROVE  clientSubscriptions'[v] = confirmed'[t]
      BY DEF Sole
    <2>1. CASE v = u
      <3>1. t = s /\ clientSubscriptions'[v] = {}
        BY <1>1, <2>1 DEF HandleConnection, TypeOK
      <3>2. confirmed'[s] = {}
        BY <1>1 DEF HandleConnection, SocketsTidy
      <3> QED
        BY <3>1, <3>2
    <2>2. CASE v # u
      <3>1. connectedClients[v] = t /\ clientSubscriptions'[v] = clientSubscriptions[v]
        BY <1>1, <2>2 DEF HandleConnection, TypeOK
      <3>2. t \in live
        BY <1>1, <3>1, TradingGatewayAssumption DEF HandleConnection, Recipients, TypeOK
      <3>3. \A r \in live : userId[r] = v => r = t
        BY <1>1 DEF HandleConnection, TypeOK
      <3> QED
        BY <1>1, <3>1, <3>2, <3>3 DEF HandleConnection, Sole
    <2> QED
      BY <2>1, <2>2
  <1> QED
    BY <1>3, <1>4, <1>5, <1>6, <1>7, <1>8, <1>9 DEF Inv

LEMMA HandleDisconnectInv ==
  ASSUME Inv, NEW s \in Clients, HandleDisconnect(s)
  PROVE  Inv'
  <1>1. TypeOK /\ SocketsTidy /\ KeysTidy /\ Recipients /\ Keys /\ Channelled /\ Sole
    BY DEF Inv
  <1>2. s \in live => userId[s] \in Users
    BY <1>1 DEF SocketsTidy
  <1>3. TypeOK'
    BY <1>1, <1>2, TradingGatewayAssumption DEF Gone, HandleDisconnect, TypeOK
  <1>4. SocketsTidy'
    BY <1>1, <1>2, TradingGatewayAssumption DEF Gone, HandleDisconnect, SocketsTidy, TypeOK
  <1>5. KeysTidy'
    BY <1>1, <1>2, TradingGatewayAssumption DEF Gone, HandleDisconnect, KeysTidy, TypeOK
  <1>6. Recipients'
    BY <1>1, <1>2, TradingGatewayAssumption DEF Gone, HandleDisconnect, Recipients, SocketsTidy, TypeOK
  <1>7. Keys'
    BY <1>1, <1>2, TradingGatewayAssumption DEF Gone, HandleDisconnect, Keys, SocketsTidy, TypeOK
  <1>8. Channelled'
    BY <1>1, <1>2, TradingGatewayAssumption DEF Channelled, Gone, HandleDisconnect, SocketsTidy, TypeOK
  <1>9. Sole'
    BY <1>1, <1>2, TradingGatewayAssumption DEF Gone, HandleDisconnect, Recipients, SocketsTidy, Sole, TypeOK
  <1> QED
    BY <1>3, <1>4, <1>5, <1>6, <1>7, <1>8, <1>9 DEF Inv

LEMMA HandleSubscribeInv ==
  ASSUME Inv, NEW s \in Clients, NEW ch \in Channels, HandleSubscribe(s, ch)
  PROVE  Inv'
  <1>1. TypeOK /\ SocketsTidy /\ KeysTidy /\ Recipients /\ Keys /\ Channelled /\ Sole
    BY DEF Inv
  <1>2. s \in live => userId[s] \in Users
    BY <1>1 DEF SocketsTidy
  <1>3. TypeOK'
    BY <1>1, <1>2, TradingGatewayAssumption DEF HandleSubscribe, TypeOK
  <1>4. SocketsTidy'
    BY <1>1, <1>2, TradingGatewayAssumption DEF HandleSubscribe, SocketsTidy, TypeOK
  <1>5. KeysTidy'
    BY <1>1, <1>2, TradingGatewayAssumption DEF HandleSubscribe, KeysTidy, TypeOK
  <1>6. Recipients'
    BY <1>1, <1>2, TradingGatewayAssumption DEF HandleSubscribe, Recipients, SocketsTidy, TypeOK
  <1>7. Keys'
    BY <1>1, <1>2, TradingGatewayAssumption DEF HandleSubscribe, Keys, SocketsTidy, TypeOK
  <1>8. Channelled'
    BY <1>1, <1>2, TradingGatewayAssumption DEF Channelled, HandleSubscribe, SocketsTidy, TypeOK
  <1>9. Sole'
    <2> SUFFICES ASSUME NEW v \in Users, NEW t \in live, connectedClients[v] = t,
                        \A r \in live : userId[r] = v => r = t
                 PROVE  clientSubscriptions'[v] = confirmed'[t]
      BY DEF Sole, HandleSubscribe
    <2>1. clientSubscriptions[v] = confirmed[t] /\ t \in Clients
      BY <1>1 DEF Sole, TypeOK
    <2>2. userId[t] = v
      BY <1>1, TradingGatewayAssumption DEF Recipients, TypeOK
    <2>3. CASE v = userId[s]
      <3>1. s = t
        BY <2>3 DEF HandleSubscribe
      <3> QED
        BY <1>1, <2>1, <2>3, <3>1 DEF HandleSubscribe, TypeOK
    <2>4. CASE v # userId[s]
      <3>1. s # t
        BY <2>2, <2>4
      <3> QED
        BY <1>1, <2>1, <2>4, <3>1 DEF HandleSubscribe, TypeOK
    <2> QED
      BY <2>3, <2>4
  <1> QED
    BY <1>3, <1>4, <1>5, <1>6, <1>7, <1>8, <1>9 DEF Inv

LEMMA HandleUnsubscribeInv ==
  ASSUME Inv, NEW s \in Clients, NEW ch \in Channels, HandleUnsubscribe(s, ch)
  PROVE  Inv'
  <1>1. TypeOK /\ SocketsTidy /\ KeysTidy /\ Recipients /\ Keys /\ Channelled /\ Sole
    BY DEF Inv
  <1>2. s \in live => userId[s] \in Users
    BY <1>1 DEF SocketsTidy
  <1>3. TypeOK'
    BY <1>1, <1>2, TradingGatewayAssumption DEF HandleUnsubscribe, TypeOK
  <1>4. SocketsTidy'
    BY <1>1, <1>2, TradingGatewayAssumption DEF HandleUnsubscribe, SocketsTidy, TypeOK
  <1>5. KeysTidy'
    BY <1>1, <1>2, TradingGatewayAssumption DEF HandleUnsubscribe, KeysTidy, TypeOK
  <1>6. Recipients'
    BY <1>1, <1>2, TradingGatewayAssumption DEF HandleUnsubscribe, Recipients, SocketsTidy, TypeOK
  <1>7. Keys'
    BY <1>1, <1>2, TradingGatewayAssumption DEF HandleUnsubscribe, Keys, SocketsTidy, TypeOK
  <1>8. Channelled'
    BY <1>1, <1>2, TradingGatewayAssumption DEF Channelled, HandleUnsubscribe, SocketsTidy, TypeOK
  <1>9. Sole'
    <2> SUFFICES ASSUME NEW v \in Users, NEW t \in live, connectedClients[v] = t,
                        \A r \in live : userId[r] = v => r = t
                 PROVE  clientSubscriptions'[v] = confirmed'[t]
      BY DEF Sole, HandleUnsubscribe
    <2>1. clientSubscriptions[v] = confirmed[t] /\ t \in Clients
      BY <1>1 DEF Sole, TypeOK
    <2>2. userId[t] = v
      BY <1>1, TradingGatewayAssumption DEF Recipients, TypeOK
    <2>3. CASE v = userId[s]
      <3>1. s = t
        BY <2>3 DEF HandleUnsubscribe
      <3> QED
        BY <1>1, <2>1, <2>3, <3>1 DEF HandleUnsubscribe, TypeOK
    <2>4. CASE v # userId[s]
      <3>1. s # t
        BY <2>2, <2>4
      <3> QED
        BY <1>1, <2>1, <2>4, <3>1 DEF HandleUnsubscribe, TypeOK
    <2> QED
      BY <2>3, <2>4
  <1> QED
    BY <1>3, <1>4, <1>5, <1>6, <1>7, <1>8, <1>9 DEF Inv

LEMMA NextInv == Inv /\ [Next]_vars => Inv'
  <1> SUFFICES ASSUME Inv, [Next]_vars PROVE Inv'
    OBVIOUS
  <1>1. ASSUME NEW s \in Clients, NEW u \in Users, HandleConnection(s, u) PROVE Inv'
    BY <1>1, HandleConnectionInv
  <1>2. ASSUME NEW s \in Clients, HandleDisconnect(s) PROVE Inv'
    BY <1>2, HandleDisconnectInv
  <1>3. ASSUME NEW s \in Clients, NEW ch \in Channels, HandleSubscribe(s, ch) PROVE Inv'
    BY <1>3, HandleSubscribeInv
  <1>4. ASSUME NEW s \in Clients, NEW ch \in Channels, HandleUnsubscribe(s, ch) PROVE Inv'
    BY <1>4, HandleUnsubscribeInv
  <1>5. ASSUME UNCHANGED vars PROVE Inv'
    BY <1>5 DEF Inv, TypeOK, SocketsTidy, KeysTidy, Recipients, Keys, Channelled, Sole,
                vars, mapVars
  <1> QED
    BY <1>1, <1>2, <1>3, <1>4, <1>5 DEF Next, RejectConnection

LEMMA SpecInv == Spec => []Inv
  BY InitInv, NextInv, PTL DEF Spec

-----------------------------------------------------------------------------
\* The gateway's maps and the clients' data stay of their types.
THEOREM GatewayTypeCorrect == Spec => []TypeOK
  <1>1. Inv => TypeOK
    BY DEF Inv
  <1> QED
    BY <1>1, SpecInv, PTL

\* sendToUser() and a broadcast never address a closed socket, nor another
\* user's, for any interleaving of the users' connections.
THEOREM NobodyElseReceives == Spec => []RecipientIsTheirs
  <1>1. Inv => RecipientIsTheirs
    BY DEF Inv, TypeOK, Recipients, RecipientIsTheirs, ClientsOf
  <1> QED
    BY <1>1, SpecInv, PTL

\* The maps hold entries only of users with a live socket: they cannot grow
\* beyond the users connected.
THEOREM NoEntryOutlivesItsClients == Spec => []EntriesHaveClients
  <1>1. Inv => EntriesHaveClients
    BY DEF Inv, Recipients, Keys, EntriesHaveClients, ClientsOf
  <1> QED
    BY <1>1, SpecInv, PTL

\* Nothing is broadcast that no live client of the user was confirmed.
THEOREM OnlyConfirmedIsBroadcast == Spec => []BroadcastWasConfirmed
  <1>1. Inv => BroadcastWasConfirmed
    BY DEF Inv, Channelled, BroadcastWasConfirmed, ClientsOf
  <1> QED
    BY <1>1, SpecInv, PTL

\* A user's only, reachable client is broadcast exactly what it asked for.
THEOREM SoleClientIsServed == Spec => []OnlyClientGetsWhatItAsked
  <1>1. Inv => OnlyClientGetsWhatItAsked
    <2> SUFFICES ASSUME Inv, NEW u \in Users, ClientsOf(u) = {connectedClients[u]}
                 PROVE  clientSubscriptions[u] = confirmed[connectedClients[u]]
      BY DEF OnlyClientGetsWhatItAsked
    <2>1. connectedClients[u] \in live
      BY DEF ClientsOf
    <2>2. \A t \in live : userId[t] = u => t = connectedClients[u]
      BY DEF ClientsOf
    <2> QED
      BY <2>1, <2>2 DEF Inv, Sole
  <1> QED
    BY <1>1, SpecInv, PTL
=============================================================================

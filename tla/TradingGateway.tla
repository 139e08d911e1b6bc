--------------------------- MODULE TradingGateway ---------------------------
(***************************************************************************)
(* TradingWebSocketGateway: the socket.io server for browser clients       *)
(* (src/modules/websocket/websocket.gateway.ts).  Its two maps are keyed   *)
(* by user, the events that maintain them are of sockets, and a user may   *)
(* have several sockets (two tabs, or a reconnect the server notices       *)
(* before the old connection's end).  Every handler is synchronous, hence  *)
(* one action.                                                             *)
(***************************************************************************)
EXTENDS Naturals, FiniteSets

CONSTANTS
    Clients,    \* identities of socket.io sockets; one that is gone is reused
    NoClient,
    Users,      \* the `sub` of the clients' tokens
    NoUser,     \* client.data.userId === undefined
    Channels    \* subscription keys: trade:X, orderbook:X, orderExecution, balance

ASSUME TradingGatewayAssumption == NoClient \notin Clients /\ NoUser \notin Users

VARIABLES
    live,                 \* sockets socket.io holds open
    userId,               \* userId[s]: client.data.userId
    connectedClients,     \* connectedClients[u]: the map's entry, or NoClient
    subscribers,          \* keys of clientSubscriptions
    clientSubscriptions,  \* clientSubscriptions[u], {} when u is no key
    confirmed             \* confirmed[s]: channels s has been told 'subscribed' of

mapVars == <<connectedClients, subscribers, clientSubscriptions>>
vars == <<live, userId, mapVars, confirmed>>

TypeOK ==
    /\ live \subseteq Clients
    /\ userId \in [Clients -> Users \cup {NoUser}]
    /\ connectedClients \in [Users -> Clients \cup {NoClient}]
    /\ subscribers \subseteq Users
    /\ clientSubscriptions \in [Users -> SUBSET Channels]
    /\ confirmed \in [Clients -> SUBSET Channels]

Init ==
    /\ live = {}
    /\ userId = [s \in Clients |-> NoUser]
    /\ connectedClients = [u \in Users |-> NoClient]
    /\ subscribers = {}
    /\ clientSubscriptions = [u \in Users |-> {}]
    /\ confirmed = [s \in Clients |-> {}]

-----------------------------------------------------------------------------
\* Mutants of an operator stand just before it: what it would be with a
\* plausible mistake, to see that a property notices.
\* handleConnection() that stores client.data.userId before assigning it.
HandleConnectionStoresUser(s, u) ==
    /\ s \notin live
    /\ live' = live \cup {s}
    /\ userId' = [userId EXCEPT ![s] = u]
    /\ connectedClients' = [connectedClients EXCEPT ![u] = userId[s]]
    /\ subscribers' = subscribers \cup {u}
    /\ clientSubscriptions' = [clientSubscriptions EXCEPT ![u] = {}]
    /\ UNCHANGED confirmed

\* handleConnection(), the token verified: the user's entries now belong to s.
HandleConnection(s, u) ==
    /\ s \notin live
    /\ live' = live \cup {s}
    /\ userId' = [userId EXCEPT ![s] = u]
    /\ connectedClients' = [connectedClients EXCEPT ![u] = s]
    /\ subscribers' = subscribers \cup {u}
    /\ clientSubscriptions' = [clientSubscriptions EXCEPT ![u] = {}]
    /\ UNCHANGED confirmed

\* handleConnection(), no token or a bad one: client.disconnect() comes in the
\* same callback, so the socket is never live without a user.
RejectConnection(s) ==
    /\ s \notin live
    /\ UNCHANGED vars

\* A socket that is gone; its identity can be used again.
Gone(s) ==
    /\ live' = live \ {s}
    /\ userId' = [userId EXCEPT ![s] = NoUser]
    /\ confirmed' = [confirmed EXCEPT ![s] = {}]

\* handleDisconnect() that leaves the maps alone unless s is the newest client.
HandleDisconnectOfNewest(s) ==
    /\ s \in live
    /\ Gone(s)
    /\ IF connectedClients[userId[s]] = s
       THEN connectedClients' = [connectedClients EXCEPT ![userId[s]] = NoClient]
       ELSE UNCHANGED connectedClients
    /\ UNCHANGED <<subscribers, clientSubscriptions>>

\* handleDisconnect() that forgets the subscriptions, not the socket.
HandleDisconnectKeepsSocket(s) ==
    /\ s \in live
    /\ Gone(s)
    /\ subscribers' = subscribers \ {userId[s]}
    /\ clientSubscriptions' = [clientSubscriptions EXCEPT ![userId[s]] = {}]
    /\ UNCHANGED connectedClients

\* handleDisconnect() that forgets the socket, not the subscriptions.
HandleDisconnectKeepsKeys(s) ==
    /\ s \in live
    /\ Gone(s)
    /\ connectedClients' = [connectedClients EXCEPT ![userId[s]] = NoClient]
    /\ UNCHANGED <<subscribers, clientSubscriptions>>

\* handleDisconnect(): deletes the user's entries, whoever they belong to.
HandleDisconnect(s) ==
    /\ s \in live
    /\ Gone(s)
    /\ connectedClients' = [connectedClients EXCEPT ![userId[s]] = NoClient]
    /\ subscribers' = subscribers \ {userId[s]}
    /\ clientSubscriptions' = [clientSubscriptions EXCEPT ![userId[s]] = {}]

\* handleSubscribeTrade, -OrderBook, -OrderExecution, -Balance: creates the
\* user's entry when another socket of the user has taken it away.
HandleSubscribe(s, ch) ==
    /\ s \in live
    /\ subscribers' = subscribers \cup {userId[s]}
    /\ clientSubscriptions' = [clientSubscriptions EXCEPT ![userId[s]] = @ \cup {ch}]
    /\ confirmed' = [confirmed EXCEPT ![s] = @ \cup {ch}]
    /\ UNCHANGED <<live, userId, connectedClients>>

\* handleUnsubscribe() for a user with no entry: no answer at all.
HandleUnsubscribe(s, ch) ==
    /\ s \in live
    /\ userId[s] \in subscribers
    /\ clientSubscriptions' = [clientSubscriptions EXCEPT ![userId[s]] = @ \ {ch}]
    /\ confirmed' = [confirmed EXCEPT ![s] = @ \ {ch}]
    /\ UNCHANGED <<live, userId, connectedClients, subscribers>>

Next ==
    \/ \E s \in Clients, u \in Users : HandleConnection(s, u)
    \/ \E s \in Clients : RejectConnection(s) \/ HandleDisconnect(s)
    \/ \E s \in Clients, ch \in Channels : HandleSubscribe(s, ch) \/ HandleUnsubscribe(s, ch)

Spec == Init /\ [][Next]_vars

-----------------------------------------------------------------------------
(* Properties.                                                             *)

ClientsOf(u) == {s \in live : userId[s] = u}

\* sendToUser(u) and a broadcast emit only on a live socket of u: never on a
\* closed one, never to another user.
RecipientIsTheirs ==
    \A u \in Users : connectedClients[u] \in ClientsOf(u) \cup {NoClient}

\* The maps do not outlive the clients they describe, and a user who can be
\* sent to also has a set of subscriptions.
EntriesHaveClients ==
    \A u \in Users :
        /\ u \in subscribers => ClientsOf(u) # {}
        /\ connectedClients[u] # NoClient => u \in subscribers

\* A channel is broadcast to a user only while a live client of that user
\* has been told that it is subscribed.
BroadcastWasConfirmed ==
    \A u \in Users : \A ch \in clientSubscriptions[u] :
        \E s \in ClientsOf(u) : ch \in confirmed[s]

\* A client that receives its user's events and is the user's only client
\* is broadcast exactly the channels it has been told of.
OnlyClientGetsWhatItAsked ==
    \A u \in Users :
        ClientsOf(u) = {connectedClients[u]} =>
            clientSubscriptions[u] = confirmed[connectedClients[u]]

-----------------------------------------------------------------------------
(* What the source says, and the code does not do.                         *)

\* sendToUser() drops an event with "user ... is not connected" (line 403),
\* so a user with a live client should be in connectedClients.
ReachableWhileConnected ==
    \A u \in Users : ClientsOf(u) # {} => connectedClients[u] # NoClient
=============================================================================

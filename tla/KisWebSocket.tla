---------------------------- MODULE KisWebSocket ----------------------------
(***************************************************************************)
(* KisWebSocketService: the client side of the KIS real-time feed          *)
(* (src/infrastructure/external/kis-websocket.service.ts), KIS_MODE=live.  *)
(*                                                                         *)
(* Node runs one callback at a time, so an action is one callback: an      *)
(* event of a `ws` socket, a timer, a cron job, or the part of the async   *)
(* 'open' handler between two awaits.  Everything that can happen between  *)
(* two callbacks is an interleaving of actions.                            *)
(***************************************************************************)
EXTENDS Naturals, FiniteSets

CONSTANTS
    Sockets,              \* identities of `ws` objects; an idle one can be reused
    NoSocket,             \* this.ws === null
    Codes,                \* kisDayCode / kisNightCode values
    UnsubscribeCodes,     \* codes some caller of unsubscribeStockPrice may name
    MaxReconnectAttempts, \* maxReconnectAttempts (5 in the code)
    MaxTimers,            \* bound: reconnect timers pending at once
    MaxHeartbeats         \* bound: heartbeat intervals alive at once

ASSUME KisWebSocketAssumption ==
    /\ NoSocket \notin Sockets
    /\ UnsubscribeCodes \subseteq Codes
    /\ MaxReconnectAttempts \in Nat
    /\ MaxTimers \in Nat
    /\ MaxHeartbeats \in Nat \ {0}

VARIABLES
    phase,             \* "starting", "up", "stopping" (onModuleDestroy ran), "exited"
    socketState,       \* socketState[s]: "idle", "connecting", "open" or "closing"
    ws,                \* this.ws
    isConnected,
    isConnecting,
    reconnectAttempts,
    reconnectTimers,   \* pending setTimeout(connect) calls; nothing can cancel one
    heartbeats,        \* setInterval timers alive
    heartbeatHandle,   \* this.heartbeatInterval !== null
    opening,           \* opening[s]: await of s's 'open' handler: "none", "token", "stocks"
    websocketToken,    \* this.websocketToken !== null
    stockTable,        \* codes in the stock table
    stockCodeList,     \* codes in the array (not how often each occurs)
    subscribedStocks,  \* keys of the map behind isSubscribed()
    registered,        \* registered[s]: codes KIS streams on s
    replies            \* replies[s]: codes with a '...SUBSCRIBE SUCCESS' still to arrive

flagVars == <<ws, isConnected, isConnecting>>
timerVars == <<reconnectAttempts, reconnectTimers>>
heartbeatVars == <<heartbeats, heartbeatHandle>>
openVars == <<opening, websocketToken, stockCodeList>>
feedVars == <<subscribedStocks, registered, replies>>
vars == <<phase, socketState, flagVars, timerVars, heartbeatVars, openVars,
          stockTable, feedVars>>

SocketStates == {"idle", "connecting", "open", "closing"}

ConnectionTypes ==
    /\ phase \in {"starting", "up", "stopping", "exited"}
    /\ socketState \in [Sockets -> SocketStates]
    /\ ws \in Sockets \cup {NoSocket}
    /\ isConnected \in BOOLEAN
    /\ isConnecting \in BOOLEAN

TimerTypes ==
    /\ reconnectAttempts \in 0..MaxReconnectAttempts
    /\ reconnectTimers \in 0..MaxTimers
    /\ heartbeats \in 0..MaxHeartbeats
    /\ heartbeatHandle \in BOOLEAN

FeedTypes ==
    /\ opening \in [Sockets -> {"none", "token", "stocks"}]
    /\ websocketToken \in BOOLEAN
    /\ stockTable \subseteq Codes
    /\ stockCodeList \subseteq Codes
    /\ subscribedStocks \subseteq Codes
    /\ registered \in [Sockets -> SUBSET Codes]
    /\ replies \in [Sockets -> SUBSET Codes]

TypeOK == ConnectionTypes /\ TimerTypes /\ FeedTypes

Init ==
    /\ phase = "starting"
    /\ socketState = [s \in Sockets |-> "idle"]
    /\ ws = NoSocket
    /\ isConnected = FALSE
    /\ isConnecting = FALSE
    /\ reconnectAttempts = 0
    /\ reconnectTimers = 0
    /\ heartbeats = 0
    /\ heartbeatHandle = FALSE
    /\ opening = [s \in Sockets |-> "none"]
    /\ websocketToken = FALSE
    /\ stockTable \in SUBSET Codes
    /\ stockCodeList = {}
    /\ subscribedStocks = {}
    /\ registered = [s \in Sockets |-> {}]
    /\ replies = [s \in Sockets |-> {}]

Running == phase \in {"up", "stopping"}

-----------------------------------------------------------------------------
(* Helpers: the private methods the callbacks share.                       *)

\* this.ws is replaced by a new socket; the old one is not closed.  The
\* identity of a socket is free once it has closed and its 'open' handler
\* has ended.
NewSocket ==
    /\ \E s \in Sockets :
         /\ socketState[s] = "idle" /\ opening[s] = "none"
         /\ socketState' = [socketState EXCEPT ![s] = "connecting"]
         /\ ws' = s
    /\ isConnecting' = TRUE
    /\ UNCHANGED isConnected

\* Mutants of an operator stand just before it: what it would be with a
\* plausible mistake, to see that a property notices.
\* connect() asking only isConnected: an attempt under way is forgotten.
ConnectUnlessConnected ==
    \/ isConnected /\ UNCHANGED <<socketState, flagVars>>
    \/ ~isConnected /\ NewSocket

\* connect() asking only isConnecting: a connection already open is forgotten.
ConnectUnlessConnecting ==
    \/ isConnecting /\ UNCHANGED <<socketState, flagVars>>
    \/ ~isConnecting /\ NewSocket

\* connect(): returns at once when connected or connecting.
Connect ==
    \/ /\ isConnecting \/ isConnected
       /\ UNCHANGED <<socketState, flagVars>>
    \/ ~isConnecting /\ ~isConnected /\ NewSocket

\* startHeartbeat(): overwrites the handle, clearing nothing.
StartHeartbeat ==
    /\ heartbeats < MaxHeartbeats
    /\ heartbeats' = heartbeats + 1
    /\ heartbeatHandle' = TRUE

\* stopHeartbeat(): clears the one interval whose handle is held.
StopHeartbeat ==
    /\ heartbeats' = IF heartbeatHandle THEN heartbeats - 1 ELSE heartbeats
    /\ heartbeatHandle' = FALSE

\* scheduleReconnect() once more than maxReconnectAttempts allows.
ScheduleReconnectOnceMore ==
    IF reconnectAttempts <= MaxReconnectAttempts
    THEN /\ reconnectTimers < MaxTimers
         /\ reconnectAttempts' = reconnectAttempts + 1
         /\ reconnectTimers' = reconnectTimers + 1
    ELSE UNCHANGED timerVars

\* The retry of handleDisconnection(), with scheduleReconnect().
ScheduleReconnect ==
    IF reconnectAttempts < MaxReconnectAttempts
    THEN /\ reconnectTimers < MaxTimers
         /\ reconnectAttempts' = reconnectAttempts + 1
         /\ reconnectTimers' = reconnectTimers + 1
    ELSE UNCHANGED timerVars

\* handleDisconnection() that leaves isConnecting alone.
HandleDisconnectionStillConnecting ==
    isConnected' = FALSE /\ UNCHANGED isConnecting /\ StopHeartbeat /\ ScheduleReconnect

\* handleDisconnection() without stopHeartbeat().
HandleDisconnectionStillBeating ==
    /\ isConnected' = FALSE /\ isConnecting' = FALSE
    /\ UNCHANGED heartbeatVars
    /\ ScheduleReconnect

\* handleDisconnection()
HandleDisconnection ==
    /\ isConnected' = FALSE /\ isConnecting' = FALSE
    /\ StopHeartbeat
    /\ ScheduleReconnect

\* A socket that has closed: nothing registered on it or sent to it survives.
Closed(s) ==
    /\ socketState' = [socketState EXCEPT ![s] = "idle"]
    /\ registered' = [registered EXCEPT ![s] = {}]
    /\ replies' = [replies EXCEPT ![s] = {}]

\* An error no handler catches ends the process.
Exit == phase' = "exited"

-----------------------------------------------------------------------------
(* Life cycle, timers and cron.                                            *)

\* onApplicationBootstrap()
Bootstrap ==
    /\ phase = "starting"
    /\ phase' = "up"
    /\ Connect
    /\ UNCHANGED <<timerVars, heartbeatVars, openVars, stockTable, feedVars>>

\* The setTimeout callback of scheduleReconnect().  No shutdown clears it.
ReconnectTimerFires ==
    /\ Running
    /\ reconnectTimers > 0
    /\ reconnectTimers' = reconnectTimers - 1
    /\ Connect
    /\ UNCHANGED <<phase, reconnectAttempts, heartbeatVars, openVars, stockTable,
                   feedVars>>

\* monitorConnection() that gives up with scheduleReconnect().
MonitorConnectionGivesUp ==
    /\ phase = "up"
    /\ ~isConnected /\ ~isConnecting
    /\ reconnectAttempts < MaxReconnectAttempts
    /\ Connect
    /\ UNCHANGED <<phase, timerVars, heartbeatVars, openVars, stockTable, feedVars>>

\* monitorConnection(), every minute until the scheduler is shut down.
MonitorConnection ==
    /\ phase = "up"
    /\ ~isConnected /\ ~isConnecting
    /\ Connect
    /\ UNCHANGED <<phase, timerVars, heartbeatVars, openVars, stockTable, feedVars>>

\* onModuleDestroy() -> disconnect(): ws.close() starts a closing handshake,
\* or aborts an opening one; the 'close' event comes later.
ModuleDestroy ==
    /\ phase = "up"
    /\ phase' = "stopping"
    /\ StopHeartbeat
    /\ socketState' = [s \in Sockets |->
                         IF s = ws /\ socketState[s] # "idle"
                         THEN "closing" ELSE socketState[s]]
    /\ ws' = NoSocket
    /\ isConnected' = FALSE
    /\ isConnecting' = FALSE
    /\ UNCHANGED <<timerVars, openVars, stockTable, feedVars>>

-----------------------------------------------------------------------------
(* Events of a socket.  The listeners never ask whether s is still this.ws. *)

\* 'open', up to the await of refreshWebSocketToken().
SocketOpens(s) ==
    /\ Running
    /\ socketState[s] = "connecting"
    /\ socketState' = [socketState EXCEPT ![s] = "open"]
    /\ isConnected' = TRUE
    /\ isConnecting' = FALSE
    /\ reconnectAttempts' = 0
    /\ StartHeartbeat
    /\ opening' = [opening EXCEPT ![s] = "token"]
    /\ UNCHANGED <<phase, ws, reconnectTimers, websocketToken, stockCodeList,
                   stockTable, feedVars>>

\* A failed opening handshake: 'error' (handleConnectionError, which only
\* clears isConnecting) and 'close' follow each other with no timer between.
HandshakeFails(s) ==
    /\ Running
    /\ socketState[s] = "connecting"
    /\ Closed(s)
    /\ HandleDisconnection
    /\ UNCHANGED <<phase, ws, openVars, stockTable, subscribedStocks>>

\* KIS or the network starts to close an open socket, perhaps after 'error';
\* until 'close', isConnected stays TRUE and what is sent is dropped.
SocketClosing(s) ==
    /\ Running
    /\ socketState[s] = "open"
    /\ socketState' = [socketState EXCEPT ![s] = "closing"]
    /\ isConnecting' \in {isConnecting, FALSE}
    /\ UNCHANGED <<phase, ws, isConnected, timerVars, heartbeatVars, openVars,
                   stockTable, feedVars>>

\* 'close'
SocketCloses(s) ==
    /\ Running
    /\ socketState[s] = "closing"
    /\ Closed(s)
    /\ HandleDisconnection
    /\ UNCHANGED <<phase, ws, openVars, stockTable, subscribedStocks>>

\* 'message' whose text contains 'SUBSCRIBE SUCCESS'.
SubscribeReply(s, c) ==
    /\ Running
    /\ socketState[s] = "open"
    /\ c \in replies[s]
    /\ replies' = [replies EXCEPT ![s] = @ \ {c}]
    /\ subscribedStocks' = subscribedStocks \cup {c}
    /\ UNCHANGED <<phase, socketState, flagVars, timerVars, heartbeatVars, openVars,
                   stockTable, registered>>

-----------------------------------------------------------------------------
(* The rest of the 'open' handler, and the calls that subscribe.           *)

\* The error of a failed refresh caught by the handler, not by the process.
TokenRefreshedOrGivenUp(s) ==
    /\ Running
    /\ opening[s] = "token"
    /\ \/ /\ websocketToken' = TRUE
          /\ opening' = [opening EXCEPT ![s] = "stocks"]
       \/ /\ websocketToken' = FALSE
          /\ opening' = [opening EXCEPT ![s] = "none"]
    /\ UNCHANGED <<phase, socketState, flagVars, timerVars, heartbeatVars, stockCodeList,
                   stockTable, feedVars>>

\* refreshWebSocketToken() answered: with a key, or with null, which throws.
TokenRefreshed(s) ==
    /\ Running
    /\ opening[s] = "token"
    /\ \/ /\ websocketToken' = TRUE
          /\ opening' = [opening EXCEPT ![s] = "stocks"]
          /\ UNCHANGED phase
       \/ /\ websocketToken' = FALSE
          /\ opening' = [opening EXCEPT ![s] = "none"]
          /\ Exit
    /\ UNCHANGED <<socketState, flagVars, timerVars, heartbeatVars, stockCodeList,
                   stockTable, feedVars>>

\* subscribeStockPrice() for every code of cs, on whatever socket this.ws is
\* now: nothing unless isConnected; dropped by a socket that is closing; a
\* code already registered gets no second SUBSCRIBE SUCCESS.  KIS is taken to
\* accept a registration that is new: nothing here would notice a refusal.
Subscribe(cs) ==
    IF isConnected /\ ws \in Sockets /\ socketState[ws] = "open"
    THEN /\ registered' = [registered EXCEPT ![ws] = @ \cup cs]
         /\ replies' = [replies EXCEPT ![ws] = @ \cup (cs \ registered[ws])]
    ELSE UNCHANGED <<registered, replies>>

\* A list built anew on every connection.
PushCodesAnew == stockCodeList' = stockTable

\* stockCodeList.push for every code of the stock table.
PushCodes == stockCodeList' = stockCodeList \cup stockTable

\* Subscribing only what isSubscribed() denies.
StocksLoadedSkipsKnown(s) ==
    /\ Running
    /\ opening[s] = "stocks"
    /\ opening' = [opening EXCEPT ![s] = "none"]
    /\ PushCodes
    /\ Subscribe(stockCodeList' \ subscribedStocks)
    /\ UNCHANGED <<phase, socketState, flagVars, timerVars, heartbeatVars,
                   websocketToken, stockTable, subscribedStocks>>

\* Forgetting what is known before all of the array is subscribed.
StocksLoadedForgetsKnown(s) ==
    /\ Running
    /\ opening[s] = "stocks"
    /\ opening' = [opening EXCEPT ![s] = "none"]
    /\ PushCodes
    /\ Subscribe(stockCodeList')
    /\ subscribedStocks' = {}
    /\ UNCHANGED <<phase, socketState, flagVars, timerVars, heartbeatVars,
                   websocketToken, stockTable>>

\* stockRepository.find() answered: the array grows, all of it is subscribed.
StocksLoaded(s) ==
    /\ Running
    /\ opening[s] = "stocks"
    /\ opening' = [opening EXCEPT ![s] = "none"]
    /\ PushCodes
    /\ Subscribe(stockCodeList')
    /\ UNCHANGED <<phase, socketState, flagVars, timerVars, heartbeatVars,
                   websocketToken, stockTable, subscribedStocks>>

\* stockRepository.find() rejected.
StocksFail(s) ==
    /\ Running
    /\ opening[s] = "stocks"
    /\ opening' = [opening EXCEPT ![s] = "none"]
    /\ Exit
    /\ UNCHANGED <<socketState, flagVars, timerVars, heartbeatVars, websocketToken,
                   stockCodeList, stockTable, feedVars>>

\* unsubscribeStockPrice(c).  subscribedStocks forgets c at once, whatever
\* becomes of the request: this.ws may drop it, or KIS refuse it, as its tr_id
\* is "" and names no registration, and then KIS streams on and the error it
\* answers matches nothing.  If KIS does take c off, its answer ends in
\* SUBSCRIBE SUCCESS, which the 'message' listener takes for a subscription's.
UnsubscribeStockPrice(c) ==
    /\ Running
    /\ isConnected
    /\ subscribedStocks' = subscribedStocks \ {c}
    /\ \/ UNCHANGED <<registered, replies>>
       \/ /\ ws \in Sockets /\ socketState[ws] = "open"
          /\ registered' = [registered EXCEPT ![ws] = @ \ {c}]
          /\ replies' = [replies EXCEPT ![ws] = @ \cup {c}]
    /\ UNCHANGED <<phase, socketState, flagVars, timerVars, heartbeatVars, openVars,
                   stockTable>>

\* Another service inserts a stock or removes one.
StockTableChanges(c) ==
    /\ Running
    /\ \/ c \notin stockTable /\ stockTable' = stockTable \cup {c}
       \/ c \in stockTable /\ stockTable' = stockTable \ {c}
    /\ UNCHANGED <<phase, socketState, flagVars, timerVars, heartbeatVars, openVars,
                   feedVars>>

-----------------------------------------------------------------------------
SocketEvent(s) ==
    \/ SocketOpens(s)
    \/ HandshakeFails(s)
    \/ SocketClosing(s)
    \/ SocketCloses(s)
    \/ \E c \in Codes : SubscribeReply(s, c)

OpenHandler(s) == TokenRefreshed(s) \/ StocksLoaded(s) \/ StocksFail(s)

Next ==
    \/ Bootstrap
    \/ ReconnectTimerFires
    \/ MonitorConnection
    \/ ModuleDestroy
    \/ \E s \in Sockets : SocketEvent(s) \/ OpenHandler(s)
    \/ \E c \in UnsubscribeCodes : UnsubscribeStockPrice(c)
    \/ \E c \in Codes : StockTableChanges(c)

Spec == Init /\ [][Next]_vars

(***************************************************************************)
(* Node runs every timer and cron job that is due and every await that     *)
(* settles (WF).  Of the outside world it is assumed that an opening or    *)
(* closing handshake ends, that KIS answers a subscription it has accepted *)
(* (see Subscribe), and that KIS does not refuse every one of infinitely   *)
(* many handshakes (SF).                                                   *)
(***************************************************************************)
Fairness ==
    /\ WF_vars(Bootstrap)
    /\ WF_vars(ReconnectTimerFires)
    /\ WF_vars(MonitorConnection)
    /\ SF_vars(\E s \in Sockets : SocketOpens(s))
    /\ \A s \in Sockets :
         /\ WF_vars(SocketOpens(s) \/ HandshakeFails(s))
         /\ WF_vars(SocketCloses(s))
         /\ WF_vars(OpenHandler(s))
         /\ \A c \in Codes : WF_vars(SubscribeReply(s, c))

FairSpec == Spec /\ Fairness

-----------------------------------------------------------------------------
(* Properties.                                                             *)

\* Before onModuleDestroy, and with the process alive.
Serving == phase \in {"starting", "up"}

Up(s) == socketState[s] \in {"open", "closing"}

\* Until onModuleDestroy, whatever the order of timers, cron runs and socket
\* events, the service owns at most one socket that is not closed: this.ws.
\* connect() replaces this.ws without closing it, so a second live socket
\* would be one nobody can close.
OneLiveSocket ==
    Serving =>
        \A s \in Sockets : socketState[s] # "idle" => s = ws

\* Until onModuleDestroy, the two flags connect() and monitorConnection()
\* decide by say what the sockets are really doing.
FlagsTellTheTruth ==
    Serving =>
        /\ isConnecting <=> \E s \in Sockets : socketState[s] = "connecting"
        /\ isConnected <=> \E s \in Sockets : Up(s)

\* Exactly one heartbeat interval runs per connection: startHeartbeat()
\* never overwrites the handle of an interval that is still running.
OneHeartbeat ==
    Serving =>
        /\ heartbeats = IF heartbeatHandle THEN 1 ELSE 0
        /\ heartbeatHandle <=> isConnected

\* No subscription is sent without an approval key: an 'open' handler that
\* is past its token refresh holds one, although another connection's
\* handler may have overwritten it since.
SubscribesWithKey ==
    \A s \in Sockets :
        opening[s] = "stocks" /\ phase # "exited" => websocketToken

\* isSubscribed() never denies, but for an answer that is on its way, a code
\* that KIS streams and nobody unsubscribes by hand.  The handler of a socket
\* that has closed may subscribe the list on the next one a second time, and
\* KIS confirms a code once per connection: what one handler's requests have
\* made known, no reconnect and no other handler may forget.
StreamedIsKnown ==
    \A s \in Sockets :
        Serving /\ socketState[s] = "open" =>
            registered[s] \ UnsubscribeCodes \subseteq subscribedStocks \cup replies[s]

\* subscribedStocks is never cleared, yet on a connection whose start-up is
\* over isSubscribed() names only codes registered on that connection: the
\* whole list, which never shrinks, is subscribed again on every connection.
SubscribedIsCurrent ==
    \A s \in Sockets :
        /\ Serving /\ socketState[s] = "open"
        /\ \A t \in Sockets : opening[t] = "none"
        => subscribedStocks \ UnsubscribeCodes \subseteq registered[s]

\* The service implements the single, recovering link of KisLink.
link ==
    IF ~Serving THEN "retired"
    ELSE IF \E s \in Sockets : Up(s) THEN "up"
    ELSE IF \E s \in Sockets : socketState[s] = "connecting" THEN "dialling"
    ELSE "down"

keepAlive == IF Serving THEN heartbeats ELSE 0

Link == INSTANCE KisLink WITH link <- link, keepAlive <- keepAlive

\* Every behaviour of the sockets, flags and timers is a behaviour of the one
\* link: never a second dial while one is in progress or a link is up.
ImplementsLink == Link!LinkSafety

\* The connection comes back again and again, past maxReconnectAttempts
\* too (monitorConnection), as long as the process runs.
Reconnects == Link!LinkRecovers

\* A connection that stays up ends up streaming every code that is in the
\* list and that nobody unsubscribes, and isSubscribed() says so.
StreamsListedCodes ==
    \A c \in Codes \ UnsubscribeCodes :
        <>[](isConnected /\ phase = "up") =>
            [](c \in stockCodeList =>
                 <>(\E s \in Sockets : /\ socketState[s] = "open"
                                       /\ c \in registered[s] \cap subscribedStocks))

-----------------------------------------------------------------------------
(* What comments of the source say, and the code does not do.              *)

\* "모듈 종료 시 WebSocket 연결 정리" (line 73): after onModuleDestroy the
\* service opens no connection.
ShutdownStaysDown ==
    [][phase = "stopping" =>
         \A s \in Sockets : socketState[s] = "idle" => socketState'[s] = "idle"]_vars
=============================================================================

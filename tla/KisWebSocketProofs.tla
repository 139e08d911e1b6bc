------------------------- MODULE KisWebSocketProofs -------------------------
(***************************************************************************)
(* The safety invariants of KisWebSocket, and that it implements the       *)
(* single link of KisLink, for every set of sockets and codes and every    *)
(* bound.  The properties restrict themselves to the time before           *)
(* onModuleDestroy, so the invariant does too (LiveInv), apart from the    *)
(* types and from what the heartbeat handle implies.                       *)
(***************************************************************************)
EXTENDS KisWebSocket, TLAPS

\* A held handle is the handle of an interval that runs.
HandleInv == heartbeatHandle => heartbeats > 0

\* Nothing is registered on, or expected from, a socket that is not open yet.
FreshSockets ==
    \A s \in Sockets : ~Up(s) => registered[s] = {} /\ replies[s] = {}

\* Every code confirmed or awaiting confirmation is in the list that the
\* next connection subscribes, unless someone unsubscribes it.
ListCovers ==
    /\ subscribedStocks \subseteq stockCodeList \cup UnsubscribeCodes
    /\ \A s \in Sockets : replies[s] \subseteq stockCodeList \cup UnsubscribeCodes

\* Once every 'open' handler has ended, the whole list is registered.
ListRegistered ==
    \A s \in Sockets :
        /\ Serving /\ socketState[s] = "open"
        /\ \A t \in Sockets : opening[t] = "none"
        => stockCodeList \ UnsubscribeCodes \subseteq registered[s]

\* The strengthening of the connection invariants that is inductive.
ConnInv ==
    /\ TypeOK
    /\ HandleInv
    /\ OneLiveSocket
    /\ FlagsTellTheTruth
    /\ OneHeartbeat

-----------------------------------------------------------------------------
LEMMA InitConnInv == Init => ConnInv
  <1> SUFFICES ASSUME Init PROVE ConnInv
    OBVIOUS
  <1>1. ConnectionTypes /\ FeedTypes
    BY DEF Init, ConnectionTypes, FeedTypes, SocketStates
  <1>2. TimerTypes
    <2>1. reconnectAttempts \in 0..MaxReconnectAttempts /\ reconnectTimers \in 0..MaxTimers
      BY KisWebSocketAssumption DEF Init
    <2>2. heartbeats \in 0..MaxHeartbeats
      BY KisWebSocketAssumption DEF Init
    <2> QED
      BY <2>1, <2>2 DEF Init, TimerTypes
  <1>3. HandleInv /\ OneLiveSocket /\ FlagsTellTheTruth /\ OneHeartbeat
    BY DEF Init, HandleInv, OneLiveSocket, FlagsTellTheTruth, OneHeartbeat, Up, Serving
  <1> QED
    BY <1>1, <1>2, <1>3 DEF ConnInv, TypeOK

(***************************************************************************)
(* Type correctness: one lemma per group of variables, since an action     *)
(* touches few of them.                                                    *)
(***************************************************************************)

LEMMA StopHeartbeatTypes ==
  ASSUME TimerTypes, HandleInv, StopHeartbeat
  PROVE  heartbeats' \in 0..MaxHeartbeats /\ heartbeatHandle' \in BOOLEAN /\ HandleInv'
  <1>1. CASE heartbeatHandle
    <2>1. heartbeats \in 0..MaxHeartbeats /\ heartbeats > 0 /\ heartbeats' = heartbeats - 1
      BY <1>1 DEF TimerTypes, HandleInv, StopHeartbeat
    <2>2. heartbeats' \in 0..MaxHeartbeats
      BY <2>1, KisWebSocketAssumption
    <2> QED
      BY <2>2 DEF HandleInv, StopHeartbeat
  <1>2. CASE ~heartbeatHandle
    BY <1>2 DEF TimerTypes, HandleInv, StopHeartbeat
  <1> QED
    BY <1>1, <1>2

LEMMA HandleDisconnectionTypes ==
  ASSUME TimerTypes, HandleInv, HandleDisconnection
  PROVE  TimerTypes' /\ HandleInv'
  <1>1. heartbeats' \in 0..MaxHeartbeats /\ heartbeatHandle' \in BOOLEAN /\ HandleInv'
    BY StopHeartbeatTypes DEF HandleDisconnection
  <1>2. reconnectAttempts' \in 0..MaxReconnectAttempts /\ reconnectTimers' \in 0..MaxTimers
    BY KisWebSocketAssumption DEF TimerTypes, HandleDisconnection, ScheduleReconnect, timerVars
  <1> QED
    BY <1>1, <1>2 DEF TimerTypes

LEMMA NextTimerTypes ==
  TimerTypes /\ HandleInv /\ [Next]_vars => TimerTypes' /\ HandleInv'
  <1> SUFFICES ASSUME TimerTypes, HandleInv, [Next]_vars PROVE TimerTypes' /\ HandleInv'
    OBVIOUS
  <1>1. CASE UNCHANGED <<timerVars, heartbeatVars>>
    BY <1>1 DEF TimerTypes, HandleInv, timerVars, heartbeatVars
  <1>2. CASE ReconnectTimerFires
    BY <1>2, KisWebSocketAssumption
    DEF TimerTypes, HandleInv, ReconnectTimerFires, heartbeatVars
  <1>3. CASE ModuleDestroy
    BY <1>3, StopHeartbeatTypes DEF TimerTypes, ModuleDestroy, timerVars
  <1>4. ASSUME NEW s \in Sockets, SocketOpens(s) PROVE TimerTypes' /\ HandleInv'
    BY <1>4, KisWebSocketAssumption DEF TimerTypes, HandleInv, SocketOpens, StartHeartbeat
  <1>5. ASSUME NEW s \in Sockets, HandshakeFails(s) \/ SocketCloses(s)
        PROVE TimerTypes' /\ HandleInv'
    BY <1>5, HandleDisconnectionTypes DEF HandshakeFails, SocketCloses
  <1>6. ASSUME NEW s \in Sockets, SocketClosing(s) \/ OpenHandler(s)
        PROVE UNCHANGED <<timerVars, heartbeatVars>>
    BY <1>6 DEF SocketClosing, OpenHandler, TokenRefreshed, StocksLoaded, StocksFail
  <1>7. ASSUME NEW s \in Sockets, NEW c \in Codes, SubscribeReply(s, c)
        PROVE UNCHANGED <<timerVars, heartbeatVars>>
    BY <1>7 DEF SubscribeReply
  <1>8. ASSUME NEW c, UnsubscribeStockPrice(c) \/ StockTableChanges(c)
        PROVE UNCHANGED <<timerVars, heartbeatVars>>
    BY <1>8 DEF UnsubscribeStockPrice, StockTableChanges
  <1>9. ASSUME Bootstrap \/ MonitorConnection PROVE UNCHANGED <<timerVars, heartbeatVars>>
    BY <1>9 DEF Bootstrap, MonitorConnection
  <1>10. ASSUME UNCHANGED vars PROVE UNCHANGED <<timerVars, heartbeatVars>>
    BY <1>10 DEF vars
  <1> QED
    BY <1>1, <1>2, <1>3, <1>4, <1>5, <1>6, <1>7, <1>8, <1>9, <1>10 DEF Next, SocketEvent

LEMMA ConnectTypes ==
  ASSUME ConnectionTypes, Connect
  PROVE  /\ socketState' \in [Sockets -> SocketStates]
         /\ ws' \in Sockets \cup {NoSocket}
         /\ isConnected' \in BOOLEAN
         /\ isConnecting' \in BOOLEAN
  BY DEF ConnectionTypes, Connect, NewSocket, SocketStates, flagVars

LEMMA NextConnectionTypes == ConnectionTypes /\ [Next]_vars => ConnectionTypes'
  <1> SUFFICES ASSUME ConnectionTypes, [Next]_vars PROVE ConnectionTypes'
    OBVIOUS
  <1>1. CASE UNCHANGED <<phase, socketState, flagVars>>
    BY <1>1 DEF ConnectionTypes, flagVars
  <1>2. CASE Bootstrap \/ ReconnectTimerFires \/ MonitorConnection
    BY <1>2, ConnectTypes DEF ConnectionTypes, Bootstrap, ReconnectTimerFires,
                              MonitorConnection
  <1>3. CASE ModuleDestroy
    BY <1>3 DEF ConnectionTypes, ModuleDestroy, SocketStates
  <1>4. ASSUME NEW s \in Sockets,
               SocketOpens(s) \/ HandshakeFails(s) \/ SocketClosing(s) \/ SocketCloses(s)
        PROVE ConnectionTypes'
    BY <1>4 DEF ConnectionTypes, SocketStates, SocketOpens, HandshakeFails, SocketClosing,
                SocketCloses, Closed, HandleDisconnection
  <1>5. ASSUME NEW s \in Sockets, OpenHandler(s) PROVE ConnectionTypes'
    BY <1>5 DEF ConnectionTypes, OpenHandler, TokenRefreshed, StocksLoaded, StocksFail,
                Exit, flagVars
  <1>6. ASSUME NEW s \in Sockets, NEW c \in Codes, SubscribeReply(s, c)
        PROVE UNCHANGED <<phase, socketState, flagVars>>
    BY <1>6 DEF SubscribeReply
  <1>7. ASSUME NEW c, UnsubscribeStockPrice(c) \/ StockTableChanges(c)
        PROVE UNCHANGED <<phase, socketState, flagVars>>
    BY <1>7 DEF UnsubscribeStockPrice, StockTableChanges
  <1>8. ASSUME UNCHANGED vars PROVE UNCHANGED <<phase, socketState, flagVars>>
    BY <1>8 DEF vars
  <1> QED
    BY <1>1, <1>2, <1>3, <1>4, <1>5, <1>6, <1>7, <1>8 DEF Next, SocketEvent

LEMMA NextFeedTypes == FeedTypes /\ [Next]_vars => FeedTypes'
  <1> SUFFICES ASSUME FeedTypes, [Next]_vars PROVE FeedTypes'
    OBVIOUS
  <1>1. CASE UNCHANGED <<openVars, stockTable, feedVars>>
    BY <1>1 DEF FeedTypes, openVars, feedVars
  <1>2. ASSUME NEW s \in Sockets, SocketOpens(s) PROVE FeedTypes'
    BY <1>2 DEF FeedTypes, SocketOpens, feedVars
  <1>3. ASSUME NEW s \in Sockets, HandshakeFails(s) \/ SocketCloses(s) PROVE FeedTypes'
    BY <1>3 DEF FeedTypes, HandshakeFails, SocketCloses, Closed, openVars
  <1>4. ASSUME NEW s \in Sockets, NEW c \in Codes, SubscribeReply(s, c) PROVE FeedTypes'
    BY <1>4 DEF FeedTypes, SubscribeReply, openVars
  <1>5. ASSUME NEW s \in Sockets, TokenRefreshed(s) \/ StocksFail(s) PROVE FeedTypes'
    BY <1>5 DEF FeedTypes, TokenRefreshed, StocksFail, feedVars
  <1>6. ASSUME NEW s \in Sockets, StocksLoaded(s) PROVE FeedTypes'
    <2>1. stockCodeList' \subseteq Codes
      BY <1>6 DEF FeedTypes, StocksLoaded, PushCodes
    <2>2. registered' \in [Sockets -> SUBSET Codes] /\ replies' \in [Sockets -> SUBSET Codes]
      BY <1>6, <2>1 DEF FeedTypes, StocksLoaded, Subscribe
    <2> QED
      BY <1>6, <2>1, <2>2 DEF FeedTypes, StocksLoaded
  <1>7. ASSUME NEW c \in Codes, UnsubscribeStockPrice(c) PROVE FeedTypes'
    BY <1>7 DEF FeedTypes, UnsubscribeStockPrice, openVars
  <1>8. ASSUME NEW c \in Codes, StockTableChanges(c) PROVE FeedTypes'
    BY <1>8 DEF FeedTypes, StockTableChanges, openVars, feedVars
  <1>9. ASSUME Bootstrap \/ ReconnectTimerFires \/ MonitorConnection \/ ModuleDestroy
        PROVE UNCHANGED <<openVars, stockTable, feedVars>>
    BY <1>9 DEF Bootstrap, ReconnectTimerFires, MonitorConnection, ModuleDestroy
  <1>10. ASSUME NEW s \in Sockets, SocketClosing(s)
         PROVE UNCHANGED <<openVars, stockTable, feedVars>>
    BY <1>10 DEF SocketClosing
  <1>11. ASSUME UNCHANGED vars PROVE UNCHANGED <<openVars, stockTable, feedVars>>
    BY <1>11 DEF vars
  <1> QED
    BY <1>1, <1>2, <1>3, <1>4, <1>5, <1>6, <1>7, <1>8, <1>9, <1>10, <1>11,
       KisWebSocketAssumption
    DEF Next, SocketEvent, OpenHandler, KisWebSocketAssumption

LEMMA NextTypeOK == TypeOK /\ HandleInv /\ [Next]_vars => TypeOK' /\ HandleInv'
  BY NextTimerTypes, NextConnectionTypes, NextFeedTypes DEF TypeOK

(***************************************************************************)
(* The connection invariants.  While the process serves, all the sockets   *)
(* but this.ws are idle, so the two flags determine every socket's state;  *)
(* connect() dials only when both are FALSE, that is when all are idle.    *)
(***************************************************************************)

LEMMA ServingBefore == [Next]_vars /\ Serving' => Serving
  BY DEF Next, vars, Serving, SocketEvent, OpenHandler, Bootstrap, ReconnectTimerFires,
         MonitorConnection, ModuleDestroy, SocketOpens, HandshakeFails, SocketClosing,
         SocketCloses, SubscribeReply, TokenRefreshed, StocksLoaded, StocksFail, Exit,
         UnsubscribeStockPrice, StockTableChanges

\* connect() leaves at most one live socket and both flags right.
LEMMA ConnectKeeps ==
  ASSUME ConnInv, Serving, Connect, UNCHANGED heartbeatVars
  PROVE  OneLiveSocket' /\ FlagsTellTheTruth' /\ OneHeartbeat'
  <1>1. CASE (isConnecting \/ isConnected) /\ UNCHANGED <<socketState, flagVars>>
    BY <1>1 DEF ConnInv, OneLiveSocket, FlagsTellTheTruth, OneHeartbeat, Up,
                flagVars, heartbeatVars
  <1>2. CASE ~isConnecting /\ ~isConnected
    <2>1. PICK s \in Sockets :
             /\ socketState[s] = "idle"
             /\ socketState' = [socketState EXCEPT ![s] = "connecting"]
             /\ ws' = s /\ isConnecting' = TRUE /\ isConnected' = isConnected
      BY <1>2 DEF Connect, NewSocket
    <2>2. \A t \in Sockets : socketState[t] = "idle"
      BY <1>2 DEF ConnInv, TypeOK, ConnectionTypes, SocketStates, FlagsTellTheTruth, Up
    <2>3. \A t \in Sockets : socketState'[t] = IF t = s THEN "connecting" ELSE "idle"
      BY <2>1, <2>2 DEF ConnInv, TypeOK, ConnectionTypes
    <2>4. OneLiveSocket'
      BY <2>1, <2>3 DEF OneLiveSocket
    <2>5. FlagsTellTheTruth'
      BY <1>2, <2>1, <2>3 DEF FlagsTellTheTruth, Up
    <2>6. OneHeartbeat'
      BY <1>2, <2>1 DEF ConnInv, OneHeartbeat, heartbeatVars
    <2> QED
      BY <2>4, <2>5, <2>6
  <1> QED
    BY <1>1, <1>2 DEF Connect

\* A handshake that fails or a socket that closes leaves every socket idle.
LEMMA CloseKeeps ==
  ASSUME ConnInv, Serving, NEW s \in Sockets, socketState[s] # "idle",
         Closed(s), HandleDisconnection
  PROVE  OneLiveSocket' /\ FlagsTellTheTruth' /\ OneHeartbeat'
  <1>1. \A t \in Sockets : socketState'[t] = "idle"
    BY DEF ConnInv, TypeOK, ConnectionTypes, OneLiveSocket, Closed
  <1>2. ~isConnected' /\ ~isConnecting' /\ ~heartbeatHandle'
    BY DEF HandleDisconnection, StopHeartbeat
  <1>3. heartbeats' = 0
    <2>1. CASE heartbeatHandle
      BY <2>1 DEF ConnInv, OneHeartbeat, HandleDisconnection, StopHeartbeat
    <2>2. CASE ~heartbeatHandle
      BY <2>2 DEF ConnInv, OneHeartbeat, HandleDisconnection, StopHeartbeat
    <2> QED
      BY <2>1, <2>2
  <1>4. OneLiveSocket'
    BY <1>1 DEF OneLiveSocket
  <1>5. FlagsTellTheTruth'
    BY <1>1, <1>2 DEF FlagsTellTheTruth, Up
  <1>6. OneHeartbeat'
    BY <1>2, <1>3 DEF OneHeartbeat
  <1> QED
    BY <1>4, <1>5, <1>6

LEMMA NextConnInv == ConnInv /\ [Next]_vars => ConnInv'
  <1> SUFFICES ASSUME ConnInv, [Next]_vars PROVE ConnInv'
    OBVIOUS
  <1> DEFINE Goal == OneLiveSocket' /\ FlagsTellTheTruth' /\ OneHeartbeat'
  <1>1. TypeOK' /\ HandleInv'
    BY NextTypeOK DEF ConnInv
  <1>2. ASSUME ~Serving' PROVE Goal
    BY <1>2 DEF OneLiveSocket, FlagsTellTheTruth, OneHeartbeat
  <1>3. ASSUME Serving' PROVE Goal
    <2>0. Serving
      BY <1>3, ServingBefore
    <2>1. CASE UNCHANGED <<socketState, flagVars, heartbeatVars>>
      BY <2>0, <2>1 DEF ConnInv, OneLiveSocket, FlagsTellTheTruth, OneHeartbeat, Up,
                        flagVars, heartbeatVars
    <2>2. CASE Bootstrap \/ ReconnectTimerFires \/ MonitorConnection
      BY <2>0, <2>2, ConnectKeeps DEF Bootstrap, ReconnectTimerFires, MonitorConnection
    <2>3. CASE ModuleDestroy
      BY <1>3, <2>3 DEF ModuleDestroy, Serving
    <2>4. ASSUME NEW s \in Sockets, SocketOpens(s) PROVE Goal
      <3>1. s = ws /\ ws' = ws
        BY <2>0, <2>4 DEF ConnInv, OneLiveSocket, SocketOpens
      <3>2. \A t \in Sockets : socketState'[t] = IF t = s THEN "open" ELSE "idle"
        BY <2>0, <2>4 DEF ConnInv, TypeOK, ConnectionTypes, OneLiveSocket, SocketOpens
      <3>3. ~isConnected
        BY <2>0, <2>4 DEF ConnInv, OneLiveSocket, FlagsTellTheTruth, SocketOpens, Up
      <3>4. heartbeats = 0
        BY <2>0, <3>3 DEF ConnInv, OneHeartbeat
      <3>5. heartbeats' = 1 /\ heartbeatHandle' /\ isConnected' /\ ~isConnecting'
        BY <2>4, <3>4 DEF SocketOpens, StartHeartbeat
      <3>6. OneLiveSocket'
        BY <3>1, <3>2 DEF OneLiveSocket
      <3>7. FlagsTellTheTruth'
        BY <3>2, <3>5 DEF FlagsTellTheTruth, Up
      <3>8. OneHeartbeat'
        BY <3>5 DEF OneHeartbeat
      <3> QED
        BY <3>6, <3>7, <3>8
    <2>5. ASSUME NEW s \in Sockets, HandshakeFails(s) \/ SocketCloses(s) PROVE Goal
      BY <2>0, <2>5, CloseKeeps DEF HandshakeFails, SocketCloses
    <2>6. ASSUME NEW s \in Sockets, SocketClosing(s) PROVE Goal
      <3>1. \A t \in Sockets : socketState'[t] = IF t = s THEN "closing" ELSE socketState[t]
        BY <2>6 DEF ConnInv, TypeOK, ConnectionTypes, SocketClosing
      <3>2. socketState[s] = "open" /\ ws' = ws /\ isConnected' = isConnected
        BY <2>6 DEF SocketClosing
      <3>3. ~isConnecting
        BY <2>0, <3>2 DEF ConnInv, OneLiveSocket, FlagsTellTheTruth
      <3>4. ~isConnecting'
        BY <2>6, <3>3 DEF SocketClosing
      <3>5. OneLiveSocket'
        BY <2>0, <3>1, <3>2 DEF ConnInv, OneLiveSocket
      <3>6. FlagsTellTheTruth'
        BY <2>0, <3>1, <3>2, <3>3, <3>4 DEF ConnInv, FlagsTellTheTruth, Up
      <3>7. OneHeartbeat'
        BY <2>0, <2>6, <3>2 DEF ConnInv, OneHeartbeat, SocketClosing, heartbeatVars
      <3> QED
        BY <3>5, <3>6, <3>7
    <2>7. ASSUME NEW s \in Sockets, NEW c \in Codes, SubscribeReply(s, c)
          PROVE UNCHANGED <<socketState, flagVars, heartbeatVars>>
      BY <2>7 DEF SubscribeReply
    <2>8. ASSUME NEW s \in Sockets, OpenHandler(s)
          PROVE UNCHANGED <<socketState, flagVars, heartbeatVars>>
      BY <2>8 DEF OpenHandler, TokenRefreshed, StocksLoaded, StocksFail
    <2>9. ASSUME NEW c, UnsubscribeStockPrice(c) \/ StockTableChanges(c)
          PROVE UNCHANGED <<socketState, flagVars, heartbeatVars>>
      BY <2>9 DEF UnsubscribeStockPrice, StockTableChanges
    <2>10. ASSUME UNCHANGED vars PROVE UNCHANGED <<socketState, flagVars, heartbeatVars>>
      BY <2>10 DEF vars
    <2> QED
      BY <2>1, <2>2, <2>3, <2>4, <2>5, <2>6, <2>7, <2>8, <2>9, <2>10
      DEF Next, SocketEvent
  <1> QED
    BY <1>1, <1>2, <1>3 DEF ConnInv

LEMMA ConnInvAlways == Spec => []ConnInv
  BY InitConnInv, NextConnInv, PTL DEF Spec

\* Every variable keeps its type, and the bounded counters their bounds.
THEOREM TypeCorrect == Spec => []TypeOK
  BY ConnInvAlways, PTL DEF ConnInv

\* However timers, cron runs and socket events interleave, there is never a
\* second live socket, and never one that this.ws does not name.
THEOREM NeverTwoSockets == Spec => []OneLiveSocket
  BY ConnInvAlways, PTL DEF ConnInv

\* isConnected and isConnecting always agree with the sockets.
THEOREM FlagsAreTruthful == Spec => []FlagsTellTheTruth
  BY ConnInvAlways, PTL DEF ConnInv

\* No heartbeat interval outlives its connection, and none is started twice.
THEOREM NeverTwoHeartbeats == Spec => []OneHeartbeat
  BY ConnInvAlways, PTL DEF ConnInv

-----------------------------------------------------------------------------
(***************************************************************************)
(* Implementation of KisLink: link is a function of the sockets, and each  *)
(* event of a socket is one step of the link.                              *)
(***************************************************************************)

LEMMA LinkNextStep == ConnInv /\ ConnInv' /\ [Next]_vars => [Link!LinkNext]_(Link!linkVars)
  <1> SUFFICES ASSUME ConnInv, ConnInv', [Next]_vars
               PROVE  [Link!LinkNext]_(Link!linkVars)
    OBVIOUS
  <1> USE DEF Link!LinkNext, Link!linkVars
  <1>1. CASE ~Serving
    <2>1. ~Serving'
      BY <1>1, ServingBefore
    <2> QED
      BY <1>1, <2>1 DEF link, keepAlive
  <1>2. CASE Serving /\ ~Serving'
    <2>1. link # "retired" /\ link' = "retired" /\ keepAlive' = 0
      BY <1>2 DEF link, keepAlive
    <2> QED
      BY <2>1 DEF Link!Retire
  <1>3. CASE Serving /\ Serving'
    <2>1. CASE UNCHANGED <<socketState, heartbeatVars>>
      BY <1>3, <2>1 DEF link, keepAlive, Up, heartbeatVars
    <2>2. CASE Connect /\ UNCHANGED heartbeatVars /\ ~UNCHANGED socketState
      <3>1. PICK s \in Sockets :
               /\ ~isConnecting /\ ~isConnected
               /\ socketState' = [socketState EXCEPT ![s] = "connecting"]
        BY <2>2 DEF Connect, NewSocket, flagVars
      <3>2. \A t \in Sockets : socketState[t] = "idle"
        BY <1>3, <3>1 DEF ConnInv, TypeOK, ConnectionTypes, SocketStates,
                          FlagsTellTheTruth, Up
      <3>3. \A t \in Sockets : socketState'[t] = IF t = s THEN "connecting" ELSE "idle"
        BY <3>1, <3>2 DEF ConnInv, TypeOK, ConnectionTypes
      <3>4. link = "down"
        BY <1>3, <3>2 DEF link, Up
      <3>5. link' = "dialling"
        BY <1>3, <3>3 DEF link, Up
      <3>6. keepAlive' = keepAlive
        BY <1>3, <2>2 DEF keepAlive, heartbeatVars
      <3> QED
        BY <3>4, <3>5, <3>6 DEF Link!Dial
    <2>3. ASSUME NEW s \in Sockets, SocketOpens(s) PROVE Link!Establish
      <3>1. socketState[s] = "connecting" /\ socketState'[s] = "open"
        BY <2>3 DEF ConnInv, TypeOK, ConnectionTypes, SocketOpens
      <3>2. \A t \in Sockets : ~Up(t)
        BY <1>3, <3>1 DEF ConnInv, OneLiveSocket, Up
      <3>3. link = "dialling"
        BY <1>3, <3>1, <3>2 DEF link
      <3>4. link' = "up"
        BY <1>3, <3>1 DEF link, Up
      <3>5. heartbeats = 0
        BY <1>3, <3>2 DEF ConnInv, OneHeartbeat, FlagsTellTheTruth
      <3>6. keepAlive' = 1
        BY <1>3, <2>3, <3>5 DEF keepAlive, SocketOpens, StartHeartbeat
      <3> QED
        BY <3>3, <3>4, <3>6 DEF Link!Establish
    <2>4. ASSUME NEW s \in Sockets, HandshakeFails(s) \/ SocketCloses(s)
          PROVE Link!DialFails \/ Link!Lose
      <3>1. \A t \in Sockets : socketState'[t] = "idle"
        BY <1>3, <2>4 DEF ConnInv, TypeOK, ConnectionTypes, OneLiveSocket,
                          HandshakeFails, SocketCloses, Closed
      <3>2. link' = "down"
        BY <1>3, <3>1 DEF link, Up
      <3>3. keepAlive' = 0
        <4>1. ~isConnected'
          BY <2>4 DEF HandshakeFails, SocketCloses, HandleDisconnection
        <4> QED
          BY <1>3, <4>1 DEF ConnInv, OneHeartbeat, keepAlive
      <3>4. CASE HandshakeFails(s)
        <4>1. socketState[s] = "connecting" /\ \A t \in Sockets : ~Up(t)
          BY <1>3, <3>4 DEF ConnInv, OneLiveSocket, HandshakeFails, Up
        <4>2. link = "dialling"
          BY <1>3, <4>1 DEF link
        <4>3. keepAlive = 0
          BY <1>3, <4>1 DEF ConnInv, OneHeartbeat, FlagsTellTheTruth, keepAlive
        <4> QED
          BY <3>2, <3>3, <4>2, <4>3 DEF Link!DialFails
      <3>5. CASE SocketCloses(s)
        <4>1. link = "up"
          BY <1>3, <3>5 DEF link, Up, SocketCloses
        <4> QED
          BY <3>2, <3>3, <4>1 DEF Link!Lose
      <3> QED
        BY <2>4, <3>4, <3>5
    <2>5. ASSUME NEW s \in Sockets, SocketClosing(s) PROVE UNCHANGED Link!linkVars
      <3>1. Up(s) /\ Up(s)' /\ keepAlive' = keepAlive
        BY <1>3, <2>5 DEF ConnInv, TypeOK, ConnectionTypes, SocketClosing, Up, keepAlive,
                          heartbeatVars
      <3> QED
        BY <1>3, <3>1 DEF link
    <2>6. ASSUME Bootstrap \/ ReconnectTimerFires \/ MonitorConnection
          PROVE Connect /\ UNCHANGED heartbeatVars
      BY <2>6 DEF Bootstrap, ReconnectTimerFires, MonitorConnection
    <2>7. ~ModuleDestroy
      BY <1>3 DEF ModuleDestroy, Serving
    <2>8. ASSUME NEW s \in Sockets,
                 OpenHandler(s) \/ \E c \in Codes : SubscribeReply(s, c)
          PROVE UNCHANGED <<socketState, heartbeatVars>>
      BY <2>8 DEF OpenHandler, TokenRefreshed, StocksLoaded, StocksFail, SubscribeReply
    <2>9. ASSUME NEW c, UnsubscribeStockPrice(c) \/ StockTableChanges(c)
          PROVE UNCHANGED <<socketState, heartbeatVars>>
      BY <2>9 DEF UnsubscribeStockPrice, StockTableChanges
    <2>10. ASSUME UNCHANGED vars PROVE UNCHANGED <<socketState, heartbeatVars>>
      BY <2>10 DEF vars
    <2> QED
      BY <2>1, <2>2, <2>3, <2>4, <2>5, <2>6, <2>7, <2>8, <2>9, <2>10
      DEF Next, SocketEvent
  <1> QED
    BY <1>1, <1>2, <1>3

\* The service implements the one link of KisLink: it never dials while a
\* connection is open or being opened, and keeps one keep-alive timer for
\* exactly as long as a connection lasts.
THEOREM ImplementsTheLink == Spec => ImplementsLink
  <1>1. Init => Link!LinkInit
    BY DEF Init, Link!LinkInit, link, keepAlive, Up, Serving
  <1>2. ConnInv /\ ConnInv' /\ [Next]_vars => [Link!LinkNext]_(Link!linkVars)
    BY LinkNextStep
  <1> QED
    BY <1>1, <1>2, ConnInvAlways, PTL DEF Spec, ImplementsLink, Link!LinkSafety

-----------------------------------------------------------------------------
(***************************************************************************)
(* The subscription invariants.  They rest on OneLiveSocket: a code is     *)
(* registered on, confirmed by or unsubscribed from the only open socket.  *)
(***************************************************************************)

FeedInv ==
    /\ ConnInv
    /\ SubscribesWithKey
    /\ FreshSockets
    /\ ListCovers
    /\ ListRegistered
    /\ StreamedIsKnown

LEMMA InitFeedInv == Init => FeedInv
  <1> SUFFICES ASSUME Init PROVE FeedInv
    OBVIOUS
  <1>1. SubscribesWithKey /\ FreshSockets /\ ListCovers
    BY DEF Init, SubscribesWithKey, FreshSockets, ListCovers
  <1>2. ListRegistered /\ StreamedIsKnown
    BY DEF Init, ListRegistered, StreamedIsKnown
  <1> QED
    BY <1>1, <1>2, InitConnInv DEF FeedInv

\* Another connection's handler can replace the key, but cannot clear it and
\* let the process live on.
LEMMA KeyKept == FeedInv /\ [Next]_vars => SubscribesWithKey'
  <1> SUFFICES ASSUME FeedInv, [Next]_vars PROVE SubscribesWithKey'
    OBVIOUS
  <1> USE DEF FeedInv, ConnInv, TypeOK, FeedTypes, SubscribesWithKey
  <1>1. CASE UNCHANGED openVars
    <2>1. phase = "exited" => phase' = "exited"
      BY DEF Next, vars, SocketEvent, OpenHandler, Bootstrap, ReconnectTimerFires,
             MonitorConnection, ModuleDestroy, SocketOpens, HandshakeFails,
             SocketClosing, SocketCloses, SubscribeReply, TokenRefreshed,
             StocksLoaded, StocksFail, UnsubscribeStockPrice, StockTableChanges, Running
    <2> QED
      BY <1>1, <2>1 DEF openVars
  <1>2. ASSUME NEW s \in Sockets, SocketOpens(s) PROVE SubscribesWithKey'
    BY <1>2 DEF SocketOpens
  <1>3. ASSUME NEW s \in Sockets, TokenRefreshed(s) PROVE SubscribesWithKey'
    BY <1>3 DEF TokenRefreshed, Exit
  <1>4. ASSUME NEW s \in Sockets, StocksLoaded(s) PROVE SubscribesWithKey'
    BY <1>4 DEF StocksLoaded
  <1>5. ASSUME NEW s \in Sockets, StocksFail(s) PROVE SubscribesWithKey'
    BY <1>5 DEF StocksFail, Exit
  <1>6. ASSUME NEW s \in Sockets,
               \/ HandshakeFails(s) \/ SocketClosing(s) \/ SocketCloses(s)
               \/ \E c \in Codes : SubscribeReply(s, c)
        PROVE UNCHANGED openVars
    BY <1>6 DEF HandshakeFails, SocketClosing, SocketCloses, SubscribeReply
  <1>7. ASSUME NEW c, UnsubscribeStockPrice(c) \/ StockTableChanges(c)
        PROVE UNCHANGED openVars
    BY <1>7 DEF UnsubscribeStockPrice, StockTableChanges
  <1>8. ASSUME Bootstrap \/ ReconnectTimerFires \/ MonitorConnection \/ ModuleDestroy
        PROVE UNCHANGED openVars
    BY <1>8 DEF Bootstrap, ReconnectTimerFires, MonitorConnection, ModuleDestroy
  <1>9. ASSUME UNCHANGED vars PROVE UNCHANGED openVars
    BY <1>9 DEF vars
  <1> QED
    BY <1>1, <1>2, <1>3, <1>4, <1>5, <1>6, <1>7, <1>8, <1>9
    DEF Next, SocketEvent, OpenHandler

\* What one action must do to the subscriptions.
LEMMA FeedStep == FeedInv /\ ConnInv' /\ [Next]_vars =>
                    FreshSockets' /\ ListCovers' /\ ListRegistered' /\ StreamedIsKnown'
  <1> DEFINE Goal == FreshSockets' /\ ListCovers' /\ ListRegistered' /\ StreamedIsKnown'
  <1> SUFFICES ASSUME FeedInv, ConnInv', [Next]_vars PROVE Goal
    OBVIOUS
  <1>0. Serving' => Serving
    BY ServingBefore
  <1> USE DEF FeedInv, ConnInv, TypeOK, ConnectionTypes, FeedTypes
  <1>1. ASSUME Bootstrap \/ ReconnectTimerFires \/ MonitorConnection PROVE Goal
    <2>1. UNCHANGED <<openVars, feedVars>>
      BY <1>1 DEF Bootstrap, ReconnectTimerFires, MonitorConnection
    <2>2. \A t \in Sockets : /\ Up(t)' <=> Up(t)
                             /\ socketState'[t] = "open" <=> socketState[t] = "open"
      BY <1>1 DEF Bootstrap, ReconnectTimerFires, MonitorConnection, Connect,
                  NewSocket, Up
    <2> QED
      BY <1>0, <2>1, <2>2 DEF FreshSockets, ListCovers, ListRegistered, StreamedIsKnown,
                              openVars, feedVars
  <1>2. ASSUME ModuleDestroy PROVE Goal
    <2>1. UNCHANGED <<openVars, feedVars>> /\ ~Serving'
      BY <1>2 DEF ModuleDestroy, Serving
    <2>2. \A t \in Sockets : Up(t) => Up(t)'
      BY <1>2 DEF ModuleDestroy, Up
    <2> QED
      BY <2>1, <2>2 DEF FreshSockets, ListCovers, ListRegistered, StreamedIsKnown,
                        openVars, feedVars
  <1>3. ASSUME NEW s \in Sockets, SocketOpens(s) PROVE Goal
    <2>1. registered[s] = {} /\ replies[s] = {}
      BY <1>3 DEF SocketOpens, FreshSockets, Up
    <2>2. UNCHANGED <<stockCodeList, feedVars>> /\ opening'[s] = "token"
      BY <1>3 DEF SocketOpens
    <2>3. \A t \in Sockets : socketState'[t] = IF t = s THEN "open" ELSE socketState[t]
      BY <1>3 DEF SocketOpens
    <2>4. FreshSockets' /\ ListCovers'
      BY <2>2, <2>3 DEF FreshSockets, ListCovers, Up, feedVars
    <2>5. ListRegistered'
      BY <2>2 DEF ListRegistered
    <2>6. StreamedIsKnown'
      BY <1>0, <2>1, <2>2, <2>3 DEF StreamedIsKnown, feedVars
    <2> QED
      BY <2>4, <2>5, <2>6
  <1>4. ASSUME NEW s \in Sockets, HandshakeFails(s) \/ SocketCloses(s) PROVE Goal
    <2>1. /\ UNCHANGED <<openVars, subscribedStocks>>
          /\ socketState' = [socketState EXCEPT ![s] = "idle"]
          /\ registered' = [registered EXCEPT ![s] = {}]
          /\ replies' = [replies EXCEPT ![s] = {}]
      BY <1>4 DEF HandshakeFails, SocketCloses, Closed
    <2>2. \A t \in Sockets :
             /\ t = s => /\ socketState'[t] = "idle"
                         /\ registered'[t] = {} /\ replies'[t] = {}
             /\ t # s => /\ socketState'[t] = socketState[t]
                         /\ registered'[t] = registered[t] /\ replies'[t] = replies[t]
      BY <2>1
    <2> QED
      BY <1>0, <2>1, <2>2 DEF FreshSockets, ListCovers, ListRegistered, StreamedIsKnown,
                              Up, openVars
  <1>5. ASSUME NEW s \in Sockets, SocketClosing(s) PROVE Goal
    <2>1. UNCHANGED <<openVars, feedVars>> /\ socketState[s] = "open"
      BY <1>5 DEF SocketClosing
    <2>2. \A t \in Sockets : socketState'[t] = IF t = s THEN "closing" ELSE socketState[t]
      BY <1>5 DEF SocketClosing
    <2> QED
      BY <1>0, <2>1, <2>2 DEF FreshSockets, ListCovers, ListRegistered, StreamedIsKnown,
                              Up, openVars, feedVars
  <1>6. ASSUME NEW s \in Sockets, NEW c \in Codes, SubscribeReply(s, c) PROVE Goal
    <2>1. /\ UNCHANGED <<openVars, socketState, registered>>
          /\ socketState[s] = "open" /\ c \in replies[s]
          /\ subscribedStocks' = subscribedStocks \cup {c}
      BY <1>6 DEF SubscribeReply
    <2>2. \A t \in Sockets : replies'[t] = IF t = s THEN replies[t] \ {c} ELSE replies[t]
      BY <1>6 DEF SubscribeReply
    <2> QED
      BY <1>0, <2>1, <2>2 DEF FreshSockets, ListCovers, ListRegistered, StreamedIsKnown,
                              Up, openVars
  <1>7. ASSUME NEW s \in Sockets, TokenRefreshed(s) \/ StocksFail(s) PROVE Goal
    <2>1. UNCHANGED <<socketState, stockCodeList, feedVars>>
      BY <1>7 DEF TokenRefreshed, StocksFail
    <2>2. ListRegistered'
      BY <1>7, <2>1 DEF TokenRefreshed, StocksFail, Exit, ListRegistered, Serving
    <2> QED
      BY <1>0, <2>1, <2>2 DEF FreshSockets, ListCovers, StreamedIsKnown, Up, feedVars
  <1>8. ASSUME NEW s \in Sockets, StocksLoaded(s) PROVE Goal
    <2>1. /\ UNCHANGED <<phase, socketState, flagVars, subscribedStocks>>
          /\ stockCodeList' = stockCodeList \cup stockTable
          /\ Subscribe(stockCodeList')
      BY <1>8 DEF StocksLoaded, PushCodes
    <2>2. CASE isConnected /\ ws \in Sockets /\ socketState[ws] = "open"
      <3>1. \A t \in Sockets :
               /\ registered'[t] = IF t = ws THEN registered[t] \cup stockCodeList'
                                   ELSE registered[t]
               /\ replies'[t] = IF t = ws
                                THEN replies[t] \cup (stockCodeList' \ registered[t])
                                ELSE replies[t]
        BY <2>1, <2>2 DEF Subscribe
      <3>2. FreshSockets'
        BY <2>1, <2>2, <3>1 DEF FreshSockets, Up
      <3>3. ListCovers'
        BY <2>1, <3>1 DEF ListCovers
      <3>4. ListRegistered'
        BY <1>0, <2>1, <3>1 DEF ListRegistered, OneLiveSocket
      <3>5. StreamedIsKnown'
        BY <1>0, <2>1, <3>1 DEF StreamedIsKnown
      <3> QED
        BY <3>2, <3>3, <3>4, <3>5
    <2>3. CASE ~(isConnected /\ ws \in Sockets /\ socketState[ws] = "open")
      <3>1. UNCHANGED <<registered, replies>>
        BY <2>1, <2>3 DEF Subscribe
      <3>2. ASSUME Serving PROVE \A t \in Sockets : socketState[t] # "open"
        BY <2>3, <3>2 DEF OneLiveSocket, FlagsTellTheTruth, Up
      <3> QED
        BY <1>0, <2>1, <3>1, <3>2 DEF FreshSockets, ListCovers, ListRegistered,
                                      StreamedIsKnown, Up
    <2> QED
      BY <2>2, <2>3
  <1>9. ASSUME NEW c \in UnsubscribeCodes, UnsubscribeStockPrice(c) PROVE Goal
    <2>1. /\ UNCHANGED <<phase, socketState, flagVars, openVars>>
          /\ isConnected /\ subscribedStocks' = subscribedStocks \ {c}
      BY <1>9 DEF UnsubscribeStockPrice
    <2>2. \A t \in Sockets :
             /\ registered'[t] \subseteq registered[t]
             /\ registered[t] \ {c} \subseteq registered'[t]
             /\ replies'[t] \subseteq replies[t] \cup {c}
             /\ replies[t] \subseteq replies'[t]
             /\ socketState[t] # "open" => replies'[t] = replies[t]
      BY <1>9 DEF UnsubscribeStockPrice
    <2>3. FreshSockets'
      BY <2>1, <2>2 DEF FreshSockets, Up
    <2>4. ListCovers'
      BY <2>1, <2>2 DEF ListCovers, openVars
    <2>5. ListRegistered'
      BY <1>0, <2>1, <2>2 DEF ListRegistered, openVars
    <2>6. StreamedIsKnown'
      BY <1>0, <2>1, <2>2 DEF StreamedIsKnown
    <2> QED
      BY <2>3, <2>4, <2>5, <2>6
  <1>10. ASSUME NEW c \in Codes, StockTableChanges(c) PROVE Goal
    BY <1>0, <1>10 DEF StockTableChanges, FreshSockets, ListCovers, ListRegistered,
                       StreamedIsKnown, Up, openVars, feedVars
  <1>11. ASSUME UNCHANGED vars PROVE Goal
    BY <1>0, <1>11 DEF vars, FreshSockets, ListCovers, ListRegistered, StreamedIsKnown,
                       Up, openVars, feedVars
  <1> QED
    BY <1>1, <1>2, <1>3, <1>4, <1>5, <1>6, <1>7, <1>8, <1>9, <1>10, <1>11
    DEF Next, SocketEvent, OpenHandler

LEMMA FeedInvAlways == Spec => []FeedInv
  <1>1. FeedInv /\ [Next]_vars => FeedInv'
    <2> SUFFICES ASSUME FeedInv, [Next]_vars PROVE FeedInv'
      OBVIOUS
    <2>1. ConnInv'
      BY NextConnInv DEF FeedInv
    <2> QED
      BY <2>1, KeyKept, FeedStep DEF FeedInv
  <1> QED
    BY <1>1, InitFeedInv, PTL DEF Spec

\* A subscription request always carries an approval key.
THEOREM KeyBeforeSubscribe == Spec => []SubscribesWithKey
  BY FeedInvAlways, PTL DEF FeedInv

\* What KIS streams and nobody unsubscribes stays known, or its confirmation
\* is on its way, whichever handlers were overtaken by a reconnect.
THEOREM StreamedAlwaysKnown == Spec => []StreamedIsKnown
  BY FeedInvAlways, PTL DEF FeedInv

\* Although the map of subscribed stocks survives a lost connection, what it
\* says is true again as soon as the next connection's start-up is over.
THEOREM SubscribedAlwaysCurrent == Spec => []SubscribedIsCurrent
  <1>1. FeedInv => SubscribedIsCurrent
    BY DEF FeedInv, ListCovers, ListRegistered, SubscribedIsCurrent
  <1> QED
    BY <1>1, FeedInvAlways, PTL
=============================================================================

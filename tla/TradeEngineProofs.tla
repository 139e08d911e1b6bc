-------------------------- MODULE TradeEngineProofs --------------------------
(***************************************************************************)
(* The properties of TradeEngine for any number of trades, strategies and  *)
(* requests, whatever the conditions.  SignalsAreFresh speaks of the table *)
(* of signals; what makes it inductive is that the rows a handler has      *)
(* listed, and the signal it is saving, were seen active as well, and that *)
(* a strategy which is still listed has no signal.                         *)
(***************************************************************************)
EXTENDS TradeEngine, FiniteSetTheorems, TLAPS

\* What a handler that is not past its listing has seen includes the table.
SeesTheTable ==
    \A t \in Trades, s \in Strategies :
        phase[t] \in {"update", "stock", "list"} => strategies[s] \in seen[t][s]

\* Listed strategies were seen active; only the loop has any.
QueueIsFresh ==
    \A t \in Trades, s \in Strategies :
        queue[t][s] # None =>
            /\ phase[t] = "turns"
            /\ queue[t][s].status = "active" /\ queue[t][s] \in seen[t][s]

\* What happened to a strategy whose signal is being saved, or was.
HadItsTurn(t, g) ==
    /\ phase[t] = "turns" /\ g.trade = t
    /\ g.strategy \in ran[t] /\ queue[t][g.strategy] = None
    /\ g.row.status = "active" /\ g.row \in seen[t][g.strategy]

PendingIsFresh ==
    \A t \in Trades :
        pending[t] # None =>
            /\ HadItsTurn(t, pending[t])
            /\ \A g \in signals : ~(g.trade = t /\ g.strategy = pending[t].strategy)

SignalsHadTheirTurn == \A g \in signals : HadItsTurn(g.trade, g)

\* A strategy that was active all along is listed until its turn.
ActiveIsListed ==
    \A t \in Trades, s \in Strategies :
        /\ phase[t] = "turns"
        /\ \A row \in seen[t][s] : row # None /\ row.status = "active"
        => queue[t][s] # None \/ s \in ran[t]

\* An update holds nothing in the columns that were not sent.
UpdatesHoldWhatWasSent ==
    \A s \in Strategies :
        updates[s] # None =>
            /\ "status" \notin updates[s].sent => updates[s].status = None
            /\ "conditions" \notin updates[s].sent => updates[s].conditions = None

TableTypes ==
    /\ stockExists \in BOOLEAN
    /\ strategies \in [Strategies -> Row \cup {None}]
    /\ created \subseteq Strategies
    /\ signals \subseteq Signal

HandlerTypes ==
    /\ phase \in [Trades -> Phases]
    /\ queue \in [Trades -> [Strategies -> Row \cup {None}]]
    /\ pending \in [Trades -> Signal \cup {None}]

RequestTypes ==
    /\ updates \in [Strategies -> Update \cup {None}]
    /\ toggling \in [Strategies -> SUBSET Status]
    /\ requests \in 0..MaxRequests

HistoryTypes ==
    /\ seen \in [Trades -> [Strategies -> SUBSET (Row \cup {None})]]
    /\ ran \in [Trades -> SUBSET Strategies]

Types4 == TableTypes /\ HandlerTypes /\ RequestTypes /\ HistoryTypes

\* The parts about a trade, which the handlers and what they see decide.
TradeInv ==
    /\ SeesTheTable /\ QueueIsFresh /\ PendingIsFresh
    /\ SignalsHadTheirTurn /\ ActiveIsListed

Inv == Types4 /\ TradeInv /\ UpdatesHoldWhatWasSent

-----------------------------------------------------------------------------
LEMMA InitInv == Init => Inv
  <1> SUFFICES ASSUME Init PROVE Inv
    OBVIOUS
  <1>1. TableTypes /\ HandlerTypes /\ HistoryTypes
    BY DEF Init, Nobody, TableTypes, HandlerTypes, HistoryTypes, Phases
  <1>2. RequestTypes
    BY TradeEngineAssumption DEF Init, Nobody, RequestTypes
  <1>3. TradeInv
    BY DEF Init, Nobody, TradeInv, SeesTheTable, QueueIsFresh, PendingIsFresh,
           SignalsHadTheirTurn, ActiveIsListed
  <1>4. UpdatesHoldWhatWasSent
    BY DEF Init, Nobody, UpdatesHoldWhatWasSent
  <1> QED
    BY <1>1, <1>2, <1>3, <1>4 DEF Inv, Types4

\* Only a handler that is past its listing has a queue, a signal being saved,
\* or signals.
LEMMA BeforeTheTurns ==
  ASSUME Inv, NEW t \in Trades, phase[t] # "turns"
  PROVE  /\ pending[t] = None
         /\ \A s \in Strategies : queue[t][s] = None
         /\ \A g \in signals : g.trade # t
  BY DEF Inv, TradeInv, QueueIsFresh, PendingIsFresh, SignalsHadTheirTurn, HadItsTurn

\* A step that is not of a handler, and that lets the trades which are not
\* listed yet see the table, keeps what is known of trades.
LEMMA TableChange ==
  ASSUME Inv, Watch, strategies' \in [Strategies -> Row \cup {None}],
         UNCHANGED <<signals, handlerVars, ran>>
  PROVE  TradeInv' /\ HistoryTypes' /\ HandlerTypes'
  <1> USE DEF handlerVars
  <1>1. HandlerTypes'
    BY DEF Inv, Types4, HandlerTypes
  <1>2. HistoryTypes'
    BY DEF Inv, Types4, HistoryTypes, Watch
  <1>3. SeesTheTable'
    BY DEF Inv, Types4, HandlerTypes, Watch, SeesTheTable
  <1>4. ASSUME NEW t \in Trades, phase[t] = "turns" PROVE seen'[t] = seen[t]
    BY <1>4 DEF Watch
  <1>5. QueueIsFresh'
    BY <1>4 DEF Inv, TradeInv, QueueIsFresh
  <1>6. PendingIsFresh'
    BY <1>4 DEF Inv, TradeInv, PendingIsFresh, HadItsTurn
  <1>7. SignalsHadTheirTurn'
    BY <1>4 DEF Inv, TradeInv, Types4, TableTypes, Signal, SignalsHadTheirTurn, HadItsTurn
  <1>8. ActiveIsListed'
    BY <1>4 DEF Inv, TradeInv, ActiveIsListed
  <1> QED
    BY <1>1, <1>2, <1>3, <1>5, <1>6, <1>7, <1>8 DEF TradeInv

-----------------------------------------------------------------------------
(* The handlers: they leave strategies and requests alone.                 *)

LEMMA ArriveInv ==
  ASSUME Inv, NEW t \in Trades, Arrive(t)
  PROVE  Inv'
  <1> USE DEF Inv, Arrive, Goes, tableVars, requestVars
  <1>1. UpdatesHoldWhatWasSent' /\ TableTypes' /\ RequestTypes'
    BY DEF Types4, UpdatesHoldWhatWasSent, TableTypes, RequestTypes
  <1>2. HandlerTypes' /\ HistoryTypes'
    BY DEF Types4, TableTypes, HandlerTypes, HistoryTypes, Phases
  <1>3. SeesTheTable' /\ QueueIsFresh' /\ ActiveIsListed'
    BY BeforeTheTurns DEF TradeInv, SeesTheTable, QueueIsFresh, ActiveIsListed, Types4, HandlerTypes, HistoryTypes
  <1>4. PendingIsFresh' /\ SignalsHadTheirTurn'
    BY BeforeTheTurns DEF TradeInv, Types4, TableTypes, Signal, HandlerTypes, HistoryTypes,
       PendingIsFresh, SignalsHadTheirTurn, HadItsTurn
  <1> QED
    BY <1>1, <1>2, <1>3, <1>4 DEF TradeInv, Types4

\* UpdateStock and GetStock: the handler goes on, and only stockExists may
\* change.
LEMMA StepInv ==
  ASSUME Inv, NEW t \in Trades,
         NEW from \in {"update", "stock"}, NEW to \in {"stock", "list"}, Goes(t, {from}, to),
         stockExists' \in BOOLEAN,
         UNCHANGED <<strategies, created, signals, queue, pending, requestVars, history>>
  PROVE  Inv'
  <1> USE DEF Inv, Goes, requestVars, history
  <1>1. UpdatesHoldWhatWasSent' /\ TableTypes' /\ RequestTypes'
    BY DEF Types4, UpdatesHoldWhatWasSent, TableTypes, RequestTypes
  <1>2. HandlerTypes' /\ HistoryTypes'
    BY DEF Types4, HandlerTypes, HistoryTypes, Phases
  <1>3. SeesTheTable' /\ QueueIsFresh' /\ ActiveIsListed'
    BY DEF TradeInv, SeesTheTable, QueueIsFresh, ActiveIsListed, Types4, HandlerTypes
  <1>4. PendingIsFresh' /\ SignalsHadTheirTurn'
    BY DEF TradeInv, Types4, HandlerTypes, TableTypes, Signal, PendingIsFresh, SignalsHadTheirTurn, HadItsTurn
  <1> QED
    BY <1>1, <1>2, <1>3, <1>4 DEF TradeInv, Types4

LEMMA HandlerFailsInv ==
  ASSUME Inv, NEW t \in Trades, HandlerFails(t)
  PROVE  Inv'
  <1> USE DEF Inv, HandlerFails, Goes, tableVars, requestVars
  <1>1. UpdatesHoldWhatWasSent' /\ TableTypes' /\ RequestTypes'
    BY DEF Types4, UpdatesHoldWhatWasSent, TableTypes, RequestTypes
  <1>2. HandlerTypes' /\ HistoryTypes'
    BY DEF Types4, HandlerTypes, HistoryTypes, Phases
  <1>3. SeesTheTable' /\ QueueIsFresh' /\ ActiveIsListed'
    BY BeforeTheTurns DEF TradeInv, SeesTheTable, QueueIsFresh, ActiveIsListed, Types4, HandlerTypes, HistoryTypes
  <1>4. PendingIsFresh' /\ SignalsHadTheirTurn'
    BY BeforeTheTurns DEF TradeInv, Types4, TableTypes, Signal, HandlerTypes, HistoryTypes,
       PendingIsFresh, SignalsHadTheirTurn, HadItsTurn
  <1> QED
    BY <1>1, <1>2, <1>3, <1>4 DEF TradeInv, Types4

\* What is listed was seen, because what has been seen includes the table.
LEMMA ListActiveInv ==
  ASSUME Inv, NEW t \in Trades, ListActive(t)
  PROVE  Inv'
  <1> USE DEF Inv, ListActive, Goes, tableVars, requestVars, history
  <1>1. UpdatesHoldWhatWasSent' /\ TableTypes' /\ RequestTypes'
    BY DEF Types4, UpdatesHoldWhatWasSent, TableTypes, RequestTypes
  <1>2. HandlerTypes' /\ HistoryTypes'
    BY DEF Types4, TableTypes, HandlerTypes, HistoryTypes, Phases
  <1>3. SeesTheTable'
    BY DEF TradeInv, SeesTheTable, Types4, HandlerTypes
  <1>4. QueueIsFresh'
    BY DEF TradeInv, SeesTheTable, QueueIsFresh, Types4, HandlerTypes
  <1>5. ActiveIsListed'
    BY DEF TradeInv, SeesTheTable, ActiveIsListed, Types4, HandlerTypes
  <1>6. PendingIsFresh' /\ SignalsHadTheirTurn'
    BY BeforeTheTurns DEF TradeInv, Types4, TableTypes, Signal, HandlerTypes,
       PendingIsFresh, SignalsHadTheirTurn, HadItsTurn
  <1> QED
    BY <1>1, <1>2, <1>3, <1>4, <1>5, <1>6 DEF TradeInv, Types4

\* A signal is of one of two types: HOLD is not saved.
LEMMA EvaluationTypes ==
  ASSUME NEW conditions, NEW t, NEW type \in Evaluations(t, conditions), type # "HOLD"
  PROVE  type \in {"BUY", "SELL"}
  BY DEF Evaluations, generateSignal, evaluateStrategyConditions

\* The end of a turn, with a signal to save or without: the strategy is off
\* the list, and has had no signal so far, since it was still listed.
LEMMA TurnInv ==
  ASSUME Inv, NEW t \in Trades, NEW s \in Strategies, Turn(t, s),
         NEW type \in {"BUY", "SELL"},
         \/ UNCHANGED pending
         \/ pending' = [pending EXCEPT ![t] = None]
         \/ pending' = [pending EXCEPT ![t] =
                          [trade |-> t, strategy |-> s, row |-> queue[t][s], type |-> type]]
  PROVE  Inv'
  <1> USE DEF Inv, Turn, tableVars, requestVars
  <1>1. UpdatesHoldWhatWasSent' /\ TableTypes' /\ RequestTypes'
    BY DEF Types4, UpdatesHoldWhatWasSent, TableTypes, RequestTypes
  <1>2. queue[t][s] \in Row
    BY DEF Types4, HandlerTypes
  <1>3. pending' \in [Trades -> Signal \cup {None}]
    BY <1>2 DEF Types4, HandlerTypes, Signal
  <1>4. HandlerTypes' /\ HistoryTypes'
    BY <1>3 DEF Types4, HandlerTypes, HistoryTypes
  <1>5. SeesTheTable' /\ QueueIsFresh' /\ ActiveIsListed'
    BY DEF TradeInv, SeesTheTable, QueueIsFresh, ActiveIsListed, Types4, HandlerTypes, HistoryTypes
  <1>6. \A g \in signals : ~(g.trade = t /\ g.strategy = s)
    BY DEF TradeInv, SignalsHadTheirTurn, HadItsTurn
  <1>7. SignalsHadTheirTurn'
    BY DEF TradeInv, SignalsHadTheirTurn, HadItsTurn, Types4, TableTypes, Signal, HandlerTypes, HistoryTypes
  <1>8. PendingIsFresh'
    <2> SUFFICES ASSUME NEW u \in Trades, pending'[u] # None
                 PROVE  /\ HadItsTurn(u, pending[u])'
                        /\ \A g \in signals : ~(g.trade = u /\ g.strategy = pending'[u].strategy)
      BY DEF PendingIsFresh
    <2>1. CASE u # t
      <3>1. pending'[u] = pending[u] /\ pending[u] \in Signal
        BY <2>1 DEF Types4, HandlerTypes
      <3> QED
        BY <2>1, <3>1 DEF TradeInv, PendingIsFresh, HadItsTurn, Types4, HandlerTypes, HistoryTypes, Signal
    <2>2. CASE u = t
      <3>1. pending'[t] = [trade |-> t, strategy |-> s, row |-> queue[t][s], type |-> type]
        BY <2>2 DEF Types4, HandlerTypes
      <3>2. HadItsTurn(t, pending[t])'
        BY <3>1 DEF TradeInv, QueueIsFresh, HadItsTurn, Types4, HandlerTypes, HistoryTypes
      <3> QED
        BY <2>2, <3>1, <3>2, <1>6
    <2> QED
      BY <2>1, <2>2
  <1> QED
    BY <1>1, <1>4, <1>5, <1>7, <1>8 DEF TradeInv, Types4

LEMMA SaveSignalInv ==
  ASSUME Inv, NEW t \in Trades, SaveSignal(t)
  PROVE  Inv'
  <1> USE DEF Inv, SaveSignal, requestVars, history
  <1>1. pending[t] \in Signal
    BY DEF Types4, HandlerTypes
  <1>2. UpdatesHoldWhatWasSent' /\ TableTypes' /\ RequestTypes'
    BY <1>1 DEF Types4, UpdatesHoldWhatWasSent, TableTypes, RequestTypes
  <1>3. HandlerTypes' /\ HistoryTypes'
    BY DEF Types4, HandlerTypes, HistoryTypes
  <1>4. SeesTheTable' /\ QueueIsFresh' /\ ActiveIsListed'
    BY DEF TradeInv, SeesTheTable, QueueIsFresh, ActiveIsListed
  <1>5. HadItsTurn(t, pending[t])
    BY DEF TradeInv, PendingIsFresh
  <1>6. SignalsHadTheirTurn'
    BY <1>5 DEF TradeInv, SignalsHadTheirTurn, HadItsTurn
  <1>7. PendingIsFresh'
    <2> SUFFICES ASSUME NEW u \in Trades, pending'[u] # None
                 PROVE  /\ HadItsTurn(u, pending[u])'
                        /\ \A g \in signals' : ~(g.trade = u /\ g.strategy = pending'[u].strategy)
      BY DEF PendingIsFresh
    <2>1. u # t /\ pending'[u] = pending[u]
      BY DEF Types4, HandlerTypes
    <2>2. HadItsTurn(u, pending[u])' /\ pending[t].trade = t
      BY <2>1, <1>5 DEF TradeInv, PendingIsFresh, HadItsTurn
    <2> QED
      BY <2>1, <2>2 DEF TradeInv, PendingIsFresh
  <1> QED
    BY <1>2, <1>3, <1>4, <1>6, <1>7 DEF TradeInv, Types4

LEMMA SaveSignalFailsInv ==
  ASSUME Inv, NEW t \in Trades, SaveSignalFails(t)
  PROVE  Inv'
  <1> USE DEF Inv, SaveSignalFails, tableVars, requestVars, history
  <1>1. UpdatesHoldWhatWasSent' /\ Types4'
    BY DEF Types4, UpdatesHoldWhatWasSent, TableTypes, RequestTypes, HandlerTypes, HistoryTypes
  <1>2. SeesTheTable' /\ QueueIsFresh' /\ ActiveIsListed' /\ SignalsHadTheirTurn'
    BY DEF TradeInv, SeesTheTable, QueueIsFresh, ActiveIsListed, SignalsHadTheirTurn, HadItsTurn
  <1>3. PendingIsFresh'
    BY DEF TradeInv, PendingIsFresh, HadItsTurn, Types4, HandlerTypes
  <1> QED
    BY <1>1, <1>2, <1>3 DEF TradeInv

LEMMA HandlerInv ==
  ASSUME Inv, NEW t \in Trades, Handler(t)
  PROVE  Inv'
  <1>1. CASE Arrive(t)
    BY <1>1, ArriveInv
  <1>2. CASE UpdateStock(t)
    <2>1. stockExists' \in BOOLEAN
      BY <1>2 DEF UpdateStock, Inv, Types4, TableTypes
    <2> QED
      BY <1>2, <2>1, StepInv DEF UpdateStock
  <1>3. CASE GetStock(t)
    <2>1. stockExists' \in BOOLEAN
      BY <1>3 DEF GetStock, tableVars, Inv, Types4, TableTypes
    <2> QED
      BY <1>3, <2>1, StepInv DEF GetStock, tableVars
  <1>4. CASE ListActive(t)
    BY <1>4, ListActiveInv
  <1>5. CASE HandlerFails(t)
    BY <1>5, HandlerFailsInv
  <1>6. ASSUME NEW s \in Strategies, ExecuteStrategy(t, s) PROVE Inv'
    <2>1. PICK type \in Evaluations(t, queue[t][s].conditions) :
            pending' = [pending EXCEPT ![t] =
              IF type = "HOLD" THEN None
              ELSE [trade |-> t, strategy |-> s, row |-> queue[t][s], type |-> type]]
      BY <1>6 DEF ExecuteStrategy
    <2>2. Turn(t, s)
      BY <1>6 DEF ExecuteStrategy
    <2>3. CASE type = "HOLD"
      BY <2>1, <2>2, <2>3, TurnInv
    <2>4. CASE type # "HOLD"
      <3>1. type \in {"BUY", "SELL"}
        BY <2>4, EvaluationTypes
      <3> QED
        BY <2>1, <2>2, <2>4, <3>1, TurnInv
    <2> QED
      BY <2>3, <2>4
  <1>7. ASSUME NEW s \in Strategies, TurnFails(t, s) PROVE Inv'
    BY <1>7, TurnInv DEF TurnFails
  <1>8. CASE SaveSignal(t)
    BY <1>8, SaveSignalInv
  <1>9. CASE SaveSignalFails(t)
    BY <1>9, SaveSignalFailsInv
  <1> QED
    BY <1>1, <1>2, <1>3, <1>4, <1>5, <1>6, <1>7, <1>8, <1>9 DEF Handler

-----------------------------------------------------------------------------
(* The requests: those that write the table let the trades that are not    *)
(* listed yet see it.                                                      *)

LEMMA DefaultIsRow ==
  ASSUME NEW y \in Types
  PROVE  [status |-> "active", conditions |-> Default(y)] \in Row
  BY DEF Row, Status, Conditions

LEMMA RequestType == ASSUME Inv, Request PROVE requests' \in 0..MaxRequests
  BY TradeEngineAssumption DEF Inv, Types4, RequestTypes, Request

LEMMA CreateInv ==
  ASSUME Inv, NEW s \in Strategies, NEW y \in Types, createSimpleStrategy(s, y)
  PROVE  Inv'
  <1> USE DEF createSimpleStrategy
  <1>1. strategies' \in [Strategies -> Row \cup {None}]
    BY DefaultIsRow DEF Inv, Types4, TableTypes
  <1>2. TradeInv' /\ HistoryTypes' /\ HandlerTypes'
    BY <1>1, TableChange
  <1>3. TableTypes' /\ RequestTypes' /\ UpdatesHoldWhatWasSent'
    BY <1>1, RequestType DEF Inv, Types4, TableTypes, RequestTypes, UpdatesHoldWhatWasSent
  <1> QED
    BY <1>2, <1>3 DEF Inv, Types4

\* Requests that leave the table alone leave alone what is known of trades.
LEMMA LoadOnly ==
  ASSUME Inv, TableTypes', RequestTypes', UpdatesHoldWhatWasSent',
         UNCHANGED <<strategies, signals, handlerVars, history>>
  PROVE  Inv'
  <1> USE DEF handlerVars, history
  <1>1. HandlerTypes' /\ HistoryTypes'
    BY DEF Inv, Types4, HandlerTypes, HistoryTypes
  <1>2. TradeInv'
    BY DEF Inv, TradeInv, SeesTheTable, QueueIsFresh, PendingIsFresh, SignalsHadTheirTurn, ActiveIsListed, HadItsTurn
  <1> QED
    BY <1>1, <1>2 DEF Inv, Types4

LEMMA LoadUpdateInv ==
  ASSUME Inv, NEW s \in Strategies, LoadUpdate(s)
  PROVE  Inv'
  <1>1. PICK sent \in SUBSET {"status", "conditions"}, st \in SentStatus, c \in SentConditions :
           updates' = [updates EXCEPT ![s] =
             [sent |-> sent,
              status |-> IF "status" \in sent THEN st ELSE None,
              conditions |-> IF "conditions" \in sent THEN c ELSE None]]
    BY DEF LoadUpdate
  <1> DEFINE u == [sent |-> sent,
                   status |-> IF "status" \in sent THEN st ELSE None,
                   conditions |-> IF "conditions" \in sent THEN c ELSE None]
  <1>2. st \in Status /\ c \in Conditions
    BY TradeEngineAssumption DEF Conditions
  <1>3. u \in Update
    BY <1>2 DEF Update
  <1>4. RequestTypes'
    BY <1>1, <1>3, RequestType DEF Inv, Types4, RequestTypes, LoadUpdate
  <1>5. UpdatesHoldWhatWasSent'
    BY <1>1 DEF Inv, Types4, RequestTypes, UpdatesHoldWhatWasSent
  <1>6. TableTypes'
    BY DEF Inv, Types4, TableTypes, LoadUpdate, tableVars
  <1> QED
    BY <1>4, <1>5, <1>6, LoadOnly DEF LoadUpdate, tableVars

LEMMA SaveUpdateInv ==
  ASSUME Inv, NEW s \in Strategies, SaveUpdate(s)
  PROVE  Inv'
  <1>1. updates[s] \in Update
    BY DEF Inv, Types4, RequestTypes, SaveUpdate
  <1>2. strategies' \in [Strategies -> Row \cup {None}]
    <2>1. CASE strategies[s] # None
      <3>1. strategies[s] \in Row
        BY <2>1 DEF Inv, Types4, TableTypes
      <3>2. [status |-> Sent(updates[s].status, strategies[s].status),
             conditions |-> Sent(updates[s].conditions, strategies[s].conditions)] \in Row
        BY <1>1, <3>1 DEF Update, Row, Sent
      <3> QED
        BY <2>1, <3>2 DEF SaveUpdate, Inv, Types4, TableTypes
    <2>2. CASE strategies[s] = None /\ updates[s].conditions # None
      <3>1. [status |-> Sent(updates[s].status, "inactive"),
             conditions |-> updates[s].conditions] \in Row
        BY <1>1, <2>2 DEF Update, Row, Sent, Status
      <3> QED
        BY <2>2, <3>1 DEF SaveUpdate, Inv, Types4, TableTypes
    <2>3. CASE strategies[s] = None /\ updates[s].conditions = None
      BY <2>3 DEF SaveUpdate, Inv, Types4, TableTypes
    <2> QED
      BY <2>1, <2>2, <2>3
  <1>3. TradeInv' /\ HistoryTypes' /\ HandlerTypes'
    BY <1>2, TableChange DEF SaveUpdate
  <1>4. TableTypes' /\ RequestTypes' /\ UpdatesHoldWhatWasSent'
    BY <1>2 DEF SaveUpdate, Inv, Types4, TableTypes, RequestTypes, UpdatesHoldWhatWasSent
  <1> QED
    BY <1>3, <1>4 DEF Inv, Types4

LEMMA DeleteStrategyInv ==
  ASSUME Inv, NEW s \in Strategies, deleteStrategy(s)
  PROVE  Inv'
  <1>1. strategies' \in [Strategies -> Row \cup {None}]
    BY DEF deleteStrategy, Inv, Types4, TableTypes
  <1>2. TradeInv' /\ HistoryTypes' /\ HandlerTypes'
    BY <1>1, TableChange DEF deleteStrategy
  <1>3. TableTypes' /\ RequestTypes' /\ UpdatesHoldWhatWasSent'
    BY <1>1, RequestType DEF deleteStrategy, Inv, Types4, TableTypes, RequestTypes, UpdatesHoldWhatWasSent
  <1> QED
    BY <1>2, <1>3 DEF Inv, Types4

LEMMA LoadToggleInv ==
  ASSUME Inv, NEW s \in Strategies, LoadToggle(s)
  PROVE  Inv'
  <1>1. RequestTypes'
    BY RequestType DEF LoadToggle, Inv, Types4, RequestTypes, Status
  <1>2. TableTypes' /\ UpdatesHoldWhatWasSent'
    BY DEF LoadToggle, tableVars, Inv, Types4, TableTypes, UpdatesHoldWhatWasSent
  <1> QED
    BY <1>1, <1>2, LoadOnly DEF LoadToggle, tableVars

LEMMA SaveToggleInv ==
  ASSUME Inv, NEW s \in Strategies, NEW v \in Status, SaveToggle(s, v)
  PROVE  Inv'
  <1>1. strategies' \in [Strategies -> Row \cup {None}]
    BY DEF SaveToggle, Inv, Types4, TableTypes, Row
  <1>2. TradeInv' /\ HistoryTypes' /\ HandlerTypes'
    BY <1>1, TableChange DEF SaveToggle
  <1>3. TableTypes' /\ RequestTypes' /\ UpdatesHoldWhatWasSent'
    BY <1>1 DEF SaveToggle, Inv, Types4, TableTypes, RequestTypes, UpdatesHoldWhatWasSent
  <1> QED
    BY <1>2, <1>3 DEF Inv, Types4

LEMMA DeleteStockInv ==
  ASSUME Inv, deleteStock
  PROVE  Inv'
  <1>1. TableTypes' /\ UpdatesHoldWhatWasSent'
    BY DEF deleteStock, Inv, Types4, TableTypes, UpdatesHoldWhatWasSent
  <1>2. RequestTypes'
    BY RequestType DEF deleteStock, Inv, Types4, RequestTypes
  <1> QED
    BY <1>1, <1>2, LoadOnly DEF deleteStock

LEMMA StutterInv == ASSUME Inv, UNCHANGED vars PROVE Inv'
  BY LoadOnly DEF vars, tableVars, requestVars, Inv, Types4, TableTypes, RequestTypes, UpdatesHoldWhatWasSent

LEMMA NextInv == ASSUME Inv, [Next]_vars PROVE Inv'
  <1>1. ASSUME NEW t \in Trades, Handler(t) PROVE Inv'
    BY <1>1, HandlerInv
  <1>2. ASSUME NEW s \in Strategies, StrategyRequest(s) PROVE Inv'
    <2>1. ASSUME NEW y \in Types, createSimpleStrategy(s, y) PROVE Inv'
      BY <2>1, CreateInv
    <2>2. CASE LoadUpdate(s)
      BY <2>2, LoadUpdateInv
    <2>3. CASE SaveUpdate(s)
      BY <2>3, SaveUpdateInv
    <2>4. CASE deleteStrategy(s)
      BY <2>4, DeleteStrategyInv
    <2>5. CASE LoadToggle(s)
      BY <2>5, LoadToggleInv
    <2>6. ASSUME NEW v \in Status, SaveToggle(s, v) PROVE Inv'
      BY <2>6, SaveToggleInv
    <2> QED
      BY <1>2, <2>1, <2>2, <2>3, <2>4, <2>5, <2>6 DEF StrategyRequest
  <1>3. CASE deleteStock
    BY <1>3, DeleteStockInv
  <1>4. CASE UNCHANGED vars
    BY <1>4, StutterInv
  <1> QED
    BY <1>1, <1>2, <1>3, <1>4 DEF Next

LEMMA Invariance == Spec => []Inv
  <1>1. Init => Inv
    BY InitInv
  <1>2. Inv /\ [Next]_vars => Inv'
    BY NextInv
  <1> QED
    BY <1>1, <1>2, PTL DEF Spec

\* Only the save of an update ends it, and it writes what was sent.
LEMMA UpdateStep ==
  ASSUME Inv, [Next]_vars, NEW s \in Strategies,
         updates[s] # None, updates'[s] = None, strategies[s] # None
  PROVE  /\ "status" \notin updates[s].sent =>
                strategies'[s].status = strategies[s].status
         /\ "conditions" \notin updates[s].sent =>
                strategies'[s].conditions = strategies[s].conditions
  <1> DEFINE Kept == updates'[s] = updates[s]
  <1>1. ASSUME NEW t \in Trades, Handler(t) PROVE Kept
    BY <1>1 DEF Handler, Arrive, UpdateStock, GetStock, ListActive, HandlerFails,
       ExecuteStrategy, TurnFails, Turn, SaveSignal, SaveSignalFails, requestVars
  <1>2. ASSUME NEW r \in Strategies, StrategyRequest(r) PROVE Kept \/ SaveUpdate(s)
    <2>1. CASE SaveUpdate(r)
      BY <2>1 DEF SaveUpdate, Inv, Types4, RequestTypes
    <2>2. CASE LoadUpdate(r)
      BY <2>2 DEF LoadUpdate, Inv, Types4, RequestTypes
    <2>3. CASE ~SaveUpdate(r) /\ ~LoadUpdate(r)
      BY <1>2, <2>3 DEF StrategyRequest, createSimpleStrategy, deleteStrategy,
         LoadToggle, SaveToggle, requestVars
    <2> QED
      BY <2>1, <2>2, <2>3
  <1>3. deleteStock => Kept
    BY DEF deleteStock
  <1>4. UNCHANGED vars => Kept
    BY DEF vars, requestVars
  <1>5. SaveUpdate(s)
    BY <1>1, <1>2, <1>3, <1>4 DEF Next
  <1>6. strategies'[s] = [status |-> Sent(updates[s].status, strategies[s].status),
                          conditions |-> Sent(updates[s].conditions, strategies[s].conditions)]
    BY <1>5 DEF SaveUpdate, Inv, Types4, TableTypes
  <1> QED
    BY <1>6 DEF Sent, Inv, UpdatesHoldWhatWasSent

\* The types of the tables, handlers and requests, whatever overlaps.
THEOREM EngineTypeCorrect == Spec => []TypeOK
  <1>1. Inv => TypeOK
    BY DEF Inv, Types4, TableTypes, HandlerTypes, RequestTypes, HistoryTypes, TypeOK
  <1> QED
    BY <1>1, Invariance, PTL

\* Signals come from conditions that were active when the trade was handled.
THEOREM SignalsAlwaysFresh == Spec => []SignalsAreFresh
  <1>1. Inv => SignalsAreFresh
    BY DEF Inv, TradeInv, SignalsHadTheirTurn, HadItsTurn, SignalsAreFresh
  <1> QED
    BY <1>1, Invariance, PTL

\* No strategy that was active all along misses its turn, whatever fails.
THEOREM NoActiveMissed == Spec => []EveryActiveRuns
  <1>1. Inv => EveryActiveRuns
    BY DEF Inv, TradeInv, ActiveIsListed, EveryActiveRuns, Nobody
  <1> QED
    BY <1>1, Invariance, PTL

\* No trade makes a second signal of a strategy.
THEOREM NeverTwoSignals == Spec => []OneSignalPerTrade
  <1>1. ASSUME Inv, NEW t \in Trades, NEW s \in Strategies,
               \/ queue[t][s] # None
               \/ pending[t] # None /\ pending[t].strategy = s
        PROVE  \A g \in signals : ~(g.trade = t /\ g.strategy = s)
    BY <1>1 DEF Inv, TradeInv, SignalsHadTheirTurn, PendingIsFresh, HadItsTurn
  <1>2. Inv => OneSignalPerTrade
    BY <1>1 DEF OneSignalPerTrade
  <1> QED
    BY <1>2, Invariance, PTL

\* An update never writes a column that its request did not send.
THEOREM UpdatesAlwaysKeepTheRest == Spec => UpdatesKeepTheRest
  <1> DEFINE Keeps == \A s \in Strategies :
         /\ updates[s] # None /\ updates'[s] = None /\ strategies[s] # None
         => /\ "status" \notin updates[s].sent =>
                 strategies'[s].status = strategies[s].status
            /\ "conditions" \notin updates[s].sent =>
                 strategies'[s].conditions = strategies[s].conditions
  <1>1. Inv /\ [Next]_vars => [Keeps]_vars
    BY UpdateStep
  <1>2. Spec => [][Keeps]_vars
    BY <1>1, Invariance, PTL DEF Spec
  <1> QED
    BY <1>2 DEF UpdatesKeepTheRest

-----------------------------------------------------------------------------
(***************************************************************************)
(* The vote of evaluateStrategyConditions(), for all conditions, prices and *)
(* outcomes.  The code asks for a majority of buying votes first and of    *)
(* selling votes then: no more votes are cast than conditions counted, so  *)
(* that there are never both and the order does not matter.                *)
(***************************************************************************)

LEMMA IndicatorsFinite == IsFiniteSet(Indicators)
  <1>1. Indicators = ((({} \cup {"rsi"}) \cup {"movingAverage"}) \cup {"macd"}) \cup {"bollingerBands"}
    BY DEF Indicators
  <1> QED
    BY <1>1, FS_EmptySet, FS_AddElement

LEMMA VotingFinite ==
  ASSUME NEW c \in Condition, NEW outcome, NEW for
  PROVE  /\ IsFiniteSet(Voting(c, outcome, for))
         /\ Cardinality(Voting(c, outcome, for)) \in Nat
  <1>1. Voting(c, outcome, for) \in SUBSET Indicators
    BY DEF Voting, Condition
  <1>2. IsFiniteSet(Voting(c, outcome, for))
    BY <1>1, IndicatorsFinite, FS_Subset
  <1> QED
    BY <1>2, FS_CardinalityType

LEMMA OneIsNat == ASSUME NEW b PROVE One(b) \in {0, 1}
  BY DEF One

\* An indicator votes for one side at most, and votes only if it counts.
LEMMA VotesAreCounted ==
  ASSUME NEW c \in Condition, NEW outcome
  PROVE  Cardinality(Voting(c, outcome, {"buy"})) + Cardinality(Voting(c, outcome, {"sell"}))
           <= Cardinality(Voting(c, outcome, {"buy", "sell", "neutral"}))
  <1> DEFINE buy == Voting(c, outcome, {"buy"})
             sell == Voting(c, outcome, {"sell"})
             all == Voting(c, outcome, {"buy", "sell", "neutral"})
  <1>1. buy \cap sell = {} /\ buy \cup sell \in SUBSET all
    BY DEF Voting
  <1>2. IsFiniteSet(buy) /\ IsFiniteSet(sell) /\ IsFiniteSet(all)
        /\ Cardinality(buy) \in Nat /\ Cardinality(sell) \in Nat /\ Cardinality(all) \in Nat
    BY VotingFinite
  <1> HIDE DEF buy, sell, all
  <1>3. Cardinality(buy \cup sell) = Cardinality(buy) + Cardinality(sell) - Cardinality(buy \cap sell)
    BY <1>2, FS_Union
  <1>4. Cardinality(buy \cap sell) = 0
    BY <1>1, FS_EmptySet
  <1>5. Cardinality(buy \cup sell) <= Cardinality(all)
    BY <1>1, <1>2, FS_Subset
  <1>6. Cardinality(buy) + Cardinality(sell) <= Cardinality(all)
    BY <1>2, <1>3, <1>4, <1>5
  <1> QED
    BY <1>6 DEF buy, sell, all

\* There is no majority for both sides, whatever is configured and whatever
\* the indicators say (the two tests of evaluateStrategyConditions()).
THEOREM MajoritiesExclude ==
  ASSUME NEW c \in Condition, NEW price \in Nat, NEW outcome
  PROVE  ~ /\ 2 * buySignals(c, price, outcome) > totalConditions(c, price, outcome)
           /\ 2 * sellSignals(c, price, outcome) > totalConditions(c, price, outcome)
  <1> DEFINE buy == Cardinality(Voting(c, outcome, {"buy"}))
             sell == Cardinality(Voting(c, outcome, {"sell"}))
             all == Cardinality(Voting(c, outcome, {"buy", "sell", "neutral"}))
             over == One(Over(c, price))
             under == One(Under(c, price))
  <1>1. buy \in Nat /\ sell \in Nat /\ all \in Nat
    BY VotingFinite
  <1>2. over \in Nat /\ under \in Nat
    BY OneIsNat
  <1>3. buy + sell <= all
    BY VotesAreCounted
  <1> HIDE DEF buy, sell, all, over, under
  <1>4. ~(2 * (buy + under) > all + over + under /\ 2 * (sell + over) > all + over + under)
    BY <1>1, <1>2, <1>3
  <1> QED
    BY <1>4 DEF buySignals, sellSignals, totalConditions, buy, sell, all, over, under

\* A strategy whose indicators are all neutral or absent, at a price within
\* its bounds, never signals: it takes a vote to trade.
THEOREM NoVoteNoSignal ==
  ASSUME NEW c \in Condition, NEW price \in Nat, NEW volume \in Nat,
         NEW outcome \in [Indicators -> {"neutral", "absent"}],
         ~Over(c, price), ~Under(c, price)
  PROVE  generateSignal(c, price, volume, outcome) = "HOLD"
  <1>1. c.indicators \subseteq Indicators
    BY DEF Condition
  <1>2. Voting(c, outcome, {"buy"}) = {} /\ Voting(c, outcome, {"sell"}) = {}
    BY <1>1 DEF Voting
  <1>3. buySignals(c, price, outcome) = 0 /\ sellSignals(c, price, outcome) = 0
    BY <1>2, FS_EmptySet DEF buySignals, sellSignals, One
  <1>4. Cardinality(Voting(c, outcome, {"buy", "sell", "neutral"})) \in Nat
    BY VotingFinite
  <1>5. totalConditions(c, price, outcome) \in Nat
    BY <1>4, OneIsNat DEF totalConditions
  <1> QED
    BY <1>3, <1>5 DEF generateSignal, evaluateStrategyConditions
=============================================================================

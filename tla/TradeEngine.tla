----------------------------- MODULE TradeEngine -----------------------------
(***************************************************************************)
(* What a trade reported by KIS sets off                                   *)
(* (RealtimeEngineService.processTradeData): the stock's row is updated,   *)
(* the active strategies are listed and run one after another, and their   *)
(* signals are saved.  Every trade has a handler of its own, handlers      *)
(* overlap, and the REST API changes strategies and stocks meanwhile.  An  *)
(* action is what runs from one await to the next.                         *)
(*                                                                         *)
(* There is one stock, as the entity says; of its row, it matters here     *)
(* whether it is there.  executeOrder() has an empty body, so whether a    *)
(* strategy trades automatically makes no difference.  The order in which  *)
(* strategies run is left out, and so are the columns that no step decides *)
(* by.  A query may fail wherever a failure is caught.                     *)
(***************************************************************************)
EXTENDS StrategyConditions

CONSTANTS
    Trades,         \* the trades KIS reports
    Price, Volume,  \* Price[t], Volume[t]
    Strategies,     \* ids of trading_strategies
    Types,          \* strategy types that users ask for
    DefaultMaxPrice, DefaultMinVolume,  \* 1000000 and 1000 in the code
    SentConditions, \* conditions that updates send
    SentStatus,     \* statuses that updates send
    MaxRequests,    \* bound on the requests of users
    None            \* no row, a column that is NULL or not sent

Status == {"active", "inactive", "paused"}
Phases == {"coming", "update", "stock", "list", "turns", "failed"}

Default(y) == generateDefaultConditions(y, DefaultMaxPrice, DefaultMinVolume)
Conditions == SentConditions \cup {Default(y) : y \in Types}

Row == [status : Status, conditions : Conditions]
Signal == [trade : Trades, strategy : Strategies, row : Row, type : {"BUY", "SELL"}]
\* The entity that an update saves, and which columns its request sent.
Update == [sent : SUBSET {"status", "conditions"}, status : Status \cup {None},
           conditions : Conditions \cup {None}]

ASSUME TradeEngineAssumption ==
    /\ Price \in [Trades -> Nat] /\ Volume \in [Trades -> Nat]
    /\ Types \subseteq DOMAIN DefaultIndicators
    /\ DefaultMaxPrice \in Nat /\ DefaultMinVolume \in Nat
    /\ SentConditions \subseteq Condition /\ SentStatus \subseteq Status
    /\ MaxRequests \in Nat
    /\ None \notin Status /\ None \notin Conditions
    /\ None \notin Row /\ None \notin Signal /\ None \notin Update

VARIABLES
    stockExists, \* the stock's row is there
    strategies,  \* the table: a row or None
    created,     \* ids that were given out
    signals,     \* the table trading_signals
    phase,       \* phase[t]: the await that the handler of t is at
    queue,       \* queue[t][s]: listed and not run yet, or None
    pending,     \* pending[t]: the signal being saved, or None
    updates,     \* updates[s]: what updateStrategy() will save, or None
    toggling,    \* toggling[s]: statuses that toggleStrategy() calls will write
    requests,    \* how many requests there were (bounded by MaxRequests)
    \* History: what was there from a trade's arrival to its listing, and
    \* whose turns came.
    seen, ran

handlerVars == <<phase, queue, pending>>
requestVars == <<updates, toggling, requests>>
tableVars == <<stockExists, strategies, created, signals>>
history == <<seen, ran>>
vars == <<tableVars, handlerVars, requestVars, history>>

TypeOK ==
    /\ stockExists \in BOOLEAN
    /\ strategies \in [Strategies -> Row \cup {None}]
    /\ created \subseteq Strategies
    /\ signals \subseteq Signal
    /\ phase \in [Trades -> Phases]
    /\ queue \in [Trades -> [Strategies -> Row \cup {None}]]
    /\ pending \in [Trades -> Signal \cup {None}]
    /\ updates \in [Strategies -> Update \cup {None}]
    /\ toggling \in [Strategies -> SUBSET Status]
    /\ requests \in 0..MaxRequests
    /\ seen \in [Trades -> [Strategies -> SUBSET (Row \cup {None})]]
    /\ ran \in [Trades -> SUBSET Strategies]

Nobody == [s \in Strategies |-> None]

\* After the seeding, before the strategy that it makes, by
\* createSimpleStrategy() as users do.
Init ==
    /\ stockExists = TRUE
    /\ strategies = Nobody /\ created = {} /\ signals = {}
    /\ phase = [t \in Trades |-> "coming"]
    /\ queue = [t \in Trades |-> Nobody]
    /\ pending = [t \in Trades |-> None]
    /\ updates = Nobody
    /\ toggling = [s \in Strategies |-> {}] /\ requests = 0
    /\ seen = [t \in Trades |-> [s \in Strategies |-> {}]]
    /\ ran = [t \in Trades |-> {}]

-----------------------------------------------------------------------------
(* The handler of a trade.                                                 *)

Goes(t, from, to) == phase[t] \in from /\ phase' = [phase EXCEPT ![t] = to]

Arrive(t) ==
    /\ Goes(t, {"coming"}, "update")
    /\ seen' = [seen EXCEPT ![t] = [s \in Strategies |-> {strategies[s]}]]
    /\ UNCHANGED <<tableVars, queue, pending, requestVars, ran>>

\* updateStockPriceInfo(): saves the row it loads, also if it was deleted
\* meanwhile, or fails and returns null, which is not looked at.
UpdateStock(t) ==
    /\ Goes(t, {"update"}, "stock")
    /\ stockExists' \in {stockExists, TRUE}
    /\ UNCHANGED <<strategies, created, signals, queue, pending, requestVars, history>>

\* getStockInfo().
GetStock(t) ==
    /\ Goes(t, {"stock"}, "list")
    /\ stockExists
    /\ UNCHANGED <<tableVars, queue, pending, requestVars, history>>

\* getStockInfo() or getActiveStrategies() throws: the outer catch.
HandlerFails(t) ==
    /\ Goes(t, {"stock", "list"}, "failed")
    /\ seen' = [seen EXCEPT ![t] = [s \in Strategies |-> {}]]
    /\ UNCHANGED <<tableVars, queue, pending, requestVars, ran>>

\* getActiveStrategies() with no `where`.
ListAllStrategies(t) ==
    /\ Goes(t, {"list"}, "turns")
    /\ queue' = [queue EXCEPT ![t] = strategies]
    /\ UNCHANGED <<tableVars, pending, requestVars, history>>

\* getActiveStrategies(): the rows that the turns work on.
ListActive(t) ==
    /\ Goes(t, {"list"}, "turns")
    /\ queue' = [queue EXCEPT ![t] =
                   [s \in Strategies |->
                      IF strategies[s] # None /\ strategies[s].status = "active"
                      THEN strategies[s] ELSE None]]
    /\ UNCHANGED <<tableVars, pending, requestVars, history>>

\* Every turn ends by taking the strategy off the list.
Turn(t, s) ==
    /\ phase[t] = "turns" /\ pending[t] = None /\ queue[t][s] # None
    /\ queue' = [queue EXCEPT ![t][s] = None]
    /\ ran' = [ran EXCEPT ![t] = @ \cup {s}]
    /\ UNCHANGED <<tableVars, phase, requestVars, seen>>

\* calculateAllIndicators() and generateSignal(), with the trade's price and
\* indicators of the stored one.
Evaluations(t, conditions) ==
    {generateSignal(conditions, Price[t], Volume[t], outcome) :
        outcome \in calculateAllIndicators(stockExists)}

\* A strategy is run again while it is listed: nothing takes it off.
ExecuteStrategyAgain(t, s) ==
    /\ phase[t] = "turns" /\ pending[t] = None /\ queue[t][s] # None
    /\ ran' = [ran EXCEPT ![t] = @ \cup {s}]
    /\ \E type \in Evaluations(t, queue[t][s].conditions) :
         pending' = [pending EXCEPT ![t] =
           IF type = "HOLD" THEN None
           ELSE [trade |-> t, strategy |-> s, row |-> queue[t][s], type |-> type]]
    /\ UNCHANGED <<tableVars, phase, queue, requestVars, seen>>

\* One turn of the loop: calculateAllIndicators(), findById() and
\* executeStrategy() up to the save of the signal.
ExecuteStrategy(t, s) ==
    /\ Turn(t, s)
    /\ \E type \in Evaluations(t, queue[t][s].conditions) :
         pending' = [pending EXCEPT ![t] =
           IF type = "HOLD" THEN None
           ELSE [trade |-> t, strategy |-> s, row |-> queue[t][s], type |-> type]]

\* A failing turn that is caught outside of the loop.
TurnFailsForAll(t, s) ==
    /\ phase[t] = "turns" /\ pending[t] = None /\ queue[t][s] # None
    /\ queue' = [queue EXCEPT ![t] = Nobody]
    /\ ran' = [ran EXCEPT ![t] = @ \cup {s}]
    /\ UNCHANGED <<tableVars, phase, pending, requestVars, seen>>

\* A query fails, and the loop goes on with the next strategy.
TurnFails(t, s) == Turn(t, s) /\ UNCHANGED pending

\* saveTradingSignal(): the strategy and the stock must exist.
SaveSignal(t) ==
    /\ pending[t] # None
    /\ strategies[pending[t].strategy] # None /\ stockExists
    /\ signals' = signals \cup {pending[t]}
    /\ pending' = [pending EXCEPT ![t] = None]
    /\ UNCHANGED <<stockExists, strategies, created, phase, queue, requestVars, history>>

\* They do not, or the query fails: caught in generateSignal().
SaveSignalFails(t) ==
    /\ pending[t] # None
    /\ pending' = [pending EXCEPT ![t] = None]
    /\ UNCHANGED <<tableVars, phase, queue, requestVars, history>>

-----------------------------------------------------------------------------
(* Requests about strategies.                                              *)

\* History: trades that are not listed yet see what the table says now.
Watch ==
    seen' = [t \in Trades |->
               IF phase[t] \in {"update", "stock", "list"}
               THEN [s \in Strategies |-> seen[t][s] \cup {strategies'[s]}]
               ELSE seen[t]]

Request == requests < MaxRequests /\ requests' = requests + 1

createSimpleStrategy(s, y) ==
    /\ Request /\ s \notin created
    /\ created' = created \cup {s}
    /\ strategies' = [strategies EXCEPT ![s] = [status |-> "active", conditions |-> Default(y)]]
    /\ Watch
    /\ UNCHANGED <<stockExists, signals, handlerVars, updates, toggling, ran>>

\* The entity keeps what it loaded in the columns that were not sent.
LoadUpdateKeepsLoaded(s) ==
    /\ Request /\ strategies[s] # None /\ updates[s] = None
    /\ \E sent \in SUBSET {"status", "conditions"}, st \in SentStatus, c \in SentConditions :
         updates' = [updates EXCEPT ![s] =
           [sent |-> sent,
            status |-> IF "status" \in sent THEN st ELSE strategies[s].status,
            conditions |-> IF "conditions" \in sent THEN c ELSE strategies[s].conditions]]
    /\ UNCHANGED <<tableVars, handlerVars, toggling, history>>

\* updateStrategy(): the row is loaded and the DTO assigned to it.  A DTO has
\* all of its fields (class fields, target ES2023), undefined unless sent, so
\* that a column that was not sent becomes undefined in the entity ...
LoadUpdate(s) ==
    /\ Request /\ strategies[s] # None /\ updates[s] = None
    /\ \E sent \in SUBSET {"status", "conditions"}, st \in SentStatus, c \in SentConditions :
         updates' = [updates EXCEPT ![s] =
           [sent |-> sent,
            status |-> IF "status" \in sent THEN st ELSE None,
            conditions |-> IF "conditions" \in sent THEN c ELSE None]]
    /\ UNCHANGED <<tableVars, handlerVars, toggling, history>>

Sent(new, old) == IF new = None THEN old ELSE new

\* save() that writes NULL for what is undefined.
SaveUpdateWithNull(s) ==
    /\ updates[s] # None
    /\ strategies' = [strategies EXCEPT ![s] =
         [status |-> updates[s].status, conditions |-> updates[s].conditions]]
    /\ updates' = [updates EXCEPT ![s] = None]
    /\ Watch
    /\ UNCHANGED <<stockExists, created, signals, handlerVars, toggling, requests, ran>>

\* ... which save() does not write.  A row that is gone is inserted again,
\* inactive by default, if no column without a default is missing.
SaveUpdate(s) ==
    /\ updates[s] # None
    /\ \/ /\ strategies[s] # None
          /\ strategies' = [strategies EXCEPT ![s] =
               [status |-> Sent(updates[s].status, @.status),
                conditions |-> Sent(updates[s].conditions, @.conditions)]]
       \/ /\ strategies[s] = None /\ updates[s].conditions # None
          /\ strategies' = [strategies EXCEPT ![s] =
               [status |-> Sent(updates[s].status, "inactive"),
                conditions |-> updates[s].conditions]]
       \/ strategies[s] = None /\ UNCHANGED strategies
    /\ updates' = [updates EXCEPT ![s] = None]
    /\ Watch
    /\ UNCHANGED <<stockExists, created, signals, handlerVars, toggling, requests, ran>>

\* deleteStrategy(): refused by the database while it has signals.
deleteStrategy(s) ==
    /\ Request /\ strategies[s] # None
    /\ \A g \in signals : g.strategy # s
    /\ strategies' = [strategies EXCEPT ![s] = None]
    /\ Watch
    /\ UNCHANGED <<stockExists, created, signals, handlerVars, updates, toggling,
                   ran>>

\* toggleStrategy(): the new status is chosen from the row it loads ...
LoadToggle(s) ==
    /\ Request /\ strategies[s] # None
    /\ toggling' = [toggling EXCEPT ![s] = @ \cup
         {IF strategies[s].status = "active" THEN "inactive" ELSE "active"}]
    /\ UNCHANGED <<tableVars, handlerVars, updates, history>>

\* ... and written by an UPDATE of this column, if there is still a row.
SaveToggle(s, v) ==
    /\ v \in toggling[s]
    /\ toggling' = [toggling EXCEPT ![s] = @ \ {v}]
    /\ strategies' = IF strategies[s] = None THEN strategies
                     ELSE [strategies EXCEPT ![s].status = v]
    /\ Watch
    /\ UNCHANGED <<stockExists, created, signals, handlerVars, updates, requests, ran>>

\* deleteStock(): refused by the database while there are signals for it
\* (holdings refuse it too; whether there are any is left open).
deleteStock ==
    /\ Request /\ stockExists /\ signals = {}
    /\ stockExists' = FALSE
    /\ UNCHANGED <<strategies, created, signals, handlerVars, updates, toggling, history>>

-----------------------------------------------------------------------------
Handler(t) ==
    \/ Arrive(t)
    \/ UpdateStock(t) \/ GetStock(t) \/ ListActive(t) \/ HandlerFails(t)
    \/ \E s \in Strategies : ExecuteStrategy(t, s) \/ TurnFails(t, s)
    \/ SaveSignal(t) \/ SaveSignalFails(t)

StrategyRequest(s) ==
    \/ \E y \in Types : createSimpleStrategy(s, y)
    \/ LoadUpdate(s) \/ SaveUpdate(s) \/ deleteStrategy(s) \/ LoadToggle(s)
    \/ \E v \in Status : SaveToggle(s, v)

Next ==
    \/ \E t \in Trades : Handler(t)
    \/ \E s \in Strategies : StrategyRequest(s)
    \/ deleteStock

Spec == Init /\ [][Next]_vars

-----------------------------------------------------------------------------
(* Properties.                                                             *)

\* A signal comes from a strategy that was active, with the conditions it
\* then had, at some moment between the trade's arrival and the listing:
\* what was switched off or changed before the trade arrived has no part in
\* it, however many handlers and requests overlap.
SignalsAreFresh ==
    \A g \in signals :
        /\ g.row.status = "active"
        /\ g.row \in seen[g.trade][g.strategy]

\* A handler that has run its turns has given one to every strategy that was
\* active from the trade's arrival to the listing, whichever other
\* strategies failed.
EveryActiveRuns ==
    \A t \in Trades, s \in Strategies :
        /\ phase[t] = "turns" /\ queue[t] = Nobody
        /\ \A row \in seen[t][s] : row # None /\ row.status = "active"
        => s \in ran[t]

\* A trade makes at most one signal per strategy: one that has yet to run or
\* to be saved has none so far.
OneSignalPerTrade ==
    \A t \in Trades, s \in Strategies :
        \/ queue[t][s] # None
        \/ pending[t] # None /\ pending[t].strategy = s
        => \A g \in signals : ~(g.trade = t /\ g.strategy = s)

\* An update changes only what its request sends ("send only the parts that
\* you want to change", trading-strategy.dto.ts:322), even when another
\* request changes the rest between its load and its save.
UpdatesKeepTheRest ==
    [][\A s \in Strategies :
         /\ updates[s] # None /\ updates'[s] = None /\ strategies[s] # None
         => /\ "status" \notin updates[s].sent =>
                 strategies'[s].status = strategies[s].status
            /\ "conditions" \notin updates[s].sent =>
                 strategies'[s].conditions = strategies[s].conditions]_vars

-----------------------------------------------------------------------------
(* What the source says, and the code does not do.                         *)

\* "minimum price: no trading at or below it", "maximum price: no trading at
\* or above it" (trading-strategy.dto.ts:155 and 161).
SignalsWithinRange ==
    \A g \in signals :
        LET c == g.row.conditions
        IN /\ c.minPrice # 0 => Price[g.trade] > c.minPrice
           /\ c.maxPrice # 0 => Price[g.trade] < c.maxPrice
=============================================================================

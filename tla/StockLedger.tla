----------------------------- MODULE StockLedger -----------------------------
(***************************************************************************)
(* The rows of stocks, who writes them, and the transactions that refer to *)
(* them.  A trade's handler stores the price it was sent                   *)
(* (StocksService.updateStockPriceInfo), a price query of the REST API     *)
(* rewrites the row or makes one (updateStockPrice), the API deletes       *)
(* stocks and portfolios, and users record transactions                    *)
(* (TransactionsService.createTransaction).  An action is what runs from   *)
(* one await to the next.                                                  *)
(*                                                                         *)
(* All requests are about one symbol, as users spell it: queries look for  *)
(* the upper-case spelling, new rows keep the one they were asked for.     *)
(* Prices are named by the trade that they come from; 0, from the seeding, *)
(* and NULL are None.  Every saved transaction is COMPLETED, so that       *)
(* updateTransaction() and deleteTransaction() always refuse.  Any query   *)
(* may fail, and a request then ends without a change.                     *)
(***************************************************************************)
EXTENDS Naturals

CONSTANTS
    Trades,              \* the trades KIS reports
    Queries,             \* price queries of the REST API
    Orders,              \* requests to record a transaction
    Users, Portfolios,
    Owner,               \* Owner[p]: the user whose portfolio p is
    StockIds,            \* ids of stocks
    Spellings, Upper,    \* spellings of the symbol, and the upper-case one
    None                 \* no row, no id, no price

Row == [symbol : Spellings, currentPrice : Trades \cup {None},
        previousClose : Trades \cup {None}]

\* What is being saved: the id it was loaded with (None if it is new), the
\* columns that are set, and which of them are undefined.
Entity == [id : StockIds \cup {None}, row : Row, undefined : SUBSET {"currentPrice"}]

\* A transaction, and the request that made it.
Transaction == [order : Orders, userId : Users, portfolioId : Portfolios, stockId : StockIds]

\* createTransaction(): what the checks so far have found.
Draft == [userId : Users, portfolioId : Portfolios, stockId : StockIds \cup {None}]

ASSUME StockLedgerAssumption ==
    /\ Owner \in [Portfolios -> Users] /\ Upper \in Spellings
    /\ Trades \cap (Queries \cup Orders) = {}
    /\ None \notin Trades /\ None \notin StockIds
    /\ None \notin Row /\ None \notin Entity /\ None \notin Draft

VARIABLES
    stocks,       \* the table: a row or None
    made,         \* ids that were given out
    portfolios,   \* the portfolios that are there
    transactions, \* the table
    entities,     \* entities[w]: what trade or query w is saving, or None
    drafts,       \* drafts[o]: what createTransaction() is about to save, or None
    started,      \* trades, queries and orders that have come
    \* History: trades whose price was stored, and those stored before each
    \* trade came.
    stored, before

tableVars == <<stocks, made, portfolios, transactions>>
history == <<stored, before>>
vars == <<tableVars, entities, drafts, started, history>>

TypeOK ==
    /\ stocks \in [StockIds -> Row \cup {None}]
    /\ made \subseteq StockIds
    /\ portfolios \subseteq Portfolios
    /\ transactions \subseteq Transaction
    /\ entities \in [Trades \cup Queries -> Entity \cup {None}]
    /\ drafts \in [Orders -> Draft \cup {None}]
    /\ started \subseteq Trades \cup Queries \cup Orders
    /\ stored \subseteq Trades
    /\ before \in [Trades -> SUBSET Trades]

\* After the seeding: one stock and the users' portfolios.
Init ==
    /\ \E i \in StockIds :
         /\ stocks = [j \in StockIds |->
                        IF j = i THEN [symbol |-> Upper, currentPrice |-> None,
                                       previousClose |-> None]
                        ELSE None]
         /\ made = {i}
    /\ portfolios = Portfolios /\ transactions = {}
    /\ entities = [w \in Trades \cup Queries |-> None]
    /\ drafts = [o \in Orders |-> None]
    /\ started = {} /\ stored = {}
    /\ before = [t \in Trades |-> {}]

-----------------------------------------------------------------------------
(* The database.                                                           *)

Spelled(symbol) == {i \in StockIds : stocks[i] # None /\ stocks[i].symbol = symbol}

\* A column `symbol` that is not unique.
InsertableAlways(symbol) == TRUE

\* The column `symbol` is unique.
Insertable(symbol) == Spelled(symbol) = {}

Starts(r) == r \notin started /\ started' = started \cup {r}

\* save(): a new entity is inserted; a loaded one is written over its row,
\* but for what is undefined, or inserted again if the row is gone.
SaveStock(e) ==
    IF e.id = None
    THEN \E i \in StockIds \ made :
           /\ Insertable(e.row.symbol)
           /\ stocks' = [stocks EXCEPT ![i] = e.row]
           /\ made' = made \cup {i}
    ELSE /\ stocks[e.id] = None => Insertable(e.row.symbol)
         /\ stocks' = [stocks EXCEPT ![e.id] =
              IF "currentPrice" \in e.undefined /\ stocks[e.id] # None
              THEN [e.row EXCEPT !.currentPrice = stocks[e.id].currentPrice]
              ELSE e.row]
         /\ UNCHANGED made

-----------------------------------------------------------------------------
(* Prices.                                                                 *)

\* updateStockPriceInfo() to its save.  A stock that is not there is an
\* exception, caught here and by the handler's next query.
LoadTrade(t) ==
    /\ Starts(t)
    /\ before' = [before EXCEPT ![t] = stored]
    /\ IF Spelled(Upper) = {} THEN UNCHANGED entities
       ELSE \E i \in Spelled(Upper) :
              entities' = [entities EXCEPT ![t] =
                [id |-> i, row |-> [stocks[i] EXCEPT !.currentPrice = t], undefined |-> {}]]
    /\ UNCHANGED <<tableVars, drafts, stored>>

SaveTrade(t) ==
    /\ entities[t] # None
    /\ SaveStock(entities[t])
    /\ entities' = [entities EXCEPT ![t] = None]
    /\ stored' = stored \cup {t}
    /\ UNCHANGED <<portfolios, transactions, drafts, started, before>>

\* updateStockPrice(): the price becomes the previous one, and the current
\* one is written back.
RequotedAsLoaded(i) ==
    [id |-> i, row |-> [stocks[i] EXCEPT !.previousClose = stocks[i].currentPrice],
     undefined |-> {}]

\* The current one is set to null.
RequotedAsNull(i) ==
    [id |-> i, row |-> [stocks[i] EXCEPT !.previousClose = stocks[i].currentPrice,
                                         !.currentPrice = None],
     undefined |-> {}]

\* The current one is undefined, since there is no price data.
Requoted(i) ==
    [id |-> i, row |-> [stocks[i] EXCEPT !.previousClose = stocks[i].currentPrice,
                                         !.currentPrice = None],
     undefined |-> {"currentPrice"}]

NewStock(symbol) ==
    [id |-> None, row |-> [symbol |-> symbol, currentPrice |-> None, previousClose |-> None],
     undefined |-> {"currentPrice"}]

\* updateStockPrice() to its save.
LoadQuery(q, symbol) ==
    /\ Starts(q)
    /\ \E e \in IF Spelled(Upper) = {} THEN {NewStock(symbol)}
                ELSE {Requoted(i) : i \in Spelled(Upper)} :
         entities' = [entities EXCEPT ![q] = e]
    /\ UNCHANGED <<tableVars, drafts, history>>

SaveQuery(q) ==
    /\ entities[q] # None
    /\ SaveStock(entities[q])
    /\ entities' = [entities EXCEPT ![q] = None]
    /\ UNCHANGED <<portfolios, transactions, drafts, started, history>>

\* The save fails: a trade's handler goes on, a query is answered so.
SaveFails(w) ==
    /\ entities[w] # None
    /\ entities' = [entities EXCEPT ![w] = None]
    /\ UNCHANGED <<tableVars, drafts, started, history>>

-----------------------------------------------------------------------------
(* Transactions.                                                           *)

\* createTransaction(): the portfolio must be the user's.
FindPortfolio(o, u, p) ==
    /\ Starts(o)
    /\ p \in portfolios /\ Owner[p] = u
    /\ drafts' = [drafts EXCEPT ![o] = [userId |-> u, portfolioId |-> p, stockId |-> None]]
    /\ UNCHANGED <<tableVars, entities, history>>

\* The stock; without one, saving one that has no company name fails.
FindStock(o) ==
    /\ drafts[o] # None /\ drafts[o].stockId = None
    /\ \E i \in Spelled(Upper) : drafts' = [drafts EXCEPT ![o].stockId = i]
    /\ UNCHANGED <<tableVars, entities, started, history>>

\* Saved before the stock was looked for.
SaveTransactionEarly(o) ==
    /\ drafts[o] # None
    /\ drafts[o].portfolioId \in portfolios
    /\ transactions' = transactions \cup
         {[order |-> o, userId |-> drafts[o].userId,
           portfolioId |-> drafts[o].portfolioId, stockId |-> drafts[o].stockId]}
    /\ drafts' = [drafts EXCEPT ![o] = None]
    /\ UNCHANGED <<stocks, made, portfolios, entities, started, history>>

\* The save: the database refuses a portfolio or a stock that is not there.
SaveTransaction(o) ==
    /\ drafts[o] # None /\ drafts[o].stockId # None
    /\ drafts[o].portfolioId \in portfolios /\ stocks[drafts[o].stockId] # None
    /\ transactions' = transactions \cup
         {[order |-> o, userId |-> drafts[o].userId,
           portfolioId |-> drafts[o].portfolioId, stockId |-> drafts[o].stockId]}
    /\ drafts' = [drafts EXCEPT ![o] = None]
    /\ UNCHANGED <<stocks, made, portfolios, entities, started, history>>

OrderFails(o) ==
    /\ drafts[o] # None
    /\ drafts' = [drafts EXCEPT ![o] = None]
    /\ UNCHANGED <<tableVars, entities, started, history>>

-----------------------------------------------------------------------------
(* Deletions.  The database refuses to delete what a transaction refers    *)
(* to.  Holdings and signals, which are refused too, are left open.        *)

\* Without the foreign key.
deleteStockReferred(i) ==
    /\ i \in Spelled(Upper)
    /\ stocks' = [stocks EXCEPT ![i] = None]
    /\ UNCHANGED <<made, portfolios, transactions, entities, drafts, started, history>>

deleteStock(i) ==
    /\ i \in Spelled(Upper)
    /\ \A x \in transactions : x.stockId # i
    /\ stocks' = [stocks EXCEPT ![i] = None]
    /\ UNCHANGED <<made, portfolios, transactions, entities, drafts, started, history>>

deletePortfolio(p) ==
    /\ p \in portfolios
    /\ \A x \in transactions : x.portfolioId # p
    /\ portfolios' = portfolios \ {p}
    /\ UNCHANGED <<stocks, made, transactions, entities, drafts, started, history>>

-----------------------------------------------------------------------------
Price(t) == LoadTrade(t) \/ SaveTrade(t) \/ SaveFails(t)

Query(q) == (\E symbol \in Spellings : LoadQuery(q, symbol)) \/ SaveQuery(q) \/ SaveFails(q)

Order(o) ==
    \/ \E u \in Users, p \in Portfolios : FindPortfolio(o, u, p)
    \/ FindStock(o) \/ SaveTransaction(o) \/ OrderFails(o)

Next ==
    \/ \E t \in Trades : Price(t)
    \/ \E q \in Queries : Query(q)
    \/ \E o \in Orders : Order(o)
    \/ \E i \in StockIds : deleteStock(i)
    \/ \E p \in Portfolios : deletePortfolio(p)

Spec == Init /\ [][Next]_vars

-----------------------------------------------------------------------------
(* Properties.                                                             *)

\* Handlers that overlap may store their prices in any order, but once a
\* trade is stored, no row shows a price that was stored before that trade
\* came, whatever queries and deletions come between the awaits.
NoOlderPrice ==
    \A i \in StockIds, t \in stored :
        stocks[i] # None => stocks[i].currentPrice \notin before[t]

\* A query of the price, which rewrites a row that it loaded a while ago,
\* leaves the current price as it is: of a row that stays, only a trade that
\* is being stored changes it.
OnlyTradesMovePrices ==
    [][\A i \in StockIds :
         /\ stocks[i] # None /\ stocks'[i] # None
         /\ stocks'[i].currentPrice # stocks[i].currentPrice
         => \E t \in Trades :
              /\ entities[t] # None /\ entities'[t] = None
              /\ stocks'[i].currentPrice = t]_vars

\* The stock of the symbol, as PriceRegister has it.
listed == Spelled(Upper) # {}

price == IF listed THEN stocks[CHOOSE i \in Spelled(Upper) : TRUE].currentPrice ELSE None

Register == INSTANCE PriceRegister WITH
    listed <- listed, price <- price, arrived <- started \cap Trades,
    writing <- {t \in Trades : entities[t] # None}

\* All of it, rows that are loaded, saved late, saved in part, deleted and
\* inserted again, is one register that each trade writes at one moment of its
\* handler: no query, failure or deletion ever brings back a price or makes
\* one up.
ImplementsRegister == Register!RegisterSpec

\* Services look a stock up by its symbol and take one row: there is at most
\* one, though queries that find none each go on to make it.
OneRowPerSymbol ==
    \A i, j \in StockIds :
        /\ stocks[i] # None /\ stocks[j] # None
        /\ stocks[i].symbol = stocks[j].symbol
        => i = j

\* The stock and the portfolio of a transaction are there, the portfolio
\* being its user's, although both may be deleted while it is made: a list
\* of transactions reads the symbol of each one's stock.
ReferencesHold ==
    \A x \in transactions :
        /\ stocks[x.stockId] # None
        /\ x.portfolioId \in portfolios /\ Owner[x.portfolioId] = x.userId
=============================================================================

-------------------------- MODULE StockLedgerProofs --------------------------
(***************************************************************************)
(* The properties of StockLedger for any number of trades, queries, orders *)
(* and deletions.  What is being saved decides: a trade saves its own      *)
(* price once, a query saves none, and both go back to a row of the        *)
(* upper-case symbol, whose id no other symbol gets.                       *)
(***************************************************************************)
EXTENDS StockLedger, TLAPS

\* Rows have ids that were given out, and prices that were stored; only the
\* row that trades look up has a price.
RowsOfTrades ==
    \A i \in StockIds :
        stocks[i] # None =>
            /\ i \in made
            /\ stocks[i].currentPrice \in stored \cup {None}
            /\ stocks[i].symbol # Upper => stocks[i].currentPrice = None

\* What was loaded is a row of the upper-case symbol, and its id stays so.
SavesUpper ==
    \A w \in Trades \cup Queries :
        entities[w] # None /\ entities[w].id # None =>
            /\ entities[w].id \in made /\ entities[w].row.symbol = Upper
            /\ stocks[entities[w].id] # None => stocks[entities[w].id].symbol = Upper

\* A trade saves its own price, to a row that it loaded, and once.
TradesSaveOnce ==
    \A t \in Trades :
        /\ before[t] \subseteq stored
        /\ t \in stored => t \in started /\ entities[t] = None
        /\ entities[t] # None =>
             /\ t \in started /\ entities[t].id # None
             /\ entities[t].row.currentPrice = t /\ entities[t].undefined = {}

QueriesSaveNoPrice ==
    \A q \in Queries :
        entities[q] # None =>
            /\ entities[q].row.currentPrice = None
            /\ entities[q].undefined = {"currentPrice"}

DraftsAreOwned ==
    \A o \in Orders : drafts[o] # None => Owner[drafts[o].portfolioId] = drafts[o].userId

TableTypes ==
    /\ stocks \in [StockIds -> Row \cup {None}]
    /\ made \subseteq StockIds

EntityTypes == entities \in [Trades \cup Queries -> Entity \cup {None}]

OrderTypes ==
    /\ portfolios \subseteq Portfolios
    /\ transactions \subseteq Transaction
    /\ drafts \in [Orders -> Draft \cup {None}]

HistoryTypes ==
    /\ started \subseteq Trades \cup Queries \cup Orders
    /\ stored \subseteq Trades
    /\ before \in [Trades -> SUBSET Trades]

\* The stocks' half, and the transactions'.
PriceInv ==
    /\ TableTypes /\ EntityTypes /\ HistoryTypes
    /\ RowsOfTrades /\ SavesUpper /\ TradesSaveOnce /\ QueriesSaveNoPrice
    /\ NoOlderPrice /\ OneRowPerSymbol

OrderInv == OrderTypes /\ DraftsAreOwned /\ ReferencesHold

Inv == PriceInv /\ OrderInv

-----------------------------------------------------------------------------
LEMMA InitInv == Init => Inv
  <1> SUFFICES ASSUME Init PROVE Inv
    OBVIOUS
  <1> USE StockLedgerAssumption
  <1>1. PICK i \in StockIds :
          /\ stocks = [j \in StockIds |->
                         IF j = i THEN [symbol |-> Upper, currentPrice |-> None,
                                        previousClose |-> None]
                         ELSE None]
          /\ made = {i}
    BY DEF Init
  <1>2. TableTypes /\ EntityTypes /\ HistoryTypes /\ OrderTypes
    BY <1>1 DEF Init, TableTypes, EntityTypes, HistoryTypes, OrderTypes, Row
  <1>3. RowsOfTrades /\ OneRowPerSymbol
    BY <1>1 DEF Init, RowsOfTrades, OneRowPerSymbol
  <1>4. SavesUpper /\ TradesSaveOnce /\ QueriesSaveNoPrice /\ NoOlderPrice
    BY DEF Init, SavesUpper, TradesSaveOnce, QueriesSaveNoPrice, NoOlderPrice
  <1>5. DraftsAreOwned /\ ReferencesHold
    BY DEF Init, DraftsAreOwned, ReferencesHold
  <1> QED
    BY <1>2, <1>3, <1>4, <1>5 DEF Inv, PriceInv, OrderInv

\* What save() leaves: one row, new, in place or again, with the symbol that
\* was asked for and, of a query, the price that was there.
LEMMA SavedRow ==
  ASSUME PriceInv, NEW w \in Trades \cup Queries, entities[w] # None, SaveStock(entities[w])
  PROVE  \E i \in StockIds, row \in Row :
           /\ stocks' = [stocks EXCEPT ![i] = row]
           /\ made' = made \cup {i}
           /\ i \in made => row.symbol = Upper
           /\ stocks[i] # None => i \in made /\ stocks[i].symbol = row.symbol
           /\ stocks[i] = None => Spelled(row.symbol) = {}
           /\ w \in Trades => row.currentPrice = w /\ row.symbol = Upper
           /\ w \in Queries => row.currentPrice = IF stocks[i] = None THEN None
                                                  ELSE stocks[i].currentPrice
  <1> USE StockLedgerAssumption
  <1> DEFINE e == entities[w]
  <1>1. e \in Entity /\ e.row \in Row /\ e.row.symbol \in Spellings
    BY DEF PriceInv, EntityTypes, Entity, Row
  <1>2. CASE e.id = None
    <2>1. PICK i \in StockIds \ made :
            /\ Insertable(e.row.symbol)
            /\ stocks' = [stocks EXCEPT ![i] = e.row]
            /\ made' = made \cup {i}
      BY <1>2 DEF SaveStock
    <2>2. stocks[i] = None
      BY <2>1 DEF PriceInv, RowsOfTrades
    <2>3. w \notin Trades
      BY <1>2 DEF PriceInv, TradesSaveOnce
    <2>4. w \in Queries => e.row.currentPrice = None
      BY DEF PriceInv, QueriesSaveNoPrice
    <2> QED
      BY <1>1, <2>1, <2>2, <2>3, <2>4 DEF Insertable
  <1>3. CASE e.id # None
    <2> DEFINE row == IF "currentPrice" \in e.undefined /\ stocks[e.id] # None
                      THEN [e.row EXCEPT !.currentPrice = stocks[e.id].currentPrice]
                      ELSE e.row
    <2>1. /\ stocks[e.id] = None => Insertable(e.row.symbol)
          /\ stocks' = [stocks EXCEPT ![e.id] = row]
          /\ made' = made
      BY <1>3 DEF SaveStock
    <2>2. /\ e.id \in made /\ e.id \in StockIds /\ e.row.symbol = Upper
          /\ stocks[e.id] # None => stocks[e.id].symbol = Upper
      BY <1>1, <1>3 DEF PriceInv, SavesUpper, TableTypes
    <2>3. stocks[e.id] \in Row \cup {None}
      BY <2>2 DEF PriceInv, TableTypes
    <2>4. row \in Row /\ row.symbol = Upper
      BY <1>1, <2>2, <2>3 DEF Row
    <2>5. w \in Trades => row.currentPrice = w
      BY DEF PriceInv, TradesSaveOnce
    <2>6. w \in Queries => row.currentPrice = IF stocks[e.id] = None THEN None
                                              ELSE stocks[e.id].currentPrice
      BY <1>1, <2>3 DEF PriceInv, QueriesSaveNoPrice, Row
    <2>7. made' = made \cup {e.id}
      BY <2>1, <2>2
    <2>8. stocks[e.id] = None => Spelled(row.symbol) = {}
      BY <2>1, <2>2, <2>4 DEF Insertable
    <2> QED
      BY <2>1, <2>2, <2>4, <2>5, <2>6, <2>7, <2>8
  <1> QED
    BY <1>2, <1>3

\* After a save there is still one row of a symbol.
LEMMA OneRowAfterSave ==
  ASSUME PriceInv, NEW i \in StockIds, NEW row \in Row,
         stocks' = [stocks EXCEPT ![i] = row],
         stocks[i] # None => stocks[i].symbol = row.symbol,
         stocks[i] = None => Spelled(row.symbol) = {}
  PROVE  OneRowPerSymbol'
  <1> SUFFICES ASSUME NEW j \in StockIds, NEW k \in StockIds,
                      stocks'[j] # None, stocks'[k] # None,
                      stocks'[j].symbol = stocks'[k].symbol
               PROVE  j = k
    BY DEF OneRowPerSymbol
  <1>1. stocks'[i] = row /\ \A l \in StockIds : l # i => stocks'[l] = stocks[l]
    BY DEF PriceInv, TableTypes
  <1>2. ASSUME NEW l \in StockIds, l # i, stocks[l] # None, stocks[l].symbol = row.symbol
        PROVE  FALSE
    BY <1>2 DEF PriceInv, OneRowPerSymbol, Spelled
  <1> QED
    BY <1>1, <1>2 DEF PriceInv, OneRowPerSymbol

-----------------------------------------------------------------------------
LEMMA LoadTradeInv ==
  ASSUME PriceInv, NEW t \in Trades, LoadTrade(t)
  PROVE  PriceInv'
  <1> USE StockLedgerAssumption
  <1>1. t \notin started /\ t \notin stored /\ started' = started \cup {t}
    BY DEF LoadTrade, Starts, PriceInv, TradesSaveOnce
  <1>2. before' = [before EXCEPT ![t] = stored] /\ UNCHANGED <<stocks, made, stored>>
    BY DEF LoadTrade, tableVars
  <1>3. \/ entities' = entities
        \/ \E i \in Spelled(Upper) :
             entities' = [entities EXCEPT ![t] =
               [id |-> i, row |-> [stocks[i] EXCEPT !.currentPrice = t], undefined |-> {}]]
    BY DEF LoadTrade
  <1>4. TableTypes' /\ RowsOfTrades' /\ OneRowPerSymbol'
    BY <1>2 DEF PriceInv, TableTypes, RowsOfTrades, OneRowPerSymbol
  <1>5. HistoryTypes' /\ NoOlderPrice'
    BY <1>1, <1>2 DEF PriceInv, HistoryTypes, NoOlderPrice
  <1>6. EntityTypes' /\ SavesUpper' /\ TradesSaveOnce' /\ QueriesSaveNoPrice'
    <2>1. CASE entities' = entities
      BY <1>1, <1>2, <2>1 DEF PriceInv, EntityTypes, SavesUpper, TradesSaveOnce,
                              QueriesSaveNoPrice, HistoryTypes
    <2>2. ASSUME NEW i \in Spelled(Upper),
                 entities' = [entities EXCEPT ![t] =
                   [id |-> i, row |-> [stocks[i] EXCEPT !.currentPrice = t], undefined |-> {}]]
          PROVE  EntityTypes' /\ SavesUpper' /\ TradesSaveOnce' /\ QueriesSaveNoPrice'
      <3> DEFINE e == [id |-> i, row |-> [stocks[i] EXCEPT !.currentPrice = t],
                       undefined |-> {}]
      <3>1. i \in StockIds /\ stocks[i] \in Row /\ stocks[i] # None /\ stocks[i].symbol = Upper
        BY <2>2 DEF Spelled, PriceInv, TableTypes
      <3>2. e \in Entity /\ e # None /\ e.row.symbol = Upper /\ e.row.currentPrice = t
        BY <3>1 DEF Entity, Row
      <3>3. i \in made
        BY <3>1 DEF PriceInv, RowsOfTrades
      <3>4. /\ entities'[t] = e
            /\ \A w \in Trades \cup Queries : w # t => entities'[w] = entities[w]
        BY <2>2 DEF PriceInv, EntityTypes
      <3>5. EntityTypes'
        BY <2>2, <3>2 DEF PriceInv, EntityTypes
      <3>6. SavesUpper'
        BY <1>2, <3>1, <3>2, <3>3, <3>4 DEF PriceInv, SavesUpper
      <3>7. TradesSaveOnce'
        BY <1>1, <1>2, <3>1, <3>2, <3>4 DEF PriceInv, TradesSaveOnce, HistoryTypes
      <3>8. QueriesSaveNoPrice'
        BY <3>4 DEF PriceInv, QueriesSaveNoPrice
      <3> QED
        BY <3>5, <3>6, <3>7, <3>8
    <2> QED
      BY <1>3, <2>1, <2>2
  <1> QED
    BY <1>4, <1>5, <1>6 DEF PriceInv

LEMMA LoadQueryInv ==
  ASSUME PriceInv, NEW q \in Queries, NEW symbol \in Spellings, LoadQuery(q, symbol)
  PROVE  PriceInv'
  <1> USE StockLedgerAssumption
  <1>1. started' = started \cup {q} /\ UNCHANGED <<stocks, made, stored, before>>
    BY DEF LoadQuery, Starts, tableVars, history
  <1>2. PICK e \in IF Spelled(Upper) = {} THEN {NewStock(symbol)}
                   ELSE {Requoted(i) : i \in Spelled(Upper)} :
          entities' = [entities EXCEPT ![q] = e]
    BY DEF LoadQuery
  <1>3. /\ e \in Entity /\ e.row.currentPrice = None /\ e.undefined = {"currentPrice"}
        /\ e.id # None => /\ e.id \in made /\ e.row.symbol = Upper
                          /\ stocks[e.id].symbol = Upper
    <2>1. CASE e = NewStock(symbol)
      BY <2>1 DEF NewStock, Entity, Row
    <2>2. CASE \E i \in Spelled(Upper) : e = Requoted(i)
      <3>1. PICK i \in Spelled(Upper) : e = Requoted(i)
        BY <2>2
      <3>2. i \in StockIds /\ stocks[i] # None /\ stocks[i] \in Row /\ stocks[i].symbol = Upper
        BY <3>1 DEF Spelled, PriceInv, TableTypes
      <3>3. i \in made
        BY <3>2 DEF PriceInv, RowsOfTrades
      <3> QED
        BY <3>1, <3>2, <3>3 DEF Requoted, Entity, Row
    <2> QED
      BY <1>2, <2>1, <2>2
  <1>4. /\ entities'[q] = e
        /\ \A w \in Trades \cup Queries : w # q => entities'[w] = entities[w]
    BY <1>2 DEF PriceInv, EntityTypes
  <1>5. TableTypes' /\ RowsOfTrades' /\ OneRowPerSymbol' /\ HistoryTypes' /\ NoOlderPrice'
    BY <1>1 DEF PriceInv, TableTypes, RowsOfTrades, OneRowPerSymbol, HistoryTypes, NoOlderPrice
  <1>6. EntityTypes'
    BY <1>2, <1>3 DEF PriceInv, EntityTypes
  <1>7. SavesUpper'
    BY <1>1, <1>3, <1>4 DEF PriceInv, SavesUpper
  <1>8. TradesSaveOnce'
    BY <1>1, <1>4 DEF PriceInv, TradesSaveOnce
  <1>9. QueriesSaveNoPrice'
    BY <1>3, <1>4 DEF PriceInv, QueriesSaveNoPrice
  <1> QED
    BY <1>5, <1>6, <1>7, <1>8, <1>9 DEF PriceInv

\* What a save of trade or query w does to the invariant, but for what a
\* trade's own price has to be compared with.
LEMMA SaveInv ==
  ASSUME PriceInv, NEW w \in Trades \cup Queries, entities[w] # None, SaveStock(entities[w]),
         entities' = [entities EXCEPT ![w] = None],
         stored' = IF w \in Trades THEN stored \cup {w} ELSE stored,
         UNCHANGED <<started, before>>
  PROVE  PriceInv'
  <1> USE StockLedgerAssumption
  <1>1. PICK i \in StockIds, row \in Row :
           /\ stocks' = [stocks EXCEPT ![i] = row]
           /\ made' = made \cup {i}
           /\ i \in made => row.symbol = Upper
           /\ stocks[i] # None => i \in made /\ stocks[i].symbol = row.symbol
           /\ stocks[i] = None => Spelled(row.symbol) = {}
           /\ w \in Trades => row.currentPrice = w /\ row.symbol = Upper
           /\ w \in Queries => row.currentPrice = IF stocks[i] = None THEN None
                                                  ELSE stocks[i].currentPrice
    BY SavedRow, Zenon
  <1>2. /\ stocks'[i] = row
        /\ \A j \in StockIds : j # i => stocks'[j] = stocks[j]
    BY <1>1 DEF PriceInv, TableTypes
  <1>3. /\ entities'[w] = None
        /\ \A x \in Trades \cup Queries : x # w => entities'[x] = entities[x]
    BY DEF PriceInv, EntityTypes
  <1>4. w \in Trades => w \in started /\ w \notin stored
    BY DEF PriceInv, TradesSaveOnce
  <1>5. TableTypes' /\ EntityTypes'
    BY <1>1 DEF PriceInv, TableTypes, EntityTypes
  <1>6. HistoryTypes'
    BY DEF PriceInv, HistoryTypes
  <1>7. OneRowPerSymbol'
    BY <1>1, OneRowAfterSave
  <1>8. RowsOfTrades'
    <2> SUFFICES ASSUME NEW j \in StockIds, stocks'[j] # None
                 PROVE  /\ j \in made' /\ stocks'[j].currentPrice \in stored' \cup {None}
                        /\ stocks'[j].symbol # Upper => stocks'[j].currentPrice = None
      BY DEF RowsOfTrades
    <2>1. CASE j # i
      BY <1>1, <1>2, <2>1 DEF PriceInv, RowsOfTrades
    <2>2. CASE j = i /\ w \in Trades
      BY <1>1, <1>2, <2>2
    <2>3. CASE j = i /\ w \in Queries
      BY <1>1, <1>2, <2>3 DEF PriceInv, RowsOfTrades
    <2> QED
      BY <2>1, <2>2, <2>3
  <1>9. SavesUpper'
    BY <1>1, <1>2, <1>3 DEF PriceInv, SavesUpper
  <1>10. TradesSaveOnce'
    BY <1>3, <1>4 DEF PriceInv, TradesSaveOnce
  <1>11. QueriesSaveNoPrice'
    BY <1>3 DEF PriceInv, QueriesSaveNoPrice
  <1>12. NoOlderPrice'
    <2> SUFFICES ASSUME NEW j \in StockIds, NEW t \in stored', stocks'[j] # None
                 PROVE  stocks'[j].currentPrice \notin before[t]
      BY DEF NoOlderPrice
    <2>0. before[t] \subseteq stored /\ None \notin before[t]
      BY <1>6 DEF PriceInv, TradesSaveOnce, HistoryTypes
    <2>1. CASE j = i /\ w \in Trades
      BY <1>1, <1>2, <1>4, <2>0, <2>1
    <2>2. CASE j = i /\ w \in Queries
      BY <1>1, <1>2, <2>0, <2>2 DEF PriceInv, NoOlderPrice
    <2>3. CASE j # i /\ w \in Queries
      BY <1>2, <2>3 DEF PriceInv, NoOlderPrice
    <2>4. CASE j # i /\ w \in Trades
      <3>1. stocks'[j].symbol # Upper
        BY <1>1, <1>2, <1>7, <2>4 DEF OneRowPerSymbol
      <3> QED
        BY <1>8, <2>0, <3>1 DEF RowsOfTrades
    <2> QED
      BY <2>1, <2>2, <2>3, <2>4
  <1> QED
    BY <1>5, <1>6, <1>7, <1>8, <1>9, <1>10, <1>11, <1>12 DEF PriceInv

LEMMA SaveTradeInv == ASSUME PriceInv, NEW t \in Trades, SaveTrade(t) PROVE PriceInv'
  BY SaveInv DEF SaveTrade

LEMMA SaveQueryInv == ASSUME PriceInv, NEW q \in Queries, SaveQuery(q) PROVE PriceInv'
  BY SaveInv, StockLedgerAssumption DEF SaveQuery, history

LEMMA SaveFailsInv == ASSUME PriceInv, NEW w \in Trades \cup Queries, SaveFails(w) PROVE PriceInv'
  <1> USE StockLedgerAssumption
  <1>1. /\ entities' = [entities EXCEPT ![w] = None]
        /\ UNCHANGED <<stocks, made, started, stored, before>>
    BY DEF SaveFails, tableVars, history
  <1>2. TableTypes' /\ HistoryTypes' /\ RowsOfTrades' /\ NoOlderPrice' /\ OneRowPerSymbol'
    BY <1>1 DEF PriceInv, TableTypes, HistoryTypes, RowsOfTrades, NoOlderPrice, OneRowPerSymbol
  <1>3. EntityTypes' /\ SavesUpper' /\ TradesSaveOnce' /\ QueriesSaveNoPrice'
    BY <1>1 DEF PriceInv, EntityTypes, SavesUpper, TradesSaveOnce, QueriesSaveNoPrice
  <1> QED
    BY <1>2, <1>3 DEF PriceInv

LEMMA DeleteStockInv == ASSUME PriceInv, NEW i \in StockIds, deleteStock(i) PROVE PriceInv'
  <1> USE StockLedgerAssumption
  <1>1. /\ stocks' = [stocks EXCEPT ![i] = None]
        /\ UNCHANGED <<made, entities, started, stored, before>>
    BY DEF deleteStock, history
  <1>2. \A j \in StockIds : stocks'[j] # None => stocks'[j] = stocks[j]
    BY <1>1 DEF PriceInv, TableTypes
  <1>3. TableTypes' /\ EntityTypes' /\ HistoryTypes' /\ TradesSaveOnce' /\ QueriesSaveNoPrice'
    BY <1>1 DEF PriceInv, TableTypes, EntityTypes, HistoryTypes, TradesSaveOnce,
                QueriesSaveNoPrice
  <1>4. RowsOfTrades' /\ NoOlderPrice' /\ OneRowPerSymbol'
    BY <1>1, <1>2 DEF PriceInv, RowsOfTrades, NoOlderPrice, OneRowPerSymbol
  <1>5. SavesUpper'
    <2> SUFFICES ASSUME NEW w \in Trades \cup Queries, entities[w] # None,
                        entities[w].id # None
                 PROVE  /\ entities[w].id \in made /\ entities[w].row.symbol = Upper
                        /\ stocks'[entities[w].id] # None =>
                             stocks'[entities[w].id].symbol = Upper
      BY <1>1 DEF SavesUpper
    <2>1. entities[w].id \in StockIds
      BY DEF PriceInv, EntityTypes, Entity
    <2> QED
      BY <1>2, <2>1 DEF PriceInv, SavesUpper
  <1> QED
    BY <1>3, <1>4, <1>5 DEF PriceInv

-----------------------------------------------------------------------------
\* Steps about prices take no row away and touch no transaction.
LEMMA OrdersUntouched ==
  ASSUME OrderInv, UNCHANGED <<portfolios, transactions, drafts>>,
         \A i \in StockIds : stocks[i] # None => stocks'[i] # None
  PROVE  OrderInv'
  BY DEF OrderInv, OrderTypes, DraftsAreOwned, ReferencesHold, Transaction

LEMMA RowsStay ==
  ASSUME Inv, NEW w \in Trades \cup Queries, entities[w] # None, SaveStock(entities[w])
  PROVE  \A i \in StockIds : stocks[i] # None => stocks'[i] # None
  <1>1. PICK i \in StockIds, row \in Row : stocks' = [stocks EXCEPT ![i] = row]
    BY SavedRow, Zenon DEF Inv
  <1> QED
    BY <1>1, StockLedgerAssumption DEF Inv, PriceInv, TableTypes

LEMMA FindPortfolioInv ==
  ASSUME OrderInv, NEW o \in Orders, NEW u \in Users, NEW p \in Portfolios, FindPortfolio(o, u, p)
  PROVE  OrderInv'
  BY StockLedgerAssumption
  DEF FindPortfolio, tableVars, OrderInv, OrderTypes, DraftsAreOwned, ReferencesHold, Draft

LEMMA FindStockInv ==
  ASSUME OrderInv, NEW o \in Orders, FindStock(o)
  PROVE  OrderInv'
  BY StockLedgerAssumption
  DEF FindStock, tableVars, Spelled, OrderInv, OrderTypes, DraftsAreOwned, ReferencesHold, Draft

LEMMA SaveTransactionInv ==
  ASSUME OrderInv, NEW o \in Orders, SaveTransaction(o)
  PROVE  OrderInv'
  <1> USE StockLedgerAssumption
  <1> DEFINE x == [order |-> o, userId |-> drafts[o].userId,
                   portfolioId |-> drafts[o].portfolioId, stockId |-> drafts[o].stockId]
  <1>1. drafts[o] \in Draft
    BY DEF SaveTransaction, OrderInv, OrderTypes
  <1>2. x \in Transaction /\ Owner[x.portfolioId] = x.userId
    BY <1>1 DEF SaveTransaction, Draft, Transaction, OrderInv, DraftsAreOwned
  <1>3. /\ transactions' = transactions \cup {x}
        /\ drafts' = [drafts EXCEPT ![o] = None]
        /\ UNCHANGED <<stocks, portfolios>>
        /\ x.portfolioId \in portfolios /\ stocks[x.stockId] # None
    BY DEF SaveTransaction
  <1>4. OrderTypes' /\ DraftsAreOwned'
    BY <1>2, <1>3 DEF OrderInv, OrderTypes, DraftsAreOwned
  <1>5. ReferencesHold'
    BY <1>2, <1>3 DEF OrderInv, ReferencesHold
  <1> QED
    BY <1>4, <1>5 DEF OrderInv

LEMMA OrderFailsInv == ASSUME OrderInv, NEW o \in Orders, OrderFails(o) PROVE OrderInv'
  BY StockLedgerAssumption
  DEF OrderFails, tableVars, OrderInv, OrderTypes, DraftsAreOwned, ReferencesHold

\* A deletion is of what no transaction refers to.
LEMMA DeletionInv ==
  ASSUME Inv, (\E i \in StockIds : deleteStock(i)) \/ (\E p \in Portfolios : deletePortfolio(p))
  PROVE  OrderInv'
  <1>1. ASSUME NEW i \in StockIds, deleteStock(i) PROVE OrderInv'
    BY <1>1 DEF deleteStock, Inv, PriceInv, TableTypes, OrderInv, OrderTypes, DraftsAreOwned,
                ReferencesHold, Transaction
  <1>2. ASSUME NEW p \in Portfolios, deletePortfolio(p) PROVE OrderInv'
    BY <1>2 DEF deletePortfolio, Inv, OrderInv, OrderTypes, DraftsAreOwned, ReferencesHold
  <1> QED
    BY <1>1, <1>2

\* Orders and deletions of portfolios leave the stocks' half alone.
LEMMA PricesUntouched ==
  ASSUME PriceInv, UNCHANGED <<stocks, made, entities, history>>,
         started \subseteq started', started' \subseteq Trades \cup Queries \cup Orders
  PROVE  PriceInv'
  BY DEF PriceInv, history, TableTypes, EntityTypes, HistoryTypes, RowsOfTrades, SavesUpper,
         TradesSaveOnce, QueriesSaveNoPrice, NoOlderPrice, OneRowPerSymbol

LEMMA OrderKeepsPrices ==
  ASSUME Inv, NEW o \in Orders, Order(o)
  PROVE  PriceInv'
  <1>1. ASSUME NEW u \in Users, NEW p \in Portfolios, FindPortfolio(o, u, p)
        PROVE  PriceInv'
    <2>1. started' = started \cup {o} /\ UNCHANGED <<stocks, made, entities, history>>
      BY <1>1 DEF FindPortfolio, Starts, tableVars
    <2>2. started' \subseteq Trades \cup Queries \cup Orders
      BY <2>1 DEF Inv, PriceInv, HistoryTypes
    <2> QED
      BY <2>1, <2>2, PricesUntouched DEF Inv
  <1>2. FindStock(o) \/ SaveTransaction(o) \/ OrderFails(o) => PriceInv'
    <2>1. FindStock(o) \/ SaveTransaction(o) \/ OrderFails(o)
            => UNCHANGED <<stocks, made, entities, history, started>>
      BY DEF FindStock, SaveTransaction, OrderFails, tableVars
    <2>2. started \subseteq Trades \cup Queries \cup Orders
      BY DEF Inv, PriceInv, HistoryTypes
    <2> QED
      BY <2>1, <2>2, PricesUntouched DEF Inv
  <1> QED
    BY <1>1, <1>2 DEF Order

LEMMA StepInv == Inv /\ [Next]_vars => Inv'
  <1> SUFFICES ASSUME Inv, [Next]_vars PROVE Inv'
    OBVIOUS
  <1>1. ASSUME NEW t \in Trades, Price(t) PROVE Inv'
    <2>1. UNCHANGED <<portfolios, transactions, drafts>>
      BY <1>1 DEF Price, LoadTrade, SaveTrade, SaveFails, tableVars
    <2>2. \A i \in StockIds : stocks[i] # None => stocks'[i] # None
      <3>1. CASE SaveTrade(t)
        BY <3>1, RowsStay DEF SaveTrade
      <3>2. CASE LoadTrade(t) \/ SaveFails(t)
        BY <3>2 DEF LoadTrade, SaveFails, tableVars
      <3> QED
        BY <1>1, <3>1, <3>2 DEF Price
    <2>3. PriceInv'
      BY <1>1, LoadTradeInv, SaveTradeInv, SaveFailsInv DEF Price, Inv
    <2> QED
      BY <2>1, <2>2, <2>3, OrdersUntouched DEF Inv
  <1>2. ASSUME NEW q \in Queries, Query(q) PROVE Inv'
    <2>1. UNCHANGED <<portfolios, transactions, drafts>>
      BY <1>2 DEF Query, LoadQuery, SaveQuery, SaveFails, tableVars
    <2>2. \A i \in StockIds : stocks[i] # None => stocks'[i] # None
      <3>1. CASE SaveQuery(q)
        BY <3>1, RowsStay DEF SaveQuery
      <3>2. CASE (\E symbol \in Spellings : LoadQuery(q, symbol)) \/ SaveFails(q)
        BY <3>2 DEF LoadQuery, SaveFails, tableVars
      <3> QED
        BY <1>2, <3>1, <3>2 DEF Query
    <2>3. PriceInv'
      BY <1>2, LoadQueryInv, SaveQueryInv, SaveFailsInv DEF Query, Inv
    <2> QED
      BY <2>1, <2>2, <2>3, OrdersUntouched DEF Inv
  <1>3. ASSUME NEW o \in Orders, Order(o) PROVE Inv'
    <2>1. OrderInv'
      BY <1>3, FindPortfolioInv, FindStockInv, SaveTransactionInv, OrderFailsInv DEF Order, Inv
    <2> QED
      BY <1>3, <2>1, OrderKeepsPrices DEF Inv
  <1>4. ASSUME NEW i \in StockIds, deleteStock(i) PROVE Inv'
    BY <1>4, DeleteStockInv, DeletionInv DEF Inv
  <1>5. ASSUME NEW p \in Portfolios, deletePortfolio(p) PROVE Inv'
    <2>1. started \subseteq Trades \cup Queries \cup Orders
      BY DEF Inv, PriceInv, HistoryTypes
    <2>2. PriceInv'
      BY <1>5, <2>1, PricesUntouched DEF deletePortfolio, Inv
    <2> QED
      BY <1>5, <2>2, DeletionInv DEF Inv
  <1>6. CASE UNCHANGED vars
    <2>1. started \subseteq Trades \cup Queries \cup Orders
      BY DEF Inv, PriceInv, HistoryTypes
    <2>2. PriceInv'
      BY <1>6, <2>1, PricesUntouched DEF vars, tableVars, Inv
    <2>3. OrderInv'
      BY <1>6, OrdersUntouched DEF vars, tableVars, Inv
    <2> QED
      BY <2>2, <2>3 DEF Inv
  <1> QED
    BY <1>1, <1>2, <1>3, <1>4, <1>5, <1>6 DEF Next

LEMMA Invariance == Spec => []Inv
  BY InitInv, StepInv, PTL DEF Spec

-----------------------------------------------------------------------------
\* The types of rows, entities, drafts and what was stored, whatever overlaps.
THEOREM LedgerTypeCorrect == Spec => []TypeOK
  <1>1. Inv => TypeOK
    BY DEF Inv, PriceInv, OrderInv, TableTypes, EntityTypes, OrderTypes, HistoryTypes, TypeOK
  <1> QED
    BY <1>1, Invariance, PTL

\* No row goes back to a price from before a trade that was stored.
THEOREM PricesNeverOlder == Spec => []NoOlderPrice
  <1>1. Inv => NoOlderPrice
    BY DEF Inv, PriceInv
  <1> QED
    BY <1>1, Invariance, PTL

\* However many queries find no stock and make one, a symbol has one row.
THEOREM OneRowEach == Spec => []OneRowPerSymbol
  <1>1. Inv => OneRowPerSymbol
    BY DEF Inv, PriceInv
  <1> QED
    BY <1>1, Invariance, PTL

\* Transactions refer to rows that are there, and to portfolios of their user.
THEOREM ReferencesAlwaysHold == Spec => []ReferencesHold
  <1>1. Inv => ReferencesHold
    BY DEF Inv, OrderInv
  <1> QED
    BY <1>1, Invariance, PTL

\* A row that stays gets another price only from a trade being stored.
LEMMA PriceStep ==
  ASSUME Inv, [Next]_vars, NEW i \in StockIds, stocks[i] # None, stocks'[i] # None,
         stocks'[i].currentPrice # stocks[i].currentPrice
  PROVE  \E t \in Trades : /\ entities[t] # None /\ entities'[t] = None
                           /\ stocks'[i].currentPrice = t
  <1> USE StockLedgerAssumption
  <1>1. ASSUME NEW w \in Trades \cup Queries, entities[w] # None, SaveStock(entities[w])
        PROVE  w \in Trades /\ stocks'[i].currentPrice = w
    <2>1. PICK j \in StockIds, row \in Row :
            /\ stocks' = [stocks EXCEPT ![j] = row]
            /\ w \in Trades => row.currentPrice = w
            /\ w \in Queries => row.currentPrice = IF stocks[j] = None THEN None
                                                   ELSE stocks[j].currentPrice
      BY <1>1, SavedRow, SMTT(60) DEF Inv
    <2>2. i = j /\ stocks'[i] = row
      BY <2>1 DEF Inv, PriceInv, TableTypes
    <2> QED
      BY <2>1, <2>2
  <1>2. ASSUME NEW t \in Trades, SaveTrade(t)
        PROVE  /\ entities[t] # None /\ entities'[t] = None
               /\ stocks'[i].currentPrice = t
    BY <1>1, <1>2 DEF SaveTrade, Inv, PriceInv, EntityTypes
  <1>3. ASSUME NEW q \in Queries, SaveQuery(q) PROVE FALSE
    BY <1>1, <1>3 DEF SaveQuery
  <1>4. ASSUME NEW d \in StockIds, deleteStock(d) PROVE FALSE
    BY <1>4 DEF deleteStock, Inv, PriceInv, TableTypes
  <1>5. stocks' # stocks
    OBVIOUS
  <1>6. (\E t \in Trades : SaveTrade(t)) \/ (\E q \in Queries : SaveQuery(q))
          \/ (\E d \in StockIds : deleteStock(d))
    BY <1>5 DEF Next, vars, tableVars, Price, LoadTrade, SaveFails, Query, LoadQuery, Order,
                FindPortfolio, FindStock, SaveTransaction, OrderFails, deletePortfolio
  <1> QED
    BY <1>2, <1>3, <1>4, <1>6

\* A query never changes the current price, however long ago it loaded the row.
THEOREM OnlyTradesEverMovePrices == Spec => OnlyTradesMovePrices
  <1> DEFINE Moves == \A i \in StockIds :
         /\ stocks[i] # None /\ stocks'[i] # None
         /\ stocks'[i].currentPrice # stocks[i].currentPrice
         => \E t \in Trades :
              /\ entities[t] # None /\ entities'[t] = None
              /\ stocks'[i].currentPrice = t
  <1>1. Inv /\ [Next]_vars => [Moves]_vars
    BY PriceStep
  <1>2. Spec => [][Moves]_vars
    BY <1>1, Invariance, PTL DEF Spec
  <1> QED
    BY <1>2 DEF OnlyTradesMovePrices

-----------------------------------------------------------------------------
(* The refinement.  PriceRegister's variables depend on the rows of the    *)
(* upper-case symbol, of which there is at most one, and on the trades     *)
(* that are saving.                                                        *)

LEMMA TheOne ==
  ASSUME NEW S, NEW i \in S, \A j \in S : j = i
  PROVE  S # {} /\ (CHOOSE j \in S : TRUE) = i
  OBVIOUS

\* With a row of the symbol, that row is the register.
LEMMA RegisterIsRow ==
  ASSUME OneRowPerSymbol, NEW i \in StockIds, stocks[i] # None, stocks[i].symbol = Upper
  PROVE  listed /\ price = stocks[i].currentPrice
  <1>1. i \in Spelled(Upper) /\ \A j \in Spelled(Upper) : j = i
    BY DEF Spelled, OneRowPerSymbol
  <1> QED
    BY <1>1, TheOne DEF listed, price

LEMMA RegisterIsRowAfter ==
  ASSUME OneRowPerSymbol', NEW i \in StockIds, stocks'[i] # None, stocks'[i].symbol = Upper
  PROVE  listed' /\ price' = stocks'[i].currentPrice
  <1>1. i \in Spelled(Upper)' /\ \A j \in Spelled(Upper)' : j = i
    BY DEF Spelled, OneRowPerSymbol
  <1>2. Spelled(Upper)' # {} /\ (CHOOSE j \in Spelled(Upper)' : TRUE) = i
    BY <1>1, TheOne
  <1> QED
    BY <1>2 DEF listed, price

\* A step that leaves the rows alone leaves the register alone.
LEMMA SameRowsSameRegister ==
  ASSUME stocks' = stocks
  PROVE  UNCHANGED <<listed, price>>
  BY DEF listed, price, Spelled

\* What the save of a trade or a query is to the register.
LEMMA SaveToRegister ==
  ASSUME PriceInv, PriceInv', NEW w \in Trades \cup Queries, entities[w] # None,
         SaveStock(entities[w])
  PROVE  /\ w \in Trades => listed' /\ price' = w
         /\ w \in Queries => UNCHANGED <<listed, price>> \/ (~listed /\ listed' /\ UNCHANGED price)
  <1> USE StockLedgerAssumption
  <1>1. PICK i \in StockIds, row \in Row :
           /\ stocks' = [stocks EXCEPT ![i] = row]
           /\ made' = made \cup {i}
           /\ i \in made => row.symbol = Upper
           /\ stocks[i] # None => i \in made /\ stocks[i].symbol = row.symbol
           /\ stocks[i] = None => Spelled(row.symbol) = {}
           /\ w \in Trades => row.currentPrice = w /\ row.symbol = Upper
           /\ w \in Queries => row.currentPrice = IF stocks[i] = None THEN None
                                                  ELSE stocks[i].currentPrice
    BY SavedRow, Zenon
  <1>2. /\ stocks'[i] = row /\ row # None
        /\ \A j \in StockIds : j # i => stocks'[j] = stocks[j]
    BY <1>1 DEF PriceInv, TableTypes
  <1>3. OneRowPerSymbol /\ OneRowPerSymbol'
    BY DEF PriceInv
  <1>4. CASE row.symbol = Upper
    <2>1. listed' /\ price' = row.currentPrice
      BY <1>2, <1>3, <1>4, RegisterIsRowAfter
    <2>2. CASE stocks[i] # None
      <3>1. listed /\ price = stocks[i].currentPrice
        BY <1>1, <1>3, <1>4, <2>2, RegisterIsRow
      <3> QED
        BY <1>1, <2>1, <2>2, <3>1
    <2>3. CASE stocks[i] = None
      <3>1. ~listed /\ price = None
        BY <1>1, <1>4, <2>3 DEF listed, price
      <3> QED
        BY <1>1, <2>1, <2>3, <3>1
    <2> QED
      BY <2>2, <2>3
  <1>5. CASE row.symbol # Upper
    <2>1. stocks[i] = None /\ w \in Queries
      BY <1>1, <1>5
    <2>2. Spelled(Upper)' = Spelled(Upper) /\ \A j \in Spelled(Upper) : stocks'[j] = stocks[j]
      BY <1>2, <1>5, <2>1 DEF Spelled
    <2>3. listed' = listed
      BY <2>2 DEF listed
    <2>4. price' = price
      <3>1. CASE Spelled(Upper) = {}
        BY <2>2, <2>3, <3>1 DEF listed, price
      <3>2. CASE Spelled(Upper) # {}
        <4>1. (CHOOSE j \in Spelled(Upper) : TRUE) \in Spelled(Upper)
          BY <3>2
        <4>2. stocks'[CHOOSE j \in Spelled(Upper) : TRUE] = stocks[CHOOSE j \in Spelled(Upper) : TRUE]
          BY <2>2, <4>1
        <4> QED
          BY <2>2, <2>3, <3>2, <4>2 DEF listed, price
      <3> QED
        BY <3>1, <3>2
    <2> QED
      BY <1>2, <2>1, <2>3, <2>4
  <1> QED
    BY <1>4, <1>5

\* A deletion takes the stock off the list.
LEMMA DeleteToRegister ==
  ASSUME PriceInv, NEW i \in StockIds, deleteStock(i)
  PROVE  listed /\ ~listed' /\ price' = None
  <1>1. stocks' = [stocks EXCEPT ![i] = None] /\ i \in Spelled(Upper)
    BY DEF deleteStock
  <1>2. \A j \in Spelled(Upper) : j = i
    BY <1>1 DEF PriceInv, OneRowPerSymbol, Spelled
  <1>3. Spelled(Upper)' = {}
    BY <1>1, <1>2 DEF Spelled, PriceInv, TableTypes
  <1> QED
    BY <1>1, <1>3 DEF listed, price

LEMMA RegisterStarts == Init => Register!RegisterInit
  <1> SUFFICES ASSUME Init PROVE Register!RegisterInit
    OBVIOUS
  <1> USE StockLedgerAssumption
  <1>1. PICK i \in StockIds :
          stocks = [j \in StockIds |->
                      IF j = i THEN [symbol |-> Upper, currentPrice |-> None,
                                     previousClose |-> None]
                      ELSE None]
    BY DEF Init
  <1>2. stocks[i] # None /\ stocks[i].symbol = Upper /\ stocks[i].currentPrice = None
    BY <1>1 DEF Row
  <1>3. listed /\ price = None
    BY <1>2, InitInv, RegisterIsRow DEF Inv, PriceInv
  <1>4. started \cap Trades = {} /\ {t \in Trades : entities[t] # None} = {}
    BY DEF Init
  <1> QED
    BY <1>3, <1>4 DEF Register!RegisterInit

\* Every step is one of the register's, or none.
LEMMA RegisterStep == Inv /\ Inv' /\ [Next]_vars => [Register!RegisterNext]_(Register!registerVars)
  <1> SUFFICES ASSUME Inv, Inv', [Next]_vars
               PROVE  Register!RegisterNext \/ UNCHANGED Register!registerVars
    OBVIOUS
  <1> USE StockLedgerAssumption
  <1> DEFINE arrived == started \cap Trades
             writing == {t \in Trades : entities[t] # None}
  <1>1. PriceInv /\ PriceInv' /\ OneRowPerSymbol
    BY DEF Inv, PriceInv
  <1>2. \A e : \A w \in Trades \cup Queries :
          entities' = [entities EXCEPT ![w] = e] =>
            /\ entities'[w] = e
            /\ \A x \in Trades : x # w => entities'[x] = entities[x]
    BY <1>1 DEF PriceInv, EntityTypes
  <1>3. ASSUME UNCHANGED <<listed, price, arrived, writing>>
        PROVE  UNCHANGED Register!registerVars
    BY <1>3 DEF Register!registerVars
  <1>4. ASSUME NEW t \in Trades, LoadTrade(t) PROVE Register!RegisterNext
    <2>1. t \notin arrived /\ arrived' = arrived \cup {t} /\ UNCHANGED <<listed, price>>
      BY <1>4, SameRowsSameRegister DEF LoadTrade, Starts, tableVars
    <2>2. CASE ~listed
      <3>1. entities' = entities
        BY <1>4, <2>2 DEF LoadTrade, listed
      <3> QED
        BY <2>1, <2>2, <3>1 DEF Register!RegisterNext, Register!Arrive
    <2>3. CASE listed
      <3>1. PICK i \in Spelled(Upper) :
              entities' = [entities EXCEPT ![t] =
                [id |-> i, row |-> [stocks[i] EXCEPT !.currentPrice = t], undefined |-> {}]]
        BY <1>4, <2>3 DEF LoadTrade, listed
      <3>2. stocks[i] \in Row
        BY <1>1 DEF PriceInv, TableTypes, Spelled
      <3> DEFINE e == [id |-> i, row |-> [stocks[i] EXCEPT !.currentPrice = t],
                       undefined |-> {}]
      <3>3. e # None
        <4>1. e \in Entity
          BY <3>2 DEF Entity, Row, Spelled
        <4> QED
          BY <4>1
      <3>4. entities' = [entities EXCEPT ![t] = e]
        BY <3>1
      <3> HIDE DEF e
      <3>5. entities'[t] = e /\ \A x \in Trades : x # t => entities'[x] = entities[x]
        BY <1>2, <3>4
      <3>6. writing' = writing \cup {t}
        BY <3>3, <3>5
      <3> QED
        BY <2>1, <2>3, <3>6 DEF Register!RegisterNext, Register!Arrive
    <2> QED
      BY <2>2, <2>3
  <1>5. ASSUME NEW t \in Trades, SaveTrade(t) PROVE Register!RegisterNext
    <2>1. t \in writing /\ writing' = writing \ {t} /\ UNCHANGED arrived
      <3>1. entities[t] # None /\ entities' = [entities EXCEPT ![t] = None]
        BY <1>5 DEF SaveTrade
      <3>2. entities'[t] = None /\ \A x \in Trades : x # t => entities'[x] = entities[x]
        BY <1>2, <3>1
      <3> QED
        BY <1>5, <3>1, <3>2 DEF SaveTrade
    <2>2. listed' /\ price' = t
      BY <1>1, <1>5, SaveToRegister DEF SaveTrade
    <2> QED
      BY <2>1, <2>2 DEF Register!RegisterNext, Register!Write
  <1>6. ASSUME NEW q \in Queries, SaveQuery(q)
        PROVE  Register!RegisterNext \/ UNCHANGED Register!registerVars
    <2>1. UNCHANGED <<arrived, writing>>
      BY <1>2, <1>6 DEF SaveQuery
    <2>2. UNCHANGED <<listed, price>> \/ (~listed /\ listed' /\ UNCHANGED price)
      BY <1>1, <1>6, SaveToRegister DEF SaveQuery
    <2> QED
      BY <2>1, <2>2 DEF Register!RegisterNext, Register!List, Register!registerVars
  <1>7. ASSUME NEW w \in Trades \cup Queries, SaveFails(w)
        PROVE  Register!RegisterNext \/ UNCHANGED Register!registerVars
    <2>1. UNCHANGED <<arrived, listed, price>>
      BY <1>7, SameRowsSameRegister DEF SaveFails, tableVars
    <2>2. CASE w \in Trades
      <3>1. entities[w] # None /\ entities' = [entities EXCEPT ![w] = None]
        BY <1>7 DEF SaveFails
      <3>2. entities'[w] = None /\ \A x \in Trades : x # w => entities'[x] = entities[x]
        BY <1>2, <3>1
      <3>3. w \in writing /\ writing' = writing \ {w}
        BY <2>2, <3>1, <3>2
      <3> QED
        BY <2>1, <2>2, <3>3 DEF Register!RegisterNext, Register!GiveUp
    <2>3. CASE w \in Queries
      <3>1. UNCHANGED writing
        BY <1>2, <1>7, <2>3 DEF SaveFails
      <3> QED
        BY <2>1, <3>1, <1>3
    <2> QED
      BY <2>2, <2>3
  <1>8. ASSUME NEW q \in Queries, NEW symbol \in Spellings, LoadQuery(q, symbol)
        PROVE  UNCHANGED Register!registerVars
    <2>1. PICK e : entities' = [entities EXCEPT ![q] = e]
      BY <1>8 DEF LoadQuery
    <2>2. UNCHANGED writing
      BY <1>2, <2>1
    <2>3. UNCHANGED <<arrived, listed, price>>
      BY <1>8, SameRowsSameRegister DEF LoadQuery, Starts, tableVars
    <2> QED
      BY <2>2, <2>3, <1>3
  <1>9. ASSUME NEW i \in StockIds, deleteStock(i) PROVE Register!RegisterNext
    <2>1. UNCHANGED <<arrived, writing>>
      BY <1>9 DEF deleteStock
    <2>2. listed /\ ~listed' /\ price' = None
      BY <1>1, <1>9, DeleteToRegister
    <2> QED
      BY <2>1, <2>2 DEF Register!RegisterNext, Register!Delist
  <1>10. ASSUME UNCHANGED <<stocks, entities, started>> PROVE UNCHANGED Register!registerVars
    BY <1>3, <1>10, SameRowsSameRegister
  <1>11. ASSUME NEW p \in Portfolios, deletePortfolio(p) PROVE UNCHANGED <<stocks, entities, started>>
    BY <1>11 DEF deletePortfolio
  <1>12. ASSUME NEW o \in Orders, FindStock(o) \/ SaveTransaction(o) \/ OrderFails(o)
         PROVE UNCHANGED <<stocks, entities, started>>
    BY <1>12 DEF FindStock, SaveTransaction, OrderFails, tableVars
  <1>13. ASSUME NEW o \in Orders, NEW u \in Users, NEW p \in Portfolios, FindPortfolio(o, u, p)
         PROVE UNCHANGED Register!registerVars
    <2>1. UNCHANGED <<listed, price>>
      BY <1>13, SameRowsSameRegister DEF FindPortfolio, tableVars
    <2>2. UNCHANGED <<arrived, writing>>
      BY <1>13 DEF FindPortfolio, Starts
    <2> QED
      BY <2>1, <2>2, <1>3
  <1>14. CASE UNCHANGED vars
    BY <1>10, <1>14 DEF vars, tableVars
  <1>15. ASSUME NEW t \in Trades, Price(t)
         PROVE Register!RegisterNext \/ UNCHANGED Register!registerVars
    BY <1>4, <1>5, <1>7, <1>15 DEF Price
  <1>16. ASSUME NEW q \in Queries, Query(q)
         PROVE Register!RegisterNext \/ UNCHANGED Register!registerVars
    BY <1>6, <1>7, <1>8, <1>16 DEF Query
  <1>17. ASSUME NEW o \in Orders, Order(o) PROVE UNCHANGED Register!registerVars
    BY <1>10, <1>12, <1>13, <1>17 DEF Order
  <1> QED
    BY <1>9, <1>10, <1>11, <1>14, <1>15, <1>16, <1>17 DEF Next

\* The table is one register for the price of the stock, whatever is loaded,
\* saved late, deleted and inserted again.
THEOREM ImplementsTheRegister == Spec => ImplementsRegister
  BY RegisterStarts, RegisterStep, Invariance, PTL
  DEF Spec, ImplementsRegister, Register!RegisterSpec

=============================================================================

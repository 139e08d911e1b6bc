----------------------------- MODULE Transactions -----------------------------
(***************************************************************************)
(* A user's transactions and what the server reports of them               *)
(* (TransactionsService): manual transactions are COMPLETED, automatic     *)
(* ones may be FAILED, and only what is not COMPLETED can be edited or     *)
(* deleted.  An edit or deletion loads the row, looks at its status, and   *)
(* writes after another await; an action is what runs between two awaits.  *)
(* Reports are functions of what one query finds.                          *)
(*                                                                         *)
(* How a transaction finds its portfolio and stock is in StockLedger.      *)
(* Amounts are whole dollars.  createAutoTradingTransaction() is written   *)
(* for the realtime engine, which does not call it yet.                    *)
(***************************************************************************)
EXTENDS Integers, FiniteSets, FiniteSetsExt, Functions

CONSTANTS
    Trades,           \* what requests trade: a stock, a quantity and a price
    Fees,
    OtherStatuses,    \* PENDING and CANCELLED, which only edits give
    Edits,            \* requests to edit or delete a transaction
    Periods,          \* Periods[p]: the length of a period that analyses know
    DefaultPeriod,    \* "30d", taken for every other period
    MaxTransactions,  \* bound on ids
    MaxTime,          \* bound on the clock
    NoTransaction     \* no row, no edit

Stocks == {trade.stock : trade \in Trades}
Quantities == {trade.quantity : trade \in Trades}
Prices == {trade.pricePerShare : trade \in Trades}
Statuses == {"COMPLETED", "FAILED"} \cup OtherStatuses
TransactionIds == 1..MaxTransactions

TransactionRow ==
    [transactionType : {"BUY", "SELL"}, stock : Stocks, quantity : Quantities,
     pricePerShare : Prices, fees : Nat, transactionDate : 0..MaxTime, status : Statuses]

\* An edit past its check: the row with what the request assigns, whether it
\* is going to be removed, the columns that were not sent, and (history) the
\* status that the check saw.
Edit == [id : TransactionIds, row : TransactionRow, removes : BOOLEAN,
         undefined : SUBSET {"status", "fees"}, seen : Statuses]

ASSUME TransactionsAssumption ==
    /\ \A trade \in Trades :
         DOMAIN trade = {"stock", "quantity", "pricePerShare"}
    /\ Quantities \subseteq Nat \ {0} /\ Prices \subseteq Nat /\ Fees \subseteq Nat
    /\ MaxTransactions \in Nat /\ MaxTime \in Nat
    /\ DefaultPeriod \in DOMAIN Periods
    /\ \A p \in DOMAIN Periods : Periods[p] \in Nat
    /\ NoTransaction \notin TransactionRow /\ NoTransaction \notin Edit

VARIABLES
    transactions,  \* the table: a row or NoTransaction
    drawn,         \* ids that were given out
    edits,         \* edits[e], past its check, or NoTransaction
    time           \* the clock

transactionsVars == <<transactions, drawn, edits, time>>

TransactionsTypeOK ==
    /\ transactions \in [TransactionIds -> TransactionRow \cup {NoTransaction}]
    /\ drawn \in 0..MaxTransactions
    /\ edits \in [Edits -> Edit \cup {NoTransaction}]
    /\ time \in 0..MaxTime

TransactionsInit ==
    /\ transactions = [i \in TransactionIds |-> NoTransaction]
    /\ drawn = 0 /\ time = 0
    /\ edits = [e \in Edits |-> NoTransaction]

-----------------------------------------------------------------------------
(* Recording.                                                              *)

InsertTransaction(row) ==
    /\ drawn < MaxTransactions
    /\ drawn' = drawn + 1
    /\ transactions' = [transactions EXCEPT ![drawn + 1] = row]
    /\ UNCHANGED <<edits, time>>

\* 0.1 %, at least 1 and at most 50.
calculateTradingFees(totalAmount) == Max({1, Min({totalAmount \div 1000, 50})})

Traded(type, trade, fees, status) ==
    [transactionType |-> type, stock |-> trade.stock, quantity |-> trade.quantity,
     pricePerShare |-> trade.pricePerShare, fees |-> fees,
     transactionDate |-> time, status |-> status]

createTransaction(type, trade, fees) ==
    InsertTransaction(Traded(type, trade, fees, "COMPLETED"))

createAutoTradingTransaction(type, trade, success) ==
    InsertTransaction(Traded(type, trade,
                             calculateTradingFees(trade.pricePerShare * trade.quantity),
                             IF success THEN "COMPLETED" ELSE "FAILED"))

-----------------------------------------------------------------------------
(* Edits and deletions.                                                    *)

\* Whatever its status.
EditableAlways(i) == transactions[i] # NoTransaction

\* A completed transaction is refused.
Editable(i) == transactions[i] # NoTransaction /\ transactions[i].status # "COMPLETED"

\* updateTransaction() to its save: the columns sent are assigned.
updateTransaction(e, i, sent, status, fees) ==
    /\ edits[e] = NoTransaction
    /\ Editable(i)
    /\ edits' = [edits EXCEPT ![e] =
         [id |-> i, removes |-> FALSE, undefined |-> {"status", "fees"} \ sent,
          seen |-> transactions[i].status,
          row |-> [transactions[i] EXCEPT !.status = IF "status" \in sent THEN status ELSE @,
                                          !.fees = IF "fees" \in sent THEN fees ELSE @]]]
    /\ UNCHANGED <<transactions, drawn, time>>

\* deleteTransaction() to its remove.
deleteTransaction(e, i) ==
    /\ edits[e] = NoTransaction
    /\ Editable(i)
    /\ edits' = [edits EXCEPT ![e] =
         [id |-> i, row |-> transactions[i], removes |-> TRUE, undefined |-> {},
          seen |-> transactions[i].status]]
    /\ UNCHANGED <<transactions, drawn, time>>

\* save(): what is undefined keeps the table's value, or takes the column's
\* default where the row is gone and is inserted again.
Saved(edit) ==
    LET there == transactions[edit.id] # NoTransaction
        old == IF there THEN transactions[edit.id]
               ELSE [edit.row EXCEPT !.status = "COMPLETED", !.fees = 0]
    IN  [edit.row EXCEPT !.status = IF "status" \in edit.undefined THEN old.status ELSE @,
                         !.fees = IF "fees" \in edit.undefined THEN old.fees ELSE @]

WriteEdit(e) ==
    /\ edits[e] # NoTransaction
    /\ transactions' = [transactions EXCEPT ![edits[e].id] =
         IF edits[e].removes THEN NoTransaction ELSE Saved(edits[e])]
    /\ edits' = [edits EXCEPT ![e] = NoTransaction]
    /\ UNCHANGED <<drawn, time>>

Tick == time < MaxTime /\ time' = time + 1 /\ UNCHANGED <<transactions, drawn, edits>>

TransactionsNext ==
    \/ \E type \in {"BUY", "SELL"}, trade \in Trades :
         \/ \E fees \in Fees : createTransaction(type, trade, fees)
         \/ \E success \in BOOLEAN : createAutoTradingTransaction(type, trade, success)
    \/ \E e \in Edits, i \in TransactionIds :
         \/ \E sent \in SUBSET {"status", "fees"}, status \in Statuses, fees \in Fees :
              updateTransaction(e, i, sent, status, fees)
         \/ deleteTransaction(e, i)
    \/ \E e \in Edits : WriteEdit(e)
    \/ Tick

TransactionsSpec == TransactionsInit /\ [][TransactionsNext]_transactionsVars

-----------------------------------------------------------------------------
(* Reports.                                                                *)

Recorded == {i \in TransactionIds : transactions[i] # NoTransaction}

Total(column, ids) == SumFunctionOnSet(column, ids)

Quantity == [i \in Recorded |-> transactions[i].quantity]
Amount == [i \in Recorded |-> transactions[i].quantity * transactions[i].pricePerShare]
FeesOf == [i \in Recorded |-> transactions[i].fees]

\* What the filter of a request leaves; a criterion that is not sent holds of
\* everything.
Listed(types, statuses, stocks, from, to) ==
    {i \in Recorded : /\ transactions[i].transactionType \in types
                      /\ transactions[i].status \in statuses
                      /\ transactions[i].stock \in stocks
                      /\ transactions[i].transactionDate \in from..to}

OfStock(ids, stock) == {i \in ids : transactions[i].stock = stock}
OfType(ids, type) == {i \in ids : transactions[i].transactionType = type}

\* getTransactionStats(): the stock with the largest volume, looked for in
\* the order in which stocks come up first.
mostTraded(ids, order) ==
    LET volume(stock) == Total(Quantity, OfStock(ids, stock))
        best[n \in 0..Cardinality(DOMAIN order)] ==
          IF n = 0 THEN [stock |-> NoTransaction, volume |-> 0]
          ELSE IF volume(order[n]) > best[n - 1].volume
               THEN [stock |-> order[n], volume |-> volume(order[n])]
               ELSE best[n - 1]
    IN  best[Cardinality(DOMAIN order)]

getTransactionStats(ids, order) ==
    [totalTransactions |-> Cardinality(ids),
     totalBuyTransactions |-> Cardinality(OfType(ids, "BUY")),
     totalSellTransactions |-> Cardinality(OfType(ids, "SELL")),
     totalVolume |-> Total(Quantity, ids), totalAmount |-> Total(Amount, ids),
     totalFees |-> Total(FeesOf, ids), mostTraded |-> mostTraded(ids, order)]

\* analyzeTransactions(): what is looked at.
Analysed(period) ==
    LET days == IF period \in DOMAIN Periods THEN Periods[period] ELSE Periods[DefaultPeriod]
    IN  Listed({"BUY", "SELL"}, {"COMPLETED"}, Stocks, time - days, time)

\* A purchase goes with every later sale of the stock.
pairBuySellTransactions(ids) ==
    {p \in OfType(ids, "BUY") \X OfType(ids, "SELL") :
       /\ transactions[p[1]].stock = transactions[p[2]].stock
       /\ transactions[p[2]].transactionDate > transactions[p[1]].transactionDate}

\* All of the purchase, however little is sold.
ProfitOfAll(pair) ==
    (transactions[pair[2]].pricePerShare - transactions[pair[1]].pricePerShare)
      * Quantity[pair[1]]

Profit(pair) ==
    (transactions[pair[2]].pricePerShare - transactions[pair[1]].pricePerShare)
      * Min({Quantity[pair[1]], Quantity[pair[2]]})

analyzeTransactions(period) ==
    LET trades == pairBuySellTransactions(Analysed(period))
        winning == {t \in trades : Profit(t) > 0}
        losing == {t \in trades : Profit(t) < 0}
        Gain == [t \in winning |-> Profit(t)]
        Loss == [t \in losing |-> -Profit(t)]
    IN  [totalTrades |-> Cardinality(trades),
         winningTrades |-> Cardinality(winning), losingTrades |-> Cardinality(losing),
         totalProfit |-> Total(Gain, winning), totalLoss |-> Total(Loss, losing),
         netProfit |-> Total(Gain, winning) - Total(Loss, losing),
         largestWin |-> Max({0} \cup Range(Gain)), largestLoss |-> Max({0} \cup Range(Loss))]

-----------------------------------------------------------------------------
(* Properties.                                                             *)

\* Stocks that were bought once and sold in parts, or bought in parts and
\* sold at once, and of which nothing is left.
RoundTrip(ids, stock) ==
    LET buys == OfType(OfStock(ids, stock), "BUY")
        sells == OfType(OfStock(ids, stock), "SELL")
    IN  /\ Cardinality(buys) = 1 \/ Cardinality(sells) = 1
        /\ Total(Quantity, buys) = Total(Quantity, sells)
        /\ \A b \in buys, s \in sells :
             transactions[s].transactionDate > transactions[b].transactionDate

\* The net profit that an analysis reports is the money that came in less the
\* money that went out, as long as every stock of the period is a round trip:
\* the pairing, which takes a purchase with every later sale, then counts each
\* share once.  Beyond that (two purchases and two sales) it does not.
NetProfitOfRoundTrips ==
    \A period \in DOMAIN Periods :
        LET ids == Analysed(period)
        IN  (\A stock \in Stocks : OfStock(ids, stock) # {} => RoundTrip(ids, stock))
            => analyzeTransactions(period).netProfit
                 = Total(Amount, OfType(ids, "SELL")) - Total(Amount, OfType(ids, "BUY"))

\* No stock has a larger volume than the one the statistics name, whatever
\* the filter and the order in which the rows come.
MostTradedIsMost ==
    \A statuses \in {Statuses, {"COMPLETED"}, {"FAILED"}}, from \in 0..time :
        LET ids == Listed({"BUY", "SELL"}, statuses, Stocks, from, time)
            traded == {transactions[i].stock : i \in ids}
        IN  \A order \in Bijection(1..Cardinality(traded), traded) :
              LET stats == getTransactionStats(ids, order)
              IN  /\ \A stock \in traded :
                       stats.mostTraded.volume >= Total(Quantity, OfStock(ids, stock))
                  /\ Cardinality(traded) * stats.mostTraded.volume >= stats.totalVolume
                  /\ stats.totalBuyTransactions + stats.totalSellTransactions
                       = stats.totalTransactions

\* The reports of transactions agree with the rows that they are about.
ReportsAddUp == NetProfitOfRoundTrips /\ MostTradedIsMost

\* A completed transaction stays as it is, and stays: only an edit that looked
\* at the status before the transaction was completed can still write it.
CompletedIsFinal ==
    [][\A i \in Recorded :
         /\ transactions[i].status = "COMPLETED"
         /\ \A e \in Edits : edits[e] # NoTransaction /\ edits[e].id = i
              => edits[e].seen = "COMPLETED"
         => transactions'[i] = transactions[i]]_transactionsVars
=============================================================================

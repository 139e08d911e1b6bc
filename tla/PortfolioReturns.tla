--------------------------- MODULE PortfolioReturns ---------------------------
(***************************************************************************)
(* The return reports of a portfolio (PortfolioReturnsService).  A report  *)
(* loads the holdings once and then asks for the price of one stock after  *)
(* the other; the distribution also loads each holding again.  Meanwhile   *)
(* holdings are changed and removed, and prices move, so a report may mix  *)
(* moments: an action is what runs from one await to the next.             *)
(*                                                                         *)
(* Amounts are whole dollars, percentages hundredths of a percent, rounded *)
(* down.  The risk, benchmark and trend reports, which are arithmetic on   *)
(* the percentage of the total, are left out.                              *)
(***************************************************************************)
EXTENDS Integers, FiniteSets, FiniteSetsExt, Functions, Sequences, StableSort

CONSTANTS
    HoldingIds,
    Positions,      \* what a holding may hold: a stock, a quantity, an average price
    StockPrices,    \* the prices that a stock may have
    Unpriced,       \* a stock without a price
    NoHolding, NoReport,
    MaxWrites       \* bound on writes to the tables

Symbols == {p.symbol : p \in Positions}
Kinds == {"returns", "allocation", "distribution", "holding"}

\* What getCurrentPrice() gives for a stock it finds no price for.
DemoPrice == 100

Price == StockPrices \cup {DemoPrice}

\* A report under way: its holdings as loaded, whether the next one is loaded
\* again, the prices so far, whether it ended in an error; and (history)
\* whether a table was written or a query failed since it began.
Report == [kind : Kinds, ids : Seq(HoldingIds), rows : Seq(Positions), reloaded : BOOLEAN,
           quoted : Seq(Price), threw : BOOLEAN, disturbed : BOOLEAN]

ASSUME ReturnsAssumption ==
    /\ IsFiniteSet(HoldingIds)
    /\ \A p \in Positions : /\ DOMAIN p = {"symbol", "quantity", "averagePrice"}
                            /\ p.quantity \in Nat /\ p.averagePrice \in Nat
    /\ StockPrices \subseteq Nat /\ Unpriced \notin StockPrices
    /\ NoHolding \notin Positions /\ NoReport \notin Report
    /\ MaxWrites \in Nat

VARIABLES
    holdings,   \* the portfolio's rows: a position or NoHolding
    prices,     \* stocks.currentPrice
    report,     \* a report under way, or NoReport
    writes      \* how often the tables were written

returnsVars == <<holdings, prices, report, writes>>

ReturnsTypeOK ==
    /\ holdings \in [HoldingIds -> Positions \cup {NoHolding}]
    /\ prices \in [Symbols -> StockPrices \cup {Unpriced}]
    /\ report \in Report \cup {NoReport}
    /\ writes \in 0..MaxWrites

ReturnsInit ==
    /\ holdings \in [HoldingIds -> Positions \cup {NoHolding}]
    /\ prices \in [Symbols -> StockPrices \cup {Unpriced}]
    /\ report = NoReport /\ writes = 0

-----------------------------------------------------------------------------
(* The tables, which other requests write.                                 *)

Held == {h \in HoldingIds : holdings[h] # NoHolding}

Disturbs ==
    /\ writes < MaxWrites /\ writes' = writes + 1
    /\ report' = IF report = NoReport THEN report ELSE [report EXCEPT !.disturbed = TRUE]

\* updateHolding() and removeHolding() of the portfolios.
HoldingChanges(h) ==
    /\ h \in Held
    /\ \E p \in Positions \cup {NoHolding} : holdings' = [holdings EXCEPT ![h] = p]
    /\ Disturbs /\ UNCHANGED prices

PriceChanges(symbol) ==
    /\ \E price \in StockPrices : prices' = [prices EXCEPT ![symbol] = price]
    /\ Disturbs /\ UNCHANGED holdings

-----------------------------------------------------------------------------
(* A report.                                                               *)

Begins(kind, ids) ==
    /\ report = NoReport
    /\ report' = [kind |-> kind, ids |-> ids, reloaded |-> FALSE,
                  rows |-> [n \in DOMAIN ids |-> holdings[ids[n]]],
                  quoted |-> <<>>, threw |-> FALSE, disturbed |-> FALSE]
    /\ UNCHANGED <<holdings, prices, writes>>

\* findOne() with the holdings, which come in any order.
LoadPortfolio(kind) ==
    \E ids \in Bijection(1..Cardinality(Held), Held) : Begins(kind, ids)

\* calculateHoldingReturns() to its query for the price.
LoadHolding(h) == h \in Held /\ Begins("holding", <<h>>)

Ended(r) == r.threw \/ Len(r.quoted) = Len(r.rows)
Next1(r) == Len(r.quoted) + 1

\* The same in analyzeReturnDistribution()'s loop; a holding that is gone
\* throws.
Reload ==
    /\ report # NoReport /\ ~Ended(report)
    /\ report.kind = "distribution" /\ ~report.reloaded
    /\ LET n == Next1(report) IN
       report' = IF holdings[report.ids[n]] = NoHolding
                 THEN [report EXCEPT !.threw = TRUE]
                 ELSE [report EXCEPT !.reloaded = TRUE, !.rows[n] = holdings[report.ids[n]]]
    /\ UNCHANGED <<holdings, prices, writes>>

\* StocksService.getCurrentPrice(): also an error gives the demo price.
getCurrentPrice(symbol, fails) ==
    IF fails \/ prices[symbol] = Unpriced THEN DemoPrice ELSE prices[symbol]

Quote(fails) ==
    /\ report # NoReport /\ ~Ended(report)
    /\ report.kind = "distribution" => report.reloaded
    /\ report' = [report EXCEPT
         !.quoted = Append(@, getCurrentPrice(report.rows[Next1(report)].symbol, fails)),
         !.reloaded = FALSE,
         !.disturbed = @ \/ fails]
    /\ UNCHANGED <<holdings, prices, writes>>

Answer ==
    /\ report # NoReport /\ Ended(report)
    /\ report' = NoReport
    /\ UNCHANGED <<holdings, prices, writes>>

ReturnsNext ==
    \/ \E kind \in Kinds \ {"holding"} : LoadPortfolio(kind)
    \/ \E h \in HoldingIds : LoadHolding(h)
    \/ Reload
    \/ \E fails \in BOOLEAN : Quote(fails)
    \/ Answer
    \/ \E h \in HoldingIds : HoldingChanges(h)
    \/ \E symbol \in Symbols : PriceChanges(symbol)

ReturnsSpec == ReturnsInit /\ [][ReturnsNext]_returnsVars

-----------------------------------------------------------------------------
(* What a report shows.                                                    *)

Percent(gain, cost) == IF cost > 0 THEN (gain * 10000) \div cost ELSE 0

\* calculateHoldingReturns(): of a position at a price.
calculateHoldingReturns(row, price) ==
    LET value == row.quantity * price
        cost == row.quantity * row.averagePrice
    IN  [symbol |-> row.symbol, marketValue |-> value, totalCost |-> cost,
         unrealizedGain |-> value - cost, returnRate |-> Percent(value - cost, cost)]

Returns(r) == [n \in DOMAIN r.quoted |-> calculateHoldingReturns(r.rows[n], r.quoted[n])]

Values(returns) == [n \in DOMAIN returns |-> returns[n].marketValue]
Costs(returns) == [n \in DOMAIN returns |-> returns[n].totalCost]
Rates(returns) == [n \in DOMAIN returns |-> returns[n].returnRate]

calculatePortfolioReturns(r) ==
    LET value == SumFunction(Values(Returns(r)))
        cost == SumFunction(Costs(Returns(r)))
    IN  [totalValue |-> value, totalCost |-> cost, totalReturn |-> value - cost,
         totalReturnPercent |-> Percent(value - cost, cost)]

analyzeAssetAllocation(r) ==
    LET values == Values(Returns(r))
        total == SumFunction(values)
    IN  [totalValue |-> total,
         percentage |-> [n \in DOMAIN values |-> Percent(values[n], total)]]

\* The worst return first.
WorstFirst(rates) == Sorted([n \in DOMAIN rates |-> -rates[n]])

BestFirst(rates) == Sorted(rates)

analyzeReturnDistribution(r) ==
    LET count == Len(r.quoted)
        rates == Rates(Returns(r))
        nth == BestFirst(rates)
        profitable == {n \in DOMAIN rates : Returns(r)[n].unrealizedGain > 0}
    IN  IF count = 0
        THEN [profitableHoldings |-> 0, losingHoldings |-> 0, bestPerformer |-> 0,
              worstPerformer |-> 0, averageReturn |-> 0, medianReturn |-> 0]
        ELSE [profitableHoldings |-> Cardinality(profitable),
              losingHoldings |-> count - Cardinality(profitable),
              bestPerformer |-> rates[nth[1]], worstPerformer |-> rates[nth[count]],
              averageReturn |-> SumFunction(rates) \div count,
              medianReturn |-> rates[nth[(count \div 2) + 1]]]

-----------------------------------------------------------------------------
(* Properties.                                                             *)

\* The return of a holding as the tables have it.
InTables(h) == calculateHoldingReturns(holdings[h], getCurrentPrice(holdings[h].symbol, FALSE))

TotalsAreExact(r) ==
    LET shown == calculatePortfolioReturns(r)
        allocation == analyzeAssetAllocation(r)
    IN  /\ shown.totalValue = SumFunction([h \in Held |-> InTables(h).marketValue])
        /\ shown.totalCost = SumFunction([h \in Held |-> InTables(h).totalCost])
        /\ allocation.totalValue = shown.totalValue
        /\ SumFunction(allocation.percentage) <= 10000

\* Ties in the middle apart, a median has no more than half of the holdings
\* above it, and no more than half below.
DistributionIsExact(r) ==
    LET shown == analyzeReturnDistribution(r)
        rate == [h \in Held |-> InTables(h).returnRate]
        Above(x) == {h \in Held : rate[h] > x}
        Below(x) == {h \in Held : rate[h] < x}
    IN  Held # {} =>
        /\ shown.bestPerformer = Max(Range(rate))
        /\ shown.worstPerformer = Min(Range(rate))
        /\ shown.profitableHoldings =
             Cardinality({h \in Held : InTables(h).unrealizedGain > 0})
        /\ shown.profitableHoldings + shown.losingHoldings = Cardinality(Held)
        /\ 2 * Cardinality(Above(shown.medianReturn)) <= Cardinality(Held)
        /\ 2 * Cardinality(Below(shown.medianReturn)) <= Cardinality(Held)
        /\ shown.averageReturn \in shown.worstPerformer..shown.bestPerformer

\* A report during which no table was written and no query failed shows what
\* the tables hold, whatever the order its holdings came in; and only a report
\* that a write disturbed ends in an error.
QuietReportsAreExact ==
    report # NoReport /\ ~report.disturbed /\ Ended(report) =>
        /\ ~report.threw
        /\ report.kind \in {"returns", "allocation"} => TotalsAreExact(report)
        /\ report.kind = "distribution" => DistributionIsExact(report)
        /\ report.kind = "holding" =>
             Returns(report) = <<InTables(report.ids[1])>>
=============================================================================

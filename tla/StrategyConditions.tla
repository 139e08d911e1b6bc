------------------------- MODULE StrategyConditions -------------------------
(***************************************************************************)
(* How a strategy's conditions become a signal:                            *)
(* TechnicalIndicatorsService.calculateAllIndicators() and                 *)
(* TradingStrategiesService.evaluateStrategyConditions().  What an         *)
(* indicator tells its condition is an outcome; the arithmetic behind it   *)
(* is left out, since the history that the code computes with is flat.     *)
(***************************************************************************)
EXTENDS Naturals, FiniteSets

Indicators == {"rsi", "movingAverage", "macd", "bollingerBands"}

\* What evaluateStrategyConditions() makes of an indicator: a vote, a
\* condition that counts but votes for nothing, or one that is not counted.
Outcomes == {"buy", "sell", "neutral", "absent"}

SignalTypes == {"BUY", "SELL", "HOLD"}

\* strategy.conditions; 0 is a bound that is not set (the code tests truth).
\* An update may send conditions without any `indicators`.
Condition == [hasIndicators : BOOLEAN, indicators : SUBSET Indicators,
              minPrice : Nat, maxPrice : Nat, minVolume : Nat]

-----------------------------------------------------------------------------
\* generateDefaultConditions(): every indicator of the type, the price
\* bounds 0 and maxPrice, and minVolume.
DefaultIndicators ==
    [moving_average |-> {"movingAverage"}, rsi |-> {"rsi"}, macd |-> {"macd"},
     bollinger_bands |-> {"bollingerBands"}, custom |-> Indicators]

generateDefaultConditions(strategyType, maxPrice, minVolume) ==
    [hasIndicators |-> TRUE, indicators |-> DefaultIndicators[strategyType],
     minPrice |-> 0, maxPrice |-> maxPrice, minVolume |-> minVolume]

\* getRecentPrices() repeats the stored price, so nothing ever moves: without
\* a loss the RSI is 100, over every level below it; the MACD is 0 on both
\* sides.  The price comes as text, and a sum of texts is NaN: the simple
\* average does not count (the exponential one is equal on both sides), and
\* no price is outside of the bands, unless they span one day.
FlatOutcomes ==
    [rsi |-> {"sell", "neutral"}, movingAverage |-> {"absent", "neutral"},
     macd |-> {"neutral"}, bollingerBands |-> {"neutral", "buy", "sell"}]

\* The history of a stock that is gone is empty: an RSI of 50, averages of 0
\* that do not count, a MACD of 0, and bands at 0, which every price is over.
EmptyOutcomes ==
    [rsi |-> {"buy", "neutral", "sell"}, movingAverage |-> {"absent"},
     macd |-> {"neutral"}, bollingerBands |-> {"sell"}]

\* calculateAllIndicators(): one query per indicator, in this order; the
\* first to fail ends the computation and what there is so far is used.
Computable == {{}, {"rsi"}, {"rsi", "movingAverage"},
               {"rsi", "movingAverage", "macd"}, Indicators}

Results(outcomes) ==
    LET Result(k, computed) == IF k \in computed THEN outcomes[k] ELSE {"absent"}
    IN UNION {[rsi : Result("rsi", computed),
               movingAverage : Result("movingAverage", computed),
               macd : Result("macd", computed),
               bollingerBands : Result("bollingerBands", computed)] :
              computed \in Computable}

FlatResults == Results(FlatOutcomes)
EmptyResults == Results(EmptyOutcomes)

calculateAllIndicators(stockExists) == IF stockExists THEN FlatResults ELSE EmptyResults

-----------------------------------------------------------------------------
(* evaluateStrategyConditions().                                           *)

Over(c, price) == c.maxPrice # 0 /\ price > c.maxPrice
Under(c, price) == c.minPrice # 0 /\ price < c.minPrice
One(b) == IF b THEN 1 ELSE 0

Voting(c, outcome, for) == {k \in c.indicators : outcome[k] \in for}

\* A price bound counts as a condition only when it is broken, and then
\* votes: too dear says sell, too cheap says buy.
totalConditions(c, price, outcome) ==
    Cardinality(Voting(c, outcome, {"buy", "sell", "neutral"}))
      + One(Over(c, price)) + One(Under(c, price))

buySignals(c, price, outcome) ==
    Cardinality(Voting(c, outcome, {"buy"})) + One(Under(c, price))

sellSignals(c, price, outcome) ==
    Cardinality(Voting(c, outcome, {"sell"})) + One(Over(c, price))

evaluateStrategyConditions(c, price, volume, outcome) ==
    IF c.minVolume # 0 /\ volume < c.minVolume THEN "HOLD"
    ELSE IF 2 * buySignals(c, price, outcome) > totalConditions(c, price, outcome)
    THEN "BUY"
    ELSE IF 2 * sellSignals(c, price, outcome) > totalConditions(c, price, outcome)
    THEN "SELL"
    ELSE "HOLD"

\* generateSignal(): conditions without indicators are not evaluated.
generateSignal(c, price, volume, outcome) ==
    IF c.hasIndicators THEN evaluateStrategyConditions(c, price, volume, outcome)
    ELSE "HOLD"
=============================================================================

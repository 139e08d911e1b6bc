---------------------------- MODULE MCTradeEngine ----------------------------
(* Model values for TradeEngine.                                           *)
EXTENDS TradeEngine, TLC

CONSTANTS t1, t2, x, y

MCTrades == {t1, t2}
MCStrategies == {x, y}
MCPrice == [t \in MCTrades |-> 5]
MCVolume == [t \in MCTrades |-> 2]

\* The price is below the range that updates send, and signals BUY; under the
\* default conditions of an RSI strategy it signals SELL.
MCRange == [hasIndicators |-> TRUE, indicators |-> {"movingAverage"},
            minPrice |-> 7, maxPrice |-> 9, minVolume |-> 1]
MCSent == {MCRange}

\* Strategies are interchangeable, and so are trades.
MCSymmetry == Permutations(MCStrategies) \cup Permutations(MCTrades)
==============================================================================

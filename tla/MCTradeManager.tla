--------------------------- MODULE MCTradeManager ---------------------------
(* Small instances of TradeManager for TLC.                                *)
EXTENDS TradeManagerProps, TLC

CONSTANTS s1, s2

OneSymbol  == {s1}
TwoSymbols == {s1, s2}
MCIds2 == 1..2
MCIds3 == 1..3
MCIds4 == 1..4
Long == {"BUY"}
Both == {"BUY", "SELL"}
LossOrNothing == {-1, 0}
Nothing == {0}
MCMaxLoss == -1
MCSymmetry == Permutations(TwoSymbols)

=============================================================================

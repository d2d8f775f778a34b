--------------------------- MODULE MCLiveTrading ----------------------------
(* Small instances of LiveTrading for TLC.                                 *)
EXTENDS LiveTradingProps, TLC

CONSTANTS s1, s2

OneSymbol  == {s1}
TwoSymbols == {s1, s2}
MCIds2 == 1..2
MCIds3 == 1..3
Long == {"BUY"}
Both == {"BUY", "SELL"}
Nothing == {0}
MCMaxLoss == -1
=============================================================================

--------------------------- MODULE MCPaperTrading ---------------------------
(* Small instances of PaperTrading for TLC.                                *)
EXTENDS PaperTradingProps, TLC

CONSTANTS s1, s2

TwoSymbols == {s1, s2}
MCMaxLoss == -3
SomePnL == {0}
Symmetry == Permutations(TwoSymbols)
=============================================================================

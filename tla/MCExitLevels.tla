---------------------------- MODULE MCExitLevels ----------------------------
(* Small instances of ExitLevels for TLC.                                  *)
EXTENDS ExitLevelsProps

MCPrices == 8..13
=============================================================================

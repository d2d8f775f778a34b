--------------------------- MODULE MCSwingTrading ---------------------------
(* Small instances of SwingTrading for TLC.                                *)
EXTENDS SwingTradingProps

CONSTANTS a, b

Rows(pairs) == [i \in DOMAIN pairs |-> [symbol |-> pairs[i][1], price |-> pairs[i][2]]]
Csv(pairs) == [header |-> TRUE, rows |-> Rows(pairs)]

MCMain == {Csv(<<<<a, 1>>>>), Csv(<<<<a, 0>>>>), Csv(<<<<b, 1>>, <<a, 1>>>>)}

(* A new symbol twice, with a known one; and one that is no number.        *)
MCHand == {Csv(<<<<b, 2>>, <<a, 2>>, <<b, 1>>>>), Csv(<<<<b, 0>>>>)}
MCTables == {Rows(<<<<a, 2>>, <<b, 1>>>>)}
MCEdited == {Csv(<<<<b, 2>>>>), Csv(<<<<b, 0>>>>)}

(* The runner only reads the main file.  So the files are checked with a   *)
(* process that imports and finds the market closed, and the runner with a *)
(* main file that its owner alone changes, more often.                     *)
MCInit ==
  /\ Init
  /\ \/ ~session /\ stamp = 1 /\ edits = 1
     \/ session /\ stamp = 3 /\ edits = 0

MCFairSpec == MCInit /\ [][Next]_svars /\ Fairness

=============================================================================

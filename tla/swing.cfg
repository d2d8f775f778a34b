SPECIFICATION MCFairSpec
CONSTANTS
  a = a
  b = b
  Symbols = {a, b}
  Prices = {1, 2}
  Stamps = {1, 2}
  Tables <- MCTables
  MainFiles <- MCMain
  HandFiles <- MCHand
  EditedFile <- MCEdited
  MaxEdits = 2
  LastDate = 1
CHECK_DEADLOCK FALSE
INVARIANT ImportsSurvive
INVARIANT OpenIsWatched
PROPERTY ImportPreservesMain
PROPERTY ImportsApplied

---------------------------- MODULE SwingImport -----------------------------
(***************************************************************************)
(* The Swing watchlist and the import of pending CSV files at startup      *)
(* (load_swing_watchlist of strategy/swing_strategy.py), file operation by *)
(* file operation: others write to the same folder at the same time, any   *)
(* operation may fail and the process may be killed after each.            *)
(*                                                                         *)
(* A CSV file is its header, complete or not, and its rows.  The stamp in  *)
(* the name of an import file is a number, in the order of the names.      *)
(***************************************************************************)
EXTENDS Naturals, FiniteSets, Sequences

CONSTANTS
  Symbols,
  Prices,   \* trigger prices; 0 stands for one that is not positive or no number
  Stamps    \* timestamps of import files

ASSUME SwingImportAssumption == Prices \subseteq Nat /\ Stamps \subseteq Nat

VARIABLES
  main,      \* the main watchlist file
  folder,    \* the import files beside it, by stamp
  phase,     \* where the process is; see ImportPhases
  watchlist, \* load_swing_watchlist: what it has read, symbol to trigger
  todo,      \* load_swing_watchlist: stamps listed and still to process
  append     \* _append_swing_symbols: existing rows read, and additions

importer == <<watchlist, todo, append>>

(* "ready": an import is over, load_swing_watchlist returns.               *)
ImportPhases == {"down", "importing", "reading", "replacing", "deleting", "ready"}

Row  == [symbol : Symbols, price : Prices \cup {0}]
File == [header : BOOLEAN, rows : Seq(Row)]
EmptyFile == [header |-> FALSE, rows |-> <<>>]

-----------------------------------------------------------------------------
(* _read_swing_watchlist: ValueError, or the first price of each symbol.   *)
Listed(file) == {file.rows[i].symbol : i \in DOMAIN file.rows}

Unreadable(file, ignore_duplicates) ==
  \/ ~file.header
  \/ \E i \in DOMAIN file.rows : file.rows[i].price = 0
  \/ ~ignore_duplicates /\ Cardinality(Listed(file)) # Len(file.rows)

FirstRow(file, s) ==
  CHOOSE i \in DOMAIN file.rows :
    /\ file.rows[i].symbol = s
    /\ \A j \in 1..(i - 1) : file.rows[j].symbol # s

Triggers(file) == [s \in Listed(file) |-> file.rows[FirstRow(file, s)].price]

NoTriggers == [s \in {} |-> 0]

(* A dict and what another one adds to it.                                 *)
Extended(d, more) ==
  [x \in DOMAIN d \cup DOMAIN more |-> IF x \in DOMAIN d THEN d[x] ELSE more[x]]

(* The numbers of a set, the smallest first.                               *)
InOrder(S) ==
  CHOOSE q \in [1..Cardinality(S) -> S] : \A i, j \in DOMAIN q : i < j => q[i] < q[j]

(* The rows of an import for the symbols the watchlist does not have.      *)
Additions(source, known) ==
  LET new == Listed(source) \ DOMAIN known
      line == InOrder({FirstRow(source, s) : s \in new})
  IN  [k \in DOMAIN line |-> source.rows[line[k]]]

NoAppend == [existing |-> EmptyFile, additions |-> <<>>]

-----------------------------------------------------------------------------
ImportInit(files) ==
  /\ main \in files
  /\ folder = [n \in {} |-> EmptyFile]
  /\ phase = "down"
  /\ watchlist = NoTriggers /\ todo = <<>> /\ append = NoAppend

(* An exception leaves the program; so does a kill.                        *)
ImportEnds ==
  /\ phase' = "down"
  /\ watchlist' = NoTriggers /\ todo' = <<>> /\ append' = NoAppend

(* The main file is read, then the folder listed, "oldest to newest".      *)
StartImport ==
  /\ phase = "down"
  /\ ~Unreadable(main, FALSE)
  /\ phase' = "importing"
  /\ watchlist' = Triggers(main)
  /\ todo' = InOrder(DOMAIN folder)
  /\ UNCHANGED <<main, folder, append>>

(* Mutant: an import is dropped as soon as it is read.                     *)
DropAtOnce(rows) == "deleting"

AfterSource(rows) == IF rows = <<>> THEN "deleting" ELSE "reading"

(* One import file is read.                                                *)
ReadSource ==
  /\ phase = "importing" /\ todo # <<>>
  /\ LET n == Head(todo) IN
     IF n \notin DOMAIN folder
     THEN todo' = Tail(todo) /\ UNCHANGED <<phase, watchlist, append>>
     ELSE IF Unreadable(folder[n], TRUE) THEN ImportEnds
     ELSE LET rows == Additions(folder[n], watchlist) IN
          /\ append' = [NoAppend EXCEPT !.additions = rows]
          /\ phase' = AfterSource(rows)
          /\ UNCHANGED <<watchlist, todo>>
  /\ UNCHANGED <<main, folder>>

(* The main file is read again for the rows to be appended to it; without  *)
(* a header there are no columns to write them in.                         *)
ReadMain ==
  /\ phase = "reading"
  /\ IF main.header
     THEN /\ append' = [existing |-> main, additions |-> append.additions]
          /\ phase' = "replacing"
          /\ UNCHANGED <<watchlist, todo>>
     ELSE ImportEnds
  /\ UNCHANGED <<main, folder>>

(* Mutant: watchlist.update(additions) is forgotten.                       *)
AsFirstRead == watchlist

WithAdditions ==
  Extended(watchlist, Triggers([header |-> TRUE, rows |-> append.additions]))

(* os.replace, then watchlist.update(additions).                           *)
ReplaceMain ==
  /\ phase = "replacing"
  /\ main' = [append.existing EXCEPT !.rows = @ \o append.additions]
  /\ watchlist' = WithAdditions
  /\ append' = NoAppend
  /\ phase' = "deleting"
  /\ UNCHANGED <<folder, todo>>

(* Mutant: the deletion is forgotten.                                      *)
AllKept == DOMAIN folder

Kept == DOMAIN folder \ {Head(todo)}

DeleteSource ==
  /\ phase = "deleting"
  /\ Head(todo) \in DOMAIN folder
  /\ folder' = [n \in Kept |-> folder[n]]
  /\ todo' = Tail(todo)
  /\ phase' = "importing"
  /\ UNCHANGED <<main, watchlist, append>>

(* The write, the replacement or the deletion fails, or the process is     *)
(* killed: what was not yet done is not done.                              *)
ImportFails ==
  /\ phase \in {"importing", "reading", "replacing", "deleting"}
  /\ ImportEnds
  /\ UNCHANGED <<main, folder>>

(* unlink() of a file that is gone raises.                                 *)
SourceGone ==
  /\ phase = "deleting"
  /\ Head(todo) \notin DOMAIN folder
  /\ ImportEnds
  /\ UNCHANGED <<main, folder>>

FinishImport ==
  /\ phase = "importing" /\ todo = <<>>
  /\ phase' = "ready"
  /\ UNCHANGED <<main, folder, importer>>

ImportStep ==
  ReadSource \/ ReadMain \/ ReplaceMain \/ DeleteSource \/ SourceGone \/ FinishImport

=============================================================================

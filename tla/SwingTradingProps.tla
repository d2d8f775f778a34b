------------------------- MODULE SwingTradingProps -------------------------
(***************************************************************************)
(* What the watchlist import and the Swing runner promise.                 *)
(***************************************************************************)
EXTENDS SwingTrading

(* "Missing symbols are appended [...] Each valid file is deleted after    *)
(* its additions are saved": a symbol of an import that arrived readable   *)
(* is, at any time, in its file or in the main watchlist, unless the owner *)
(* took it out - through failing operations, kills, and files that change  *)
(* during the import.                                                      *)
ImportsSurvive ==
  \A n \in DOMAIN delivered :
    n \in DOMAIN folder \/ Listed(delivered[n]) \subseteq Listed(main) \cup removed

(* "Existing symbols and trigger prices stay unchanged", "duplicate rows   *)
(* are rejected": as long as the owner leaves a readable main file alone   *)
(* during an import, no step makes it unreadable, which would stop every   *)
(* later start, drops a row or changes a trigger.                          *)
ImportPreservesMain ==
  [][edits' = edits /\ ~careless =>
       /\ ~Unreadable(main', FALSE)
       /\ \A s \in Listed(main) :
            s \in Listed(main') /\ Triggers(main')[s] = Triggers(main)[s]]_svars

(* "CSV removal blocks new entries but does not stop management of an open *)
(* position": a pass goes through every open position, whatever became of  *)
(* the file, in restarts, reloads, reconnects and failed reads.  (Not of   *)
(* one whose entry went on after its exit, see the README.)                *)
OpenIsWatched == phase = "process" => Open \subseteq symbols \cup reopened

(* "Each valid file is deleted after its additions are saved": when from   *)
(* some time on the main file and all imports are readable and nobody uses *)
(* the builder, every import is processed in the end, although any attempt *)
(* may fail at any file.                                                   *)
AllReadable ==
  /\ ~Unreadable(main, FALSE)
  /\ \A n \in DOMAIN folder : ~Unreadable(folder[n], TRUE)

ImportsApplied ==
  <>[](AllReadable /\ window = "idle") => <>[](DOMAIN folder = {})

=============================================================================

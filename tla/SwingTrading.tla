---------------------------- MODULE SwingTrading ----------------------------
(***************************************************************************)
(* Swing mode of autotick/main.py: the symbols the runner watches, between *)
(* the watchlist file that its owner edits, the imports that hands and the *)
(* builder put beside it, the daily reload, positions, and restarts.       *)
(*                                                                         *)
(* Positions and orders are as far as watching is concerned: an entry may  *)
(* be executed in parts, also after an exit; an exit is executed at once   *)
(* or refused.  What a crash loses of them is the subject of LiveTrading,  *)
(* the clock that of TradingDay.                                           *)
(***************************************************************************)
EXTENDS WatchlistTool

CONSTANTS
  MainFiles,  \* what the owner may make of the main file
  HandFiles,  \* imports put into the folder by hand
  EditedFile, \* what the owner may make of a saved import
  MaxEdits,   \* how often the owner edits (a bound)
  LastDate    \* the dates covered are 0..LastDate (a bound)

ASSUME SwingTradingAssumption ==
  /\ MainFiles \cup HandFiles \cup EditedFile \subseteq File
  /\ IsFiniteSet(Stamps)
  /\ MaxEdits \in Nat
  /\ LastDate \in Nat

VARIABLES
  stamp,      \* the next timestamp
  edits,      \* how often the owner has edited a file
  date,       \* today
  session,    \* the market is open when the process looks (never changes)
  symbols,    \* _run_providers: the watched symbols
  strategies, \* {} for None, or {f}: is there a trigger for the symbol's strategy?
  reloaded,   \* last_watchlist_date is today
  pass,       \* symbols still to process in this pass
  entered,    \* symbols that take no entry today
  position,   \* of each symbol: "none", "open", "closed"
  working,    \* symbols with an entry order of today at work
  bought,     \* symbols with an entry order of today that executed
  delivered,  \* history: imports that arrived complete and readable
  removed,    \* history: symbols the owner took out of the main file
  careless,   \* history: the owner made the main file unreadable, or edited
              \* it during this import
  reopened    \* history: symbols given up after their exit, whose entry went on

disk_vars == <<main, folder, stamp, edits, delivered, removed, careless, session>>
trading == <<position, working, bought, entered, reopened>>
runner == <<symbols, strategies, reloaded, pass>>
svars == <<disk_vars, phase, importer, tool, date, runner, trading>>

Phases == ImportPhases \cup {"top", "setup", "process"}

Open == {s \in Symbols : position[s] = "open"}
Closed == {s \in Symbols : position[s] = "closed"}

(* TradeManager.entered_symbols(today).                                    *)
EnteredSymbols == Open \cup working \cup bought

Init ==
  /\ ImportInit(MainFiles) /\ ~Unreadable(main, FALSE)
  /\ ToolInit
  /\ stamp \in Stamps \cup {1 + Cardinality(Stamps)} /\ edits \in 0..MaxEdits
  /\ session \in BOOLEAN /\ date = 0
  /\ symbols = {} /\ strategies = {} /\ reloaded = FALSE /\ pass = {}
  /\ entered = {} /\ working = {} /\ bought = {}
  /\ position = [s \in Symbols |-> "none"]
  /\ delivered = [n \in {} |-> EmptyFile]
  /\ removed = {} /\ careless = FALSE /\ reopened = {}

-----------------------------------------------------------------------------
(* The process.                                                            *)

Start ==
  /\ StartImport
  /\ careless' = FALSE
  /\ UNCHANGED <<stamp, edits, session, delivered, removed, tool, date, runner, trading>>

Import ==
  /\ ImportStep \/ ImportFails
  /\ UNCHANGED <<stamp, edits, session, delivered, removed, careless, tool, date,
                 runner, trading>>

(* The imports are in: recovery, and the loop.                             *)
EnterLoop ==
  /\ phase = "ready"
  /\ phase' = "top"
  /\ symbols' = DOMAIN watchlist \cup EnteredSymbols
  /\ entered' = EnteredSymbols
  /\ strategies' = {} /\ reloaded' = FALSE
  /\ reopened' = {}
  /\ watchlist' = NoTriggers
  /\ UNCHANGED <<disk_vars, todo, append, tool, date, pass, position, working,
                 bought>>

(* The configured close, a stop, or an exception: everything is saved.     *)
Leave ==
  /\ phase' = "down"
  /\ symbols' = {} /\ strategies' = {} /\ reloaded' = FALSE /\ pass' = {}
  /\ UNCHANGED <<disk_vars, importer, tool, date, trading>>

Close == phase = "top" /\ Leave

Interrupt == phase \in {"setup", "process"} /\ Leave

(* Mutant: positions are not looked at.                                    *)
OnlyListed == Listed(main)

Desired == Listed(main) \cup EnteredSymbols

(* The daily reload, in the first pass of a date or a process; a file that *)
(* cannot be read leaves the list as it is.                                *)
BeginPass ==
  /\ phase = "top" /\ session
  /\ phase' = "setup"
  /\ IF reloaded \/ Unreadable(main, FALSE)
     THEN UNCHANGED <<symbols, strategies, reloaded, reopened>>
     ELSE /\ symbols' = Desired
          /\ strategies' = {} /\ reloaded' = TRUE /\ reopened' = {}
  /\ UNCHANGED <<disk_vars, importer, tool, date, pass, position, working,
                 bought, entered>>

(* on_initial_setup of the symbols a tick has come for reads the main file *)
(* again.                                                                  *)
HasTrigger(S) == [s \in S |-> s \in Listed(main)]

SetupFails ==
  /\ phase = "setup"
  /\ strategies = {} /\ symbols # {} /\ Unreadable(main, FALSE)
  /\ Leave

(* Orders have moved on: F executed (further), and of them D completely;   *)
(* E ended before.  Symbols of closed positions are given up.              *)
Reconcile(F, D, E) ==
  /\ D \cap E = {}
  /\ position' = [s \in Symbols |-> IF s \in F THEN "open" ELSE position[s]]
  /\ working' = working \ (D \cup E)
  /\ bought' = (bought \cup F) \ E
  /\ symbols' = symbols \ {s \in symbols : position'[s] = "closed"}
  /\ reopened' = reopened \cup ((F \cap Closed) \ symbols)

(* Strategies are set up anew unless there are any; orders are reconciled; *)
(* a failed entry may be tried again.                                      *)
Refresh ==
  /\ phase = "setup"
  /\ \E ready \in SUBSET symbols :
       IF strategies # {} THEN strategies' = strategies
       ELSE /\ ready # {} => ~Unreadable(main, FALSE)
            /\ strategies' = {HasTrigger(ready)}
  /\ \E F \in SUBSET working, E \in SUBSET working : \E D \in SUBSET F :
       Reconcile(F, D, E) /\ entered' = entered \ E
  /\ phase' = "process"
  /\ pass' = symbols'
  /\ UNCHANGED <<disk_vars, importer, tool, date, reloaded>>

Processing(s) ==
  /\ phase = "process" /\ s \in pass
  /\ pass' = pass \ {s}
  /\ UNCHANGED <<disk_vars, phase, importer, tool, date, reloaded, reopened>>

(* The exit of a symbol is executed, and the symbol given up.              *)
ExitSymbol(s) ==
  /\ Processing(s)
  /\ s \in Open
  /\ position' = [position EXCEPT ![s] = "closed"]
  /\ symbols' = IF s \in working THEN symbols ELSE symbols \ {s}
  /\ UNCHANGED <<strategies, entered, working, bought>>

MayEnter(s) == s \notin Open \cup working \cup entered

(* A missing strategy is set up when its symbol is processed.              *)
WithStrategy(s, f) == Extended(f, HasTrigger({s}))

EnterSymbol(s) ==
  /\ Processing(s)
  /\ MayEnter(s)
  /\ \E f \in strategies :
       /\ s \notin DOMAIN f => ~Unreadable(main, FALSE)
       /\ WithStrategy(s, f)[s]
       /\ strategies' = {WithStrategy(s, f)}
  /\ entered' = entered \cup {s}
  /\ \E filled, whole \in BOOLEAN :
       /\ whole => filled
       /\ position' = [position EXCEPT ![s] = IF filled THEN "open" ELSE @]
       /\ bought' = IF filled THEN bought \cup {s} ELSE bought
       /\ working' = IF whole THEN working ELSE working \cup {s}
  /\ UNCHANGED symbols

(* Nothing happens, or an order is refused.                                *)
PassSymbol(s) ==
  /\ Processing(s)
  /\ \/ UNCHANGED strategies
     \/ /\ MayEnter(s) /\ ~Unreadable(main, FALSE)
        /\ \E f \in strategies : strategies' = {WithStrategy(s, f)}
  /\ UNCHANGED <<position, symbols, entered, working, bought>>

(* The late set-up of a strategy fails.                                    *)
LateSetupFails ==
  /\ phase = "process" /\ Unreadable(main, FALSE)
  /\ \E s \in pass : MayEnter(s) /\ \A f \in strategies : s \notin DOMAIN f
  /\ Leave

EndPass ==
  /\ phase = "process" /\ pass = {}
  /\ phase' = "top"
  /\ UNCHANGED <<disk_vars, importer, tool, date, runner, trading>>

(* A broker error, and the reconciliation that ends it.                    *)
BrokerFailure ==
  /\ phase \in {"top", "setup", "process"}
  /\ phase' = "top"
  /\ \E F \in SUBSET working, E \in SUBSET working : \E D \in SUBSET F :
       Reconcile(F, D, E)
  /\ entered' = EnteredSymbols'
  /\ strategies' = {} /\ pass' = {}
  /\ UNCHANGED <<disk_vars, importer, tool, date, reloaded>>

-----------------------------------------------------------------------------
(* The owner, the builder, and the calendar.                               *)

Importing == phase \in {"importing", "reading", "replacing", "deleting"}

EditMain(file) ==
  /\ edits < MaxEdits /\ edits' = edits + 1
  /\ file # main
  /\ main' = file
  /\ removed' = removed \cup (Listed(main) \ Listed(file))
  /\ careless' = (Importing \/ Unreadable(file, FALSE))
  /\ UNCHANGED <<folder, stamp, session, delivered, phase, importer, tool, date, runner,
                 trading>>

(* The import file the process has read and goes on to delete.             *)
Held == IF phase \in {"reading", "replacing", "deleting"} THEN {Head(todo)} ELSE {}

(* What arrives readable is delivered, also in the place of another file.  *)
(* Not promised is a content put under a name whose old content is just    *)
(* being imported: the file is deleted by its name.                        *)
Delivered ==
  LET changed  == {n \in DOMAIN folder' : n \in DOMAIN folder => folder'[n] # folder[n]}
      readable == {n \in changed \ Held : ~Unreadable(folder'[n], TRUE)}
  IN  delivered' = [n \in readable \cup (DOMAIN delivered \ changed) |->
                      IF n \in changed THEN folder'[n] ELSE delivered[n]]

PutByHand(file) ==
  /\ stamp \in Stamps /\ stamp' = stamp + 1
  /\ folder' = With(stamp, file)
  /\ Delivered
  /\ UNCHANGED <<main, edits, session, removed, careless, phase, importer, tool, date,
                 runner, trading>>

(* An import that stops the startup is taken away.                         *)
TakeAway(n) ==
  /\ n \in DOMAIN folder /\ Unreadable(folder[n], TRUE)
  /\ window = "writing" => n \notin saved
  /\ folder' = [x \in DOMAIN folder \ {n} |-> folder[x]]
  /\ UNCHANGED <<main, stamp, edits, session, delivered, removed, careless, phase,
                 importer, tool, date, runner, trading>>

Create ==
  /\ stamp \in Stamps /\ stamp' = stamp + 1
  /\ \E here \in BOOLEAN, table \in Tables : CreateFile(stamp, here, table)
  /\ UNCHANGED edits

UseTool ==
  /\ \/ Create
     \/ /\ ChangeTable \/ CloseFile \/ ReadBack \/ WriteFails \/ ConfirmUpload
           \/ CopyUpload \/ RenameUpload \/ UploadFails
        /\ UNCHANGED <<stamp, edits>>
     \/ /\ edits < MaxEdits /\ edits' = edits + 1
        /\ \E file \in EditedFile : EditFile(file)
        /\ UNCHANGED stamp
  /\ Delivered
  /\ UNCHANGED <<main, session, removed, careless, phase, importer, date, runner,
                 trading>>

(* The date changes; orders are DAY orders.                                *)
Midnight ==
  /\ date < LastDate /\ phase \notin {"setup", "process"}
  /\ date' = date + 1
  /\ reloaded' = FALSE /\ strategies' = {}
  /\ entered' = {} /\ working' = {} /\ bought' = {}
  /\ UNCHANGED <<disk_vars, phase, importer, tool, symbols, pass, position,
                 reopened>>

Process ==
  \/ Start \/ Import \/ EnterLoop \/ Close \/ Interrupt
  \/ BeginPass \/ SetupFails \/ Refresh
  \/ \E s \in Symbols : ExitSymbol(s) \/ EnterSymbol(s) \/ PassSymbol(s)
  \/ LateSetupFails \/ EndPass \/ BrokerFailure

Next ==
  \/ Process
  \/ \E file \in MainFiles : EditMain(file)
  \/ \E file \in HandFiles : PutByHand(file)
  \/ \E n \in Stamps : TakeAway(n)
  \/ UseTool
  \/ Midnight

Spec == Init /\ [][Next]_svars

(* The process goes on, comes to its daily close, and is started again:    *)
(* the clock reaches market_end.  No file operation of the import fails    *)
(* forever.                                                                *)
Fairness ==
  /\ WF_svars(Process) /\ SF_svars(Close)
  /\ SF_svars(ReadSource /\ Import) /\ SF_svars(ReadMain /\ Import)
  /\ SF_svars(ReplaceMain /\ Import) /\ SF_svars(DeleteSource /\ Import)

FairSpec == Spec /\ Fairness

=============================================================================

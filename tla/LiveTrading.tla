---------------------------- MODULE LiveTrading -----------------------------
(***************************************************************************)
(* The Live runner of autotick/main.py around TradeManager: passes of the  *)
(* realtime loop, the SQLite snapshot of persistence/recovery.py, crashes, *)
(* restarts, broker errors and the reconciliation that follows both        *)
(* (TradeManager.reconcile_startup).                                       *)
(*                                                                         *)
(* reconcile_startup reads the order book and, later, the positions: the   *)
(* broker may move in between, so the two reads are separate steps.  Its   *)
(* second step stands for three reads, of positions, holdings and trades:  *)
(* the first two are merged into one map of what is held, and nothing but  *)
(* the trade records depends on the third - except that it may fail after  *)
(* the positions were taken over (RecoveryFailure).                        *)
(*                                                                         *)
(* Dates.  today holds the identifiers of the orders created on the        *)
(* current date: status_updated_at is set when an order is validated and   *)
(* then kept, so it is a creation date.  The broker lists only the orders  *)
(* of the day, and DAY orders end with it.  A process that waits in a      *)
(* reconnect, or between two passes, over midnight still has the old       *)
(* trading_date: it is stale until the top of the next pass.               *)
(***************************************************************************)
EXTENDS TradeManager, Sequences

CONSTANTS
  ManualTrades,  \* may the account owner trade beside AutoTick?
  Outages,       \* what may fail, see RunnerAssumption
  LastDate       \* the behaviour covers the dates 0..LastDate (a bound)

(* "crash": the process dies; "interrupt": the user stops it; "read": a     *)
(* broker read fails; "write": the snapshot cannot be written; "login":    *)
(* authentication is exhausted.                                            *)
ASSUME RunnerAssumption ==
  /\ ManualTrades \in BOOLEAN
  /\ Outages \subseteq {"crash", "interrupt", "read", "write", "login"}
  /\ LastDate \in Nat

VARIABLES
  phase,      \* where the process is, see Phases
  todo,       \* symbols the running pass may still process
  entered,    \* _run_realtime: symbols that take no entry today
  blocked,    \* _run_realtime: symbols with unknown broker state
  recovery,   \* what the running recovery found and why it runs
  saved,      \* the persisted snapshot: <<>> or <<record>>
  date,       \* the calendar date
  savedToday, \* is trading_date of the snapshot the current date?
  today,      \* orders created on the current date
  stale,      \* is the process's trading_date an earlier date?
  earlier,    \* when stale: the orders created on that trading_date
  aged,       \* was the process started on an earlier date?
  misdated,   \* history: today's state was saved under an earlier date
  doubled     \* history: symbols an exit was sent for that was not MatchedExit

runner  == <<phase, todo, entered, blocked, recovery>>
store   == <<saved, savedToday, misdated>>
dates   == <<date, today, stale, earlier, aged, doubled>>
lvars   == <<vars, runner, store, dates>>

(* "orders" and "positions" are the two halves of reconcile_startup.       *)
Phases == {"down", "orders", "positions", "top", "updates", "process"}

NoRecovery == [startup |-> FALSE, uncertain |-> FALSE,
               unresolved |-> FALSE, unknown |-> {}]

(* Mutant: the exit levels are not exported.                               *)
MemoryWithoutLevels ==
  [orders |-> orders, positions |-> positions,
   exit_levels |-> {}, trades |-> trades, risk |-> risk]

(* TradeManager.export_state() and RiskManager.export_state().             *)
Memory == [orders |-> orders, positions |-> positions,
           exit_levels |-> exit_levels, trades |-> trades, risk |-> risk]

EmptyMemory ==
  [orders |-> EmptyDict, positions |-> [s \in Symbols |-> NoPosition],
   exit_levels |-> {}, trades |-> [i \in OrderIds |-> 0], risk |-> InitialRisk]

LiveInit ==
  /\ Init
  /\ phase = "down"
  /\ todo = {} /\ entered = {} /\ blocked = {}
  /\ recovery = NoRecovery
  /\ saved = <<>> /\ savedToday = FALSE /\ misdated = FALSE
  /\ date = 0
  /\ today = {} /\ stale = FALSE /\ earlier = {} /\ aged = FALSE
  /\ doubled = {}

-----------------------------------------------------------------------------
(* Memory and snapshot.                                                    *)

SetMemory(m) ==
  /\ orders' = m.orders
  /\ positions' = m.positions
  /\ exit_levels' = m.exit_levels
  /\ trades' = m.trades
  /\ risk' = m.risk

(* The orders of the process's trading_date, and those not older than it.  *)
OnTradingDate == IF stale THEN earlier ELSE today
NotOlder      == today \cup earlier

(* The process is gone; what it had in memory means nothing any more.      *)
Leave ==
  /\ SetMemory(EmptyMemory)
  /\ inbox' = EmptyDict /\ raised' = "none"
  /\ phase' = "down" /\ todo' = {} /\ entered' = {} /\ blocked' = {}
  /\ recovery' = NoRecovery
  /\ stale' = FALSE /\ earlier' = {} /\ aged' = FALSE
  /\ UNCHANGED doubled

(* Mutant: a snapshot is added to the ones that are there.                 *)
Added(m) ==
  IF m.risk.persistence_failed THEN UNCHANGED store
  ELSE saved' = saved \o <<m>> /\ savedToday' = ~stale /\ UNCHANGED misdated

(* RecoveryManager.save of memory m under the date of today or an earlier  *)
(* one: nothing after a failed write.                                      *)
WrittenUnder(m, current) ==
  IF m.risk.persistence_failed THEN UNCHANGED store
  ELSE /\ saved' = <<m>>
       /\ savedToday' = current
       /\ misdated' = (misdated \/ (~current /\ ~stale))

Written(m) == WrittenUnder(m, ~stale)

(* _save_state at the end of a pass: a write may fail, and then blocks new *)
(* entries until restart.                                                  *)
SaveMemory(m) ==
  \/ risk' = m.risk /\ Written(m)
  \/ "write" \in Outages /\ risk' = BlockForPersistenceFailure(m.risk) /\ UNCHANGED store

(* Mutant: a restart always begins with a fresh risk state.                *)
RestoredFreshRisk ==
  IF saved = <<>> THEN EmptyMemory
  ELSE [saved[1] EXCEPT !.risk = InitialRisk]

(* recover(): restore the snapshot; the risk state only on its own day.    *)
Restored ==
  IF saved = <<>> THEN EmptyMemory
  ELSE [saved[1] EXCEPT !.risk = IF savedToday THEN RestoreState(saved[1].risk)
                                 ELSE ResetDailyState(InitialRisk)]

(* TradeManager.entered_symbols(trading_date).                             *)
EnteredSymbols(ps, os) ==
  {s \in Symbols : Active(ps[s]) /\ ps[s].quantity # 0}
    \cup {os[i].symbol : i \in {j \in DOMAIN os \cap OnTradingDate :
                                  /\ os[j].intent = "ENTRY"
                                  /\ os[j].status \in Pending \cup {"FILLED"}}}

-----------------------------------------------------------------------------
(* Start, stop, crash.                                                     *)

Start ==
  /\ phase = "down"
  /\ SetMemory(Restored)
  /\ phase' = "orders"
  /\ recovery' = [NoRecovery EXCEPT !.startup = TRUE]
  /\ UNCHANGED <<inbox, raised, book, todo, entered, blocked, store, dates>>

(* Market close, or a stop request between two passes or while waiting to  *)
(* reconnect: the finally block saves.  (A write that fails here leaves    *)
(* what a Crash leaves.)                                                   *)
Shutdown ==
  /\ phase = "top" \/ (phase = "orders" /\ ~recovery.startup)
  /\ Written(Memory)
  /\ Leave
  /\ UNCHANGED <<book, date, today>>

(* An exception other than a broker error, or a KeyboardInterrupt at any   *)
(* point, ends the run.  During startup persistence is not ready yet, and  *)
(* the old snapshot stays.  Afterwards the finally block saves under       *)
(* runtime_date, which is still the date of the start: only the return of  *)
(* _run_realtime would have replaced it.                                   *)
Abort ==
  /\ phase # "down"
  /\ raised = "ValueError" \/ "interrupt" \in Outages
  /\ IF recovery.startup THEN UNCHANGED store ELSE WrittenUnder(Memory, ~aged)
  /\ Leave
  /\ UNCHANGED <<book, date, today>>

Crash ==
  /\ "crash" \in Outages
  /\ phase # "down"
  /\ Leave
  /\ UNCHANGED <<book, store, date, today>>

-----------------------------------------------------------------------------
(* One pass of the loop: reconcile, process the symbols, save.             *)

ReadOrderBook ==
  /\ phase = "top"
  /\ ~stale
  /\ inbox' = [i \in Reported \cap today |->
                 [status |-> book[i].status, filled |-> book[i].filled]]
  /\ phase' = "updates"
  /\ UNCHANGED <<tmvars, risk, book, todo, entered, blocked, recovery, store, dates>>

(* _reconcile_orders: a failed entry may be tried again.                   *)
ApplyReport(id) ==
  /\ phase = "updates"
  /\ ReconcileOne(id)
  /\ entered' = IF /\ raised' = "none"
                   /\ orders[id].intent = "ENTRY"
                   /\ orders'[id].status \in Unfilled
                THEN entered \ {orders[id].symbol} ELSE entered
  /\ UNCHANGED <<phase, todo, blocked, recovery, store, dates>>

Reconciled ==
  /\ phase = "updates"
  /\ Idle
  /\ phase' = "process"
  /\ todo' = Symbols
  /\ UNCHANGED <<vars, entered, blocked, recovery, store, dates>>

NewIds == (DOMAIN orders' \cup DOMAIN book') \ Used

ProcessEntry(s) ==
  /\ phase = "process"
  /\ s \in todo
  /\ s \notin entered
  /\ EnterTrade(s)
  /\ todo' = todo \ {s}
  /\ entered' = IF /\ raised' = "none"
                   /\ \A i \in NewIds : orders'[i].status # "REJECTED"
                THEN entered \cup {s} ELSE entered
  /\ today' = today \cup NewIds
  /\ UNCHANGED <<phase, blocked, recovery, store, date, stale, earlier, aged, doubled>>

(* An exit sent now closes what the broker holds and meets no other order. *)
MatchedExit(s) ==
  positions[s].quantity = BrokerPosition(s) /\ LiveOrders(s) = {}

(* Nothing in the code compares an exit with the broker: a lost one is     *)
(* sent again.                                                             *)
ProcessExit(s) ==
  /\ phase = "process"
  /\ s \in todo
  /\ SubmitExit(s)
  /\ todo' = todo \ {s}
  /\ today' = today \cup NewIds
  /\ doubled' = IF book' # book /\ ~MatchedExit(s) THEN doubled \cup {s} ELSE doubled
  /\ UNCHANGED <<phase, entered, blocked, recovery, store, date, stale, earlier, aged>>

EndPass ==
  /\ phase = "process"
  /\ Idle
  /\ SaveMemory(Memory)
  /\ phase' = "top"
  /\ todo' = {}
  /\ UNCHANGED <<tmvars, inbox, book, entered, blocked, recovery, dates>>

(* The date changes; at the broker the DAY orders end.  (A pass or the     *)
(* application of one recovery's reports is taken to end before midnight.) *)
Midnight ==
  /\ phase \in {"down", "orders", "top"}
  /\ date < LastDate
  /\ date' = date + 1
  /\ today' = {}
  /\ savedToday' = FALSE /\ misdated' = FALSE
  /\ stale' = (phase # "down")
  /\ aged' = (phase # "down")
  /\ earlier' = IF phase = "down" THEN {} ELSE OnTradingDate
  /\ book' = [i \in DOMAIN book |->
                IF book[i].status \in Pending
                THEN [book[i] EXCEPT !.status = "CANCELLED"] ELSE book[i]]
  /\ UNCHANGED <<tmvars, inbox, risk, runner, saved, doubled>>

(* The first open-market pass on a new date starts the new trading day.    *)
NewTradingDay ==
  /\ phase = "top"
  /\ stale
  /\ risk' = ResetDailyState(risk)
  /\ entered' = blocked
  /\ stale' = FALSE /\ earlier' = {}
  /\ UNCHANGED <<tmvars, inbox, book, phase, todo, blocked, recovery, store,
                 date, today, aged, doubled>>

-----------------------------------------------------------------------------
(* Broker errors and recovery.                                             *)

(* A broker error leaves the pass: reconnect, then reconcile.              *)
BrokerFailure ==
  /\ \/ raised \in {"BrokerError", "BrokerWriteUncertainError"}
     \/ "read" \in Outages /\ raised = "none" /\ phase \in {"top", "process"}
  /\ phase' = "orders"
  /\ recovery' = [NoRecovery EXCEPT
                    !.uncertain = (raised = "BrokerWriteUncertainError")]
  /\ raised' = "none"
  /\ todo' = {}
  /\ UNCHANGED <<orders, positions, exit_levels, trades, inbox, risk, book,
                 entered, blocked, store, dates>>

(* reconcile_startup, the orders: get_orders() and the decision what each  *)
(* pending order becomes.                                                  *)
Missing     == {i \in DOMAIN orders : /\ orders[i].status \in Pending
                                      /\ i \notin DOMAIN book \cap today}
Changed     == Reported \cap today
Legal       == {i \in Changed :
                  <<orders[i].status, book[i].status>> \in Transitions}
UnknownIds  == (DOMAIN book \cap today) \ DOMAIN orders

ReadOrders ==
  /\ phase = "orders"
  /\ inbox' = [i \in Legal \cup (Missing \ NotOlder) |->
                 IF i \in Legal
                 THEN [status |-> book[i].status, filled |-> book[i].filled]
                 ELSE [status |-> "EXPIRED", filled |-> orders[i].filled]]
  /\ recovery' = [recovery EXCEPT
       !.unresolved = (Missing \cap NotOlder # {} \/ Changed \ Legal # {}),
       !.unknown = {book[i].symbol : i \in {j \in UnknownIds :
                      book[j].status \in Pending \cup {"FILLED"}}}]
  /\ phase' = "positions"
  /\ UNCHANGED <<tmvars, risk, book, todo, entered, blocked, store, dates>>

ApplyRecovered(id) ==
  /\ phase = "positions"
  /\ ReconcileOne(id)
  /\ UNCHANGED <<runner, store, dates>>

Managed == {s \in Symbols : Active(positions[s]) /\ positions[s].quantity # 0}

(* Mutant: the broker's positions are not compared with the managed ones.  *)
NoneUnmanaged == {}

Unmanaged == {s \in Symbols \ Managed : BrokerPosition(s) # 0}

(* Mutant: orders AutoTick does not know block nothing.                    *)
FoundPositions == Unmanaged

Found == recovery.unknown \cup Unmanaged

(* Mutant: a recovery believes its own books.                              *)
RememberedPosition(s) == positions[s]

(* A managed position takes the broker's quantity; none there closes it.   *)
ProviderPosition(s) ==
  IF s \notin Managed THEN positions[s]
  ELSE IF BrokerPosition(s) = 0 THEN [quantity |-> 0, status |-> "CLOSED"]
  ELSE [positions[s] EXCEPT !.quantity = BrokerPosition(s)]

ProviderLevels == exit_levels \ {s \in Managed : BrokerPosition(s) = 0}

(* The provider's trades of the day replace the record of their orders.    *)
ProviderTrades ==
  [i \in OrderIds |->
     IF i \in DOMAIN orders \cap DOMAIN book \cap today /\ book[i].filled > 0
     THEN 1 ELSE trades[i]]

Reconciliation ==
  [orders |-> orders,
   positions |-> [s \in Symbols |-> ProviderPosition(s)],
   exit_levels |-> ProviderLevels,
   trades |-> ProviderTrades,
   risk |-> IF recovery.unresolved THEN ActivateKillSwitch(risk) ELSE risk]

(* reconcile_startup, the positions and trades, then _handle_differences.  *)
(* After an uncertain write the kill switch is saved and the run ends.     *)
StopAfterUncertainWrite ==
  /\ phase = "positions"
  /\ Idle
  /\ recovery.uncertain
  /\ Written([Reconciliation EXCEPT !.risk = ActivateKillSwitch(@)])
  /\ Leave
  /\ UNCHANGED <<book, date, today>>

(* Otherwise the caller saves, except at startup, and trading resumes.     *)
ReadPositions ==
  LET m == Reconciliation IN
  /\ phase = "positions"
  /\ Idle
  /\ ~recovery.uncertain
  /\ positions' = m.positions
  /\ exit_levels' = m.exit_levels
  /\ trades' = m.trades
  /\ IF recovery.startup THEN risk' = m.risk /\ UNCHANGED store ELSE SaveMemory(m)
  /\ blocked' = blocked \cup Found
  /\ entered' = EnteredSymbols(m.positions, orders) \cup blocked'
  /\ phase' = "top"
  /\ recovery' = NoRecovery
  /\ UNCHANGED <<orders, inbox, raised, todo, book, dates>>

(* A read fails during recovery: reconnect again.  At startup the snapshot *)
(* is loaded again.  Otherwise the positions are as they were, or, when it *)
(* is get_trades that failed, already those of the broker.                 *)
RecoveryFailure ==
  LET m == Reconciliation IN
  /\ "read" \in Outages
  /\ phase = "positions"
  /\ Idle
  /\ \/ recovery.startup /\ SetMemory(Restored)
     \/ /\ ~recovery.startup
        /\ UNCHANGED <<orders, positions, exit_levels, trades, risk>>
     \/ /\ ~recovery.startup
        /\ positions' = m.positions
        /\ exit_levels' = m.exit_levels
        /\ UNCHANGED <<orders, trades, risk>>
  /\ phase' = "orders"
  /\ UNCHANGED <<inbox, raised, book, todo, entered, blocked, recovery, store, dates>>

(* Authentication recovery exhausted: kill switch, save, stop; at startup  *)
(* without replacing the saved state.                                      *)
AuthenticationExhausted ==
  /\ "login" \in Outages
  /\ phase \in {"orders", "positions"}
  /\ Idle
  /\ IF recovery.startup THEN UNCHANGED store
     ELSE Written([Memory EXCEPT !.risk = ActivateKillSwitch(risk)])
  /\ Leave
  /\ UNCHANGED <<book, date, today>>

-----------------------------------------------------------------------------
(* External: the broker, and the owner trading the same account.           *)

BrokerMove(id) ==
  /\ BrokerStep(id)
  /\ UNCHANGED <<runner, store, dates>>

ManualOrder(s) ==
  /\ ManualTrades
  /\ \E id \in Fresh(OrderIds \ Used), side \in {"BUY", "SELL"}, q \in 1..MaxQty :
       /\ book' = Put(book, id,
            [NewOrder(s, side, "ENTRY", q) EXCEPT !.status = "SUBMITTED"])
       /\ today' = today \cup {id}
  /\ UNCHANGED <<tmvars, inbox, risk, runner, store, date, stale, earlier, aged,
                 doubled>>

LiveNext ==
  \/ Start \/ Shutdown \/ Abort \/ Crash
  \/ ReadOrderBook \/ Reconciled \/ EndPass \/ Midnight \/ NewTradingDay
  \/ \E id \in DOMAIN inbox : ApplyReport(id) \/ ApplyRecovered(id)
  \/ \E s \in Symbols : ProcessEntry(s) \/ ProcessExit(s) \/ ManualOrder(s)
  \/ BrokerFailure \/ ReadOrders \/ ReadPositions \/ StopAfterUncertainWrite
  \/ RecoveryFailure \/ AuthenticationExhausted
  \/ \E id \in DOMAIN book : BrokerMove(id)

LiveSpec == LiveInit /\ [][LiveNext]_lvars

=============================================================================

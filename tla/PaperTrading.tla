---------------------------- MODULE PaperTrading ----------------------------
(***************************************************************************)
(* Paper mode: the simulated broker of autotick/providers/brokers/         *)
(* simulated/ under the trade manager, the risk manager and the runner.    *)
(*                                                                         *)
(* A simulated order is filled or rejected inside place_order(), so that   *)
(* create_order() and all it books is one step; nothing is ever pending    *)
(* and reconcile_orders() finds nothing.  The broker lives in the process: *)
(* a crash takes it along, and one snapshot brings both sides back.        *)
(*                                                                         *)
(* An interrupt or an exception between two instructions of one order is   *)
(* left out: the process ends between the steps below.                     *)
(*                                                                         *)
(* Prices and P&L are whole numbers; funds and margins are counted in      *)
(* hundredths, so that a margin is exact.  Quantities are signed in        *)
(* positions, negative for a short one.                                    *)
(***************************************************************************)
EXTENDS RiskManager, FiniteSets

CONSTANTS
  Symbols,
  Prices,         \* what the market data of the broker may quote
  Quantities,     \* what position_size() may return
  Capital,        \* the configured capital
  MarginPct,      \* simulated.margin_pct
  LastDay         \* bound: days of a behaviour

(* config/validator.py:322-325, and a position_size() above 0              *)
ASSUME PaperAssumption ==
  /\ IsFiniteSet(Symbols)
  /\ Prices \subseteq Nat \ {0}
  /\ Quantities \subseteq Nat \ {0}
  /\ Capital \in Nat
  /\ MarginPct \in 1..100
  /\ LastDay \in Nat

VARIABLES
  sim,       \* SimulatedState and SimulatedExecutionProvider
  tm,        \* TradeManager
  entered,   \* symbols that take no entry today
  todo,      \* symbols the pass has still to process
  phase,     \* of the runner
  day,       \* the trading date
  started,   \* runtime_date: the date the process was started on
  dayStart,  \* history: the realized P&L the day began with
  misdated,  \* history: was today's risk state lost, saved under another date?
  saved      \* the snapshot, an empty sequence when there is none

vars == <<sim, tm, risk, entered, todo, phase, day, started, dayStart, misdated, saved>>

(* risk of RiskManager counts whole units, like P&L.                       *)

Abs(n) == IF n < 0 THEN -n ELSE n
Flat == [quantity |-> 0, average_price |-> 0]
Holdings == [Symbols -> [quantity : Int, average_price : Nat]]

NewBroker == [funds |-> 100 * Capital, pnl |-> 0, positions |-> [s \in Symbols |-> Flat]]

(* filled: the symbols with an entry order filled today                    *)
NewBooks == [positions |-> [s \in Symbols |-> Flat], filled |-> {}]

Active(books, s) == books.positions[s].quantity # 0

Init ==
  /\ sim = NewBroker /\ tm = NewBooks /\ risk = InitialRisk
  /\ entered = {} /\ todo = {} /\ phase = "top"
  /\ day = 0 /\ started = 0 /\ dayStart = 0 /\ misdated = FALSE
  /\ saved = <<>>

-----------------------------------------------------------------------------
(* SimulatedExecutionProvider._fill, q the signed quantity of the order.   *)

Margin(q, price) == Abs(q) * price * MarginPct

FillsEntry(s, q, price) ==
  /\ sim.positions[s].quantity = 0
  /\ sim.funds >= Margin(q, price)

(* Mutant: the average price of a short position has its sign.             *)
SignedAverage(s, q, price) ==
  [sim EXCEPT !.funds = @ - Margin(q, price),
              !.positions[s] = [quantity |-> q,
                                average_price |-> IF q < 0 THEN -price ELSE price]]

AfterEntry(s, q, price) ==
  [sim EXCEPT !.funds = @ - Margin(q, price),
              !.positions[s] = [quantity |-> q, average_price |-> price]]

FillsExit(s, q) ==
  LET held == sim.positions[s].quantity IN
  /\ (held > 0 /\ q < 0) \/ (held < 0 /\ q > 0)
  /\ Abs(held) >= Abs(q)

(* A position of quantity held, entered at average, realizes this at price.*)
Realized(held, average, price) == held * (price - average)

(* Mutant: the margin released is that of the exit price.                  *)
ReleaseAtExitPrice(s, q, price) ==
  Margin(q, price) + 100 * Realized(-q, sim.positions[s].average_price, price)

Release(s, q, price) ==
  LET average == sim.positions[s].average_price
  IN  Margin(q, average) + 100 * Realized(-q, average, price)

AfterExit(s, q, price) ==
  [sim EXCEPT !.funds = @ + Release(s, q, price),
              !.pnl = @ + Realized(-q, sim.positions[s].average_price, price),
              !.positions[s].quantity = @ + q]

-----------------------------------------------------------------------------
(* One symbol of a pass.                                                   *)

Processing(s) == phase = "process" /\ s \in todo
clock == <<day, started, dayStart, misdated>>
Done(s) == todo' = todo \ {s} /\ UNCHANGED <<phase, clock, saved>>

(* _place_order and create_order: the price of the fill is that of a tick  *)
(* fetched again, not that of the signal.                                  *)
Enter(s, q, price) ==
  /\ Processing(s) /\ Done(s)
  /\ ~Active(tm, s) /\ s \notin entered
  /\ CanTrade(risk, TRUE)
  /\ IF FillsEntry(s, q, price)
     THEN /\ sim' = AfterEntry(s, q, price)
          /\ tm' = [positions |-> [tm.positions EXCEPT ![s] =
                                     [quantity |-> q, average_price |-> price]],
                    filled |-> tm.filled \cup {s}]
          /\ risk' = RecordEntry(risk)
          /\ entered' = entered \cup {s}
     ELSE UNCHANGED <<sim, tm, risk, entered>>        \* REJECTED

(* monitor_exit, exit_for_expiry, square_off_intraday: the whole position. *)
Exit(s, price) ==
  LET held == tm.positions[s] IN
  /\ Processing(s) /\ Done(s)
  /\ Active(tm, s)
  /\ IF FillsExit(s, -held.quantity)
     THEN /\ sim' = AfterExit(s, -held.quantity, price)
          /\ tm' = [tm EXCEPT !.positions[s].quantity = 0]
          /\ risk' = RecordRealizedPnl(risk,
                       Realized(held.quantity, held.average_price, price))
     ELSE UNCHANGED <<sim, tm, risk>>                 \* REJECTED
  /\ UNCHANGED entered

(* No tick, no trigger, no signal.                                         *)
Skip(s) == Processing(s) /\ Done(s) /\ UNCHANGED <<sim, tm, risk, entered>>

ProcessSymbol ==
  \E s \in Symbols :
    \/ \E q \in Quantities, price \in Prices : Enter(s, q, price) \/ Enter(s, -q, price)
    \/ \E price \in Prices : Exit(s, price)
    \/ Skip(s)

-----------------------------------------------------------------------------
(* The runner.                                                             *)

(* RecoveryManager.save: not again once it has failed.  day is the date of *)
(* what is in memory, filed the date it is saved under.                    *)
Written(books, r, date) ==
  saved' = IF r.persistence_failed THEN saved
           ELSE <<[sim |-> sim, tm |-> books, risk |-> r, day |-> day, filed |-> date,
                   dayStart |-> dayStart, misdated |-> misdated]>>

(* _save_state in the loop: a failed write blocks entries.                 *)
Save(books) ==
  \/ Written(books, risk, day) /\ UNCHANGED risk
  \/ risk' = BlockForPersistenceFailure(risk) /\ UNCHANGED saved

BeginPass ==
  /\ phase = "top" /\ phase' = "process"
  /\ todo' = Symbols
  /\ UNCHANGED <<sim, tm, risk, entered, clock, saved>>

EndPass ==
  /\ phase = "process" /\ todo = {} /\ phase' = "top"
  /\ Save(tm)
  /\ UNCHANGED <<sim, tm, entered, todo, clock>>

(* The first pass of a date: reset_daily_state() and an empty entered.     *)
NewTradingDay ==
  /\ phase = "top" /\ day < LastDay
  /\ day' = day + 1 /\ dayStart' = sim.pnl /\ misdated' = FALSE
  /\ risk' = ResetDailyState(risk)
  /\ entered' = {}
  /\ tm' = [tm EXCEPT !.filled = {}]
  /\ UNCHANGED <<sim, todo, phase, started, saved>>

(* The market data or the account of the broker failed in mid-pass; what   *)
(* the pass has done so far stays.                                         *)
BrokerFailure ==
  /\ phase = "process" /\ phase' = "recover"
  /\ UNCHANGED <<sim, tm, risk, entered, todo, clock, saved>>

(* reconcile_startup() against the simulated broker: managed positions are *)
(* replaced by its positions, or closed.                                   *)
Reconciled(books, broker) ==
  [books EXCEPT !.positions =
     [s \in Symbols |-> IF Active(books, s) THEN broker.positions[s]
                                            ELSE books.positions[s]]]

Unmanaged(books, broker) ==
  {s \in Symbols : broker.positions[s].quantity # 0 /\ ~Active(books, s)}

(* Mutant: only open positions take no entry after a recovery.             *)
ActiveSymbols(books) == {s \in Symbols : Active(books, s)}

(* entered_symbols()                                                       *)
EnteredSymbols(books) == {s \in Symbols : Active(books, s)} \cup books.filled

Recover ==
  /\ phase = "recover" /\ phase' = "top"
  /\ tm' = Reconciled(tm, sim)
  /\ entered' = EnteredSymbols(tm') \cup Unmanaged(tm, sim)
  /\ todo' = {}
  /\ Save(tm')
  /\ UNCHANGED <<sim, clock>>

(* What is left of a process that ended.                                   *)
Leave ==
  /\ phase' = "down"
  /\ sim' = NewBroker /\ tm' = NewBooks /\ risk' = InitialRisk
  /\ entered' = {} /\ todo' = {} /\ dayStart' = 0 /\ misdated' = FALSE
  /\ started' = 0
  /\ UNCHANGED day

(* _run_realtime returns, at the market close or on its stop event, and    *)
(* with it the trading date the finally block saves under.  (A write that  *)
(* fails here and in the next two leaves what a Crash leaves.)             *)
Shutdown ==
  /\ phase \in {"top", "recover"}
  /\ Written(tm, risk, day)
  /\ Leave

(* Ctrl-C, which is how a run without a stop event is stopped, or an       *)
(* exception (no market price): runtime_date is still that of the start.   *)
Interrupt ==
  /\ phase # "down"
  /\ Written(tm, risk, started)
  /\ Leave

(* Reconnecting ends with exhausted authentication: the kill switch is     *)
(* saved.                                                                  *)
GiveUp ==
  /\ phase = "recover"
  /\ Written(tm, ActivateKillSwitch(risk), day)
  /\ Leave

Crash == phase # "down" /\ Leave /\ UNCHANGED saved

RestoreSimulated(m) == m.sim

(* Mutant: the books of another day are dropped.                           *)
BooksOfToday(m, today) == IF m.day = today THEN m.tm ELSE NewBooks

(* Entries of another day do not count as filled today.                    *)
RestoreBooks(m, today) ==
  IF m.day = today THEN m.tm ELSE [m.tm EXCEPT !.filled = {}]

(* Mutant: the risk state is restored whatever its date.                   *)
RestoreAnyRisk(m, today) == RestoreState(m.risk)

RestoreRisk(m, today) ==
  IF m.filed = today THEN RestoreState(m.risk) ELSE ResetDailyState(InitialRisk)

(* RecoveryManager.recover, on the day of the snapshot or later.           *)
Restart ==
  /\ phase = "down" /\ phase' = "top"
  /\ day' \in day..LastDay /\ started' = day'
  /\ LET m == saved[1]
         books == RestoreBooks(m, day')
         broker == RestoreSimulated(m)
     IN  IF saved = <<>>
         THEN UNCHANGED <<sim, tm, risk, entered, dayStart, misdated>>
         ELSE /\ sim' = broker
              /\ tm' = Reconciled(books, broker)
              /\ risk' = RestoreRisk(m, day')
              /\ dayStart' = IF m.day = day' THEN m.dayStart ELSE m.sim.pnl
              /\ misdated' = (m.day = day' /\ (m.misdated \/ m.filed # m.day))
              /\ entered' = EnteredSymbols(tm') \cup Unmanaged(books, broker)
  /\ UNCHANGED <<todo, saved>>

Next ==
  \/ ProcessSymbol
  \/ BeginPass \/ EndPass \/ NewTradingDay
  \/ BrokerFailure \/ Recover \/ GiveUp
  \/ Shutdown \/ Interrupt \/ Crash \/ Restart

Spec == Init /\ [][Next]_vars

=============================================================================

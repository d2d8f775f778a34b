---------------------------- MODULE TradeManager ----------------------------
(***************************************************************************)
(* autotick/engine/trade_manager.py: the orders, positions, trades and     *)
(* exit levels AutoTick manages, driven by the realtime runner and by a    *)
(* live broker that moves its own order book at any moment.                *)
(*                                                                         *)
(* Every method call is one step, except reconcile_orders(): it reads the  *)
(* broker's order book once and then updates its orders one at a time, and *)
(* an update may raise between two of them, so the read (ReconcileBegin)   *)
(* and each update (ReconcileOne) are steps of their own.                  *)
(*                                                                         *)
(* Abstractions.  Prices are positive wherever the code tests them and     *)
(* appear only as the P&L an exit fill realizes; the symbol stands for the *)
(* (symbol, exchange) key; exit levels are the set of keys that have them  *)
(* (their values are the subject of ExitLevels.tla); reports and audit     *)
(* records are output only.  A short position is a negative quantity.      *)
(***************************************************************************)
EXTENDS Orders, RiskManager, FiniteSets, Functions

CONSTANTS
  ReportsOpen,    \* does the broker report an accepted order as OPEN?
  PartialFills,   \* may the broker fill an order in several executions?
  LateRejects     \* may the exchange reject an order it already opened?

ASSUME BrokerAssumption ==
  /\ ReportsOpen \in BOOLEAN
  /\ PartialFills \in BOOLEAN
  /\ LateRejects \in BOOLEAN

VARIABLES
  orders,        \* _orders: dict of the known orders
  positions,     \* _positions: per symbol, "NONE" when there is no key
  exit_levels,   \* keys of _exit_levels
  trades,        \* how many records of _trades name each order
  inbox,         \* reports of the running reconcile_orders() still to apply
  raised,        \* why the calls ended, or "none" while they go on
  book           \* the broker's order book (external)

tmvars  == <<orders, positions, exit_levels, trades, raised>>
vars == <<orders, positions, exit_levels, trades, inbox, raised, risk, book>>

Position ==
  [quantity : Int, status : {"NONE", "OPEN", "EXIT_PENDING", "CLOSED"}]

NoPosition == [quantity |-> 0, status |-> "NONE"]
Active(p)  == p.status \in {"OPEN", "EXIT_PENDING"}
Size(p)    == IF p.quantity > 0 THEN p.quantity ELSE -p.quantity
Signed(o, q) == IF o.side = "BUY" THEN q ELSE -q

(* What ends the calls of one run of the loop: an exception, or the loop    *)
(* itself.                                                                 *)
Exceptions == {"ValueError", "BrokerError", "BrokerWriteUncertainError", "LoopLeft"}

Init ==
  /\ orders = EmptyDict
  /\ positions = [s \in Symbols |-> NoPosition]
  /\ exit_levels = {}
  /\ trades = [i \in OrderIds |-> 0]
  /\ inbox = EmptyDict
  /\ raised = "none"
  /\ risk = InitialRisk
  /\ book = EmptyDict

-----------------------------------------------------------------------------
(* Fills.                                                                  *)

(* _apply_entry_fill: open or add to the position; an addition sets the    *)
(* position OPEN again (update_position).  Levels are kept when present.   *)
ApplyEntryFill(o, quantity) ==
  LET held   == positions[o.symbol]
      signed == Signed(o, quantity)
  IN
  \/ /\ \/ held.quantity > 0 /\ signed < 0
        \/ held.quantity < 0 /\ signed > 0
     /\ raised' = "ValueError"
     /\ UNCHANGED <<positions, exit_levels>>
  \/ /\ held.quantity = 0 \/ (held.quantity > 0) = (signed > 0)
     /\ positions' = [positions EXCEPT ![o.symbol] =
          [quantity |-> held.quantity + signed, status |-> "OPEN"]]
     /\ exit_levels' = exit_levels \cup {o.symbol}
     /\ UNCHANGED raised

(* What an exit fill leaves of a position, and of the exit levels.         *)
Reduced(held, quantity) ==
  LET remaining == IF held.quantity > 0 THEN held.quantity - quantity
                                        ELSE held.quantity + quantity
  IN  [quantity |-> remaining,
       status   |-> IF remaining = 0 THEN "CLOSED" ELSE "EXIT_PENDING"]

(* Mutant: a closed position keeps its exit levels.                        *)
LevelsStay(symbol, held, quantity) == exit_levels

LevelsAfterExit(symbol, held, quantity) ==
  IF Size(held) = quantity THEN exit_levels \ {symbol} ELSE exit_levels

(* _apply_exit_fill: reduce the position, realize the P&L, close it when   *)
(* nothing remains.                                                        *)
ApplyExitFill(o, quantity) ==
  LET held == positions[o.symbol] IN
  \/ /\ held.status = "NONE"
     /\ UNCHANGED <<positions, exit_levels, raised, risk>>
  \/ /\ held.status # "NONE"
     /\ Size(held) < quantity
     /\ raised' = "ValueError"
     /\ UNCHANGED <<positions, exit_levels, risk>>
  \/ /\ held.status # "NONE"
     /\ Size(held) >= quantity
     /\ positions' = [positions EXCEPT ![o.symbol] = Reduced(held, quantity)]
     /\ exit_levels' = LevelsAfterExit(o.symbol, held, quantity)
     /\ \E pnl \in PnLs : risk' = RecordRealizedPnl(risk, pnl)
     /\ UNCHANGED raised

(* Mutant: an exit that ended unfilled leaves the position EXIT_PENDING.   *)
NotReleased(o, status) == UNCHANGED <<positions, exit_levels, raised, risk>>

(* The elif of update_order_state: an exit that ended without executing    *)
(* gives the position back to the exit monitor.                            *)
ReleasePosition(o, status) ==
  LET held == positions[o.symbol] IN
  /\ positions' =
       IF o.intent = "EXIT" /\ status \in Unfilled /\ held.status = "EXIT_PENDING"
       THEN [positions EXCEPT ![o.symbol].status = "OPEN"]
       ELSE positions
  /\ UNCHANGED <<exit_levels, raised, risk>>

Allowed(from, to) == <<from, to>> \in Transitions

(* Mutant: every execution is recorded as a trade.                         *)
RecordExecution(id, status, executed) ==
  trades' = IF executed THEN [trades EXCEPT ![id] = @ + 1] ELSE trades

(* _record_trade, called for complete fills.                               *)
RecordTrade(id, status, executed) ==
  trades' = IF status = "FILLED" THEN [trades EXCEPT ![id] = @ + 1] ELSE trades

(* Mutant: every execution of an entry counts against the daily limit.     *)
CountEveryFill(previous) == RecordEntry(risk)

(* Only the first execution of an entry counts.                            *)
CountEntry(previous) == IF previous = 0 THEN RecordEntry(risk) ELSE risk

(* Mutant: the cumulative fill is booked again instead of its growth.      *)
BookCumulative(filled, previous) == filled

Executed(filled, previous) == filled - previous

(* update_order_state(order, status), for an order o stored under id.      *)
UpdateOrderState(id, o, status) ==
  LET current  == IF id \in DOMAIN orders THEN orders[id] ELSE o
      previous == FilledQuantity(current, current.status)
      filled   == FilledQuantity(o, status)
      updated  == [o EXCEPT !.status = status, !.filled = filled]
      quantity == Executed(filled, previous)
  IN
  \/ /\ current.status = status
     /\ filled <= previous
     /\ UNCHANGED <<tmvars, risk>>
  \/ /\ current.status # status
     /\ ~Allowed(current.status, status)
     /\ raised' = "ValueError"
     /\ UNCHANGED <<orders, positions, exit_levels, trades, risk>>
  \/ /\ IF current.status = status THEN filled > previous
                                   ELSE Allowed(current.status, status)
     /\ orders' = Put(orders, id, updated)
     /\ RecordTrade(id, status, filled > previous)
     /\ \/ /\ filled > previous
           /\ o.intent = "ENTRY"
           /\ risk' = CountEntry(previous)
           /\ ApplyEntryFill(updated, quantity)
        \/ /\ filled > previous
           /\ o.intent = "EXIT"
           /\ ApplyExitFill(updated, quantity)
        \/ /\ filled <= previous
           /\ ReleasePosition(updated, status)

-----------------------------------------------------------------------------
(* Queries used as guards.                                                 *)

Of(symbol, intent) ==
  {i \in DOMAIN orders : orders[i].symbol = symbol /\ orders[i].intent = intent}

(* Mutant: an entry that waits for its execution is overlooked.            *)
OpenTradeOnly(symbol) == Active(positions[symbol])

HasActiveTrade(symbol) ==
  \/ Active(positions[symbol])
  \/ \E i \in Of(symbol, "ENTRY") : orders[i].status \in Pending

Used == DOMAIN orders \cup DOMAIN book
Idle == raised = "none" /\ DOMAIN inbox = {}

-----------------------------------------------------------------------------
(* create_order with the AngelOne adapter.  A new order goes through       *)
(* VALIDATED to SUBMITTED before the adapter's answer is applied; neither  *)
(* step has an effect but the stored status.                               *)

(* The broker answered with an order id.                                   *)
Accepted(id, o) ==
  /\ orders' = Put(orders, id, [o EXCEPT !.status = "SUBMITTED"])
  /\ book' = Put(book, id, [o EXCEPT !.status = "SUBMITTED"])
  /\ UNCHANGED <<exit_levels, trades, raised, risk, inbox>>

(* The adapter refused the order on a copy of it: unsupported delivery     *)
(* short, or no quantity the margin allows (replace(...) in place_order).  *)
(* The code stores quantity 0 with it; the model keeps what was asked for, *)
(* which nothing reads once the order is REJECTED.                         *)
RefusedBeforeSending(id, o) ==
  /\ o.intent = "ENTRY"
  /\ orders' = Put(orders, id, [o EXCEPT !.status = "REJECTED"])
  /\ UNCHANGED <<positions, exit_levels, trades, raised, risk, inbox, book>>

(* The broker rejected the order.  place_order sets REJECTED on the object *)
(* it was given.  That object is the one create_order has just stored,     *)
(* unless the margin fit replaced it with a smaller copy: then REJECTED is *)
(* recorded; otherwise create_order finds REJECTED where it expects        *)
(* VALIDATED and update_order_state raises.                                *)
RejectedByBroker(id, o) ==
  /\ orders' = Put(orders, id, [o EXCEPT !.status = "REJECTED"])
  /\ \/ o.intent = "ENTRY" /\ UNCHANGED raised
     \/ raised' = "ValueError"
  /\ UNCHANGED <<positions, exit_levels, trades, risk, inbox, book>>

(* The write went out and its result is unknown (call_once): the order     *)
(* stays VALIDATED under its client id, and the broker may hold an order   *)
(* under an id AutoTick never learns.                                      *)
Uncertain(id, o) ==
  /\ orders' = Put(orders, id, [o EXCEPT !.status = "VALIDATED"])
  /\ \/ \E other \in Fresh(OrderIds \ (Used \cup {id})) :
          book' = Put(book, other, [o EXCEPT !.status = "SUBMITTED"])
     \/ UNCHANGED book
  /\ raised' = "BrokerWriteUncertainError"
  /\ UNCHANGED <<positions, exit_levels, trades, risk, inbox>>

(* A read that precedes the write (margin, contract) failed.               *)
ReadFailed(id, o) ==
  /\ orders' = Put(orders, id, [o EXCEPT !.status = "VALIDATED"])
  /\ raised' = "BrokerError"
  /\ UNCHANGED <<positions, exit_levels, trades, risk, inbox, book>>

NotAccepted(id, o) ==
  \/ RefusedBeforeSending(id, o)
  \/ RejectedByBroker(id, o)
  \/ Uncertain(id, o)
  \/ ReadFailed(id, o)

NewOrder(symbol, side, intent, quantity) ==
  [symbol |-> symbol, side |-> side, intent |-> intent,
   quantity |-> quantity, filled |-> 0, status |-> "NEW"]

-----------------------------------------------------------------------------
(* The runner's calls.                                                     *)

(* _process_symbols / _place_order: a signal on a symbol without an active *)
(* trade, within the risk limits.  The quantity is what position_size() and *)
(* the margin fit leave.                                                   *)
EnterTrade(symbol) ==
  /\ Idle
  /\ ~HasActiveTrade(symbol)
  /\ CanTrade(risk, TRUE)
  /\ \E id \in Fresh(OrderIds \ Used), side \in Sides, quantity \in 1..MaxQty :
       LET o == NewOrder(symbol, side, "ENTRY", quantity) IN
       \/ Accepted(id, o) /\ UNCHANGED positions
       \/ NotAccepted(id, o)

MayExit(held) == held.status = "OPEN"

(* _submit_exit (monitor_exit, exit_for_expiry) and the body of            *)
(* square_off_intraday: an exit for the whole of an OPEN position, which   *)
(* turns EXIT_PENDING once the broker accepted the order.                  *)
SubmitExit(symbol) ==
  LET held == positions[symbol]
      o    == NewOrder(symbol, IF held.quantity > 0 THEN "SELL" ELSE "BUY",
                       "EXIT", Size(held))
  IN
  /\ Idle
  /\ MayExit(held)
  /\ \E id \in Fresh(OrderIds \ Used) :
       \/ /\ Accepted(id, o)
          /\ positions' = [positions EXCEPT ![symbol].status = "EXIT_PENDING"]
       \/ NotAccepted(id, o)

(* Mutant: only complete fills are noticed.                                *)
ReportedFills ==
  {i \in DOMAIN orders \cap DOMAIN book :
     orders[i].status \in Pending /\ book[i].status = "FILLED"}

(* reconcile_orders: one read of the order book; orders whose status did   *)
(* not change are skipped.                                                 *)
Reported ==
  {i \in DOMAIN orders \cap DOMAIN book :
     orders[i].status \in Pending /\ book[i].status # orders[i].status}

ReconcileBegin ==
  /\ Idle
  /\ Reported # {}
  /\ inbox' = [i \in Reported |->
                 [status |-> book[i].status, filled |-> book[i].filled]]
  /\ UNCHANGED <<tmvars, risk, book>>

ReconcileOne(id) ==
  LET report == inbox[id] IN
  /\ raised = "none"
  /\ id \in DOMAIN inbox
  /\ UpdateOrderState(id, [orders[id] EXCEPT !.filled = report.filled],
                      report.status)
  /\ inbox' = IF raised' = "none" THEN Drop(inbox, id) ELSE EmptyDict
  /\ UNCHANGED book

(* _run_realtime calls no more: the market is closed, a stop was requested *)
(* (LoopLeft), or the read of the order book failed.                       *)
LeaveLoop ==
  /\ Idle
  /\ raised' \in {"LoopLeft", "BrokerError"}
  /\ UNCHANGED <<orders, positions, exit_levels, trades, risk, inbox, book>>

-----------------------------------------------------------------------------
(* cancel_order: offered by TradeManager, never called by the runner.      *)
(* (modify_order, which nothing calls either, is not modelled: see the     *)
(* README.)                                                                *)

(* The broker acknowledged the request; its order is still live and may    *)
(* yet execute.  An unknown order, or a refused request, changes nothing.  *)
CancelOrder(id) ==
  /\ Idle
  /\ id \in DOMAIN orders \cap DOMAIN book
  /\ book[id].status \in Pending
  /\ UpdateOrderState(id, orders[id], "CANCELLED")
  /\ UNCHANGED <<inbox, book>>

(* The result of the request is unknown (call_once): nothing is recorded,  *)
(* and whether the broker cancels the order is up to BrokerStep.           *)
CancelUncertain(id) ==
  /\ Idle
  /\ id \in DOMAIN orders
  /\ raised' = "BrokerWriteUncertainError"
  /\ UNCHANGED <<orders, positions, exit_levels, trades, risk, inbox, book>>

-----------------------------------------------------------------------------
(* The broker (external).  It reports a status of the adapter's status map *)
(* and a cumulative fill; EXPIRED is not one of them.                      *)

BrokerMoves ==
  {m \in Transitions : /\ m[1] \in Pending /\ m[2] # "EXPIRED"
                       /\ m[2] = "OPEN" => ReportsOpen}
    \cup {<<"OPEN", "OPEN">>, <<"PARTIAL", "PARTIAL">>}
    \cup (IF LateRejects THEN {<<"OPEN", "REJECTED">>} ELSE {})

BrokerStep(id) ==
  LET o == book[id] IN
  \E move \in BrokerMoves, f \in o.filled..o.quantity :
    /\ move[1] = o.status
    /\ (move[2] = "FILLED") <=> (f = o.quantity)
    /\ move[2] = "PARTIAL" => f > 0
    /\ move[2] = "REJECTED" => f = o.filled
    /\ ~PartialFills => f \in {0, o.quantity}
    /\ book' = [book EXCEPT ![id].status = move[2], ![id].filled = f]
    /\ UNCHANGED <<tmvars, inbox, risk>>

(* The broker's position of a symbol is what its orders executed so far.   *)
BrokerPosition(s) ==
  SumFunction([i \in {j \in DOMAIN book : book[j].symbol = s} |->
                 Signed(book[i], book[i].filled)])

(* The orders of a symbol the broker may still execute.                    *)
LiveOrders(s) ==
  {i \in DOMAIN book : book[i].symbol = s /\ book[i].status \in Pending}

-----------------------------------------------------------------------------
RunnerNext ==
  \/ \E s \in Symbols : EnterTrade(s) \/ SubmitExit(s)
  \/ ReconcileBegin
  \/ \E id \in DOMAIN inbox : ReconcileOne(id)
  \/ LeaveLoop
  \/ \E id \in DOMAIN book : BrokerStep(id)

Next ==
  \/ RunnerNext
  \/ \E id \in DOMAIN orders : CancelOrder(id) \/ CancelUncertain(id)

(* The orders of one process in any interleaving: with cancellations; and  *)
(* only with the calls the realtime runner makes.  What a recovery and a   *)
(* restart add (reconcile_startup, restore_state) is in LiveTrading.tla.   *)
Spec       == Init /\ [][Next]_vars
RunnerSpec == Init /\ [][RunnerNext]_vars

(* The runner reconciles in every pass of its loop, as long as it is in    *)
(* the loop.  Nothing is promised of the broker, and no exit need ever be  *)
(* submitted.                                                              *)
Fairness ==
  /\ WF_vars(ReconcileBegin)
  /\ WF_vars(\E id \in DOMAIN inbox : ReconcileOne(id))

FairRunnerSpec == RunnerSpec /\ Fairness

=============================================================================

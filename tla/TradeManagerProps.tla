------------------------- MODULE TradeManagerProps --------------------------
(***************************************************************************)
(* What the trade manager is supposed to guarantee.  The theorems about    *)
(* these formulas are in TradeManagerProofs.tla.                           *)
(***************************************************************************)
EXTENDS TradeManager

(* The orders of a symbol the process waits for.                           *)
PendingOf(s) == {i \in DOMAIN orders : orders[i].symbol = s /\ orders[i].status \in Pending}

-----------------------------------------------------------------------------
(* Every field keeps its type; inbox only holds reports about orders that  *)
(* are known and were pending when the order book was read.                *)
TypeOK ==
  /\ DOMAIN orders \subseteq OrderIds
  /\ \A i \in DOMAIN orders : orders[i] \in Order
  /\ DOMAIN book \subseteq OrderIds
  /\ \A i \in DOMAIN book : book[i] \in Order
  /\ positions \in [Symbols -> Position]
  /\ exit_levels \subseteq Symbols
  /\ trades \in [OrderIds -> Nat]
  /\ DOMAIN inbox \subseteq DOMAIN orders
  /\ \A i \in DOMAIN inbox : /\ inbox[i].status \in OrderStatus
                             /\ inbox[i].filled \in Nat
  /\ raised \in {"none"} \cup Exceptions
  /\ risk \in RiskState

(* A position is monitored exactly as long as it is held: whatever the     *)
(* order of partial fills, exits and reconciliations, a symbol has exit    *)
(* levels (a stop-loss) if and only if its managed quantity is not zero    *)
(* (_apply_entry_fill creates them, _apply_exit_fill drops them).          *)
HeldIsProtected ==
  \A s \in Symbols : positions[s].quantity # 0 <=> s \in exit_levels

(* The statuses agree with the quantity: an OPEN or EXIT_PENDING position  *)
(* holds something, and a closed or absent one holds nothing.  monitor_exit *)
(* and square_off_intraday size their order by that quantity.              *)
StatusMatchesQuantity ==
  \A s \in Symbols : Active(positions[s]) <=> positions[s].quantity # 0

(* The position of a symbol is the sum of the executions recorded in its   *)
(* orders, whatever reports were skipped, repeated or applied late, as     *)
(* long as no recovery overwrites the positions (reconcile_startup, see    *)
(* LiveTrading.tla): then only an exception in the middle of               *)
(* update_order_state can separate the two, when a strategy enters in one  *)
(* direction or orders execute at once.                                    *)
(* (_apply_exit_fill does not look at the side of the order: an exit that  *)
(* executes after its position was closed and entered again the other way  *)
(* reduces the new position, see the README.)                              *)
FillsOf(s) ==
  [i \in {j \in DOMAIN orders : orders[j].symbol = s} |->
     Signed(orders[i], orders[i].filled)]

PositionIsSumOfFills ==
  raised # "ValueError" =>
    \A s \in Symbols : positions[s].quantity = SumFunction(FillsOf(s))

(* A filled order has exactly one record in _trades and any other order    *)
(* none, so a report that is seen again is not booked again.               *)
OneTradePerFilledOrder ==
  \A i \in OrderIds :
    trades[i] = IF i \in DOMAIN orders /\ orders[i].status = "FILLED"
                THEN 1 ELSE 0

(* "The first execution of an ENTRY order, partial or full, consumes the   *)
(* daily trade limit": the counter equals the number of entries with an    *)
(* execution, and an exhausted counter or a breached loss limit has closed *)
(* the entries for the day.                                                *)
EntriesCounted ==
  /\ risk.trade_count =
       Cardinality({i \in DOMAIN orders :
                      orders[i].intent = "ENTRY" /\ orders[i].filled > 0})
  /\ LimitReached(risk) => risk.kill_switch

(* The daily limit is checked when an entry is sent and consumed when it   *)
(* executes, so entries of several symbols may pass it together - but no   *)
(* more than one of each symbol: the limit is exceeded by less than the    *)
(* number of symbols (can_trade, has_active_trade).                        *)
EntriesNearLimit == risk.trade_count <= MaxTrades + Cardinality(Symbols) - 1

(* The managed record never runs ahead of the broker: no execution is      *)
(* booked that the broker has not made, and an order believed to be over   *)
(* is over at the broker with the same status and the same executions.     *)
NeverAheadOfBroker ==
  \A i \in DOMAIN orders \cap DOMAIN book :
    /\ orders[i].filled <= book[i].filled
    /\ orders[i].status \in Terminal =>
         /\ orders[i].status = book[i].status
         /\ orders[i].filled = book[i].filled

(* An order is never executed beyond its quantity, and AutoTick never      *)
(* books more of it than the broker executed: also when it is cancelled    *)
(* while it executes, and when reports are applied late.                   *)
WellFilled(o) ==
  /\ o.filled <= o.quantity
  /\ o.status = "FILLED" => o.filled = o.quantity

InboxIsRecent ==
  \A i \in DOMAIN inbox :
    /\ i \in DOMAIN book
    /\ orders[i].status \in Pending
    /\ orders[i].filled <= inbox[i].filled
    /\ inbox[i].filled <= book[i].filled
    /\ inbox[i].status = "FILLED" => /\ book[i].status = "FILLED"
                                    /\ inbox[i].filled = book[i].quantity

BooksAgree ==
  /\ \A i \in DOMAIN orders : WellFilled(orders[i])
  /\ \A i \in DOMAIN book : WellFilled(book[i])
  /\ \A i \in DOMAIN orders \cap DOMAIN book :
       /\ orders[i].quantity = book[i].quantity
       /\ orders[i].filled <= book[i].filled
       /\ orders[i].status = "FILLED" => book[i].status = "FILLED"
  /\ InboxIsRecent

(* Every known order goes through the documented state machine and keeps   *)
(* its executions: the managed orders implement OrderLifecycle.            *)
StatusOf(i) == IF i \in DOMAIN orders THEN orders[i].status ELSE "NONE"

Lifecycle ==
  INSTANCE OrderLifecycle WITH
    Ids     <- OrderIds,
    Arrows  <- Transitions,
    Created <- {"VALIDATED", "SUBMITTED", "REJECTED"},
    Final   <- Terminal,
    status  <- [i \in OrderIds |-> StatusOf(i)],
    filled  <- [i \in OrderIds |->
                  IF i \in DOMAIN orders THEN orders[i].filled ELSE 0],
    booked  <- trades

OrdersFollowLifecycle == Lifecycle!LSpec

-----------------------------------------------------------------------------
(* With a broker that executes an order at once or not at all.             *)

LiveExits(s) == {i \in Of(s, "EXIT") : orders[i].status \in Pending}

(* A position waits for an exit exactly when one exit order is live, and   *)
(* that order is for the whole position: never a second exit, never an     *)
(* exit forgotten.                                                         *)
OneExitInFlight ==
  \A s \in Symbols :
    IF positions[s].status = "EXIT_PENDING"
    THEN \E i \in LiveExits(s) : /\ LiveExits(s) = {i}
                                 /\ orders[i].quantity = Size(positions[s])
    ELSE LiveExits(s) = {}

(* An order that is over at the broker does not stay pending for ever      *)
(* while the loop goes on (reconcile_orders skips no report for good,      *)
(* whatever other orders do in between).  An order that ends after the     *)
(* loop was left is the recovery's business.                               *)
OverAtBroker(i) == i \in DOMAIN book /\ book[i].status \in Terminal

PendingOrdersSettle ==
  \A i \in OrderIds :
    (StatusOf(i) \in Pending /\ OverAtBroker(i))
      ~> (StatusOf(i) \in Terminal \/ raised # "none")

(* A position that waits for exits which are all over at the broker is     *)
(* closed or handed back to the exit monitor while the loop goes on.       *)
ExitsResolve ==
  \A s \in Symbols :
    (/\ positions[s].status = "EXIT_PENDING"
     /\ \A i \in LiveExits(s) : OverAtBroker(i))
      ~> (positions[s].status \in {"OPEN", "CLOSED"} \/ raised # "none")

-----------------------------------------------------------------------------
(* Documented claims the code does not meet (see the README's findings).   *)

(* The exits the broker may still execute never exceed what it holds.      *)
Outstanding(s) ==
  SumFunction([i \in {j \in DOMAIN orders \cap DOMAIN book :
                        /\ book[j].symbol = s
                        /\ book[j].intent = "EXIT"
                        /\ book[j].status \in Pending} |->
                 book[i].quantity - book[i].filled])

ExitsNeverOversell ==
  \A s \in Symbols :
    Outstanding(s) <= Size([quantity |-> BrokerPosition(s)])

(* A position marked EXIT_PENDING has an exit order that can still act.    *)
ExitPendingHasExit ==
  \A s \in Symbols :
    positions[s].status = "EXIT_PENDING" /\ raised = "none" /\ DOMAIN inbox = {}
      => LiveExits(s) # {}

=============================================================================

------------------------------- MODULE Orders -------------------------------
(***************************************************************************)
(* The normalized order of autotick/models/order.py and the order state    *)
(* machine TradeManager._TRANSITIONS, shared by every module that handles  *)
(* orders.                                                                 *)
(*                                                                         *)
(* Order identifiers stand for the uuid4 / broker order ids; they are      *)
(* numbers only so that "the next unused identifier" is determined.        *)
(***************************************************************************)
EXTENDS Integers

CONSTANTS
  Symbols,    \* instruments of the one configured exchange
  OrderIds,   \* identifiers available to one behaviour (bounds the orders)
  MaxQty,     \* largest quantity one order may ask for
  Sides       \* sides the strategy may signal

ASSUME OrderAssumption ==
  /\ OrderIds \subseteq Nat
  /\ MaxQty \in Nat \ {0}
  /\ Sides \subseteq {"BUY", "SELL"}

-----------------------------------------------------------------------------
Pending     == {"SUBMITTED", "OPEN", "PARTIAL"}
Unfilled    == {"REJECTED", "CANCELLED", "EXPIRED"}
Terminal    == Unfilled \cup {"FILLED"}
OrderStatus == {"NEW", "VALIDATED"} \cup Pending \cup Terminal

Transitions ==
  UNION { {"NEW"}       \X {"VALIDATED"},
          {"VALIDATED"} \X {"SUBMITTED", "REJECTED"},
          {"SUBMITTED"} \X ({"OPEN", "PARTIAL"} \cup Terminal),
          {"OPEN"}      \X {"PARTIAL", "FILLED", "CANCELLED", "EXPIRED"},
          {"PARTIAL"}   \X {"FILLED", "CANCELLED", "EXPIRED"} }

(* Prices, order types and timestamps are abstracted; quantity and         *)
(* filled_quantity are kept.  filled_quantity None is 0.                   *)
Order ==
  [symbol   : Symbols,
   side     : {"BUY", "SELL"},
   intent   : {"ENTRY", "EXIT"},
   quantity : Nat \ {0},
   filled   : Nat,
   status   : OrderStatus]

(* Mutant: any order that is over counts as filled.                        *)
FilledWhenOver(o, status) ==
  IF status \in Terminal THEN o.quantity ELSE o.filled

(* TradeManager._filled_quantity: a FILLED order is filled completely,     *)
(* whatever number was reported; any other report is clamped.              *)
FilledQuantity(o, status) ==
  IF status = "FILLED" THEN o.quantity
  ELSE IF o.filled > o.quantity THEN o.quantity ELSE o.filled

(* dict[k] = v                                                             *)
Put(d, k, v) == [x \in DOMAIN d \cup {k} |-> IF x = k THEN v ELSE d[x]]

(* dict.pop(k, None)                                                       *)
Drop(d, k) == [x \in DOMAIN d \ {k} |-> d[x]]

EmptyDict == [x \in {} |-> {}]

(* A new identifier: the least one of the unused ones (singleton or {}).   *)
Fresh(unused) == {i \in unused : \A j \in unused : i <= j}

=============================================================================

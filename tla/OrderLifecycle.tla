--------------------------- MODULE OrderLifecycle ---------------------------
(***************************************************************************)
(* What the order state machine promises of every single order, whichever  *)
(* component moves it: an order is created once, moves only along the      *)
(* documented arrows (ARCHITECTURE_IMPLEMENTATION_GUIDE.txt, "ORDER STATE  *)
(* MACHINE"), its filled quantity never shrinks, and a terminal order      *)
(* keeps both for ever.  How many executions were booked so far is the     *)
(* third variable: executions are booked exactly when an order fills, so a *)
(* report seen twice is never booked twice.                                *)
(***************************************************************************)
EXTENDS Integers

CONSTANTS Ids, Arrows, Created, Final

VARIABLES
  status,    \* status[id]: "NONE" until the order exists
  filled,    \* filled[id]: cumulative executed quantity
  booked     \* booked[id]: trades recorded for the order

lvars == <<status, filled, booked>>

LInit ==
  /\ status = [i \in Ids |-> "NONE"]
  /\ filled = [i \in Ids |-> 0]
  /\ booked = [i \in Ids |-> 0]

(* An order appears with nothing executed.                                 *)
Create(i) ==
  /\ status[i] = "NONE"
  /\ \E s \in Created : status' = [status EXCEPT ![i] = s]
  /\ UNCHANGED <<filled, booked>>

(* The cumulative fill of one order may grow, by any amount.               *)
FillsMore(i) ==
  /\ filled' = [filled EXCEPT ![i] = filled'[i]]
  /\ filled'[i] >= filled[i]

(* One arrow of the state machine, with the executions it reports.  Only a *)
(* complete fill books a trade.                                            *)
Advance(i) ==
  /\ \E s \in {a[2] : a \in Arrows} :
       /\ <<status[i], s>> \in Arrows
       /\ status' = [status EXCEPT ![i] = s]
       /\ booked' = IF s = "FILLED" THEN [booked EXCEPT ![i] = @ + 1] ELSE booked
  /\ FillsMore(i)

(* More executions reported under the same live status.                    *)
Accumulate(i) ==
  /\ status[i] \notin Final \cup {"NONE"}
  /\ FillsMore(i)
  /\ UNCHANGED <<status, booked>>

LNext == \E i \in Ids : Create(i) \/ Advance(i) \/ Accumulate(i)

LSpec == LInit /\ [][LNext]_lvars

=============================================================================

----------------------------- MODULE TradeCycle -----------------------------
(***************************************************************************)
(* What the runner promises of the account: at the broker the trades of an *)
(* instrument follow one another.  An entry is sent only when nothing is   *)
(* held and nothing is at work, an exit only for what is held; an order is *)
(* executed as a whole or ends without an execution, and the execution of  *)
(* an exit leaves nothing.  Reports, snapshots, crashes and reconnects do  *)
(* not appear here.                                                        *)
(*                                                                         *)
(* An instrument is lost once an exit was sent for it that the account did *)
(* not match: nothing more is promised of it.                              *)
(***************************************************************************)
EXTENDS Integers

CONSTANT Instruments

VARIABLES
  stage,   \* "flat", "entering", "held", "exiting" or "lost"
  held     \* the quantity the account holds

cvars == <<stage, held>>

CInit ==
  /\ stage = [s \in Instruments |-> "flat"]
  /\ held = [s \in Instruments |-> 0]

SendEntry(s) ==
  /\ stage[s] = "flat"
  /\ stage' = [stage EXCEPT ![s] = "entering"]
  /\ UNCHANGED held

SendExit(s) ==
  /\ stage[s] = "held"
  /\ stage' = [stage EXCEPT ![s] = "exiting"]
  /\ UNCHANGED held

ExecuteEntry(s) ==
  /\ stage[s] = "entering"
  /\ stage' = [stage EXCEPT ![s] = "held"]
  /\ held' = [held EXCEPT ![s] = held'[s]]
  /\ held'[s] # 0

ExecuteExit(s) ==
  /\ stage[s] = "exiting"
  /\ stage' = [stage EXCEPT ![s] = "flat"]
  /\ held' = [held EXCEPT ![s] = 0]

(* Orders end without an execution: one of them, or at midnight all.       *)
WithoutOrder(current) ==
  CASE current = "entering" -> "flat"
    [] current = "exiting"  -> "held"
    [] OTHER                -> current

EndOrders(ended) ==
  /\ stage' = [s \in Instruments |->
                 IF s \in ended THEN WithoutOrder(stage[s]) ELSE stage[s]]
  /\ UNCHANGED held

Lose(s) ==
  /\ stage' = [stage EXCEPT ![s] = "lost"]
  /\ held' = [held EXCEPT ![s] = 0]

CNext ==
  \/ \E s \in Instruments : \/ SendEntry(s) \/ ExecuteEntry(s)
                            \/ SendExit(s) \/ ExecuteExit(s)
                            \/ EndOrders({s}) \/ Lose(s)
  \/ EndOrders(Instruments)

CSpec == CInit /\ [][CNext]_cvars

=============================================================================

-------------------------- MODULE LiveTradingProps --------------------------
(***************************************************************************)
(* What the runner guarantees across crashes, restarts and reconnects.     *)
(***************************************************************************)
EXTENDS LiveTrading, TradeManagerProps

LiveTypeOK ==
  /\ TypeOK
  /\ phase \in Phases
  /\ todo \subseteq Symbols
  /\ entered \subseteq Symbols
  /\ blocked \subseteq Symbols
  /\ recovery \in [startup : BOOLEAN, uncertain : BOOLEAN,
                   unresolved : BOOLEAN, unknown : SUBSET Symbols]
  /\ saved = <<>> \/ DOMAIN saved = {1}
  /\ savedToday \in BOOLEAN
  /\ date \in 0..LastDate
  /\ today \subseteq OrderIds
  /\ stale \in BOOLEAN
  /\ earlier \subseteq OrderIds
  /\ aged \in BOOLEAN
  /\ misdated \in BOOLEAN
  /\ doubled \subseteq Symbols

(* "unknown broker state remains unmanaged and duplicate entries are       *)
(* blocked": a new entry reaches the broker only for a symbol of which the *)
(* broker holds neither a live order nor a position - whatever was lost in *)
(* a crash, and however often the process was restarted or reconnected.    *)
(* What it rests on: no exit of the symbol was sent twice.  Blocked        *)
(* symbols still get exits, a lost exit is sent again, and the second      *)
(* execution opens a position nobody manages (see the README).             *)
NoDuplicateEntry ==
  [][\A i \in DOMAIN book' \ DOMAIN book :
       LET s == book'[i].symbol IN
       phase = "process" /\ book'[i].intent = "ENTRY" /\ s \notin doubled =>
         BrokerPosition(s) = 0 /\ LiveOrders(s) = {}]_lvars

(* The account seen from the broker: its orders and positions, whatever    *)
(* the process remembers of them, implement TradeCycle - through crashes,  *)
(* restarts, reconnects and midnights the trades of a symbol follow one    *)
(* another, until an exit is sent that did not match the account.          *)
Stage(s) ==
  IF s \in doubled THEN "lost"
  ELSE IF \E i \in LiveOrders(s) : book[i].intent = "ENTRY" THEN "entering"
  ELSE IF LiveOrders(s) # {} THEN "exiting"
  ELSE IF BrokerPosition(s) # 0 THEN "held" ELSE "flat"

Account(s) == IF s \in doubled THEN 0 ELSE BrokerPosition(s)

Cycle ==
  INSTANCE TradeCycle WITH
    Instruments <- Symbols,
    stage       <- [s \in Symbols |-> Stage(s)],
    held        <- [s \in Symbols |-> Account(s)]

BrokerFollowsCycle == Cycle!CSpec

(* Every order of the day AutoTick placed and no longer knows is answered  *)
(* by a blocked symbol before the next entry decision.                     *)
UnknownIsBlocked ==
  phase = "process" /\ raised = "none" =>
    \A i \in UnknownIds :
      book[i].status \in Pending \cup {"FILLED"} => book[i].symbol \in blocked

(* "The first execution of an ENTRY order, partial or full, consumes the    *)
(* daily trade limit": the entry counter covers every entry of today that  *)
(* AutoTick knows of and that executed (it is larger when one was closed   *)
(* and forgotten, never smaller).  An entry it does not know - accepted by *)
(* the broker before a crash that came before the save, or by a write of   *)
(* unknown result - is not counted: its symbol is blocked instead          *)
(* (UnknownIsBlocked).                                                     *)
ExecutionConsumesLimit ==
  risk.trade_count >=
    Cardinality({i \in DOMAIN orders \cap today :
                   orders[i].intent = "ENTRY" /\ orders[i].filled > 0})

(* So it is also after a restart from an older snapshot, unless a process *)
(* started on an earlier date ended today by an exception or an interrupt: *)
(* what it saves then bears the date of its start, and the next start      *)
(* takes the counters of today for those of that day.                      *)
CountCoversKnown == ~misdated => ExecutionConsumesLimit

(* A snapshot never describes a position without exit levels or levels     *)
(* without a position, so a restart always resumes its monitoring.         *)
SnapshotIsProtected ==
  saved # <<>> =>
    \A s \in Symbols : saved[1].positions[s].quantity # 0 <=> s \in saved[1].exit_levels

(* While trading goes on, AutoTick is never wrong about what it holds: a   *)
(* symbol it waits for nothing of is managed with the quantity the account *)
(* holds, whatever crash, recovery or midnight came before - unless its    *)
(* broker state is unknown (blocked) or an exit did not match the account. *)
(* (reconcile_startup: "against provider truth".)                          *)
ManagedIsHeld ==
  phase \in {"top", "updates", "process"} /\ raised = "none" =>
    \A s \in Symbols \ (doubled \cup blocked) :
      PendingOf(s) = {} => positions[s].quantity = BrokerPosition(s)

(* When nothing is left to report or to apply, the managed position is the *)
(* broker's.                                                               *)
Settled(s) ==
  /\ phase = "process" /\ raised = "none"
  /\ Changed = {} /\ UnknownIds = {}
  /\ \A i \in DOMAIN book : book[i].symbol = s => book[i].status \in Terminal

ManagedMatchesBroker ==
  \A s \in Symbols :
    Settled(s) /\ Active(positions[s]) /\ s \notin blocked
      => positions[s].quantity = BrokerPosition(s)
=============================================================================

----------------------------- MODULE ExitLevels -----------------------------
(***************************************************************************)
(* The exit levels of one position, from its first entry fill to its exit: *)
(* monitor_exit() of autotick/engine/trade_manager.py, the level arithmetic*)
(* of risk_manager.py, and the snapshot a restart resumes from.            *)
(*                                                                         *)
(* Positions of different symbols have nothing in common here.  A price is *)
(* a whole number; levels are counted in hundredths of one, so that a      *)
(* percentage of a price is exact (the code rounds as floats do).  Which   *)
(* order reports may arrive, and when, is the subject of TradeManager:     *)
(* here any report about the held position may.                            *)
(***************************************************************************)
EXTENDS Integers

CONSTANTS
  Prices,         \* what a tick or a fill may quote
  Atrs,           \* what AverageTrueRange may return, in hundredths
  None,           \* Python's None
  StopPct,        \* risk.stoploss_pct
  TargetPct,      \* risk.target_pct
  ActivationPct,  \* risk.trailing_activation_pct
  Multiplier      \* risk.trailing_atr_multiplier

(* config/validator.py:252-279                                             *)
ASSUME LevelsAssumption ==
  /\ Prices \subseteq Nat \ {0}
  /\ Atrs \subseteq Nat
  /\ None \notin Int
  /\ StopPct \in 0..100 /\ TargetPct \in 0..100 /\ ActivationPct \in 0..100
  /\ Multiplier \in Nat
  /\ TargetPct = 0 => Multiplier # 0

VARIABLES
  held,      \* direction of the position, "NONE" when its quantity is 0
  status,    \* its PositionStatus
  levels,    \* its _ExitLevels
  saved,     \* the last snapshot
  phase,     \* of the runner: a pass of the loop, its save, a recovery
  reopened,  \* history: was this position opened after the snapshot?
  survived   \* history: the price of the tick the position was kept at, or 0

memory == <<held, status, levels>>
vars == <<held, status, levels, saved, phase, reopened, survived>>

Optional(S) == S \cup {None}

Levels ==
  [stop_loss : Int, target : Int, highest_price : Int,
   trailing_stop : Optional(Int), trailing_atr : Optional(Nat)]

NoLevels ==
  [stop_loss |-> 0, target |-> 0, highest_price |-> 0,
   trailing_stop |-> None, trailing_atr |-> None]

Closed == [held |-> "NONE", status |-> "CLOSED", levels |-> NoLevels]

-----------------------------------------------------------------------------
(* The arithmetic, for either direction.                                   *)

Quote(price) == 100 * price

(* level a is at least as favourable to the position as level b            *)
AtLeast(side, a, b) == IF side = "LONG" THEN a >= b ELSE a <= b

(* a price at or through a protective level                                *)
Hits(side, price, level) == AtLeast(side, level, price)

Better(side, a, b) == IF AtLeast(side, a, b) THEN a ELSE b

StopLoss(price, side) ==
  IF side = "LONG" THEN price * (100 - StopPct) ELSE price * (100 + StopPct)

TrailingEnabled == Multiplier > 0

Target(price, side) ==
  LET pct == IF TrailingEnabled THEN ActivationPct ELSE TargetPct
  IN  IF side = "LONG" THEN price * (100 + pct) ELSE price * (100 - pct)

(* Mutant: the stop of a short position lies below the price.              *)
TrailingStopBelow(best, atr, side) == best - atr * Multiplier

TrailingStop(best, atr, side) ==
  IF side = "LONG" THEN best - atr * Multiplier ELSE best + atr * Multiplier

EntryLevels(price, side) ==
  [stop_loss |-> StopLoss(price, side), target |-> Target(price, side),
   highest_price |-> Quote(price),
   trailing_stop |-> None, trailing_atr |-> None]

Init ==
  /\ held = "NONE" /\ status = "CLOSED" /\ levels = NoLevels
  /\ saved = Closed
  /\ phase = "pass"
  /\ reopened = FALSE
  /\ survived = 0

(* Mutant: only the quantity is reset.                                     *)
CloseQuantity == held' = "NONE" /\ UNCHANGED <<status, levels, reopened>>

Close ==
  /\ held' = "NONE" /\ status' = "CLOSED" /\ levels' = NoLevels
  /\ UNCHANGED reopened

(* The finally clause of _run_providers: an exception that ends the run    *)
(* saves what is in memory.                                                *)
Abort ==
  /\ phase' = "down"
  /\ saved' = [held |-> held', status |-> status', levels |-> levels']

-----------------------------------------------------------------------------
(* Reports of reconcile_orders() and of the recovery.                      *)

Reporting == phase \in {"pass", "recover", "startup"} /\ UNCHANGED <<saved, phase, survived>>

Open(side, price) ==
  /\ held = "NONE"
  /\ held' = side /\ status' = "OPEN"
  /\ levels' = EntryLevels(price, side)
  /\ reopened' = TRUE

EntryFill == Reporting /\ \E side \in {"LONG", "SHORT"}, p \in Prices : Open(side, p)

(* The entry order fills further: update_position() sets the position OPEN *)
(* again, the levels stay those of the first fill.                         *)
EntryFillsFurther ==
  /\ Reporting /\ held # "NONE"
  /\ status' = "OPEN"
  /\ UNCHANGED <<held, levels, reopened>>

ExitFill == Reporting /\ held # "NONE" /\ Close

(* Part of the exit fills: what remains waits for the rest.                *)
ExitFillsPartly ==
  /\ Reporting /\ held # "NONE"
  /\ status' = "EXIT_PENDING"
  /\ UNCHANGED <<held, levels, reopened>>

ExitEnds ==
  /\ Reporting /\ status = "EXIT_PENDING"
  /\ status' = "OPEN"
  /\ UNCHANGED <<held, levels, reopened>>

-----------------------------------------------------------------------------
(* monitor_exit(): one tick of an OPEN position in _process_symbols().     *)

(* _submit_exit: filled at once; waiting; refused, or rejected by Angel One *)
(* (ValueError); a BrokerError; or rejected by the simulated account, which *)
(* returns the order: it is recorded and the pass goes on.  lv are the     *)
(* levels the tick left.                                                   *)
SubmitExit(lv) ==
  /\ survived' = 0
  /\ \/ Close /\ phase' = "save" /\ UNCHANGED saved
     \/ /\ levels' = lv /\ UNCHANGED <<held, reopened>>
        /\ \/ status' = "EXIT_PENDING" /\ phase' = "save" /\ UNCHANGED saved
           \/ status' = status /\ Abort
           \/ status' = status /\ phase' \in {"recover", "save"} /\ UNCHANGED saved

Keep(price, lv) ==
  /\ survived' = price
  /\ levels' = lv
  /\ phase' = "save"
  /\ UNCHANGED <<held, status, saved, reopened>>

Monitored == phase = "pass" /\ status = "OPEN"
StopHit(price) == Hits(held, Quote(price), levels.stop_loss)
Trailing == levels.trailing_stop # None
TargetReached(price) == AtLeast(held, Quote(price), levels.target)

TickHitsStop(price) == Monitored /\ StopHit(price) /\ SubmitExit(levels)

(* Mutant: the trailing stop follows every tick.                           *)
MovesBoth(price) ==
  [levels EXCEPT !.trailing_stop = TrailingStop(Quote(price), levels.trailing_atr, held)]

(* The levels after a tick that trails.                                    *)
Moved(price) ==
  IF AtLeast(held, levels.highest_price, Quote(price)) THEN levels
  ELSE [levels EXCEPT
          !.highest_price = Quote(price),
          !.trailing_stop =
             IF levels.trailing_atr = None THEN @
             ELSE Better(held, @, TrailingStop(Quote(price), levels.trailing_atr, held))]

TickTrails(price) ==
  /\ Monitored /\ ~StopHit(price) /\ Trailing
  /\ LET lv == Moved(price) IN
       IF Hits(held, Quote(price), lv.trailing_stop)
       THEN SubmitExit(lv) ELSE Keep(price, lv)

(* Mutant: the trailing stop may start beyond the stop loss.               *)
ActivatedAnywhere(price, atr) ==
  LET best == Better(held, levels.highest_price, Quote(price))
  IN  [levels EXCEPT !.highest_price = best, !.trailing_atr = atr,
                     !.trailing_stop = TrailingStop(best, atr, held)]

Activated(price, atr) ==
  LET best == Better(held, levels.highest_price, Quote(price))
  IN  [levels EXCEPT !.highest_price = best, !.trailing_atr = atr,
         !.trailing_stop =
            Better(held, levels.stop_loss, TrailingStop(best, atr, held))]

(* The first tick at the target starts the trailing stop.  An ATR of 0     *)
(* raises ValueError, with the best price and the ATR already set.  The    *)
(* tick is not compared with the new stop, which it can only have passed   *)
(* already where a start that failed left a better price.                  *)
TickActivates(price, atr) ==
  /\ Monitored /\ ~StopHit(price) /\ ~Trailing
  /\ TargetReached(price) /\ TrailingEnabled
  /\ \/ /\ atr > 0
        /\ LET lv == Activated(price, atr) IN
             Keep(IF lv.highest_price = Quote(price) THEN price ELSE 0, lv)
     \/ /\ atr = 0
        /\ levels' = [Activated(price, atr) EXCEPT !.trailing_stop = None]
        /\ survived' = 0
        /\ UNCHANGED <<held, status, reopened>>
        /\ Abort

(* Without trailing, or without an ATR, the target is an exit - when there *)
(* is a target.                                                            *)
TickHitsTarget(price) ==
  /\ Monitored /\ ~StopHit(price) /\ ~Trailing /\ TargetReached(price)
  /\ IF TrailingEnabled /\ TargetPct = 0
     THEN Keep(price, levels) ELSE SubmitExit(levels)

TickPasses(price) ==
  /\ Monitored /\ ~StopHit(price) /\ ~Trailing /\ ~TargetReached(price)
  /\ Keep(price, levels)

Tick ==
  \E p \in Prices :
    \/ TickHitsStop(p)
    \/ TickTrails(p)
    \/ \E atr \in Atrs : TickActivates(p, atr)
    \/ TickHitsTarget(p)
    \/ TickPasses(p)

(* square_off_intraday() and exit_for_expiry() ask no level.               *)
TimedExit == Monitored /\ SubmitExit(levels)

(* An entry that is filled when place_order() returns.                     *)
ProcessEntry ==
  /\ phase = "pass" /\ phase' = "save" /\ survived' = 0
  /\ \E side \in {"LONG", "SHORT"}, p \in Prices : Open(side, p)
  /\ UNCHANGED saved

(* No tick, no position, or one whose exit is pending.                     *)
NothingToMonitor ==
  /\ phase = "pass" /\ phase' = "save" /\ survived' = 0
  /\ UNCHANGED <<memory, saved, reopened>>

-----------------------------------------------------------------------------
(* The end of a pass, and what interrupts it.                              *)

Save ==
  /\ phase = "save" /\ phase' = "pass"
  /\ \/ /\ saved' = [held |-> held, status |-> status, levels |-> levels]
        /\ reopened' = FALSE
     \/ UNCHANGED <<saved, reopened>>       \* PersistenceError
  /\ UNCHANGED <<memory, survived>>

(* reconcile_startup(): a position the broker no longer holds is closed.   *)
(* After a reconnect the result is saved at once, at startup with the next *)
(* pass.                                                                   *)
Reconcile ==
  /\ \/ phase = "recover" /\ phase' = "save"
     \/ phase = "startup" /\ phase' = "pass"
  /\ survived' = 0
  /\ \/ held # "NONE" /\ Close
     \/ UNCHANGED <<memory, reopened>>
  /\ UNCHANGED saved

(* A BrokerError of any other call of the pass.                            *)
BrokerFailure ==
  /\ phase = "pass" /\ phase' = "recover"
  /\ UNCHANGED <<memory, saved, reopened, survived>>

(* Stop requests, market close, and exceptions of any other call.  During  *)
(* startup the last snapshot stays, as in a Crash.                         *)
Shutdown ==
  /\ phase \notin {"down", "startup"}
  /\ UNCHANGED <<memory, reopened, survived>>
  /\ Abort

Crash ==
  /\ phase # "down" /\ phase' = "down"
  /\ UNCHANGED <<memory, saved, reopened, survived>>

(* Mutant: a restart starts trailing anew.                                 *)
WithoutTrailing == [saved.levels EXCEPT !.trailing_stop = None, !.trailing_atr = None]

RestoredLevels == saved.levels

Restart ==
  /\ phase = "down" /\ phase' = "startup"
  /\ held' = saved.held /\ status' = saved.status /\ levels' = RestoredLevels
  /\ reopened' = FALSE
  /\ survived' = 0
  /\ UNCHANGED saved

Next ==
  \/ EntryFill \/ EntryFillsFurther
  \/ ExitFill \/ ExitFillsPartly \/ ExitEnds
  \/ Tick \/ TimedExit \/ ProcessEntry \/ NothingToMonitor
  \/ Save \/ Reconcile \/ BrokerFailure \/ Shutdown \/ Crash \/ Restart

Spec == Init /\ [][Next]_vars

=============================================================================

-------------------------- MODULE ExitLevelsProps ---------------------------
(***************************************************************************)
(* What the exit levels guarantee to the owner of a position.              *)
(***************************************************************************)
EXTENDS ExitLevels

Snapshot ==
  [held : {"NONE", "LONG", "SHORT"}, status : {"OPEN", "EXIT_PENDING", "CLOSED"},
   levels : Levels]

(* The variables have their types, and a position is CLOSED exactly when   *)
(* it holds nothing, in memory and in the snapshot.                        *)
LevelsTypeOK ==
  /\ [held |-> held, status |-> status, levels |-> levels] \in Snapshot
  /\ saved \in Snapshot
  /\ phase \in {"pass", "save", "recover", "startup", "down"}
  /\ reopened \in BOOLEAN
  /\ survived \in Nat
  /\ held = "NONE" <=> status = "CLOSED"
  /\ saved.held = "NONE" <=> saved.status = "CLOSED"

(* A trailing stop is exactly the better of the stop loss and the distance *)
(* of its ATR from the best price, which has reached the target: whatever  *)
(* the order of ticks, exits that came to nothing and restarts.            *)
Follows(side, lv) ==
  lv.trailing_stop # None =>
    /\ lv.trailing_atr # None
    /\ lv.trailing_atr > 0
    /\ AtLeast(side, lv.highest_price, lv.target)
    /\ lv.trailing_stop =
         Better(side, lv.stop_loss, TrailingStop(lv.highest_price, lv.trailing_atr, side))

TrailingFollowsBest == Follows(held, levels)

(* Level lv protects a position at least as well as level old.             *)
AsTight(side, lv, old) ==
  /\ lv.stop_loss = old.stop_loss
  /\ AtLeast(side, lv.highest_price, old.highest_price)
  /\ old.trailing_stop # None =>
       /\ lv.trailing_stop # None
       /\ AtLeast(side, lv.trailing_stop, old.trailing_stop)

(* No step of a running program moves the protection of a held position    *)
(* away from the price, or forgets its trailing stop.                      *)
ProtectionOnlyTightens ==
  [][phase # "down" /\ held # "NONE" /\ held' # "NONE" => AsTight(held, levels', levels)]_vars

(* What a restart gives up is bounded by what was gained since the last    *)
(* snapshot: the snapshot of the same position is never tighter, and it is *)
(* a snapshot of this position unless it was opened later.                 *)
SnapshotNeverTighter ==
  held # "NONE" /\ ~reopened => saved.held = held /\ AsTight(held, levels, saved.levels)

(* "Submit an exit when fixed or trailing protection is hit": a tick after *)
(* which monitor_exit() lets the position run on is not at or through the  *)
(* stop loss or the trailing stop - as the same tick has moved it - nor at *)
(* a target that nothing but an exit answers.                              *)
Inside(side, price, lv) ==
  /\ ~Hits(side, Quote(price), lv.stop_loss)
  /\ lv.trailing_stop # None => ~Hits(side, Quote(price), lv.trailing_stop)
  /\ lv.trailing_stop = None /\ AtLeast(side, Quote(price), lv.target)
       => TrailingEnabled /\ TargetPct = 0

NoHitSurvives ==
  phase = "save" /\ survived # 0 /\ held # "NONE" => Inside(held, survived, levels)
=============================================================================

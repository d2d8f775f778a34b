-------------------------- MODULE ExitLevelsProofs --------------------------
(***************************************************************************)
(* Proofs about ExitLevels for every value of its constants.               *)
(*                                                                         *)
(* Order is all the arithmetic there is: the product of ATR and multiplier *)
(* is some integer, so that TrailingStop keeps the order of its first      *)
(* argument (TrailingStopOrder); the rest is about maxima.                 *)
(***************************************************************************)
EXTENDS ExitLevelsProps, TLAPS

Sides == {"LONG", "SHORT"}

(* SnapshotNeverTighter relates memory and snapshot; a restart puts the    *)
(* snapshot into memory, so what is said of memory must hold of both.      *)
LInv ==
  /\ LevelsTypeOK
  /\ TrailingFollowsBest
  /\ Follows(saved.held, saved.levels)
  /\ SnapshotNeverTighter

-----------------------------------------------------------------------------
(* The arithmetic.                                                         *)

(* A trailing stop is an integer, and moves with the best price.           *)
LEMMA TrailingStopOrder ==
  ASSUME NEW side, NEW atr \in Nat, NEW a \in Int, NEW b \in Int
  PROVE  /\ TrailingStop(a, atr, side) \in Int
         /\ AtLeast(side, a, b) =>
              AtLeast(side, TrailingStop(a, atr, side), TrailingStop(b, atr, side))
<1> DEFINE gap == atr * Multiplier
<1>1. gap \in Int
  BY LevelsAssumption
<1> HIDE DEF gap
<1>2. TrailingStop(a, atr, side) = IF side = "LONG" THEN a - gap ELSE a + gap
  BY DEF TrailingStop, gap
<1>3. TrailingStop(b, atr, side) = IF side = "LONG" THEN b - gap ELSE b + gap
  BY DEF TrailingStop, gap
<1>4. QED
  BY <1>1, <1>2, <1>3 DEF AtLeast

(* A price counted in hundredths is an integer.                            *)
LEMMA QuoteType == ASSUME NEW p \in Prices PROVE Quote(p) \in Int
BY LevelsAssumption DEF Quote

(* The levels of a new position are levels.                                *)
LEMMA EntryLevelsType ==
  ASSUME NEW p \in Prices, NEW side
  PROVE  EntryLevels(p, side) \in Levels /\ EntryLevels(p, side).trailing_stop = None
<1>1. p \in Int /\ StopPct \in Int /\ TargetPct \in Int /\ ActivationPct \in Int
  BY LevelsAssumption
<1>2. StopLoss(p, side) \in Int
  BY <1>1 DEF StopLoss
<1>3. Target(p, side) \in Int
  BY <1>1 DEF Target
<1>4. QED
  BY <1>2, <1>3, QuoteType DEF EntryLevels, Levels, Optional

-----------------------------------------------------------------------------
(* What one tick makes of the levels.                                      *)

(* Moving the trailing stop keeps its relation to the best price, and only *)
(* tightens it.                                                            *)
LEMMA MovedTightens ==
  ASSUME levels \in Levels, Follows(held, levels), Trailing, NEW p \in Prices
  PROVE  /\ Moved(p) \in Levels
         /\ Follows(held, Moved(p))
         /\ AsTight(held, Moved(p), levels)
<1> DEFINE q == Quote(p)
           atr == levels.trailing_atr
           here == TrailingStop(q, atr, held)
           before == TrailingStop(levels.highest_price, atr, held)
<1>1. /\ q \in Int /\ atr \in Nat /\ atr > 0 /\ atr # None
      /\ levels.highest_price \in Int /\ levels.stop_loss \in Int
      /\ levels.target \in Int /\ levels.trailing_stop \in Int
      /\ AtLeast(held, levels.highest_price, levels.target)
      /\ levels.trailing_stop = Better(held, levels.stop_loss, before)
  BY QuoteType, LevelsAssumption DEF Levels, Optional, Follows, Trailing
<1>2. here \in Int /\ before \in Int
  BY <1>1, TrailingStopOrder
<1>3. AtLeast(held, q, levels.highest_price) => AtLeast(held, here, before)
  BY <1>1, TrailingStopOrder
<1>4. CASE AtLeast(held, levels.highest_price, q)
  BY <1>1, <1>4 DEF Moved, AsTight, AtLeast
<1>5. CASE ~AtLeast(held, levels.highest_price, q)
  <2>1. AtLeast(held, q, levels.highest_price) /\ AtLeast(held, q, levels.target)
    BY <1>1, <1>5 DEF AtLeast
  <2>2. Moved(p) = [levels EXCEPT !.highest_price = q,
                      !.trailing_stop = Better(held, levels.trailing_stop, here)]
    BY <1>1, <1>5 DEF Moved
  <2>3. /\ Better(held, levels.trailing_stop, here) \in Int
        /\ Better(held, levels.trailing_stop, here) = Better(held, levels.stop_loss, here)
        /\ AtLeast(held, Better(held, levels.trailing_stop, here), levels.trailing_stop)
    BY <1>1, <1>2, <1>3, <2>1 DEF Better, AtLeast
  <2> HIDE DEF q, here
  <2>4. /\ Moved(p) \in Levels
        /\ Moved(p).highest_price = q /\ Moved(p).trailing_atr = atr
        /\ Moved(p).stop_loss = levels.stop_loss /\ Moved(p).target = levels.target
        /\ Moved(p).trailing_stop = Better(held, levels.trailing_stop, here)
    BY <1>1, <2>2, <2>3 DEF Levels, Optional
  <2>5. Follows(held, Moved(p))
    BY <1>1, <2>1, <2>3, <2>4 DEF Follows, here
  <2>6. AsTight(held, Moved(p), levels)
    BY <1>1, <2>1, <2>3, <2>4, LevelsAssumption DEF AsTight
  <2>7. QED
    BY <2>4, <2>5, <2>6
<1>6. QED
  BY <1>4, <1>5

(* Starting the trailing stop at the target establishes that relation, and *)
(* so does the start that fails on an ATR of 0 (it starts nothing).        *)
LEMMA ActivatedTightens ==
  ASSUME levels \in Levels, ~Trailing, NEW p \in Prices, NEW atr \in Atrs,
         TargetReached(p)
  PROVE  LET failed == [Activated(p, atr) EXCEPT !.trailing_stop = None] IN
         /\ Activated(p, atr) \in Levels /\ failed \in Levels
         /\ atr > 0 => Follows(held, Activated(p, atr))
         /\ Follows(held, failed)
         /\ AsTight(held, Activated(p, atr), levels)
         /\ AsTight(held, failed, levels)
<1> DEFINE q == Quote(p)
           best == Better(held, levels.highest_price, q)
           stop == TrailingStop(best, atr, held)
           start == Better(held, levels.stop_loss, stop)
<1>1. /\ q \in Int /\ atr \in Nat /\ atr # None
      /\ levels.highest_price \in Int /\ levels.stop_loss \in Int
      /\ levels.target \in Int /\ levels.trailing_stop = None
      /\ AtLeast(held, q, levels.target)
  BY QuoteType, LevelsAssumption DEF Levels, Trailing, TargetReached
<1>2. /\ best \in Int
      /\ AtLeast(held, best, levels.highest_price)
      /\ AtLeast(held, best, levels.target)
  BY <1>1 DEF Better, AtLeast
<1>3. stop \in Int
  BY <1>1, <1>2, TrailingStopOrder
<1>4. start \in Int
  BY <1>1, <1>3 DEF Better
<1> DEFINE lv == Activated(p, atr)
           failed == [lv EXCEPT !.trailing_stop = None]
<1>5. lv = [levels EXCEPT !.highest_price = best, !.trailing_atr = atr,
                          !.trailing_stop = start]
  BY DEF Activated
<1> HIDE DEF lv, best, start
<1>6. /\ lv \in Levels /\ lv.highest_price = best /\ lv.trailing_atr = atr
      /\ lv.trailing_stop = start /\ lv.stop_loss = levels.stop_loss
      /\ lv.target = levels.target
  BY <1>1, <1>2, <1>4, <1>5 DEF Levels, Optional
<1>7. /\ failed \in Levels /\ failed.highest_price = best
      /\ failed.trailing_stop = None /\ failed.stop_loss = levels.stop_loss
  BY <1>6 DEF Levels, Optional
<1>8. atr > 0 => Follows(held, lv)
  BY <1>1, <1>2, <1>6 DEF Follows, start
<1>9. Follows(held, failed) /\ AsTight(held, failed, levels)
  BY <1>1, <1>2, <1>7 DEF Follows, AsTight
<1>10. AsTight(held, lv, levels)
  BY <1>1, <1>2, <1>6 DEF AsTight
<1>11. QED
  BY <1>6, <1>7, <1>8, <1>9, <1>10 DEF lv

(* Protection that only tightens does so over any number of steps.         *)
LEMMA AsTightTransitive ==
  ASSUME NEW side, NEW a \in Levels, NEW b \in Levels, NEW c \in Levels,
         AsTight(side, a, b), AsTight(side, b, c)
  PROVE  AsTight(side, a, c)
BY LevelsAssumption DEF AsTight, AtLeast, Levels, Optional

(* Every set of levels is as tight as itself.                              *)
LEMMA AsTightReflexive ==
  ASSUME NEW side, NEW a \in Levels
  PROVE  AsTight(side, a, a)
BY LevelsAssumption DEF AsTight, AtLeast, Levels, Optional

-----------------------------------------------------------------------------
(* What one step does to the protection.                                   *)

(* The same position goes on, protected at least as well.                  *)
Tightens ==
  held' = held /\ levels' \in Levels /\ Follows(held, levels') /\ AsTight(held, levels', levels)

Opens ==
  /\ held = "NONE" /\ held' \in Sides /\ reopened' = TRUE
  /\ levels' \in Levels /\ levels'.trailing_stop = None

Closes == held' = "NONE" /\ levels' = NoLevels

Resumes == phase = "down" /\ held' = saved.held /\ levels' = saved.levels

Snapshots == saved' = [held |-> held', status |-> status', levels |-> levels']

(* Every step opens, tightens, closes or resumes; and it takes a snapshot  *)
(* or leaves the last one.                                                 *)
StepOK ==
  /\ LevelsTypeOK'
  /\ Tightens \/ Opens \/ Closes \/ Resumes
  /\ \/ Snapshots
     \/ saved' = saved /\ (reopened' = reopened \/ Opens \/ Closes \/ Resumes)

LEMMA NoLevelsType == NoLevels \in Levels /\ \A side : Follows(side, NoLevels)
BY DEF NoLevels, Levels, Optional, Follows

(* An exit that closes the position, waits for it or comes to nothing.     *)
LEMMA SubmitExitStep ==
  ASSUME LInv, NEW lv \in Levels, Follows(held, lv), AsTight(held, lv, levels),
         status = "OPEN", SubmitExit(lv)
  PROVE  StepOK
<1>1. CASE Close /\ phase' = "save" /\ UNCHANGED saved
  BY <1>1, NoLevelsType
  DEF LInv, LevelsTypeOK, Snapshot, SubmitExit, Close, StepOK, Closes
<1>2. CASE levels' = lv /\ UNCHANGED <<held, reopened>> /\ ~Close
  BY <1>2 DEF LInv, LevelsTypeOK, Snapshot, SubmitExit, Close, Abort, StepOK, Tightens, Snapshots
<1>3. QED
  BY <1>1, <1>2 DEF SubmitExit, Close, LInv, LevelsTypeOK, Snapshot, StepOK, Tightens, Snapshots, Abort

(* A tick that leaves the position open.                                   *)
LEMMA KeepStep ==
  ASSUME LInv, NEW lv \in Levels, Follows(held, lv), AsTight(held, lv, levels),
         NEW p \in Nat, Keep(p, lv)
  PROVE  StepOK
BY DEF LInv, LevelsTypeOK, Snapshot, Keep, StepOK, Tightens

(* The levels a tick finds are those it may leave.                         *)
LEMMA AsBefore ==
  ASSUME LInv
  PROVE  levels \in Levels /\ Follows(held, levels) /\ AsTight(held, levels, levels)
BY AsTightReflexive DEF LInv, LevelsTypeOK, Snapshot, TrailingFollowsBest

(* Every tick.                                                             *)
LEMMA TickStep ==
  ASSUME LInv, Tick
  PROVE  StepOK
<1>1. PICK p \in Prices : \/ TickHitsStop(p) \/ TickTrails(p)
                          \/ \E atr \in Atrs : TickActivates(p, atr)
                          \/ TickHitsTarget(p) \/ TickPasses(p)
  BY DEF Tick
<1>2. p \in Nat /\ 0 \in Nat
  BY LevelsAssumption
<1>3. CASE TickHitsStop(p)
  BY <1>3, AsBefore, SubmitExitStep DEF TickHitsStop, Monitored
<1>4. CASE TickTrails(p)
  <2>1. /\ Moved(p) \in Levels /\ Follows(held, Moved(p))
        /\ AsTight(held, Moved(p), levels)
    BY <1>4, AsBefore, MovedTightens DEF TickTrails
  <2>2. SubmitExit(Moved(p)) \/ Keep(p, Moved(p))
    BY <1>4 DEF TickTrails
  <2>3. QED
    BY <1>2, <1>4, <2>1, <2>2, SubmitExitStep, KeepStep DEF TickTrails, Monitored
<1>5. CASE \E atr \in Atrs : TickActivates(p, atr)
  <2>1. PICK atr \in Atrs : TickActivates(p, atr)
    BY <1>5
  <2> DEFINE lv == Activated(p, atr)
             failed == [lv EXCEPT !.trailing_stop = None]
  <2>2. /\ lv \in Levels /\ failed \in Levels
        /\ atr > 0 => Follows(held, lv)
        /\ Follows(held, failed)
        /\ AsTight(held, lv, levels) /\ AsTight(held, failed, levels)
    BY <2>1, AsBefore, ActivatedTightens DEF TickActivates
  <2> HIDE DEF lv
  <2>3. CASE /\ atr > 0
             /\ Keep(IF lv.highest_price = Quote(p) THEN p ELSE 0, lv)
    BY <1>2, <2>2, <2>3, KeepStep
  <2>4. CASE /\ levels' = failed /\ survived' = 0
             /\ UNCHANGED <<held, status, reopened>> /\ Abort
    <3> HIDE DEF failed
    <3>1. QED
      BY <2>2, <2>4
      DEF LInv, LevelsTypeOK, Snapshot, Abort, StepOK, Tightens, Snapshots
  <2>5. QED
    BY <2>1, <2>3, <2>4 DEF TickActivates, lv
<1>6. CASE TickHitsTarget(p)
  <2>1. SubmitExit(levels) \/ Keep(p, levels)
    BY <1>6 DEF TickHitsTarget
  <2>2. QED
    BY <1>2, <1>6, <2>1, AsBefore, SubmitExitStep, KeepStep DEF TickHitsTarget, Monitored
<1>7. CASE TickPasses(p)
  BY <1>2, <1>7, AsBefore, KeepStep DEF TickPasses
<1>8. QED
  BY <1>1, <1>3, <1>4, <1>5, <1>6, <1>7

(* Every step.                                                             *)
LEMMA NextStep ==
  ASSUME LInv, Next
  PROVE  StepOK
<1> USE DEF LInv, LevelsTypeOK, Snapshot, StepOK
<1>1. /\ levels \in Levels /\ Follows(held, levels)
      /\ AsTight(held, levels, levels)
  BY AsBefore
<1>2. ASSUME NEW side \in Sides, NEW p \in Prices, Open(side, p)
      PROVE  Opens /\ status' = "OPEN"
  BY <1>2, EntryLevelsType DEF Open, Opens, Sides
<1>3. CASE EntryFill
  BY <1>2, <1>3 DEF EntryFill, Reporting, Sides, Opens
<1>4. CASE EntryFillsFurther
  BY <1>1, <1>4 DEF EntryFillsFurther, Reporting, Tightens
<1>5. CASE ExitFill
  BY <1>5, NoLevelsType DEF ExitFill, Reporting, Close, Closes
<1>6. CASE ExitFillsPartly
  BY <1>1, <1>6 DEF ExitFillsPartly, Reporting, Tightens
<1>7. CASE ExitEnds
  BY <1>1, <1>7 DEF ExitEnds, Reporting, Tightens
<1>8. CASE Tick
  BY <1>8, TickStep
<1>9. CASE TimedExit
  BY <1>1, <1>9, SubmitExitStep DEF TimedExit, Monitored
<1>10. CASE ProcessEntry
  BY <1>2, <1>10 DEF ProcessEntry, Sides, Opens
<1>11. CASE NothingToMonitor
  BY <1>1, <1>11 DEF NothingToMonitor, memory, Tightens
<1>12. CASE Save
  BY <1>1, <1>12 DEF Save, memory, Tightens, Snapshots
<1>13. CASE Reconcile
  BY <1>1, <1>13, NoLevelsType DEF Reconcile, memory, Tightens, Close, Closes
<1>14. CASE BrokerFailure
  BY <1>1, <1>14 DEF BrokerFailure, memory, Tightens
<1>15. CASE Shutdown
  BY <1>1, <1>15 DEF Shutdown, Abort, memory, Tightens, Snapshots
<1>16. CASE Crash
  BY <1>1, <1>16 DEF Crash, memory, Tightens
<1>17. CASE Restart
  BY <1>17 DEF Restart, RestoredLevels, Resumes
<1>18. QED
  BY <1>3, <1>4, <1>5, <1>6, <1>7, <1>8, <1>9, <1>10, <1>11, <1>12, <1>13,
     <1>14, <1>15, <1>16, <1>17 DEF Next

-----------------------------------------------------------------------------
(* The theorems.                                                           *)

(* LInv is inductive.                                                      *)
LEMMA LInvKept ==
  ASSUME LInv, [Next]_vars
  PROVE  LInv'
<1>1. CASE UNCHANGED vars
  BY <1>1
  DEF LInv, vars, LevelsTypeOK, TrailingFollowsBest, SnapshotNeverTighter, Follows,
      TrailingStop, AtLeast, Better, AsTight
<1>2. CASE Next
  <2>1. StepOK /\ LevelsTypeOK'
    BY <1>2, NextStep DEF StepOK
  <2>2. /\ levels \in Levels /\ levels' \in Levels /\ saved.levels \in Levels
        /\ saved'.levels \in Levels
    BY <2>1 DEF LInv, LevelsTypeOK, Snapshot
  <2>3. Follows(held', levels')
    BY <2>1, NoLevelsType DEF StepOK, Tightens, Opens, Closes, Resumes, LInv, Follows
  <2>4. Follows(saved'.held, saved'.levels)
    BY <2>1, <2>3 DEF StepOK, Snapshots, LInv
  <2>5. ASSUME held' # "NONE", ~reopened'
        PROVE  saved'.held = held' /\ AsTight(held', levels', saved'.levels)
    <3>1. CASE Snapshots
      BY <2>2, <3>1, AsTightReflexive DEF Snapshots
    <3>2. CASE saved' = saved /\ Resumes
      BY <2>2, <3>2, AsTightReflexive DEF Resumes
    <3>3. CASE saved' = saved /\ reopened' = reopened /\ Tightens
      <4>1. saved.held = held /\ AsTight(held, levels, saved.levels)
        BY <2>5, <3>3 DEF LInv, SnapshotNeverTighter, Tightens
      <4>2. QED
        BY <2>2, <3>3, <4>1, AsTightTransitive DEF Tightens
    <3>4. QED
      BY <2>1, <2>5, <3>1, <3>2, <3>3 DEF StepOK, Opens, Closes
  <2>6. TrailingFollowsBest' /\ SnapshotNeverTighter'
    BY <2>3, <2>5
    DEF TrailingFollowsBest, SnapshotNeverTighter, Follows, AsTight, TrailingStop, AtLeast, Better
  <2>7. QED
    BY <2>1, <2>4, <2>6 DEF LInv, Follows, TrailingStop, AtLeast, Better
<1>3. QED
  BY <1>1, <1>2

(* It holds at first, when nothing is held and nothing was saved.          *)
LEMMA LInvAtFirst == Init => LInv
<1> SUFFICES ASSUME Init PROVE LInv
  OBVIOUS
<1>1. /\ held = "NONE" /\ status = "CLOSED" /\ levels = NoLevels
      /\ saved.held = "NONE" /\ saved.status = "CLOSED" /\ saved.levels = NoLevels
      /\ saved \in Snapshot
  BY NoLevelsType DEF Init, Closed, Snapshot
<1>2. LevelsTypeOK
  BY <1>1, NoLevelsType DEF Init, LevelsTypeOK, Snapshot
<1>3. QED
  BY <1>1, <1>2, NoLevelsType DEF LInv, TrailingFollowsBest, SnapshotNeverTighter

LEMMA LInvAlways == Spec => []LInv
<1>1. LInv /\ [Next]_vars => LInv'
  BY LInvKept
<1>2. QED
  BY <1>1, LInvAtFirst, PTL DEF Spec

(* Every variable keeps its type, and a position is CLOSED exactly when it *)
(* holds nothing, in memory and in the snapshot.                           *)
THEOREM LevelsTypeAlways == Spec => []LevelsTypeOK
<1>1. LInv => LevelsTypeOK
  BY DEF LInv
<1>2. QED
  BY <1>1, LInvAlways, PTL

(* In every behaviour the trailing stop is the better of the stop loss and *)
(* its distance from the best price: what monitor_exit() maintains over    *)
(* ticks, exits that come to nothing, and restarts.                        *)
THEOREM TrailingAlways == Spec => []TrailingFollowsBest
<1>1. LInv => TrailingFollowsBest
  BY DEF LInv
<1>2. QED
  BY <1>1, LInvAlways, PTL

(* A snapshot of the position is never tighter than memory, so a restart   *)
(* never answers a price that the running program would have let pass.     *)
THEOREM SnapshotAlways == Spec => []SnapshotNeverTighter
<1>1. LInv => SnapshotNeverTighter
  BY DEF LInv
<1>2. QED
  BY <1>1, LInvAlways, PTL

(* No step of a running program moves the protection of a position away    *)
(* from the price (monitor_exit(), the fills, and the saving of state).    *)
THEOREM NeverLoosens == Spec => ProtectionOnlyTightens
<1> DEFINE Step == phase # "down" /\ held # "NONE" /\ held' # "NONE"
                     => AsTight(held, levels', levels)
<1>1. LInv /\ [Next]_vars => LInv'
  BY LInvKept
<1>2. LInv /\ [Next]_vars => [Step]_vars
  BY NextStep DEF StepOK, Tightens, Opens, Closes, Resumes
<1> HIDE DEF Step
<1>3. Spec => [][Step]_vars
  BY <1>1, <1>2, LInvAtFirst, PTL DEF Spec
<1>4. QED
  BY <1>3, PTL DEF ProtectionOnlyTightens, Step

-----------------------------------------------------------------------------
(* Ticks that let a position run on.                                       *)

(* Where trailing starts at the tick that is its best price, the stop lies *)
(* on the right side of that tick.                                         *)
LEMMA StartIsInside ==
  ASSUME levels \in Levels, NEW p \in Prices, NEW atr \in Atrs, atr > 0,
         TrailingEnabled, ~StopHit(p), Activated(p, atr).highest_price = Quote(p)
  PROVE  Inside(held, p, Activated(p, atr))
<1> DEFINE q == Quote(p)
           gap == atr * Multiplier
           best == Better(held, levels.highest_price, q)
           stop == TrailingStop(best, atr, held)
<1>1. atr \in Nat /\ Multiplier \in Nat /\ atr > 0 /\ Multiplier > 0
  BY LevelsAssumption DEF TrailingEnabled
<1>2. gap \in Int /\ gap > 0
  BY <1>1
<1>3. q \in Int /\ levels.stop_loss \in Int
  BY QuoteType DEF Levels
<1>4. /\ best = q
      /\ Activated(p, atr).stop_loss = levels.stop_loss
      /\ Activated(p, atr).trailing_stop = Better(held, levels.stop_loss, stop)
  BY DEF Activated, Levels
<1>5. stop = IF held = "LONG" THEN q - gap ELSE q + gap
  BY <1>4 DEF TrailingStop
<1> HIDE DEF gap, stop, q
<1>6. /\ ~Hits(held, q, levels.stop_loss)
      /\ ~Hits(held, q, Better(held, levels.stop_loss, stop))
  BY <1>2, <1>3, <1>5 DEF StopHit, Hits, AtLeast, Better, q
<1>7. Better(held, levels.stop_loss, stop) # None
  BY <1>2, <1>3, <1>5, LevelsAssumption DEF Better
<1>8. QED
  BY <1>4, <1>6, <1>7 DEF Inside, q

(* A tick that lets the position run on does so inside its levels.         *)
LEMMA TickKeepsInside ==
  ASSUME LInv, Tick, phase' = "save", survived' # 0, held' # "NONE"
  PROVE  Inside(held', survived', levels')
<1>1. PICK p \in Prices : \/ TickHitsStop(p) \/ TickTrails(p)
                          \/ \E atr \in Atrs : TickActivates(p, atr)
                          \/ TickHitsTarget(p) \/ TickPasses(p)
  BY DEF Tick
<1>2. CASE TickHitsStop(p)
  BY <1>2 DEF TickHitsStop, SubmitExit
<1>3. CASE TickTrails(p)
  <2>1. Moved(p).trailing_stop # None /\ Moved(p).stop_loss = levels.stop_loss
    BY <1>3, AsBefore, MovedTightens DEF TickTrails, AsTight, Trailing
  <2>2. ~Hits(held, Quote(p), Moved(p).trailing_stop) /\ Keep(p, Moved(p))
    BY <1>3 DEF TickTrails, SubmitExit
  <2>3. QED
    BY <1>3, <2>1, <2>2 DEF TickTrails, StopHit, Keep, Inside
<1>4. CASE \E atr \in Atrs : TickActivates(p, atr)
  <2>1. PICK atr \in Atrs : TickActivates(p, atr)
    BY <1>4
  <2>2. /\ atr > 0 /\ Activated(p, atr).highest_price = Quote(p)
        /\ Keep(p, Activated(p, atr))
    BY <2>1 DEF TickActivates, Keep
  <2>3. Inside(held, p, Activated(p, atr))
    BY <2>1, <2>2, AsBefore, StartIsInside DEF TickActivates
  <2>4. QED
    BY <2>2, <2>3 DEF Keep, Inside
<1>5. CASE TickHitsTarget(p)
  <2>1. TrailingEnabled /\ TargetPct = 0 /\ Keep(p, levels)
    BY <1>5 DEF TickHitsTarget, SubmitExit
  <2>2. QED
    BY <1>5, <2>1 DEF TickHitsTarget, StopHit, Trailing, Keep, Inside
<1>6. CASE TickPasses(p)
  BY <1>6 DEF TickPasses, StopHit, Trailing, TargetReached, Keep, Inside
<1>7. QED
  BY <1>1, <1>2, <1>3, <1>4, <1>5, <1>6

(* monitor_exit() never lets a position run on at a tick that hits its     *)
(* stop loss, its trailing stop or a target that calls for an exit.        *)
THEOREM HitsAreAnswered == Spec => []NoHitSurvives
<1>1. Init => NoHitSurvives
  BY DEF Init, NoHitSurvives
<1>2. LInv /\ NoHitSurvives /\ [Next]_vars => NoHitSurvives'
  <2> SUFFICES ASSUME LInv, NoHitSurvives, [Next]_vars PROVE NoHitSurvives'
    OBVIOUS
  <2>1. CASE UNCHANGED vars
    BY <2>1 DEF vars, NoHitSurvives, Inside, Hits, AtLeast, Quote
  <2>2. CASE Tick
    BY <2>2, TickKeepsInside DEF NoHitSurvives, Inside, Hits, AtLeast, Quote
  <2>3. CASE Next /\ ~Tick
    <3>1. phase' # "save" \/ survived' = 0
      BY <2>3 DEF Next, EntryFill, EntryFillsFurther, ExitFill, ExitFillsPartly, ExitEnds,
                  TimedExit, ProcessEntry, NothingToMonitor, Save, Reconcile, BrokerFailure,
                  Shutdown, Crash, Restart, Reporting, SubmitExit, Abort
    <3>2. QED
      BY <3>1 DEF NoHitSurvives
  <2>4. QED
    BY <2>1, <2>2, <2>3
<1>3. LInv /\ [Next]_vars => LInv'
  BY LInvKept
<1>4. QED
  BY <1>1, <1>2, <1>3, LInvAtFirst, PTL DEF Spec
=============================================================================

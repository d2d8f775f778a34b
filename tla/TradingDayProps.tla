--------------------------- MODULE TradingDayProps --------------------------
(***************************************************************************)
(* What the clock and the reconnect manager promise.                       *)
(***************************************************************************)
EXTENDS TradingDay

TradingDayTypeOK ==
  /\ ValidConfig(config)
  /\ clock \in 0..LastTime
  /\ SessionTypeOK
  /\ phase \in Phases
  /\ recovery \in RecoveryState
  /\ risk \in RiskState
  /\ position \in [Symbols -> BOOLEAN]
  /\ \A s \in Symbols : entry[s] \subseteq Entry /\ Cardinality(entry[s]) < 2
  /\ trading_date \in 0..Today
  /\ runtime_date \in 0..Today
  /\ entered \subseteq Symbols
  /\ master \in [loaded : BOOLEAN, listed : SUBSET Symbols, retry_after : Nat]
  /\ pass.now <= clock
  /\ pass.todo \cup pass.exits \cup pass.skipped \cup pass.unknown \subseteq Symbols
  /\ Cardinality(saved) < 2
  /\ \A x \in saved : x.date \in 0..Today /\ x.risk \in RiskState

-----------------------------------------------------------------------------
(* What the calendar computes by scanning, as definitions.                 *)

OpenMinutes(from, to) == {t \in from..to : IsMarketOpen(config.session, t)}

TradingDays(from, to) == {n \in from..to : IsTradingDay(config.session, n)}

(* The date with days_before trading days from it to the expiry.           *)
IsCutoffDate(d, expiry) ==
  /\ d <= expiry
  /\ Cardinality(TradingDays(d, expiry - 1)) = config.expiry_exit.days_before
  /\ d < expiry => IsTradingDay(config.session, d)

(* The market opens within the reach of next_open(), and before an expiry  *)
(* it has as many trading days as the policy asks for.  (Beyond, the code  *)
(* raises, or goes on scanning.)                                           *)
WithinReach ==
  \A c \in Configs : ValidConfig(c) =>
    /\ \A t \in 0..LastTime : \E n \in 0..Horizon : IsMarketOpen(c.session, t + n)
    /\ \A s \in Symbols : \A d \in ExpiryOf[s] :
         Cardinality({n \in (d - Horizon)..(d - 1) : IsTradingDay(c.session, n)})
           >= c.expiry_exit.days_before

(* next_open() is the first open minute from now on; the cutoff leaves     *)
(* exactly trading_days_before trading days before the expiry; and a day   *)
(* is a trading day when, and, breaks aside, only when the market opens on *)
(* it: three scans of the same configuration agree, over closed dates and  *)
(* weekends, and weeks that wrap around.                                   *)
DatesMatchDefinition ==
  phase = "down" =>
    /\ LET next == NextOpen(config.session, clock) IN
         OpenMinutes(clock, next) = {next}
    /\ \A s \in Symbols : \A d \in ExpiryOf[s] :
         IsCutoffDate(CutoffDate(config.session, config.expiry_exit, d), d)
    /\ LET opens == OpenMinutes(At(Today, 0), At(Today, DayLength - 1)) # {}
           trades == IsTradingDay(config.session, Today)
       IN  (opens => trades) /\ (trades /\ config.session.break = <<>> => opens)

-----------------------------------------------------------------------------
(* An open position that had to be left by the time the pass began.        *)
IntradayDue ==
  /\ config.position_type = "INTRADAY"
  /\ config.session.schedule = "DAILY"
  /\ IsMarketOpen(config.session, pass.now)
  /\ \E t \in config.session.square_off : At(Date(pass.now), t) <= pass.now

ExpiryDue(s) ==
  /\ Resolves
  /\ \E expiry \in ExpiryOf[s] : \E d \in (expiry - Horizon)..expiry :
       IsCutoffDate(d, expiry) /\ pass.now >= At(d, config.expiry_exit.time)

(* "Intraday positions are squared off at session.square_off_time; new     *)
(* intraday entries are blocked after that time", "Positional futures /    *)
(* options block new entries at the configured cutoff and submit an        *)
(* opposite-side MARKET exit": when a pass has gone through its symbols,   *)
(* whatever is still open and was due when it began has had an exit tried  *)
(* in this pass; a position opened in this pass was not due.  Passed over  *)
(* is only a derivative without a valid tick or without an expiry date.    *)
PassLeavesNothingDue ==
  phase = "process" /\ pass.todo = {} =>
    \A s \in Open \ pass.exits :
      /\ ~IntradayDue
      /\ ExpiryDue(s) => s \in pass.skipped \cup pass.unknown

(* "Missing both sources blocks entries": from the moment a pass meets an  *)
(* open derivative of unknown expiry, the kill switch is on until the pass *)
(* is over - also when its exit was refused, or the day has just begun.    *)
UnknownExpiryStops ==
  pass.unknown \cap Open # {} => risk.kill_switch

(* A symbol is entered once per trading date, over any restarts, stops,    *)
(* interrupts, outages and midnights, when trading is confined to market   *)
(* hours, and the machine dated the earlier order as the calendar does.    *)
(* (Otherwise a pass before the open still belongs to the day before, and  *)
(* entered_symbols() looks for the order on another date, see the README.) *)
OneEntryADay ==
  [][\A s \in Symbols :
       entry'[s] # entry[s] /\ config.session.only_market_hours =>
         \A e \in entry[s], f \in entry'[s] :
           e.date = e.created => f.day > e.day]_tvars

-----------------------------------------------------------------------------
(* "Broker authentication recovery exhausted": one recovery meets at most  *)
(* auth_max_attempts authentication errors, and does not give up before it *)
(* has met half as many (an error that follows one of another kind counts  *)
(* twice).                                                                 *)
AuthLimit ==
  /\ recovery.rejected <= AuthMaxAttempts
  /\ Exhausted => 2 * recovery.rejected >= AuthMaxAttempts

(* Unless the broker stays away, a recovery comes to an end: trading       *)
(* resumes, or the process gives up.                                       *)
RecoveryEnds ==
  <>[](access # "down") => []<>(phase \notin RecoveryPhases)

=============================================================================

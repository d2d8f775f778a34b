--------------------------- MODULE MarketCalendar ---------------------------
(***************************************************************************)
(* The market clock of autotick/engine/market_session.py and what          *)
(* config/validator.py demands of its configuration.                       *)
(*                                                                         *)
(* A point in time is a natural number of minutes; a date is the number of *)
(* its day, day 0 being the first day of a week.  Seconds are left out:    *)
(* every configured time is a whole minute.  A value that may be missing   *)
(* is a set of at most one element.                                        *)
(***************************************************************************)
EXTENDS Integers, FiniteSets

CONSTANTS
  DayLength,   \* minutes of a day
  WeekLength,  \* days of a week
  Horizon      \* how far the scans of next_open and expiry_cutoff look

ASSUME CalendarAssumption ==
  /\ DayLength \in Nat \ {0}
  /\ WeekLength \in Nat \ {0}
  /\ Horizon \in Nat

Date(t)    == t \div DayLength
Time(t)    == t % DayLength
Weekday(d) == d % WeekLength
Times      == 0..(DayLength - 1)
WeekTimes  == 0..(WeekLength * DayLength - 1)
At(d, time) == d * DayLength + time

(* Which fields are read depends on the schedule.                          *)
Session ==
  [schedule : {"DAILY", "WEEKLY", "ALWAYS_OPEN"},
   trading_days : SUBSET (0..(WeekLength - 1)),      \* DAILY
   market_start : Times, market_end : Times,
   square_off : {S \in SUBSET Times : Cardinality(S) < 2},
   week_start : WeekTimes, week_end : WeekTimes,     \* WEEKLY
   break : {<<>>} \cup (Times \X Times),
   closed_dates : SUBSET Nat,
   only_market_hours : BOOLEAN,
   startup_wait : Nat]

(* _validate_session.                                                      *)
ValidSession(c, position_type) ==
  /\ c.schedule = "DAILY" =>
       /\ c.trading_days # {}
       /\ c.market_start < c.market_end
       /\ position_type = "INTRADAY" => c.square_off # {}
       /\ c.square_off \subseteq c.market_start..c.market_end
  /\ c.schedule = "WEEKLY" =>
       /\ c.week_start # c.week_end
       /\ c.break # <<>> => c.break[1] # c.break[2]

-----------------------------------------------------------------------------
WeeklyRanges(c) ==
  IF c.week_start <= c.week_end THEN {<<c.week_start, c.week_end>>}
  ELSE {<<c.week_start, WeekLength * DayLength - 1>>, <<0, c.week_end>>}

TimeInRange(time, start, end) ==
  IF start <= end THEN start <= time /\ time < end
  ELSE time >= start \/ time < end

InBreak(c, time) == c.break # <<>> /\ TimeInRange(time, c.break[1], c.break[2])

IsTradingDay(c, d) ==
  \/ c.schedule = "ALWAYS_OPEN"
  \/ /\ d \notin c.closed_dates
     /\ \/ c.schedule = "DAILY" /\ Weekday(d) \in c.trading_days
        \/ /\ c.schedule = "WEEKLY"
           /\ \E r \in WeeklyRanges(c) :
                /\ r[1] < At(Weekday(d) + 1, 0)
                /\ r[2] >= At(Weekday(d), 0)

(* The closing minute of a DAILY or WEEKLY session is open, the last one   *)
(* of a break is not part of the break.                                    *)
IsMarketOpen(c, t) ==
  \/ c.schedule = "ALWAYS_OPEN"
  \/ /\ Date(t) \notin c.closed_dates
     /\ \/ /\ c.schedule = "DAILY"
           /\ Weekday(Date(t)) \in c.trading_days
           /\ Time(t) \in c.market_start..c.market_end
        \/ /\ c.schedule = "WEEKLY"
           /\ \E r \in WeeklyRanges(c) :
                At(Weekday(Date(t)), Time(t)) \in r[1]..r[2]
           /\ ~InBreak(c, Time(t))

(* daily_market_end() has passed.                                          *)
AfterDailyEnd(c, t) == c.schedule = "DAILY" /\ Time(t) >= c.market_end

PreMarket(c, t) ==
  /\ ~IsMarketOpen(c, t)
  /\ c.schedule = "DAILY"
  /\ IsTradingDay(c, Date(t))
  /\ Time(t) < c.market_start

(* next_open(): minute by minute.  (The code gives up after 370 days.)     *)
NextOpen(c, t) ==
  LET scan[n \in 0..Horizon] ==
        IF IsMarketOpen(c, t + n) \/ n = Horizon THEN t + n ELSE scan[n + 1]
  IN  scan[0]

ShouldSquareOff(c, t) ==
  /\ c.schedule = "DAILY"
  /\ IsMarketOpen(c, t)
  /\ \E time \in c.square_off : Time(t) >= time

(* _startup_wait_seconds() of main.py: is there a short pre-market wait?   *)
StartupWait(c, t) ==
  /\ c.startup_wait > 0
  /\ PreMarket(c, t)
  /\ NextOpen(c, t) - t <= c.startup_wait

=============================================================================

---------------------------- MODULE MCTradingDay ----------------------------
(* Small instances of TradingDay for TLC: days of 6 minutes (2..4 are      *)
(* market time of a DAILY schedule), weeks of 3 days.                      *)
EXTENDS TradingDayProps, TLC

CONSTANTS s1, s2

OneSymbol == {s1}
TwoSymbols == {s1, s2}

(* s1 is a future that expires on day 2, s2 a share.                       *)
MCExpiryOf == [s \in Symbols |-> IF s = s1 THEN {2} ELSE {}]
MCMaxLoss == -1

(* The machine is behind: at the first minute of a day it has the day before. *)
MCHostOffset == -1
Nothing == {0}

DailySession ==
  [schedule |-> "DAILY", trading_days |-> {0, 1, 2},
   market_start |-> 2, market_end |-> 4, square_off |-> {},
   week_start |-> 0, week_end |-> 1, break |-> <<>>, closed_dates |-> {},
   only_market_hours |-> TRUE, startup_wait |-> 1]

PositionalConfig ==
  [session |-> DailySession, position_type |-> "POSITIONAL", strategy |-> "orb",
   expiry_exit |-> [enabled |-> TRUE, days_before |-> 1, time |-> 3],
   contracts |-> {}]

IntradayConfig ==
  [PositionalConfig EXCEPT !.session.square_off = {3}, !.position_type = "INTRADAY",
                           !.expiry_exit.enabled = FALSE]

(* Day 1 is a holiday: the cutoff moves to day 0.  The expiry of the       *)
(* future is configured.                                                   *)
HolidayConfig ==
  [PositionalConfig EXCEPT !.session.closed_dates = {1}, !.contracts = {s1}]

(* From day 2 over the weekend to day 1, with a break across midnight.     *)
WeeklyConfig ==
  [PositionalConfig EXCEPT !.session.schedule = "WEEKLY",
     !.session.week_start = 14, !.session.week_end = 9, !.session.break = <<5, 1>>]

SwingConfig ==
  [PositionalConfig EXCEPT !.strategy = "swing", !.expiry_exit.enabled = FALSE,
                           !.session.only_market_hours = FALSE]

AlwaysConfig ==
  [PositionalConfig EXCEPT !.session.schedule = "ALWAYS_OPEN",
                           !.expiry_exit.enabled = FALSE, !.expiry_exit.days_before = 0]

(* Rejected by the validator.                                              *)
InvalidConfigs ==
  {[IntradayConfig EXCEPT !.session.square_off = {}],
   [PositionalConfig EXCEPT !.expiry_exit.time = 5]}

AllConfigs ==
  {PositionalConfig, IntradayConfig, HolidayConfig, WeeklyConfig, SwingConfig,
   AlwaysConfig} \cup InvalidConfigs

(* The scans of the calendar get where these configurations send them.     *)
ASSUME MCTradingDayAssumption == WithinReach

=============================================================================

---------------------------- MODULE RiskManager ----------------------------
(***************************************************************************)
(* Daily risk state of autotick/engine/risk_manager.py: the entry counter, *)
(* the realized P&L of the day, the kill switch and the latch set by a     *)
(* failed state write.  The four attributes are one record because they    *)
(* are exported, persisted and restored as one.                            *)
(*                                                                         *)
(* Prices and sizes are not part of this module: position_size() appears   *)
(* as the Boolean "the sized quantity is positive".                        *)
(***************************************************************************)
EXTENDS Integers

CONSTANTS
  MaxTrades,  \* risk.max_trades_per_day
  MaxLoss,    \* risk.max_loss, a (negative) P&L
  PnLs        \* what one exit fill may realize

(* config/validator.py requires a positive max_trades_per_day; it accepts  *)
(* any number as max_loss, of which only a negative one describes a loss.  *)
ASSUME RiskAssumption ==
  /\ MaxTrades \in Nat \ {0}
  /\ MaxLoss \in Int
  /\ MaxLoss < 0
  /\ PnLs \subseteq Int

VARIABLE risk

RiskState ==
  [trade_count : Nat, daily_pnl : Int,
   kill_switch : BOOLEAN, persistence_failed : BOOLEAN]

InitialRisk ==
  [trade_count |-> 0, daily_pnl |-> 0,
   kill_switch |-> FALSE, persistence_failed |-> FALSE]

-----------------------------------------------------------------------------
(* The methods, as functions from the state before to the state after.     *)

LimitReached(r) == r.trade_count >= MaxTrades \/ r.daily_pnl <= MaxLoss

ActivateKillSwitch(r) == [r EXCEPT !.kill_switch = TRUE]

(* sized: position_size(price, margin_aware) > 0                           *)
CanTrade(r, sized) == ~r.kill_switch /\ r.trade_count < MaxTrades /\ sized

RecordEntry(r) ==
  LET counted == [r EXCEPT !.trade_count = @ + 1]
  IN  IF counted.trade_count >= MaxTrades
      THEN ActivateKillSwitch(counted) ELSE counted

CheckDailyLimits(r) == IF LimitReached(r) THEN ActivateKillSwitch(r) ELSE r

(* Mutant: realized P&L is booked without looking at the limits.           *)
RecordPnlOnly(r, pnl) == [r EXCEPT !.daily_pnl = @ + pnl]

RecordRealizedPnl(r, pnl) == CheckDailyLimits([r EXCEPT !.daily_pnl = @ + pnl])

BlockForPersistenceFailure(r) ==
  ActivateKillSwitch([r EXCEPT !.persistence_failed = TRUE])

ResetDailyState(r) ==
  [r EXCEPT !.trade_count = 0, !.daily_pnl = 0,
            !.kill_switch = r.persistence_failed]

(* restore_state(): what is loaded is checked against the limits again.    *)
RestoreState(s) ==
  [s EXCEPT !.kill_switch =
     s.kill_switch \/ s.persistence_failed \/ LimitReached(s)]

=============================================================================

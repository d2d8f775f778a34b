------------------------------- MODULE Expiry -------------------------------
(***************************************************************************)
(* The expiry policy of autotick/engine/expiry.py: on which date a         *)
(* derivative must be left, and what is decided about one symbol.          *)
(***************************************************************************)
EXTENDS MarketCalendar

(* trade.expiry_exit of the configuration.                                 *)
Policy == [enabled : BOOLEAN, days_before : Nat, time : Times]

(* ExpiryState.                                                            *)
NoExpiry == [known |-> TRUE, due |-> FALSE, block_entry |-> FALSE]
UnknownExpiry == [known |-> FALSE, due |-> FALSE, block_entry |-> TRUE]

(* validate_config: on a DAILY schedule the exit time is a market time.    *)
ValidPolicy(p, c) ==
  p.enabled /\ c.schedule = "DAILY" => p.time \in c.market_start..c.market_end

(* Mutant: calendar days instead of trading days.                          *)
CalendarDaysBefore(c, p, expiry) == expiry - p.days_before

(* expiry_cutoff(): trading days are counted backwards from the expiry.    *)
CutoffDate(c, p, expiry) ==
  LET back[k \in 0..Horizon] ==
        [left \in 0..p.days_before |->
           IF left = 0 \/ k = Horizon THEN expiry - k
           ELSE back[k + 1][IF IsTradingDay(c, expiry - k - 1) THEN left - 1
                            ELSE left]]
  IN  back[0][p.days_before]

Cutoff(c, p, expiry) == At(CutoffDate(c, p, expiry), p.time)

(* resolve_expiry_state() at time t for one symbol.  expiry: {} for a      *)
(* symbol that is no derivative, or its date; known: does the instrument   *)
(* master or the configuration tell it?  A derivative is recognised by its *)
(* name, so one that is not known is told from a symbol that expires never.*)
ResolveExpiry(c, p, expiry, known, t) ==
  IF ~p.enabled \/ expiry = {} THEN NoExpiry
  ELSE IF ~known THEN UnknownExpiry
  ELSE LET due == \E d \in expiry : t >= Cutoff(c, p, d)
       IN  [known |-> TRUE, due |-> due, block_entry |-> due]

=============================================================================

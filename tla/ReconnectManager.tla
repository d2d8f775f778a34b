-------------------------- MODULE ReconnectManager --------------------------
(***************************************************************************)
(* The recovery loop of autotick/engine/reconnect_manager.py, one step per *)
(* attempt: count, wait and reconnect, restore subscriptions and           *)
(* reconcile.  How long the back-off waits is left open.                   *)
(***************************************************************************)
EXTENDS BrokerSession, Integers

CONSTANT AuthMaxAttempts  \* reconnect.auth_max_attempts

(* config/validator.py: a positive integer.                                *)
ASSUME ReconnectAssumption == AuthMaxAttempts \in Nat \ {0}

VARIABLES
  phase,    \* where the process is; see RecoveryPhases
  recovery  \* the local variables of recover()

(* "counting": the top of the loop; "waiting": the back-off before an      *)
(* attempt; "reconnected": the session is back, the state is not yet.      *)
RecoveryPhases == {"counting", "waiting", "reconnected"}

(* rejected is a history variable: the authentication errors met by the    *)
(* attempts of this recovery.                                              *)
RecoveryState ==
  [startup : BOOLEAN, current : {"auth", "connection"},
   auth_attempts : Nat, rejected : Nat]

NoRecovery ==
  [startup |-> FALSE, current |-> "connection", auth_attempts |-> 0, rejected |-> 0]

(* recover(error, ...) is called.                                          *)
BeginRecovery(error, startup) ==
  /\ phase' = "counting"
  /\ recovery' = [NoRecovery EXCEPT !.current = error, !.startup = startup]

(* Mutant: the limit is compared before counting.                          *)
CountedLate == recovery.auth_attempts

Counted ==
  IF recovery.current = "auth" THEN recovery.auth_attempts + 1
  ELSE recovery.auth_attempts

Exhausted ==
  /\ phase = "counting"
  /\ recovery.current = "auth"
  /\ Counted > AuthMaxAttempts

NextAttempt ==
  /\ phase = "counting"
  /\ ~Exhausted
  /\ phase' = "waiting"
  /\ recovery' = [recovery EXCEPT !.auth_attempts = Counted]

(* The except clauses: an authentication error after an error of another   *)
(* kind is counted here, and once more at the top of the loop.             *)
AttemptFails(error) ==
  LET changed == error = "auth" /\ recovery.current # "auth"
      counted == recovery.auth_attempts + (IF changed THEN 1 ELSE 0)
      met     == recovery.rejected + (IF error = "auth" THEN 1 ELSE 0)
  IN  /\ phase' = "counting"
      /\ recovery' = [startup |-> recovery.startup, current |-> error,
                      auth_attempts |-> counted, rejected |-> met]

(* disconnect, reconnect and connect; the rest of the attempt depends on   *)
(* what is reconciled.                                                     *)
Reconnect ==
  /\ phase = "waiting"
  /\ session' = AfterReconnect
  /\ IF ReconnectAnswer = "ok"
     THEN phase' = "reconnected" /\ UNCHANGED recovery
     ELSE AttemptFails(ReconnectAnswer)

(* A call of subscribe() or of reconcile() fails.                          *)
RestoreFails ==
  /\ phase = "reconnected"
  /\ CallAnswer # "ok"
  /\ session' = AfterCall
  /\ AttemptFails(CallAnswer)

=============================================================================

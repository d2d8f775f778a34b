--------------------------- MODULE BrokerSession ----------------------------
(***************************************************************************)
(* The authenticated session of providers/brokers/angelone/session.py: the *)
(* tokens AutoTick holds, and what each call answers, for what the broker  *)
(* does at that moment.                                                    *)
(*                                                                         *)
(* An answer is "ok" or the kind of BrokerError raised.  The local retries *)
(* of call() end in one of them; the once-only write of call_once() is in  *)
(* TradeManager.                                                           *)
(***************************************************************************)
VARIABLES
  session,  \* AngelOneSession: connected, and what its tokens are worth
  access    \* the broker: "up", "down", or "rejecting" every login

Answers == {"ok", "auth", "connection"}

(* "none": no refresh token yet; "lapsed": the session token is refused,   *)
(* the refresh token is not; "dead": both are refused.                     *)
SessionState ==
  [connected : BOOLEAN, token : {"none", "valid", "lapsed", "dead"}]

NewSession == [connected |-> FALSE, token |-> "none"]

SessionTypeOK ==
  /\ session \in SessionState
  /\ access \in {"up", "down", "rejecting"}

(* call(): a read.  An authentication error marks the session.             *)
CallAnswer ==
  IF access = "down" THEN "connection"
  ELSE IF session.token # "valid" THEN "auth" ELSE "ok"

AfterCall ==
  IF CallAnswer = "auth" THEN [session EXCEPT !.connected = FALSE] ELSE session

(* Mutant: a refused login is taken for a service that is unavailable.     *)
LoginNeverRefused(s) ==
  IF s.connected THEN "ok" ELSE IF access = "up" THEN "ok" ELSE "connection"

LoginAnswer(s) ==
  IF s.connected THEN "ok"
  ELSE IF access = "down" THEN "connection"
  ELSE IF access = "rejecting" THEN "auth" ELSE "ok"

AfterLogin(s) ==
  IF s.connected \/ LoginAnswer(s) # "ok" THEN s
  ELSE [connected |-> TRUE, token |-> "valid"]

RefreshAnswer(s) ==
  IF s.token = "none" THEN "auth"
  ELSE IF access = "down" THEN "connection"
  ELSE IF access = "rejecting" \/ s.token = "dead" THEN "auth" ELSE "ok"

(* reconnect(): refresh, and a full login when the refresh is refused.     *)
ReconnectAnswer ==
  LET s == [session EXCEPT !.connected = FALSE]
  IN  IF RefreshAnswer(s) = "auth" THEN LoginAnswer(s) ELSE RefreshAnswer(s)

AfterReconnect ==
  IF ReconnectAnswer = "ok" THEN [connected |-> TRUE, token |-> "valid"]
  ELSE [session EXCEPT !.connected = FALSE]

(* The environment: the broker comes and goes, and ends tokens.            *)
Lapses(from, to) ==
  /\ from \in {"valid", "lapsed"}
  /\ to \in {"lapsed", "dead"} \ {from}

BrokerChanges ==
  \/ /\ access' \in {"up", "down", "rejecting"} \ {access}
     /\ UNCHANGED session
  \/ /\ \E token \in {"lapsed", "dead"} :
          /\ Lapses(session.token, token)
          /\ session' = [session EXCEPT !.token = token]
     /\ UNCHANGED access

=============================================================================

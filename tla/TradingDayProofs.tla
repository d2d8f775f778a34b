-------------------------- MODULE TradingDayProofs --------------------------
(***************************************************************************)
(* Proofs about TradingDay for every value of its constants: any number of *)
(* symbols, any calendar and configuration, any limits, and any times at   *)
(* which the broker fails and the process is stopped or restarted.         *)
(***************************************************************************)
EXTENDS TradingDayProps, Sums, FiniteSetTheorems, TLAPS

-----------------------------------------------------------------------------
(* The recovery counters.  Before an attempt the error to come is already  *)
(* counted if the last one was of the same kind; every authentication      *)
(* error has been counted once or twice.                                   *)
Counters(p, r) ==
  /\ r.rejected <= AuthMaxAttempts
  /\ p = "counting" /\ r.current = "auth" =>
       /\ r.rejected <= r.auth_attempts
       /\ r.auth_attempts <= 2 * r.rejected
  /\ p \in {"waiting", "reconnected"} /\ r.current = "auth" =>
       r.rejected + 1 <= r.auth_attempts
  /\ p \in RecoveryPhases /\ r.current = "connection" =>
       r.rejected = 0 \/ r.rejected + 1 <= r.auth_attempts
  /\ p \in RecoveryPhases /\ ~(p = "counting" /\ r.current = "auth") =>
       /\ r.auth_attempts <= AuthMaxAttempts
       /\ r.auth_attempts <= 2 * r.rejected + 1

RecoveryInv ==
  /\ phase \in Phases
  /\ recovery \in RecoveryState
  /\ Counters(phase, recovery)

LEMMA FreshCounters ==
  /\ NoRecovery \in RecoveryState
  /\ \A p \in Phases : Counters(p, NoRecovery)
BY ReconnectAssumption DEF NoRecovery, RecoveryState, Counters, RecoveryPhases, Phases

LEMMA BeginKeepsCounters ==
  ASSUME NEW error \in {"auth", "connection"}, NEW startup \in BOOLEAN,
         BeginRecovery(error, startup)
  PROVE  RecoveryInv' /\ recovery'.startup = startup /\ phase' = "counting"
<1> DEFINE r == [startup |-> startup, current |-> error,
                 auth_attempts |-> 0, rejected |-> 0]
<1>1. recovery' = r /\ phase' = "counting"
  BY DEF BeginRecovery, NoRecovery
<1>2. r \in RecoveryState /\ r.current = error /\ r.auth_attempts = 0 /\ r.rejected = 0
      /\ r.startup = startup
  BY DEF RecoveryState
<1> HIDE DEF r
<1>3. Counters("counting", r)
  BY <1>2, ReconnectAssumption DEF Counters
<1> QED
  BY <1>1, <1>2, <1>3 DEF RecoveryInv, Phases, RecoveryPhases

LEMMA FailKeepsCounters ==
  ASSUME RecoveryInv, phase \in {"waiting", "reconnected"},
         NEW error \in {"auth", "connection"}, AttemptFails(error)
  PROVE  RecoveryInv' /\ recovery'.startup = recovery.startup /\ phase' = "counting"
<1> DEFINE changed == error = "auth" /\ recovery.current # "auth"
           counted == recovery.auth_attempts + (IF changed THEN 1 ELSE 0)
           met == recovery.rejected + (IF error = "auth" THEN 1 ELSE 0)
<1>1. /\ recovery.startup \in BOOLEAN /\ recovery.current \in {"auth", "connection"}
      /\ recovery.auth_attempts \in Nat /\ recovery.rejected \in Nat
  BY DEF RecoveryInv, RecoveryState
<1>2. recovery' = [startup |-> recovery.startup, current |-> error,
                   auth_attempts |-> counted, rejected |-> met] /\ phase' = "counting"
  BY DEF AttemptFails
<1>3. counted \in Nat /\ met \in Nat
  BY <1>1
<1>4. /\ met <= AuthMaxAttempts
      /\ error = "auth" => met <= counted /\ counted <= 2 * met
      /\ error = "connection" => /\ met = 0 \/ met + 1 <= counted
                                 /\ counted <= AuthMaxAttempts
                                 /\ counted <= 2 * met + 1
  <2>1. CASE recovery.current = "auth"
    BY <1>1, <2>1, ReconnectAssumption DEF RecoveryInv, Counters, RecoveryPhases
  <2>2. CASE recovery.current = "connection"
    <3>1. /\ recovery.rejected = 0 \/ recovery.rejected + 1 <= recovery.auth_attempts
          /\ recovery.auth_attempts <= AuthMaxAttempts
          /\ recovery.auth_attempts <= 2 * recovery.rejected + 1
      BY <2>2 DEF RecoveryInv, Counters, RecoveryPhases
    <3>2. CASE error = "auth"
      <4>1. met = recovery.rejected + 1 /\ counted = recovery.auth_attempts + 1
        BY <2>2, <3>2
      <4> QED
        BY <1>1, <3>1, <3>2, <4>1, ReconnectAssumption
    <3>3. CASE error = "connection"
      <4>1. met = recovery.rejected /\ counted = recovery.auth_attempts
        BY <1>1, <3>3
      <4> QED
        BY <1>1, <3>1, <3>3, <4>1, ReconnectAssumption
    <3> QED
      BY <3>2, <3>3
  <2>3. recovery.current = "auth" \/ recovery.current = "connection"
    BY <1>1
  <2> QED
    BY <2>1, <2>2, <2>3
<1> HIDE DEF changed, counted, met
<1>5. recovery' \in RecoveryState
  BY <1>1, <1>2, <1>3 DEF RecoveryState
<1>6. Counters("counting", recovery')
  BY <1>2, <1>3, <1>4 DEF Counters
<1> QED
  BY <1>2, <1>5, <1>6 DEF RecoveryInv, Phases, RecoveryPhases

LEMMA NextAttemptKeepsCounters ==
  ASSUME RecoveryInv, NextAttempt
  PROVE  RecoveryInv' /\ recovery'.startup = recovery.startup
<1>1. /\ recovery.current \in {"auth", "connection"}
      /\ recovery.auth_attempts \in Nat /\ recovery.rejected \in Nat
  BY DEF RecoveryInv, RecoveryState
<1>2. Counted \in Nat
  BY <1>1 DEF Counted
<1>3. recovery' = [recovery EXCEPT !.auth_attempts = Counted] /\ phase' = "waiting"
      /\ phase = "counting"
  BY DEF NextAttempt
<1>4. /\ recovery' \in RecoveryState
      /\ recovery'.startup = recovery.startup
      /\ recovery'.current = recovery.current
      /\ recovery'.auth_attempts = Counted
      /\ recovery'.rejected = recovery.rejected
  BY <1>2, <1>3 DEF RecoveryInv, RecoveryState
<1>5. recovery.current = "auth" => Counted <= AuthMaxAttempts
  BY <1>1, <1>2, <1>3, ReconnectAssumption DEF NextAttempt, Exhausted
<1>6. Counters("waiting", recovery')
  BY <1>1, <1>3, <1>4, <1>5, ReconnectAssumption
     DEF RecoveryInv, Counters, Counted, RecoveryPhases
<1> QED
  BY <1>3, <1>4, <1>6 DEF RecoveryInv, Phases, RecoveryPhases

LEMMA ReconnectedKeepsCounters ==
  ASSUME RecoveryInv, phase = "waiting", phase' = "reconnected", UNCHANGED recovery
  PROVE  RecoveryInv'
BY DEF RecoveryInv, Counters, RecoveryPhases, Phases

(* Every other step leaves the recovery alone, or begins or ends it.       *)
LEMMA StepKeepsRecovery ==
  ASSUME RecoveryInv, [Next]_tvars
  PROVE  RecoveryInv'
<1> USE FreshCounters
<1>1. CASE UNCHANGED tvars
  BY <1>1 DEF tvars, RecoveryInv
<1>2. CASE /\ UNCHANGED recovery /\ phase' \in Phases \ RecoveryPhases
  BY <1>2 DEF RecoveryInv, Counters, RecoveryPhases
<1>3. CASE UNCHANGED <<phase, recovery>>
  BY <1>3 DEF RecoveryInv
<1>4. CASE recovery' = NoRecovery /\ phase' \in Phases
  BY <1>4 DEF RecoveryInv
<1>5. CallAnswer # "ok" => CallAnswer \in {"auth", "connection"}
  BY DEF CallAnswer
<1>6. LoginAnswer(session) # "ok" => LoginAnswer(session) \in {"auth", "connection"}
  BY DEF LoginAnswer
<1>7. ReconnectAnswer # "ok" => ReconnectAnswer \in {"auth", "connection"}
  BY DEF ReconnectAnswer, RefreshAnswer, LoginAnswer
<1>8. CASE Start \/ Tick \/ BrokerEvent \/ BeginPass
  BY <1>8, <1>2, <1>3 DEF Start, Tick, BrokerEvent, BeginPass, Phases, RecoveryPhases
<1>9. CASE Stop \/ Interrupt \/ MarketCloses \/ GiveUp
  BY <1>9, <1>4 DEF Stop, Interrupt, MarketCloses, Leave, GiveUp, Phases
<1>10. CASE Connect
  <2>1. CASE LoginAnswer(session) = "ok"
    BY <1>10, <2>1, <1>2 DEF Connect, Phases, RecoveryPhases
  <2>2. CASE LoginAnswer(session) # "ok"
    BY <1>10, <2>2, <1>6, BeginKeepsCounters DEF Connect
  <2> QED
    BY <2>1, <2>2
<1>11. CASE Load
  <2>1. CASE CallAnswer = "ok"
    BY <1>11, <2>1, <1>4 DEF Load, EnterLoop, Phases
  <2>2. CASE CallAnswer # "ok"
    BY <1>11, <2>2, <1>5, BeginKeepsCounters DEF Load
  <2> QED
    BY <2>1, <2>2
<1>12. CASE EndPass \/ \E s \in Symbols :
              SkipSymbol(s) \/ ExitSymbol(s) \/ PassSymbol(s) \/ EnterSymbol(s)
  BY <1>12, <1>2, <1>3
     DEF EndPass, SkipSymbol, ExitSymbol, PassSymbol, EnterSymbol, Processing,
         Phases, RecoveryPhases
<1>13. CASE BrokerFailure
  BY <1>13, <1>5, BeginKeepsCounters DEF BrokerFailure
<1>14. CASE Attempt
  <2>1. CASE NextAttempt
    BY <2>1, NextAttemptKeepsCounters
  <2>2. CASE Reconnect
    BY <2>2, <1>2, <1>7, FailKeepsCounters, ReconnectedKeepsCounters DEF Reconnect
  <2>3. CASE RestoreFails
    BY <2>3, <1>5, FailKeepsCounters DEF RestoreFails
  <2> QED
    BY <1>14, <2>1, <2>2, <2>3 DEF Attempt
<1>15. CASE Resume
  BY <1>15, <1>4 DEF Resume, EnterLoop, Phases
<1> QED
  BY <1>1, <1>8, <1>9, <1>10, <1>11, <1>12, <1>13, <1>14, <1>15 DEF Next, Runner

LEMMA RecoveryAlways == Spec => []RecoveryInv
<1>1. Init => RecoveryInv
  BY FreshCounters DEF Init, RecoveryInv, Phases
<1> QED
  BY <1>1, StepKeepsRecovery, PTL DEF Spec

(* One recovery never meets more authentication errors than                *)
(* reconnect.auth_max_attempts, and never gives up before it has met half  *)
(* of them, however the errors of an attempt alternate.                    *)
THEOREM AuthLimitAlways == Spec => []AuthLimit
<1>1. RecoveryInv => AuthLimit
  <2> SUFFICES ASSUME RecoveryInv PROVE AuthLimit
    OBVIOUS
  <2>1. recovery.auth_attempts \in Nat /\ recovery.rejected \in Nat
    BY DEF RecoveryInv, RecoveryState
  <2> QED
    BY <2>1, ReconnectAssumption DEF RecoveryInv, Counters, AuthLimit, Exhausted, Counted
<1> QED
  BY <1>1, RecoveryAlways, PTL

-----------------------------------------------------------------------------
(* Types.                                                                  *)
PassState ==
  [now : Nat, todo : SUBSET Symbols, exits : SUBSET Symbols,
   skipped : SUBSET Symbols, unknown : SUBSET Symbols]

MasterState == [loaded : BOOLEAN, listed : SUBSET Symbols, retry_after : Nat]

AtMostOne(S) == \A x, y \in S : x = y

Types ==
  /\ ValidConfig(config)
  /\ clock \in 0..LastTime
  /\ session \in SessionState /\ access \in {"up", "down", "rejecting"}
  /\ risk \in RiskState
  /\ position \in [Symbols -> BOOLEAN]
  /\ entry \in [Symbols -> SUBSET Entry] /\ \A s \in Symbols : AtMostOne(entry[s])
  /\ trading_date \in 0..Today
  /\ runtime_date \in 0..Today
  /\ entered \in SUBSET Symbols
  /\ master \in MasterState
  /\ pass \in PassState /\ pass.now <= clock
  /\ AtMostOne(saved)
  /\ \A x \in saved : x.date \in 0..Today /\ x.risk \in RiskState

LEMMA DateGrows ==
  ASSUME NEW t \in Nat
  PROVE  Date(t) \in Nat /\ Date(t) <= Date(t + 1)
BY CalendarAssumption DEF Date

LEMMA HostDateType ==
  ASSUME clock \in Nat
  PROVE  HostToday \in Int
<1>1. clock + HostOffset \in Int
  BY TradingDayAssumption
<1> QED
  BY <1>1, CalendarAssumption DEF HostToday, Date

LEMMA RiskMethodTypes ==
  ASSUME NEW r \in RiskState
  PROVE  /\ ActivateKillSwitch(r) \in RiskState /\ ActivateKillSwitch(r).kill_switch
         /\ RecordEntry(r) \in RiskState
         /\ r.kill_switch => RecordEntry(r).kill_switch
         /\ ResetDailyState(r) \in RiskState
         /\ RestoreState(r) \in RiskState
<1>1. \A x \in RiskState : ActivateKillSwitch(x) \in RiskState
                            /\ ActivateKillSwitch(x).kill_switch
  BY DEF ActivateKillSwitch, RiskState
<1>2. RecordEntry(r) \in RiskState /\ (r.kill_switch => RecordEntry(r).kill_switch)
  <2> DEFINE counted == [r EXCEPT !.trade_count = @ + 1]
  <2>1. counted \in RiskState /\ counted.kill_switch = r.kill_switch
    BY DEF RiskState
  <2>2. RecordEntry(r) = IF counted.trade_count >= MaxTrades
                         THEN ActivateKillSwitch(counted) ELSE counted
    BY DEF RecordEntry
  <2> HIDE DEF counted
  <2> QED
    BY <1>1, <2>1, <2>2
<1>3. ResetDailyState(r) \in RiskState
  <2> DEFINE uncounted == [r EXCEPT !.trade_count = 0]
             zeroed == [uncounted EXCEPT !.daily_pnl = 0]
             switch == r.persistence_failed
  <2>1. uncounted \in RiskState
    BY DEF RiskState
  <2> HIDE DEF uncounted
  <2>2. zeroed \in RiskState
    BY <2>1 DEF RiskState
  <2>3. switch \in BOOLEAN
    BY DEF RiskState
  <2>4. ResetDailyState(r) = [zeroed EXCEPT !.kill_switch = switch]
    BY DEF ResetDailyState, uncounted
  <2> HIDE DEF zeroed, switch
  <2> QED
    BY <2>2, <2>3, <2>4 DEF RiskState
<1>4. RestoreState(r) \in RiskState
  BY DEF RestoreState, LimitReached, RiskState
<1> QED
  BY <1>1, <1>2, <1>3, <1>4

LEMMA InitialRiskType == InitialRisk \in RiskState
BY DEF InitialRisk, RiskState

LEMMA NoPassType == NoPass \in PassState /\ NoPass.now = 0 /\ NoPass.unknown = {}
BY DEF NoPass, PassState

LEMMA SessionMethodTypes ==
  ASSUME session \in SessionState
  PROVE  /\ NewSession \in SessionState
         /\ AfterCall \in SessionState
         /\ AfterLogin(session) \in SessionState
         /\ AfterReconnect \in SessionState
         /\ \A t \in {"lapsed", "dead"} : [session EXCEPT !.token = t] \in SessionState
BY DEF SessionState, NewSession, AfterCall, AfterLogin, AfterReconnect

LEMMA RestoredType ==
  ASSUME Types
  PROVE  Restored \in RiskState
<1>1. CASE \E x \in saved : x.date = runtime_date
  <2>1. (CHOOSE x \in saved : TRUE) \in saved
    BY <1>1
  <2>2. (CHOOSE x \in saved : TRUE).risk \in RiskState
    BY <2>1 DEF Types
  <2> QED
    BY <1>1, <2>2, RiskMethodTypes DEF Restored
<1>2. CASE ~\E x \in saved : x.date = runtime_date
  BY <1>2, InitialRiskType, RiskMethodTypes DEF Restored
<1> QED
  BY <1>1, <1>2

(* A save leaves one snapshot, of a date that has come and a risk state.   *)
LEMMA SaveType ==
  ASSUME NEW d, NEW r, d \in 0..Today, r \in RiskState, SaveUnder(d, r)
  PROVE  /\ AtMostOne(saved')
         /\ \A x \in saved' : x.date \in 0..Today /\ x.risk \in RiskState
BY DEF SaveUnder, AtMostOne

(* With the clock, what is a date so far stays one.                        *)
LEMMA SameClock ==
  ASSUME Types, UNCHANGED <<config, clock>>
  PROVE  ValidConfig(config') /\ clock' \in 0..LastTime /\ Today' = Today
BY DEF Types, Today

(* What processing a symbol changes of the pass.                           *)
LEMMA PassFields ==
  ASSUME pass \in PassState, NEW s, NEW U \in SUBSET Symbols, s \in Symbols
  PROVE  /\ [pass EXCEPT !.todo = @ \ {s}, !.skipped = @ \cup {s}] \in PassState
         /\ [pass EXCEPT !.todo = @ \ {s}, !.unknown = @ \cup U] \in PassState
         /\ [pass EXCEPT !.todo = @ \ {s}, !.exits = @ \cup {s},
                         !.unknown = @ \cup U] \in PassState
         /\ [pass EXCEPT !.todo = @ \ {s}, !.skipped = @ \cup {s}].now = pass.now
         /\ [pass EXCEPT !.todo = @ \ {s}, !.unknown = @ \cup U].now = pass.now
         /\ [pass EXCEPT !.todo = @ \ {s}, !.exits = @ \cup {s},
                         !.unknown = @ \cup U].now = pass.now
BY DEF PassState

LEMMA UnknownSymbol ==
  ASSUME NEW s \in Symbols, NEW known
  PROVE  Unknown(s, known) \in SUBSET Symbols
BY DEF Unknown

LEMMA StartKeepsTypes ==
  ASSUME Types, Start \/ Connect \/ Load
  PROVE  Types'
<1>1. UNCHANGED <<config, clock>> /\ UNCHANGED <<access, position, entry, pass, saved>>
  BY DEF Start, Connect, Load, memory
<1>2. Today \in Nat
  BY DateGrows, TradingDayAssumption DEF Types, Today
<1>3. CASE Start
  <2>1. NoMaster \in MasterState
    BY DEF NoMaster, MasterState
  <2> QED
    BY <1>1, <1>2, <1>3, <2>1, SameClock, InitialRiskType, SessionMethodTypes DEF Start, Types
<1>4. CASE Connect
  BY <1>1, <1>4, SameClock, SessionMethodTypes DEF Connect, Types, memory
<1>5. CASE Load
  <2>1. EnteredSymbols(runtime_date) \in SUBSET Symbols
    BY DEF EnteredSymbols, Open
  <2>2. risk' \in RiskState /\ trading_date' \in 0..Today /\ entered' \in SUBSET Symbols
    BY <1>5, <2>1, RestoredType DEF Load, EnterLoop, Types
  <2> QED
    BY <1>1, <1>5, <2>2, SameClock, SessionMethodTypes DEF Load, Types
<1> QED
  BY <1>3, <1>4, <1>5

LEMMA LeaveKeepsTypes ==
  ASSUME Types, Stop \/ Interrupt \/ MarketCloses \/ GiveUp
  PROVE  Types'
<1>1. /\ UNCHANGED <<config, clock, session, access, memory>>
      /\ pass' \in {pass, NoPass}
      /\ risk' \in RiskState
  BY RiskMethodTypes DEF Stop, Interrupt, MarketCloses, GiveUp, Leave, Types
<1>2. AtMostOne(saved') /\ \A x \in saved' : x.date \in 0..Today /\ x.risk \in RiskState
  <2>1. CASE UNCHANGED saved
    BY <2>1 DEF Types
  <2>2. CASE SaveUnder(trading_date, risk) \/ SaveUnder(runtime_date, risk)
                 \/ SaveUnder(trading_date, risk')
    BY <1>1, <2>2, SaveType DEF Types
  <2> QED
    BY <2>1, <2>2 DEF Stop, Interrupt, MarketCloses, GiveUp
<1>3. pass' \in PassState /\ pass'.now <= clock
  BY <1>1, NoPassType, TradingDayAssumption DEF Types
<1> QED
  BY <1>1, <1>2, <1>3, SameClock DEF Types, memory

LEMMA BeginPassKeepsTypes ==
  ASSUME Types, BeginPass \/ BrokerFailure
  PROVE  Types'
<1>1. clock \in Nat /\ Today \in Nat
  BY DateGrows, TradingDayAssumption DEF Types, Today
<1>2. UNCHANGED <<config, clock, access, entry, runtime_date, master, saved>>
  BY DEF BeginPass, BrokerFailure
<1>3. /\ risk' \in RiskState
      /\ trading_date' \in 0..Today
      /\ entered' \in SUBSET Symbols
  <2>1. \/ risk' = ResetDailyState(risk) /\ entered' = {} /\ trading_date' = Today
        \/ UNCHANGED <<risk, entered, trading_date>>
    BY DEF BeginPass, BrokerFailure
  <2>2. risk \in RiskState /\ ResetDailyState(risk) \in RiskState
    BY RiskMethodTypes DEF Types
  <2>3. Today \in 0..Today
    BY <1>1
  <2> QED
    BY <2>1, <2>2, <2>3 DEF Types
<1>4. session' \in SessionState
  BY SessionMethodTypes DEF BeginPass, BrokerFailure, Types
<1>5. position' \in [Symbols -> BOOLEAN] /\ pass' \in PassState /\ pass'.now <= clock
  <2>1. CASE BeginPass
    <3>1. PICK R \in SUBSET Open :
            /\ position' = [s \in Symbols |-> s \in SquareOff(R).open]
            /\ pass' = [NoPass EXCEPT !.now = clock, !.todo = Symbols,
                                      !.exits = SquareOff(R).exits]
      BY <2>1 DEF BeginPass
    <3> DEFINE exits == SquareOff(R).exits
    <3>2. exits \in SUBSET Symbols
      BY DEF SquareOff, Open
    <3>3. pass' = [now |-> clock, todo |-> Symbols, exits |-> exits,
                   skipped |-> {}, unknown |-> {}]
      BY <3>1 DEF NoPass
    <3> HIDE DEF exits
    <3> QED
      BY <1>1, <3>1, <3>2, <3>3 DEF PassState
  <2>2. CASE BrokerFailure
    BY <1>1, <2>2, NoPassType DEF BrokerFailure, Types
  <2> QED
    BY <2>1, <2>2
<1> QED
  BY <1>2, <1>3, <1>4, <1>5, SameClock DEF Types

LEMMA ProcessKeepsTypes ==
  ASSUME Types, NEW s \in Symbols,
         SkipSymbol(s) \/ ExitSymbol(s) \/ PassSymbol(s) \/ EnterSymbol(s)
  PROVE  Types'
<1>1. UNCHANGED <<config, clock, session, access, trading_date, runtime_date, saved>>
  BY DEF SkipSymbol, ExitSymbol, PassSymbol, EnterSymbol, Processing
<1>2. clock \in Nat /\ Today \in Nat /\ Cooldown \in Nat
  BY DateGrows, TradingDayAssumption DEF Types, Today
<1>3. risk' \in RiskState
  BY RiskMethodTypes
     DEF SkipSymbol, ExitSymbol, PassSymbol, EnterSymbol, AfterExpiryCheck, Types
<1>4. position' \in [Symbols -> BOOLEAN]
  BY DEF SkipSymbol, ExitSymbol, PassSymbol, EnterSymbol, Types
<1>5. entered' \in SUBSET Symbols
  BY DEF SkipSymbol, ExitSymbol, PassSymbol, EnterSymbol, Types
<1>6. entry' \in [Symbols -> SUBSET Entry] /\ \A z \in Symbols : AtMostOne(entry'[z])
  <2>1. CASE UNCHANGED entry
    BY <2>1 DEF Types
  <2>2. CASE EnterSymbol(s)
    <3> DEFINE e == [date |-> HostToday, created |-> Today, day |-> trading_date]
    <3>1. e \in Entry
      BY <1>2, HostDateType DEF Types, Entry
    <3>2. entry' = [entry EXCEPT ![s] = {e}]
      BY <2>2 DEF EnterSymbol
    <3> HIDE DEF e
    <3> QED
      BY <3>1, <3>2 DEF Types, AtMostOne
  <2> QED
    BY <2>1, <2>2 DEF SkipSymbol, ExitSymbol, PassSymbol
<1>7. master' \in MasterState
  <2>1. clock + Cooldown \in Nat
    BY <1>2
  <2>2. CASE UNCHANGED master
    BY <2>2 DEF Types
  <2>3. CASE LoadContracts
    <3>1. NoMaster \in MasterState
      BY DEF NoMaster, MasterState
    <3>2. \/ \E listed \in SUBSET Symbols :
               master' = [[NoMaster EXCEPT !.loaded = TRUE] EXCEPT !.listed = listed]
          \/ master' = [NoMaster EXCEPT !.retry_after = clock + Cooldown]
      BY <2>3 DEF LoadContracts
    <3> QED
      BY <2>1, <3>1, <3>2 DEF MasterState
  <2>4. CASE \E known \in BOOLEAN : GetContract(s, known)
    BY <2>2, <2>3, <2>4 DEF GetContract
  <2> QED
    BY <2>2, <2>4 DEF SkipSymbol, ExitSymbol, PassSymbol, EnterSymbol
<1>8. pass' \in PassState /\ pass'.now = pass.now
  <2>1. pass \in PassState
    BY DEF Types
  <2>2. PICK U \in SUBSET Symbols :
          \/ pass' = [pass EXCEPT !.todo = @ \ {s}, !.skipped = @ \cup {s}]
          \/ pass' = [pass EXCEPT !.todo = @ \ {s}, !.unknown = @ \cup U]
          \/ pass' = [pass EXCEPT !.todo = @ \ {s}, !.exits = @ \cup {s},
                                 !.unknown = @ \cup U]
    BY UnknownSymbol, Zenon DEF SkipSymbol, ExitSymbol, PassSymbol, EnterSymbol
  <2> DEFINE skipped == [pass EXCEPT !.todo = @ \ {s}, !.skipped = @ \cup {s}]
             passed == [pass EXCEPT !.todo = @ \ {s}, !.unknown = @ \cup U]
             left == [pass EXCEPT !.todo = @ \ {s}, !.exits = @ \cup {s},
                                  !.unknown = @ \cup U]
  <2>3. pass' \in {skipped, passed, left}
    BY <2>2
  <2>4. /\ skipped \in PassState /\ passed \in PassState /\ left \in PassState
        /\ skipped.now = pass.now /\ passed.now = pass.now /\ left.now = pass.now
    BY <2>1, PassFields
  <2> HIDE DEF skipped, passed, left
  <2> QED
    BY <2>3, <2>4
<1> QED
  BY <1>1, <1>3, <1>4, <1>5, <1>6, <1>7, <1>8, SameClock DEF Types

LEMMA RestKeepsTypes ==
  ASSUME Types, EndPass \/ Attempt \/ Resume \/ Tick \/ BrokerEvent
  PROVE  Types'
<1>1. clock \in Nat /\ Today \in Nat
  BY DateGrows, TradingDayAssumption DEF Types, Today
<1>2. CASE EndPass
  <2>1. AtMostOne(saved') /\ \A x \in saved' : x.date \in 0..Today /\ x.risk \in RiskState
    BY <1>2, SaveType DEF EndPass, Types
  <2>2. pass' \in PassState /\ pass'.now <= clock
    BY <1>1, <1>2, NoPassType DEF EndPass
  <2> QED
    BY <1>2, <2>1, <2>2, SameClock DEF EndPass, Types, memory
<1>3. CASE Attempt
  <2>1. session' \in SessionState
    BY <1>3, SessionMethodTypes DEF Attempt, Reconnect, RestoreFails, Types
  <2> QED
    BY <1>3, <2>1, SameClock DEF Attempt, Types, memory
<1>4. CASE Resume
  <2>1. AtMostOne(saved') /\ \A x \in saved' : x.date \in 0..Today /\ x.risk \in RiskState
    BY <1>4, SaveType DEF Resume, Types
  <2>2. entered' \in SUBSET Symbols /\ trading_date' \in 0..Today
    BY <1>4 DEF Resume, EnterLoop, EnteredSymbols, Open, Types
  <2>3. risk' \in RiskState
    BY <1>4, RestoredType DEF Resume, Types
  <2> QED
    BY <1>4, <2>1, <2>2, <2>3, SameClock DEF Resume, Types
<1>5. CASE Tick
  <2>1. clock' \in 0..LastTime /\ clock <= clock'
    BY <1>1, <1>5, TradingDayAssumption DEF Tick
  <2>2. Today' \in Nat /\ Today <= Today'
    BY <1>1, <1>5, DateGrows DEF Tick, Today
  <2>3. 0..Today \subseteq 0..Today'
    BY <1>1, <2>2
  <2>4. pass'.now <= clock'
    BY <1>1, <1>5, <2>1 DEF Tick, Types, PassState
  <2> QED
    BY <1>5, <2>1, <2>3, <2>4 DEF Tick, Types, memory
<1>6. CASE BrokerEvent
  <2>1. session' \in SessionState /\ access' \in {"up", "down", "rejecting"}
    BY <1>6, SessionMethodTypes DEF BrokerEvent, BrokerChanges, Types
  <2> QED
    BY <1>6, <2>1, SameClock DEF BrokerEvent, Types, memory
<1> QED
  BY <1>2, <1>3, <1>4, <1>5, <1>6

LEMMA StepKeepsTypes ==
  ASSUME Types, [Next]_tvars
  PROVE  Types'
<1>1. CASE UNCHANGED tvars
  BY <1>1 DEF tvars, memory, Types, Today
<1> QED
  BY <1>1, StartKeepsTypes, LeaveKeepsTypes, BeginPassKeepsTypes, ProcessKeepsTypes,
     RestKeepsTypes DEF Next, Runner

LEMMA TypesAlways == Spec => []Types
<1>1. Init => Types
  <2> SUFFICES ASSUME Init PROVE Types
    OBVIOUS
  <2>1. Today \in Nat /\ 0 \in 0..LastTime
    BY DateGrows, TradingDayAssumption DEF Init, Today
  <2>2. NoMaster \in MasterState
    BY DEF NoMaster, MasterState
  <2>3. NewSession \in SessionState
    BY DEF NewSession, SessionState
  <2> QED
    BY <2>1, <2>2, <2>3, NoPassType, InitialRiskType DEF Init, Types, AtMostOne
<1> QED
  BY <1>1, StepKeepsTypes, PTL DEF Spec

LEMMA FewerThanTwo ==
  ASSUME NEW S, AtMostOne(S)
  PROVE  Cardinality(S) < 2
<1>1. CASE S = {}
  <2>1. Cardinality({}) = 0
    BY FS_EmptySet
  <2> QED
    BY <1>1, <2>1
<1>2. CASE S # {}
  <2>1. PICK x : x \in S
    BY <1>2
  <2>2. S = {x}
    BY <2>1 DEF AtMostOne
  <2>3. Cardinality({x}) = 1
    BY FS_Singleton
  <2> QED
    BY <2>2, <2>3
<1> QED
  BY <1>1, <1>2

(* Every variable keeps its type, dates that have come are the only ones   *)
(* in use, and there is one snapshot - whatever the calendar.              *)
THEOREM TypeAlways == Spec => []TradingDayTypeOK
<1>1. RecoveryInv /\ Types => TradingDayTypeOK
  <2> SUFFICES ASSUME RecoveryInv, Types PROVE TradingDayTypeOK
    OBVIOUS
  <2>1. \A s \in Symbols : entry[s] \subseteq Entry /\ Cardinality(entry[s]) < 2
    BY FewerThanTwo DEF Types
  <2>2. Cardinality(saved) < 2
    BY FewerThanTwo DEF Types
  <2>3. pass.todo \cup pass.exits \cup pass.skipped \cup pass.unknown \subseteq Symbols
    BY DEF Types, PassState
  <2> QED
    BY <2>1, <2>2, <2>3 DEF RecoveryInv, Types, MasterState, TradingDayTypeOK, SessionTypeOK
<1> QED
  BY <1>1, RecoveryAlways, TypesAlways, PTL

-----------------------------------------------------------------------------
(* Unknown expiries.  A symbol is processed once in a pass, and only the   *)
(* start of a day or of a process clears the kill switch.                  *)
UnknownInv ==
  /\ phase # "process" => pass.unknown = {}
  /\ pass.todo \cap pass.unknown = {}
  /\ UnknownExpiryStops

LEMMA StepKeepsUnknown ==
  ASSUME Types, UnknownInv, [Next]_tvars
  PROVE  UnknownInv'
<1> USE DEF UnknownInv, UnknownExpiryStops
<1>1. CASE UNCHANGED <<phase, pass, position, risk>>
  BY <1>1 DEF Open
<1>2. CASE pass'.unknown = {}
  BY <1>2
<1>3. CASE phase # "process" /\ phase' # "process" /\ UNCHANGED pass
  BY <1>3
<1>4. CASE pass' = NoPass
  BY <1>4, <1>2, NoPassType
<1>5. CASE Start \/ Connect \/ Load \/ Resume
  BY <1>3, <1>5 DEF Start, Connect, Load, Resume, EnterLoop, BeginRecovery
<1>6. CASE Stop \/ Interrupt \/ MarketCloses \/ BrokerFailure \/ EndPass
  BY <1>4, <1>6 DEF Stop, Interrupt, MarketCloses, Leave, BrokerFailure, EndPass
<1>7. CASE GiveUp \/ Attempt
  BY <1>3, <1>7 DEF GiveUp, Exhausted, Attempt, NextAttempt, Reconnect, RestoreFails,
                    AttemptFails
<1>8. CASE BeginPass
  <2>1. PICK R \in SUBSET Open :
          pass' = [NoPass EXCEPT !.now = clock, !.todo = Symbols,
                                !.exits = SquareOff(R).exits]
    BY <1>8 DEF BeginPass
  <2> DEFINE exits == SquareOff(R).exits
  <2>2. pass' = [now |-> clock, todo |-> Symbols, exits |-> exits,
                 skipped |-> {}, unknown |-> {}]
    BY <2>1 DEF NoPass
  <2> QED
    BY <1>2, <2>2
<1>9. CASE Tick \/ BrokerEvent \/ UNCHANGED tvars
  BY <1>1, <1>9 DEF Tick, BrokerEvent, tvars, memory
<1>10. ASSUME NEW s \in Symbols,
              SkipSymbol(s) \/ ExitSymbol(s) \/ PassSymbol(s) \/ EnterSymbol(s)
       PROVE  UnknownInv'
  <2>1. pass \in PassState /\ risk \in RiskState /\ position \in [Symbols -> BOOLEAN]
    BY DEF Types
  <2>2. phase = "process" /\ phase' = "process" /\ s \in pass.todo
    BY <1>10 DEF SkipSymbol, ExitSymbol, PassSymbol, EnterSymbol, Processing
  <2>3. CASE SkipSymbol(s)
    <3>1. pass'.todo = pass.todo \ {s} /\ pass'.unknown = pass.unknown
      BY <2>1, <2>3 DEF SkipSymbol, PassState
    <3> QED
      BY <2>2, <2>3, <3>1 DEF SkipSymbol, Open
  <2>4. CASE ExitSymbol(s) \/ PassSymbol(s)
    <3>1. PICK known \in BOOLEAN :
            /\ risk' = AfterExpiryCheck(s, known)
            /\ \/ pass' = [pass EXCEPT !.todo = @ \ {s}, !.exits = @ \cup {s},
                                       !.unknown = @ \cup Unknown(s, known)]
               \/ pass' = [pass EXCEPT !.todo = @ \ {s},
                                       !.unknown = @ \cup Unknown(s, known)]
      BY <2>4 DEF ExitSymbol, PassSymbol
    <3> DEFINE U == Unknown(s, known)
    <3>2. pass'.todo = pass.todo \ {s} /\ pass'.unknown = pass.unknown \cup U
      <4>1. U \in SUBSET Symbols
        BY DEF Unknown
      <4> HIDE DEF U
      <4>2. CASE pass' = [pass EXCEPT !.todo = @ \ {s}, !.exits = @ \cup {s},
                                     !.unknown = @ \cup U]
        BY <2>1, <4>1, <4>2 DEF PassState
      <4>3. CASE pass' = [pass EXCEPT !.todo = @ \ {s}, !.unknown = @ \cup U]
        BY <2>1, <4>1, <4>3 DEF PassState
      <4> QED
        BY <3>1, <4>2, <4>3 DEF U
    <3>3. Open' \subseteq Open
      BY <2>1, <2>4 DEF ExitSymbol, PassSymbol, Open
    <3>4. risk.kill_switch => risk'.kill_switch
      BY <2>1, <3>1, RiskMethodTypes DEF AfterExpiryCheck
    <3>5. s \in U \cap Open => risk'.kill_switch
      BY <2>1, <3>1, RiskMethodTypes DEF AfterExpiryCheck, Unknown, Open
    <3>6. U \subseteq {s}
      BY DEF Unknown
    <3> HIDE DEF U
    <3> QED
      BY <2>2, <3>2, <3>3, <3>4, <3>5, <3>6
  <2>5. CASE EnterSymbol(s)
    <3>1. PICK known \in BOOLEAN :
            /\ MayEnter(s, known)
            /\ pass' = [pass EXCEPT !.todo = @ \ {s},
                                    !.unknown = @ \cup Unknown(s, known)]
      BY <2>5 DEF EnterSymbol
    <3>2. Unknown(s, known) = {}
      BY <3>1 DEF MayEnter, Unknown, ExpiryState, ResolveExpiry, NoExpiry, UnknownExpiry
    <3>3. pass'.todo = pass.todo \ {s} /\ pass'.unknown = pass.unknown
      BY <2>1, <3>1, <3>2 DEF PassState
    <3>4. risk.kill_switch => risk'.kill_switch
      BY <2>1, <2>5, RiskMethodTypes DEF EnterSymbol
    <3>5. Open' = Open \cup {s}
      BY <2>1, <2>5 DEF EnterSymbol, Open
    <3> QED
      BY <2>2, <3>3, <3>4, <3>5
  <2> QED
    BY <1>10, <2>3, <2>4, <2>5
<1> QED
  BY <1>5, <1>6, <1>7, <1>8, <1>9, <1>10 DEF Next, Runner

(* From the moment a pass meets an open derivative of unknown expiry, no   *)
(* entry is possible in that pass, whatever else happens in it.            *)
THEOREM UnknownAlways == Spec => []UnknownExpiryStops
<1>1. Init => UnknownInv
  BY NoPassType DEF Init, UnknownInv, UnknownExpiryStops
<1>2. UnknownInv => UnknownExpiryStops
  BY DEF UnknownInv
<1> QED
  BY <1>1, <1>2, StepKeepsUnknown, TypesAlways, PTL DEF Spec

-----------------------------------------------------------------------------
(* One entry a day.  entered is rebuilt from the orders whenever a process *)
(* starts or recovers, by the date of an order.  Where the machine has the *)
(* date of the calendar, that may be later than the trading date of the    *)
(* pass that sent it; that date has then come to an end, and the first     *)
(* pass in an open market begins another one.                              *)
Starting ==
  phase \in {"starting", "loading"} \/ (phase \in RecoveryPhases /\ recovery.startup)

Running ==
  phase \in {"top", "process"} \/ (phase \in RecoveryPhases /\ ~recovery.startup)

EntryInv ==
  /\ \A s \in Symbols : \A e \in entry[s] : e.day <= e.created /\ e.created <= Today
  /\ Starting => \A s \in Symbols : \A e \in entry[s] : e.created <= runtime_date
  /\ Running /\ config.session.only_market_hours =>
       \A s \in Symbols : \A e \in entry[s] :
         /\ e.day <= trading_date
         /\ e.day = trading_date /\ e.date = e.created =>
              s \in entered \/ (phase # "process" /\ trading_date < Today)

LEMMA EntryTypes ==
  ASSUME Types
  PROVE  /\ clock \in Nat /\ Today \in Nat
         /\ trading_date \in Nat /\ trading_date <= Today
         /\ runtime_date \in Nat /\ runtime_date <= Today
         /\ \A s \in Symbols : \A e \in entry[s] : e.day \in Nat /\ e.created \in Nat
<1>1. clock \in Nat /\ Today \in Nat
  BY DateGrows, TradingDayAssumption DEF Types, Today
<1>2. \A s \in Symbols : \A e \in entry[s] : e.day \in Nat /\ e.created \in Nat
  BY DEF Types, Entry
<1> QED
  BY <1>1, <1>2 DEF Types

(* A loop that begins or resumes on a date knows what was entered on it.   *)
LEMMA EnteredAgain ==
  ASSUME Types, NEW d \in Nat, d <= Today, EnterLoop(d), UNCHANGED <<entry, clock>>,
         \A s \in Symbols : \A e \in entry[s] :
           e.day <= e.created /\ e.created <= Today /\ e.day <= d
  PROVE  EntryInv'
<1>1. phase' = "top" /\ trading_date' = d /\ entered' = EnteredSymbols(d)
  BY DEF EnterLoop
<1>2. Today' = Today
  BY DEF Today
<1>3. ASSUME NEW s \in Symbols, NEW e \in entry[s], e.day = d, e.date = e.created
      PROVE  s \in entered' \/ d < Today
  <2>1. e.day <= e.created /\ e.created <= Today /\ e.created \in Nat /\ Today \in Nat
    BY EntryTypes
  <2>2. CASE e.created = d
    BY <1>1, <1>3, <2>2 DEF EnteredSymbols
  <2>3. CASE e.created # d
    BY <1>3, <2>1, <2>3
  <2> QED
    BY <2>2, <2>3
<1>4. ~Starting'
  BY <1>1 DEF Starting, RecoveryPhases
<1> QED
  BY <1>1, <1>2, <1>3, <1>4 DEF EntryInv

(* What entry, clock and the dates are unchanged by; the loop goes on.     *)
LEMMA EntryUnchanged ==
  ASSUME EntryInv,
         UNCHANGED <<config, clock, entry, trading_date, runtime_date, entered>>,
         Running' => Running, Starting' => Starting,
         phase' = "process" => phase = "process"
  PROVE  EntryInv'
BY DEF EntryInv, Today

LEMMA StepKeepsEntries ==
  ASSUME RecoveryInv, Types, EntryInv, [Next]_tvars
  PROVE  EntryInv'
<1> DEFINE P == config.session.only_market_hours
<1>1. CASE Start
  <2>1. Today' = Today /\ UNCHANGED entry /\ runtime_date' = Today /\ ~Running'
    BY <1>1 DEF Start, Today, Running, RecoveryPhases
  <2> QED
    BY <2>1 DEF EntryInv
<1>2. CASE Connect
  <2>1. UNCHANGED <<config, clock, entry, trading_date, runtime_date, entered>>
    BY <1>2 DEF Connect, memory
  <2>2. phase' = "loading" \/ (phase' = "counting" /\ recovery'.startup)
    <3>1. CASE LoginAnswer(session) = "ok"
      BY <1>2, <3>1 DEF Connect
    <3>2. CASE LoginAnswer(session) # "ok"
      <4>1. LoginAnswer(session) \in {"auth", "connection"}
        BY <3>2 DEF LoginAnswer
      <4> QED
        BY <1>2, <3>2, <4>1, BeginKeepsCounters DEF Connect
    <3> QED
      BY <3>1, <3>2
  <2>3. Starting /\ ~Running' /\ phase' # "process"
    BY <1>2, <2>2 DEF Connect, Starting, Running, RecoveryPhases
  <2> QED
    BY <2>1, <2>3, EntryUnchanged
<1>3. CASE Load
  <2>1. UNCHANGED <<config, clock, entry, runtime_date>> /\ Starting
    BY <1>3 DEF Load, Starting
  <2>2. CASE CallAnswer = "ok"
    <3>1. EnterLoop(runtime_date)
      BY <1>3, <2>2 DEF Load
    <3>2. \A s \in Symbols : \A e \in entry[s] :
            e.day <= e.created /\ e.created <= Today /\ e.day <= runtime_date
      BY <2>1, EntryTypes DEF EntryInv
    <3> QED
      BY <2>1, <3>1, <3>2, EntryTypes, EnteredAgain
  <2>3. CASE CallAnswer # "ok"
    <3>1. CallAnswer \in {"auth", "connection"}
      BY <2>3 DEF CallAnswer
    <3>2. phase' = "counting" /\ recovery'.startup
      BY <1>3, <2>3, <3>1, BeginKeepsCounters DEF Load
    <3>3. ~Running' /\ phase' # "process" /\ UNCHANGED <<trading_date, entered>>
      BY <1>3, <2>3, <3>2 DEF Load, Running, RecoveryPhases
    <3> QED
      BY <2>1, <3>3, EntryUnchanged
  <2> QED
    BY <2>2, <2>3
<1>4. CASE Stop \/ Interrupt \/ MarketCloses \/ GiveUp
  <2>1. UNCHANGED <<config, clock, entry, trading_date, runtime_date, entered>>
        /\ phase' = "down"
    BY <1>4 DEF Stop, Interrupt, MarketCloses, GiveUp, Leave, memory
  <2>2. ~Running' /\ ~Starting' /\ phase' # "process"
    BY <2>1 DEF Running, Starting, RecoveryPhases
  <2> QED
    BY <2>1, <2>2, EntryUnchanged
<1>5. CASE BeginPass
  <2>1. /\ UNCHANGED <<config, clock, entry, runtime_date>>
        /\ phase' = "process" /\ phase = "top" /\ ~Closed
    BY <1>5 DEF BeginPass
  <2>2. ~Starting' /\ Running /\ Today' = Today
    BY <2>1 DEF Starting, Running, RecoveryPhases, Today
  <2>3. ASSUME P, NEW s \in Symbols, NEW e \in entry[s]
        PROVE  /\ e.day <= trading_date'
               /\ e.day = trading_date' /\ e.date = e.created => s \in entered'
    <3>1. /\ e.day <= trading_date
          /\ e.day = trading_date /\ e.date = e.created =>
               s \in entered \/ trading_date < Today
      BY <2>2, <2>3 DEF EntryInv
    <3>2. CASE NewDay
      <4>1. trading_date' = Today /\ trading_date # Today
        BY <1>5, <3>2 DEF BeginPass, NewDay
      <4> QED
        BY <3>1, <4>1, EntryTypes
    <3>3. CASE ~NewDay
      <4>1. UNCHANGED <<trading_date, entered>>
        BY <1>5, <3>3 DEF BeginPass
      <4>2. Today = trading_date
        BY <2>1, <2>3, <3>3 DEF NewDay, Closed
      <4> QED
        BY <3>1, <4>1, <4>2, EntryTypes
    <3> QED
      BY <3>2, <3>3
  <2> QED
    BY <2>1, <2>2, <2>3 DEF EntryInv
<1>6. CASE BrokerFailure
  <2>1. /\ UNCHANGED <<config, clock, entry, runtime_date>>
        /\ phase \in {"top", "process"}
    BY <1>6 DEF BrokerFailure
  <2>2. phase' = "counting" /\ ~recovery'.startup
    <3>1. CallAnswer \in {"auth", "connection"}
      BY <1>6 DEF BrokerFailure, CallAnswer
    <3> QED
      BY <1>6, <3>1, BeginKeepsCounters DEF BrokerFailure
  <2>3. Running /\ ~Starting' /\ Today' = Today /\ phase' # "process"
    BY <2>1, <2>2 DEF Running, Starting, RecoveryPhases, Today
  <2>4. CASE UNCHANGED <<trading_date, entered>>
    BY <2>1, <2>3, <2>4, EntryUnchanged
  <2>5. CASE phase = "top" /\ NewDay
    <3>1. trading_date' = Today /\ trading_date # Today
      BY <1>6, <2>5 DEF BrokerFailure, NewDay
    <3>2. ASSUME P, NEW s \in Symbols, NEW e \in entry[s]
          PROVE  e.day < Today
      <4>1. e.day <= trading_date
        BY <2>3, <3>2 DEF EntryInv
      <4> QED
        BY <3>1, <4>1, EntryTypes
    <3>3. \A s \in Symbols : \A e \in entry[s] : e.day \in Nat /\ Today \in Nat
      BY EntryTypes
    <3>4. P => \A s \in Symbols : \A e \in entry[s] : e.day <= Today /\ e.day # Today
      BY <3>2, <3>3
    <3> QED
      BY <2>1, <2>3, <3>1, <3>4 DEF EntryInv
  <2> QED
    BY <1>6, <2>4, <2>5 DEF BrokerFailure
<1>7. CASE EndPass
  <2>1. UNCHANGED <<config, clock, entry, trading_date, runtime_date, entered>>
        /\ phase = "process" /\ phase' = "top"
    BY <1>7 DEF EndPass, memory
  <2> QED
    BY <2>1, EntryUnchanged DEF Running, Starting, RecoveryPhases
<1>8. CASE Attempt
  <2>1. UNCHANGED <<config, clock, entry, trading_date, runtime_date, entered>>
    BY <1>8 DEF Attempt, memory
  <2>2. phase \in RecoveryPhases /\ phase' \in RecoveryPhases
        /\ recovery'.startup = recovery.startup
    <3>1. CASE NextAttempt
      BY <3>1, NextAttemptKeepsCounters DEF NextAttempt, RecoveryPhases
    <3>2. CASE Reconnect
      <4>1. ReconnectAnswer # "ok" => ReconnectAnswer \in {"auth", "connection"}
        BY DEF ReconnectAnswer, RefreshAnswer, LoginAnswer
      <4> QED
        BY <3>2, <4>1, FailKeepsCounters DEF Reconnect, RecoveryPhases
    <3>3. CASE RestoreFails
      <4>1. CallAnswer # "ok" => CallAnswer \in {"auth", "connection"}
        BY DEF CallAnswer
      <4> QED
        BY <3>3, <4>1, FailKeepsCounters DEF RestoreFails, RecoveryPhases
    <3> QED
      BY <1>8, <3>1, <3>2, <3>3 DEF Attempt
  <2> QED
    BY <2>1, <2>2, EntryUnchanged DEF Running, Starting, RecoveryPhases
<1>9. CASE Resume
  <2>1. UNCHANGED <<config, clock, entry, runtime_date>> /\ phase \in RecoveryPhases
    BY <1>9 DEF Resume, RecoveryPhases
  <2>2. CASE recovery.startup
    <3>1. EnterLoop(runtime_date) /\ Starting
      BY <1>9, <2>1, <2>2 DEF Resume, Starting
    <3>2. \A s \in Symbols : \A e \in entry[s] :
            e.day <= e.created /\ e.created <= Today /\ e.day <= runtime_date
      BY <3>1, EntryTypes DEF EntryInv
    <3> QED
      BY <2>1, <3>1, <3>2, EntryTypes, EnteredAgain
  <2>3. CASE ~recovery.startup
    <3>1. EnterLoop(trading_date) /\ Running
      BY <1>9, <2>1, <2>3 DEF Resume, Running
    <3>2. CASE P
      <4>1. \A s \in Symbols : \A e \in entry[s] :
              e.day <= e.created /\ e.created <= Today /\ e.day <= trading_date
        BY <3>1, <3>2 DEF EntryInv
      <4> QED
        BY <2>1, <3>1, <4>1, EntryTypes, EnteredAgain
    <3>3. CASE ~P
      <4>1. phase' = "top" /\ Today' = Today
        BY <2>1, <3>1 DEF EnterLoop, Today
      <4> QED
        BY <2>1, <3>3, <4>1 DEF EntryInv, Starting, RecoveryPhases
    <3> QED
      BY <3>2, <3>3
  <2> QED
    BY <2>2, <2>3
<1>10. CASE Tick
  <2>1. Today' \in Nat /\ Today <= Today'
    BY <1>10, EntryTypes, DateGrows DEF Tick, Today
  <2>2. UNCHANGED <<config, entry, phase, recovery, trading_date, runtime_date, entered>>
    BY <1>10 DEF Tick, memory
  <2>3. (Running' <=> Running) /\ (Starting' <=> Starting)
    BY <2>2 DEF Running, Starting
  <2>4. \A s \in Symbols : \A e \in entry[s] : e.created <= Today'
    BY <2>1, EntryTypes DEF EntryInv
  <2>5. trading_date < Today => trading_date < Today'
    BY <2>1, EntryTypes
  <2> QED
    BY <2>2, <2>3, <2>4, <2>5 DEF EntryInv
<1>11. CASE BrokerEvent \/ UNCHANGED tvars
  <2>1. UNCHANGED <<config, clock, entry, phase, recovery, trading_date, runtime_date,
                    entered>>
    BY <1>11 DEF BrokerEvent, memory, tvars
  <2> QED
    BY <2>1, EntryUnchanged DEF Running, Starting
<1>12. ASSUME NEW s \in Symbols, SkipSymbol(s) \/ ExitSymbol(s) \/ PassSymbol(s)
       PROVE  EntryInv'
  <2>1. UNCHANGED <<config, clock, entry, phase, recovery, trading_date, runtime_date,
                    entered>>
    BY <1>12 DEF SkipSymbol, ExitSymbol, PassSymbol, Processing
  <2> QED
    BY <2>1, EntryUnchanged DEF Running, Starting
<1>13. ASSUME NEW s \in Symbols, EnterSymbol(s) PROVE EntryInv'
  <2> DEFINE f == [date |-> HostToday, created |-> Today, day |-> trading_date]
  <2>1. /\ UNCHANGED <<config, clock, phase, trading_date, runtime_date>>
        /\ phase = "process"
        /\ entry' = [entry EXCEPT ![s] = {f}] /\ entered' = entered \cup {s}
    BY <1>13 DEF EnterSymbol, Processing
  <2>2. f.created = Today /\ f.day = trading_date
    OBVIOUS
  <2> HIDE DEF f
  <2>3. \A z \in Symbols : entry'[z] = IF z = s THEN {f} ELSE entry[z]
    BY <2>1 DEF Types
  <2>4. Running /\ ~Starting' /\ Today' = Today
    BY <2>1 DEF Running, Starting, RecoveryPhases, Today
  <2>5. trading_date <= trading_date /\ Today <= Today /\ trading_date <= Today
    BY EntryTypes
  <2> QED
    BY <2>1, <2>2, <2>3, <2>4, <2>5 DEF EntryInv
<1> QED
  BY <1>1, <1>2, <1>3, <1>4, <1>5, <1>6, <1>7, <1>8, <1>9, <1>10, <1>11, <1>12, <1>13
     DEF Next, Runner

(* No symbol is entered twice on a trading date that is confined to market *)
(* hours - over any restarts, stops, interrupts, outages and midnights -   *)
(* unless the machine dated the first order differently from the calendar. *)
THEOREM OneEntryADayAlways == Spec => OneEntryADay
<1> DEFINE A == \A s \in Symbols :
                  entry'[s] # entry[s] /\ config.session.only_market_hours =>
                    \A e \in entry[s], f \in entry'[s] :
                      e.date = e.created => f.day > e.day
<1>1. Init => EntryInv
  BY DEF Init, EntryInv, Starting, Running, RecoveryPhases
<1>2. Types /\ EntryInv /\ [Next]_tvars => [A]_tvars
  <2> SUFFICES ASSUME Types, EntryInv, [Next]_tvars,
                      NEW s \in Symbols, entry'[s] # entry[s],
                      config.session.only_market_hours,
                      NEW e \in entry[s], NEW f \in entry'[s], e.date = e.created
               PROVE  f.day > e.day
    BY DEF A
  <2>1. PICK z \in Symbols : EnterSymbol(z)
    <3>1. UNCHANGED entry \/ \E z \in Symbols : EnterSymbol(z)
      BY DEF Next, Runner, Start, Connect, Load, MarketCloses, Stop, Interrupt, Leave,
             BeginPass, EndPass, SkipSymbol, ExitSymbol, PassSymbol, BrokerFailure,
             Attempt, GiveUp, Resume, Tick, BrokerEvent, memory, tvars
    <3> QED
      BY <3>1
  <2> DEFINE g == [date |-> HostToday, created |-> Today, day |-> trading_date]
  <2>2. /\ phase = "process" /\ z \notin entered
        /\ entry' = [entry EXCEPT ![z] = {g}]
    BY <2>1 DEF EnterSymbol, Processing, MayEnter
  <2>3. g.day = trading_date
    OBVIOUS
  <2> HIDE DEF g
  <2>4. s = z /\ f = g
    BY <2>2 DEF Types
  <2>5. Running
    BY <2>2 DEF Running
  <2>6. e.day <= trading_date /\ e.day # trading_date
    BY <2>2, <2>4, <2>5 DEF EntryInv
  <2> QED
    BY <2>3, <2>4, <2>6, EntryTypes
<1>3. Spec => []EntryInv
  BY <1>1, StepKeepsEntries, RecoveryAlways, TypesAlways, PTL DEF Spec
<1> HIDE DEF A
<1>4. Spec => [][A]_tvars
  BY <1>2, <1>3, TypesAlways, PTL DEF Spec
<1> QED
  BY <1>4 DEF OneEntryADay, A

-----------------------------------------------------------------------------
(* The calendar.  A scan of the code is a recursive function over a finite *)
(* domain: that there is one is shown by naming its values, the first      *)
(* places where the scan stops; what it is at 0, step by step from there.  *)
LEMMA DayAndTime ==
  /\ \A d \in Int : \A m \in Times :
       At(d, m) \in Int /\ Date(At(d, m)) = d /\ Time(At(d, m)) = m
  /\ \A t \in Int : Date(t) \in Int /\ Time(t) \in Times /\ At(Date(t), Time(t)) = t
<1>1. ASSUME NEW d \in Int, NEW m \in Times
      PROVE  At(d, m) \in Int /\ Date(At(d, m)) = d /\ Time(At(d, m)) = m
  BY CalendarAssumption, Z3 DEF At, Date, Time, Times
<1>2. ASSUME NEW t \in Int
      PROVE  Date(t) \in Int /\ Time(t) \in Times /\ At(Date(t), Time(t)) = t
  BY CalendarAssumption DEF At, Date, Time, Times
<1> QED
  BY <1>1, <1>2

(* next_open() finds the first open minute within its reach.               *)
LEMMA NextOpenIsFirst ==
  ASSUME NEW c, NEW t \in Int, \E n \in 0..Horizon : IsMarketOpen(c, t + n)
  PROVE  /\ NextOpen(c, t) \in t..(t + Horizon)
         /\ IsMarketOpen(c, NextOpen(c, t))
         /\ \A u \in Int : t <= u /\ u < NextOpen(c, t) => ~IsMarketOpen(c, u)
<1> DEFINE S == {n \in 0..Horizon : IsMarketOpen(c, t + n)}
           Scans(f) == f = [n \in 0..Horizon |->
                              IF IsMarketOpen(c, t + n) \/ n = Horizon THEN t + n
                              ELSE f[n + 1]]
<1>1. Horizon \in Nat
  BY CalendarAssumption
<1>2. PICK m \in S : \A j \in 0..Horizon : j < m => j \notin S
  <2>1. S # {} /\ S \in SUBSET (0..Horizon)
    OBVIOUS
  <2> HIDE DEF S
  <2> QED
    BY <1>1, <2>1, FirstNumber
<1>3. m \in 0..Horizon /\ m \in Nat /\ IsMarketOpen(c, t + m)
  BY <1>1, <1>2
<1>4. \E f : Scans(f)
  <2> DEFINE Stops(j) == IsMarketOpen(c, t + j) \/ j = Horizon
             IsFirst(n, j) == /\ j \in n..Horizon /\ Stops(j)
                              /\ \A i \in n..Horizon : i < j => ~Stops(i)
             first(n) == CHOOSE j : IsFirst(n, j)
             g == [n \in 0..Horizon |-> t + first(n)]
  <2>1. ASSUME NEW n \in 0..Horizon
        PROVE  \E j : IsFirst(n, j)
    <3> DEFINE T == {j \in n..Horizon : Stops(j)}
    <3>1. T \in SUBSET (0..Horizon) /\ Horizon \in T
      BY <1>1
    <3> HIDE DEF T
    <3>2. PICK j \in T : \A i \in 0..Horizon : i < j => i \notin T
      BY <1>1, <3>1, FirstNumber
    <3> HIDE DEF Stops
    <3>3. IsFirst(n, j)
      BY <3>2 DEF T
    <3> QED
      BY <3>3
  <2>2. ASSUME NEW n \in 0..Horizon, NEW i, NEW j, IsFirst(n, i), IsFirst(n, j)
        PROVE  i = j
    <3> HIDE DEF Stops
    <3>1. i \in Int /\ j \in Int /\ ~(i < j) /\ ~(j < i)
      BY <1>1, <2>2
    <3> QED
      BY <3>1
  <2>3. ASSUME NEW n \in 0..Horizon
        PROVE  IsFirst(n, first(n))
    BY <2>1
  <2>4. ASSUME NEW n \in 0..Horizon
        PROVE  g[n] = IF Stops(n) THEN t + n ELSE g[n + 1]
    <3>1. CASE Stops(n)
      <4>1. IsFirst(n, n)
        BY <1>1, <3>1
      <4>2. first(n) = n
        BY <2>2, <2>3, <4>1, Zenon
      <4> QED
        BY <3>1, <4>2
    <3>2. CASE ~Stops(n)
      <4>1. n + 1 \in 0..Horizon
        BY <1>1, <3>2
      <4> HIDE DEF Stops, first
      <4>2. IsFirst(n + 1, first(n + 1))
        BY <2>3, <4>1
      <4>3. IsFirst(n, first(n + 1))
        BY <1>1, <3>2, <4>1, <4>2
      <4>4. first(n) = first(n + 1)
        <5> HIDE DEF IsFirst
        <5> QED
          BY <2>2, <2>3, <4>3, Zenon
      <4> QED
        BY <3>2, <4>1, <4>4
    <3> QED
      BY <3>1, <3>2
  <2>5. g = [n \in 0..Horizon |-> g[n]]
    OBVIOUS
  <2> HIDE DEF g
  <2>6. Scans(g)
    BY <2>4, <2>5
  <2> HIDE DEF Scans
  <2> QED
    BY <2>6
<1> DEFINE scan == CHOOSE f : Scans(f)
<1>5. Scans(scan)
  <2> HIDE DEF Scans
  <2> QED
    BY <1>4
<1>6. NextOpen(c, t) = scan[0]
  BY DEF NextOpen
<1> HIDE DEF scan
<1>7. \A n \in 0..Horizon : n <= m => scan[n] = scan[0]
  <2> DEFINE B == {n \in 0..Horizon : n <= m /\ scan[n] # scan[0]}
  <2>1. SUFFICES ASSUME B # {} PROVE FALSE
    OBVIOUS
  <2>2. B \in SUBSET (0..Horizon)
    OBVIOUS
  <2> HIDE DEF B
  <2>3. PICK n \in B : \A j \in 0..Horizon : j < n => j \notin B
    BY <1>1, <2>1, <2>2, FirstNumber
  <2>4. n \in 0..Horizon /\ n <= m /\ scan[n] # scan[0]
    BY <2>3 DEF B
  <2>5. n # 0 /\ n - 1 \in 0..Horizon /\ n - 1 < n /\ n - 1 < m
    BY <1>1, <1>3, <2>4
  <2>6. scan[n - 1] = scan[0]
    BY <1>1, <1>3, <2>3, <2>5 DEF B
  <2>7. ~IsMarketOpen(c, t + (n - 1)) /\ n - 1 # Horizon
    BY <1>1, <1>2, <1>3, <2>5
  <2>8. scan[n - 1] = scan[(n - 1) + 1]
    BY <1>5, <2>5, <2>7
  <2>9. (n - 1) + 1 = n
    BY <1>1, <2>4
  <2> QED
    BY <2>4, <2>6, <2>8, <2>9
<1>8. NextOpen(c, t) = t + m
  <2>1. scan[m] = t + m
    BY <1>3, <1>5
  <2> QED
    BY <1>1, <1>3, <1>6, <1>7, <2>1
<1>9. ASSUME NEW u \in Int, t <= u, u < t + m
      PROVE  ~IsMarketOpen(c, u)
  <2>1. u - t \in 0..Horizon /\ u - t < m /\ t + (u - t) = u
    BY <1>1, <1>3, <1>9
  <2> QED
    BY <1>2, <2>1
<1> QED
  BY <1>1, <1>3, <1>8, <1>9

(* The trading days from k to j days before a date, k excluded.            *)
DaysBetween(c, e, j, k) == {n \in (e - j)..(e - k - 1) : IsTradingDay(c, n)}
DaysBack(c, e, j, k) == Cardinality(DaysBetween(c, e, j, k))

LEMMA DaysBackFacts ==
  ASSUME NEW c, NEW e \in Int, NEW j \in Nat, NEW k \in Nat, k <= j
  PROVE  /\ DaysBack(c, e, j, k) \in Nat
         /\ DaysBack(c, e, k, k) = 0
         /\ k < j => DaysBack(c, e, j, k) =
                       DaysBack(c, e, j, k + 1)
                         + (IF IsTradingDay(c, e - k - 1) THEN 1 ELSE 0)
         /\ DaysBack(c, e, j + 1, k) =
              DaysBack(c, e, j, k) + (IF IsTradingDay(c, e - (j + 1)) THEN 1 ELSE 0)
<1>1. \A i \in Nat : /\ IsFiniteSet(DaysBetween(c, e, j, i))
                     /\ IsFiniteSet(DaysBetween(c, e, i, k))
  <2>1. ASSUME NEW a \in Int, NEW b \in Int
        PROVE  IsFiniteSet({n \in a..b : IsTradingDay(c, n)})
    <3>1. IsFiniteSet(a..b) /\ {n \in a..b : IsTradingDay(c, n)} \subseteq a..b
      BY FS_Interval
    <3> QED
      BY <3>1, FS_Subset
  <2> QED
    BY <2>1 DEF DaysBetween
<1>2. DaysBack(c, e, j, k) \in Nat
  BY <1>1, FS_CardinalityType DEF DaysBack
<1>3. DaysBack(c, e, k, k) = 0
  <2>1. DaysBetween(c, e, k, k) = {}
    BY DEF DaysBetween
  <2> QED
    BY <2>1, FS_EmptySet DEF DaysBack
<1>4. ASSUME k < j
      PROVE  DaysBack(c, e, j, k) =
               DaysBack(c, e, j, k + 1) + (IF IsTradingDay(c, e - k - 1) THEN 1 ELSE 0)
  <2> DEFINE d == e - k - 1
             S == DaysBetween(c, e, j, k + 1)
  <2>1. d \notin S /\ IsFiniteSet(S)
    <3>1. k + 1 \in Nat
      OBVIOUS
    <3>2. d \notin S
      BY DEF DaysBetween
    <3> QED
      BY <1>1, <3>1, <3>2
  <2>2. DaysBetween(c, e, j, k) = IF IsTradingDay(c, d) THEN S \cup {d} ELSE S
    BY <1>4 DEF DaysBetween
  <2>3. Cardinality(S \cup {d}) = Cardinality(S) + 1 /\ Cardinality(S) \in Nat
    BY <2>1, FS_AddElement, FS_CardinalityType
  <2> HIDE DEF S
  <2> QED
    BY <2>2, <2>3 DEF DaysBack, S
<1>5. DaysBack(c, e, j + 1, k) =
        DaysBack(c, e, j, k) + (IF IsTradingDay(c, e - (j + 1)) THEN 1 ELSE 0)
  <2> DEFINE d == e - (j + 1)
             S == DaysBetween(c, e, j, k)
  <2>1. d \notin S /\ IsFiniteSet(S)
    <3>1. d \notin S
      BY DEF DaysBetween
    <3> QED
      BY <1>1, <3>1
  <2>2. DaysBetween(c, e, j + 1, k) = IF IsTradingDay(c, d) THEN S \cup {d} ELSE S
    BY DEF DaysBetween
  <2>3. Cardinality(S \cup {d}) = Cardinality(S) + 1 /\ Cardinality(S) \in Nat
    BY <2>1, FS_AddElement, FS_CardinalityType
  <2> HIDE DEF S
  <2> QED
    BY <2>2, <2>3 DEF DaysBack, S
<1> QED
  BY <1>2, <1>3, <1>4, <1>5

(* expiry_cutoff() goes back to the first date with so many trading days,  *)
(* if its reach has as many.                                               *)
LEMMA CutoffIsFirst ==
  ASSUME NEW c, NEW p, p.days_before \in Nat, NEW e \in Int,
         DaysBack(c, e, Horizon, 0) >= p.days_before
  PROVE  \E m \in 0..Horizon :
           /\ CutoffDate(c, p, e) = e - m
           /\ DaysBack(c, e, m, 0) = p.days_before
           /\ \A j \in 0..Horizon : j < m => DaysBack(c, e, j, 0) < p.days_before
<1> DEFINE D == p.days_before
           N(j, k) == DaysBack(c, e, j, k)
           Trades(k) == IsTradingDay(c, e - k - 1)
           Scans(f) == f = [k \in 0..Horizon |-> [left \in 0..D |->
                              IF left = 0 \/ k = Horizon THEN e - k
                              ELSE f[k + 1][IF Trades(k) THEN left - 1 ELSE left]]]
<1>1. Horizon \in Nat /\ D \in Nat
  BY CalendarAssumption
<1>2. PICK m \in 0..Horizon : /\ N(m, 0) >= D
                              /\ \A j \in 0..Horizon : j < m => ~(N(j, 0) >= D)
  <2> DEFINE S == {j \in 0..Horizon : N(j, 0) >= D}
  <2>1. S # {} /\ S \in SUBSET (0..Horizon)
    BY <1>1
  <2> HIDE DEF S
  <2>2. PICK m \in S : \A j \in 0..Horizon : j < m => j \notin S
    BY <1>1, <2>1, FirstNumber
  <2> QED
    BY <2>2 DEF S
<1>3. ASSUME NEW j \in 0..Horizon
      PROVE  /\ N(j, 0) \in Nat
             /\ N(j + 1, 0) = N(j, 0) + (IF IsTradingDay(c, e - (j + 1)) THEN 1 ELSE 0)
             /\ N(j, j) = 0
  <2>1. j \in Nat /\ 0 \in Nat /\ 0 <= j /\ j <= j
    BY <1>1
  <2> QED
    BY <2>1, DaysBackFacts
<1>4. N(m, 0) = D
  <2>1. CASE m = 0
    <3>1. N(0, 0) = 0
      BY <1>1, <1>3
    <3> QED
      BY <1>1, <1>2, <2>1, <3>1
  <2>2. CASE m # 0
    <3>1. m - 1 \in 0..Horizon /\ m - 1 < m /\ (m - 1) + 1 = m
      BY <1>1, <2>2
    <3>2. ~(N(m - 1, 0) >= D)
      BY <1>2, <3>1
    <3>3. /\ N(m - 1, 0) \in Nat
          /\ N(m, 0) = N(m - 1, 0) + (IF IsTradingDay(c, e - m) THEN 1 ELSE 0)
      BY <1>3, <3>1
    <3> HIDE DEF N
    <3> QED
      BY <1>1, <1>2, <3>2, <3>3
  <2> QED
    BY <2>1, <2>2
<1>5. \E f : Scans(f)
  <2> DEFINE Stops(j, k, left) == N(j, k) = left \/ j = Horizon
             IsFirst(k, left, j) == /\ j \in k..Horizon /\ Stops(j, k, left)
                                    /\ \A i \in k..Horizon : i < j => ~Stops(i, k, left)
             first(k, left) == CHOOSE j : IsFirst(k, left, j)
             Next_(k, left) == IF Trades(k) THEN left - 1 ELSE left
             g == [k \in 0..Horizon |-> [left \in 0..D |-> e - first(k, left)]]
  <2>1. ASSUME NEW k \in 0..Horizon, NEW left \in 0..D
        PROVE  \E j : IsFirst(k, left, j)
    <3> DEFINE T == {j \in k..Horizon : Stops(j, k, left)}
    <3>1. T \in SUBSET (0..Horizon) /\ Horizon \in T
      BY <1>1
    <3> HIDE DEF T
    <3>2. PICK j \in T : \A i \in 0..Horizon : i < j => i \notin T
      BY <1>1, <3>1, FirstNumber
    <3> HIDE DEF Stops
    <3>3. IsFirst(k, left, j)
      BY <3>2 DEF T
    <3> QED
      BY <3>3
  <2>2. ASSUME NEW k \in 0..Horizon, NEW left \in 0..D, NEW i, NEW j,
               IsFirst(k, left, i), IsFirst(k, left, j)
        PROVE  i = j
    <3> HIDE DEF Stops
    <3>1. i \in Int /\ j \in Int /\ ~(i < j) /\ ~(j < i)
      BY <1>1, <2>2
    <3> QED
      BY <3>1
  <2>3. ASSUME NEW k \in 0..Horizon, NEW left \in 0..D
        PROVE  IsFirst(k, left, first(k, left))
    BY <2>1
  <2>4. ASSUME NEW k \in 0..Horizon, NEW left \in 0..D
        PROVE  first(k, left) = IF left = 0 \/ k = Horizon THEN k
                                ELSE first(k + 1, Next_(k, left))
    <3>1. CASE left = 0 \/ k = Horizon
      <4>1. N(k, k) = 0
        BY <1>3
      <4>2. IsFirst(k, left, k)
        <5> HIDE DEF N
        <5> QED
          BY <1>1, <3>1, <4>1
      <4>3. first(k, left) = k
        <5> HIDE DEF IsFirst
        <5> QED
          BY <2>2, <2>3, <4>2, Zenon
      <4> QED
        BY <3>1, <4>3
    <3>2. CASE ~(left = 0 \/ k = Horizon)
      <4>1. k + 1 \in 0..Horizon /\ Next_(k, left) \in 0..D
        BY <1>1, <3>2
      <4>2. ASSUME NEW j \in (k + 1)..Horizon
            PROVE  Stops(j, k, left) <=> Stops(j, k + 1, Next_(k, left))
        <5>1. j \in Nat /\ k \in Nat /\ k + 1 \in Nat /\ k < j /\ k <= j /\ k + 1 <= j
          BY <1>1, <4>1, <4>2
        <5>2. N(j, k) = N(j, k + 1) + (IF Trades(k) THEN 1 ELSE 0)
          BY <5>1, DaysBackFacts
        <5>3. N(j, k + 1) \in Nat
          BY <5>1, DaysBackFacts
        <5> HIDE DEF N, Trades
        <5> QED
          BY <1>1, <5>2, <5>3
      <4>3. ~Stops(k, k, left)
        <5>1. N(k, k) = 0
          BY <1>3
        <5> QED
          BY <3>2, <5>1
      <4> DEFINE j == first(k + 1, Next_(k, left))
      <4>4. IsFirst(k + 1, Next_(k, left), j)
        <5> HIDE DEF IsFirst, Next_
        <5> QED
          BY <2>3, <4>1
      <4> HIDE DEF Stops, Next_, first
      <4>5. j \in k..Horizon /\ Stops(j, k, left)
        BY <1>1, <4>1, <4>2, <4>4
      <4>6. ASSUME NEW i \in k..Horizon, i < j
            PROVE  ~Stops(i, k, left)
        <5>1. CASE i = k
          BY <4>3, <5>1
        <5>2. CASE i # k
          <6>1. i \in (k + 1)..Horizon
            BY <1>1, <5>2
          <6> QED
            BY <4>2, <4>4, <4>6, <6>1
        <5> QED
          BY <5>1, <5>2
      <4>7. IsFirst(k, left, j)
        BY <4>5, <4>6
      <4>8. first(k, left) = j
        <5> HIDE DEF IsFirst
        <5>1. IsFirst(k, left, first(k, left))
          BY <2>3
        <5> QED
          BY <2>2, <4>7, <5>1, Zenon
      <4> QED
        BY <3>2, <4>8
    <3> QED
      BY <3>1, <3>2
  <2>5. ASSUME NEW k \in 0..Horizon
        PROVE  g[k] = [left \in 0..D |->
                         IF left = 0 \/ k = Horizon THEN e - k
                         ELSE g[k + 1][IF Trades(k) THEN left - 1 ELSE left]]
    <3>1. g[k] = [left \in 0..D |-> e - first(k, left)]
      OBVIOUS
    <3>2. ASSUME NEW left \in 0..D, ~(left = 0 \/ k = Horizon)
          PROVE  g[k + 1][Next_(k, left)] = e - first(k + 1, Next_(k, left))
      <4>1. k + 1 \in 0..Horizon /\ Next_(k, left) \in 0..D
        BY <1>1, <3>2
      <4> HIDE DEF first, Next_
      <4> QED
        BY <4>1
    <3> HIDE DEF g, first, Trades
    <3> QED
      BY <2>4, <3>1, <3>2
  <2>6. g = [k \in 0..Horizon |-> g[k]]
    OBVIOUS
  <2> HIDE DEF g, first, Trades
  <2>7. Scans(g)
    BY <2>5, <2>6
  <2> HIDE DEF Scans
  <2> QED
    BY <2>7
<1> DEFINE back == CHOOSE f : Scans(f)
<1>6. Scans(back)
  <2> HIDE DEF Scans
  <2> QED
    BY <1>5
<1>7. CutoffDate(c, p, e) = back[0][D]
  BY DEF CutoffDate
<1> HIDE DEF back
<1>8. \A k \in 0..Horizon : k <= m => back[k][D - N(k, 0)] = back[0][D]
  <2> DEFINE B == {k \in 0..Horizon : k <= m /\ back[k][D - N(k, 0)] # back[0][D]}
  <2>1. SUFFICES ASSUME B # {} PROVE FALSE
    OBVIOUS
  <2>2. B \in SUBSET (0..Horizon)
    OBVIOUS
  <2> HIDE DEF B
  <2>3. PICK k \in B : \A j \in 0..Horizon : j < k => j \notin B
    BY <1>1, <2>1, <2>2, FirstNumber
  <2>4. k \in 0..Horizon /\ k <= m /\ back[k][D - N(k, 0)] # back[0][D]
    BY <2>3 DEF B
  <2>5. k # 0
    <3>1. N(0, 0) = 0
      BY <1>1, <1>3
    <3>2. D - 0 = D
      BY <1>1
    <3> QED
      BY <2>4, <3>1, <3>2
  <2> DEFINE i == k - 1
             left == D - N(i, 0)
  <2>6. i \in 0..Horizon /\ i < k /\ i < m /\ i + 1 = k /\ i # Horizon /\ e - (i + 1) = e - i - 1
    BY <1>1, <2>4, <2>5
  <2>7. back[i][left] = back[0][D]
    BY <1>1, <2>3, <2>4, <2>6 DEF B
  <2>8. /\ N(i, 0) \in Nat /\ ~(N(i, 0) >= D)
        /\ N(k, 0) = N(i, 0) + (IF Trades(i) THEN 1 ELSE 0)
    <3>1. N(i, 0) \in Nat /\ ~(N(i, 0) >= D)
      BY <1>2, <1>3, <2>6
    <3>2. N(i + 1, 0) = N(i, 0) + (IF IsTradingDay(c, e - (i + 1)) THEN 1 ELSE 0)
      BY <1>3, <2>6
    <3> QED
      BY <2>6, <3>1, <3>2
  <2> HIDE DEF N, Trades, i
  <2>9. /\ left \in 0..D /\ left # 0
        /\ (IF Trades(i) THEN left - 1 ELSE left) = D - N(k, 0)
    BY <1>1, <2>8
  <2> HIDE DEF left
  <2>10. back[i][left] = back[i + 1][IF Trades(i) THEN left - 1 ELSE left]
    <3>1. back[i] = [l \in 0..D |-> IF l = 0 \/ i = Horizon THEN e - i
                                   ELSE back[i + 1][IF Trades(i) THEN l - 1 ELSE l]]
      BY <1>6, <2>6
    <3> QED
      BY <2>6, <2>9, <3>1
  <2> QED
    BY <2>4, <2>6, <2>7, <2>9, <2>10
<1>9. CutoffDate(c, p, e) = e - m
  <2>1. D - N(m, 0) = 0 /\ 0 \in 0..D
    BY <1>1, <1>4
  <2>2. back[m][0] = e - m
    <3> HIDE DEF Trades, N
    <3> QED
      BY <1>6, <2>1
  <2>3. back[m][D - N(m, 0)] = back[0][D]
    BY <1>1, <1>8
  <2> QED
    BY <1>7, <2>1, <2>2, <2>3
<1>10. \A j \in 0..Horizon : j < m => N(j, 0) < D
  <2> HIDE DEF N
  <2> QED
    BY <1>1, <1>2, <1>3
<1> QED
  BY <1>4, <1>9, <1>10

ConfigInv == config \in Configs

LEMMA ConfigAlways == Spec => []ConfigInv
<1>1. Init => ConfigInv
  BY DEF Init, ConfigInv
<1>2. ConfigInv /\ [Next]_tvars => ConfigInv'
  <2>1. [Next]_tvars => UNCHANGED config
    BY DEF Next, Runner, Start, Stop, Interrupt, Tick, BrokerEvent, Connect, Load, MarketCloses,
           Leave, BeginPass, EndPass, SkipSymbol, ExitSymbol, PassSymbol, EnterSymbol, Processing,
           BrokerFailure, Attempt, GiveUp, Resume, tvars
  <2> QED
    BY <2>1 DEF ConfigInv
<1> QED
  BY <1>1, <1>2, PTL DEF Spec

LEMMA ConfigTypes ==
  ASSUME ConfigInv
  PROVE  /\ config.session \in Session
         /\ config.expiry_exit.days_before \in Nat /\ config.expiry_exit.time \in Times
         /\ \A s \in Symbols : \A e \in ExpiryOf[s] : e \in Nat
BY TradingDayAssumption DEF ConfigInv, Config, Policy

(* The cutoff date of the code is the one of the definition, which is      *)
(* unique.                                                                 *)
LEMMA CutoffMatches ==
  ASSUME ConfigInv, NEW e \in Int
  PROVE  LET cutoff == CutoffDate(config.session, config.expiry_exit, e) IN
         /\ \A d \in (e - Horizon)..e : IsCutoffDate(d, e) => cutoff = d
         /\ DaysBack(config.session, e, Horizon, 0) >= config.expiry_exit.days_before =>
              IsCutoffDate(cutoff, e)
<1> DEFINE c == config.session
           p == config.expiry_exit
           D == p.days_before
           N(j) == DaysBack(c, e, j, 0)
<1>1. D \in Nat /\ Horizon \in Nat
  BY ConfigTypes, CalendarAssumption
<1>2. ASSUME NEW j \in Nat
      PROVE  /\ N(j) \in Nat /\ N(0) = 0
             /\ N(j + 1) = N(j) + (IF IsTradingDay(c, e - (j + 1)) THEN 1 ELSE 0)
  <2>1. 0 \in Nat /\ 0 <= j /\ 0 <= 0
    BY <1>2
  <2> QED
    BY <2>1, DaysBackFacts
<1>3. ASSUME NEW j \in Nat
      PROVE  IsCutoffDate(e - j, e) <=> N(j) = D /\ (j # 0 => IsTradingDay(c, e - j))
  <2>1. TradingDays(e - j, e - 1) = DaysBetween(c, e, j, 0)
    <3>1. e - 0 - 1 = e - 1
      OBVIOUS
    <3> QED
      BY <3>1 DEF TradingDays, DaysBetween
  <2>2. e - j <= e /\ (e - j < e <=> j # 0)
    OBVIOUS
  <2> QED
    BY <2>1, <2>2 DEF IsCutoffDate, DaysBack
<1>4. ASSUME NEW i \in Nat, NEW j \in Nat, i <= j
      PROVE  N(i) <= N(j)
  <2>1. DaysBetween(c, e, i, 0) \subseteq DaysBetween(c, e, j, 0)
    BY <1>4 DEF DaysBetween
  <2>2. IsFiniteSet(DaysBetween(c, e, j, 0))
    <3>1. IsFiniteSet((e - j)..(e - 0 - 1))
      BY FS_Interval
    <3> QED
      BY <3>1, FS_Subset DEF DaysBetween
  <2> QED
    BY <2>1, <2>2, FS_Subset DEF DaysBack
<1>5. ASSUME NEW d \in (e - Horizon)..e, IsCutoffDate(d, e)
      PROVE  CutoffDate(c, p, e) = d
  <2> DEFINE j == e - d
  <2>1. j \in 0..Horizon /\ j \in Nat /\ e - j = d
    BY <1>1
  <2>2. N(j) = D /\ (j # 0 => IsTradingDay(c, e - j))
    BY <1>3, <1>5, <2>1
  <2>3. N(Horizon) >= D /\ N(Horizon) \in Nat
    BY <1>1, <1>2, <1>4, <2>1, <2>2
  <2>4. PICK m \in 0..Horizon : /\ CutoffDate(c, p, e) = e - m
                                /\ N(m) = D
                                /\ \A i \in 0..Horizon : i < m => N(i) < D
    BY <1>1, <2>3, CutoffIsFirst
  <2>5. ~(j < m)
    BY <1>1, <2>1, <2>2, <2>4
  <2>6. ~(m < j)
    <3>1. SUFFICES ASSUME m < j PROVE FALSE
      OBVIOUS
    <3>2. j - 1 \in Nat /\ m \in Nat /\ m <= j - 1 /\ (j - 1) + 1 = j /\ j # 0
      BY <1>1, <2>1, <3>1
    <3>3. D <= N(j - 1)
      BY <1>4, <2>4, <3>2
    <3>4. N(j - 1) \in Nat /\ N(j) = N(j - 1) + 1
      BY <1>2, <2>2, <3>2
    <3> QED
      BY <1>1, <2>2, <3>3, <3>4
  <2>7. m = j
    BY <1>1, <2>1, <2>5, <2>6
  <2> QED
    BY <2>1, <2>4, <2>7
<1>6. ASSUME N(Horizon) >= D
      PROVE  IsCutoffDate(CutoffDate(c, p, e), e)
  <2>1. PICK m \in 0..Horizon : /\ CutoffDate(c, p, e) = e - m
                                /\ N(m) = D
                                /\ \A i \in 0..Horizon : i < m => N(i) < D
    BY <1>1, <1>6, CutoffIsFirst
  <2>2. m \in Nat
    BY <1>1
  <2>3. m # 0 => IsTradingDay(c, e - m)
    <3>1. SUFFICES ASSUME m # 0 PROVE IsTradingDay(c, e - m)
      OBVIOUS
    <3>2. m - 1 \in Nat /\ m - 1 \in 0..Horizon /\ m - 1 < m /\ (m - 1) + 1 = m
      BY <1>1, <2>2, <3>1
    <3>3. N(m - 1) < D
      BY <2>1, <3>2
    <3>4. N(m) = N(m - 1) + (IF IsTradingDay(c, e - m) THEN 1 ELSE 0) /\ N(m - 1) \in Nat
      BY <1>2, <3>2
    <3> HIDE DEF N
    <3> QED
      BY <1>1, <2>1, <3>3, <3>4
  <2> QED
    BY <1>3, <2>1, <2>2, <2>3
<1> QED
  BY <1>5, <1>6

(* A day is a trading day when, and, breaks aside, only when the market    *)
(* opens on it.                                                            *)
LEMMA TradingDayOpens ==
  ASSUME ConfigInv, ValidConfig(config), NEW d \in Nat
  PROVE  LET opens == OpenMinutes(At(d, 0), At(d, DayLength - 1)) # {}
             trades == IsTradingDay(config.session, d)
         IN  (opens => trades) /\ (trades /\ config.session.break = <<>> => opens)
<1> DEFINE c == config.session
           w == Weekday(d)
<1>1. /\ c.trading_days \subseteq 0..(WeekLength - 1)
      /\ c.market_start \in Times /\ c.market_end \in Times
      /\ c.week_start \in WeekTimes /\ c.week_end \in WeekTimes
      /\ c.schedule \in {"DAILY", "WEEKLY", "ALWAYS_OPEN"}
  BY ConfigTypes DEF Session
<1>2. w \in Int /\ w \in 0..(WeekLength - 1)
  BY CalendarAssumption DEF Weekday
<1>3. \A t \in Times : t \in Int /\ 0 <= t /\ t < DayLength
  BY CalendarAssumption DEF Times
<1>4. /\ DayLength \in Int /\ d * DayLength \in Int /\ w * DayLength \in Int
      /\ (w + 1) * DayLength = w * DayLength + DayLength
      /\ WeekLength * DayLength \in Nat
  BY <1>2, CalendarAssumption, Z3
<1>5. ASSUME NEW t \in Times
      PROVE  /\ At(d, t) \in At(d, 0)..At(d, DayLength - 1)
             /\ Date(At(d, t)) = d /\ Time(At(d, t)) = t
  <2>1. At(d, t) \in At(d, 0)..At(d, DayLength - 1)
    BY <1>3, <1>4 DEF At
  <2>2. d \in Int
    OBVIOUS
  <2> QED
    BY <2>1, <2>2, DayAndTime
<1>6. ASSUME NEW t \in At(d, 0)..At(d, DayLength - 1)
      PROVE  t = At(d, t - d * DayLength) /\ t - d * DayLength \in Times
  BY <1>4 DEF At, Times
<1>7. \A r \in WeeklyRanges(c) : r[1] \in Int /\ r[2] \in Int /\ r[1] <= r[2]
  BY <1>1, <1>4 DEF WeeklyRanges, WeekTimes
<1>8. ASSUME NEW t \in OpenMinutes(At(d, 0), At(d, DayLength - 1))
      PROVE  IsTradingDay(c, d)
  <2> DEFINE m == t - d * DayLength
  <2>1. m \in Times /\ Date(t) = d /\ Time(t) = m /\ IsMarketOpen(c, t)
    BY <1>5, <1>6 DEF OpenMinutes
  <2> HIDE DEF m
  <2>2. CASE c.schedule = "WEEKLY"
    <3>1. d \notin c.closed_dates
      BY <2>1, <2>2 DEF IsMarketOpen
    <3>2. PICK r \in WeeklyRanges(c) : At(w, m) \in r[1]..r[2]
      BY <2>1, <2>2 DEF IsMarketOpen
    <3>3. r[1] < At(w + 1, 0) /\ r[2] >= At(w, 0)
      BY <1>3, <1>4, <1>7, <2>1, <3>2 DEF At
    <3> QED
      BY <2>2, <3>1, <3>3 DEF IsTradingDay
  <2>3. CASE c.schedule # "WEEKLY"
    BY <2>1, <2>3 DEF IsMarketOpen, IsTradingDay
  <2> QED
    BY <2>2, <2>3
<1>9. ASSUME IsTradingDay(c, d), c.break = <<>>
      PROVE  OpenMinutes(At(d, 0), At(d, DayLength - 1)) # {}
  <2>1. SUFFICES \E m \in Times : IsMarketOpen(c, At(d, m))
    <3>1. \A m \in Times : IsMarketOpen(c, At(d, m)) =>
            At(d, m) \in OpenMinutes(At(d, 0), At(d, DayLength - 1))
      BY <1>5 DEF OpenMinutes
    <3> QED
      BY <3>1
  <2>2. CASE c.schedule = "ALWAYS_OPEN"
    <3>1. 0 \in Times
      BY CalendarAssumption DEF Times
    <3> QED
      BY <2>2, <3>1 DEF IsMarketOpen
  <2>3. CASE c.schedule = "DAILY"
    <3>1. /\ d \notin c.closed_dates /\ w \in c.trading_days
          /\ c.market_start < c.market_end
      BY <1>9, <2>3 DEF IsTradingDay, ValidConfig, ValidSession
    <3>2. c.market_start \in c.market_start..c.market_end
      BY <1>1, <1>3, <3>1
    <3>3. IsMarketOpen(c, At(d, c.market_start))
      BY <1>1, <1>5, <2>3, <3>1, <3>2 DEF IsMarketOpen
    <3> QED
      BY <1>1, <3>3
  <2>4. CASE c.schedule = "WEEKLY"
    <3>1. d \notin c.closed_dates /\ ~InBreak(c, 0)
      BY <1>9, <2>4 DEF IsTradingDay, InBreak
    <3>2. PICK r \in WeeklyRanges(c) : r[1] < At(w + 1, 0) /\ r[2] >= At(w, 0)
      BY <1>9, <2>4 DEF IsTradingDay
    <3> DEFINE m == IF r[1] > At(w, 0) THEN r[1] - At(w, 0) ELSE 0
    <3>3. m \in Times /\ At(w, m) \in r[1]..r[2]
      BY <1>4, <1>7, <3>2, CalendarAssumption DEF At, Times
    <3> HIDE DEF m
    <3>4. ~InBreak(c, m)
      BY <1>9 DEF InBreak
    <3>5. IsMarketOpen(c, At(d, m))
      BY <1>5, <2>4, <3>1, <3>2, <3>3, <3>4 DEF IsMarketOpen
    <3> QED
      BY <3>3, <3>5
  <2> QED
    BY <1>1, <2>2, <2>3, <2>4
<1> QED
  BY <1>8, <1>9

(* Within their reach, the three scans of the calendar compute what they   *)
(* are meant to, for any session and policy the validator accepts.         *)
THEOREM DatesAlways == WithinReach => (Spec => []DatesMatchDefinition)
<1> SUFFICES ASSUME WithinReach
             PROVE  Spec => []DatesMatchDefinition
  OBVIOUS
<1>1. ASSUME ConfigInv, Types
      PROVE  DatesMatchDefinition
  <2> DEFINE c == config.session
  <2>1. /\ config \in Configs /\ ValidConfig(config)
        /\ clock \in 0..LastTime /\ clock \in Int /\ Today \in Nat
    BY <1>1, DateGrows, TradingDayAssumption DEF ConfigInv, Types, Today
  <2>2. LET next == NextOpen(c, clock) IN OpenMinutes(clock, next) = {next}
    <3>1. \E n \in 0..Horizon : IsMarketOpen(c, clock + n)
      BY <1>1, <2>1 DEF WithinReach
    <3>2. /\ NextOpen(c, clock) \in clock..(clock + Horizon)
          /\ IsMarketOpen(c, NextOpen(c, clock))
          /\ \A u \in Int : clock <= u /\ u < NextOpen(c, clock) => ~IsMarketOpen(c, u)
      BY <2>1, <3>1, NextOpenIsFirst
    <3>3. Horizon \in Nat
      BY CalendarAssumption
    <3> QED
      BY <2>1, <3>2, <3>3 DEF OpenMinutes
  <2>3. ASSUME NEW s \in Symbols, NEW e \in ExpiryOf[s]
        PROVE  IsCutoffDate(CutoffDate(c, config.expiry_exit, e), e)
    <3>1. e \in Int
      BY <1>1, <2>3, ConfigTypes
    <3>2. DaysBetween(c, e, Horizon, 0) =
            {n \in (e - Horizon)..(e - 1) : IsTradingDay(c, n)}
      <4>1. e - 0 - 1 = e - 1
        BY <3>1
      <4> QED
        BY <4>1 DEF DaysBetween
    <3>3. DaysBack(c, e, Horizon, 0) >= config.expiry_exit.days_before
      BY <1>1, <2>1, <2>3, <3>2 DEF WithinReach, DaysBack
    <3> QED
      BY <1>1, <3>1, <3>3, CutoffMatches
  <2>4. LET opens == OpenMinutes(At(Today, 0), At(Today, DayLength - 1)) # {}
            trades == IsTradingDay(c, Today)
        IN  (opens => trades) /\ (trades /\ c.break = <<>> => opens)
    BY <1>1, <2>1, TradingDayOpens
  <2> QED
    BY <2>2, <2>3, <2>4 DEF DatesMatchDefinition
<1> QED
  BY <1>1, ConfigAlways, TypesAlways, PTL

-----------------------------------------------------------------------------
(* What was due when a pass began.                                         *)
DueInv ==
  phase = "process" =>
    /\ IntradayDue => Open \subseteq pass.exits
    /\ \A s \in Open \ (pass.exits \cup pass.todo) :
         ExpiryDue(s) => s \in pass.skipped \cup pass.unknown

LEMMA SquareOffTime ==
  ASSUME ConfigInv, NEW now \in Int, NEW t \in config.session.square_off,
         At(Date(now), t) <= now
  PROVE  Time(now) >= t
<1>1. t \in Times /\ \A m \in Times : m \in Int
  BY ConfigTypes, CalendarAssumption DEF Session, Times
<1>2. /\ Date(now) \in Int /\ Time(now) \in Times
      /\ At(Date(now), Time(now)) = now
  BY DayAndTime
<1>3. Date(now) * DayLength \in Int
  BY <1>2, CalendarAssumption
<1> QED
  BY <1>1, <1>2, <1>3 DEF At

LEMMA SquareOffIsDue ==
  ASSUME Types, ConfigInv, IntradayDue
  PROVE  SquareOffDue
<1>1. pass.now \in Int
  BY DEF Types, PassState
<1> QED
  BY <1>1, SquareOffTime DEF IntradayDue, SquareOffDue, ShouldSquareOff

(* What was due when the pass began is due when the symbol is processed.   *)
LEMMA ExpiryIsDue ==
  ASSUME Types, ConfigInv, NEW s \in Symbols, ExpiryDue(s), NEW known \in BOOLEAN
  PROVE  /\ ExpiryState(s, known).block_entry
         /\ known => ExpiryState(s, known).due /\ ExpiryState(s, known).known
         /\ ~known => ~ExpiryState(s, known).known
<1> DEFINE c == config.session
           p == config.expiry_exit
<1>1. PICK e \in ExpiryOf[s] : \E d \in (e - Horizon)..e :
        IsCutoffDate(d, e) /\ pass.now >= At(d, p.time)
  BY DEF ExpiryDue
<1>2. PICK d \in (e - Horizon)..e : IsCutoffDate(d, e) /\ pass.now >= At(d, p.time)
  BY <1>1
<1>3. CutoffDate(c, p, e) = d
  BY <1>2, ConfigTypes, CutoffMatches
<1>4. clock >= At(d, p.time)
  <2>1. clock \in Int /\ pass.now \in Int /\ pass.now <= clock
    BY TradingDayAssumption DEF Types, PassState
  <2>2. d \in Int
    BY ConfigTypes, CalendarAssumption
  <2>3. At(d, p.time) \in Int
    BY <2>2, ConfigTypes, DayAndTime
  <2> QED
    BY <1>2, <2>1, <2>3
<1>5. clock >= Cutoff(c, p, e)
  BY <1>3, <1>4 DEF Cutoff
<1>6. Resolves /\ p.enabled /\ ExpiryOf[s] # {}
  BY <1>1 DEF ExpiryDue, Resolves
<1>7. ExpiryState(s, known) = IF ~known THEN UnknownExpiry
                              ELSE [known |-> TRUE, due |-> TRUE, block_entry |-> TRUE]
  BY <1>5, <1>6 DEF ExpiryState, ResolveExpiry
<1> QED
  BY <1>7 DEF UnknownExpiry

LEMMA ProcessKeepsDue ==
  ASSUME Types, ConfigInv, DueInv, NEW z \in Symbols,
         SkipSymbol(z) \/ ExitSymbol(z) \/ PassSymbol(z) \/ EnterSymbol(z)
  PROVE  DueInv'
<1>1. UNCHANGED <<config, clock, phase>> /\ phase = "process"
  BY DEF SkipSymbol, ExitSymbol, PassSymbol, EnterSymbol, Processing
<1>2. pass \in PassState /\ position \in [Symbols -> BOOLEAN]
  BY DEF Types
<1>3. PICK X \in SUBSET Symbols, K \in SUBSET Symbols, U \in SUBSET Symbols :
        /\ pass'.now = pass.now /\ pass'.todo = pass.todo \ {z}
        /\ pass'.exits = pass.exits \cup X
        /\ pass'.skipped = pass.skipped \cup K
        /\ pass'.unknown = pass.unknown \cup U
        /\ \/ SkipSymbol(z) /\ K = {z} /\ Open' = Open
           \/ ExitSymbol(z) /\ X = {z} /\ Open' \subseteq Open
           \/ /\ Open' = Open
              /\ \E known \in BOOLEAN : /\ position[z] => ~ExpiryState(z, known).due
                                       /\ U = Unknown(z, known)
           \/ /\ Open' = Open \cup {z}
              /\ \E known \in BOOLEAN : MayEnter(z, known)
  <2>1. CASE SkipSymbol(z)
    <3>1. pass' = [pass EXCEPT !.todo = @ \ {z}, !.skipped = @ \cup {z}] /\ UNCHANGED position
      BY <2>1 DEF SkipSymbol
    <3>2. /\ pass'.now = pass.now /\ pass'.todo = pass.todo \ {z}
          /\ pass'.exits = pass.exits /\ pass'.skipped = pass.skipped \cup {z}
          /\ pass'.unknown = pass.unknown /\ Open' = Open
      BY <1>2, <3>1 DEF PassState, Open
    <3> WITNESS {} \in SUBSET Symbols, {z} \in SUBSET Symbols, {} \in SUBSET Symbols
    <3> QED
      BY <2>1, <3>2
  <2>2. CASE ExitSymbol(z)
    <3>1. PICK known, executed \in BOOLEAN :
            /\ pass' = [pass EXCEPT !.todo = @ \ {z}, !.exits = @ \cup {z},
                                    !.unknown = @ \cup Unknown(z, known)]
            /\ position[z] /\ position' = [position EXCEPT ![z] = ~executed]
      BY <2>2 DEF ExitSymbol
    <3> DEFINE U == Unknown(z, known)
    <3>2. /\ pass'.now = pass.now /\ pass'.todo = pass.todo \ {z}
          /\ pass'.exits = pass.exits \cup {z} /\ pass'.skipped = pass.skipped
          /\ pass'.unknown = pass.unknown \cup U
      BY <1>2, <3>1 DEF PassState
    <3>3. Open' \subseteq Open
      BY <1>2, <3>1 DEF Open
    <3>4. U \in SUBSET Symbols
      BY DEF Unknown
    <3> HIDE DEF U
    <3> WITNESS {z} \in SUBSET Symbols, {} \in SUBSET Symbols, U \in SUBSET Symbols
    <3> QED
      BY <2>2, <3>2, <3>3
  <2>3. CASE PassSymbol(z)
    <3>1. PICK known \in BOOLEAN :
            /\ pass' = [pass EXCEPT !.todo = @ \ {z}, !.unknown = @ \cup Unknown(z, known)]
            /\ UNCHANGED position
            /\ position[z] => ~ExpiryState(z, known).due
      BY <2>3 DEF PassSymbol
    <3> DEFINE U == Unknown(z, known)
    <3>2. /\ pass'.now = pass.now /\ pass'.todo = pass.todo \ {z}
          /\ pass'.exits = pass.exits /\ pass'.skipped = pass.skipped
          /\ pass'.unknown = pass.unknown \cup U /\ Open' = Open
      BY <1>2, <3>1 DEF PassState, Open
    <3>3. U = Unknown(z, known)
      OBVIOUS
    <3>4. U \in SUBSET Symbols
      BY DEF Unknown
    <3> HIDE DEF U
    <3> WITNESS {} \in SUBSET Symbols, {} \in SUBSET Symbols, U \in SUBSET Symbols
    <3> QED
      BY <3>1, <3>2, <3>3
  <2>4. CASE EnterSymbol(z)
    <3>1. PICK known \in BOOLEAN :
            /\ pass' = [pass EXCEPT !.todo = @ \ {z}, !.unknown = @ \cup Unknown(z, known)]
            /\ position' = [position EXCEPT ![z] = TRUE]
            /\ MayEnter(z, known)
      BY <2>4 DEF EnterSymbol
    <3> DEFINE U == Unknown(z, known)
    <3>2. /\ pass'.now = pass.now /\ pass'.todo = pass.todo \ {z}
          /\ pass'.exits = pass.exits /\ pass'.skipped = pass.skipped
          /\ pass'.unknown = pass.unknown \cup U
      BY <1>2, <3>1 DEF PassState
    <3>3. Open' = Open \cup {z}
      BY <1>2, <3>1 DEF Open
    <3>4. U \in SUBSET Symbols
      BY DEF Unknown
    <3> HIDE DEF U
    <3> WITNESS {} \in SUBSET Symbols, {} \in SUBSET Symbols, U \in SUBSET Symbols
    <3> QED
      BY <3>1, <3>2, <3>3
  <2> QED
    BY <2>1, <2>2, <2>3, <2>4
<1>4. IntradayDue' <=> IntradayDue
  BY <1>1, <1>3 DEF IntradayDue
<1>5. \A s \in Symbols : ExpiryDue(s)' <=> ExpiryDue(s)
  BY <1>1, <1>3 DEF ExpiryDue, IsCutoffDate, TradingDays, Resolves
<1>6. ASSUME NEW known \in BOOLEAN, MayEnter(z, known)
      PROVE  ~IntradayDue /\ ~ExpiryDue(z)
  BY <1>6, SquareOffIsDue, ExpiryIsDue DEF MayEnter
<1>7. IntradayDue => Open' \subseteq pass'.exits
  BY <1>1, <1>3, <1>6 DEF DueInv
<1>8. ASSUME NEW s \in Open' \ (pass'.exits \cup pass'.todo), ExpiryDue(s)
      PROVE  s \in pass'.skipped \cup pass'.unknown
  <2>1. CASE s # z
    <3>1. s \in Open \ (pass.exits \cup pass.todo)
      BY <1>3, <1>8, <2>1
    <3>2. s \in pass.skipped \cup pass.unknown
      BY <1>1, <1>8, <3>1 DEF DueInv
    <3> QED
      BY <1>3, <3>2
  <2>2. CASE s = z
    <3>1. ASSUME Open' = Open, NEW known \in BOOLEAN,
                 position[z] => ~ExpiryState(z, known).due
          PROVE  Unknown(z, known) = {z}
      <4>1. position[z]
        BY <1>8, <2>2, <3>1 DEF Open
      <4>2. ~known
        BY <1>8, <2>2, <3>1, <4>1, ExpiryIsDue
      <4>3. ~ExpiryState(z, known).known
        BY <1>8, <2>2, <4>2, ExpiryIsDue
      <4> QED
        BY <4>3 DEF Unknown
    <3>2. ~ \E known \in BOOLEAN : MayEnter(z, known)
      BY <1>6, <1>8, <2>2
    <3> QED
      BY <1>3, <1>8, <2>2, <3>1, <3>2
  <2> QED
    BY <2>1, <2>2
<1>9. Open' \subseteq Symbols
  BY DEF Open
<1> QED
  BY <1>4, <1>5, <1>7, <1>8, <1>9 DEF DueInv

LEMMA StepKeepsDue ==
  ASSUME Types, ConfigInv, DueInv, RecoveryInv, [Next]_tvars
  PROVE  DueInv'
<1>1. CASE phase' # "process"
  BY <1>1 DEF DueInv
<1>2. CASE UNCHANGED <<config, phase, position, pass>>
  BY <1>2 DEF DueInv, IntradayDue, ExpiryDue, IsCutoffDate, TradingDays, Resolves, Open
<1>3. CASE Start \/ Connect \/ Load \/ Resume
  BY <1>1, <1>3 DEF Start, Connect, Load, Resume, EnterLoop, BeginRecovery
<1>4. CASE Stop \/ Interrupt \/ MarketCloses \/ BrokerFailure \/ EndPass \/ GiveUp
  BY <1>1, <1>4 DEF Stop, Interrupt, MarketCloses, Leave, BrokerFailure, BeginRecovery, EndPass,
                    GiveUp
<1>5. CASE Attempt
  BY <1>1, <1>5 DEF Attempt, NextAttempt, Reconnect, RestoreFails, AttemptFails
<1>6. CASE Tick \/ BrokerEvent \/ UNCHANGED tvars
  BY <1>2, <1>6 DEF Tick, BrokerEvent, tvars, memory
<1>7. CASE BeginPass
  <2>1. PICK R \in SUBSET Open :
          /\ R \subseteq SquareOff(R).exits
          /\ position' = [s \in Symbols |-> s \in SquareOff(R).open]
          /\ pass' = [NoPass EXCEPT !.now = clock, !.todo = Symbols,
                                    !.exits = SquareOff(R).exits]
    BY <1>7 DEF BeginPass
  <2> DEFINE exits == SquareOff(R).exits
             open == SquareOff(R).open
  <2>2. UNCHANGED <<config, clock>> /\ phase' = "process"
    BY <1>7 DEF BeginPass
  <2>3. pass' = [now |-> clock, todo |-> Symbols, exits |-> exits,
                 skipped |-> {}, unknown |-> {}]
    BY <2>1 DEF NoPass
  <2>4. Open' = open
    BY <2>1 DEF Open, SquareOff
  <2> HIDE DEF exits, open
  <2>5. pass'.todo = Symbols /\ pass'.now = clock /\ pass'.exits = exits
    BY <2>3
  <2>6. clock \in Int
    BY TradingDayAssumption DEF Types
  <2>7. IntradayDue' => /\ config.position_type = "INTRADAY"
                        /\ ShouldSquareOff(config.session, clock)
    BY <2>2, <2>5, <2>6, SquareOffTime DEF IntradayDue, ShouldSquareOff
  <2>8. IntradayDue' => exits = Open /\ open \subseteq Open
    BY <2>7 DEF SquareOff, exits, open
  <2>9. Open' \subseteq Symbols
    BY DEF Open
  <2> QED
    BY <2>2, <2>4, <2>5, <2>7, <2>8, <2>9 DEF DueInv
<1>8. CASE \E s \in Symbols : SkipSymbol(s) \/ ExitSymbol(s) \/ PassSymbol(s) \/ EnterSymbol(s)
  BY <1>8, ProcessKeepsDue
<1> QED
  BY <1>3, <1>4, <1>5, <1>6, <1>7, <1>8 DEF Next, Runner

(* No pass leaves a position that was due when it began without an exit,   *)
(* whatever the calendar and the length of the pass, and however exits,    *)
(* refusals, entries and the ticks of the clock follow each other in it.   *)
THEOREM NothingDueAlways == Spec => []PassLeavesNothingDue
<1>1. Init => DueInv
  BY DEF Init, DueInv
<1>2. DueInv => PassLeavesNothingDue
  BY DEF DueInv, PassLeavesNothingDue
<1>3. Types /\ ConfigInv /\ RecoveryInv /\ DueInv /\ [Next]_tvars => DueInv'
  BY StepKeepsDue
<1> QED
  BY <1>1, <1>2, <1>3, TypesAlways, ConfigAlways, RecoveryAlways, PTL DEF Spec

=============================================================================

----------------------------- MODULE TradingDay -----------------------------
(***************************************************************************)
(* The runner of autotick/main.py against the clock: the start and its     *)
(* market gate, the passes of the loop, the new trading day, square-off,   *)
(* expiry exits, entries, broker errors and recovery, and the ways a run   *)
(* ends, for any valid session configuration.                              *)
(*                                                                         *)
(* Time passes between any two steps, also in the middle of a pass, which  *)
(* the slow calls of a broker stretch.                                     *)
(* Orders are executed at once or refused; pending orders, uncertain       *)
(* writes, unknown broker state and crashes are the subject of             *)
(* LiveTrading.  Every way to leave saves here, so the positions and       *)
(* orders of the snapshot are those of memory, and saved keeps only its    *)
(* date and risk state.                                                    *)
(***************************************************************************)
EXTENDS Expiry, ReconnectManager, RiskManager

CONSTANTS
  Symbols,
  ExpiryOf,    \* for each symbol its expiry date as {d}, or {}
  Configs,     \* configurations, of which the valid ones are run
  HostOffset,  \* how far the clock of the machine is ahead of the calendar's
  Cooldown,    \* minutes between two loads of the instrument master
  LastTime,    \* the behaviour covers the minutes 0..LastTime (a bound)
  PassLength,  \* the longest pass, in minutes (a bound)
  MaxChanges   \* how often the broker changes (a bound)

(* What the loader makes of a configuration file, as far as it is used     *)
(* here.  contracts: symbols with a configured expiry.                     *)
Config ==
  [session : Session, position_type : {"INTRADAY", "POSITIONAL"},
   strategy : STRING, expiry_exit : Policy, contracts : SUBSET Symbols]

ASSUME TradingDayAssumption ==
  /\ Configs \subseteq Config
  /\ ExpiryOf \in [Symbols -> SUBSET Nat]
  /\ HostOffset \in Int
  /\ Cooldown \in Nat
  /\ LastTime \in Nat
  /\ PassLength \in Nat
  /\ MaxChanges \in Nat

VARIABLES
  config,       \* the validated configuration
  clock,        \* the time
  changes,      \* how often the broker has changed
  position,     \* TradeManager: is a position of the symbol OPEN?
  entry,        \* the symbol's last ENTRY order: {} or {order}, see Entry
  trading_date, \* _run_realtime
  runtime_date, \* _run_providers: the date of the start
  entered,      \* _run_realtime: symbols that take no entry today
  master,       \* the instrument master, see NoMaster
  pass,         \* the running pass, see NoPass
  saved         \* the persisted trading date and risk state: {} or {record}

memory == <<position, entry, trading_date, runtime_date, entered, master>>
tvars  == <<config, clock, changes, session, access, phase, recovery, risk,
            memory, pass, saved>>

Phases == RecoveryPhases \cup {"down", "starting", "loading", "top", "process"}

(* Of an order, date is the date of the machine when it was created, whose *)
(* time zone need not be that of the calendar.  History: created, the date *)
(* of the calendar then; day, the trading date of the pass that sent it.   *)
Entry == [date : Int, created : Nat, day : Nat]

(* Loaded, with the contracts listed in it, or not before retry_after.     *)
NoMaster == [loaded |-> FALSE, listed |-> {}, retry_after |-> 0]

(* now: the time read at the top; todo: the symbols to process.  History:  *)
(* exits: symbols an exit was tried for; skipped, unknown: symbols without *)
(* a valid tick, without an expiry date.                                   *)
NoPass == [now |-> 0, todo |-> {}, exits |-> {}, skipped |-> {}, unknown |-> {}]

Today == Date(clock)
HostToday == Date(clock + HostOffset)

(* validate_config, as far as these parts of the configuration go.         *)
ValidConfig(c) ==
  /\ ValidSession(c.session, c.position_type)
  /\ ValidPolicy(c.expiry_exit, c.session)

Init ==
  /\ config \in {c \in Configs : ValidConfig(c)}
  /\ clock = 0 /\ changes = 0
  /\ session = NewSession /\ access = "up"
  /\ phase = "down" /\ recovery = NoRecovery
  /\ risk = InitialRisk
  /\ position = [s \in Symbols |-> FALSE]
  /\ entry = [s \in Symbols |-> {}]
  /\ trading_date = 0 /\ runtime_date = 0
  /\ entered = {} /\ master = NoMaster
  /\ pass = NoPass /\ saved = {}

Open == {s \in Symbols : position[s]}

(* Mutant: only what is held counts as entered.                            *)
OpenSymbols(date) == Open

(* TradeManager.entered_symbols.                                           *)
EnteredSymbols(date) == Open \cup {s \in Symbols : \E e \in entry[s] : e.date = date}

(* Mutant: a snapshot is added to the ones that are there.                 *)
SaveAlso(date, r) == saved' = saved \cup {[date |-> date, risk |-> r]}

SaveUnder(date, r) == saved' = {[date |-> date, risk |-> r]}

-----------------------------------------------------------------------------
(* Start and end of the process.                                           *)

(* Outside market hours the process ends at once, unless the market opens  *)
(* soon.                                                                   *)
MayStart ==
  \/ ~config.session.only_market_hours
  \/ IsMarketOpen(config.session, clock)
  \/ StartupWait(config.session, clock)

Start ==
  /\ phase = "down"
  /\ MayStart
  /\ phase' = "starting"
  /\ runtime_date' = Today
  /\ session' = NewSession
  /\ risk' = InitialRisk
  /\ master' = NoMaster
  /\ UNCHANGED <<config, clock, changes, access, recovery, position, entry,
                 trading_date, entered, pass, saved>>

(* recover(): the risk state of the snapshot counts on its own date only.  *)
Restored ==
  IF \E x \in saved : x.date = runtime_date
  THEN RestoreState((CHOOSE x \in saved : TRUE).risk)
  ELSE ResetDailyState(InitialRisk)

EnterLoop(date) ==
  /\ phase' = "top"
  /\ trading_date' = date
  /\ entered' = EnteredSymbols(date)
  /\ recovery' = NoRecovery

(* connect, then recover and subscribe: a broker error in any of them      *)
(* leads to the reconnect manager.                                         *)
Connect ==
  /\ phase = "starting"
  /\ session' = AfterLogin(session)
  /\ IF LoginAnswer(session) = "ok" THEN phase' = "loading" /\ UNCHANGED recovery
     ELSE BeginRecovery(LoginAnswer(session), TRUE)
  /\ UNCHANGED <<config, clock, changes, access, risk, memory, pass, saved>>

Load ==
  /\ phase = "loading"
  /\ session' = AfterCall
  /\ IF CallAnswer = "ok"
     THEN risk' = Restored /\ EnterLoop(runtime_date)
     ELSE /\ BeginRecovery(CallAnswer, TRUE)
          /\ UNCHANGED <<risk, trading_date, entered>>
  /\ UNCHANGED <<config, clock, changes, access, position, entry,
                 runtime_date, master, pass, saved>>

Leave ==
  /\ phase' = "down"
  /\ recovery' = NoRecovery
  /\ pass' = NoPass
  /\ UNCHANGED <<config, clock, changes, session, access, risk, memory>>

(* The loop ends by itself: the Swing close, or the market is closed and   *)
(* does not open soon.  The finally block saves.                           *)
SwingClose == config.strategy = "swing" /\ AfterDailyEnd(config.session, clock)

Closed ==
  /\ config.session.only_market_hours
  /\ ~IsMarketOpen(config.session, clock)

MarketCloses ==
  /\ phase = "top"
  /\ SwingClose \/ (Closed /\ ~StartupWait(config.session, clock))
  /\ SaveUnder(trading_date, risk)
  /\ Leave

(* The stop event is seen at the top of the loop and during recovery.      *)
Stop ==
  /\ phase \in {"top", "counting", "waiting"}
  /\ IF recovery.startup THEN UNCHANGED saved ELSE SaveUnder(trading_date, risk)
  /\ Leave

(* KeyboardInterrupt, at any point: runtime_date is what it was at start.  *)
Interrupt ==
  /\ phase # "down"
  /\ IF phase \in {"starting", "loading"} \/ recovery.startup
     THEN UNCHANGED saved ELSE SaveUnder(runtime_date, risk)
  /\ Leave

-----------------------------------------------------------------------------
(* One pass of the loop.                                                   *)

(* A new day begins with its first pass in an open market.                 *)
NewDay == Today # trading_date /\ IsMarketOpen(config.session, clock)

SquareOffDue ==
  /\ config.position_type = "INTRADAY"
  /\ ShouldSquareOff(config.session, pass.now)

(* square_off_intraday: an exit for every open position; R is refused.     *)
SquareOff(R) ==
  IF config.position_type = "INTRADAY" /\ ShouldSquareOff(config.session, clock)
  THEN [exits |-> Open, open |-> Open \cap R]
  ELSE [exits |-> {}, open |-> Open]

BeginPass ==
  /\ phase = "top"
  /\ ~SwingClose
  /\ ~Closed
  /\ CallAnswer = "ok"
  /\ \E R \in SUBSET Open :
       LET square_off == SquareOff(R) IN
       /\ R \subseteq square_off.exits
       /\ position' = [s \in Symbols |-> s \in square_off.open]
       /\ pass' = [NoPass EXCEPT !.now = clock, !.todo = Symbols,
                                 !.exits = square_off.exits]
  /\ IF NewDay
     THEN /\ risk' = ResetDailyState(risk)
          /\ entered' = {}
          /\ trading_date' = Today
     ELSE UNCHANGED <<risk, entered, trading_date>>
  /\ phase' = "process"
  /\ UNCHANGED <<config, clock, changes, session, access, recovery, entry,
                 runtime_date, master, saved>>

(* get_contract(): the instrument master is loaded once; after a failure   *)
(* not before the cooldown.  It lists what it lists; the configuration     *)
(* stands in for the rest.  (The instrument itself has been looked up for  *)
(* the tick.)  known: is the expiry found?                                 *)
Resolves ==
  /\ config.position_type = "POSITIONAL"
  /\ config.expiry_exit.enabled

LoadContracts ==
  \/ \E listed \in SUBSET Symbols :
       master' = [NoMaster EXCEPT !.loaded = TRUE, !.listed = listed]
  \/ master' = [NoMaster EXCEPT !.retry_after = clock + Cooldown]

GetContract(s, known) ==
  /\ IF ~Resolves \/ master.loaded \/ clock < master.retry_after
     THEN UNCHANGED master ELSE LoadContracts
  /\ known = (~Resolves \/ s \in master'.listed \cup config.contracts)

ExpiryState(s, known) ==
  IF Resolves
  THEN ResolveExpiry(config.session, config.expiry_exit, ExpiryOf[s], known, clock)
  ELSE NoExpiry

Processing(s) ==
  /\ phase = "process"
  /\ CallAnswer = "ok"
  /\ s \in pass.todo
  /\ UNCHANGED <<config, clock, changes, session, access, phase, recovery,
                 trading_date, runtime_date, saved>>

(* A symbol without a valid tick is passed over altogether.                *)
SkipSymbol(s) ==
  /\ Processing(s)
  /\ pass' = [pass EXCEPT !.todo = @ \ {s}, !.skipped = @ \cup {s}]
  /\ UNCHANGED <<risk, position, entry, entered, master>>

(* Mutant: an unknown expiry is only logged.                               *)
OnlyWarned(s, known) == risk

(* An open derivative of unknown expiry stops all entries.                 *)
AfterExpiryCheck(s, known) ==
  IF position[s] /\ ~ExpiryState(s, known).known THEN ActivateKillSwitch(risk)
  ELSE risk

Unknown(s, known) == IF ExpiryState(s, known).known THEN {} ELSE {s}

(* An exit, at the expiry cutoff or when the exit monitor asks for one,    *)
(* which any price may make it do; executed or refused.                    *)
ExitSymbol(s) ==
  \E known, executed \in BOOLEAN :
    /\ Processing(s)
    /\ GetContract(s, known)
    /\ position[s]
    /\ risk' = AfterExpiryCheck(s, known)
    /\ position' = [position EXCEPT ![s] = ~executed]
    /\ pass' = [pass EXCEPT !.todo = @ \ {s}, !.exits = @ \cup {s},
                            !.unknown = @ \cup Unknown(s, known)]
    /\ UNCHANGED <<entry, entered>>

(* Mutant: the square-off of this pass does not stop entries.              *)
MayEnterAgain(s, known) ==
  ~ExpiryState(s, known).block_entry /\ ~position[s] /\ s \notin entered

MayEnter(s, known) ==
  /\ ~SquareOffDue
  /\ ~ExpiryState(s, known).block_entry
  /\ ~position[s] /\ s \notin entered

(* No exit, and no entry, allowed or wanted.                               *)
PassSymbol(s) ==
  \E known \in BOOLEAN :
    /\ Processing(s)
    /\ GetContract(s, known)
    /\ position[s] => ~ExpiryState(s, known).due
    /\ risk' = AfterExpiryCheck(s, known)
    /\ pass' = [pass EXCEPT !.todo = @ \ {s}, !.unknown = @ \cup Unknown(s, known)]
    /\ UNCHANGED <<position, entry, entered>>

EnterSymbol(s) ==
  \E known \in BOOLEAN :
    /\ Processing(s)
    /\ GetContract(s, known)
    /\ MayEnter(s, known)
    /\ CanTrade(risk, TRUE)
    /\ risk' = RecordEntry(risk)
    /\ position' = [position EXCEPT ![s] = TRUE]
    /\ entry' = [entry EXCEPT ![s] = {[date |-> HostToday, created |-> Today,
                                          day |-> trading_date]}]
    /\ entered' = entered \cup {s}
    /\ pass' = [pass EXCEPT !.todo = @ \ {s}, !.unknown = @ \cup Unknown(s, known)]

EndPass ==
  /\ phase = "process"
  /\ pass.todo = {}
  /\ SaveUnder(trading_date, risk)
  /\ phase' = "top"
  /\ pass' = NoPass
  /\ UNCHANGED <<config, clock, changes, session, access, recovery, risk, memory>>

-----------------------------------------------------------------------------
(* Broker errors and recovery.                                             *)

(* A call of the pass fails; the rest of the pass is left.  (The trading   *)
(* day has begun by then, if a new one was due.)                           *)
BrokerFailure ==
  /\ \/ phase = "top" /\ ~SwingClose /\ ~Closed
     \/ phase = "process" /\ pass.todo # {}
  /\ CallAnswer # "ok"
  /\ session' = AfterCall
  /\ BeginRecovery(CallAnswer, FALSE)
  /\ pass' = NoPass
  /\ IF phase = "top" /\ NewDay
     THEN /\ risk' = ResetDailyState(risk)
          /\ trading_date' = Today
          /\ entered' = {}
     ELSE UNCHANGED <<risk, trading_date, entered>>
  /\ UNCHANGED <<config, clock, changes, access, position, entry,
                 runtime_date, master, saved>>

Attempt ==
  /\ \/ NextAttempt /\ UNCHANGED session
     \/ Reconnect
     \/ RestoreFails
  /\ UNCHANGED <<config, clock, changes, access, risk, memory, pass, saved>>

(* Kill switch, save, stop - at startup without touching the saved state.  *)
GiveUp ==
  /\ Exhausted
  /\ phase' = "down"
  /\ recovery' = NoRecovery
  /\ risk' = ActivateKillSwitch(risk)
  /\ IF recovery.startup THEN UNCHANGED saved ELSE SaveUnder(trading_date, risk')
  /\ UNCHANGED <<config, clock, changes, session, access, memory, pass>>

(* Subscriptions and state are back: recover() at startup, else            *)
(* reconcile(trading_date) and a save.                                     *)
Resume ==
  /\ phase = "reconnected"
  /\ CallAnswer = "ok"
  /\ IF recovery.startup
     THEN risk' = Restored /\ UNCHANGED saved /\ EnterLoop(runtime_date)
     ELSE UNCHANGED risk /\ SaveUnder(trading_date, risk) /\ EnterLoop(trading_date)
  /\ UNCHANGED <<config, clock, changes, session, access, position, entry,
                 runtime_date, master, pass>>

-----------------------------------------------------------------------------
(* The environment.                                                        *)

Tick ==
  /\ clock < LastTime
  /\ phase = "process" => clock < pass.now + PassLength
  /\ clock' = clock + 1
  /\ UNCHANGED <<config, changes, session, access, phase, recovery, risk, memory,
                 pass, saved>>

BrokerEvent ==
  /\ changes < MaxChanges
  /\ changes' = changes + 1
  /\ BrokerChanges
  /\ UNCHANGED <<config, clock, phase, recovery, risk, memory, pass, saved>>

Runner ==
  \/ Connect \/ Load \/ MarketCloses \/ BeginPass \/ EndPass
  \/ \E s \in Symbols :
       SkipSymbol(s) \/ ExitSymbol(s) \/ PassSymbol(s) \/ EnterSymbol(s)
  \/ BrokerFailure \/ Attempt \/ GiveUp \/ Resume

Next == Start \/ Stop \/ Interrupt \/ Tick \/ BrokerEvent \/ Runner

Spec == Init /\ [][Next]_tvars

(* A process that runs goes on.                                            *)
FairSpec == Spec /\ WF_tvars(Runner)

=============================================================================

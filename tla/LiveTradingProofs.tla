------------------------- MODULE LiveTradingProofs --------------------------
(***************************************************************************)
(* Proofs about the Live runner, for every value of its constants.         *)
(*                                                                         *)
(* What the process has in memory and what it has saved describe the same  *)
(* kind of state (MemoryOK): a restart takes the one for the other, and a  *)
(* reconciliation replaces the quantities of the managed positions by the  *)
(* broker's, which are the sums of finitely many executions (Sums).        *)
(* The second half is about the account: that no entry meets what the      *)
(* broker holds, that what is managed is what is held, and that the trades *)
(* the broker sees implement TradeCycle.                                   *)
(***************************************************************************)
EXTENDS LiveTradingProps, FillProofs

(* A state of the trade manager and the risk manager that may be resumed.  *)
MemoryOK(m) ==
  /\ m = [orders |-> m.orders, positions |-> m.positions,
          exit_levels |-> m.exit_levels, trades |-> m.trades, risk |-> m.risk]
  /\ DOMAIN m.orders \subseteq OrderIds
  /\ \A i \in DOMAIN m.orders : m.orders[i] \in Order
  /\ m.positions \in [Symbols -> Position]
  /\ m.exit_levels \subseteq Symbols
  /\ m.trades \in [OrderIds -> Nat]
  /\ m.risk \in RiskState
  /\ \A s \in Symbols : Active(m.positions[s]) <=> m.positions[s].quantity # 0
  /\ \A s \in Symbols : m.positions[s].quantity # 0 <=> s \in m.exit_levels

SavedOK ==
  /\ saved = <<>> \/ (saved = <<saved[1]>> /\ MemoryOK(saved[1]))
  /\ savedToday \in BOOLEAN
  /\ misdated \in BOOLEAN

RunnerOK ==
  /\ phase \in Phases
  /\ todo \subseteq Symbols
  /\ entered \subseteq Symbols
  /\ blocked \subseteq Symbols
  /\ recovery \in [startup : BOOLEAN, uncertain : BOOLEAN,
                   unresolved : BOOLEAN, unknown : SUBSET Symbols]
  /\ phase = "down" => DOMAIN inbox = {} /\ raised = "none"

DatesOK ==
  /\ date \in 0..LastDate
  /\ today \subseteq OrderIds
  /\ stale \in BOOLEAN
  /\ earlier \subseteq OrderIds
  /\ aged \in BOOLEAN
  /\ doubled \subseteq Symbols

LInv == IInv /\ BookFinite /\ SavedOK /\ RunnerOK /\ DatesOK

LEMMA LInvParts ==
  ASSUME LInv
  PROVE  LiveTypeOK /\ StatusMatchesQuantity /\ HeldIsProtected /\ SnapshotIsProtected
<1>1. saved = <<>> \/ DOMAIN saved = {1}
  <2>1. \A m : DOMAIN <<m>> = {1}
    OBVIOUS
  <2> QED
    BY <2>1 DEF LInv, SavedOK
<1>2. LiveTypeOK
  BY <1>1 DEF LInv, IInv, RunnerOK, DatesOK, SavedOK, LiveTypeOK
<1>3. SnapshotIsProtected
  BY DEF LInv, SavedOK, MemoryOK, SnapshotIsProtected
<1> QED
  BY <1>2, <1>3 DEF LInv, IInv

-----------------------------------------------------------------------------
(* The risk methods of the runner keep the types of the risk state.        *)
LEMMA RunnerRiskTypes ==
  ASSUME NEW r \in RiskState
  PROVE  /\ ActivateKillSwitch(r) \in RiskState
         /\ BlockForPersistenceFailure(r) \in RiskState
         /\ RestoreState(r) \in RiskState
         /\ ResetDailyState(r) \in RiskState
<1>1. \A x \in RiskState : ActivateKillSwitch(x) \in RiskState
  BY DEF ActivateKillSwitch, RiskState
<1>2. BlockForPersistenceFailure(r) \in RiskState
  <2>1. [r EXCEPT !.persistence_failed = TRUE] \in RiskState
    BY DEF RiskState
  <2> QED
    BY <1>1, <2>1 DEF BlockForPersistenceFailure
<1>3. RestoreState(r) \in RiskState
  <2> DEFINE k == r.kill_switch \/ r.persistence_failed \/ LimitReached(r)
  <2>1. k \in BOOLEAN
    OBVIOUS
  <2> HIDE DEF k
  <2>2. [r EXCEPT !.kill_switch = k] \in RiskState
    BY <2>1 DEF RiskState
  <2> QED
    BY <2>2 DEF RestoreState, k
<1>4. ResetDailyState(r) \in RiskState
  <2> DEFINE a == [r EXCEPT !.trade_count = 0]
             b == [a EXCEPT !.daily_pnl = 0]
             c == [b EXCEPT !.kill_switch = r.persistence_failed]
  <2>1. a \in RiskState
    BY DEF RiskState
  <2>2. b \in RiskState
    <3> HIDE DEF a
    <3> QED
      BY <2>1 DEF RiskState
  <2>3. c \in RiskState
    <3>1. r.persistence_failed \in BOOLEAN
      BY DEF RiskState
    <3> HIDE DEF b
    <3> QED
      BY <2>2, <3>1 DEF RiskState
  <2>4. ResetDailyState(r) = c
    BY Zenon DEF ResetDailyState
  <2> QED
    BY <2>3, <2>4
<1> QED
  BY <1>1, <1>2, <1>3, <1>4

-----------------------------------------------------------------------------
(* Memory and snapshot.                                                    *)

LEMMA MemoryIsOK ==
  ASSUME IInv
  PROVE  MemoryOK(Memory)
BY DEF IInv, TypeOK, StatusMatchesQuantity, HeldIsProtected, Memory, MemoryOK

LEMMA EmptyMemoryIsOK == MemoryOK(EmptyMemory)
BY DEF EmptyMemory, MemoryOK, EmptyDict, NoPosition, Position, InitialRisk, RiskState, Active

(* The same state with another risk state.                                 *)
LEMMA OtherRisk ==
  ASSUME NEW m, MemoryOK(m), NEW r \in RiskState
  PROVE  /\ MemoryOK([m EXCEPT !.risk = r])
         /\ [m EXCEPT !.risk = r].orders = m.orders
<1> DEFINE n == [orders |-> m.orders, positions |-> m.positions,
                 exit_levels |-> m.exit_levels, trades |-> m.trades, risk |-> r]
<1>1. [m EXCEPT !.risk = r] = n
  <2>1. m = [orders |-> m.orders, positions |-> m.positions,
             exit_levels |-> m.exit_levels, trades |-> m.trades, risk |-> m.risk]
    BY DEF MemoryOK
  <2> QED
    BY <2>1
<1>2. MemoryOK(n)
  BY DEF MemoryOK
<1> QED
  BY <1>1, <1>2

LEMMA RestoredIsOK ==
  ASSUME SavedOK
  PROVE  MemoryOK(Restored)
<1>1. CASE saved = <<>>
  BY <1>1, EmptyMemoryIsOK DEF Restored
<1>2. CASE saved # <<>>
  <2> DEFINE r == IF savedToday THEN RestoreState(saved[1].risk)
                                ELSE ResetDailyState(InitialRisk)
  <2>1. MemoryOK(saved[1]) /\ saved[1].risk \in RiskState /\ InitialRisk \in RiskState
    BY <1>2 DEF SavedOK, MemoryOK, InitialRisk, RiskState
  <2>2. r \in RiskState
    BY <2>1, RunnerRiskTypes
  <2>3. Restored = [saved[1] EXCEPT !.risk = r]
    BY <1>2 DEF Restored
  <2> HIDE DEF r
  <2> QED
    BY <2>1, <2>2, <2>3, OtherRisk
<1> QED
  BY <1>1, <1>2

(* A state that may be resumed, with nothing left to apply.                *)
LEMMA SetMemoryKeepsIInv ==
  ASSUME IInv, NEW m, MemoryOK(m), SetMemory(m), DOMAIN inbox' = {}, Raised',
         UNCHANGED book
  PROVE  IInv'
BY DEF IInv, TypeOK, StatusMatchesQuantity, HeldIsProtected, MemoryOK, SetMemory, Raised

LEMMA WrittenIsOK ==
  ASSUME SavedOK, NEW m, MemoryOK(m), NEW current \in BOOLEAN, WrittenUnder(m, current)
  PROVE  SavedOK'
<1>1. CASE UNCHANGED store
  BY <1>1 DEF store, SavedOK
<1>2. CASE /\ saved' = <<m>> /\ savedToday' = current
           /\ misdated' = (misdated \/ (~current /\ ~stale))
  BY <1>2 DEF SavedOK
<1> QED
  BY <1>1, <1>2 DEF WrittenUnder

LEMMA SaveMemoryIsOK ==
  ASSUME SavedOK, NEW m, MemoryOK(m), SaveMemory(m)
  PROVE  SavedOK' /\ risk' \in RiskState
<1>1. m.risk \in RiskState
  BY DEF MemoryOK
<1>2. CASE risk' = m.risk /\ Written(m)
  BY <1>1, <1>2, WrittenIsOK DEF Written, SavedOK
<1>3. CASE risk' = BlockForPersistenceFailure(m.risk) /\ UNCHANGED store
  BY <1>1, <1>3, RunnerRiskTypes DEF store, SavedOK
<1> QED
  BY <1>2, <1>3 DEF SaveMemory

LEMMA LeaveKeeps ==
  ASSUME LInv, Leave, SavedOK', UNCHANGED <<book, date, today>>
  PROVE  LInv'
<1>1. IInv'
  BY EmptyMemoryIsOK, SetMemoryKeepsIInv DEF Leave, EmptyDict, Raised, LInv
<1>2. BookFinite'
  BY DEF LInv, BookFinite
<1>3. RunnerOK'
  BY DEF Leave, RunnerOK, NoRecovery, Phases, EmptyDict
<1>4. DatesOK'
  BY DEF Leave, DatesOK, LInv
<1> QED
  BY <1>1, <1>2, <1>3, <1>4 DEF LInv

-----------------------------------------------------------------------------
(* The actions that leave the process, or start it.                        *)

LEMMA LeavingKeeps ==
  ASSUME LInv,
         Shutdown \/ Abort \/ Crash \/ StopAfterUncertainWrite \/ AuthenticationExhausted,
         StopAfterUncertainWrite => MemoryOK(Reconciliation)
  PROVE  LInv'
<1> DEFINE Ends(r) == [Memory EXCEPT !.risk = r]
<1>1. /\ SavedOK /\ MemoryOK(Memory) /\ risk \in RiskState
      /\ ActivateKillSwitch(risk) \in RiskState
      /\ (~stale) \in BOOLEAN /\ (~aged) \in BOOLEAN
  BY MemoryIsOK, RunnerRiskTypes DEF LInv, IInv, TypeOK
<1>2. CASE Shutdown
  BY <1>1, <1>2, WrittenIsOK, LeaveKeeps DEF Shutdown, Written
<1>3. CASE Abort
  <2>1. SavedOK'
    BY <1>1, <1>3, WrittenIsOK DEF Abort, store, SavedOK
  <2> QED
    BY <1>3, <2>1, LeaveKeeps DEF Abort
<1>4. CASE Crash
  <2>1. SavedOK'
    BY <1>1, <1>4 DEF Crash, store, SavedOK
  <2> QED
    BY <1>4, <2>1, LeaveKeeps DEF Crash
<1>5. CASE StopAfterUncertainWrite
  <2>1. /\ MemoryOK(Reconciliation) /\ Reconciliation.risk \in RiskState
    BY <1>5 DEF MemoryOK
  <2>2. MemoryOK([Reconciliation EXCEPT !.risk = ActivateKillSwitch(@)])
    BY <2>1, RunnerRiskTypes, OtherRisk
  <2> QED
    BY <1>1, <1>5, <2>2, WrittenIsOK, LeaveKeeps DEF StopAfterUncertainWrite, Written
<1>6. CASE AuthenticationExhausted
  <2>1. MemoryOK([Memory EXCEPT !.risk = ActivateKillSwitch(risk)])
    BY <1>1, OtherRisk
  <2>2. SavedOK'
    BY <1>1, <1>6, <2>1, WrittenIsOK DEF AuthenticationExhausted, Written, store, SavedOK
  <2> QED
    BY <1>6, <2>2, LeaveKeeps DEF AuthenticationExhausted
<1> QED
  BY <1>2, <1>3, <1>4, <1>5, <1>6

LEMMA StartKeeps ==
  ASSUME LInv, Start \/ RecoveryFailure, MemoryOK(Reconciliation)
  PROVE  LInv'
<1> DEFINE taken == [orders |-> orders, positions |-> Reconciliation.positions,
                     exit_levels |-> Reconciliation.exit_levels, trades |-> trades,
                     risk |-> risk]
<1>1. MemoryOK(Restored) /\ MemoryOK(Memory) /\ MemoryOK(taken)
  <2>1. MemoryOK(Restored) /\ MemoryOK(Memory)
    BY RestoredIsOK, MemoryIsOK DEF LInv
  <2>2. MemoryOK(taken)
    BY <2>1 DEF MemoryOK, Memory
  <2> QED
    BY <2>1, <2>2
<1>2. DOMAIN inbox = {} /\ UNCHANGED <<inbox, raised, book, store, dates>>
  BY DEF Start, RecoveryFailure, LInv, RunnerOK, Idle
<1>3. SetMemory(Restored) \/ SetMemory(Memory) \/ SetMemory(taken)
  BY DEF Start, RecoveryFailure, SetMemory, Memory
<1> HIDE DEF taken
<1>4. IInv'
  BY <1>1, <1>2, <1>3, SetMemoryKeepsIInv DEF LInv, IInv, TypeOK, Raised
<1>5. RunnerOK'
  <2>1. CASE Start
    <3>1. [NoRecovery EXCEPT !.startup = TRUE]
            \in [startup : BOOLEAN, uncertain : BOOLEAN,
                 unresolved : BOOLEAN, unknown : SUBSET Symbols]
      BY DEF NoRecovery
    <3> QED
      BY <2>1, <3>1 DEF Start, LInv, RunnerOK, Phases
  <2>2. CASE RecoveryFailure
    BY <2>2 DEF RecoveryFailure, LInv, RunnerOK, Phases
  <2> QED
    BY <2>1, <2>2
<1> QED
  BY <1>2, <1>4, <1>5 DEF LInv, BookFinite, SavedOK, DatesOK, store, dates

-----------------------------------------------------------------------------
(* The actions that call the trade manager.                                *)

LEMMA ManagerKeeps ==
  ASSUME LInv,
         \/ \E id \in DOMAIN inbox : ApplyReport(id) \/ ApplyRecovered(id)
         \/ \E s \in Symbols : ProcessEntry(s) \/ ProcessExit(s)
         \/ \E id \in DOMAIN book : BrokerMove(id)
  PROVE  LInv'
<1>1. CASE \E id \in DOMAIN inbox : ApplyReport(id) \/ ApplyRecovered(id)
  <2>1. PICK id \in DOMAIN inbox : ApplyReport(id) \/ ApplyRecovered(id)
    BY <1>1
  <2>2. ReconcileOne(id) /\ UNCHANGED <<book, store, dates, phase, todo, blocked, recovery>>
    BY <2>1 DEF ApplyReport, ApplyRecovered, ReconcileOne, runner
  <2>3. IInv'
    BY <2>2, NextKeepsIInv DEF LInv, Next, RunnerNext
  <2>4. entered' \subseteq entered
    BY <2>1 DEF ApplyReport, ApplyRecovered, runner
  <2>5. phase # "down"
    BY <2>1 DEF ApplyReport, ApplyRecovered
  <2> QED
    BY <2>2, <2>3, <2>4, <2>5
       DEF LInv, BookFinite, SavedOK, RunnerOK, DatesOK, store, dates
<1>2. CASE \E s \in Symbols : ProcessEntry(s) \/ ProcessExit(s)
  <2>1. PICK s \in Symbols : ProcessEntry(s) \/ ProcessExit(s)
    BY <1>2
  <2>2. EnterTrade(s) \/ SubmitExit(s)
    BY <2>1 DEF ProcessEntry, ProcessExit
  <2>3. IInv'
    BY <2>2, NextKeepsIInv DEF LInv, Next, RunnerNext
  <2>4. BookFinite'
    <3>1. PICK id : Appears(id)
      BY <2>2, EnterAppears, ExitAppears DEF LInv
    <3>2. \E n : DOMAIN book' = DOMAIN book \/ DOMAIN book' = DOMAIN book \cup {n}
      BY <3>1 DEF Appears
    <3> QED
      BY <3>2, FS_AddElement DEF LInv, BookFinite
  <2>5. /\ phase = "process" /\ todo' \subseteq todo
        /\ entered' \subseteq entered \cup {s}
        /\ today' \subseteq today \cup DOMAIN orders' \cup DOMAIN book'
        /\ UNCHANGED <<phase, blocked, recovery, store, date, stale, earlier, aged>>
        /\ doubled' \subseteq doubled \cup {s}
    BY <2>1 DEF ProcessEntry, ProcessExit, NewIds
  <2>6. today' \subseteq OrderIds
    BY <2>3, <2>5 DEF LInv, DatesOK, IInv, TypeOK
  <2> QED
    BY <2>3, <2>4, <2>5, <2>6 DEF LInv, SavedOK, RunnerOK, DatesOK, store
<1>3. CASE \E id \in DOMAIN book : BrokerMove(id)
  <2>1. PICK id \in DOMAIN book : BrokerMove(id)
    BY <1>3
  <2>2. /\ BrokerStep(id) /\ DOMAIN book' = DOMAIN book
        /\ UNCHANGED <<runner, store, dates, inbox, raised>>
    BY <2>1 DEF BrokerMove, BrokerStep, tmvars
  <2>3. IInv'
    BY <2>2, NextKeepsIInv DEF LInv, Next, RunnerNext
  <2> QED
    BY <2>2, <2>3
       DEF LInv, BookFinite, SavedOK, RunnerOK, DatesOK, store, dates, runner
<1> QED
  BY <1>1, <1>2, <1>3

-----------------------------------------------------------------------------
(* Reading the order book.                                                 *)

LEMMA InboxKeepsIInv ==
  ASSUME IInv, UNCHANGED <<tmvars, risk, book>>, DOMAIN inbox' \subseteq DOMAIN orders,
         \A i \in DOMAIN inbox' : /\ inbox'[i].status \in OrderStatus
                                  /\ inbox'[i].filled \in Nat
  PROVE  IInv'
BY DEF tmvars, IInv, TypeOK, StatusMatchesQuantity, HeldIsProtected

LEMMA ReadsKeep ==
  ASSUME LInv, ReadOrderBook \/ ReadOrders
  PROVE  LInv'
<1>1. /\ \A i \in Reported : i \in DOMAIN orders /\ book[i] \in Order
      /\ \A i \in DOMAIN orders : orders[i] \in Order
  BY DEF Reported, LInv, IInv, TypeOK
<1>2. UNCHANGED <<tmvars, risk, book, todo, entered, blocked, store, dates>>
  BY DEF ReadOrderBook, ReadOrders
<1>3. /\ DOMAIN inbox' \subseteq DOMAIN orders
      /\ \A i \in DOMAIN inbox' : inbox'[i].status \in OrderStatus /\ inbox'[i].filled \in Nat
  <2>1. CASE ReadOrderBook
    BY <1>1, <2>1 DEF ReadOrderBook, Order
  <2>2. CASE ReadOrders
    <3>1. /\ DOMAIN inbox' = Legal \cup (Missing \ NotOlder)
          /\ \A i \in Legal : inbox'[i] = [status |-> book[i].status, filled |-> book[i].filled]
          /\ \A i \in (Missing \ NotOlder) \ Legal :
               inbox'[i] = [status |-> "EXPIRED", filled |-> orders[i].filled]
      BY <2>2 DEF ReadOrders
    <3>2. Legal \subseteq Reported /\ Missing \subseteq DOMAIN orders
      BY DEF Legal, Changed, Missing
    <3>3. "EXPIRED" \in OrderStatus
      BY DEF OrderStatus, Terminal, Unfilled
    <3>4. /\ \A i \in Reported : i \in DOMAIN orders /\ book[i].status \in OrderStatus
                                 /\ book[i].filled \in Nat
          /\ \A i \in DOMAIN orders : orders[i].filled \in Nat
      BY <1>1 DEF Order
    <3>5. ASSUME NEW i \in DOMAIN inbox'
          PROVE  inbox'[i].status \in OrderStatus /\ inbox'[i].filled \in Nat
      <4>1. CASE i \in Legal
        BY <3>1, <3>2, <3>4, <4>1
      <4>2. CASE i \in (Missing \ NotOlder) \ Legal
        <5>1. inbox'[i] = [status |-> "EXPIRED", filled |-> orders[i].filled]
          BY <3>1, <4>2
        <5>2. orders[i].filled \in Nat
          BY <3>2, <3>4, <4>2
        <5>3. inbox'[i].status = "EXPIRED" /\ inbox'[i].filled = orders[i].filled
          BY <5>1
        <5> QED
          BY <3>3, <5>2, <5>3
      <4> QED
        BY <3>1, <4>1, <4>2
    <3> QED
      BY <3>1, <3>2, <3>4, <3>5
  <2> QED
    BY <2>1, <2>2
<1>4. IInv'
  BY <1>2, <1>3, InboxKeepsIInv DEF LInv
<1>5. recovery' \in [startup : BOOLEAN, uncertain : BOOLEAN,
                     unresolved : BOOLEAN, unknown : SUBSET Symbols]
  <2>1. CASE ReadOrderBook
    BY <2>1 DEF ReadOrderBook, LInv, RunnerOK
  <2>2. CASE ReadOrders
    <3> DEFINE U == (Missing \cap NotOlder # {} \/ Changed \ Legal # {})
               K == {book[i].symbol : i \in {j \in UnknownIds :
                       book[j].status \in Pending \cup {"FILLED"}}}
               r == [recovery EXCEPT !.unresolved = U]
    <3>1. U \in BOOLEAN
      OBVIOUS
    <3>2. K \subseteq Symbols
      BY DEF UnknownIds, LInv, IInv, TypeOK, Order
    <3>3. recovery' = [recovery EXCEPT !.unresolved = U, !.unknown = K]
      BY <2>2 DEF ReadOrders
    <3> HIDE DEF U, K
    <3>4. r \in [startup : BOOLEAN, uncertain : BOOLEAN,
                 unresolved : BOOLEAN, unknown : SUBSET Symbols]
      BY <3>1 DEF LInv, RunnerOK
    <3>5. recovery' = [r EXCEPT !.unknown = K]
      BY <3>3, Zenon
    <3> HIDE DEF r
    <3> QED
      BY <3>2, <3>4, <3>5
  <2> QED
    BY <2>1, <2>2
<1>6. RunnerOK'
  BY <1>2, <1>5 DEF ReadOrderBook, ReadOrders, LInv, RunnerOK, Phases
<1> QED
  BY <1>2, <1>4, <1>6 DEF LInv, BookFinite, SavedOK, DatesOK, store, dates

-----------------------------------------------------------------------------
(* The provider's positions replace the managed quantities.                *)

LEMMA ReconciliationIsOK ==
  ASSUME IInv, BookFinite
  PROVE  MemoryOK(Reconciliation)
<1> DEFINE m == Reconciliation
<1>1. \A s \in Symbols : BrokerPosition(s) \in Int
  BY BrokerPositionType
<1>2. /\ \A s \in Symbols : positions[s] \in Position
      /\ \A s \in Symbols : Active(positions[s]) <=> positions[s].quantity # 0
      /\ \A s \in Symbols : positions[s].quantity # 0 <=> s \in exit_levels
      /\ exit_levels \subseteq Symbols
      /\ \A s \in Symbols : s \in Managed <=> Active(positions[s])
  BY DEF IInv, TypeOK, StatusMatchesQuantity, HeldIsProtected, Managed
<1>3. ASSUME NEW s \in Symbols
      PROVE  /\ ProviderPosition(s) \in Position
             /\ Active(ProviderPosition(s)) <=> ProviderPosition(s).quantity # 0
             /\ ProviderPosition(s).quantity # 0 <=> s \in ProviderLevels
  <2>1. CASE s \notin Managed
    BY <1>2, <2>1 DEF ProviderPosition, ProviderLevels
  <2>2. CASE s \in Managed /\ BrokerPosition(s) = 0
    <3>1. ProviderPosition(s) = [quantity |-> 0, status |-> "CLOSED"]
      BY <2>2 DEF ProviderPosition
    <3> QED
      BY <2>2, <3>1 DEF ProviderLevels, Position, Active
  <2>3. CASE s \in Managed /\ BrokerPosition(s) # 0
    <3>1. ProviderPosition(s) = [positions[s] EXCEPT !.quantity = BrokerPosition(s)]
      BY <2>3 DEF ProviderPosition
    <3>2. /\ ProviderPosition(s) \in Position
          /\ ProviderPosition(s).quantity = BrokerPosition(s)
          /\ ProviderPosition(s).status = positions[s].status
      BY <1>1, <1>2, <3>1 DEF Position
    <3> QED
      BY <1>2, <2>3, <3>2 DEF ProviderLevels, Active
  <2> QED
    BY <2>1, <2>2, <2>3
<1>4. m.positions \in [Symbols -> Position] /\ m.exit_levels \subseteq Symbols
  BY <1>2, <1>3 DEF Reconciliation, ProviderLevels
<1>5. m.trades \in [OrderIds -> Nat]
  BY DEF Reconciliation, ProviderTrades, IInv, TypeOK
<1>6. m.risk \in RiskState
  BY RunnerRiskTypes DEF Reconciliation, IInv, TypeOK
<1>7. /\ m.orders = orders /\ m.exit_levels = ProviderLevels
      /\ \A s \in Symbols : m.positions[s] = ProviderPosition(s)
      /\ m = [orders |-> m.orders, positions |-> m.positions,
              exit_levels |-> m.exit_levels, trades |-> m.trades, risk |-> m.risk]
  BY DEF Reconciliation
<1> HIDE DEF m
<1>8. MemoryOK(m)
  BY <1>3, <1>4, <1>5, <1>6, <1>7 DEF MemoryOK, IInv, TypeOK
<1> QED
  BY <1>8 DEF m

LEMMA ReadPositionsKeeps ==
  ASSUME LInv, ReadPositions
  PROVE  LInv'
<1> DEFINE m == Reconciliation
<1>1. MemoryOK(m) /\ SavedOK
  BY ReconciliationIsOK DEF LInv
<1>2. /\ m.orders = orders
      /\ positions' = m.positions /\ exit_levels' = m.exit_levels /\ trades' = m.trades
      /\ UNCHANGED <<orders, inbox, raised, todo, book, dates>>
      /\ DOMAIN inbox = {}
  BY DEF ReadPositions, Reconciliation, Idle
<1>3. SavedOK' /\ risk' \in RiskState
  <2>1. CASE recovery.startup
    BY <1>1, <2>1 DEF ReadPositions, store, SavedOK, MemoryOK
  <2>2. CASE ~recovery.startup
    BY <1>1, <2>2, SaveMemoryIsOK DEF ReadPositions
  <2> QED
    BY <2>1, <2>2
<1> HIDE DEF m
<1>4. IInv'
  BY <1>1, <1>2, <1>3
     DEF LInv, IInv, TypeOK, StatusMatchesQuantity, HeldIsProtected, MemoryOK
<1>5. blocked' \subseteq Symbols
  BY DEF ReadPositions, Found, Unmanaged, LInv, RunnerOK
<1>6. EnteredSymbols(m.positions, orders) \subseteq Symbols
  BY DEF EnteredSymbols, LInv, IInv, TypeOK, Order
<1>7. entered' \subseteq Symbols
  BY <1>5, <1>6 DEF ReadPositions, m
<1>8. recovery' \in [startup : BOOLEAN, uncertain : BOOLEAN,
                     unresolved : BOOLEAN, unknown : SUBSET Symbols]
  BY DEF ReadPositions, NoRecovery
<1>9. RunnerOK'
  BY <1>2, <1>5, <1>7, <1>8 DEF ReadPositions, LInv, RunnerOK, Phases
<1> QED
  BY <1>2, <1>3, <1>4, <1>9 DEF LInv, BookFinite, DatesOK, dates

-----------------------------------------------------------------------------
(* The rest of the loop, the dates, and the owner.                         *)

LEMMA LoopKeeps ==
  ASSUME LInv, Reconciled \/ EndPass \/ NewTradingDay \/ BrokerFailure
  PROVE  LInv'
<1>1. UNCHANGED <<orders, positions, exit_levels, trades, inbox, book>>
  BY DEF Reconciled, EndPass, NewTradingDay, BrokerFailure, vars, tmvars
<1>2. SavedOK' /\ risk' \in RiskState
  <2>1. risk \in RiskState /\ SavedOK /\ MemoryOK(Memory)
    BY MemoryIsOK DEF LInv, IInv, TypeOK
  <2>2. CASE EndPass
    BY <2>1, <2>2, SaveMemoryIsOK DEF EndPass
  <2>3. CASE NewTradingDay
    BY <2>1, <2>3, RunnerRiskTypes DEF NewTradingDay, store, SavedOK
  <2>4. CASE Reconciled \/ BrokerFailure
    BY <2>1, <2>4 DEF Reconciled, BrokerFailure, store, SavedOK, vars
  <2> QED
    BY <2>2, <2>3, <2>4
<1>3. raised' \in {"none"} \cup Exceptions
  BY DEF Reconciled, EndPass, NewTradingDay, BrokerFailure, vars, tmvars, LInv, IInv, TypeOK
<1>4. IInv'
  BY <1>1, <1>2, <1>3 DEF LInv, IInv, TypeOK, StatusMatchesQuantity, HeldIsProtected
<1>5. recovery' \in [startup : BOOLEAN, uncertain : BOOLEAN,
                     unresolved : BOOLEAN, unknown : SUBSET Symbols]
  <2>1. CASE BrokerFailure
    BY <2>1 DEF BrokerFailure, NoRecovery
  <2>2. CASE UNCHANGED recovery
    BY <2>2 DEF LInv, RunnerOK
  <2> QED
    BY <2>1, <2>2 DEF Reconciled, EndPass, NewTradingDay
<1>6. RunnerOK'
  BY <1>1, <1>5 DEF Reconciled, EndPass, NewTradingDay, BrokerFailure, LInv, RunnerOK, Phases
<1>7. DatesOK'
  BY DEF Reconciled, EndPass, NewTradingDay, BrokerFailure, LInv, DatesOK, dates
<1> QED
  BY <1>1, <1>2, <1>4, <1>6, <1>7 DEF LInv, BookFinite

LEMMA MidnightKeeps ==
  ASSUME LInv, Midnight
  PROVE  LInv'
<1>1. /\ DOMAIN book' = DOMAIN book
      /\ UNCHANGED <<tmvars, inbox, risk, runner, saved>>
      /\ savedToday' = FALSE /\ misdated' = FALSE
  BY DEF Midnight
<1>2. \A i \in DOMAIN book : book'[i] \in Order
  <2> SUFFICES ASSUME NEW i \in DOMAIN book PROVE book'[i] \in Order
    OBVIOUS
  <2>1. book[i] \in Order /\ "CANCELLED" \in OrderStatus
    BY StatusFacts DEF LInv, IInv, TypeOK
  <2>2. book'[i] = [book[i] EXCEPT !.status = "CANCELLED"] \/ book'[i] = book[i]
    BY DEF Midnight
  <2> QED
    BY <2>1, <2>2 DEF Order
<1>3. IInv'
  BY <1>1, <1>2 DEF LInv, IInv, TypeOK, StatusMatchesQuantity, HeldIsProtected, tmvars
<1>4. DatesOK'
  <2>1. date + 1 \in 0..LastDate
    BY RunnerAssumption DEF Midnight, LInv, DatesOK
  <2>2. earlier' \subseteq OrderIds
    BY DEF Midnight, LInv, DatesOK, OnTradingDate
  <2> QED
    BY <2>1, <2>2 DEF Midnight, DatesOK, LInv
<1> QED
  BY <1>1, <1>3, <1>4 DEF LInv, BookFinite, SavedOK, RunnerOK, runner, tmvars

LEMMA ManualOrderKeeps ==
  ASSUME LInv, NEW s \in Symbols, ManualOrder(s)
  PROVE  LInv'
<1>1. PICK id \in OrderIds \ Used, side \in {"BUY", "SELL"}, q \in 1..MaxQty :
        /\ book' = Put(book, id,
             [NewOrder(s, side, "ENTRY", q) EXCEPT !.status = "SUBMITTED"])
        /\ today' = today \cup {id}
  BY DEF ManualOrder, Fresh
<1> DEFINE o == [NewOrder(s, side, "ENTRY", q) EXCEPT !.status = "SUBMITTED"]
<1>2. o \in Order
  BY OrderAssumption, StatusFacts DEF NewOrder, Order
<1>3. /\ DOMAIN book' = DOMAIN book \cup {id} /\ book'[id] = o
      /\ \A i \in DOMAIN book \ {id} : book'[i] = book[i]
  BY <1>1 DEF Put
<1>4. UNCHANGED <<tmvars, inbox, risk, runner, store, date, stale, earlier, aged, doubled>>
  BY DEF ManualOrder
<1> HIDE DEF o
<1>5. IInv'
  BY <1>2, <1>3, <1>4 DEF LInv, IInv, TypeOK, StatusMatchesQuantity, HeldIsProtected, tmvars
<1>6. BookFinite'
  BY <1>3, FS_AddElement DEF LInv, BookFinite
<1> QED
  BY <1>1, <1>4, <1>5, <1>6 DEF LInv, SavedOK, RunnerOK, DatesOK, runner, store, tmvars

-----------------------------------------------------------------------------
LEMMA LiveInitInv == LiveInit => LInv
<1> SUFFICES ASSUME LiveInit PROVE LInv
  OBVIOUS
<1>1. IInv
  BY InitIInv DEF LiveInit
<1>2. DOMAIN book = {} /\ DOMAIN inbox = {}
  BY DEF LiveInit, Init, EmptyDict
<1>3. BookFinite
  BY <1>2, FS_EmptySet DEF BookFinite
<1>4. RunnerOK
  BY <1>2 DEF LiveInit, RunnerOK, Phases, NoRecovery, Init
<1>5. SavedOK
  BY DEF LiveInit, SavedOK
<1>6. DatesOK
  <2>1. 0 \in 0..LastDate
    BY RunnerAssumption
  <2> QED
    BY <2>1 DEF LiveInit, DatesOK
<1> QED
  BY <1>1, <1>3, <1>4, <1>5, <1>6 DEF LInv

LEMMA LiveNextKeeps ==
  ASSUME LInv, [LiveNext]_lvars
  PROVE  LInv'
<1>1. CASE UNCHANGED lvars
  BY <1>1 DEF lvars, vars, runner, store, dates, LInv, IInv, TypeOK, StatusMatchesQuantity,
              HeldIsProtected, BookFinite, SavedOK, RunnerOK, DatesOK
<1>2. CASE LiveNext
  <2>1. MemoryOK(Reconciliation)
    BY ReconciliationIsOK DEF LInv
  <2> QED
    BY <1>2, <2>1, LeavingKeeps, StartKeeps, ManagerKeeps, ReadsKeep, ReadPositionsKeeps,
       LoopKeeps, MidnightKeeps, ManualOrderKeeps DEF LiveNext
<1> QED
  BY <1>1, <1>2

(* The types, a stop for every held position, statuses that match the      *)
(* quantities, and a snapshot that can always be resumed - through every   *)
(* crash, restart, reconnect, failed write and midnight, and whatever the  *)
(* owner trades beside AutoTick.                                           *)
THEOREM LiveAlways ==
  LiveSpec => [](LiveTypeOK /\ StatusMatchesQuantity /\ HeldIsProtected /\ SnapshotIsProtected)
BY LiveInitInv, LiveNextKeeps, LInvParts, PTL DEF LiveSpec

(* The types alone: what the process keeps in memory, what a restart takes *)
(* from the snapshot and what the broker lists stay of their kinds.        *)
THEOREM LiveTypeAlways == LiveSpec => []LiveTypeOK
BY LiveAlways, PTL

-----------------------------------------------------------------------------
(* Orders AutoTick placed and forgot.                                      *)

Answered(i) == book[i].status \in Pending \cup {"FILLED"}

(* They are found by the next recovery, and their symbols are blocked when *)
(* it ends.                                                                *)
UnknownInv ==
  /\ phase \in {"top", "updates", "process"} /\ raised = "none" =>
       \A i \in UnknownIds : Answered(i) => book[i].symbol \in blocked
  /\ phase = "positions" =>
       \A i \in UnknownIds : Answered(i) => book[i].symbol \in recovery.unknown

(* No order becomes unknown, and none that was settled is live again.      *)
NothingForgotten ==
  \A i \in UnknownIds' :
    /\ i \in UnknownIds
    /\ book'[i].symbol = book[i].symbol
    /\ Answered(i)' => Answered(i)

LEMMA OrdersStayKnown ==
  ASSUME DOMAIN orders' = DOMAIN orders, UNCHANGED <<book, today>>
  PROVE  NothingForgotten
BY DEF NothingForgotten, UnknownIds, Answered

(* An order that is sent is forgotten only when its answer is.             *)
LEMMA NewOrderIsKnown ==
  ASSUME IInv, NEW s \in Symbols, EnterTrade(s) \/ SubmitExit(s), raised' = "none",
         today' = today \cup NewIds
  PROVE  NothingForgotten
<1>1. PICK id \in OrderIds : \E o : Accepted(id, o) \/ NotAccepted(id, o)
  BY DEF EnterTrade, SubmitExit, Fresh
<1>2. DOMAIN orders' = DOMAIN orders \cup {id}
      /\ (book' = book \/ \E o : book' = Put(book, id, [o EXCEPT !.status = "SUBMITTED"]))
  BY <1>1 DEF Accepted, NotAccepted, RefusedBeforeSending, RejectedByBroker,
              Uncertain, ReadFailed, Put
<1>3. /\ DOMAIN book' \subseteq DOMAIN book \cup {id}
      /\ \A i \in DOMAIN book \ {id} : book'[i] = book[i]
  BY <1>2 DEF Put
<1>4. ASSUME NEW i \in UnknownIds' PROVE i \in UnknownIds /\ book'[i] = book[i]
  <2>1. i \in DOMAIN book' /\ i \in today' /\ i \notin DOMAIN orders'
    BY <1>4 DEF UnknownIds
  <2>2. i \in DOMAIN book /\ i \notin DOMAIN orders /\ i # id
    BY <1>2, <1>3, <2>1
  <2> QED
    BY <1>3, <2>1, <2>2 DEF UnknownIds, NewIds, Used
<1> QED
  BY <1>4 DEF NothingForgotten, Answered

LEMMA BrokerForgetsNothing ==
  ASSUME IInv, NEW id \in DOMAIN book, BrokerStep(id), UNCHANGED today
  PROVE  NothingForgotten
<1>1. book[id] \in Order
  BY DEF IInv, TypeOK
<1>2. PICK move \in BrokerMoves, f \in book[id].filled..book[id].quantity :
        /\ move[1] = book[id].status
        /\ book' = [book EXCEPT ![id].status = move[2], ![id].filled = f]
  BY DEF BrokerStep
<1>3. book[id].status \in Pending
  BY <1>2, StatusFacts DEF BrokerMoves, Pending
<1>4. /\ DOMAIN book' = DOMAIN book /\ book'[id].symbol = book[id].symbol
      /\ \A i \in DOMAIN book \ {id} : book'[i] = book[i]
      /\ UNCHANGED orders
  BY <1>1, <1>2 DEF Order, BrokerStep, tmvars
<1> QED
  BY <1>3, <1>4 DEF NothingForgotten, UnknownIds, Answered

LEMMA UnknownStep ==
  ASSUME LInv, ~ManualTrades, UnknownInv, [LiveNext]_lvars
  PROVE  UnknownInv'
<1>1. CASE phase' \in {"down", "orders"}
  BY <1>1 DEF UnknownInv
<1>2. ASSUME NothingForgotten, UNCHANGED <<phase, blocked, recovery>>,
             raised' = "none" => raised = "none"
      PROVE  UnknownInv'
  BY <1>2 DEF NothingForgotten, UnknownInv
<1>3. CASE UNCHANGED lvars
  BY <1>2, <1>3, OrdersStayKnown DEF lvars, vars, runner, dates
<1>4. CASE Shutdown \/ Abort \/ Crash \/ StopAfterUncertainWrite \/ AuthenticationExhausted
           \/ Start \/ RecoveryFailure \/ BrokerFailure
  BY <1>1, <1>4 DEF Shutdown, Abort, Crash, StopAfterUncertainWrite, AuthenticationExhausted,
                    Leave, Start, RecoveryFailure, BrokerFailure
<1>5. CASE ReadOrderBook \/ Reconciled \/ EndPass \/ NewTradingDay
  <2>1. /\ UNCHANGED <<orders, book, today, raised, blocked>>
        /\ phase \in {"top", "updates", "process"} /\ phase' # "positions"
    BY <1>5 DEF ReadOrderBook, Reconciled, EndPass, NewTradingDay, vars, tmvars, dates
  <2>2. NothingForgotten
    BY <2>1, OrdersStayKnown
  <2> QED
    BY <2>1, <2>2 DEF NothingForgotten, UnknownInv
<1>6. ASSUME NEW id \in DOMAIN inbox, ApplyReport(id) \/ ApplyRecovered(id)
      PROVE  UnknownInv'
  <2>1. /\ ReconcileOne(id) /\ raised = "none"
        /\ UNCHANGED <<book, today, phase, blocked, recovery>>
    BY <1>6 DEF ApplyReport, ApplyRecovered, ReconcileOne, runner, dates
  <2>2. DOMAIN orders' = DOMAIN orders
    <3>1. id \in DOMAIN orders
      BY DEF LInv, IInv, TypeOK
    <3> QED
      BY <2>1, <3>1 DEF ReconcileOne, UpdateOrderState, tmvars, Put
  <2> QED
    BY <1>2, <2>1, <2>2, OrdersStayKnown
<1>7. ASSUME NEW s \in Symbols, ProcessEntry(s) \/ ProcessExit(s)
      PROVE  UnknownInv'
  <2>1. /\ EnterTrade(s) \/ SubmitExit(s)
        /\ today' = today \cup NewIds /\ raised = "none"
        /\ phase = "process" /\ UNCHANGED <<phase, blocked, recovery>>
    BY <1>7 DEF ProcessEntry, ProcessExit, EnterTrade, SubmitExit, Idle
  <2>2. CASE raised' = "none"
    BY <1>2, <2>1, <2>2, NewOrderIsKnown DEF LInv
  <2>3. CASE raised' # "none"
    BY <2>1, <2>3 DEF UnknownInv
  <2> QED
    BY <2>2, <2>3
<1>8. ASSUME NEW id \in DOMAIN book, BrokerMove(id)
      PROVE  UnknownInv'
  <2>1. BrokerStep(id) /\ UNCHANGED <<today, phase, blocked, recovery, raised>>
    BY <1>8 DEF BrokerMove, BrokerStep, runner, dates, tmvars
  <2> QED
    BY <1>2, <2>1, BrokerForgetsNothing DEF LInv
<1>9. CASE Midnight
  <2>1. UnknownIds' = {}
    BY <1>9 DEF Midnight, UnknownIds
  <2> QED
    BY <2>1 DEF UnknownInv
<1>10. CASE ReadOrders
  <2>1. /\ UNCHANGED <<orders, book, today>> /\ phase' = "positions"
        /\ recovery'.unknown = {book[i].symbol : i \in {j \in UnknownIds :
                                  book[j].status \in Pending \cup {"FILLED"}}}
    BY <1>10 DEF ReadOrders, tmvars, dates, LInv, RunnerOK
  <2>2. NothingForgotten
    BY <2>1, OrdersStayKnown
  <2> QED
    BY <2>1, <2>2 DEF NothingForgotten, UnknownInv, Answered
<1>11. CASE ReadPositions
  <2>1. /\ UNCHANGED <<orders, book, today>> /\ phase = "positions" /\ phase' = "top"
        /\ recovery.unknown \subseteq blocked'
    BY <1>11 DEF ReadPositions, dates, Found
  <2>2. NothingForgotten
    BY <2>1, OrdersStayKnown
  <2> QED
    BY <2>1, <2>2 DEF NothingForgotten, UnknownInv
<1> QED
  BY <1>3, <1>4, <1>5, <1>6, <1>7, <1>8, <1>9, <1>10, <1>11 DEF LiveNext, ManualOrder

(* Every order of the day AutoTick placed and no longer knows is answered  *)
(* by a blocked symbol before the next entry decision, however many orders *)
(* a crash or an uncertain write forgot - as long as nobody else trades    *)
(* the account.                                                            *)
THEOREM UnknownBlockedAlways == ~ManualTrades => (LiveSpec => []UnknownIsBlocked)
<1> SUFFICES ASSUME ~ManualTrades PROVE LiveSpec => []UnknownIsBlocked
  OBVIOUS
<1>1. LiveInit => LInv /\ UnknownInv
  BY LiveInitInv DEF LiveInit, UnknownInv
<1>2. LInv /\ UnknownInv /\ [LiveNext]_lvars => (LInv /\ UnknownInv)'
  BY LiveNextKeeps, UnknownStep
<1>3. UnknownInv => UnknownIsBlocked
  BY DEF UnknownInv, UnknownIsBlocked, Answered
<1> QED
  BY <1>1, <1>2, <1>3, PTL DEF LiveSpec

-----------------------------------------------------------------------------
(* The daily entry counter across restarts.                                *)

Counted(os) ==
  {i \in DOMAIN os \cap today : os[i].intent = "ENTRY" /\ os[i].filled > 0}

Covers(os, r) == r.trade_count >= Cardinality(Counted(os))

(* Known orders: finitely many, none executed beyond its quantity, and     *)
(* none executed that the broker has never listed.                         *)
Traced(os) ==
  /\ IsFiniteSet(DOMAIN os)
  /\ \A i \in DOMAIN os : WellFilled(os[i]) /\ (os[i].filled > 0 => i \in DOMAIN book)

InboxTraced ==
  \A i \in DOMAIN inbox \ DOMAIN book : inbox[i].status # "FILLED" /\ inbox[i].filled = 0

(* A process that has not noticed midnight has placed nothing since.       *)
StaleOK ==
  /\ stale => DOMAIN orders \cap today = {} /\ aged
  /\ phase \in {"down", "updates", "process"} => ~stale

(* A snapshot of today covers the entries it knows, and a snapshot of an   *)
(* earlier date knows none of today.                                       *)
SnapshotCovers ==
  saved # <<>> =>
    /\ Traced(saved[1].orders)
    /\ ~misdated => IF savedToday THEN Covers(saved[1].orders, saved[1].risk)
                                  ELSE Counted(saved[1].orders) = {}

(* While a process runs, it knows every order of its snapshot: no new      *)
(* order gets the identifier of one that only the snapshot knows.          *)
SnapshotKnown ==
  saved # <<>> /\ phase # "down" => DOMAIN saved[1].orders \subseteq DOMAIN orders

CoverInv ==
  /\ Traced(orders)
  /\ InboxTraced
  /\ StaleOK
  /\ ~misdated => Covers(orders, risk)
  /\ SnapshotCovers
  /\ SnapshotKnown

(* One more element needs one more count.                                  *)
LEMMA CountStep ==
  ASSUME NEW S, IsFiniteSet(S), NEW T, NEW x, T \subseteq S \cup {x},
         NEW c \in Nat, NEW d \in Nat, c >= Cardinality(S), d >= c,
         x \in T \ S => d = c + 1
  PROVE  d >= Cardinality(T)
<1>1. /\ IsFiniteSet(S \cup {x}) /\ Cardinality(S) \in Nat
      /\ Cardinality(S \cup {x}) = IF x \in S THEN Cardinality(S) ELSE Cardinality(S) + 1
  BY FS_AddElement, FS_CardinalityType
<1>2. CASE x \in T \ S
  <2>1. Cardinality(T) <= Cardinality(S \cup {x}) /\ Cardinality(T) \in Nat
    BY <1>1, FS_Subset, FS_CardinalityType
  <2> QED
    BY <1>1, <1>2, <2>1
<1>3. CASE x \notin T \ S
  <2>1. T \subseteq S
    BY <1>3
  <2>2. Cardinality(T) <= Cardinality(S) /\ Cardinality(T) \in Nat
    BY <2>1, FS_Subset, FS_CardinalityType
  <2> QED
    BY <1>1, <2>2
<1> QED
  BY <1>2, <1>3

LEMMA CountedFinite ==
  ASSUME NEW os, Traced(os)
  PROVE  IsFiniteSet(Counted(os)) /\ Cardinality(Counted(os)) \in Nat
<1>1. Counted(os) \subseteq DOMAIN os
  BY DEF Counted
<1> QED
  BY <1>1, FS_Subset, FS_CardinalityType DEF Traced

LEMMA CounterFacts ==
  ASSUME NEW r \in RiskState
  PROVE  /\ RecordEntry(r).trade_count = r.trade_count + 1
         /\ \A pnl \in Int : RecordRealizedPnl(r, pnl).trade_count = r.trade_count
         /\ ActivateKillSwitch(r).trade_count = r.trade_count
         /\ BlockForPersistenceFailure(r).trade_count = r.trade_count
         /\ RestoreState(r).trade_count = r.trade_count
<1>1. \A x \in RiskState : ActivateKillSwitch(x).trade_count = x.trade_count
  BY DEF ActivateKillSwitch, RiskState
<1>2. RecordEntry(r).trade_count = r.trade_count + 1
  <2> DEFINE counted == [r EXCEPT !.trade_count = @ + 1]
  <2>1. counted \in RiskState /\ counted.trade_count = r.trade_count + 1
    BY DEF RiskState
  <2>2. RecordEntry(r) = ActivateKillSwitch(counted) \/ RecordEntry(r) = counted
    BY DEF RecordEntry
  <2> QED
    BY <1>1, <2>1, <2>2
<1>3. ASSUME NEW pnl \in Int PROVE RecordRealizedPnl(r, pnl).trade_count = r.trade_count
  <2> DEFINE booked == [r EXCEPT !.daily_pnl = @ + pnl]
  <2>1. booked \in RiskState /\ booked.trade_count = r.trade_count
    BY DEF RiskState
  <2>2. RecordRealizedPnl(r, pnl) = ActivateKillSwitch(booked) \/ RecordRealizedPnl(r, pnl) = booked
    BY DEF RecordRealizedPnl, CheckDailyLimits
  <2> QED
    BY <1>1, <2>1, <2>2
<1>4. BlockForPersistenceFailure(r).trade_count = r.trade_count
  <2>1. /\ [r EXCEPT !.persistence_failed = TRUE] \in RiskState
        /\ [r EXCEPT !.persistence_failed = TRUE].trade_count = r.trade_count
    BY DEF RiskState
  <2> QED
    BY <1>1, <2>1 DEF BlockForPersistenceFailure
<1>5. RestoreState(r).trade_count = r.trade_count
  BY DEF RestoreState, RiskState
<1> QED
  BY <1>1, <1>2, <1>3, <1>4, <1>5

(* A report counts when it is the first execution of an entry.             *)
LEMMA UpdateCovers ==
  ASSUME IInv, NEW id \in DOMAIN orders, WellFilled(orders[id]),
         NEW o \in Order, o.intent = orders[id].intent,
         NEW status \in OrderStatus,
         UpdateOrderState(id, o, status)
  PROVE  /\ DOMAIN orders' = DOMAIN orders
         /\ \A i \in DOMAIN orders \ {id} : orders'[i] = orders[i]
         /\ orders'[id].intent = orders[id].intent
         /\ WellFilled(orders'[id])
         /\ orders'[id].filled \in {orders[id].filled, FilledQuantity(o, status)}
         /\ risk'.trade_count >= risk.trade_count
         /\ (orders[id].intent = "ENTRY" /\ orders[id].filled = 0 /\ orders'[id].filled > 0)
              => risk'.trade_count = risk.trade_count + 1
<1> DEFINE filled  == FilledQuantity(o, status)
           updated == [o EXCEPT !.status = status, !.filled = filled]
           q       == filled - orders[id].filled
<1>1. /\ orders[id] \in Order /\ orders[id].filled \in Nat /\ risk \in RiskState
      /\ FilledQuantity(orders[id], orders[id].status) = orders[id].filled
      /\ risk.trade_count \in Nat
  BY RecordedFill DEF IInv, TypeOK, Order, RiskState
<1>2. filled \in Nat /\ filled <= o.quantity /\ (status = "FILLED" => filled = o.quantity)
  BY DEF FilledQuantity, Order
<1>3. /\ updated.status = status /\ updated.filled = filled
      /\ updated.intent = orders[id].intent /\ updated.quantity = o.quantity
  <2> HIDE DEF filled
  <2> QED
    BY DEF Order
<1>4. \/ UNCHANGED <<orders, risk>>
      \/ /\ orders' = Put(orders, id, updated)
         /\ \/ filled > orders[id].filled /\ o.intent = "ENTRY"
                 /\ risk' = CountEntry(orders[id].filled)
            \/ filled > orders[id].filled /\ o.intent = "EXIT" /\ ApplyExitFill(updated, q)
            \/ filled <= orders[id].filled /\ ReleasePosition(updated, status)
  <2> HIDE DEF filled
  <2> QED
    BY <1>1 DEF UpdateOrderState, tmvars, filled, Executed
<1> HIDE DEF updated, filled
<1>5. CASE UNCHANGED <<orders, risk>>
  BY <1>1, <1>5
<1>6. CASE /\ orders' = Put(orders, id, updated)
           /\ \/ filled > orders[id].filled /\ o.intent = "ENTRY"
                   /\ risk' = CountEntry(orders[id].filled)
              \/ filled > orders[id].filled /\ o.intent = "EXIT" /\ ApplyExitFill(updated, q)
              \/ filled <= orders[id].filled /\ ReleasePosition(updated, status)
  <2>1. /\ DOMAIN orders' = DOMAIN orders /\ orders'[id] = updated
        /\ \A i \in DOMAIN orders \ {id} : orders'[i] = orders[i]
    BY <1>6 DEF Put
  <2>2. WellFilled(updated)
    BY <1>2, <1>3 DEF WellFilled
  <2>3. CASE filled > orders[id].filled /\ o.intent = "ENTRY"
             /\ risk' = CountEntry(orders[id].filled)
    <3>1. /\ risk'.trade_count >= risk.trade_count
          /\ orders[id].filled = 0 => risk'.trade_count = risk.trade_count + 1
      BY <1>1, <2>3, CounterFacts DEF CountEntry
    <3> QED
      BY <1>3, <2>1, <2>2, <3>1 DEF filled
  <2>4. CASE filled > orders[id].filled /\ o.intent = "EXIT" /\ ApplyExitFill(updated, q)
    <3>1. risk'.trade_count = risk.trade_count
      BY <1>1, <2>4, CounterFacts, RiskAssumption DEF ApplyExitFill
    <3> QED
      BY <1>1, <1>3, <2>1, <2>2, <2>4, <3>1 DEF filled
  <2>5. CASE filled <= orders[id].filled /\ ReleasePosition(updated, status)
    <3>1. risk' = risk
      BY <2>5 DEF ReleasePosition
    <3> QED
      BY <1>1, <1>2, <1>3, <2>1, <2>2, <2>5, <3>1 DEF filled
  <2> QED
    BY <1>6, <2>3, <2>4, <2>5
<1> QED
  BY <1>4, <1>5, <1>6

(* What a step that leaves the snapshot alone has to show for it.          *)
LEMMA SnapshotStays ==
  ASSUME SnapshotCovers, UNCHANGED store, DOMAIN book \subseteq DOMAIN book',
         saved # <<>> => Counted(saved[1].orders)' = Counted(saved[1].orders)
  PROVE  SnapshotCovers'
<1>1. /\ saved' = saved /\ savedToday' = savedToday /\ misdated' = misdated
  BY DEF store
<1>2. saved # <<>> => Traced(saved[1].orders)'
  BY <1>1 DEF SnapshotCovers, Traced
<1> QED
  BY <1>1, <1>2 DEF SnapshotCovers, Covers

(* And a step that touches neither orders nor counters nor dates.          *)
LEMMA NothingCounted ==
  ASSUME CoverInv, UNCHANGED <<orders, store, today, stale, aged>>,
         risk'.trade_count = risk.trade_count,
         DOMAIN book' = DOMAIN book, InboxTraced',
         \/ phase' = phase
         \/ /\ "down" \notin {phase, phase'}
            /\ phase' \in {"updates", "process"} => ~stale
  PROVE  CoverInv'
<1>1. saved' = saved /\ misdated' = misdated
  BY DEF store
<1>2. Traced(orders)' /\ StaleOK' /\ SnapshotKnown'
  BY <1>1 DEF CoverInv, Traced, StaleOK, SnapshotKnown
<1>3. ~misdated' => Covers(orders, risk)'
  <2>1. Counted(orders)' = Counted(orders)
    BY DEF Counted
  <2> QED
    BY <1>1, <2>1 DEF CoverInv, Covers
<1>4. SnapshotCovers'
  <2>1. Counted(saved[1].orders)' = Counted(saved[1].orders)
    BY <1>1 DEF Counted
  <2> QED
    BY <2>1, SnapshotStays DEF CoverInv
<1> QED
  BY <1>2, <1>3, <1>4 DEF CoverInv

LEMMA ReconcileCovers ==
  ASSUME LInv, CoverInv, NEW id \in DOMAIN inbox, ReconcileOne(id),
         UNCHANGED <<store, dates, phase>>
  PROVE  CoverInv'
<1> DEFINE o == [orders[id] EXCEPT !.filled = inbox[id].filled]
           status == inbox[id].status
<1>1. /\ id \in DOMAIN orders /\ orders[id] \in Order /\ WellFilled(orders[id])
      /\ inbox[id].filled \in Nat /\ status \in OrderStatus
      /\ risk.trade_count \in Nat /\ risk'.trade_count \in Nat
      /\ IInv'
  <2>1. IInv'
    BY NextKeepsIInv DEF LInv, Next, RunnerNext
  <2> QED
    BY <2>1 DEF LInv, IInv, TypeOK, CoverInv, Traced, RiskState
<1>2. /\ o \in Order /\ o.intent = orders[id].intent /\ o.filled = inbox[id].filled
      /\ UpdateOrderState(id, o, status) /\ UNCHANGED book
  BY <1>1 DEF Order, ReconcileOne
<1>3. id \notin DOMAIN book => FilledQuantity(o, status) = 0
  <2>1. id \notin DOMAIN book => o.filled = 0 /\ status # "FILLED"
    BY <1>2 DEF CoverInv, InboxTraced
  <2> HIDE DEF o, status
  <2> QED
    BY <1>2, <2>1 DEF FilledQuantity, Order
<1> HIDE DEF o, status
<1>4. /\ DOMAIN orders' = DOMAIN orders
      /\ \A i \in DOMAIN orders \ {id} : orders'[i] = orders[i]
      /\ orders'[id].intent = orders[id].intent
      /\ WellFilled(orders'[id])
      /\ orders'[id].filled \in {orders[id].filled, FilledQuantity(o, status)}
      /\ risk'.trade_count >= risk.trade_count
      /\ (orders[id].intent = "ENTRY" /\ orders[id].filled = 0 /\ orders'[id].filled > 0)
           => risk'.trade_count = risk.trade_count + 1
  BY <1>1, <1>2, UpdateCovers DEF LInv
<1>5. Traced(orders)'
  BY <1>1, <1>2, <1>3, <1>4 DEF CoverInv, Traced
<1>6. InboxTraced'
  BY <1>2 DEF ReconcileOne, Drop, EmptyDict, CoverInv, InboxTraced
<1>7. StaleOK' /\ SnapshotKnown'
  BY <1>4 DEF CoverInv, StaleOK, SnapshotKnown, store, dates
<1>8. ~misdated' => Covers(orders, risk)'
  <2> SUFFICES ASSUME ~misdated PROVE risk'.trade_count >= Cardinality(Counted(orders)')
    BY DEF store, Covers
  <2>1. IsFiniteSet(Counted(orders)) /\ risk.trade_count >= Cardinality(Counted(orders))
    BY CountedFinite DEF CoverInv, Covers
  <2>2. Counted(orders)' \subseteq Counted(orders) \cup {id}
    BY <1>4 DEF Counted, dates
  <2>3. id \in Counted(orders)' \ Counted(orders) =>
          orders[id].intent = "ENTRY" /\ orders[id].filled = 0 /\ orders'[id].filled > 0
    <3>1. orders[id].filled \in Nat
      BY <1>1 DEF Order
    <3> QED
      BY <1>4, <3>1 DEF Counted, dates
  <2> QED
    BY <1>1, <1>4, <2>1, <2>2, <2>3, CountStep
<1>9. SnapshotCovers'
  <2>1. saved # <<>> => Counted(saved[1].orders)' = Counted(saved[1].orders)
    BY DEF Counted, store, dates
  <2> QED
    BY <1>2, <2>1, SnapshotStays DEF CoverInv
<1> QED
  BY <1>5, <1>6, <1>7, <1>8, <1>9 DEF CoverInv

(* A new order has executed nothing, and only it gets a new identifier.    *)
LEMMA NewOrderCovers ==
  ASSUME LInv, CoverInv, NEW s \in Symbols, EnterTrade(s) \/ SubmitExit(s),
         phase = "process", today' = today \cup NewIds,
         UNCHANGED <<phase, store, stale, aged>>
  PROVE  CoverInv'
<1>1. PICK id \in OrderIds : Appears(id)
  BY EnterAppears, ExitAppears DEF LInv
<1>2. risk' = risk
  BY DEF EnterTrade, SubmitExit, Accepted, NotAccepted, RefusedBeforeSending,
         RejectedByBroker, Uncertain, ReadFailed
<1>3. /\ id \notin Used /\ DOMAIN orders' = DOMAIN orders \cup {id}
      /\ orders'[id] \in Order /\ orders'[id].filled = 0
      /\ orders'[id].status \in {"VALIDATED", "SUBMITTED", "REJECTED"}
      /\ \A i \in DOMAIN orders : orders'[i] = orders[i]
      /\ UNCHANGED inbox /\ DOMAIN inbox = {}
      /\ DOMAIN book \subseteq DOMAIN book'
  BY <1>1 DEF Appears
<1>4. \A i \in DOMAIN orders : i \in today' <=> i \in today
  BY DEF NewIds, Used
<1>5. Traced(orders)'
  <2>1. IsFiniteSet(DOMAIN orders')
    BY <1>3, FS_AddElement DEF CoverInv, Traced
  <2>2. WellFilled(orders'[id])
    BY <1>3 DEF WellFilled, Order
  <2> QED
    BY <1>3, <2>1, <2>2 DEF CoverInv, Traced
<1>6. InboxTraced' /\ StaleOK' /\ SnapshotKnown'
  BY <1>3 DEF CoverInv, InboxTraced, StaleOK, SnapshotKnown, store
<1>7. ~misdated' => Covers(orders, risk)'
  <2>1. Counted(orders)' = Counted(orders)
    BY <1>3, <1>4 DEF Counted
  <2> QED
    BY <1>2, <2>1 DEF CoverInv, Covers, store
<1>8. SnapshotCovers'
  <2>1. saved # <<>> => Counted(saved[1].orders)' = Counted(saved[1].orders)
    BY <1>4 DEF CoverInv, SnapshotKnown, Counted, store
  <2> QED
    BY <1>3, <2>1, SnapshotStays DEF CoverInv
<1> QED
  BY <1>5, <1>6, <1>7, <1>8 DEF CoverInv

LEMMA ManualOrderCovers ==
  ASSUME LInv, CoverInv, NEW s \in Symbols, ManualOrder(s)
  PROVE  CoverInv'
<1>1. PICK id \in OrderIds \ Used : /\ DOMAIN book' = DOMAIN book \cup {id}
                                    /\ today' = today \cup {id}
  BY DEF ManualOrder, Fresh, Put
<1>2. UNCHANGED <<tmvars, inbox, risk, runner, store, stale, aged>>
  BY DEF ManualOrder
<1>3. id \notin DOMAIN orders /\ id \notin DOMAIN book
  BY <1>1 DEF Used
<1>4. /\ Traced(orders)' /\ InboxTraced' /\ StaleOK' /\ SnapshotKnown'
  BY <1>1, <1>2, <1>3
     DEF CoverInv, Traced, InboxTraced, StaleOK, SnapshotKnown, tmvars, runner, store
<1>5. ~misdated' => Covers(orders, risk)'
  <2>1. Counted(orders)' = Counted(orders)
    BY <1>1, <1>2, <1>3 DEF Counted, tmvars
  <2> QED
    BY <1>2, <2>1 DEF CoverInv, Covers, store
<1>6. SnapshotCovers'
  <2>1. saved # <<>> => Counted(saved[1].orders)' = Counted(saved[1].orders)
    BY <1>1, <1>2, <1>3 DEF CoverInv, SnapshotCovers, Traced, Counted, store
  <2> QED
    BY <1>1, <1>2, <2>1, SnapshotStays DEF CoverInv
<1> QED
  BY <1>4, <1>5, <1>6 DEF CoverInv

(* What is saved covers what was in memory, under the date it bears.       *)
LEMMA WriteCovers ==
  ASSUME CoverInv, NEW m, m.orders = orders, m.risk.trade_count = risk.trade_count,
         NEW current \in BOOLEAN, stale => ~current, WrittenUnder(m, current),
         UNCHANGED today, DOMAIN book' = DOMAIN book, phase # "down"
  PROVE  /\ SnapshotCovers'
         /\ saved' # <<>> => DOMAIN saved'[1].orders \subseteq DOMAIN orders
         /\ misdated => misdated'
<1>1. CASE UNCHANGED store
  <2>1. saved # <<>> => Counted(saved[1].orders)' = Counted(saved[1].orders)
    BY <1>1 DEF Counted, store
  <2> QED
    BY <1>1, <2>1, SnapshotStays DEF CoverInv, SnapshotKnown, store
<1>2. CASE /\ saved' = <<m>> /\ savedToday' = current
           /\ misdated' = (misdated \/ (~current /\ ~stale))
  <2>1. saved'[1] = m
    BY <1>2
  <2>2. Counted(saved[1].orders)' = Counted(orders)
    BY <2>1 DEF Counted
  <2>3. Traced(saved[1].orders)'
    BY <2>1 DEF CoverInv, Traced
  <2>4. CASE current
    <3>1. ~misdated' => Covers(saved[1].orders, saved[1].risk)'
      BY <1>2, <2>1, <2>2 DEF CoverInv, Covers
    <3> QED
      BY <1>2, <2>1, <2>3, <2>4, <3>1 DEF SnapshotCovers
  <2>5. CASE ~current
    <3>1. ~misdated' => Counted(saved[1].orders)' = {}
      BY <1>2, <2>2, <2>5 DEF CoverInv, StaleOK, Counted
    <3> QED
      BY <1>2, <2>1, <2>3, <2>5, <3>1 DEF SnapshotCovers
  <2> QED
    BY <2>4, <2>5
<1> QED
  BY <1>1, <1>2 DEF WrittenUnder

LEMMA LeaveCovers ==
  ASSUME CoverInv, Leave, SnapshotCovers', UNCHANGED <<book, today>>
  PROVE  CoverInv'
<1>1. /\ orders' = EmptyDict /\ DOMAIN orders' = {} /\ DOMAIN inbox' = {}
      /\ phase' = "down" /\ stale' = FALSE
      /\ risk'.trade_count = 0
  BY DEF Leave, SetMemory, EmptyMemory, EmptyDict, InitialRisk
<1>2. Traced(orders)' /\ InboxTraced' /\ StaleOK' /\ SnapshotKnown'
  BY <1>1, FS_EmptySet DEF Traced, InboxTraced, StaleOK, SnapshotKnown
<1>3. Covers(orders, risk)'
  <2>1. Counted(orders)' = {}
    BY <1>1 DEF Counted
  <2>2. Cardinality({}) = 0
    BY FS_EmptySet
  <2> QED
    BY <1>1, <2>1, <2>2 DEF Covers
<1> QED
  BY <1>2, <1>3 DEF CoverInv

LEMMA LeavingCovers ==
  ASSUME LInv, CoverInv,
         Shutdown \/ Abort \/ Crash \/ StopAfterUncertainWrite \/ AuthenticationExhausted
  PROVE  CoverInv'
<1>1. /\ Leave /\ UNCHANGED <<book, today>>
      /\ risk \in RiskState /\ (~stale) \in BOOLEAN /\ (~aged) \in BOOLEAN
      /\ stale => aged
  BY DEF Shutdown, Abort, Crash, StopAfterUncertainWrite, AuthenticationExhausted,
         LInv, IInv, TypeOK, CoverInv, StaleOK
<1>2. UNCHANGED store => SnapshotCovers'
  <2>1. UNCHANGED store => (saved # <<>> => Counted(saved[1].orders)' = Counted(saved[1].orders))
    BY <1>1 DEF Counted, store
  <2> QED
    BY <1>1, <2>1, SnapshotStays DEF CoverInv
<1>3. ASSUME NEW m, m.orders = orders, m.risk.trade_count = risk.trade_count,
             NEW current \in BOOLEAN, stale => ~current, WrittenUnder(m, current),
             phase # "down"
      PROVE  SnapshotCovers'
  BY <1>1, <1>3, WriteCovers
<1>4. Memory.orders = orders /\ Memory.risk = risk
  BY DEF Memory
<1>5. CASE Shutdown
  BY <1>1, <1>3, <1>4, <1>5, LeaveCovers DEF Shutdown, Written
<1>6. CASE Abort
  BY <1>1, <1>2, <1>3, <1>4, <1>6, LeaveCovers DEF Abort
<1>7. CASE Crash
  BY <1>1, <1>2, <1>7, LeaveCovers DEF Crash
<1>8. CASE StopAfterUncertainWrite
  <2> DEFINE m == [Reconciliation EXCEPT !.risk = ActivateKillSwitch(@)]
  <2>1. /\ Reconciliation.orders = orders
        /\ Reconciliation.risk \in RiskState
        /\ Reconciliation.risk.trade_count = risk.trade_count
    BY <1>1, CounterFacts, RunnerRiskTypes DEF Reconciliation
  <2>2. m.orders = orders /\ m.risk = ActivateKillSwitch(Reconciliation.risk)
    BY DEF Reconciliation
  <2>3. m.risk.trade_count = risk.trade_count
    BY <2>1, <2>2, CounterFacts
  <2>4. Written(m) /\ phase # "down"
    BY <1>8 DEF StopAfterUncertainWrite
  <2> HIDE DEF m
  <2> QED
    BY <1>1, <1>3, <2>2, <2>3, <2>4, LeaveCovers DEF Written
<1>9. CASE AuthenticationExhausted
  <2> DEFINE m == [Memory EXCEPT !.risk = ActivateKillSwitch(risk)]
  <2>1. m.orders = orders /\ m.risk = ActivateKillSwitch(risk)
    BY DEF Memory
  <2>2. m.risk.trade_count = risk.trade_count
    BY <1>1, <2>1, CounterFacts
  <2>3. /\ phase # "down"
        /\ UNCHANGED store \/ WrittenUnder(m, ~stale)
    BY <1>9 DEF AuthenticationExhausted, Written
  <2> HIDE DEF m
  <2> QED
    BY <1>1, <1>2, <1>3, <2>1, <2>2, <2>3, LeaveCovers
<1> QED
  BY <1>5, <1>6, <1>7, <1>8, <1>9

(* The save at the end of a pass or of a recovery, or none at startup.     *)
LEMMA SaveCovers ==
  ASSUME LInv, CoverInv, NEW m, m.orders = orders, m.risk \in RiskState,
         m.risk.trade_count = risk.trade_count,
         SaveMemory(m) \/ (risk' = m.risk /\ UNCHANGED store),
         UNCHANGED <<orders, inbox, dates>>, DOMAIN book' = DOMAIN book,
         phase # "down", phase' = "top"
  PROVE  CoverInv'
<1>1. UNCHANGED <<today, stale, aged>> /\ (~stale) \in BOOLEAN
  BY DEF dates, LInv, DatesOK
<1>2. risk'.trade_count = risk.trade_count
  BY CounterFacts DEF SaveMemory
<1>3. InboxTraced'
  BY DEF CoverInv, InboxTraced
<1>4. CASE UNCHANGED store
  BY <1>1, <1>2, <1>3, <1>4, NothingCounted
<1>5. CASE Written(m)
  <2>1. /\ SnapshotCovers'
        /\ saved' # <<>> => DOMAIN saved'[1].orders \subseteq DOMAIN orders
        /\ misdated => misdated'
    BY <1>1, <1>5, WriteCovers DEF Written
  <2>2. Traced(orders)' /\ StaleOK' /\ SnapshotKnown'
    BY <1>1, <2>1 DEF CoverInv, Traced, StaleOK, SnapshotKnown
  <2>3. ~misdated' => Covers(orders, risk)'
    <3>1. Counted(orders)' = Counted(orders)
      BY <1>1 DEF Counted
    <3> QED
      BY <1>2, <2>1, <3>1 DEF CoverInv, Covers
  <2> QED
    BY <1>3, <2>1, <2>2, <2>3 DEF CoverInv
<1> QED
  BY <1>4, <1>5 DEF SaveMemory

(* A report of the broker names an order it lists; an order that expired   *)
(* unseen has executed nothing the broker does not list.                   *)
LEMMA ReadsCover ==
  ASSUME LInv, CoverInv, ReadOrderBook \/ ReadOrders
  PROVE  CoverInv'
<1>1. /\ UNCHANGED <<orders, store, today, stale, aged, book>>
      /\ risk'.trade_count = risk.trade_count
      /\ phase \in {"top", "orders"} /\ phase' \in {"updates", "positions"}
      /\ phase' = "updates" => ~stale
  BY DEF ReadOrderBook, ReadOrders, tmvars, dates
<1>2. InboxTraced'
  <2>1. CASE ReadOrderBook
    <3>1. DOMAIN inbox' \subseteq DOMAIN book
      BY <2>1 DEF ReadOrderBook, Reported
    <3> QED
      BY <1>1, <3>1 DEF InboxTraced
  <2>2. CASE ReadOrders
    <3>1. /\ DOMAIN inbox' = Legal \cup (Missing \ NotOlder)
          /\ \A i \in (Missing \ NotOlder) \ Legal :
               inbox'[i] = [status |-> "EXPIRED", filled |-> orders[i].filled]
      BY <2>2 DEF ReadOrders
    <3>2. Legal \subseteq DOMAIN book /\ Missing \subseteq DOMAIN orders
      BY DEF Legal, Changed, Reported, Missing
    <3>3. ASSUME NEW i \in DOMAIN inbox' \ DOMAIN book
          PROVE  inbox'[i].status # "FILLED" /\ inbox'[i].filled = 0
      <4>1. inbox'[i] = [status |-> "EXPIRED", filled |-> orders[i].filled]
        BY <3>1, <3>2, <3>3
      <4>2. i \in DOMAIN orders /\ orders[i].filled \in Nat /\ ~(orders[i].filled > 0)
        BY <3>1, <3>2, <3>3 DEF CoverInv, Traced, LInv, IInv, TypeOK, Order
      <4>3. inbox'[i].status = "EXPIRED" /\ inbox'[i].filled = orders[i].filled
        BY <4>1
      <4> QED
        BY <4>2, <4>3
    <3> QED
      BY <1>1, <3>3 DEF InboxTraced
  <2> QED
    BY <2>1, <2>2
<1> QED
  BY <1>1, <1>2, NothingCounted

LEMMA NewDayCovers ==
  ASSUME LInv, CoverInv, NewTradingDay
  PROVE  CoverInv'
<1>1. /\ UNCHANGED <<orders, inbox, book, phase, store, today>>
      /\ DOMAIN orders \cap today = {} /\ stale' = FALSE
      /\ risk' = ResetDailyState(risk)
  BY DEF NewTradingDay, tmvars, CoverInv, StaleOK
<1>2. /\ Traced(orders)' /\ InboxTraced' /\ StaleOK' /\ SnapshotKnown'
  BY <1>1 DEF CoverInv, Traced, InboxTraced, StaleOK, SnapshotKnown, store
<1>3. Covers(orders, risk)'
  <2>1. Counted(orders)' = {}
    BY <1>1 DEF Counted
  <2>2. ResetDailyState(risk).trade_count = 0
    BY DEF ResetDailyState, LInv, IInv, TypeOK, RiskState
  <2>3. Cardinality({}) = 0
    BY FS_EmptySet
  <2> QED
    BY <1>1, <2>1, <2>2, <2>3 DEF Covers
<1>4. SnapshotCovers'
  <2>1. saved # <<>> => Counted(saved[1].orders)' = Counted(saved[1].orders)
    BY <1>1 DEF Counted, store
  <2> QED
    BY <1>1, <2>1, SnapshotStays DEF CoverInv
<1> QED
  BY <1>2, <1>3, <1>4 DEF CoverInv

(* At midnight no order is of today any more.                              *)
LEMMA MidnightCovers ==
  ASSUME LInv, CoverInv, Midnight
  PROVE  CoverInv'
<1>1. /\ UNCHANGED <<orders, inbox, risk, phase, saved>> /\ DOMAIN book' = DOMAIN book
      /\ today' = {} /\ savedToday' = FALSE
      /\ stale' = (phase # "down") /\ aged' = (phase # "down")
      /\ phase \in {"down", "orders", "top"}
  BY DEF Midnight, tmvars, runner
<1>2. /\ Traced(orders)' /\ InboxTraced' /\ StaleOK' /\ SnapshotKnown'
  BY <1>1 DEF CoverInv, Traced, InboxTraced, StaleOK, SnapshotKnown
<1>3. \A os : Counted(os)' = {}
  BY <1>1 DEF Counted
<1>4. Covers(orders, risk)'
  <2>1. Counted(orders)' = {} /\ Cardinality({}) = 0 /\ risk.trade_count \in Nat
    BY <1>1, FS_EmptySet DEF Counted, LInv, IInv, TypeOK, RiskState
  <2> QED
    BY <1>1, <2>1 DEF Covers
<1>5. SnapshotCovers'
  <2>1. saved # <<>> => Counted(saved[1].orders)' = {}
    BY <1>1 DEF Counted
  <2> QED
    BY <1>1, <2>1 DEF CoverInv, SnapshotCovers, Traced
<1> QED
  BY <1>2, <1>4, <1>5 DEF CoverInv

(* The snapshot of today brings the count of today; with any other one the *)
(* count is 0 and no known order is of today.                              *)
LEMMA StartCovers ==
  ASSUME LInv, CoverInv, Start \/ (RecoveryFailure /\ recovery.startup)
  PROVE  CoverInv'
<1>1. /\ SetMemory(Restored) /\ UNCHANGED <<inbox, book, store, dates>>
      /\ DOMAIN inbox = {} /\ phase' = "orders"
      /\ phase = "down" => ~stale
      /\ phase # "down" => (saved # <<>> => DOMAIN saved[1].orders \subseteq DOMAIN orders)
  BY DEF Start, RecoveryFailure, LInv, RunnerOK, Idle, CoverInv, StaleOK, SnapshotKnown
<1>2. UNCHANGED <<today, stale, aged, saved, savedToday, misdated>>
  BY <1>1 DEF dates, store
<1>3. CASE saved = <<>>
  <2>1. DOMAIN orders' = {} /\ risk'.trade_count = 0
    BY <1>1, <1>3 DEF Restored, SetMemory, EmptyMemory, EmptyDict, InitialRisk
  <2>2. Counted(orders)' = {} /\ Cardinality({}) = 0 /\ IsFiniteSet({})
    BY <2>1, FS_EmptySet DEF Counted
  <2> QED
    BY <1>1, <1>2, <1>3, <2>1, <2>2
       DEF CoverInv, Traced, InboxTraced, StaleOK, Covers, SnapshotCovers, SnapshotKnown
<1>4. CASE saved # <<>>
  <2>1. /\ MemoryOK(saved[1]) /\ saved[1].risk \in RiskState
        /\ SnapshotCovers
    BY <1>4 DEF LInv, SavedOK, MemoryOK, CoverInv
  <2> DEFINE r == IF savedToday THEN RestoreState(saved[1].risk)
                                ELSE ResetDailyState(InitialRisk)
  <2>2. r.trade_count = IF savedToday THEN saved[1].risk.trade_count ELSE 0
    BY <2>1, CounterFacts DEF ResetDailyState, InitialRisk
  <2>3. Restored = [saved[1] EXCEPT !.risk = r]
    BY <1>4 DEF Restored
  <2>4. r \in RiskState
    <3>1. InitialRisk \in RiskState
      BY DEF InitialRisk, RiskState
    <3> QED
      BY <2>1, <3>1, RunnerRiskTypes
  <2> HIDE DEF r
  <2>5. Restored.orders = saved[1].orders /\ Restored.risk = r
    BY <2>1, <2>3, <2>4 DEF MemoryOK
  <2>6. orders' = saved[1].orders /\ risk' = r
    BY <1>1, <2>5 DEF SetMemory
  <2>7. Traced(orders)' /\ InboxTraced' /\ SnapshotKnown'
    BY <1>1, <1>2, <1>4, <2>1, <2>6
       DEF SnapshotCovers, Traced, InboxTraced, SnapshotKnown
  <2>8. StaleOK'
    BY <1>1, <1>2, <1>4, <2>6 DEF CoverInv, StaleOK
  <2>9. ~misdated' => Covers(orders, risk)'
    <3>1. Counted(orders)' = Counted(saved[1].orders) /\ Cardinality({}) = 0
      BY <1>2, <2>6, FS_EmptySet DEF Counted
    <3>2. CASE savedToday
      BY <1>2, <1>4, <2>1, <2>2, <2>6, <3>1, <3>2 DEF SnapshotCovers, Covers
    <3>3. CASE ~savedToday
      <4>1. ~misdated => Counted(saved[1].orders) = {}
        BY <1>4, <2>1, <3>3 DEF SnapshotCovers
      <4>2. risk'.trade_count = 0
        BY <2>2, <2>6, <3>3
      <4> QED
        BY <1>2, <3>1, <4>1, <4>2 DEF Covers
    <3> QED
      BY <3>2, <3>3
  <2>10. SnapshotCovers'
    <3>1. Counted(saved[1].orders)' = Counted(saved[1].orders)
      BY <1>2 DEF Counted
    <3> QED
      BY <1>1, <2>1, <3>1, SnapshotStays
  <2> QED
    BY <2>7, <2>8, <2>9, <2>10 DEF CoverInv
<1> QED
  BY <1>3, <1>4

LEMMA CoverStep ==
  ASSUME LInv, CoverInv, [LiveNext]_lvars
  PROVE  CoverInv'
<1>0. risk \in RiskState /\ InboxTraced
  BY DEF LInv, IInv, TypeOK, CoverInv
<1>1. CASE UNCHANGED lvars
  BY <1>0, <1>1, NothingCounted DEF lvars, vars, runner, dates, InboxTraced
<1>2. CASE Shutdown \/ Abort \/ Crash \/ StopAfterUncertainWrite \/ AuthenticationExhausted
  BY <1>2, LeavingCovers
<1>3. CASE ReadOrderBook \/ ReadOrders
  BY <1>3, ReadsCover
<1>4. CASE Reconciled \/ BrokerFailure
  <2>1. /\ UNCHANGED <<orders, inbox, book, risk, store, today, stale, aged>>
        /\ "down" \notin {phase, phase'}
        /\ phase' = "process" => phase = "updates"
        /\ phase' \in {"process", "orders"}
    <3>1. CASE Reconciled
      BY <1>4, <3>1 DEF Reconciled, vars, dates
    <3>2. CASE BrokerFailure
      <4>1. phase # "down"
        BY <3>2 DEF BrokerFailure, LInv, RunnerOK
      <4> QED
        BY <3>2, <4>1 DEF BrokerFailure, dates
    <3> QED
      BY <1>4, <3>1, <3>2
  <2> QED
    BY <1>0, <2>1, NothingCounted DEF InboxTraced, CoverInv, StaleOK
<1>5. CASE EndPass
  <2>1. Memory.orders = orders /\ Memory.risk = risk
    BY DEF Memory
  <2> QED
    BY <1>0, <1>5, <2>1, SaveCovers DEF EndPass, tmvars
<1>6. CASE ReadPositions
  <2>1. /\ Reconciliation.orders = orders
        /\ Reconciliation.risk \in RiskState
        /\ Reconciliation.risk.trade_count = risk.trade_count
    BY <1>0, CounterFacts, RunnerRiskTypes DEF Reconciliation
  <2>2. SaveMemory(Reconciliation) \/ (risk' = Reconciliation.risk /\ UNCHANGED store)
    BY <1>6 DEF ReadPositions
  <2> QED
    BY <1>6, <2>1, <2>2, SaveCovers DEF ReadPositions
<1>7. CASE NewTradingDay
  BY <1>7, NewDayCovers
<1>8. CASE Midnight
  BY <1>8, MidnightCovers
<1>9. CASE Start \/ RecoveryFailure
  <2>1. CASE Start \/ (RecoveryFailure /\ recovery.startup)
    BY <2>1, StartCovers
  <2>2. CASE RecoveryFailure /\ ~recovery.startup
    BY <1>0, <2>2, NothingCounted DEF RecoveryFailure, InboxTraced, dates
  <2> QED
    BY <1>9, <2>1, <2>2
<1>10. CASE \E id \in DOMAIN inbox : ApplyReport(id) \/ ApplyRecovered(id)
  BY <1>10, ReconcileCovers DEF ApplyReport, ApplyRecovered, runner
<1>11. CASE \E s \in Symbols : ProcessEntry(s) \/ ProcessExit(s)
  BY <1>11, NewOrderCovers DEF ProcessEntry, ProcessExit
<1>12. CASE \E s \in Symbols : ManualOrder(s)
  BY <1>12, ManualOrderCovers
<1>13. CASE \E id \in DOMAIN book : BrokerMove(id)
  <2>1. UNCHANGED <<orders, inbox, risk, phase, store, today, stale, aged>>
        /\ DOMAIN book' = DOMAIN book
    BY <1>13 DEF BrokerMove, BrokerStep, tmvars, runner, dates
  <2> QED
    BY <1>0, <2>1, NothingCounted DEF InboxTraced
<1> QED
  BY <1>1, <1>2, <1>3, <1>4, <1>5, <1>6, <1>7, <1>8, <1>9, <1>10, <1>11, <1>12, <1>13
     DEF LiveNext

LEMMA LiveInitCovers == LiveInit => CoverInv
<1> SUFFICES ASSUME LiveInit PROVE CoverInv
  OBVIOUS
<1>1. /\ DOMAIN orders = {} /\ DOMAIN inbox = {} /\ risk.trade_count = 0
      /\ ~stale /\ saved = <<>>
  BY DEF LiveInit, Init, EmptyDict, InitialRisk
<1>2. Counted(orders) = {} /\ Cardinality({}) = 0 /\ IsFiniteSet({})
  BY <1>1, FS_EmptySet DEF Counted
<1> QED
  BY <1>1, <1>2
     DEF CoverInv, Traced, InboxTraced, StaleOK, Covers, SnapshotCovers, SnapshotKnown

(* A restart never gives an entry of today back to the daily limit: the    *)
(* counter covers every known entry executed today, whatever snapshot the  *)
(* process started from, unless today's state was saved under an earlier   *)
(* date.                                                                   *)
THEOREM CountCoversAlways == LiveSpec => []CountCoversKnown
<1>1. LiveInit => LInv /\ CoverInv
  BY LiveInitInv, LiveInitCovers
<1>2. LInv /\ CoverInv /\ [LiveNext]_lvars => (LInv /\ CoverInv)'
  BY LiveNextKeeps, CoverStep
<1>3. CoverInv => CountCoversKnown
  BY DEF CoverInv, Covers, Counted, CountCoversKnown, ExecutionConsumesLimit
<1> QED
  BY <1>1, <1>2, <1>3, PTL DEF LiveSpec

-----------------------------------------------------------------------------
(* No second entry.                                                        *)
(*                                                                         *)
(* AutoTick decides by what it knows - no active trade, no blocked symbol -*)
(* and the broker moves on meanwhile.  What it knows is enough for three   *)
(* reasons, as long as every exit of the symbol matched the broker: the    *)
(* broker has at most one order of the symbol at work (OneAtWork); at most *)
(* one of the orders AutoTick still waits for is over in a way that frees  *)
(* the symbol, and then the broker is flat (EndedInv, and MayEndInv while  *)
(* a recovery is under way); and a symbol that looks free while the loop   *)
(* runs, and is not held back, is flat (SafeInv).                          *)

Flat(s) == BrokerPosition(s) = 0 /\ LiveOrders(s) = {}

BookShape ==
  \A i \in DOMAIN book :
    /\ book[i].status \in Pending \cup Terminal
    /\ AllOrNothing(book[i])
    /\ book[i].status \in Pending => i \in today

(* An entry at work will open a position, an exit at work closes it.       *)
OneAt(s) ==
  \A i \in LiveOrders(s) :
    /\ LiveOrders(s) = {i}
    /\ BrokerPosition(s) = IF book[i].intent = "ENTRY" THEN 0
                           ELSE -Signed(book[i], book[i].quantity)

OneAtWork == \A s \in Symbols \ doubled : OneAt(s)

(* A report of an order that is over stays true; an older one may not.     *)
InboxShape ==
  \A i \in DOMAIN inbox :
    /\ orders[i].status \in Pending
    /\ inbox[i].status \in Pending \cup Terminal
    /\ AllOrNothing(inbox[i])
    /\ i \in DOMAIN book /\ inbox[i].status \in Terminal =>
         /\ book[i].status \in Terminal
         /\ i \in today => book[i].status = inbox[i].status
    /\ phase = "updates" => i \in DOMAIN book \cap today

(* What the process remembers, or its snapshot: never more than the broker *)
(* knows, and at most one entry a symbol waits for.                        *)
Remembered(os, i) ==
  /\ AllOrNothing(os[i])
  /\ i \in DOMAIN book =>
       /\ os[i].symbol = book[i].symbol
       /\ os[i].intent = book[i].intent
       /\ os[i].side = book[i].side /\ os[i].quantity = book[i].quantity
       /\ os[i].status \in Pending \cup Terminal
       /\ os[i].status \in Terminal => book[i].status \in Terminal

PendingEntry(os, i) == os[i].intent = "ENTRY" /\ os[i].status \in Pending

OnlyEntry(os, ps, i) ==
  /\ ~Active(ps[os[i].symbol])
  /\ \A j \in DOMAIN os : PendingEntry(os, j) /\ os[j].symbol = os[i].symbol => j = i

Sound(os, ps) ==
  \A i \in DOMAIN os :
    Remembered(os, i) /\ (PendingEntry(os, i) => OnlyEntry(os, ps, i))

MemorySound   == Sound(orders, positions)
SnapshotSound == saved # <<>> => Sound(saved[1].orders, saved[1].positions)

(* The orders of today AutoTick waits for.                                 *)
Awaited ==
  {i \in DOMAIN orders \cap DOMAIN book \cap today : orders[i].status \in Pending}

(* A report that frees the symbol: an entry that failed, a filled exit.    *)
Frees(i) ==
  IF orders[i].intent = "ENTRY" THEN book[i].status \in Unfilled
                                ELSE book[i].status = "FILLED"

Ended(s) ==
  {i \in Awaited : /\ orders[i].symbol = s
                   /\ Allowed(orders[i].status, book[i].status)
                   /\ Frees(i)}

Loop == phase \in {"top", "updates", "process"} /\ raised = "none"

EndedAt(s) == \A i \in Ended(s) : Ended(s) = {i} /\ Flat(s)
EndedInv   == Loop => \A s \in Symbols \ doubled : EndedAt(s)

Held(s) == s \in blocked \cap entered

SafeAt(s) ==
  ~HasActiveTrade(s) /\ ~Held(s) =>
    /\ Flat(s)
    /\ phase = "process" => Ended(s) = {}
    /\ phase = "updates" =>
         \A i \in Ended(s) : i \in DOMAIN inbox /\ inbox[i].status = book[i].status
SafeInv == Loop => \A s \in Symbols \ doubled : SafeAt(s)

(* The orders of which a recovery may still leave a report for the loop.   *)
MayEnd(s) ==
  {i \in Awaited :
     /\ orders[i].symbol = s
     /\ IF i \in DOMAIN inbox THEN inbox[i].status \in Pending
        ELSE book[i].status \in Pending \/ Allowed(orders[i].status, book[i].status)}
MayEndAt(s) == \A i \in MayEnd(s) : MayEnd(s) = {i} /\ (Frees(i) => Flat(s))
MayEndInv ==
  phase = "positions" /\ raised = "none" => \A s \in Symbols \ doubled : MayEndAt(s)

EntryInv ==
  /\ BookShape /\ OneAtWork
  /\ InboxShape /\ MemorySound /\ SnapshotSound
  /\ EndedInv /\ SafeInv /\ MayEndInv

-----------------------------------------------------------------------------
(* Midnight at the broker.                                                 *)

(* Midnight executes nothing and ends every order at work.                 *)
LEMMA MidnightEnds ==
  ASSUME IInv, IInv', BookFinite, Midnight, NEW s
  PROVE  BrokerPosition(s)' = BrokerPosition(s) /\ LiveOrders(s)' = {}
<1>1. ASSUME NEW i \in DOMAIN book
      PROVE  /\ book'[i].symbol = book[i].symbol /\ book'[i].filled = book[i].filled
             /\ book'[i].side = book[i].side
             /\ book'[i].status \notin Pending
  <2>1. book[i] \in Order
    BY DEF IInv, TypeOK
  <2>2. book'[i] = IF book[i].status \in Pending
                   THEN [book[i] EXCEPT !.status = "CANCELLED"] ELSE book[i]
    BY DEF Midnight
  <2> QED
    BY <2>1, <2>2 DEF Order, Pending
<1>2. DOMAIN book' = DOMAIN book
  BY DEF Midnight
<1>3. Executions(s)' = Executions(s)
  BY <1>1, <1>2 DEF Executions, Signed
<1>4. BrokerPosition(s) = SumFunction(Executions(s))
      /\ BrokerPosition(s)' = SumFunction(Executions(s)')
  BY DEF Executions, BrokerPosition
<1> QED
  BY <1>1, <1>2, <1>3, <1>4 DEF LiveOrders

-----------------------------------------------------------------------------
LEMMA SendFacts ==
  ASSUME LInv, LInv', SnapshotKnown, EntryInv, phase # "down",
         NEW id, NEW n, NEW o, Sends(id, n, o),
         today' = today \cup NewIds, UNCHANGED <<saved, phase>>
  PROVE  /\ BookShape' /\ InboxShape' /\ SnapshotSound'
         /\ o.symbol \in Symbols
         /\ book' # book <=> n \in DOMAIN book'
         /\ n \in DOMAIN book' => book'[n] = o
         /\ \A t \in Symbols :
              /\ BrokerPosition(t)' = BrokerPosition(t)
              /\ LiveOrders(t)' = IF n \in DOMAIN book' /\ t = o.symbol
                                  THEN LiveOrders(t) \cup {n} ELSE LiveOrders(t)
              /\ Ended(t)' = Ended(t)
<1>1. /\ id \notin DOMAIN orders /\ id \notin DOMAIN book
      /\ n \notin DOMAIN orders /\ n \notin DOMAIN book
      /\ o \in Order /\ o.symbol \in Symbols /\ o.filled = 0 /\ o.status = "SUBMITTED"
      /\ IInv /\ IInv' /\ BookFinite
  BY DEF Sends, Used, Order, LInv
<1>2. /\ DOMAIN orders' = DOMAIN orders \cup {id}
      /\ \A i \in DOMAIN orders : orders'[i] = orders[i]
      /\ DOMAIN inbox = {} /\ UNCHANGED inbox
  BY DEF Sends
<1>3. \/ UNCHANGED book /\ n \notin DOMAIN book'
      \/ /\ DOMAIN book' = DOMAIN book \cup {n} /\ book'[n] = o
         /\ \A i \in DOMAIN book : book'[i] = book[i]
  BY <1>1 DEF Sends
<1>4. /\ \A i \in DOMAIN book : i \in DOMAIN book' /\ book'[i] = book[i]
      /\ DOMAIN book' \subseteq DOMAIN book \cup {n}
      /\ n \in DOMAIN book' => book'[n] = o
      /\ book' # book <=> n \in DOMAIN book'
  BY <1>1, <1>3
<1>5. /\ "SUBMITTED" \in Pending /\ "SUBMITTED" \notin Terminal /\ "FILLED" # "SUBMITTED"
      /\ "VALIDATED" \notin Pending /\ "REJECTED" \notin Pending
      /\ Unfilled \subseteq Terminal /\ "FILLED" \in Terminal
  BY DEF Pending, Terminal, Unfilled
<1>6. today \subseteq today' /\ (n \in DOMAIN book' => n \in today')
      /\ \A i \in today' \ today : i \notin Used
  BY <1>1 DEF NewIds, Used
<1>7. BookShape'
  <2> SUFFICES ASSUME NEW i \in DOMAIN book'
               PROVE  /\ book'[i].status \in Pending \cup Terminal
                      /\ AllOrNothing(book'[i])
                      /\ book'[i].status \in Pending => i \in today'
    BY DEF BookShape, AllOrNothing
  <2>1. CASE i \in DOMAIN book
    BY <1>4, <1>6, <2>1 DEF EntryInv, BookShape
  <2>2. CASE i = n
    BY <1>1, <1>4, <1>5, <1>6, <2>2 DEF AllOrNothing
  <2> QED
    BY <1>4, <2>1, <2>2
<1>8. InboxShape'
  BY <1>2 DEF InboxShape
<1>9. SnapshotSound'
  <2> SUFFICES ASSUME saved # <<>> PROVE Sound(saved[1].orders, saved[1].positions)'
    BY DEF SnapshotSound
  <2> DEFINE os == saved[1].orders
  <2>1. DOMAIN os \subseteq DOMAIN orders /\ Sound(os, saved[1].positions)
    BY DEF EntryInv, SnapshotSound, SnapshotKnown
  <2>2. \A i \in DOMAIN os : i # n
    BY <1>1, <2>1
  <2> HIDE DEF os
  <2>3. \A i \in DOMAIN os : Remembered(os, i) => Remembered(os, i)'
    BY <1>4, <2>2 DEF Remembered, os
  <2>4. \A i \in DOMAIN os : /\ PendingEntry(os, i)' <=> PendingEntry(os, i)
                             /\ OnlyEntry(os, saved[1].positions, i)
                                  => OnlyEntry(os, saved[1].positions, i)'
    BY DEF PendingEntry, OnlyEntry, os
  <2>5. os' = os
    BY DEF os
  <2> QED
    BY <2>1, <2>3, <2>4, <2>5 DEF Sound, os
<1>10. ASSUME NEW t \in Symbols
       PROVE  /\ BrokerPosition(t)' = BrokerPosition(t)
              /\ LiveOrders(t)' = IF n \in DOMAIN book' /\ t = o.symbol
                                  THEN LiveOrders(t) \cup {n} ELSE LiveOrders(t)
  <2>1. CASE UNCHANGED book /\ n \notin DOMAIN book'
    BY <2>1 DEF BrokerPosition, LiveOrders
  <2>2. CASE /\ DOMAIN book' = DOMAIN book \cup {n} /\ book'[n] = o
             /\ \A i \in DOMAIN book : book'[i] = book[i]
    BY <1>1, <1>5, <2>2, OrderIsPlaced
  <2> QED
    BY <1>3, <2>1, <2>2
<1>11. ASSUME NEW t \in Symbols
       PROVE  Ended(t)' = Ended(t)
  <2>1. ASSUME NEW i \in Ended(t)
        PROVE  i \in Ended(t)'
    BY <1>2, <1>4, <1>6, <2>1 DEF Ended, Awaited, Frees, Allowed
  <2>2. ASSUME NEW i \in Ended(t)'
        PROVE  i \in Ended(t)
    <3>1. /\ i \in DOMAIN orders' /\ i \in DOMAIN book' /\ i \in today'
          /\ orders'[i].status \in Pending /\ orders'[i].symbol = t
          /\ book'[i].status \in Terminal
      BY <1>5, <2>2 DEF Ended, Awaited, Frees
    <3>2. i # n
      BY <1>1, <1>4, <1>5, <3>1
    <3>3. i \in DOMAIN book /\ i # id
      BY <1>1, <1>4, <3>1, <3>2
    <3>4. i \in DOMAIN orders /\ i \in today
      BY <1>2, <1>6, <3>1, <3>3 DEF Used
    <3> QED
      BY <1>2, <1>4, <2>2, <3>3, <3>4 DEF Ended, Awaited, Frees, Allowed
  <2> QED
    BY <2>1, <2>2
<1> QED
  BY <1>1, <1>4, <1>7, <1>8, <1>9, <1>10, <1>11

(* A remembered order stays as sound as it was.                            *)
LEMMA SendRemembers ==
  ASSUME IInv, MemorySound, NEW id, NEW n, NEW o, Sends(id, n, o)
  PROVE  \A i \in DOMAIN orders' :
           /\ Remembered(orders, i)'
           /\ i # id => i \in DOMAIN orders /\ orders'[i] = orders[i] /\ Remembered(orders, i)
<1>1. /\ id \notin DOMAIN orders /\ id \notin DOMAIN book
      /\ n \notin DOMAIN orders /\ n \notin DOMAIN book
      /\ DOMAIN orders' = DOMAIN orders \cup {id}
      /\ \A i \in DOMAIN orders : orders'[i] = orders[i]
      /\ orders'[id].filled = 0 /\ orders'[id].symbol = o.symbol
      /\ orders'[id].intent = o.intent
      /\ orders'[id].side = o.side /\ orders'[id].quantity = o.quantity
      /\ "SUBMITTED" \in Pending /\ "SUBMITTED" \notin Terminal
  BY DEF Sends, Used, Pending, Terminal, Unfilled
<1>2. \/ UNCHANGED book
      \/ /\ DOMAIN book' = DOMAIN book \cup {n} /\ book'[n] = o
         /\ \A i \in DOMAIN book : book'[i] = book[i]
         /\ n = id => orders'[id].status = "SUBMITTED"
  BY DEF Sends
<1>3. AllOrNothing(orders'[id])
  BY <1>1 DEF AllOrNothing
<1>4. id \in DOMAIN book' => /\ n = id /\ book'[id] = o /\ orders'[id].status = "SUBMITTED"
  BY <1>1, <1>2
<1>5. Remembered(orders, id)'
  BY <1>1, <1>3, <1>4 DEF Remembered, AllOrNothing
<1>6. ASSUME NEW i \in DOMAIN orders
      PROVE  Remembered(orders, i) /\ Remembered(orders, i)'
  <2>1. Remembered(orders, i) /\ i # n
    BY <1>1 DEF MemorySound, Sound
  <2>2. orders'[i] = orders[i] /\ (i \in DOMAIN book' => i \in DOMAIN book /\ book'[i] = book[i])
    BY <1>1, <1>2, <2>1
  <2> QED
    BY <2>1, <2>2 DEF Remembered, AllOrNothing
<1> QED
  BY <1>1, <1>5, <1>6

LEMMA EntryKeepsEntries ==
  ASSUME LInv, LInv', SnapshotKnown, EntryInv, NEW s \in Symbols, ProcessEntry(s)
  PROVE  /\ EntryInv'
         /\ s \notin doubled => Flat(s)
         /\ \A i \in DOMAIN book' \ DOMAIN book : book'[i].symbol = s
<1>1. /\ EnterTrade(s) /\ phase = "process" /\ s \notin entered /\ entered \subseteq entered'
      /\ today' = today \cup NewIds /\ UNCHANGED <<phase, blocked, doubled, saved>>
  BY DEF ProcessEntry, store
<1>2. PICK id, n, o : Sends(id, n, o) /\ o.symbol = s /\ o.intent = "ENTRY"
  BY <1>1, EntrySends DEF LInv
<1>3. ~HasActiveTrade(s) /\ UNCHANGED positions
  BY <1>1, EntrySends DEF LInv
<1> HIDE DEF EnterTrade
<1>4. /\ BookShape' /\ InboxShape' /\ SnapshotSound'
      /\ book' # book <=> n \in DOMAIN book'
      /\ n \in DOMAIN book' => book'[n] = o
      /\ \A t \in Symbols :
           /\ BrokerPosition(t)' = BrokerPosition(t)
           /\ LiveOrders(t)' = IF n \in DOMAIN book' /\ t = s
                               THEN LiveOrders(t) \cup {n} ELSE LiveOrders(t)
           /\ Ended(t)' = Ended(t)
  BY <1>1, <1>2, SendFacts
<1>5. /\ id \notin DOMAIN orders /\ n \notin DOMAIN book /\ raised = "none"
      /\ DOMAIN orders' = DOMAIN orders \cup {id}
      /\ \A i \in DOMAIN orders : orders'[i] = orders[i]
      /\ orders'[id].symbol = s /\ orders'[id].intent = "ENTRY"
      /\ \/ UNCHANGED book
         \/ /\ DOMAIN book' = DOMAIN book \cup {n}
            /\ \A i \in DOMAIN book : book'[i] = book[i]
            /\ orders'[id].status = IF n = id THEN "SUBMITTED" ELSE "VALIDATED"
            /\ n # id => raised' # "none"
  BY <1>2 DEF Sends, Used
<1>6. s \notin doubled => Flat(s) /\ Ended(s) = {}
  BY <1>1, <1>3, <1>5 DEF EntryInv, SafeInv, SafeAt, Loop, Held
<1>7. OneAtWork'
  <2> SUFFICES ASSUME NEW t \in Symbols \ doubled, NEW i \in LiveOrders(t)'
               PROVE  /\ LiveOrders(t)' = {i}
                      /\ BrokerPosition(t)' = IF book'[i].intent = "ENTRY" THEN 0
                                              ELSE -Signed(book'[i], book'[i].quantity)
    BY <1>1 DEF OneAtWork, OneAt, Signed
  <2>1. CASE n \in DOMAIN book' /\ t = s
    BY <1>2, <1>4, <1>6, <2>1 DEF Flat
  <2>2. CASE ~(n \in DOMAIN book' /\ t = s)
    <3>1. i \in LiveOrders(t) /\ book'[i] = book[i]
      BY <1>4, <1>5, <2>2 DEF LiveOrders
    <3> QED
      BY <1>4, <2>2, <3>1 DEF EntryInv, OneAtWork, OneAt, Signed
  <2> QED
    BY <2>1, <2>2
<1>8. MemorySound'
  <2>1. \A i \in DOMAIN orders' :
          /\ Remembered(orders, i)'
          /\ i # id => i \in DOMAIN orders /\ orders'[i] = orders[i]
    BY <1>2, SendRemembers DEF LInv, EntryInv
  <2>2. ASSUME NEW i \in DOMAIN orders', PendingEntry(orders', i)
        PROVE  /\ ~Active(positions[orders'[i].symbol])
               /\ \A j \in DOMAIN orders' :
                    PendingEntry(orders', j) /\ orders'[j].symbol = orders'[i].symbol => j = i
    <3>1. \A j \in DOMAIN orders : PendingEntry(orders, j) => orders[j].symbol # s
      BY <1>3 DEF HasActiveTrade, Of, PendingEntry
    <3>2. CASE i = id
      BY <1>3, <1>5, <2>1, <3>1, <3>2 DEF HasActiveTrade, PendingEntry
    <3>3. CASE i # id
      <4>1. i \in DOMAIN orders /\ orders'[i] = orders[i] /\ PendingEntry(orders, i)
        BY <2>1, <2>2, <3>3 DEF PendingEntry
      <4>2. OnlyEntry(orders, positions, i) /\ orders[i].symbol # s
        BY <3>1, <4>1 DEF EntryInv, MemorySound, Sound
      <4> QED
        BY <1>5, <2>1, <4>1, <4>2 DEF OnlyEntry, PendingEntry
    <3> QED
      BY <3>2, <3>3
  <2>3. \A i \in DOMAIN orders' : PendingEntry(orders, i)' => OnlyEntry(orders, positions, i)'
    BY <1>3, <2>2 DEF PendingEntry, OnlyEntry
  <2> QED
    BY <2>1, <2>3 DEF MemorySound, Sound
<1>9. ASSUME NEW t \in Symbols
      PROVE  /\ HasActiveTrade(t) => HasActiveTrade(t)'
             /\ Held(t) => Held(t)'
  BY <1>1, <1>3, <1>5 DEF HasActiveTrade, Of, Held
<1>10. n \in DOMAIN book' /\ raised' = "none" => HasActiveTrade(s)'
  <2>1. SUFFICES ASSUME n \in DOMAIN book', raised' = "none" PROVE HasActiveTrade(s)'
    OBVIOUS
  <2>2. orders'[id].status = "SUBMITTED" /\ "SUBMITTED" \in Pending
    BY <1>4, <1>5, <2>1, StatusFacts
  <2> QED
    BY <1>5, <2>2 DEF HasActiveTrade, Of
<1>11. EndedInv'
  <2> SUFFICES ASSUME NEW t \in Symbols \ doubled, NEW i \in Ended(t)
               PROVE  Ended(t)' = {i} /\ Flat(t)'
    BY <1>1, <1>4 DEF EndedInv, EndedAt
  <2>1. Ended(t) = {i} /\ Flat(t)
    BY <1>1, <1>5 DEF EntryInv, EndedInv, EndedAt, Loop
  <2>2. t # s
    BY <1>6, <2>1
  <2> QED
    BY <1>4, <2>1, <2>2 DEF Flat
<1>12. SafeInv'
  <2> SUFFICES ASSUME NEW t \in Symbols \ doubled, raised' = "none",
                      ~HasActiveTrade(t)', ~Held(t)'
               PROVE  Flat(t)' /\ Ended(t)' = {}
    BY <1>1 DEF SafeInv, SafeAt, Loop
  <2>1. Flat(t) /\ Ended(t) = {}
    BY <1>1, <1>5, <1>9 DEF EntryInv, SafeInv, SafeAt, Loop
  <2>2. ~(n \in DOMAIN book' /\ t = s)
    BY <1>10
  <2> QED
    BY <1>4, <2>1, <2>2 DEF Flat
<1>13. MayEndInv'
  BY <1>1 DEF MayEndInv
<1>14. \A i \in DOMAIN book' \ DOMAIN book : book'[i].symbol = s
  BY <1>2, <1>4, <1>5
<1> QED
  BY <1>4, <1>6, <1>7, <1>8, <1>11, <1>12, <1>13, <1>14 DEF EntryInv

LEMMA ExitKeepsEntries ==
  ASSUME LInv, LInv', SnapshotKnown, EntryInv, NEW s \in Symbols, ProcessExit(s)
  PROVE  /\ EntryInv'
         /\ \A i \in DOMAIN book' \ DOMAIN book : book'[i].intent = "EXIT"
<1>1. /\ SubmitExit(s) /\ phase = "process"
      /\ today' = today \cup NewIds /\ UNCHANGED <<phase, entered, blocked, saved>>
      /\ doubled' = IF book' # book /\ ~MatchedExit(s) THEN doubled \cup {s} ELSE doubled
  BY DEF ProcessExit, store
<1>2. PICK id, n, o : /\ Sends(id, n, o) /\ o.symbol = s /\ o.intent = "EXIT"
                      /\ positions[s].quantity = -Signed(o, o.quantity)
  BY <1>1, ExitSends DEF LInv
<1>3. /\ positions[s].quantity # 0 /\ Active(positions[s])
      /\ \A t \in Symbols : Active(positions'[t]) <=> Active(positions[t])
  BY <1>1, ExitSends DEF LInv, Active
<1> HIDE DEF SubmitExit
<1>4. /\ BookShape' /\ InboxShape' /\ SnapshotSound'
      /\ book' # book <=> n \in DOMAIN book'
      /\ n \in DOMAIN book' => book'[n] = o
      /\ \A t \in Symbols :
           /\ BrokerPosition(t)' = BrokerPosition(t)
           /\ LiveOrders(t)' = IF n \in DOMAIN book' /\ t = s
                               THEN LiveOrders(t) \cup {n} ELSE LiveOrders(t)
           /\ Ended(t)' = Ended(t)
  BY <1>1, <1>2, SendFacts
<1>5. /\ id \notin DOMAIN orders /\ n \notin DOMAIN book /\ raised = "none"
      /\ DOMAIN orders' = DOMAIN orders \cup {id}
      /\ \A i \in DOMAIN orders : orders'[i] = orders[i]
      /\ orders'[id].symbol = s /\ orders'[id].intent = "EXIT"
      /\ \/ UNCHANGED book /\ raised' # "none"
         \/ /\ DOMAIN book' = DOMAIN book \cup {n}
            /\ \A i \in DOMAIN book : book'[i] = book[i]
  BY <1>2 DEF Sends, Used
<1>6. n \in DOMAIN book' /\ s \notin doubled' =>
        /\ BrokerPosition(s) = -Signed(o, o.quantity) /\ BrokerPosition(s) # 0
        /\ LiveOrders(s) = {}
  BY <1>1, <1>2, <1>3, <1>4 DEF MatchedExit
<1>7. doubled \subseteq doubled'
  BY <1>1
<1>8. OneAtWork'
  <2> SUFFICES ASSUME NEW t \in Symbols \ doubled', NEW i \in LiveOrders(t)'
               PROVE  /\ LiveOrders(t)' = {i}
                      /\ BrokerPosition(t)' = IF book'[i].intent = "ENTRY" THEN 0
                                              ELSE -Signed(book'[i], book'[i].quantity)
    BY DEF OneAtWork, OneAt, Signed
  <2>1. CASE n \in DOMAIN book' /\ t = s
    <3>1. LiveOrders(t)' = {n} /\ i = n /\ book'[i] = o
      BY <1>4, <1>6, <2>1
    <3> QED
      BY <1>2, <1>4, <1>6, <2>1, <3>1
  <2>2. CASE ~(n \in DOMAIN book' /\ t = s)
    <3>1. i \in LiveOrders(t) /\ book'[i] = book[i] /\ t \notin doubled
      BY <1>4, <1>5, <1>7, <2>2 DEF LiveOrders
    <3> QED
      BY <1>4, <2>2, <3>1 DEF EntryInv, OneAtWork, OneAt, Signed
  <2> QED
    BY <2>1, <2>2
<1>9. MemorySound'
  <2>1. \A i \in DOMAIN orders' :
          /\ Remembered(orders, i)'
          /\ i # id => i \in DOMAIN orders /\ orders'[i] = orders[i]
    BY <1>2, SendRemembers DEF LInv, EntryInv
  <2>2. ASSUME NEW i \in DOMAIN orders', PendingEntry(orders, i)'
        PROVE  OnlyEntry(orders, positions, i)'
    <3>1. i \in DOMAIN orders /\ orders'[i] = orders[i] /\ PendingEntry(orders, i)
      BY <1>5, <2>1, <2>2 DEF PendingEntry
    <3>2. OnlyEntry(orders, positions, i) /\ orders[i].symbol \in Symbols
      BY <3>1 DEF EntryInv, MemorySound, Sound, LInv, IInv, TypeOK, Order
    <3> QED
      BY <1>3, <1>5, <2>1, <3>1, <3>2 DEF OnlyEntry, PendingEntry
  <2> QED
    BY <2>1, <2>2 DEF MemorySound, Sound
<1>10. ASSUME NEW t \in Symbols
       PROVE  HasActiveTrade(t) => HasActiveTrade(t)'
  BY <1>3, <1>5 DEF HasActiveTrade, Of
<1>11. EndedInv'
  <2> SUFFICES ASSUME raised' = "none", NEW t \in Symbols \ doubled', NEW i \in Ended(t)
               PROVE  Ended(t)' = {i} /\ Flat(t)'
    BY <1>4 DEF EndedInv, EndedAt, Loop
  <2>1. Ended(t) = {i} /\ Flat(t)
    BY <1>1, <1>5, <1>7 DEF EntryInv, EndedInv, EndedAt, Loop
  <2>2. ~(n \in DOMAIN book' /\ t = s)
    BY <1>6, <2>1 DEF Flat
  <2> QED
    BY <1>4, <2>1, <2>2 DEF Flat
<1>12. SafeInv'
  <2> SUFFICES ASSUME NEW t \in Symbols \ doubled', raised' = "none",
                      ~HasActiveTrade(t)', ~Held(t)'
               PROVE  Flat(t)' /\ Ended(t)' = {}
    BY <1>1 DEF SafeInv, SafeAt, Loop
  <2>1. ~HasActiveTrade(t) /\ ~Held(t) /\ t \notin doubled
    BY <1>1, <1>7, <1>10 DEF Held
  <2>2. Flat(t) /\ Ended(t) = {}
    BY <1>1, <1>5, <2>1 DEF EntryInv, SafeInv, SafeAt, Loop
  <2>3. t # s
    BY <1>3, <2>1 DEF HasActiveTrade
  <2> QED
    BY <1>4, <2>2, <2>3 DEF Flat
<1>13. MayEndInv'
  BY <1>1 DEF MayEndInv
<1>14. \A i \in DOMAIN book' \ DOMAIN book : book'[i].intent = "EXIT"
  BY <1>2, <1>4, <1>5
<1> QED
  BY <1>4, <1>8, <1>9, <1>11, <1>12, <1>13, <1>14 DEF EntryInv

-----------------------------------------------------------------------------
(* The broker's own steps.                                                 *)

(* What is remembered of an order stays sound when orders change at the    *)
(* broker as they may.                                                     *)
LEMMA BookMovesOn ==
  ASSUME NEW os, NEW ps, Sound(os, ps), DOMAIN book' = DOMAIN book,
         \A i \in DOMAIN book : /\ book'[i].symbol = book[i].symbol
                                /\ book'[i].intent = book[i].intent
                                /\ book'[i].side = book[i].side
                                /\ book'[i].quantity = book[i].quantity
                                /\ book[i].status \in Terminal => book'[i].status \in Terminal
  PROVE  \A i \in DOMAIN os :
           /\ AllOrNothing(os[i])
           /\ i \in DOMAIN book' =>
                /\ os[i].symbol = book'[i].symbol
                /\ os[i].intent = book'[i].intent
                /\ os[i].side = book'[i].side /\ os[i].quantity = book'[i].quantity
                /\ os[i].status \in Pending \cup Terminal
                /\ os[i].status \in Terminal => book'[i].status \in Terminal
           /\ PendingEntry(os, i) => OnlyEntry(os, ps, i)
BY DEF Sound, Remembered

LEMMA BookKeepsMemories ==
  ASSUME MemorySound, SnapshotSound, DOMAIN book' = DOMAIN book,
         \A i \in DOMAIN book : /\ book'[i].symbol = book[i].symbol
                                /\ book'[i].intent = book[i].intent
                                /\ book'[i].side = book[i].side
                                /\ book'[i].quantity = book[i].quantity
                                /\ book[i].status \in Terminal => book'[i].status \in Terminal,
         UNCHANGED <<orders, positions, saved>>
  PROVE  MemorySound' /\ SnapshotSound'
<1>1. MemorySound'
  <2>1. \A i \in DOMAIN orders :
           /\ AllOrNothing(orders[i])
           /\ i \in DOMAIN book' =>
                /\ orders[i].symbol = book'[i].symbol
                /\ orders[i].intent = book'[i].intent
                /\ orders[i].side = book'[i].side
                /\ orders[i].quantity = book'[i].quantity
                /\ orders[i].status \in Pending \cup Terminal
                /\ orders[i].status \in Terminal => book'[i].status \in Terminal
           /\ PendingEntry(orders, i) => OnlyEntry(orders, positions, i)
    BY BookMovesOn DEF MemorySound
  <2> QED
    BY <2>1 DEF MemorySound, Sound, Remembered, PendingEntry, OnlyEntry, AllOrNothing
<1>2. SnapshotSound'
  <2> SUFFICES ASSUME saved # <<>> PROVE Sound(saved[1].orders, saved[1].positions)'
    BY DEF SnapshotSound
  <2> DEFINE os == saved[1].orders
             ps == saved[1].positions
  <2>1. Sound(os, ps)
    BY DEF SnapshotSound
  <2>2. os' = os /\ ps' = ps
    OBVIOUS
  <2> HIDE DEF os, ps
  <2>3. \A i \in DOMAIN os :
           /\ AllOrNothing(os[i])
           /\ i \in DOMAIN book' =>
                /\ os[i].symbol = book'[i].symbol
                /\ os[i].intent = book'[i].intent
                /\ os[i].side = book'[i].side /\ os[i].quantity = book'[i].quantity
                /\ os[i].status \in Pending \cup Terminal
                /\ os[i].status \in Terminal => book'[i].status \in Terminal
           /\ PendingEntry(os, i) => OnlyEntry(os, ps, i)
    BY <2>1, BookMovesOn
  <2>4. Sound(os, ps)'
    BY <2>2, <2>3 DEF Sound, Remembered, PendingEntry, OnlyEntry, AllOrNothing
  <2> QED
    BY <2>4 DEF os, ps
<1> QED
  BY <1>1, <1>2

(* When the one order at work ends in a way that frees its symbol, the     *)
(* broker is flat.                                                         *)
LEMMA FreedIsFlat ==
  ASSUME IInv, BookFinite, EntryInv, NEW id \in DOMAIN book,
         NEW s \in Symbols \ doubled, BrokerMoved(id, s),
         id \in DOMAIN orders, UNCHANGED orders, Frees(id)'
  PROVE  Flat(s)'
<1>1. /\ id \in LiveOrders(s)
      /\ LiveOrders(s)' = IF book'[id].status \in Pending THEN LiveOrders(s)
                          ELSE LiveOrders(s) \ {id}
      /\ BrokerPosition(s)' = IF book'[id].status = "FILLED"
                              THEN BrokerPosition(s) + Signed(book[id], book[id].quantity)
                              ELSE BrokerPosition(s)
  BY DEF BrokerMoved
<1>2. /\ LiveOrders(s) = {id}
      /\ BrokerPosition(s) = IF book[id].intent = "ENTRY" THEN 0
                             ELSE -Signed(book[id], book[id].quantity)
  BY <1>1 DEF EntryInv, OneAtWork, OneAt
<1>3. orders[id].intent = book[id].intent
  BY DEF EntryInv, MemorySound, Sound, Remembered
<1>4. book[id] \in Order
  BY DEF IInv, TypeOK
<1>5. /\ "FILLED" \notin Unfilled /\ "FILLED" \notin Pending /\ Unfilled \cap Pending = {}
  BY DEF Unfilled, Pending
<1>6. CASE book[id].intent = "ENTRY"
  <2>1. book'[id].status \in Unfilled
    BY <1>3, <1>6 DEF Frees
  <2> QED
    BY <1>1, <1>2, <1>5, <1>6, <2>1 DEF Flat
<1>7. CASE book[id].intent # "ENTRY"
  <2>1. book'[id].status = "FILLED"
    BY <1>3, <1>7 DEF Frees
  <2>2. Signed(book[id], book[id].quantity) \in Int
    BY <1>4 DEF Order, Signed
  <2> QED
    BY <1>1, <1>2, <1>5, <1>7, <2>1, <2>2 DEF Flat
<1> QED
  BY <1>6, <1>7

LEMMA BrokerKeepsEntries ==
  ASSUME LInv, LInv', ~PartialFills, EntryInv, NEW id \in DOMAIN book, BrokerMove(id)
  PROVE  EntryInv'
<1>0. PICK s \in Symbols : book[id].symbol = s
  BY DEF LInv, IInv, TypeOK, Order
<1>1. /\ BrokerMoved(id, s)
      /\ UNCHANGED <<orders, positions, inbox, raised, saved, doubled, today, phase, blocked,
                     entered>>
  BY <1>0, OneOrderMoves
     DEF BrokerMove, BrokerStep, runner, store, dates, tmvars, LInv, EntryInv, BookShape
<1> HIDE DEF BrokerMove
<1>2. /\ book[id].symbol = s /\ id \in LiveOrders(s) /\ DOMAIN book' = DOMAIN book
      /\ \A i \in DOMAIN book \ {id} : book'[i] = book[i]
      /\ book'[id].symbol = s /\ book'[id].intent = book[id].intent
      /\ book'[id].quantity = book[id].quantity /\ book'[id].side = book[id].side
      /\ book'[id].status \in Pending \cup Terminal /\ AllOrNothing(book'[id])
      /\ \A t \in Symbols \ {s} : BrokerPosition(t)' = BrokerPosition(t)
                                   /\ LiveOrders(t)' = LiveOrders(t)
      /\ LiveOrders(s)' = IF book'[id].status \in Pending THEN LiveOrders(s)
                          ELSE LiveOrders(s) \ {id}
      /\ BrokerPosition(s)' = IF book'[id].status = "FILLED"
                              THEN BrokerPosition(s) + Signed(book[id], book[id].quantity)
                              ELSE BrokerPosition(s)
  BY <1>1 DEF BrokerMoved
<1>3. /\ book[id].status \in Pending /\ Pending \cap Terminal = {} /\ "FILLED" \in Terminal
      /\ Unfilled \subseteq Terminal
  BY <1>2, StatusFacts DEF LiveOrders, Terminal
<1>4. ~Flat(s)
  BY <1>2 DEF Flat
<1>5. BookShape'
  <2> SUFFICES ASSUME NEW i \in DOMAIN book
               PROVE  /\ book'[i].status \in Pending \cup Terminal
                      /\ AllOrNothing(book'[i])
                      /\ book'[i].status \in Pending => i \in today
    BY <1>1, <1>2 DEF BookShape, AllOrNothing
  <2> QED
    BY <1>1, <1>2, <1>3 DEF EntryInv, BookShape
<1>6. OneAtWork'
  <2> SUFFICES ASSUME NEW t \in Symbols \ doubled, NEW i \in LiveOrders(t)'
               PROVE  /\ LiveOrders(t)' = {i}
                      /\ BrokerPosition(t)' = IF book'[i].intent = "ENTRY" THEN 0
                                              ELSE -Signed(book'[i], book'[i].quantity)
    BY <1>1 DEF OneAtWork, OneAt, Signed
  <2>1. i \in LiveOrders(t)
    BY <1>2
  <2>2. /\ LiveOrders(t) = {i}
        /\ BrokerPosition(t) = IF book[i].intent = "ENTRY" THEN 0
                               ELSE -Signed(book[i], book[i].quantity)
    BY <2>1 DEF EntryInv, OneAtWork, OneAt
  <2>3. CASE t = s
    <3>1. i = id /\ book'[id].status \in Pending
      BY <1>2, <2>2, <2>3
    <3> QED
      BY <1>2, <1>3, <2>2, <2>3, <3>1 DEF Signed
  <2>4. CASE t # s
    <3>1. i # id
      BY <1>2, <2>1, <2>4 DEF LiveOrders
    <3> QED
      BY <1>2, <2>1, <2>2, <2>4, <3>1 DEF LiveOrders, Signed
  <2> QED
    BY <2>3, <2>4
<1>7. InboxShape'
  <2> SUFFICES ASSUME NEW i \in DOMAIN inbox
               PROVE  /\ orders[i].status \in Pending
                      /\ inbox[i].status \in Pending \cup Terminal
                      /\ AllOrNothing(inbox[i])
                      /\ i \in DOMAIN book' /\ inbox[i].status \in Terminal =>
                           /\ book'[i].status \in Terminal
                           /\ i \in today => book'[i].status = inbox[i].status
                      /\ phase = "updates" => i \in DOMAIN book' \cap today
    BY <1>1 DEF InboxShape, AllOrNothing
  <2> QED
    BY <1>2, <1>3 DEF EntryInv, InboxShape
<1>8. MemorySound' /\ SnapshotSound'
  BY <1>1, <1>2, <1>3, BookKeepsMemories DEF EntryInv
<1>9. \A i \in DOMAIN orders : i \in DOMAIN book => orders[i].symbol = book[i].symbol
  BY DEF EntryInv, MemorySound, Sound, Remembered
<1>10. ASSUME NEW t \in Symbols, NEW i \in Ended(t)', i # id
       PROVE  i \in Ended(t) /\ book'[i] = book[i] /\ (Frees(i)' <=> Frees(i))
  BY <1>1, <1>2, <1>10 DEF Ended, Awaited, Frees
<1>11. ASSUME NEW t \in Symbols, t # s
       PROVE  Ended(t)' = Ended(t) /\ MayEnd(t)' = MayEnd(t) /\ (Flat(t)' <=> Flat(t))
  <2>1. \A i \in Awaited : orders[i].symbol = t => i # id
    BY <1>2, <1>9, <1>11 DEF Awaited
  <2> QED
    BY <1>1, <1>2, <1>11, <2>1 DEF Ended, MayEnd, Awaited, Frees, Flat
<1>12. EndedInv'
  <2> SUFFICES ASSUME Loop, NEW t \in Symbols \ doubled, NEW i \in Ended(t)'
               PROVE  Ended(t)' = {i} /\ Flat(t)'
    BY <1>1 DEF EndedInv, EndedAt, Loop
  <2>1. EndedAt(t)
    BY DEF EntryInv, EndedInv
  <2>2. CASE t # s
    BY <1>11, <2>1, <2>2 DEF EndedAt
  <2>3. CASE t = s
    <3>1. Ended(s) = {}
      BY <1>4, <2>1, <2>3 DEF EndedAt
    <3>2. i = id /\ Ended(t)' = {id}
      BY <1>10, <2>3, <3>1
    <3>3. id \in DOMAIN orders /\ Frees(id)'
      BY <1>1, <3>2 DEF Ended, Awaited
    <3>4. Flat(s)'
      BY <1>1, <2>3, <3>3, FreedIsFlat DEF LInv
    <3> QED
      BY <2>3, <3>2, <3>4
  <2> QED
    BY <2>2, <2>3
<1>13. SafeInv'
  <2> SUFFICES ASSUME Loop, NEW t \in Symbols \ doubled, ~HasActiveTrade(t), ~Held(t)
               PROVE  /\ Flat(t)'
                      /\ phase = "process" => Ended(t)' = {}
                      /\ phase = "updates" =>
                           \A i \in Ended(t)' : i \in DOMAIN inbox /\ inbox[i].status = book'[i].status
    BY <1>1 DEF SafeInv, SafeAt, Loop, HasActiveTrade, Of, Held
  <2>1. /\ Flat(t)
        /\ phase = "process" => Ended(t) = {}
        /\ phase = "updates" =>
             \A i \in Ended(t) : i \in DOMAIN inbox /\ inbox[i].status = book[i].status
    BY DEF EntryInv, SafeInv, SafeAt
  <2>2. t # s
    BY <1>4, <2>1
  <2>3. \A i \in Ended(t) : i # id
    BY <1>2, <1>9, <2>2 DEF Ended, Awaited
  <2>4. \A i \in Ended(t) : book'[i] = book[i]
    BY <1>2, <2>3 DEF Ended, Awaited
  <2> QED
    BY <1>11, <2>1, <2>2, <2>4
<1>14. MayEndInv'
  <2> SUFFICES ASSUME phase = "positions", raised = "none",
                      NEW t \in Symbols \ doubled, NEW i \in MayEnd(t)'
               PROVE  MayEnd(t)' = {i} /\ (Frees(i)' => Flat(t)')
    BY <1>1 DEF MayEndInv, MayEndAt
  <2>1. MayEndAt(t)
    BY DEF EntryInv, MayEndInv
  <2>2. \A j \in MayEnd(t)' : j \in MayEnd(t)
    BY <1>1, <1>2, <1>3 DEF MayEnd, Awaited
  <2>3. MayEnd(t) = {i} /\ MayEnd(t)' = {i} /\ (Frees(i) => Flat(t))
    BY <2>1, <2>2 DEF MayEndAt
  <2>4. i \in DOMAIN orders /\ i \in DOMAIN book
    BY <2>3 DEF MayEnd, Awaited
  <2>5. CASE i # id
    <3>1. Frees(i)' <=> Frees(i)
      BY <1>1, <1>2, <2>4, <2>5 DEF Frees
    <3> QED
      BY <1>4, <1>11, <2>3, <3>1
  <2>6. CASE i = id
    <3>1. t = s
      BY <1>2, <1>9, <2>3, <2>4, <2>6 DEF MayEnd
    <3> QED
      BY <1>1, <2>3, <2>4, <2>6, <3>1, FreedIsFlat DEF LInv
  <2> QED
    BY <2>5, <2>6
<1> QED
  BY <1>5, <1>6, <1>7, <1>8, <1>12, <1>13, <1>14 DEF EntryInv

LEMMA MidnightKeepsEntries ==
  ASSUME LInv, LInv', EntryInv, Midnight
  PROVE  EntryInv'
<1>1. /\ phase \in {"down", "orders", "top"} /\ today' = {} /\ DOMAIN book' = DOMAIN book
      /\ UNCHANGED <<orders, positions, inbox, raised, saved, doubled, phase, blocked, entered>>
  BY DEF Midnight, tmvars, runner
<1>2. ASSUME NEW i \in DOMAIN book
      PROVE  /\ book'[i].symbol = book[i].symbol /\ book'[i].intent = book[i].intent
             /\ book'[i].side = book[i].side /\ book'[i].quantity = book[i].quantity
             /\ book'[i].status \in Terminal
             /\ AllOrNothing(book'[i])
  <2>1. book[i] \in Order /\ book[i].status \in Pending \cup Terminal /\ AllOrNothing(book[i])
    BY DEF LInv, IInv, TypeOK, EntryInv, BookShape
  <2>2. book'[i] = IF book[i].status \in Pending
                   THEN [book[i] EXCEPT !.status = "CANCELLED"] ELSE book[i]
    BY DEF Midnight
  <2>3. "CANCELLED" \in Terminal /\ "FILLED" \notin Pending
    BY DEF Terminal, Unfilled, Pending
  <2> QED
    BY <2>1, <2>2, <2>3 DEF Order, AllOrNothing
<1>3. \A s : BrokerPosition(s)' = BrokerPosition(s) /\ LiveOrders(s)' = {}
  BY MidnightEnds DEF LInv
<1>4. BookShape' /\ OneAtWork'
  BY <1>1, <1>2, <1>3, StatusFacts DEF BookShape, OneAtWork, OneAt, AllOrNothing
<1>5. MemorySound' /\ SnapshotSound'
  BY <1>1, <1>2, BookKeepsMemories DEF EntryInv
<1>6. InboxShape'
  BY <1>1, <1>2 DEF EntryInv, InboxShape, AllOrNothing
<1>7. Awaited' = {}
  BY <1>1 DEF Awaited
<1>8. EndedInv' /\ MayEndInv'
  BY <1>1, <1>7 DEF EndedInv, EndedAt, Ended, MayEndInv
<1>9. SafeInv'
  <2> SUFFICES ASSUME phase = "top", raised = "none", NEW s \in Symbols \ doubled,
                      ~HasActiveTrade(s), ~Held(s)
               PROVE  Flat(s)'
    BY <1>1 DEF SafeInv, SafeAt, Loop, HasActiveTrade, Of, Held
  <2>1. Flat(s)
    BY DEF EntryInv, SafeInv, SafeAt, Loop
  <2> QED
    BY <1>3, <2>1 DEF Flat
<1> QED
  BY <1>4, <1>5, <1>6, <1>8, <1>9 DEF EntryInv

-----------------------------------------------------------------------------
(* Steps the broker and the orders take no part in.                        *)

LEMMA BrokerRests ==
  ASSUME BookShape, OneAtWork, UNCHANGED <<book, today, doubled>>
  PROVE  /\ BookShape' /\ OneAtWork'
         /\ \A s : /\ BrokerPosition(s)' = BrokerPosition(s)
                   /\ LiveOrders(s)' = LiveOrders(s)
                   /\ Flat(s)' <=> Flat(s)
<1>1. \A s : BrokerPosition(s)' = BrokerPosition(s) /\ LiveOrders(s)' = LiveOrders(s)
  BY DEF BrokerPosition, LiveOrders
<1>2. \A s : Flat(s)' <=> Flat(s)
  BY <1>1 DEF Flat
<1>3. BookShape'
  BY DEF BookShape, AllOrNothing
<1>4. OneAtWork'
  BY <1>1 DEF OneAtWork, OneAt, Signed
<1> QED
  BY <1>1, <1>2, <1>3, <1>4

LEMMA SnapshotStaysSound ==
  ASSUME SnapshotSound, UNCHANGED <<saved, book>>
  PROVE  SnapshotSound'
BY DEF SnapshotSound, Sound, Remembered, PendingEntry, OnlyEntry, AllOrNothing

LEMMA MemoryStaysSound ==
  ASSUME MemorySound, UNCHANGED <<orders, positions, book>>
  PROVE  MemorySound'
BY DEF MemorySound, Sound, Remembered, PendingEntry, OnlyEntry, AllOrNothing

(* What is saved is what the process knows.                                *)
LEMMA SavedIsSound ==
  ASSUME NEW m, Sound(m.orders, m.positions), saved' = <<m>>, UNCHANGED book
  PROVE  SnapshotSound'
<1>1. saved'[1] = m
  OBVIOUS
<1> QED
  BY <1>1 DEF SnapshotSound, Sound, Remembered, PendingEntry, OnlyEntry, AllOrNothing

(* Reconciling the positions opens none.                                   *)
LEMMA ReconciliationIsSound ==
  ASSUME LInv, MemorySound
  PROVE  Sound(Reconciliation.orders, Reconciliation.positions)
<1>1. ASSUME NEW s \in Symbols
      PROVE  Active(Reconciliation.positions[s]) => Active(positions[s])
  BY DEF Reconciliation, ProviderPosition, Managed
<1>2. Reconciliation.orders = orders
  BY DEF Reconciliation
<1>3. \A i \in DOMAIN orders : orders[i].symbol \in Symbols
  BY DEF LInv, IInv, TypeOK, Order
<1> QED
  BY <1>1, <1>2, <1>3 DEF MemorySound, Sound, OnlyEntry

LEMMA LeavingKeepsEntries ==
  ASSUME LInv, EntryInv,
         Shutdown \/ Abort \/ Crash \/ StopAfterUncertainWrite \/ AuthenticationExhausted
  PROVE  EntryInv'
<1>1. /\ phase' = "down" /\ raised' = "none" /\ DOMAIN orders' = {} /\ DOMAIN inbox' = {}
      /\ UNCHANGED <<book, today, doubled>>
  BY DEF Shutdown, Abort, Crash, StopAfterUncertainWrite, AuthenticationExhausted, Leave,
         SetMemory, EmptyMemory, EmptyDict
<1>2. \/ UNCHANGED saved
      \/ \E m : /\ saved' = <<m>>
                /\ \/ m.orders = orders /\ m.positions = positions
                   \/ m.orders = Reconciliation.orders
                      /\ m.positions = Reconciliation.positions
  <2>1. \A r : LET m == [Memory EXCEPT !.risk = r] IN
               m.orders = orders /\ m.positions = positions
    BY DEF Memory
  <2>2. \A r : LET m == [Reconciliation EXCEPT !.risk = r] IN
               m.orders = Reconciliation.orders /\ m.positions = Reconciliation.positions
    BY DEF Reconciliation
  <2>3. Memory.orders = orders /\ Memory.positions = positions
    BY DEF Memory
  <2>4. CASE Shutdown
    BY <2>3, <2>4 DEF Shutdown, Written, WrittenUnder, store
  <2>5. CASE Abort
    BY <2>3, <2>5 DEF Abort, WrittenUnder, store
  <2>6. CASE Crash
    BY <2>6 DEF Crash, store
  <2>7. CASE StopAfterUncertainWrite
    BY <2>2, <2>7 DEF StopAfterUncertainWrite, Written, WrittenUnder, store
  <2>8. CASE AuthenticationExhausted
    BY <2>1, <2>8 DEF AuthenticationExhausted, Written, WrittenUnder, store
  <2> QED
    BY <2>4, <2>5, <2>6, <2>7, <2>8
<1>3. SnapshotSound'
  <2>1. Sound(orders, positions) /\ Sound(Reconciliation.orders, Reconciliation.positions)
    BY ReconciliationIsSound DEF EntryInv, MemorySound
  <2>2. CASE UNCHANGED saved
    BY <1>1, <2>2, SnapshotStaysSound DEF EntryInv
  <2>3. CASE ~UNCHANGED saved
    <3>1. PICK m : /\ saved' = <<m>>
                   /\ \/ m.orders = orders /\ m.positions = positions
                      \/ m.orders = Reconciliation.orders
                         /\ m.positions = Reconciliation.positions
      BY <1>2, <2>3
    <3>2. Sound(m.orders, m.positions)
      BY <2>1, <3>1
    <3> QED
      BY <1>1, <3>1, <3>2, SavedIsSound
  <2> QED
    BY <2>2, <2>3
<1>4. BookShape' /\ OneAtWork'
  BY <1>1, BrokerRests DEF EntryInv
<1>5. InboxShape' /\ MemorySound'
  BY <1>1 DEF InboxShape, MemorySound, Sound
<1>6. EndedInv' /\ SafeInv' /\ MayEndInv'
  BY <1>1 DEF EndedInv, SafeInv, MayEndInv, Loop
<1> QED
  BY <1>3, <1>4, <1>5, <1>6 DEF EntryInv

(* Resuming from the snapshot.                                             *)
LEMMA StartKeepsEntries ==
  ASSUME LInv, EntryInv, Start \/ RecoveryFailure
  PROVE  EntryInv'
<1>1. /\ phase' = "orders" /\ DOMAIN inbox' = {}
      /\ UNCHANGED <<book, today, doubled, saved>>
      /\ \/ UNCHANGED <<orders, positions>>
         \/ orders' = Restored.orders /\ positions' = Restored.positions
         \/ orders' = Reconciliation.orders /\ positions' = Reconciliation.positions
  <2>1. Reconciliation.orders = orders
    BY DEF Reconciliation
  <2> QED
    BY <2>1 DEF Start, RecoveryFailure, SetMemory, Idle, LInv, RunnerOK, dates, store
<1>2. Sound(Restored.orders, Restored.positions)
  <2>1. CASE saved = <<>>
    BY <2>1 DEF Restored, EmptyMemory, EmptyDict, Sound
  <2>2. CASE saved # <<>>
    <3>1. /\ MemoryOK(saved[1])
          /\ Sound(saved[1].orders, saved[1].positions)
      BY <2>2 DEF EntryInv, SnapshotSound, LInv, SavedOK
    <3>2. Restored.orders = saved[1].orders /\ Restored.positions = saved[1].positions
      <4> DEFINE r == IF savedToday THEN RestoreState(saved[1].risk)
                                    ELSE ResetDailyState(InitialRisk)
      <4>1. Restored = [saved[1] EXCEPT !.risk = r]
        BY <2>2 DEF Restored
      <4> HIDE DEF r
      <4> QED
        BY <3>1, <4>1 DEF MemoryOK
    <3> QED
      BY <3>1, <3>2
  <2> QED
    BY <2>1, <2>2
<1>3. MemorySound'
  <2>1. CASE UNCHANGED <<orders, positions>>
    BY <1>1, <2>1, MemoryStaysSound DEF EntryInv
  <2>2. CASE orders' = Restored.orders /\ positions' = Restored.positions
    BY <1>1, <1>2, <2>2
       DEF MemorySound, Sound, Remembered, PendingEntry, OnlyEntry, AllOrNothing
  <2>3. CASE orders' = Reconciliation.orders /\ positions' = Reconciliation.positions
    <3>1. Sound(Reconciliation.orders, Reconciliation.positions)
      BY ReconciliationIsSound DEF EntryInv
    <3> QED
      BY <1>1, <2>3, <3>1
         DEF MemorySound, Sound, Remembered, PendingEntry, OnlyEntry, AllOrNothing
  <2> QED
    BY <1>1, <2>1, <2>2, <2>3
<1>4. BookShape' /\ OneAtWork' /\ SnapshotSound'
  BY <1>1, BrokerRests, SnapshotStaysSound DEF EntryInv
<1>5. InboxShape' /\ EndedInv' /\ SafeInv' /\ MayEndInv'
  BY <1>1 DEF InboxShape, EndedInv, SafeInv, MayEndInv, Loop
<1> QED
  BY <1>3, <1>4, <1>5 DEF EntryInv

(* The steps between which the loop, or a recovery, goes on: the orders,   *)
(* the positions and the broker stay as they are.                          *)
LEMMA OrdersRest ==
  ASSUME EntryInv, UNCHANGED <<book, today, doubled, orders, positions>>
  PROVE  /\ BookShape' /\ OneAtWork' /\ MemorySound' /\ Awaited' = Awaited
         /\ \A s : /\ Flat(s)' <=> Flat(s)
                   /\ Ended(s)' = Ended(s)
                   /\ HasActiveTrade(s)' <=> HasActiveTrade(s)
         /\ \A i : Frees(i)' <=> Frees(i)
<1>1. BookShape' /\ OneAtWork' /\ MemorySound'
  BY BrokerRests, MemoryStaysSound DEF EntryInv
<1>2. \A s : Flat(s)' <=> Flat(s)
  BY BrokerRests DEF EntryInv
<1>3. Awaited' = Awaited /\ \A s : Ended(s)' = Ended(s)
  BY DEF Awaited, Ended, Frees
<1>4. \A s : HasActiveTrade(s)' <=> HasActiveTrade(s)
  BY DEF HasActiveTrade, Of
<1>5. \A i : Frees(i)' <=> Frees(i)
  BY DEF Frees
<1> QED
  BY <1>1, <1>2, <1>3, <1>4, <1>5

(* The loop goes on.                                                       *)
LEMMA LoopKeepsEnded ==
  ASSUME EntryInv, UNCHANGED <<book, today, doubled, orders, positions>>,
         Loop' => Loop
  PROVE  EndedInv'
<1> SUFFICES ASSUME Loop', NEW s \in Symbols \ doubled, NEW i \in Ended(s)
             PROVE  Ended(s)' = {i} /\ Flat(s)'
  BY OrdersRest DEF EndedInv, EndedAt
<1> QED
  BY OrdersRest DEF EntryInv, EndedInv, EndedAt

LEMMA LoopKeepsEntries ==
  ASSUME LInv, EntryInv,
         ReadOrderBook \/ Reconciled \/ EndPass \/ NewTradingDay \/ BrokerFailure
  PROVE  EntryInv'
<1>1. /\ UNCHANGED <<book, today, doubled, orders, positions, blocked>>
      /\ ReadOrderBook \/ UNCHANGED inbox
      /\ phase' # "positions"
      /\ BrokerFailure \/ UNCHANGED raised
  BY DEF ReadOrderBook, Reconciled, EndPass, NewTradingDay, BrokerFailure, tmvars, vars,
         dates, store
<1>2. Loop' => Loop /\ ~BrokerFailure
  BY <1>1 DEF Loop, ReadOrderBook, Reconciled, EndPass, NewTradingDay, BrokerFailure
<1>3. /\ BookShape' /\ OneAtWork' /\ MemorySound'
      /\ \A s : /\ Flat(s)' <=> Flat(s)
                /\ Ended(s)' = Ended(s)
                /\ HasActiveTrade(s)' <=> HasActiveTrade(s)
  BY <1>1, OrdersRest
<1>4. SnapshotSound'
  <2>1. CASE EndPass /\ ~UNCHANGED saved
    <3>1. saved' = <<Memory>>
      BY <2>1 DEF EndPass, SaveMemory, Written, WrittenUnder, store
    <3>2. Sound(Memory.orders, Memory.positions)
      BY DEF Memory, EntryInv, MemorySound
    <3> QED
      BY <1>1, <3>1, <3>2, SavedIsSound
  <2>2. CASE UNCHANGED saved
    BY <1>1, <2>2, SnapshotStaysSound DEF EntryInv
  <2> QED
    BY <2>1, <2>2 DEF ReadOrderBook, Reconciled, NewTradingDay, BrokerFailure, store
<1>5. EndedInv'
  BY <1>1, <1>2, LoopKeepsEnded
<1>6. InboxShape'
  <2>1. CASE ReadOrderBook
    <3> SUFFICES ASSUME NEW i \in DOMAIN inbox'
                 PROVE  /\ orders[i].status \in Pending
                        /\ inbox'[i].status = book[i].status
                        /\ AllOrNothing(inbox'[i])
                        /\ book[i].status \in Pending \cup Terminal
                        /\ i \in DOMAIN book \cap today
      BY <1>1 DEF InboxShape, AllOrNothing
    <3>1. i \in Reported \cap today
      BY <2>1 DEF ReadOrderBook
    <3>2. /\ inbox'[i].status = book[i].status
          /\ inbox'[i].filled = book[i].filled
      BY <2>1, <3>1 DEF ReadOrderBook
    <3> QED
      BY <3>1, <3>2 DEF Reported, EntryInv, BookShape, AllOrNothing
  <2>2. CASE UNCHANGED inbox /\ phase' # "updates"
    BY <1>1, <2>2 DEF EntryInv, InboxShape, AllOrNothing
  <2> QED
    BY <1>1, <2>1, <2>2 DEF Reconciled, EndPass, NewTradingDay, BrokerFailure
<1>7. SafeInv'
  <2> SUFFICES ASSUME Loop', NEW s \in Symbols \ doubled,
                      ~HasActiveTrade(s), ~Held(s)'
               PROVE  /\ Flat(s)
                      /\ phase' = "process" => Ended(s) = {}
                      /\ phase' = "updates" =>
                           \A i \in Ended(s) :
                             i \in DOMAIN inbox' /\ inbox'[i].status = book[i].status
    BY <1>1, <1>3 DEF SafeInv, SafeAt
  <2>1. ~Held(s)
    BY <1>1, <1>2 DEF Held, ReadOrderBook, Reconciled, EndPass, NewTradingDay
  <2>2. /\ Flat(s)
        /\ phase = "updates" => \A i \in Ended(s) : i \in DOMAIN inbox
    BY <1>2, <2>1 DEF EntryInv, SafeInv, SafeAt
  <2>3. CASE ReadOrderBook
    <3>1. ASSUME NEW i \in Ended(s) PROVE i \in DOMAIN inbox' /\ inbox'[i].status = book[i].status
      <4>1. \A m \in Transitions : m[1] # m[2]
        BY DEF Transitions, Terminal, Unfilled
      <4>2. i \in Reported \cap today
        BY <4>1 DEF Ended, Awaited, Allowed, Reported
      <4> QED
        BY <2>3, <4>2 DEF ReadOrderBook
    <3> QED
      BY <2>2, <2>3, <3>1 DEF ReadOrderBook
  <2>4. CASE Reconciled
    BY <2>2, <2>4 DEF Reconciled, Idle
  <2>5. CASE EndPass \/ NewTradingDay
    BY <2>2, <2>5 DEF EndPass, NewTradingDay
  <2> QED
    BY <1>2, <2>3, <2>4, <2>5
<1>8. MayEndInv'
  BY <1>1 DEF MayEndInv
<1> QED
  BY <1>3, <1>4, <1>5, <1>6, <1>7, <1>8 DEF EntryInv

(* The reports of a recovery: what has not ended is still at work.         *)
LEMMA ReadLeavesLive ==
  ASSUME LInv, EntryInv, ReadOrders, NEW s
  PROVE  \A j \in MayEnd(s)' : j \in LiveOrders(s)
<1>1. /\ UNCHANGED <<book, today, orders>>
      /\ DOMAIN inbox' = Legal \cup (Missing \ NotOlder)
      /\ \A i \in Legal : inbox'[i].status = book[i].status
  BY DEF ReadOrders, tmvars, dates
<1> HIDE DEF ReadOrders
<1>2. \A m \in Transitions : m[1] # m[2]
  BY DEF Transitions, Terminal, Unfilled
<1> SUFFICES ASSUME NEW j \in MayEnd(s)' PROVE j \in LiveOrders(s)
  OBVIOUS
<1>3. /\ j \in Awaited /\ orders[j].symbol = s
      /\ IF j \in DOMAIN inbox' THEN inbox'[j].status \in Pending
         ELSE book[j].status \in Pending \/ Allowed(orders[j].status, book[j].status)
  BY <1>1 DEF MayEnd, Awaited
<1>4. /\ j \in DOMAIN orders /\ j \in DOMAIN book /\ j \in today
      /\ orders[j].status \in Pending /\ book[j].symbol = s
  BY <1>3 DEF Awaited, EntryInv, MemorySound, Sound, Remembered
<1>5. CASE j \in DOMAIN inbox'
  <2>1. j \in Legal
    BY <1>1, <1>4, <1>5 DEF Missing
  <2> QED
    BY <1>1, <1>3, <1>4, <1>5, <2>1 DEF LiveOrders
<1>6. CASE j \notin DOMAIN inbox'
  <2>1. ~Allowed(orders[j].status, book[j].status)
    BY <1>1, <1>2, <1>4, <1>6 DEF Allowed, Legal, Changed, Reported
  <2> QED
    BY <1>3, <1>4, <1>6, <2>1 DEF LiveOrders
<1> QED
  BY <1>5, <1>6

LEMMA ReadOrdersKeepsEntries ==
  ASSUME LInv, EntryInv, ReadOrders
  PROVE  EntryInv'
<1>0. ReadOrders
  OBVIOUS
<1>1. /\ UNCHANGED <<book, today, doubled, orders, positions, saved, raised>>
      /\ phase' = "positions"
      /\ DOMAIN inbox' = Legal \cup (Missing \ NotOlder)
      /\ \A i \in Legal :
           inbox'[i].status = book[i].status /\ inbox'[i].filled = book[i].filled
      /\ \A i \in (Missing \ NotOlder) \ Legal :
           inbox'[i].status = "EXPIRED" /\ inbox'[i].filled = orders[i].filled
  BY DEF ReadOrders, tmvars, dates, store
<1> HIDE DEF ReadOrders
<1>2. /\ BookShape' /\ OneAtWork' /\ MemorySound' /\ SnapshotSound'
      /\ Awaited' = Awaited
      /\ \A s : Flat(s)' <=> Flat(s)
      /\ \A i : Frees(i)' <=> Frees(i)
  BY <1>1, OrdersRest, SnapshotStaysSound DEF EntryInv
<1>3. /\ "EXPIRED" \in Terminal /\ "FILLED" \notin Pending /\ "EXPIRED" # "FILLED"
      /\ \A m \in Transitions : m[1] # m[2]
  BY DEF Transitions, Terminal, Unfilled, Pending
<1>4. InboxShape'
  <2> SUFFICES ASSUME NEW i \in DOMAIN inbox'
               PROVE  /\ orders[i].status \in Pending
                      /\ inbox'[i].status \in Pending \cup Terminal
                      /\ AllOrNothing(inbox'[i])
                      /\ i \in DOMAIN book /\ inbox'[i].status \in Terminal =>
                           /\ book[i].status \in Terminal
                           /\ i \in today => book[i].status = inbox'[i].status
    BY <1>1 DEF InboxShape, AllOrNothing
  <2>1. CASE i \in Legal
    <3>1. inbox'[i].status = book[i].status /\ inbox'[i].filled = book[i].filled
      BY <1>1, <2>1
    <3>2. i \in Reported
      BY <2>1 DEF Legal, Changed
    <3> QED
      BY <3>1, <3>2 DEF Reported, EntryInv, BookShape, AllOrNothing
  <2>2. CASE i \notin Legal
    <3>1. inbox'[i].status = "EXPIRED" /\ inbox'[i].filled = orders[i].filled
      BY <1>1, <2>2
    <3>2. /\ i \in DOMAIN orders /\ orders[i].status \in Pending
          /\ i \notin DOMAIN book \cap today
      BY <1>1, <2>2 DEF Missing
    <3>3. orders[i].filled = 0
      BY <1>3, <3>2 DEF EntryInv, MemorySound, Sound, Remembered, AllOrNothing
    <3>4. i \in DOMAIN book => book[i].status \in Terminal /\ i \notin today
      BY <3>2 DEF EntryInv, BookShape
    <3> QED
      BY <1>3, <3>1, <3>2, <3>3, <3>4 DEF AllOrNothing
  <2> QED
    BY <2>1, <2>2
<1>5. MayEndInv'
  <2> SUFFICES ASSUME NEW s \in Symbols \ doubled, NEW i \in MayEnd(s)'
               PROVE  MayEnd(s)' = {i} /\ ~Frees(i)
    BY <1>1, <1>2 DEF MayEndInv, MayEndAt
  <2>1. \A j \in MayEnd(s)' : j \in LiveOrders(s)
    BY <1>0, ReadLeavesLive
  <2>2. i \in LiveOrders(s) /\ LiveOrders(s) = {i}
    BY <2>1 DEF EntryInv, OneAtWork, OneAt
  <2>3. MayEnd(s)' = {i}
    BY <2>1, <2>2
  <2>4. ~Frees(i)
    BY <2>2 DEF LiveOrders, Frees, Pending, Unfilled
  <2> QED
    BY <2>3, <2>4
<1>6. EndedInv' /\ SafeInv'
  BY <1>1 DEF EndedInv, SafeInv, Loop
<1> QED
  BY <1>2, <1>4, <1>5, <1>6 DEF EntryInv

(* A recovery ends: what the broker holds is managed or blocked.           *)
LEMMA ReadPositionsKeepsEntries ==
  ASSUME LInv, UnknownInv, EntryInv, ReadPositions
  PROVE  EntryInv'
<1>1. /\ UNCHANGED <<book, today, doubled, orders, inbox>>
      /\ DOMAIN inbox = {} /\ raised = "none" /\ phase = "positions" /\ phase' = "top"
      /\ positions' = Reconciliation.positions
      /\ blocked' = blocked \cup Found
      /\ blocked' \subseteq entered'
  BY DEF ReadPositions, dates, Idle
<1>2. \/ saved' = <<Reconciliation>> \/ UNCHANGED saved
  BY DEF ReadPositions, SaveMemory, Written, WrittenUnder, store
<1> HIDE DEF ReadPositions
<1>3. /\ BookShape' /\ OneAtWork'
      /\ \A s : Flat(s)' <=> Flat(s)
      /\ \A s : Ended(s)' = Ended(s)
  BY <1>1, BrokerRests DEF EntryInv, Ended, Awaited, Frees
<1>4. Sound(Reconciliation.orders, Reconciliation.positions)
      /\ Reconciliation.orders = orders
  BY ReconciliationIsSound DEF EntryInv, Reconciliation
<1>5. MemorySound'
  BY <1>1, <1>4 DEF MemorySound, Sound, Remembered, PendingEntry, OnlyEntry, AllOrNothing
<1>6. SnapshotSound'
  <2>1. CASE saved' = <<Reconciliation>>
    BY <1>1, <1>4, <2>1, SavedIsSound
  <2>2. CASE UNCHANGED saved
    BY <1>1, <2>2, SnapshotStaysSound DEF EntryInv
  <2> QED
    BY <1>2, <2>1, <2>2
<1>7. InboxShape' /\ MayEndInv'
  BY <1>1 DEF InboxShape, MayEndInv
<1>8. EndedInv'
  <2> SUFFICES ASSUME NEW s \in Symbols \ doubled, NEW i \in Ended(s)
               PROVE  Ended(s) = {i} /\ Flat(s)
    BY <1>1, <1>3 DEF EndedInv, EndedAt
  <2>1. MayEndAt(s)
    BY <1>1 DEF EntryInv, MayEndInv
  <2>2. Ended(s) \subseteq MayEnd(s)
    BY <1>1 DEF Ended, MayEnd
  <2>3. Frees(i)
    BY DEF Ended
  <2> QED
    BY <2>1, <2>2, <2>3 DEF MayEndAt
<1>9. SafeInv'
  <2> SUFFICES ASSUME NEW s \in Symbols \ doubled, ~HasActiveTrade(s)', ~Held(s)'
               PROVE  Flat(s)
    BY <1>1, <1>3 DEF SafeInv, SafeAt
  <2>1. s \notin recovery.unknown /\ s \notin Unmanaged
    BY <1>1 DEF Held, Found
  <2>2. /\ ~Active(Reconciliation.positions[s])
        /\ \A i \in DOMAIN orders :
             orders[i].symbol = s /\ orders[i].intent = "ENTRY" => orders[i].status \notin Pending
    BY <1>1 DEF HasActiveTrade, Of
  <2>3. BrokerPosition(s) = 0
    <3>1. CASE s \in Managed
      <4>1. positions[s] \in Position /\ Active(positions[s])
        BY <3>1 DEF Managed, LInv, IInv, TypeOK
      <4>2. BrokerPosition(s) # 0 => Active(Reconciliation.positions[s])
        BY <3>1, <4>1 DEF Reconciliation, ProviderPosition, Active, Position
      <4> QED
        BY <2>2, <4>2
    <3>2. CASE s \notin Managed
      BY <2>1, <3>2 DEF Unmanaged
    <3> QED
      BY <3>1, <3>2
  <2>4. ASSUME NEW i \in LiveOrders(s) PROVE FALSE
    <3>1. /\ i \in DOMAIN book /\ book[i].symbol = s /\ book[i].status \in Pending
          /\ book[i] \in Order /\ i \in today
      BY DEF LiveOrders, LInv, IInv, TypeOK, EntryInv, BookShape
    <3>2. book[i].intent = "ENTRY"
      <4>1. BrokerPosition(s) = IF book[i].intent = "ENTRY" THEN 0
                                ELSE -Signed(book[i], book[i].quantity)
        BY DEF EntryInv, OneAtWork, OneAt
      <4>2. -Signed(book[i], book[i].quantity) # 0
        BY <3>1 DEF Order, Signed
      <4> QED
        BY <2>3, <4>1, <4>2
    <3>3. i \in DOMAIN orders
      BY <1>1, <2>1, <3>1 DEF UnknownInv, UnknownIds, Answered
    <3>4. /\ orders[i].symbol = s /\ orders[i].intent = "ENTRY"
          /\ orders[i].status \in Pending \cup Terminal
          /\ orders[i].status \in Terminal => book[i].status \in Terminal
      BY <3>1, <3>2, <3>3 DEF EntryInv, MemorySound, Sound, Remembered
    <3> QED
      BY <2>2, <3>1, <3>3, <3>4, StatusFacts
  <2> QED
    BY <2>3, <2>4 DEF Flat
<1> QED
  BY <1>3, <1>5, <1>6, <1>7, <1>8, <1>9 DEF EntryInv

-----------------------------------------------------------------------------
(* Applying a report.                                                      *)

(* What a complete fill of o leaves of the managed quantity.               *)
Fills(held, o, left) ==
  IF o.intent = "ENTRY" THEN left = held + Signed(o, o.quantity)
  ELSE held \in {0, o.quantity, -o.quantity} => left = 0

(* Its order takes the reported status unless the report raises, and only  *)
(* a complete fill opens or closes a position.                             *)
Reports(id, status) ==
  LET s == orders[id].symbol IN
  /\ id \in DOMAIN orders /\ orders[id].status \in Pending
  /\ status = inbox[id].status
  /\ DOMAIN orders' = DOMAIN orders
  /\ \A i \in DOMAIN orders : /\ i # id => orders'[i] = orders[i]
                              /\ orders'[i].symbol = orders[i].symbol
                              /\ orders'[i].intent = orders[i].intent
                              /\ orders'[i].side = orders[i].side
                              /\ orders'[i].quantity = orders[i].quantity
  /\ AllOrNothing(orders'[id])
  /\ raised' = "none" => orders'[id].status = status
  /\ \/ orders'[id].status = orders[id].status
     \/ orders'[id].status = status /\ Allowed(orders[id].status, status)
  /\ \A t \in Symbols :
       /\ Active(positions'[t]) => \/ Active(positions[t])
                                   \/ /\ t = s /\ orders[id].intent = "ENTRY"
                                      /\ orders'[id].status = "FILLED"
       /\ Active(positions[t]) => \/ Active(positions'[t])
                                  \/ /\ t = s /\ orders[id].intent # "ENTRY"
                                     /\ status = "FILLED"
  /\ raised' = "none" /\ status = "FILLED" /\ orders[id].intent = "ENTRY"
       => Active(positions'[s])
  /\ \A t \in Symbols :
       t # s \/ status # "FILLED" => positions'[t].quantity = positions[t].quantity
  /\ raised' = "none" /\ status = "FILLED" =>
       Fills(positions[s].quantity, orders[id], positions'[s].quantity)

LEMMA ReconcileReports ==
  ASSUME LInv, CoverInv, EntryInv, NEW id \in DOMAIN inbox, ReconcileOne(id)
  PROVE  Reports(id, inbox[id].status)
<1> DEFINE o == [orders[id] EXCEPT !.filled = inbox[id].filled]
           status == inbox[id].status
           s == orders[id].symbol
           f == FilledQuantity(o, status)
<1>1. /\ id \in DOMAIN orders /\ orders[id] \in Order /\ WellFilled(orders[id])
      /\ orders[id].status \in Pending
      /\ status \in OrderStatus /\ status \in Pending \cup Terminal
      /\ inbox[id].filled \in Nat /\ (status # "FILLED" => inbox[id].filled = 0)
  BY DEF LInv, IInv, TypeOK, CoverInv, Traced, EntryInv, InboxShape, AllOrNothing
<1>2. orders[id].filled = 0 /\ "FILLED" \notin Pending /\ "FILLED" \notin Unfilled
  BY <1>1 DEF Pending, Unfilled, EntryInv, MemorySound, Sound, Remembered, AllOrNothing
<1>3. /\ o \in Order /\ o.quantity = orders[id].quantity
      /\ o.symbol = orders[id].symbol /\ o.intent = orders[id].intent
      /\ o.side = orders[id].side /\ o.filled = inbox[id].filled
      /\ UpdateOrderState(id, o, status)
  BY <1>1 DEF Order, ReconcileOne
<1>4. f = IF status = "FILLED" THEN orders[id].quantity ELSE 0
  <2> HIDE DEF o, status
  <2> QED
    BY <1>1, <1>2, <1>3 DEF FilledQuantity, Order, status
<1>5. raised' = "none" => orders'[id].status = status
  <2> DEFINE updated == [o EXCEPT !.status = status, !.filled = f]
  <2>1. updated.status = status
    <3> HIDE DEF f, status
    <3> QED
      BY <1>3 DEF Order
  <2>2. \/ orders[id].status = status /\ UNCHANGED orders
        \/ raised' = "ValueError"
        \/ orders' = Put(orders, id, updated)
    <3> HIDE DEF o
    <3> QED
      BY <1>1, <1>3 DEF UpdateOrderState, tmvars
  <2> HIDE DEF updated
  <2>3. orders' = Put(orders, id, updated) => orders'[id].status = status
    BY <2>1 DEF Put
  <2> QED
    BY <2>2, <2>3
<1>6. \/ /\ UNCHANGED <<orders, positions>>
         /\ raised' = raised \/ raised' = "ValueError"
      \/ Recorded(id, status, f) /\ Booked(id, status, f - orders[id].filled)
  <2> HIDE DEF o, status
  <2> QED
    BY <1>1, <1>2, <1>3, UpdateBooks DEF LInv
<1>7. CASE UNCHANGED <<orders, positions>>
  <2>1. raised' = "none" => status # "FILLED"
    BY <1>1, <1>2, <1>5, <1>7
  <2>2. AllOrNothing(orders[id])
    BY <1>1 DEF EntryInv, MemorySound, Sound, Remembered
  <2> QED
    BY <1>1, <1>5, <1>7, <2>1, <2>2 DEF Reports, AllOrNothing
<1>8. CASE Recorded(id, status, f) /\ Booked(id, status, f - orders[id].filled)
  <2> DEFINE q == IF status = "FILLED" THEN orders[id].quantity ELSE 0
             held == positions[s]
  <2>1. /\ Booked(id, status, q) /\ q \in Nat /\ (q > 0 <=> status = "FILLED")
        /\ (q = 0 <=> status # "FILLED")
    <3>1. f - orders[id].filled = q /\ q \in Nat /\ (q > 0 <=> status = "FILLED")
          /\ (q = 0 <=> status # "FILLED")
      BY <1>1, <1>2, <1>4 DEF Order
    <3> QED
      BY <1>8, <3>1
  <2>2. /\ DOMAIN orders' = DOMAIN orders
        /\ \A i \in DOMAIN orders : /\ i # id => orders'[i] = orders[i]
                                    /\ orders'[i].symbol = orders[i].symbol
                                    /\ orders'[i].intent = orders[i].intent
                                    /\ orders'[i].side = orders[i].side
                                    /\ orders'[i].quantity = orders[i].quantity
        /\ orders'[id].status = status /\ orders'[id].filled = f
        /\ orders[id].status = status \/ Allowed(orders[id].status, status)
    BY <1>8 DEF Recorded, Allowed
  <2>3. AllOrNothing(orders'[id])
    BY <1>4, <2>2 DEF AllOrNothing
  <2> HIDE DEF q, f, o, status
  <2>4. orders[id].intent \in {"ENTRY", "EXIT"} /\ s \in Symbols
    BY <1>1 DEF Order
  <2>5. \A n : Active([quantity |-> n, status |-> "OPEN"])
    BY DEF Active
  <2>6. \/ /\ status # "FILLED"
           /\ \A t \in Symbols : Active(positions'[t]) <=> Active(positions[t])
        \/ raised' # "none" /\ UNCHANGED positions
        \/ /\ status = "FILLED" /\ orders[id].intent = "ENTRY" /\ Active(positions'[s])
           /\ \A t \in Symbols \ {s} : positions'[t] = positions[t]
        \/ UNCHANGED positions /\ orders[id].intent = "EXIT"
        \/ /\ status = "FILLED" /\ orders[id].intent = "EXIT"
           /\ \A t \in Symbols \ {s} : positions'[t] = positions[t]
           /\ held.status # "NONE" /\ Size(held) >= q /\ positions'[s] = Reduced(held, q)
    <3>1. CASE /\ q = 0
               /\ IF Releases(id, status)
                  THEN Becomes(s, [quantity |-> held.quantity, status |-> "OPEN"])
                  ELSE UNCHANGED positions
      BY <2>1, <2>4, <2>5, <3>1 DEF Releases, Becomes, Active
    <3>2. CASE q > 0 /\ raised' = "ValueError" /\ UNCHANGED positions
      BY <3>2
    <3>3. CASE /\ q > 0 /\ orders[id].intent = "ENTRY"
               /\ Becomes(s, [quantity |-> held.quantity + Signed(orders[id], q),
                              status |-> "OPEN"])
      BY <2>1, <2>4, <2>5, <3>3 DEF Becomes
    <3>4. CASE q > 0 /\ UNCHANGED positions /\ orders[id].intent = "EXIT"
      BY <3>4
    <3>5. CASE /\ q > 0 /\ orders[id].intent = "EXIT"
               /\ held.status # "NONE" /\ Size(held) >= q
               /\ Becomes(s, Reduced(held, q))
      BY <2>1, <2>4, <3>5 DEF Becomes
    <3> QED
      BY <2>1, <3>1, <3>2, <3>3, <3>4, <3>5 DEF Booked
  <2>7. Size(held) >= q /\ q > 0 => Active(held)
    <3>1. held \in Position /\ (Active(held) <=> held.quantity # 0)
      BY <2>4 DEF LInv, IInv, TypeOK, StatusMatchesQuantity
    <3> QED
      BY <2>1, <3>1 DEF Size, Position
  <2>8. \A t \in Symbols :
          /\ Active(positions'[t]) =>
               \/ Active(positions[t])
               \/ t = s /\ orders[id].intent = "ENTRY" /\ status = "FILLED"
          /\ Active(positions[t]) =>
               \/ Active(positions'[t])
               \/ t = s /\ orders[id].intent # "ENTRY" /\ status = "FILLED"
    BY <2>1, <2>4, <2>6, <2>7
  <2>9. raised' = "none" /\ status = "FILLED" /\ orders[id].intent = "ENTRY"
          => Active(positions'[s])
    BY <2>6
  <2>10. /\ \A t \in Symbols :
              t # s \/ status # "FILLED" => positions'[t].quantity = positions[t].quantity
         /\ raised' = "none" /\ status = "FILLED" =>
              Fills(held.quantity, orders[id], positions'[s].quantity)
    <3>1. /\ positions \in [Symbols -> Position] /\ held.quantity \in Int
          /\ held.status = "NONE" => held.quantity = 0
          /\ orders[id].quantity \in Nat \ {0}
      BY <1>1, <2>4 DEF LInv, IInv, TypeOK, StatusMatchesQuantity, Position, Active, held, Order
    <3>2. status = "FILLED" => q = orders[id].quantity
      BY DEF q
    <3>3. CASE /\ q = 0
               /\ IF Releases(id, status)
                  THEN Becomes(s, [quantity |-> held.quantity, status |-> "OPEN"])
                  ELSE UNCHANGED positions
      BY <2>1, <3>3 DEF Becomes, held
    <3>4. CASE q > 0 /\ raised' = "ValueError" /\ UNCHANGED positions
      BY <2>1, <3>4
    <3>5. CASE /\ q > 0 /\ orders[id].intent = "ENTRY"
               /\ Becomes(s, [quantity |-> held.quantity + Signed(orders[id], q),
                              status |-> "OPEN"])
      BY <2>1, <2>4, <3>2, <3>5 DEF Becomes, Fills
    <3>6. CASE q > 0 /\ UNCHANGED positions /\ orders[id].intent = "EXIT" /\ held.status = "NONE"
      BY <2>1, <3>1, <3>6 DEF Fills, held
    <3>7. CASE /\ q > 0 /\ orders[id].intent = "EXIT"
               /\ held.status # "NONE" /\ Size(held) >= q
               /\ Becomes(s, Reduced(held, q))
      <4>1. /\ \A t \in Symbols \ {s} : positions'[t] = positions[t]
            /\ positions'[s].quantity = IF held.quantity > 0 THEN held.quantity - q
                                                            ELSE held.quantity + q
        BY <2>4, <3>7 DEF Becomes, Reduced
      <4>2. held.quantity # 0
        BY <3>1, <3>2, <2>1, <3>7 DEF Size
      <4>3. held.quantity \in {orders[id].quantity, -orders[id].quantity}
              => positions'[s].quantity = 0
        BY <2>1, <3>1, <3>2, <3>7, <4>1
      <4> QED
        BY <2>1, <3>7, <4>1, <4>2, <4>3 DEF Fills
    <3> QED
      BY <2>1, <3>3, <3>4, <3>5, <3>6, <3>7 DEF Booked, held, s
  <2> QED
    BY <1>1, <2>2, <2>3, <2>8, <2>9, <2>10 DEF Reports, status, s
<1> QED
  BY <1>6, <1>7, <1>8

(* What is remembered stays sound.                                         *)
LEMMA ReportKeepsMemory ==
  ASSUME LInv, EntryInv, NEW id \in DOMAIN inbox, NEW st, Reports(id, st), UNCHANGED book
  PROVE  MemorySound'
<1>1. /\ DOMAIN orders' = DOMAIN orders
      /\ \A i \in DOMAIN orders : /\ i # id => orders'[i] = orders[i]
                                  /\ orders'[i].symbol = orders[i].symbol
                                  /\ orders'[i].intent = orders[i].intent
                                  /\ orders'[i].side = orders[i].side
                                  /\ orders'[i].quantity = orders[i].quantity
      /\ orders[id].status \in Pending /\ id \in DOMAIN orders
      /\ AllOrNothing(orders'[id])
      /\ orders'[id].status = orders[id].status \/ orders'[id].status = st
      /\ st = inbox[id].status
  BY DEF Reports
<1>2. ASSUME NEW i \in DOMAIN orders
      PROVE  Remembered(orders', i) /\ orders[i].symbol \in Symbols
  BY <1>1 DEF EntryInv, MemorySound, Sound, Remembered, InboxShape, LInv, IInv, TypeOK, Order
<1>3. ASSUME NEW i \in DOMAIN orders, PendingEntry(orders', i) PROVE PendingEntry(orders, i)
  BY <1>1, <1>3 DEF PendingEntry
<1>4. ASSUME NEW i \in DOMAIN orders, PendingEntry(orders', i)
      PROVE  /\ ~Active(positions'[orders'[i].symbol])
             /\ \A j \in DOMAIN orders :
                  PendingEntry(orders', j) /\ orders'[j].symbol = orders'[i].symbol => j = i
  <2>1. PendingEntry(orders, i) /\ OnlyEntry(orders, positions, i)
    BY <1>3, <1>4 DEF EntryInv, MemorySound, Sound
  <2>2. ASSUME Active(positions'[orders[i].symbol]) PROVE FALSE
    <3>1. /\ orders[i].symbol = orders[id].symbol /\ orders[id].intent = "ENTRY"
          /\ orders'[id].status = "FILLED"
      BY <1>2, <2>1, <2>2 DEF Reports, OnlyEntry
    <3>2. i = id
      BY <1>1, <2>1, <3>1 DEF PendingEntry, OnlyEntry
    <3> QED
      BY <1>4, <3>1, <3>2 DEF PendingEntry, Pending
  <2> QED
    BY <1>1, <1>3, <2>1, <2>2 DEF OnlyEntry
<1>5. \A i \in DOMAIN orders' : Remembered(orders, i)'
  BY <1>1, <1>2 DEF Remembered, AllOrNothing
<1>6. \A i \in DOMAIN orders' : PendingEntry(orders, i)' => OnlyEntry(orders, positions, i)'
  BY <1>1, <1>4 DEF PendingEntry, OnlyEntry
<1> QED
  BY <1>5, <1>6 DEF MemorySound, Sound

LEMMA ReportKeepsEntries ==
  ASSUME LInv, CoverInv, EntryInv, NEW id \in DOMAIN inbox,
         ApplyReport(id) \/ ApplyRecovered(id)
  PROVE  EntryInv'
<1> DEFINE st == inbox[id].status
           s  == orders[id].symbol
<1>1. /\ ReconcileOne(id) /\ raised = "none"
      /\ UNCHANGED <<book, today, doubled, saved, phase, blocked>>
      /\ phase = "positions" \/ (ApplyReport(id) /\ phase = "updates")
      /\ raised' = "none" => DOMAIN inbox' = DOMAIN inbox \ {id}
      /\ DOMAIN inbox' \subseteq DOMAIN inbox \ {id}
      /\ \A i \in DOMAIN inbox' : inbox'[i] = inbox[i]
  BY DEF ApplyReport, ApplyRecovered, ReconcileOne, Drop, EmptyDict, runner, store, dates
<1>2. /\ id \in DOMAIN orders /\ orders[id].status \in Pending /\ s \in Symbols
      /\ DOMAIN orders' = DOMAIN orders
      /\ \A i \in DOMAIN orders : /\ i # id => orders'[i] = orders[i]
                                  /\ orders'[i].symbol = orders[i].symbol
                                  /\ orders'[i].intent = orders[i].intent
      /\ raised' = "none" => orders'[id].status = st
      /\ \/ orders'[id].status = orders[id].status
         \/ orders'[id].status = st /\ Allowed(orders[id].status, st)
      /\ Reports(id, st)
  <2>1. Reports(id, st)
    BY <1>1, ReconcileReports
  <2> QED
    BY <2>1 DEF Reports, LInv, IInv, TypeOK, Order
<1>3. /\ st \in Pending \cup Terminal
      /\ id \in DOMAIN book /\ st \in Terminal /\ id \in today => book[id].status = st
      /\ phase = "updates" => id \in DOMAIN book \cap today
  BY DEF EntryInv, InboxShape
<1>4. BookShape' /\ OneAtWork' /\ SnapshotSound' /\ \A t : Flat(t)' <=> Flat(t)
  BY <1>1, BrokerRests, SnapshotStaysSound DEF EntryInv
<1>5. MemorySound'
  BY <1>1, <1>2, ReportKeepsMemory
<1>6. InboxShape'
  <2> SUFFICES ASSUME NEW i \in DOMAIN inbox'
               PROVE  i \in DOMAIN inbox /\ orders'[i] = orders[i] /\ inbox'[i] = inbox[i]
    BY <1>1 DEF EntryInv, InboxShape, AllOrNothing
  <2>1. i \in DOMAIN inbox /\ i # id
    BY <1>1
  <2>2. i \in DOMAIN orders
    BY <2>1 DEF LInv, IInv, TypeOK
  <2> QED
    BY <1>1, <1>2, <2>1, <2>2
<1> HIDE DEF st, s
<1>7. ASSUME NEW i \in DOMAIN orders PROVE Frees(i)' <=> Frees(i)
  BY <1>1, <1>2 DEF Frees
<1>8. ASSUME raised' = "none"
      PROVE  /\ Awaited' \subseteq Awaited
             /\ st \in Terminal => id \notin Awaited'
  BY <1>1, <1>2, <1>8, StatusFacts DEF Awaited
<1>9. ASSUME raised' = "none", NEW t, NEW i \in Ended(t)'
      PROVE  /\ i \in Ended(t)
             /\ i = id => Allowed(st, book[id].status) /\ st \in Pending
  <2>1. /\ i \in Awaited /\ i \in DOMAIN orders
        /\ orders[i].symbol = t /\ Frees(i)
        /\ Allowed(orders'[i].status, book[i].status) /\ orders'[i].status \in Pending
    BY <1>1, <1>2, <1>7, <1>8, <1>9 DEF Ended, Awaited
  <2>2. CASE i # id
    BY <1>2, <2>1, <2>2 DEF Ended
  <2>3. CASE i = id
    <3>1. Allowed(st, book[id].status) /\ st \in Pending
      BY <1>2, <1>9, <2>1, <2>3
    <3>2. orders[id].status = st \/ Allowed(orders[id].status, st)
      BY <1>2, <1>9
    <3>3. Allowed(orders[id].status, book[id].status)
      BY <1>2, <3>1, <3>2 DEF Allowed, Transitions, Pending, Terminal, Unfilled
    <3> QED
      BY <2>1, <2>3, <3>1, <3>3 DEF Ended
  <2> QED
    BY <2>2, <2>3
<1>10. EndedInv'
  <2> SUFFICES ASSUME Loop', NEW t \in Symbols \ doubled, NEW i \in Ended(t)'
               PROVE  Ended(t)' = {i} /\ Flat(t)
    BY <1>1, <1>4 DEF EndedInv, EndedAt
  <2>1. Loop /\ raised' = "none"
    BY <1>1 DEF Loop
  <2>2. EndedAt(t)
    BY <2>1 DEF EntryInv, EndedInv
  <2>3. \A j \in Ended(t)' : j \in Ended(t)
    BY <1>9, <2>1
  <2> QED
    BY <2>2, <2>3 DEF EndedAt
<1>11. ASSUME phase = "updates", raised' = "none", NEW t \in Symbols, t = s,
              st \in Terminal, Frees(id)
       PROVE  id \in Ended(t) /\ id \notin Ended(t)'
  <2>1. id \in Awaited /\ book[id].status = st
    BY <1>2, <1>3, <1>11 DEF Awaited
  <2>2. Allowed(orders[id].status, st)
    BY <1>2, <1>11, StatusFacts
  <2>3. id \notin Awaited'
    BY <1>8, <1>11
  <2> QED
    BY <1>11, <2>1, <2>2, <2>3 DEF Ended, s
<1>12. SafeInv'
  <2> SUFFICES ASSUME Loop', NEW t \in Symbols \ doubled, ~HasActiveTrade(t)', ~Held(t)'
               PROVE  /\ Flat(t)
                      /\ \A i \in Ended(t)' :
                           i \in DOMAIN inbox' /\ inbox'[i].status = book[i].status
    BY <1>1, <1>4 DEF SafeInv, SafeAt, Loop
  <2>1. /\ Loop /\ raised' = "none" /\ phase = "updates" /\ ApplyReport(id)
    BY <1>1 DEF Loop
  <2>2. CASE ~HasActiveTrade(t) /\ ~Held(t)
    <3>1. /\ Flat(t)
          /\ \A i \in Ended(t) : i \in DOMAIN inbox /\ inbox[i].status = book[i].status
      BY <2>1, <2>2 DEF EntryInv, SafeInv, SafeAt
    <3>2. ASSUME NEW i \in Ended(t)'
          PROVE  i \in DOMAIN inbox' /\ inbox'[i].status = book[i].status
      <4>1. i \in Ended(t) /\ (i = id => Allowed(st, book[id].status))
        BY <1>9, <2>1, <3>2
      <4>2. i # id
        <5>1. \A m \in Transitions : m[1] # m[2]
          BY DEF Transitions, Terminal, Unfilled
        <5> QED
          BY <3>1, <4>1, <5>1 DEF Allowed, st
      <4> QED
        BY <1>1, <2>1, <3>1, <4>1, <4>2
    <3> QED
      BY <3>1, <3>2
  <2>3. CASE HasActiveTrade(t) \/ Held(t)
    <3>1. t = s /\ st \in Terminal /\ Frees(id)
      <4>1. st \in Terminal => book[id].status = st
        BY <1>3, <2>1
      <4>2. ASSUME HasActiveTrade(t)
            PROVE  t = s /\ st \in Terminal /\ Frees(id)
        <5>1. CASE Active(positions[t])
          <6>1. ~Active(positions'[t])
            BY DEF HasActiveTrade
          <6>2. t = s /\ orders[id].intent # "ENTRY" /\ st = "FILLED"
            BY <1>2, <5>1, <6>1 DEF Reports, s
          <6> QED
            BY <4>1, <6>2, StatusFacts DEF Frees
        <5>2. CASE \E i \in Of(t, "ENTRY") : orders[i].status \in Pending
          <6>1. PICK i \in DOMAIN orders : /\ orders[i].symbol = t
                                           /\ orders[i].intent = "ENTRY"
                                           /\ orders[i].status \in Pending
            BY <5>2 DEF Of
          <6>2. orders'[i].status \notin Pending
            BY <1>2, <6>1 DEF HasActiveTrade, Of
          <6>3. i = id /\ st \notin Pending
            BY <1>2, <2>1, <6>1, <6>2
          <6>4. st # "FILLED"
            BY <1>2, <2>1, <6>1, <6>3 DEF Reports, HasActiveTrade, s
          <6>5. st \in Unfilled /\ st \in Terminal
            BY <1>3, <6>3, <6>4 DEF Terminal
          <6> QED
            BY <4>1, <6>1, <6>3, <6>5 DEF Frees, s
        <5> QED
          BY <4>2, <5>1, <5>2 DEF HasActiveTrade
      <4>3. ASSUME Held(t)
            PROVE  t = s /\ st \in Terminal /\ Frees(id)
        <5>1. t = s /\ orders[id].intent = "ENTRY" /\ orders'[id].status \in Unfilled
          BY <1>1, <2>1, <4>3 DEF Held, ApplyReport, s
        <5>2. st \in Unfilled /\ st \in Terminal
          BY <1>2, <2>1, <5>1 DEF Terminal
        <5> QED
          BY <4>1, <5>1, <5>2 DEF Frees
      <4> QED
        BY <2>3, <4>2, <4>3
    <3>2. id \in Ended(t) /\ id \notin Ended(t)'
      BY <1>11, <2>1, <3>1
    <3>3. Ended(t) = {id} /\ Flat(t)
      BY <2>1, <3>2 DEF EntryInv, EndedInv, EndedAt
    <3>4. \A i \in Ended(t)' : i \in Ended(t)
      BY <1>9, <2>1
    <3> QED
      BY <3>2, <3>3, <3>4
  <2> QED
    BY <2>2, <2>3
<1>13. MayEndInv'
  <2> SUFFICES ASSUME phase = "positions", raised' = "none", NEW t \in Symbols \ doubled,
                      NEW i \in MayEnd(t)'
               PROVE  MayEnd(t)' = {i} /\ (Frees(i)' => Flat(t))
    BY <1>1, <1>4 DEF MayEndInv, MayEndAt
  <2>1. MayEndAt(t)
    BY <1>1 DEF EntryInv, MayEndInv
  <2>2. ASSUME NEW j \in MayEnd(t)' PROVE j \in MayEnd(t)
    <3>1. /\ j \in Awaited' /\ j \in Awaited /\ j \in DOMAIN orders
          /\ orders[j].symbol = t
      BY <1>2, <1>8 DEF MayEnd, Awaited
    <3>2. CASE j = id
      <4>1. st \in Pending
        BY <1>2, <3>1, <3>2 DEF Awaited
      <4> QED
        BY <3>1, <3>2, <4>1 DEF MayEnd, st
    <3>3. CASE j # id
      <4>1. /\ orders'[j] = orders[j]
            /\ j \in DOMAIN inbox' <=> j \in DOMAIN inbox
            /\ j \in DOMAIN inbox => inbox'[j] = inbox[j]
        BY <1>1, <1>2, <3>1, <3>3
      <4> QED
        BY <1>1, <3>1, <4>1 DEF MayEnd
    <3> QED
      BY <3>2, <3>3
  <2>3. MayEnd(t) = {i} /\ (Frees(i) => Flat(t)) /\ i \in DOMAIN orders
    BY <2>1, <2>2 DEF MayEndAt, MayEnd, Awaited
  <2>4. MayEnd(t)' = {i}
    BY <2>2, <2>3
  <2> QED
    BY <1>7, <2>3, <2>4
<1> QED
  BY <1>4, <1>5, <1>6, <1>10, <1>12, <1>13 DEF EntryInv

-----------------------------------------------------------------------------
LEMMA InitEntries == LiveInit => EntryInv
<1> SUFFICES ASSUME LiveInit PROVE EntryInv
  OBVIOUS
<1>1. /\ DOMAIN orders = {} /\ DOMAIN book = {} /\ DOMAIN inbox = {}
      /\ saved = <<>> /\ phase = "down"
  BY DEF LiveInit, Init, EmptyDict
<1> QED
  BY <1>1 DEF EntryInv, BookShape, OneAtWork, OneAt, LiveOrders, InboxShape, MemorySound,
              SnapshotSound, Sound, EndedInv, SafeInv, MayEndInv, Loop

LEMMA EntryStep ==
  ASSUME LInv, LInv', UnknownInv, CoverInv, EntryInv, ~ManualTrades, ~PartialFills,
         [LiveNext]_lvars
  PROVE  EntryInv'
<1>1. CASE Start \/ RecoveryFailure
  BY <1>1, StartKeepsEntries
<1>2. CASE Shutdown \/ Abort \/ Crash \/ StopAfterUncertainWrite \/ AuthenticationExhausted
  BY <1>2, LeavingKeepsEntries
<1>3. CASE ReadOrderBook \/ Reconciled \/ EndPass \/ NewTradingDay \/ BrokerFailure
  BY <1>3, LoopKeepsEntries
<1>4. CASE Midnight
  BY <1>4, MidnightKeepsEntries
<1>5. CASE \E id \in DOMAIN inbox : ApplyReport(id) \/ ApplyRecovered(id)
  BY <1>5, ReportKeepsEntries
<1>6. ASSUME NEW s \in Symbols, ProcessEntry(s) \/ ProcessExit(s)
      PROVE  EntryInv'
  BY <1>6, EntryKeepsEntries, ExitKeepsEntries DEF CoverInv
<1>7. ASSUME NEW s \in Symbols, ManualOrder(s) PROVE EntryInv'
  BY <1>7 DEF ManualOrder
<1>8. CASE ReadOrders
  BY <1>8, ReadOrdersKeepsEntries
<1>9. CASE ReadPositions
  BY <1>9, ReadPositionsKeepsEntries
<1>10. CASE \E id \in DOMAIN book : BrokerMove(id)
  BY <1>10, BrokerKeepsEntries
<1>11. CASE UNCHANGED lvars
  <2>1. /\ UNCHANGED <<book, today, doubled, orders, positions, inbox, saved, phase, raised,
                       blocked, entered>>
    BY <1>11 DEF lvars, vars, runner, store, dates
  <2>2. BookShape' /\ OneAtWork' /\ MemorySound' /\ SnapshotSound'
        /\ \A s : /\ Flat(s)' <=> Flat(s)
                  /\ Ended(s)' = Ended(s)
                  /\ HasActiveTrade(s)' <=> HasActiveTrade(s)
        /\ \A i : Frees(i)' <=> Frees(i)
    BY <2>1, OrdersRest, SnapshotStaysSound DEF EntryInv
  <2>3. InboxShape'
    BY <2>1 DEF EntryInv, InboxShape, AllOrNothing
  <2>4. EndedInv'
    BY <2>1, LoopKeepsEnded DEF Loop
  <2>5. SafeInv'
    BY <2>1, <2>2 DEF EntryInv, SafeInv, SafeAt, Loop, Held
  <2>6. \A s : MayEnd(s)' = MayEnd(s)
    BY <2>1 DEF MayEnd, Awaited
  <2>7. MayEndInv'
    BY <2>1, <2>2, <2>6 DEF EntryInv, MayEndInv, MayEndAt
  <2> QED
    BY <2>2, <2>3, <2>4, <2>5, <2>7 DEF EntryInv
<1> QED
  BY <1>1, <1>2, <1>3, <1>4, <1>5, <1>6, <1>7, <1>8, <1>9, <1>10, <1>11 DEF LiveNext

(* What NoDuplicateEntry says of one step.                                 *)
FirstEntry ==
  \A i \in DOMAIN book' \ DOMAIN book :
    LET s == book'[i].symbol IN
    phase = "process" /\ book'[i].intent = "ENTRY" /\ s \notin doubled =>
      BrokerPosition(s) = 0 /\ LiveOrders(s) = {}

LEMMA NewEntryIsFirst ==
  ASSUME LInv, LInv', CoverInv, EntryInv, ~ManualTrades, [LiveNext]_lvars
  PROVE  FirstEntry
<1>1. CASE DOMAIN book' = DOMAIN book
  BY <1>1 DEF FirstEntry
<1>2. ASSUME NEW s \in Symbols, ProcessEntry(s) PROVE FirstEntry
  BY <1>2, EntryKeepsEntries DEF CoverInv, FirstEntry, Flat
<1>3. ASSUME NEW s \in Symbols, ProcessExit(s) PROVE FirstEntry
  BY <1>3, ExitKeepsEntries DEF CoverInv, FirstEntry
<1>4. ASSUME NEW s \in Symbols, ManualOrder(s) PROVE FirstEntry
  BY <1>4 DEF ManualOrder
<1>5. CASE \/ Start \/ Shutdown \/ Abort \/ Crash \/ ReadOrderBook \/ Reconciled \/ EndPass
           \/ NewTradingDay \/ BrokerFailure \/ ReadOrders \/ ReadPositions
           \/ StopAfterUncertainWrite \/ RecoveryFailure \/ AuthenticationExhausted
           \/ UNCHANGED lvars
  <2>1. UNCHANGED book
    BY <1>5 DEF Start, Shutdown, Abort, Crash, ReadOrderBook, Reconciled, EndPass,
                NewTradingDay, BrokerFailure, ReadOrders, ReadPositions,
                StopAfterUncertainWrite, RecoveryFailure, AuthenticationExhausted, lvars, vars
  <2> QED
    BY <1>1, <2>1
<1>6. CASE \E id \in DOMAIN inbox : ApplyReport(id) \/ ApplyRecovered(id)
  BY <1>1, <1>6 DEF ApplyReport, ApplyRecovered, ReconcileOne
<1>7. CASE Midnight
  BY <1>1, <1>7 DEF Midnight
<1>8. CASE \E id \in DOMAIN book : BrokerMove(id)
  BY <1>1, <1>8 DEF BrokerMove, BrokerStep
<1> QED
  BY <1>2, <1>3, <1>4, <1>5, <1>6, <1>7, <1>8 DEF LiveNext

(* "Duplicate entries are blocked": a new entry reaches the broker only    *)
(* for a symbol of which the broker holds neither a live order nor a       *)
(* position, whatever was lost in a crash or a reconnect, for any number   *)
(* of symbols, orders and days - as long as the account is AutoTick's      *)
(* alone, orders execute at once, and no exit of the symbol was sent       *)
(* twice.                                                                  *)
THEOREM NoDuplicateAlways ==
  ~ManualTrades /\ ~PartialFills => (LiveSpec => NoDuplicateEntry)
<1> SUFFICES ASSUME ~ManualTrades, ~PartialFills PROVE LiveSpec => NoDuplicateEntry
  OBVIOUS
<1> DEFINE Inv == LInv /\ UnknownInv /\ CoverInv /\ EntryInv
<1>1. LiveInit => Inv
  BY LiveInitInv, InitEntries, LiveInitCovers DEF LiveInit, UnknownInv
<1>2. Inv /\ [LiveNext]_lvars => Inv' /\ FirstEntry
  BY LiveNextKeeps, UnknownStep, CoverStep, EntryStep, NewEntryIsFirst
<1> QED
  BY <1>1, <1>2, PTL DEF LiveSpec, NoDuplicateEntry, FirstEntry

-----------------------------------------------------------------------------
(* What is managed is held.                                                *)
(*                                                                         *)
(* While the loop runs, the managed quantity of a symbol and the broker's  *)
(* differ by at most one execution that was not reported yet (MatchAt);    *)
(* a recovery ends with the broker's quantities, and an entry executed     *)
(* behind its back leaves a position that is not managed (HoldsAt), which  *)
(* blocks the symbol.  An order of an earlier day that still waits is      *)
(* never reported: nothing is said of its symbol until a recovery.         *)

(* The orders the process waits for that have executed.                    *)
FillsAwaited(s) == {i \in PendingOf(s) \cap DOMAIN book : book[i].status = "FILLED"}

Explains(i, s) ==
  /\ FillsAwaited(s) = {i} /\ LiveOrders(s) = {}
  /\ IF book[i].intent = "ENTRY"
     THEN /\ positions[s].quantity = 0
          /\ BrokerPosition(s) = Signed(book[i], book[i].quantity)
     ELSE /\ positions[s].quantity \in {0, -Signed(book[i], book[i].quantity)}
          /\ BrokerPosition(s) = 0

MatchAt(s) ==
  PendingOf(s) \subseteq Awaited =>
    /\ \A i \in FillsAwaited(s) : Explains(i, s)
    /\ FillsAwaited(s) = {} => positions[s].quantity = BrokerPosition(s)

MatchInv == Loop => \A s \in Symbols \ (doubled \cup blocked) : MatchAt(s)

HoldsAt(s) ==
  \A i \in MayEnd(s) :
    book[i].status = "FILLED" /\ orders[i].intent = "ENTRY" =>
      LiveOrders(s) = {} /\ BrokerPosition(s) # 0

HoldsInv ==
  phase = "positions" /\ raised = "none" => \A s \in Symbols \ doubled : HoldsAt(s)

AccountInv == MatchInv /\ HoldsInv

LEMMA PendingMayFill == \A status \in Pending : Allowed(status, "FILLED")
BY DEF Allowed, Transitions, Pending, Terminal

(* The broker works on no order of an unblocked symbol that the process    *)
(* does not wait for.                                                      *)
LEMMA LiveIsAwaited ==
  ASSUME UnknownInv, EntryInv, Loop, NEW s, s \notin blocked, NEW i \in LiveOrders(s)
  PROVE  i \in PendingOf(s) \cap Awaited
<1>1. /\ i \in DOMAIN book /\ book[i].symbol = s /\ book[i].status \in Pending
      /\ i \in today
  BY DEF LiveOrders, EntryInv, BookShape
<1>2. i \in DOMAIN orders
  BY <1>1 DEF UnknownInv, UnknownIds, Answered, Loop
<1>3. /\ orders[i].symbol = s /\ orders[i].status \in Pending \cup Terminal
      /\ orders[i].status \in Terminal => book[i].status \in Terminal
  BY <1>1, <1>2 DEF EntryInv, MemorySound, Sound, Remembered
<1> QED
  BY <1>1, <1>2, <1>3, StatusFacts DEF PendingOf, Awaited

(* A new order explains nothing, and hides nothing that was explained.     *)
LEMMA SendKeepsMatch ==
  ASSUME NEW id, NEW n, NEW o, Sends(id, n, o), raised' = "none",
         today' = today \cup NewIds, NEW s \in Symbols, MatchAt(s),
         BrokerPosition(s)' = BrokerPosition(s),
         positions'[s].quantity = positions[s].quantity,
         \/ LiveOrders(s)' = LiveOrders(s)
         \/ PendingOf(s) \subseteq Awaited => FillsAwaited(s) = {}
  PROVE  MatchAt(s)'
<1>1. /\ id \notin DOMAIN orders /\ id \notin DOMAIN book
      /\ n \notin DOMAIN orders /\ n \notin DOMAIN book
      /\ DOMAIN orders' = DOMAIN orders \cup {id}
      /\ \A i \in DOMAIN orders : orders'[i] = orders[i]
      /\ \A i \in DOMAIN book : i \in DOMAIN book' /\ book'[i] = book[i]
      /\ DOMAIN book' \subseteq DOMAIN book \cup {n}
      /\ n \in DOMAIN book' => book'[n].status = "SUBMITTED"
  BY DEF Sends, Used
<1>2. FillsAwaited(s)' = FillsAwaited(s)
  <2>1. ASSUME NEW i \in FillsAwaited(s)' PROVE i \in FillsAwaited(s)
    <3>1. i \in DOMAIN book /\ i # id /\ i \in DOMAIN orders
      BY <1>1, <2>1 DEF FillsAwaited, PendingOf
    <3> QED
      BY <1>1, <2>1, <3>1 DEF FillsAwaited, PendingOf
  <2>2. ASSUME NEW i \in FillsAwaited(s) PROVE i \in FillsAwaited(s)'
    BY <1>1, <2>2 DEF FillsAwaited, PendingOf
  <2> QED
    BY <2>1, <2>2
<1>3. ASSUME (PendingOf(s) \subseteq Awaited)' PROVE PendingOf(s) \subseteq Awaited
  <2> SUFFICES ASSUME NEW j \in PendingOf(s) PROVE j \in Awaited
    OBVIOUS
  <2>1. j \in DOMAIN orders /\ orders'[j] = orders[j] /\ j \in PendingOf(s)'
    BY <1>1 DEF PendingOf
  <2>2. j \in DOMAIN book' /\ j \in today'
    BY <1>3, <2>1 DEF Awaited
  <2>3. j \in DOMAIN book /\ j \in today
    BY <1>1, <2>1, <2>2 DEF NewIds, Used
  <2> QED
    BY <2>1, <2>3 DEF Awaited, PendingOf
<1>4. ASSUME NEW i \in FillsAwaited(s) PROVE book'[i] = book[i]
  BY <1>1 DEF FillsAwaited
<1> SUFFICES ASSUME PendingOf(s) \subseteq Awaited
             PROVE  /\ \A i \in FillsAwaited(s) : Explains(i, s)'
                    /\ FillsAwaited(s) = {} => positions'[s].quantity = BrokerPosition(s)'
  BY <1>2, <1>3 DEF MatchAt
<1>5. /\ \A i \in FillsAwaited(s) : Explains(i, s)
      /\ FillsAwaited(s) = {} => positions[s].quantity = BrokerPosition(s)
  BY DEF MatchAt
<1>6. ASSUME NEW i \in FillsAwaited(s) PROVE Explains(i, s)'
  <2>1. Explains(i, s) /\ LiveOrders(s)' = LiveOrders(s) /\ book'[i] = book[i]
    BY <1>4, <1>5
  <2> QED
    BY <1>2, <2>1 DEF Explains, Signed
<1> QED
  BY <1>5, <1>6

LEMMA EntryKeepsMatch ==
  ASSUME LInv, LInv', CoverInv, EntryInv, MatchInv, NEW s \in Symbols, ProcessEntry(s)
  PROVE  MatchInv'
<1>1. /\ EnterTrade(s) /\ phase = "process" /\ s \notin entered
      /\ today' = today \cup NewIds /\ UNCHANGED <<phase, blocked, doubled, saved>>
  BY DEF ProcessEntry, store
<1>2. PICK id, n, o : Sends(id, n, o) /\ o.symbol = s /\ o.intent = "ENTRY"
  BY <1>1, EntrySends DEF LInv
<1>3. ~HasActiveTrade(s) /\ UNCHANGED positions /\ raised = "none"
  BY <1>1, <1>2, EntrySends DEF LInv, Sends
<1> HIDE DEF EnterTrade, ProcessEntry
<1>4. \A t \in Symbols :
        /\ BrokerPosition(t)' = BrokerPosition(t)
        /\ t # s => LiveOrders(t)' = LiveOrders(t)
  BY <1>1, <1>2, SendFacts DEF CoverInv
<1>5. ASSUME s \notin doubled, PendingOf(s) \subseteq Awaited, NEW i \in FillsAwaited(s)
      PROVE  FALSE
  <2>1. Ended(s) = {}
    BY <1>1, <1>3, <1>5 DEF EntryInv, SafeInv, SafeAt, Loop, Held
  <2>2. /\ i \in DOMAIN orders /\ orders[i].symbol = s /\ orders[i].status \in Pending
        /\ book[i].status = "FILLED" /\ i \in Awaited /\ i \in DOMAIN book
    BY <1>5 DEF FillsAwaited, PendingOf
  <2>3. orders[i].intent # "ENTRY"
    BY <1>3, <2>2 DEF HasActiveTrade, Of
  <2> QED
    BY <2>1, <2>2, <2>3, PendingMayFill DEF Ended, Frees
<1> SUFFICES ASSUME raised' = "none", NEW t \in Symbols \ (doubled \cup blocked)
             PROVE  MatchAt(t)'
  BY <1>1 DEF MatchInv, Loop
<1>6. MatchAt(t)
  BY <1>1, <1>3 DEF MatchInv, Loop
<1>7. LiveOrders(t)' = LiveOrders(t) \/ (PendingOf(t) \subseteq Awaited => FillsAwaited(t) = {})
  BY <1>4, <1>5
<1> QED
  BY <1>1, <1>2, <1>3, <1>4, <1>6, <1>7, SendKeepsMatch

LEMMA ExitKeepsMatch ==
  ASSUME LInv, LInv', CoverInv, EntryInv, MatchInv, NEW s \in Symbols, ProcessExit(s)
  PROVE  MatchInv'
<1>1. /\ SubmitExit(s) /\ phase = "process"
      /\ today' = today \cup NewIds /\ UNCHANGED <<phase, blocked, saved>>
      /\ doubled' = IF book' # book /\ ~MatchedExit(s) THEN doubled \cup {s} ELSE doubled
  BY DEF ProcessExit, store
<1>2. PICK id, n, o : Sends(id, n, o) /\ o.symbol = s /\ o.intent = "EXIT"
  BY <1>1, ExitSends DEF LInv
<1>3. /\ positions[s].quantity # 0 /\ raised = "none"
      /\ \A t \in Symbols : positions'[t].quantity = positions[t].quantity
  BY <1>1, <1>2, ExitSends DEF LInv, Sends
<1> HIDE DEF SubmitExit, ProcessExit
<1>4. /\ book' # book <=> n \in DOMAIN book'
      /\ o.symbol = s
      /\ \A t \in Symbols :
           /\ BrokerPosition(t)' = BrokerPosition(t)
           /\ LiveOrders(t)' = IF n \in DOMAIN book' /\ t = o.symbol
                               THEN LiveOrders(t) \cup {n} ELSE LiveOrders(t)
  BY <1>1, <1>2, SendFacts DEF CoverInv
<1> SUFFICES ASSUME raised' = "none", NEW t \in Symbols \ (doubled' \cup blocked)
             PROVE  MatchAt(t)'
  BY <1>1 DEF MatchInv, Loop
<1>5. MatchAt(t)
  BY <1>1, <1>3 DEF MatchInv, Loop
<1>6. ASSUME t = s, n \in DOMAIN book', PendingOf(t) \subseteq Awaited,
             NEW i \in FillsAwaited(t)
      PROVE  FALSE
  <2>1. Explains(i, s)
    BY <1>5, <1>6 DEF MatchAt
  <2>2. positions[s].quantity = BrokerPosition(s)
    BY <1>1, <1>4, <1>6 DEF MatchedExit
  <2> QED
    BY <1>3, <2>1, <2>2 DEF Explains
<1>7. LiveOrders(t)' = LiveOrders(t) \/ (PendingOf(t) \subseteq Awaited => FillsAwaited(t) = {})
  BY <1>4, <1>6
<1> QED
  BY <1>1, <1>2, <1>3, <1>4, <1>5, <1>7, SendKeepsMatch

(* What the broker does to the one order at work becomes the one execution *)
(* that is not reported.                                                   *)
LEMMA BrokerKeepsMatch ==
  ASSUME LInv, LInv', ~PartialFills, UnknownInv, EntryInv, MatchInv, HoldsInv,
         NEW id \in DOMAIN book, BrokerMove(id)
  PROVE  MatchInv' /\ HoldsInv'
<1>1. PICK s \in Symbols : book[id].symbol = s
  BY DEF LInv, IInv, TypeOK, Order
<1>2. /\ BrokerMoved(id, s)
      /\ UNCHANGED <<orders, positions, inbox, raised, doubled, today, phase, blocked>>
  BY <1>1, OneOrderMoves
     DEF BrokerMove, BrokerStep, runner, store, dates, tmvars, LInv, EntryInv, BookShape
<1> HIDE DEF BrokerMove
<1>3. /\ id \in LiveOrders(s) /\ DOMAIN book' = DOMAIN book
      /\ \A i \in DOMAIN book \ {id} : book'[i] = book[i]
      /\ book'[id].symbol = s /\ book'[id].intent = book[id].intent
      /\ book'[id].quantity = book[id].quantity /\ book'[id].side = book[id].side
      /\ \A t \in Symbols \ {s} : BrokerPosition(t)' = BrokerPosition(t)
                                   /\ LiveOrders(t)' = LiveOrders(t)
      /\ LiveOrders(s)' = IF book'[id].status \in Pending THEN LiveOrders(s)
                          ELSE LiveOrders(s) \ {id}
      /\ BrokerPosition(s)' = IF book'[id].status = "FILLED"
                              THEN BrokerPosition(s) + Signed(book[id], book[id].quantity)
                              ELSE BrokerPosition(s)
  BY <1>2 DEF BrokerMoved
<1>4. /\ book[id].status \in Pending /\ "FILLED" \notin Pending
      /\ Signed(book[id], book[id].quantity) \in Int \ {0}
      /\ Signed(book'[id], book'[id].quantity) = Signed(book[id], book[id].quantity)
  BY <1>3 DEF LiveOrders, Pending, LInv, IInv, TypeOK, Order, Signed
<1>5. ASSUME s \notin doubled
      PROVE  /\ LiveOrders(s) = {id}
             /\ BrokerPosition(s) = IF book[id].intent = "ENTRY" THEN 0
                                    ELSE -Signed(book[id], book[id].quantity)
  BY <1>3, <1>5 DEF EntryInv, OneAtWork, OneAt
<1>6. \A i \in DOMAIN orders \cap DOMAIN book :
        orders[i].symbol = book[i].symbol /\ orders[i].intent = book[i].intent
  BY DEF EntryInv, MemorySound, Sound, Remembered
<1>7. /\ Awaited' = Awaited
      /\ \A t : PendingOf(t)' = PendingOf(t)
  BY <1>2, <1>3 DEF Awaited, PendingOf
<1>8. MatchInv'
  <2> SUFFICES ASSUME Loop, NEW t \in Symbols \ (doubled \cup blocked),
                      PendingOf(t) \subseteq Awaited
               PROVE  /\ \A i \in FillsAwaited(t)' : Explains(i, t)'
                      /\ FillsAwaited(t)' = {} => positions[t].quantity = BrokerPosition(t)'
    BY <1>2, <1>7 DEF MatchInv, MatchAt, Loop
  <2>1. /\ \A i \in FillsAwaited(t) : Explains(i, t)
        /\ FillsAwaited(t) = {} => positions[t].quantity = BrokerPosition(t)
    BY DEF MatchInv, MatchAt
  <2>2. CASE t # s
    <3>1. \A i \in PendingOf(t) \cap DOMAIN book : book'[i] = book[i]
      BY <1>1, <1>3, <1>6, <2>2 DEF PendingOf
    <3>2. FillsAwaited(t)' = FillsAwaited(t)
      BY <1>3, <1>7, <3>1 DEF FillsAwaited
    <3>3. ASSUME NEW i \in FillsAwaited(t) PROVE Explains(i, t)'
      <4>1. Explains(i, t) /\ book'[i] = book[i]
        BY <2>1, <3>1 DEF FillsAwaited
      <4> QED
        BY <1>2, <1>3, <2>2, <3>2, <4>1 DEF Explains, Signed
    <3> QED
      BY <1>3, <2>1, <2>2, <3>2, <3>3
  <2>3. CASE t = s
    <3>1. id \in PendingOf(s)
      BY <1>3, <2>3, LiveIsAwaited
    <3>2. FillsAwaited(s) = {} /\ positions[s].quantity = BrokerPosition(s)
      BY <1>3, <2>1, <2>3 DEF Explains
    <3>3. FillsAwaited(s)' = IF book'[id].status = "FILLED" THEN {id} ELSE {}
      BY <1>3, <1>7, <3>1, <3>2 DEF FillsAwaited
    <3>4. CASE book'[id].status = "FILLED"
      <4>1. Explains(id, s)'
        BY <1>2, <1>3, <1>4, <1>5, <2>3, <3>2, <3>3, <3>4 DEF Explains
      <4> QED
        BY <2>3, <3>3, <3>4, <4>1
    <3>5. CASE book'[id].status # "FILLED"
      BY <1>3, <2>3, <3>2, <3>3, <3>5
    <3> QED
      BY <3>4, <3>5
  <2> QED
    BY <2>2, <2>3
<1>9. HoldsInv'
  <2> SUFFICES ASSUME phase = "positions", raised = "none",
                      NEW t \in Symbols \ doubled, NEW i \in MayEnd(t)',
                      book'[i].status = "FILLED", orders[i].intent = "ENTRY"
               PROVE  LiveOrders(t)' = {} /\ BrokerPosition(t)' # 0
    BY <1>2 DEF HoldsInv, HoldsAt
  <2>1. i \in DOMAIN orders /\ i \in DOMAIN book /\ orders[i].symbol = t
    BY <1>2, <1>3 DEF MayEnd, Awaited
  <2>2. CASE i # id
    <3>1. book'[i] = book[i] /\ i \in MayEnd(t)
      BY <1>2, <1>3, <2>1, <2>2 DEF MayEnd, Awaited
    <3>2. LiveOrders(t) = {} /\ BrokerPosition(t) # 0
      BY <3>1 DEF HoldsInv, HoldsAt
    <3> QED
      BY <1>3, <3>2
  <2>3. CASE i = id
    <3>1. t = s /\ book[id].intent = "ENTRY"
      BY <1>1, <1>6, <2>1, <2>3
    <3> QED
      BY <1>3, <1>4, <1>5, <2>3, <3>1
  <2> QED
    BY <2>2, <2>3
<1> QED
  BY <1>8, <1>9

(* At midnight only the symbols the process waits for nothing of go on.    *)
LEMMA MidnightKeepsMatch ==
  ASSUME LInv, LInv', MatchInv, Midnight
  PROVE  MatchInv' /\ HoldsInv'
<1>1. /\ phase \in {"down", "orders", "top"} /\ today' = {}
      /\ UNCHANGED <<orders, positions, raised, doubled, phase, blocked>>
  BY DEF Midnight, tmvars, runner
<1>2. \A s : BrokerPosition(s)' = BrokerPosition(s)
  BY MidnightEnds DEF LInv
<1> HIDE DEF Midnight
<1> SUFFICES ASSUME Loop, NEW s \in Symbols \ (doubled \cup blocked),
                    (PendingOf(s) \subseteq Awaited)'
             PROVE  FillsAwaited(s)' = {} /\ positions[s].quantity = BrokerPosition(s)'
  BY <1>1 DEF MatchInv, MatchAt, Loop, HoldsInv
<1>3. PendingOf(s) = {} /\ PendingOf(s)' = {}
  BY <1>1 DEF PendingOf, Awaited
<1>4. positions[s].quantity = BrokerPosition(s)
  BY <1>3 DEF MatchInv, MatchAt, FillsAwaited
<1> QED
  BY <1>2, <1>3, <1>4 DEF FillsAwaited

(* A report applies the execution it tells of.                             *)
LEMMA ReportKeepsMatch ==
  ASSUME LInv, CoverInv, EntryInv, MatchInv, HoldsInv, NEW id \in DOMAIN inbox,
         ApplyReport(id) \/ ApplyRecovered(id)
  PROVE  MatchInv' /\ HoldsInv'
<1> DEFINE st == inbox[id].status
<1>1. /\ ReconcileOne(id) /\ raised = "none"
      /\ UNCHANGED <<book, today, doubled, phase, blocked>>
      /\ phase = "positions" \/ phase = "updates"
      /\ DOMAIN inbox' \subseteq DOMAIN inbox \ {id}
      /\ raised' = "none" => DOMAIN inbox' = DOMAIN inbox \ {id}
      /\ \A i \in DOMAIN inbox' : inbox'[i] = inbox[i]
  BY DEF ApplyReport, ApplyRecovered, ReconcileOne, Drop, EmptyDict, runner, store, dates
<1>2. Reports(id, st)
  BY <1>1, ReconcileReports
<1>3. /\ st \in Pending \cup Terminal
      /\ id \in DOMAIN book /\ st \in Terminal /\ id \in today => book[id].status = st
      /\ phase = "updates" => id \in DOMAIN book \cap today
  BY DEF EntryInv, InboxShape
<1>4. /\ id \in DOMAIN orders /\ orders[id].status \in Pending /\ orders[id].symbol \in Symbols
      /\ DOMAIN orders' = DOMAIN orders
      /\ \A i \in DOMAIN orders : /\ i # id => orders'[i] = orders[i]
                                  /\ orders'[i].symbol = orders[i].symbol
                                  /\ orders'[i].intent = orders[i].intent
      /\ raised' = "none" => orders'[id].status = st
  BY <1>2 DEF Reports, LInv, IInv, TypeOK, Order
<1>5. \A t : LiveOrders(t)' = LiveOrders(t) /\ BrokerPosition(t)' = BrokerPosition(t)
  BY <1>1, BrokerRests DEF EntryInv
<1> HIDE DEF st
<1>6. MatchInv'
  <2> SUFFICES ASSUME phase = "updates", raised' = "none",
                      NEW t \in Symbols \ (doubled \cup blocked)
               PROVE  MatchAt(t)'
    BY <1>1 DEF MatchInv, Loop
  <2>1. MatchAt(t) /\ id \in Awaited
    BY <1>1, <1>3, <1>4 DEF MatchInv, Loop, Awaited
  <2>2. ASSUME NEW j \in PendingOf(t), j \in Awaited' PROVE j \in Awaited
    BY <1>1, <2>2 DEF Awaited, PendingOf
  <2>3. CASE orders[id].symbol # t \/ st \in Pending
    <3>1. PendingOf(t)' = PendingOf(t)
      BY <1>4, <2>3 DEF PendingOf
    <3>2. positions'[t].quantity = positions[t].quantity
      BY <1>2, <2>3, StatusFacts DEF Reports
    <3>3. FillsAwaited(t)' = FillsAwaited(t)
      BY <1>1, <3>1 DEF FillsAwaited
    <3>4. \A i : Explains(i, t)' <=> Explains(i, t)
      BY <1>1, <1>5, <3>2, <3>3 DEF Explains, Signed
    <3> QED
      BY <1>5, <2>1, <2>2, <3>1, <3>2, <3>3, <3>4 DEF MatchAt
  <2>4. CASE orders[id].symbol = t /\ st \in Terminal
    <3>1. PendingOf(t)' = PendingOf(t) \ {id} /\ id \in PendingOf(t)
      BY <1>4, <2>4, StatusFacts DEF PendingOf
    <3>2. FillsAwaited(t)' = FillsAwaited(t) \ {id}
      BY <1>1, <3>1 DEF FillsAwaited
    <3>3. id \in FillsAwaited(t) <=> st = "FILLED"
      BY <1>3, <2>1, <2>4, <3>1 DEF FillsAwaited, Awaited
    <3> SUFFICES ASSUME (PendingOf(t) \subseteq Awaited)'
                 PROVE  /\ \A i \in FillsAwaited(t)' : Explains(i, t)'
                        /\ FillsAwaited(t)' = {} => positions'[t].quantity = BrokerPosition(t)'
      BY DEF MatchAt
    <3>4. PendingOf(t) \subseteq Awaited
      BY <2>1, <2>2, <3>1
    <3>5. CASE st = "FILLED"
      <4>1. Explains(id, t)
        BY <2>1, <3>3, <3>4, <3>5 DEF MatchAt
      <4>2. FillsAwaited(t)' = {}
        BY <3>2, <4>1 DEF Explains
      <4>3. Fills(positions[t].quantity, orders[id], positions'[t].quantity)
        BY <1>2, <2>4, <3>5 DEF Reports
      <4>4. /\ orders[id].intent = book[id].intent
            /\ Signed(orders[id], orders[id].quantity) = Signed(book[id], book[id].quantity)
            /\ orders[id].quantity \in Nat
        BY <1>4, <2>1
           DEF EntryInv, MemorySound, Sound, Remembered, Awaited, Signed, LInv, IInv, TypeOK, Order
      <4>5. positions'[t].quantity = BrokerPosition(t)
        <5>1. Signed(orders[id], orders[id].quantity)
                \in {orders[id].quantity, -orders[id].quantity}
          BY DEF Signed
        <5>2. CASE book[id].intent = "ENTRY"
          <6>1. /\ positions[t].quantity = 0
                /\ BrokerPosition(t) = Signed(orders[id], orders[id].quantity)
            BY <4>1, <4>4, <5>2 DEF Explains
          <6>2. positions'[t].quantity = 0 + Signed(orders[id], orders[id].quantity)
            BY <4>3, <4>4, <5>2, <6>1 DEF Fills
          <6>3. Signed(orders[id], orders[id].quantity) \in Int
            BY <4>4, <5>1
          <6> QED
            BY <6>1, <6>2, <6>3
        <5>3. CASE book[id].intent # "ENTRY"
          <6>1. /\ positions[t].quantity \in {0, -Signed(orders[id], orders[id].quantity)}
                /\ BrokerPosition(t) = 0
            BY <4>1, <4>4, <5>3 DEF Explains
          <6>2. positions[t].quantity \in {0, orders[id].quantity, -orders[id].quantity}
            BY <4>4, <5>1, <6>1
          <6> QED
            BY <4>3, <4>4, <5>3, <6>1, <6>2 DEF Fills
        <5> QED
          BY <5>2, <5>3
      <4> QED
        BY <1>5, <4>2, <4>5
    <3>6. CASE st # "FILLED"
      <4>1. FillsAwaited(t)' = FillsAwaited(t) /\ positions'[t].quantity = positions[t].quantity
        BY <1>2, <2>4, <3>2, <3>3, <3>6 DEF Reports
      <4>2. \A i : Explains(i, t)' <=> Explains(i, t)
        BY <1>1, <1>5, <4>1 DEF Explains, Signed
      <4> QED
        BY <1>5, <2>1, <3>4, <4>1, <4>2 DEF MatchAt
    <3> QED
      BY <3>5, <3>6
  <2> QED
    BY <1>3, <2>3, <2>4
<1>7. HoldsInv'
  <2> SUFFICES ASSUME phase = "positions", raised' = "none",
                      NEW t \in Symbols \ doubled, NEW i \in MayEnd(t)',
                      book[i].status = "FILLED", orders'[i].intent = "ENTRY"
               PROVE  LiveOrders(t) = {} /\ BrokerPosition(t) # 0
    BY <1>1, <1>5 DEF HoldsInv, HoldsAt
  <2>1. /\ i \in DOMAIN orders' /\ i \in DOMAIN book /\ i \in today
        /\ orders'[i].status \in Pending /\ orders'[i].symbol = t
        /\ IF i \in DOMAIN inbox' THEN inbox'[i].status \in Pending
           ELSE book[i].status \in Pending \/ Allowed(orders'[i].status, book[i].status)
    BY <1>1 DEF MayEnd, Awaited
  <2>2. /\ i \in DOMAIN orders /\ orders[i].intent = "ENTRY" /\ orders[i].symbol = t
        /\ orders[i].status \in Pending
    BY <1>4, <2>1
  <2>3. i \in MayEnd(t)
    <3>1. CASE i = id
      <4>1. st \in Pending
        BY <1>4, <2>1, <3>1
      <4> QED
        BY <2>1, <2>2, <3>1, <4>1 DEF MayEnd, Awaited, st
    <3>2. CASE i # id
      <4>1. /\ orders'[i] = orders[i]
            /\ i \in DOMAIN inbox' <=> i \in DOMAIN inbox
            /\ i \in DOMAIN inbox => inbox'[i] = inbox[i]
        BY <1>1, <1>4, <2>2, <3>2
      <4> QED
        BY <2>1, <2>2, <4>1 DEF MayEnd, Awaited
    <3> QED
      BY <3>1, <3>2
  <2> QED
    BY <1>1, <2>2, <2>3 DEF HoldsInv, HoldsAt
<1> QED
  BY <1>6, <1>7

(* A recovery ends with the broker's quantities.                           *)
LEMMA ReadPositionsMatches ==
  ASSUME LInv, UnknownInv, EntryInv, HoldsInv, ReadPositions
  PROVE  MatchInv' /\ HoldsInv'
<1>1. /\ UNCHANGED <<book, today, doubled, orders>>
      /\ DOMAIN inbox = {} /\ raised = "none" /\ phase = "positions" /\ phase' = "top"
      /\ positions' = Reconciliation.positions
      /\ blocked' = blocked \cup Found
  BY DEF ReadPositions, dates, Idle
<1> HIDE DEF ReadPositions
<1>2. /\ Awaited' = Awaited
      /\ \A s : /\ PendingOf(s)' = PendingOf(s) /\ FillsAwaited(s)' = FillsAwaited(s)
                /\ LiveOrders(s)' = LiveOrders(s) /\ BrokerPosition(s)' = BrokerPosition(s)
  BY <1>1, BrokerRests DEF Awaited, PendingOf, FillsAwaited, EntryInv
<1> SUFFICES ASSUME NEW s \in Symbols \ (doubled \cup blocked'), PendingOf(s) \subseteq Awaited
             PROVE  /\ positions'[s].quantity = BrokerPosition(s)
                    /\ \A i \in FillsAwaited(s) : Explains(i, s)'
  BY <1>1, <1>2 DEF MatchInv, MatchAt, HoldsInv
<1>3. s \notin Unmanaged /\ positions[s] \in Position
      /\ (Active(positions[s]) <=> positions[s].quantity # 0)
  BY <1>1 DEF Found, LInv, IInv, TypeOK, StatusMatchesQuantity
<1>4. positions'[s].quantity = BrokerPosition(s)
  <2>1. positions'[s] = ProviderPosition(s)
    BY <1>1 DEF Reconciliation
  <2>2. CASE s \in Managed
    BY <1>3, <2>1, <2>2 DEF ProviderPosition, Position
  <2>3. CASE s \notin Managed
    BY <1>3, <2>1, <2>3 DEF ProviderPosition, Managed, Unmanaged
  <2> QED
    BY <2>2, <2>3
<1>5. ASSUME NEW i \in FillsAwaited(s) PROVE Explains(i, s)'
  <2>1. /\ i \in DOMAIN orders /\ i \in DOMAIN book /\ orders[i].symbol = s
        /\ orders[i].status \in Pending /\ book[i].status = "FILLED"
        /\ orders[i].intent = book[i].intent
    BY DEF FillsAwaited, PendingOf, EntryInv, MemorySound, Sound, Remembered
  <2>2. \A j \in FillsAwaited(s) : j \in MayEnd(s)
    BY <1>1, PendingMayFill DEF FillsAwaited, PendingOf, MayEnd
  <2>3. MayEnd(s) = {i} /\ (Frees(i) => Flat(s))
    BY <1>1, <2>2 DEF EntryInv, MayEndInv, MayEndAt
  <2>4. orders[i].intent # "ENTRY"
    <3> SUFFICES ASSUME orders[i].intent = "ENTRY" PROVE FALSE
      OBVIOUS
    <3>1. BrokerPosition(s) # 0
      BY <1>1, <2>1, <2>2 DEF HoldsInv, HoldsAt
    <3>2. ~Active(positions[s])
      BY <2>1 DEF EntryInv, MemorySound, Sound, PendingEntry, OnlyEntry
    <3> QED
      BY <1>3, <3>1, <3>2 DEF Unmanaged, Managed
  <2>5. Flat(s)
    BY <2>1, <2>3, <2>4 DEF Frees
  <2> QED
    BY <1>1, <1>2, <1>4, <2>1, <2>2, <2>3, <2>4, <2>5 DEF Explains, Flat
<1> QED
  BY <1>4, <1>5

LEMMA AccountStep ==
  ASSUME LInv, LInv', UnknownInv, CoverInv, EntryInv, AccountInv,
         ~ManualTrades, ~PartialFills, [LiveNext]_lvars
  PROVE  AccountInv'
<1>1. CASE Start \/ RecoveryFailure \/ Shutdown \/ Abort \/ Crash
           \/ StopAfterUncertainWrite \/ AuthenticationExhausted \/ BrokerFailure
  <2>1. phase' \in {"down", "orders"}
    BY <1>1 DEF Start, RecoveryFailure, Shutdown, Abort, Crash, StopAfterUncertainWrite,
                AuthenticationExhausted, BrokerFailure, Leave
  <2> QED
    BY <2>1 DEF AccountInv, MatchInv, HoldsInv, Loop
<1>2. CASE ReadOrderBook \/ Reconciled \/ EndPass \/ NewTradingDay
  <2>1. /\ UNCHANGED <<orders, positions, book, today, doubled, blocked, raised>>
        /\ phase \in {"top", "updates", "process"} /\ phase' # "positions"
    BY <1>2 DEF ReadOrderBook, Reconciled, EndPass, NewTradingDay, tmvars, vars, dates
  <2>2. \A s : MatchAt(s)' <=> MatchAt(s)
    <3>1. \A s : LiveOrders(s)' = LiveOrders(s) /\ BrokerPosition(s)' = BrokerPosition(s)
      BY <2>1, BrokerRests DEF EntryInv
    <3>2. /\ Awaited' = Awaited
          /\ \A s : PendingOf(s)' = PendingOf(s) /\ FillsAwaited(s)' = FillsAwaited(s)
      BY <2>1 DEF Awaited, PendingOf, FillsAwaited
    <3> QED
      BY <2>1, <3>1, <3>2 DEF MatchAt, Explains, Signed
  <2> QED
    BY <2>1, <2>2 DEF AccountInv, MatchInv, HoldsInv, Loop
<1>3. CASE Midnight
  BY <1>3, MidnightKeepsMatch DEF AccountInv
<1>4. CASE \E id \in DOMAIN inbox : ApplyReport(id) \/ ApplyRecovered(id)
  BY <1>4, ReportKeepsMatch DEF AccountInv
<1>5. ASSUME NEW s \in Symbols, ProcessEntry(s) \/ ProcessExit(s)
      PROVE  AccountInv'
  <2>1. phase' = "process"
    BY <1>5 DEF ProcessEntry, ProcessExit
  <2> QED
    BY <1>5, <2>1, EntryKeepsMatch, ExitKeepsMatch DEF AccountInv, HoldsInv
<1>6. ASSUME NEW s \in Symbols, ManualOrder(s) PROVE FALSE
  BY <1>6 DEF ManualOrder
<1>7. CASE ReadOrders
  <2>1. phase' = "positions" /\ UNCHANGED <<book, orders>>
    BY <1>7 DEF ReadOrders, tmvars
  <2>2. \A s : HoldsAt(s)'
    <3> SUFFICES ASSUME NEW s, NEW i \in MayEnd(s)' PROVE book'[i].status # "FILLED"
      BY DEF HoldsAt
    <3>1. i \in LiveOrders(s)
      BY <1>7, ReadLeavesLive
    <3> QED
      BY <2>1, <3>1, StatusFacts DEF LiveOrders
  <2> QED
    BY <2>1, <2>2 DEF AccountInv, MatchInv, HoldsInv, Loop
<1>8. CASE ReadPositions
  BY <1>8, ReadPositionsMatches DEF AccountInv
<1>9. CASE \E id \in DOMAIN book : BrokerMove(id)
  BY <1>9, BrokerKeepsMatch DEF AccountInv
<1>10. CASE UNCHANGED lvars
  <2>1. UNCHANGED <<orders, positions, inbox, book, today, doubled, blocked, raised, phase>>
    BY <1>10 DEF lvars, vars, runner, dates
  <2>2. \A s : LiveOrders(s)' = LiveOrders(s) /\ BrokerPosition(s)' = BrokerPosition(s)
    BY <2>1, BrokerRests DEF EntryInv
  <2>3. /\ Awaited' = Awaited
        /\ \A s : /\ PendingOf(s)' = PendingOf(s) /\ FillsAwaited(s)' = FillsAwaited(s)
                  /\ MayEnd(s)' = MayEnd(s)
    BY <2>1 DEF Awaited, PendingOf, FillsAwaited, MayEnd
  <2>4. \A s : (MatchAt(s)' <=> MatchAt(s)) /\ (HoldsAt(s)' <=> HoldsAt(s))
    BY <2>1, <2>2, <2>3 DEF MatchAt, Explains, Signed, HoldsAt
  <2> QED
    BY <2>1, <2>4 DEF AccountInv, MatchInv, HoldsInv, Loop
<1> QED
  BY <1>1, <1>2, <1>3, <1>4, <1>5, <1>6, <1>7, <1>8, <1>9, <1>10 DEF LiveNext

(* AutoTick is never wrong about what it holds: a symbol it waits for      *)
(* nothing of is managed with the quantity the account holds, for any      *)
(* symbols, orders and days and through every crash, recovery and          *)
(* midnight, unless it is blocked or an exit did not match the account.    *)
(* The account is AutoTick's alone and orders execute at once: a recovery  *)
(* in the middle of an order that executes in parts, and a trade by hand,  *)
(* each lead the managed quantity astray (see the README).                 *)
THEOREM ManagedIsHeldAlways ==
  ~ManualTrades /\ ~PartialFills => (LiveSpec => []ManagedIsHeld)
<1> SUFFICES ASSUME ~ManualTrades, ~PartialFills PROVE LiveSpec => []ManagedIsHeld
  OBVIOUS
<1> DEFINE Inv == LInv /\ UnknownInv /\ CoverInv /\ EntryInv /\ AccountInv
<1>1. LiveInit => Inv
  BY LiveInitInv, InitEntries, LiveInitCovers
     DEF LiveInit, UnknownInv, AccountInv, MatchInv, HoldsInv, Loop
<1>2. Inv /\ [LiveNext]_lvars => Inv'
  BY LiveNextKeeps, UnknownStep, CoverStep, EntryStep, AccountStep
<1>3. Inv => ManagedIsHeld
  BY DEF AccountInv, MatchInv, MatchAt, Loop, FillsAwaited, ManagedIsHeld
<1> QED
  BY <1>1, <1>2, <1>3, PTL DEF LiveSpec

-----------------------------------------------------------------------------
(* The account, seen from the broker, implements TradeCycle.               *)

(* What one step does to one instrument, as TradeCycle has it.             *)
StageAndAccountStay(s) == Stage(s)' = Stage(s) /\ Account(s)' = Account(s)

LEMMA CycleMoves ==
  ASSUME NEW s \in Symbols, \A t \in Symbols \ {s} : StageAndAccountStay(t),
         \/ StageAndAccountStay(s)
         \/ Stage(s) = "flat" /\ Stage(s)' = "entering" /\ Account(s)' = Account(s)
         \/ Stage(s) = "held" /\ Stage(s)' = "exiting" /\ Account(s)' = Account(s)
         \/ Stage(s) = "entering" /\ Stage(s)' = "held" /\ Account(s)' # 0
         \/ Stage(s) = "exiting" /\ Stage(s)' = "flat" /\ Account(s)' = 0
         \/ Stage(s)' = Cycle!WithoutOrder(Stage(s)) /\ Account(s)' = Account(s)
         \/ Stage(s)' = "lost" /\ Account(s)' = 0
  PROVE  [Cycle!CNext]_(Cycle!cvars)
<1>1. CASE StageAndAccountStay(s)
  BY <1>1 DEF Cycle!cvars, StageAndAccountStay
<1>2. CASE Stage(s) = "flat" /\ Stage(s)' = "entering" /\ Account(s)' = Account(s)
  <2>1. Cycle!SendEntry(s)
    BY <1>2 DEF Cycle!SendEntry, StageAndAccountStay
  <2> QED
    BY <2>1 DEF Cycle!CNext
<1>3. CASE Stage(s) = "held" /\ Stage(s)' = "exiting" /\ Account(s)' = Account(s)
  <2>1. Cycle!SendExit(s)
    BY <1>3 DEF Cycle!SendExit, StageAndAccountStay
  <2> QED
    BY <2>1 DEF Cycle!CNext
<1>4. CASE Stage(s) = "entering" /\ Stage(s)' = "held" /\ Account(s)' # 0
  <2>1. Cycle!ExecuteEntry(s)
    BY <1>4 DEF Cycle!ExecuteEntry, StageAndAccountStay
  <2> QED
    BY <2>1 DEF Cycle!CNext
<1>5. CASE Stage(s) = "exiting" /\ Stage(s)' = "flat" /\ Account(s)' = 0
  <2>1. Cycle!ExecuteExit(s)
    BY <1>5 DEF Cycle!ExecuteExit, StageAndAccountStay
  <2> QED
    BY <2>1 DEF Cycle!CNext
<1>6. CASE Stage(s)' = Cycle!WithoutOrder(Stage(s)) /\ Account(s)' = Account(s)
  <2>1. Cycle!EndOrders({s})
    BY <1>6 DEF Cycle!EndOrders, StageAndAccountStay
  <2> QED
    BY <2>1 DEF Cycle!CNext
<1>7. CASE Stage(s)' = "lost" /\ Account(s)' = 0
  <2>1. Cycle!Lose(s)
    BY <1>7 DEF Cycle!Lose, StageAndAccountStay
  <2> QED
    BY <2>1 DEF Cycle!CNext
<1> QED
  BY <1>1, <1>2, <1>3, <1>4, <1>5, <1>6, <1>7

(* A step that leaves an instrument's orders and executions alone.         *)
LEMMA StageStays ==
  ASSUME NEW s, LiveOrders(s)' = LiveOrders(s), BrokerPosition(s)' = BrokerPosition(s),
         \A i \in LiveOrders(s) : book'[i].intent = book[i].intent,
         s \in doubled' <=> s \in doubled
  PROVE  StageAndAccountStay(s)
BY DEF Stage, Account, StageAndAccountStay

LEMMA BookRests ==
  ASSUME EntryInv, UNCHANGED <<book, today, doubled>>
  PROVE  [Cycle!CNext]_(Cycle!cvars)
<1>1. \A s \in Symbols : StageAndAccountStay(s)
  BY BrokerRests, StageStays DEF EntryInv
<1> QED
  BY <1>1 DEF Cycle!cvars, StageAndAccountStay

(* An entry is sent only from "flat".                                      *)
LEMMA EntryFollowsCycle ==
  ASSUME LInv, LInv', SnapshotKnown, EntryInv, NEW s \in Symbols, ProcessEntry(s)
  PROVE  [Cycle!CNext]_(Cycle!cvars)
<1>1. /\ EnterTrade(s) /\ phase = "process" /\ today' = today \cup NewIds
      /\ UNCHANGED <<phase, doubled, saved>>
  BY DEF ProcessEntry, store
<1>2. s \notin doubled => Flat(s)
  BY EntryKeepsEntries
<1>3. PICK id, n, o : Sends(id, n, o) /\ o.symbol = s /\ o.intent = "ENTRY"
  BY <1>1, EntrySends DEF LInv
<1> HIDE DEF EnterTrade, ProcessEntry
<1>4. /\ n \in DOMAIN book' => book'[n] = o
      /\ \A t \in Symbols :
           /\ BrokerPosition(t)' = BrokerPosition(t)
           /\ LiveOrders(t)' = IF n \in DOMAIN book' /\ t = s
                               THEN LiveOrders(t) \cup {n} ELSE LiveOrders(t)
  BY <1>1, <1>3, SendFacts
<1>5. \A i \in DOMAIN book : book'[i] = book[i]
  BY <1>3 DEF Sends
<1>6. ASSUME NEW t \in Symbols, t # s \/ n \notin DOMAIN book' PROVE StageAndAccountStay(t)
  BY <1>1, <1>4, <1>5, <1>6, StageStays DEF LiveOrders
<1>7. CASE s \in doubled \/ n \notin DOMAIN book'
  <2>1. StageAndAccountStay(s)
    BY <1>1, <1>6, <1>7 DEF StageAndAccountStay, Stage, Account
  <2> QED
    BY <1>6, <2>1, CycleMoves
<1>8. CASE s \notin doubled /\ n \in DOMAIN book'
  <2>1. Stage(s) = "flat"
    BY <1>2, <1>8 DEF Stage, Flat
  <2>2. LiveOrders(s)' = {n} /\ book'[n].intent = "ENTRY"
    BY <1>2, <1>3, <1>4, <1>8 DEF Flat
  <2>3. Stage(s)' = "entering" /\ Account(s)' = Account(s)
    BY <1>1, <1>4, <1>8, <2>2 DEF Stage, Account
  <2> QED
    BY <1>6, <2>1, <2>3, CycleMoves
<1> QED
  BY <1>7, <1>8

(* An exit that matches the account is sent only from "held"; any other    *)
(* one loses the instrument.                                               *)
LEMMA ExitFollowsCycle ==
  ASSUME LInv, LInv', SnapshotKnown, EntryInv, NEW s \in Symbols, ProcessExit(s)
  PROVE  [Cycle!CNext]_(Cycle!cvars)
<1>1. /\ SubmitExit(s) /\ phase = "process" /\ today' = today \cup NewIds
      /\ UNCHANGED <<phase, saved>>
      /\ doubled' = IF book' # book /\ ~MatchedExit(s) THEN doubled \cup {s} ELSE doubled
  BY DEF ProcessExit, store
<1>2. PICK id, n, o : Sends(id, n, o) /\ o.symbol = s /\ o.intent = "EXIT"
  BY <1>1, ExitSends DEF LInv
<1>3. positions[s].quantity # 0
  BY <1>1, ExitSends DEF LInv
<1> HIDE DEF SubmitExit, ProcessExit
<1>4. /\ book' # book <=> n \in DOMAIN book'
      /\ n \in DOMAIN book' => book'[n] = o
      /\ \A t \in Symbols :
           /\ BrokerPosition(t)' = BrokerPosition(t)
           /\ LiveOrders(t)' = IF n \in DOMAIN book' /\ t = s
                               THEN LiveOrders(t) \cup {n} ELSE LiveOrders(t)
  BY <1>1, <1>2, SendFacts
<1>5. \A i \in DOMAIN book : book'[i] = book[i]
  BY <1>2 DEF Sends
<1>6. ASSUME NEW t \in Symbols, t # s \/ n \notin DOMAIN book' PROVE StageAndAccountStay(t)
  <2>1. t \in doubled' <=> t \in doubled
    BY <1>1, <1>4, <1>6
  <2> QED
    BY <1>4, <1>5, <1>6, <2>1, StageStays DEF LiveOrders
<1>7. CASE n \notin DOMAIN book'
  BY <1>6, <1>7, CycleMoves
<1>8. CASE s \in doubled'
  <2>1. Stage(s)' = "lost" /\ Account(s)' = 0
    BY <1>8 DEF Stage, Account
  <2> QED
    BY <1>6, <2>1, CycleMoves
<1>9. CASE n \in DOMAIN book' /\ s \notin doubled'
  <2>1. s \notin doubled /\ BrokerPosition(s) # 0 /\ LiveOrders(s) = {}
    BY <1>1, <1>3, <1>4, <1>9 DEF MatchedExit
  <2>2. Stage(s) = "held"
    BY <2>1 DEF Stage
  <2>3. LiveOrders(s)' = {n} /\ book'[n].intent = "EXIT"
    BY <1>2, <1>4, <1>9, <2>1
  <2>4. Stage(s)' = "exiting" /\ Account(s)' = Account(s)
    BY <1>4, <1>9, <2>1, <2>3 DEF Stage, Account
  <2> QED
    BY <1>6, <2>2, <2>4, CycleMoves
<1> QED
  BY <1>7, <1>8, <1>9

(* The one order at work moves on, is executed, or ends.                   *)
LEMMA BrokerFollowsOrders ==
  ASSUME LInv, LInv', ~PartialFills, EntryInv, NEW id \in DOMAIN book, BrokerMove(id)
  PROVE  [Cycle!CNext]_(Cycle!cvars)
<1>1. PICK s \in Symbols : book[id].symbol = s
  BY DEF LInv, IInv, TypeOK, Order
<1>2. BrokerMoved(id, s) /\ UNCHANGED doubled
  BY <1>1, OneOrderMoves DEF BrokerMove, dates, LInv, EntryInv, BookShape
<1> HIDE DEF BrokerMove
<1>3. ASSUME NEW t \in Symbols \ {s} PROVE StageAndAccountStay(t)
  <2>1. id \notin LiveOrders(t)
    BY <1>1 DEF LiveOrders
  <2>2. \A i \in LiveOrders(t) : book'[i] = book[i]
    BY <1>2, <2>1 DEF BrokerMoved, LiveOrders
  <2> QED
    BY <1>2, <2>2, StageStays DEF BrokerMoved
<1>4. CASE s \in doubled
  <2>1. StageAndAccountStay(s)
    BY <1>2, <1>4 DEF StageAndAccountStay, Stage, Account
  <2> QED
    BY <1>3, <2>1, CycleMoves
<1>5. CASE s \notin doubled
  <2>1. /\ LiveOrders(s) = {id}
        /\ BrokerPosition(s) = IF book[id].intent = "ENTRY" THEN 0
                               ELSE -Signed(book[id], book[id].quantity)
    BY <1>2, <1>5 DEF BrokerMoved, EntryInv, OneAtWork, OneAt
  <2>2. /\ Signed(book[id], book[id].quantity) \in Int \ {0}
    BY DEF LInv, IInv, TypeOK, Order, Signed
  <2>3. Stage(s) = IF book[id].intent = "ENTRY" THEN "entering" ELSE "exiting"
    BY <1>5, <2>1 DEF Stage
  <2>4. CASE book'[id].status \in Pending
    <3>1. LiveOrders(s)' = LiveOrders(s) /\ BrokerPosition(s)' = BrokerPosition(s)
      BY <1>2, <2>4, StatusFacts DEF BrokerMoved
    <3>2. StageAndAccountStay(s)
      BY <1>2, <2>1, <3>1, StageStays DEF BrokerMoved
    <3> QED
      BY <1>3, <3>2, CycleMoves
  <2>5. CASE book'[id].status = "FILLED"
    <3>1. /\ LiveOrders(s)' = {}
          /\ BrokerPosition(s)' = BrokerPosition(s) + Signed(book[id], book[id].quantity)
      BY <1>2, <2>1, <2>5, StatusFacts DEF BrokerMoved
    <3>2. BrokerPosition(s)' = IF book[id].intent = "ENTRY"
                               THEN Signed(book[id], book[id].quantity) ELSE 0
      BY <2>1, <2>2, <3>1
    <3>3. /\ Stage(s)' = IF book[id].intent = "ENTRY" THEN "held" ELSE "flat"
          /\ Account(s)' = BrokerPosition(s)'
      BY <1>2, <1>5, <2>2, <3>1, <3>2 DEF Stage, Account
    <3> QED
      BY <1>3, <2>2, <2>3, <3>2, <3>3, CycleMoves
  <2>6. CASE book'[id].status \notin Pending \cup {"FILLED"}
    <3>1. LiveOrders(s)' = {} /\ BrokerPosition(s)' = BrokerPosition(s)
      BY <1>2, <2>1, <2>6 DEF BrokerMoved
    <3>2. Stage(s)' = IF book[id].intent = "ENTRY" THEN "flat" ELSE "held"
      BY <1>2, <1>5, <2>1, <2>2, <3>1 DEF Stage
    <3>3. Stage(s)' = Cycle!WithoutOrder(Stage(s)) /\ Account(s)' = Account(s)
      BY <1>2, <1>5, <2>3, <3>1, <3>2 DEF Cycle!WithoutOrder, Account
    <3> QED
      BY <1>3, <3>3, CycleMoves
  <2> QED
    BY <2>4, <2>5, <2>6
<1> QED
  BY <1>4, <1>5

(* At midnight an entry at work leaves nothing, an exit what it should     *)
(* have closed.                                                            *)
LEMMA MidnightFollowsCycle ==
  ASSUME LInv, LInv', EntryInv, Midnight
  PROVE  [Cycle!CNext]_(Cycle!cvars)
<1>1. \A s \in Symbols : BrokerPosition(s)' = BrokerPosition(s) /\ LiveOrders(s)' = {}
  BY MidnightEnds DEF LInv
<1>2. UNCHANGED doubled
  BY DEF Midnight
<1> HIDE DEF Midnight
<1>3. ASSUME NEW s \in Symbols
      PROVE  Stage(s)' = Cycle!WithoutOrder(Stage(s)) /\ Account(s)' = Account(s)
  <2>1. CASE s \in doubled
    BY <1>1, <1>2, <2>1 DEF Stage, Account, Cycle!WithoutOrder
  <2>2. CASE s \notin doubled /\ LiveOrders(s) = {}
    BY <1>1, <1>2, <2>2 DEF Stage, Account, Cycle!WithoutOrder
  <2>3. CASE s \notin doubled /\ LiveOrders(s) # {}
    <3>1. PICK i \in LiveOrders(s) : TRUE
      BY <2>3
    <3>2. /\ LiveOrders(s) = {i}
          /\ BrokerPosition(s) = IF book[i].intent = "ENTRY" THEN 0
                                 ELSE -Signed(book[i], book[i].quantity)
      BY <2>3, <3>1 DEF EntryInv, OneAtWork, OneAt
    <3>3. Signed(book[i], book[i].quantity) \in Int \ {0}
      BY <3>1 DEF LInv, IInv, TypeOK, Order, Signed, LiveOrders
    <3>4. BrokerPosition(s) = 0 <=> book[i].intent = "ENTRY"
      BY <3>2, <3>3
    <3>5. Stage(s) = IF book[i].intent = "ENTRY" THEN "entering" ELSE "exiting"
      BY <2>3, <3>2 DEF Stage
    <3>6. Stage(s)' = IF book[i].intent = "ENTRY" THEN "flat" ELSE "held"
      BY <1>1, <1>2, <2>3, <3>4 DEF Stage
    <3> QED
      BY <1>1, <1>2, <2>3, <3>5, <3>6 DEF Account, Cycle!WithoutOrder
  <2> QED
    BY <2>1, <2>2, <2>3
<1>4. Cycle!EndOrders(Symbols)
  BY <1>3 DEF Cycle!EndOrders
<1> QED
  BY <1>4 DEF Cycle!CNext

LEMMA InitFollowsCycle == LiveInit => Cycle!CInit
<1> SUFFICES ASSUME LiveInit PROVE Cycle!CInit
  OBVIOUS
<1>1. DOMAIN book = {} /\ doubled = {} /\ LInv
  BY LiveInitInv DEF LiveInit, Init, EmptyDict
<1>2. ASSUME NEW s \in Symbols
      PROVE  LiveOrders(s) = {} /\ BrokerPosition(s) = 0
  <2>1. /\ Executions(s) \in [{} -> Int] /\ IsFiniteSet({})
        /\ BrokerPosition(s) = SumFunction(Executions(s))
    BY <1>1, ExecutionsType DEF LInv
  <2>2. SumFunction(Executions(s)) = 0
    BY <2>1, Sum
  <2> QED
    BY <1>1, <2>1, <2>2 DEF LiveOrders
<1> QED
  BY <1>1, <1>2 DEF Cycle!CInit, Stage, Account

LEMMA StepFollowsCycle ==
  ASSUME LInv, LInv', CoverInv, EntryInv, ~ManualTrades, ~PartialFills, [LiveNext]_lvars
  PROVE  [Cycle!CNext]_(Cycle!cvars)
<1>1. ASSUME NEW s \in Symbols, ProcessEntry(s) PROVE [Cycle!CNext]_(Cycle!cvars)
  BY <1>1, EntryFollowsCycle DEF CoverInv
<1>2. ASSUME NEW s \in Symbols, ProcessExit(s) PROVE [Cycle!CNext]_(Cycle!cvars)
  BY <1>2, ExitFollowsCycle DEF CoverInv
<1>3. ASSUME NEW s \in Symbols, ManualOrder(s) PROVE FALSE
  BY <1>3 DEF ManualOrder
<1>4. CASE Midnight
  BY <1>4, MidnightFollowsCycle
<1>5. CASE \E id \in DOMAIN book : BrokerMove(id)
  BY <1>5, BrokerFollowsOrders
<1>6. CASE \/ Start \/ Shutdown \/ Abort \/ Crash \/ ReadOrderBook \/ Reconciled \/ EndPass
           \/ NewTradingDay \/ BrokerFailure \/ ReadOrders \/ ReadPositions
           \/ StopAfterUncertainWrite \/ RecoveryFailure \/ AuthenticationExhausted
           \/ UNCHANGED lvars
  <2>1. UNCHANGED <<book, today, doubled>>
    BY <1>6 DEF Start, Shutdown, Abort, Crash, ReadOrderBook, Reconciled, EndPass,
                NewTradingDay, BrokerFailure, ReadOrders, ReadPositions, Leave, dates,
                StopAfterUncertainWrite, RecoveryFailure, AuthenticationExhausted, lvars, vars
  <2> QED
    BY <2>1, BookRests
<1>7. CASE \E id \in DOMAIN inbox : ApplyReport(id) \/ ApplyRecovered(id)
  <2>1. UNCHANGED <<book, today, doubled>>
    BY <1>7 DEF ApplyReport, ApplyRecovered, ReconcileOne, dates
  <2> QED
    BY <2>1, BookRests
<1> QED
  BY <1>1, <1>2, <1>3, <1>4, <1>5, <1>6, <1>7 DEF LiveNext

(* The broker's account implements TradeCycle: for any symbols, orders and *)
(* days, the trades of a symbol follow one another through every crash,    *)
(* restart, reconnect, lost answer and midnight - an entry only from       *)
(* nothing, an exit only of what is held - until an exit is sent that did  *)
(* not match the account.  The account is AutoTick's alone and orders      *)
(* execute at once.                                                        *)
THEOREM AccountImplementsCycle ==
  ~ManualTrades /\ ~PartialFills => (LiveSpec => BrokerFollowsCycle)
<1> SUFFICES ASSUME ~ManualTrades, ~PartialFills PROVE LiveSpec => BrokerFollowsCycle
  OBVIOUS
<1> DEFINE Inv == LInv /\ UnknownInv /\ CoverInv /\ EntryInv
<1>1. LiveInit => Inv /\ Cycle!CInit
  BY LiveInitInv, InitEntries, LiveInitCovers, InitFollowsCycle DEF LiveInit, UnknownInv
<1>2. Inv /\ [LiveNext]_lvars => Inv' /\ [Cycle!CNext]_(Cycle!cvars)
  BY LiveNextKeeps, UnknownStep, CoverStep, EntryStep, StepFollowsCycle
<1> QED
  BY <1>1, <1>2, PTL DEF LiveSpec, BrokerFollowsCycle, Cycle!CSpec

=============================================================================

------------------------- MODULE PaperTradingProofs -------------------------
(***************************************************************************)
(* Proofs about PaperTrading for every value of its constants.             *)
(*                                                                         *)
(* A restart puts the snapshot into memory, so everything the invariants   *)
(* say of memory is said of the snapshot as well: Sound is a predicate of  *)
(* either, and so is Balanced, the equation of MoneyConserved.             *)
(***************************************************************************)
EXTENDS PaperTradingProps, Sums

(* A day that has realized the maximal loss has the kill switch set.       *)
Guarded(r) == r.daily_pnl <= MaxLoss => r.kill_switch

(* The counters of the day, or less once they began anew (lost).           *)
Counted(broker, books, r, start, lost) ==
  /\ lost \in BOOLEAN
  /\ r.trade_count <= Cardinality(books.filled)
  /\ ~lost => /\ r.daily_pnl = broker.pnl - start
              /\ r.trade_count = Cardinality(books.filled)

Sound(broker, books, r, start, lost) ==
  /\ broker \in Broker /\ books \in Books /\ r \in RiskState /\ start \in Int
  /\ Agree(books, broker)
  /\ Counted(broker, books, r, start, lost)
  /\ Guarded(r)

SoundSnapshot(m, today) ==
  /\ m \in Snapshot /\ m.day <= today /\ m.filed <= m.day
  /\ Sound(m.sim, m.tm, m.risk, m.dayStart, m.misdated)

PInv ==
  /\ PaperTypeOK
  /\ Sound(sim, tm, risk, dayStart, misdated)
  /\ tm.filled \subseteq entered
  /\ saved # <<>> => SoundSnapshot(saved[1], day)

-----------------------------------------------------------------------------
(* The risk methods.                                                       *)

LEMMA RiskMethods ==
  ASSUME NEW r \in RiskState, Guarded(r)
  PROVE  /\ RecordEntry(r) \in RiskState /\ Guarded(RecordEntry(r))
         /\ RecordEntry(r).daily_pnl = r.daily_pnl
         /\ RecordEntry(r).trade_count = r.trade_count + 1
         /\ ActivateKillSwitch(r) \in RiskState /\ Guarded(ActivateKillSwitch(r))
         /\ ActivateKillSwitch(r).daily_pnl = r.daily_pnl
         /\ ActivateKillSwitch(r).trade_count = r.trade_count
         /\ BlockForPersistenceFailure(r) \in RiskState
         /\ Guarded(BlockForPersistenceFailure(r))
         /\ BlockForPersistenceFailure(r).daily_pnl = r.daily_pnl
         /\ BlockForPersistenceFailure(r).trade_count = r.trade_count
         /\ RestoreState(r) \in RiskState /\ Guarded(RestoreState(r))
         /\ RestoreState(r).daily_pnl = r.daily_pnl
         /\ RestoreState(r).trade_count = r.trade_count
         /\ ResetDailyState(r) \in RiskState /\ Guarded(ResetDailyState(r))
         /\ ResetDailyState(r).daily_pnl = 0
         /\ ResetDailyState(r).trade_count = 0
<1>1. ActivateKillSwitch(r) \in RiskState /\ ActivateKillSwitch(r).kill_switch
      /\ ActivateKillSwitch(r).daily_pnl = r.daily_pnl
      /\ ActivateKillSwitch(r).trade_count = r.trade_count
  BY DEF ActivateKillSwitch, RiskState
<1>2. /\ RecordEntry(r) \in RiskState /\ Guarded(RecordEntry(r))
      /\ RecordEntry(r).daily_pnl = r.daily_pnl
      /\ RecordEntry(r).trade_count = r.trade_count + 1
  <2> DEFINE counted == [r EXCEPT !.trade_count = @ + 1]
  <2>1. /\ counted \in RiskState /\ Guarded(counted)
        /\ counted.daily_pnl = r.daily_pnl
        /\ counted.trade_count = r.trade_count + 1
    BY DEF RiskState, Guarded
  <2>2. RecordEntry(r) = IF counted.trade_count >= MaxTrades
                         THEN ActivateKillSwitch(counted) ELSE counted
    BY DEF RecordEntry
  <2> HIDE DEF counted
  <2>3. /\ ActivateKillSwitch(counted) \in RiskState
        /\ ActivateKillSwitch(counted).kill_switch
        /\ ActivateKillSwitch(counted).daily_pnl = counted.daily_pnl
        /\ ActivateKillSwitch(counted).trade_count = counted.trade_count
    BY <2>1 DEF ActivateKillSwitch, RiskState
  <2>4. CASE counted.trade_count >= MaxTrades
    BY <2>1, <2>2, <2>3, <2>4 DEF Guarded
  <2>5. CASE ~(counted.trade_count >= MaxTrades)
    BY <2>1, <2>2, <2>5
  <2>6. QED
    BY <2>4, <2>5
<1>3. /\ BlockForPersistenceFailure(r) \in RiskState
      /\ Guarded(BlockForPersistenceFailure(r))
      /\ BlockForPersistenceFailure(r).daily_pnl = r.daily_pnl
      /\ BlockForPersistenceFailure(r).trade_count = r.trade_count
  BY DEF BlockForPersistenceFailure, ActivateKillSwitch, RiskState, Guarded
<1>4. /\ RestoreState(r) \in RiskState /\ Guarded(RestoreState(r))
      /\ RestoreState(r).daily_pnl = r.daily_pnl
      /\ RestoreState(r).trade_count = r.trade_count
  BY DEF RestoreState, LimitReached, RiskState, Guarded
<1>5. /\ ResetDailyState(r) \in RiskState /\ Guarded(ResetDailyState(r))
      /\ ResetDailyState(r).daily_pnl = 0 /\ ResetDailyState(r).trade_count = 0
  <2> DEFINE uncounted == [r EXCEPT !.trade_count = 0]
             zeroed == [uncounted EXCEPT !.daily_pnl = 0]
             switch == r.persistence_failed
  <2>1. uncounted \in RiskState /\ uncounted.trade_count = 0
    BY DEF RiskState
  <2> HIDE DEF uncounted
  <2>2. zeroed \in RiskState /\ zeroed.daily_pnl = 0 /\ zeroed.trade_count = 0
    BY <2>1 DEF RiskState
  <2>3. switch \in BOOLEAN
    BY DEF RiskState
  <2>4. ResetDailyState(r) = [zeroed EXCEPT !.kill_switch = switch]
    BY DEF ResetDailyState, uncounted
  <2> HIDE DEF zeroed, switch
  <2>5. ResetDailyState(r) \in RiskState
    BY <2>2, <2>3, <2>4 DEF RiskState
  <2>6. ResetDailyState(r).daily_pnl = 0 /\ ResetDailyState(r).trade_count = 0
    BY <2>2, <2>4 DEF RiskState
  <2>7. ~(0 <= MaxLoss)
    BY RiskAssumption
  <2>8. QED
    BY <2>5, <2>6, <2>7 DEF Guarded
<1>6. QED
  BY <1>1, <1>2, <1>3, <1>4, <1>5 DEF Guarded

LEMMA RealizedRisk ==
  ASSUME NEW r \in RiskState, NEW p \in Int
  PROVE  /\ RecordRealizedPnl(r, p) \in RiskState
         /\ RecordRealizedPnl(r, p).daily_pnl = r.daily_pnl + p
         /\ RecordRealizedPnl(r, p).trade_count = r.trade_count
         /\ Guarded(RecordRealizedPnl(r, p))
<1> DEFINE c == [r EXCEPT !.daily_pnl = @ + p]
<1>1. c \in RiskState /\ c.daily_pnl = r.daily_pnl + p /\ c.trade_count = r.trade_count
  BY DEF RiskState
<1> HIDE DEF c
<1>2. /\ CheckDailyLimits(c) \in RiskState /\ Guarded(CheckDailyLimits(c))
      /\ CheckDailyLimits(c).daily_pnl = c.daily_pnl
      /\ CheckDailyLimits(c).trade_count = c.trade_count
  BY <1>1 DEF CheckDailyLimits, ActivateKillSwitch, LimitReached, RiskState, Guarded
<1>3. QED
  BY <1>1, <1>2 DEF RecordRealizedPnl, c

(* The risk state a process starts with.                                   *)
LEMMA InitialRiskSound ==
  InitialRisk \in RiskState /\ Guarded(InitialRisk)
  /\ InitialRisk.daily_pnl = 0 /\ InitialRisk.trade_count = 0
BY RiskAssumption DEF InitialRisk, RiskState, Guarded

(* A new process, before it has restored anything.                         *)
LEMMA NewIsSound == Sound(NewBroker, NewBooks, InitialRisk, 0, FALSE) /\ NewBooks.filled = {}
<1>1. Flat \in [quantity : Int, average_price : Nat]
  BY DEF Flat
<1>2. [s \in Symbols |-> Flat] \in Holdings
  BY <1>1 DEF Holdings
<1>3. NewBroker \in Broker /\ NewBooks \in Books
  BY <1>2, PaperAssumption DEF NewBroker, NewBooks, Broker, Books
<1>4. Agree(NewBooks, NewBroker)
  BY <1>2 DEF Agree, Active, NewBroker, NewBooks
<1>5. Cardinality(NewBooks.filled) = 0
  BY FS_EmptySet DEF NewBooks
<1>6. QED
  BY <1>3, <1>4, <1>5, InitialRiskSound DEF Sound, Counted, NewBroker, NewBooks

-----------------------------------------------------------------------------
(* What the steps do to broker, books and risk state.                      *)

LEMMA MoneyTypes ==
  ASSUME NEW q \in Int, NEW a \in Nat, NEW p \in Nat
  PROVE  /\ Margin(q, p) \in Int
         /\ Realized(q, a, p) \in Int
         /\ 100 * Realized(q, a, p) \in Int
         /\ Realized(-(-q), a, p) = Realized(q, a, p)
<1>1. Abs(q) \in Int
  BY DEF Abs
<1>2. Abs(q) * p \in Int
  BY <1>1
<1>3. MarginPct \in Int
  BY PaperAssumption
<1>4. Margin(q, p) \in Int
  BY <1>2, <1>3 DEF Margin
<1>5. p - a \in Int
  OBVIOUS
<1>6. Realized(q, a, p) \in Int
  BY <1>5 DEF Realized
<1>7. -(-q) = q
  OBVIOUS
<1>8. QED
  BY <1>4, <1>6, <1>7

(* Another risk state with the same counters, the switch no less set.      *)
LEMMA SoundRisk ==
  ASSUME NEW b, NEW k, NEW r, NEW start, NEW lost, NEW other \in RiskState,
         Sound(b, k, r, start, lost), Guarded(other),
         other.daily_pnl = r.daily_pnl, other.trade_count = r.trade_count
  PROVE  Sound(b, k, other, start, lost)
BY DEF Sound, Counted

(* The limits of the day begin anew: no more is counted than was filled.   *)
LEMMA SoundAnew ==
  ASSUME NEW b, NEW k, NEW r, NEW start, NEW lost, Sound(b, k, r, start, lost),
         NEW other \in RiskState, Guarded(other)
  PROVE  Sound(b, k, ResetDailyState(other), start, TRUE)
<1>1. IsFiniteSet(k.filled)
  BY PaperAssumption, FS_Subset DEF Sound, Books
<1>2. Cardinality(k.filled) >= 0
  BY <1>1, FS_CardinalityType
<1>3. /\ ResetDailyState(other) \in RiskState /\ Guarded(ResetDailyState(other))
      /\ ResetDailyState(other).trade_count = 0
  BY RiskMethods
<1>4. QED
  BY <1>2, <1>3 DEF Sound, Counted

(* A new date: the counters start at zero, the day with the P&L so far.    *)
LEMMA SoundNewDay ==
  ASSUME NEW b, NEW k, NEW r, NEW start, NEW lost, Sound(b, k, r, start, lost),
         NEW other \in RiskState, Guarded(other)
  PROVE  /\ b.pnl \in Int
         /\ Sound(b, [k EXCEPT !.filled = {}], ResetDailyState(other), b.pnl, FALSE)
<1> DEFINE books == [k EXCEPT !.filled = {}]
<1>1. b.pnl \in Int /\ b \in Broker /\ k \in Books
  BY DEF Sound, Broker
<1>2. books \in Books /\ books.filled = {} /\ books.positions = k.positions
  BY <1>1 DEF Books
<1> HIDE DEF books
<1>3. Agree(books, b)
  BY <1>2 DEF Sound, Agree, Active
<1>4. Cardinality(books.filled) = 0
  BY <1>2, FS_EmptySet
<1>5. Sound(b, books, ResetDailyState(other), b.pnl, FALSE)
  BY <1>1, <1>2, <1>3, <1>4, RiskMethods DEF Sound, Counted
<1>6. QED
  BY <1>1, <1>5 DEF books

(* Reconciling with a broker that holds the same changes no quantity.      *)
LEMMA SoundReconciled ==
  ASSUME NEW b, NEW k, NEW r, NEW start, NEW lost, Sound(b, k, r, start, lost)
  PROVE  /\ Sound(b, Reconciled(k, b), r, start, lost)
         /\ Reconciled(k, b).filled = k.filled
<1> DEFINE held == [s \in Symbols |-> IF Active(k, s) THEN b.positions[s]
                                                      ELSE k.positions[s]]
<1>1. b \in Broker /\ k \in Books
  BY DEF Sound
<1>2. held \in Holdings
  BY <1>1 DEF Holdings, Broker, Books
<1>3. Reconciled(k, b) = [k EXCEPT !.positions = held]
  BY DEF Reconciled
<1>4. \A s \in Symbols : held[s] = IF Active(k, s) THEN b.positions[s]
                                                   ELSE k.positions[s]
  OBVIOUS
<1> HIDE DEF held
<1>5. /\ Reconciled(k, b) \in Books
      /\ Reconciled(k, b).filled = k.filled
      /\ Reconciled(k, b).positions = held
  BY <1>1, <1>2, <1>3 DEF Books
<1>6. Agree(Reconciled(k, b), b)
  BY <1>4, <1>5 DEF Sound, Agree, Active
<1>7. QED
  BY <1>5, <1>6 DEF Sound, Counted

LEMMA SoundEntry ==
  ASSUME NEW s \in Symbols, NEW q \in Int, NEW p \in Nat,
         Sound(sim, tm, risk, dayStart, misdated), s \notin tm.filled
  PROVE  Sound(AfterEntry(s, q, p),
               [positions |-> [tm.positions EXCEPT ![s] =
                                 [quantity |-> q, average_price |-> p]],
                filled |-> tm.filled \cup {s}],
               RecordEntry(risk), dayStart, misdated)
<1> DEFINE new == [quantity |-> q, average_price |-> p]
           funds == sim.funds - Margin(q, p)
           theirs == [sim.positions EXCEPT ![s] = new]
           ours == [tm.positions EXCEPT ![s] = new]
           broker == AfterEntry(s, q, p)
           books == [positions |-> ours, filled |-> tm.filled \cup {s}]
<1>1. /\ sim \in Broker /\ tm \in Books /\ risk \in RiskState
      /\ sim.positions \in Holdings /\ tm.positions \in Holdings
      /\ tm.filled \subseteq Symbols /\ sim.funds \in Int /\ sim.pnl \in Int
  BY DEF Sound, Broker, Books
<1>2. funds \in Int
  BY <1>1, MoneyTypes
<1>3. new \in [quantity : Int, average_price : Nat]
  OBVIOUS
<1>4. theirs \in Holdings /\ ours \in Holdings
  BY <1>1, <1>3 DEF Holdings
<1>5. \A z \in Symbols : /\ theirs[z] = IF z = s THEN new ELSE sim.positions[z]
                         /\ ours[z] = IF z = s THEN new ELSE tm.positions[z]
  BY <1>1 DEF Holdings
<1>6. broker = [[sim EXCEPT !.funds = funds] EXCEPT !.positions = theirs]
  BY <1>1 DEF AfterEntry, Broker
<1> HIDE DEF funds, theirs, ours, broker, new
<1>7. /\ broker \in Broker /\ broker.positions = theirs /\ broker.pnl = sim.pnl
  BY <1>1, <1>2, <1>4, <1>6 DEF Broker
<1>8. books \in Books /\ books.positions = ours /\ books.filled = tm.filled \cup {s}
  BY <1>1, <1>4 DEF Books
<1> HIDE DEF books
<1>9. Agree(books, broker)
  BY <1>5, <1>7, <1>8 DEF Sound, Agree, Active
<1>10. /\ Cardinality(books.filled) = Cardinality(tm.filled) + 1
       /\ Cardinality(tm.filled) \in Nat
  <2>1. IsFiniteSet(tm.filled)
    BY <1>1, PaperAssumption, FS_Subset
  <2>2. QED
    BY <1>8, <2>1, FS_AddElement, FS_CardinalityType
<1>11. Sound(broker, books, RecordEntry(risk), dayStart, misdated)
  <2>1. /\ RecordEntry(risk) \in RiskState /\ Guarded(RecordEntry(risk))
        /\ RecordEntry(risk).daily_pnl = risk.daily_pnl
        /\ RecordEntry(risk).trade_count = risk.trade_count + 1
    BY <1>1, RiskMethods DEF Sound
  <2>2. risk.trade_count \in Nat
    BY <1>1 DEF RiskState
  <2>3. Counted(broker, books, RecordEntry(risk), dayStart, misdated)
    BY <1>7, <1>10, <2>1, <2>2 DEF Sound, Counted
  <2>4. QED
    BY <1>7, <1>8, <1>9, <2>1, <2>3 DEF Sound
<1>12. QED
  BY <1>11 DEF broker, books, ours, new

LEMMA SoundExit ==
  ASSUME NEW s \in Symbols, NEW p \in Nat, Active(tm, s),
         Sound(sim, tm, risk, dayStart, misdated)
  PROVE  Sound(AfterExit(s, -tm.positions[s].quantity, p),
               [tm EXCEPT !.positions[s].quantity = 0],
               RecordRealizedPnl(risk, Realized(tm.positions[s].quantity,
                                                tm.positions[s].average_price, p)),
               dayStart, misdated)
<1> DEFINE q == tm.positions[s].quantity
           a == tm.positions[s].average_price
           gain == Realized(q, a, p)
           flat == [sim.positions[s] EXCEPT !.quantity = 0]
           theirs == [sim.positions EXCEPT ![s] = flat]
           closed == [tm.positions[s] EXCEPT !.quantity = 0]
           ours == [tm.positions EXCEPT ![s] = closed]
           funds == sim.funds + (Margin(-q, a) + 100 * gain)
           paid == [[sim EXCEPT !.funds = funds] EXCEPT !.pnl = sim.pnl + gain]
           broker == AfterExit(s, -q, p)
           books == [tm EXCEPT !.positions[s].quantity = 0]
<1>1. /\ sim \in Broker /\ tm \in Books /\ risk \in RiskState
      /\ sim.positions \in Holdings /\ tm.positions \in Holdings
      /\ sim.funds \in Int /\ sim.pnl \in Int
  BY DEF Sound, Broker, Books
<1>2. /\ sim.positions[s] \in [quantity : Int, average_price : Nat]
      /\ tm.positions[s] \in [quantity : Int, average_price : Nat]
      /\ q \in Int /\ a \in Nat
  BY <1>1 DEF Holdings
<1>3. sim.positions[s].quantity = q /\ sim.positions[s].average_price = a
  BY DEF Sound, Agree
<1>4. gain \in Int /\ -q \in Int /\ funds \in Int
  <2>1. gain \in Int /\ 100 * gain \in Int
    BY <1>2, MoneyTypes
  <2>2. -q \in Int
    BY <1>2
  <2>3. Margin(-q, a) \in Int
    BY <1>2, <2>2, MoneyTypes
  <2> HIDE DEF gain, q, a
  <2>4. QED
    BY <1>1, <2>1, <2>2, <2>3
<1>5. flat.quantity = 0 /\ closed.quantity = 0
      /\ theirs \in Holdings /\ ours \in Holdings
  BY <1>1, <1>2 DEF Holdings
<1>6. \A z \in Symbols : /\ theirs[z] = IF z = s THEN flat ELSE sim.positions[z]
                         /\ ours[z] = IF z = s THEN closed ELSE tm.positions[z]
  BY <1>1 DEF Holdings
<1>7. sim.positions[s].quantity + (-q) = 0
  BY <1>2, <1>3
<1>8. Realized(-(-q), a, p) = gain
  BY <1>2, MoneyTypes
<1>9. broker = [paid EXCEPT !.positions = theirs]
  BY <1>1, <1>3, <1>7, <1>8 DEF AfterExit, Release, Broker
<1>10. books = [tm EXCEPT !.positions = ours]
  BY <1>1 DEF Books
<1> HIDE DEF funds, theirs, ours, broker, books, flat, closed, gain
<1>11. /\ broker \in Broker /\ broker.positions = theirs
       /\ broker.pnl = sim.pnl + gain
  <2>1. sim.pnl + gain \in Int
    BY <1>1, <1>4
  <2>2. paid \in Broker /\ paid.pnl = sim.pnl + gain
    BY <1>1, <1>4, <2>1 DEF Broker
  <2> HIDE DEF paid
  <2>3. QED
    BY <1>5, <1>9, <2>2 DEF Broker
<1>12. books \in Books /\ books.positions = ours /\ books.filled = tm.filled
  BY <1>1, <1>5, <1>10 DEF Books
<1>13. Agree(books, broker)
  BY <1>5, <1>6, <1>11, <1>12 DEF Sound, Agree, Active
<1>14. Sound(broker, books, RecordRealizedPnl(risk, gain), dayStart, misdated)
  <2>1. RecordRealizedPnl(risk, gain).daily_pnl = risk.daily_pnl + gain
    BY <1>1, <1>4, RealizedRisk
  <2>2. ~misdated => risk.daily_pnl + gain = (sim.pnl + gain) - dayStart
    BY <1>1, <1>4 DEF Sound, Counted
  <2>3. Counted(broker, books, RecordRealizedPnl(risk, gain), dayStart, misdated)
    BY <1>1, <1>4, <1>11, <1>12, <2>1, <2>2, RealizedRisk DEF Sound, Counted
  <2>4. QED
    BY <1>1, <1>4, <1>11, <1>12, <1>13, <2>3, RealizedRisk DEF Sound
<1>15. QED
  BY <1>14 DEF broker, books, gain

-----------------------------------------------------------------------------
(* Memory: what a step leaves of it is sound.                              *)
InMemory ==
  /\ Sound(sim, tm, risk, dayStart, misdated)
  /\ tm.filled \subseteq entered
  /\ entered \subseteq Symbols
  /\ todo \subseteq Symbols
  /\ phase \in {"top", "process", "recover", "down"}
  /\ day \in Nat /\ started \in 0..day

OnDisk == saved # <<>> => SoundSnapshot(saved[1], day)

LEMMA Parts == PInv <=> InMemory /\ OnDisk
BY DEF PInv, PaperTypeOK, InMemory, OnDisk, Sound, Counted, SoundSnapshot

LEMMA PartsPrime == PInv' <=> InMemory' /\ OnDisk'
BY DEF PInv, PaperTypeOK, InMemory, OnDisk, Sound, Counted, SoundSnapshot

(* A snapshot of sound memory is sound.                                    *)
LEMMA WrittenSound ==
  ASSUME PInv, NEW books, NEW r, Sound(sim, books, r, dayStart, misdated),
         NEW date \in 0..day, Written(books, r, date), day' = day
  PROVE  OnDisk'
<1> DEFINE m == [sim |-> sim, tm |-> books, risk |-> r, day |-> day, filed |-> date,
                 dayStart |-> dayStart, misdated |-> misdated]
<1>1. m \in Snapshot /\ m.day <= day /\ m.filed <= m.day
  BY DEF PInv, PaperTypeOK, Sound, Snapshot
<1>2. Sound(m.sim, m.tm, m.risk, m.dayStart, m.misdated)
  OBVIOUS
<1>3. SoundSnapshot(m, day)
  BY <1>1, <1>2 DEF SoundSnapshot
<1>4. saved' = saved \/ saved' = <<m>>
  BY DEF Written
<1> HIDE DEF m
<1>5. CASE saved' = saved
  BY <1>5 DEF OnDisk, PInv
<1>6. CASE saved' = <<m>>
  BY <1>3, <1>6 DEF OnDisk
<1>7. QED
  BY <1>4, <1>5, <1>6

(* A snapshot that stays is a day older at most.                           *)
LEMMA KeptSound ==
  ASSUME PInv, UNCHANGED saved, day' \in Nat, day <= day'
  PROVE  OnDisk'
<1>1. CASE saved = <<>>
  BY <1>1 DEF OnDisk
<1>2. CASE saved # <<>>
  <2>1. SoundSnapshot(saved[1], day) /\ day \in Nat
    BY <1>2 DEF PInv, PaperTypeOK
  <2>2. saved[1].day \in Nat
    BY <2>1 DEF SoundSnapshot, Snapshot
  <2>3. QED
    BY <2>1, <2>2 DEF OnDisk, SoundSnapshot
<1>3. QED
  BY <1>1, <1>2

LEMMA PaperInitInv == Init => PInv
<1> SUFFICES ASSUME Init PROVE PInv
  OBVIOUS
<1>1. Sound(sim, tm, risk, dayStart, misdated) /\ tm.filled = {}
  BY NewIsSound DEF Init
<1>2. InMemory /\ OnDisk
  BY <1>1 DEF Init, InMemory, OnDisk
<1>3. QED
  BY <1>2, Parts

LEMMA EnterInv ==
  ASSUME PInv, NEW s \in Symbols, NEW q \in Int, NEW p \in Nat, Enter(s, q, p)
  PROVE  PInv'
<1>1. OnDisk'
  BY KeptSound DEF Enter, Done, clock, PInv, PaperTypeOK
<1>2. InMemory
  BY Parts
<1>3. s \notin tm.filled
  BY DEF Enter, PInv
<1>4. CASE UNCHANGED <<sim, tm, risk, entered>>
  BY <1>1, <1>2, <1>4, PartsPrime DEF Enter, Processing, Done, clock, InMemory
<1>5. CASE ~UNCHANGED <<sim, tm, risk, entered>>
  <2>1. /\ sim' = AfterEntry(s, q, p)
        /\ tm' = [positions |-> [tm.positions EXCEPT ![s] =
                                   [quantity |-> q, average_price |-> p]],
                  filled |-> tm.filled \cup {s}]
        /\ risk' = RecordEntry(risk)
        /\ entered' = entered \cup {s}
        /\ UNCHANGED <<phase, day, started, dayStart, misdated>>
        /\ todo' = todo \ {s}
    BY <1>5 DEF Enter, Done, clock
  <2>2. Sound(sim', tm', risk', dayStart', misdated')
    BY <1>2, <1>3, <2>1, SoundEntry DEF InMemory
  <2>3. tm'.filled = tm.filled \cup {s}
    BY <2>1
  <2>4. QED
    BY <1>1, <1>2, <2>1, <2>2, <2>3, PartsPrime DEF InMemory
<1>6. QED
  BY <1>4, <1>5

LEMMA ExitInv ==
  ASSUME PInv, NEW s \in Symbols, NEW p \in Nat, Exit(s, p)
  PROVE  PInv'
<1>1. OnDisk'
  BY KeptSound DEF Exit, Done, clock, PInv, PaperTypeOK
<1>2. InMemory
  BY Parts
<1>3. CASE UNCHANGED <<sim, tm, risk>>
  BY <1>1, <1>2, <1>3, PartsPrime DEF Exit, Processing, Done, clock, InMemory
<1>4. CASE ~UNCHANGED <<sim, tm, risk>>
  <2>1. /\ sim' = AfterExit(s, -tm.positions[s].quantity, p)
        /\ tm' = [tm EXCEPT !.positions[s].quantity = 0]
        /\ risk' = RecordRealizedPnl(risk, Realized(tm.positions[s].quantity,
                                                    tm.positions[s].average_price, p))
        /\ UNCHANGED <<entered, phase, day, started, dayStart, misdated>>
        /\ todo' = todo \ {s} /\ Active(tm, s)
    BY <1>4 DEF Exit, Done, clock
  <2>2. Sound(sim', tm', risk', dayStart', misdated')
    BY <1>2, <2>1, SoundExit DEF InMemory
  <2>3. tm'.filled = tm.filled
    BY <1>2, <2>1 DEF InMemory, Sound, Books
  <2>4. QED
    BY <1>1, <1>2, <2>1, <2>2, <2>3, PartsPrime DEF InMemory
<1>5. QED
  BY <1>3, <1>4

(* A process that ends leaves new memory.                                  *)
LEMMA LeaveInv == ASSUME PInv, Leave PROVE InMemory'
<1>1. Sound(sim', tm', risk', dayStart', misdated') /\ tm'.filled = {}
  BY NewIsSound DEF Leave
<1>2. day' \in Nat /\ started' \in 0..day'
  BY DEF Leave, PInv, PaperTypeOK
<1>3. QED
  BY <1>1, <1>2 DEF Leave, InMemory

LEMMA RestartInv == ASSUME PInv, Restart PROVE PInv'
<1>1. day' \in Nat /\ day <= day' /\ day \in Nat /\ started' \in 0..day'
  BY PaperAssumption DEF Restart, PInv, PaperTypeOK
<1>2. OnDisk'
  BY <1>1, KeptSound DEF Restart
<1>3. CASE saved = <<>>
  BY <1>1, <1>2, <1>3, Parts, PartsPrime DEF Restart, InMemory
<1>4. CASE saved # <<>>
  <2> DEFINE m == saved[1]
             books == IF m.day = day' THEN m.tm ELSE [m.tm EXCEPT !.filled = {}]
             start == IF m.day = day' THEN m.dayStart ELSE m.sim.pnl
             lost == m.day = day' /\ (m.misdated \/ m.filed # m.day)
  <2>1. /\ sim' = m.sim /\ tm' = Reconciled(books, m.sim)
        /\ risk' = RestoreRisk(m, day') /\ dayStart' = start /\ misdated' = lost
        /\ entered' = EnteredSymbols(tm') \cup Unmanaged(books, m.sim)
        /\ todo' = todo /\ phase' = "top"
    BY <1>4 DEF Restart, RestoreSimulated, RestoreBooks
  <2>2. /\ Sound(m.sim, m.tm, m.risk, m.dayStart, m.misdated)
        /\ m.risk \in RiskState /\ Guarded(m.risk) /\ m.misdated \in BOOLEAN
        /\ m.day \in Nat /\ m.filed \in Nat
        /\ m.filed <= m.day /\ m.day <= day
    BY <1>4 DEF PInv, SoundSnapshot, Sound, Snapshot
  <2> HIDE DEF m
  <2>3. Sound(m.sim, books, RestoreRisk(m, day'), start, lost)
    <3>1. CASE m.filed = day'
      <4>1. m.day = day'
        BY <1>1, <2>2, <3>1
      <4>2. RestoreRisk(m, day') = RestoreState(m.risk) /\ books = m.tm
            /\ start = m.dayStart /\ lost = m.misdated
        BY <2>2, <3>1, <4>1 DEF RestoreRisk
      <4>3. /\ RestoreState(m.risk) \in RiskState /\ Guarded(RestoreState(m.risk))
            /\ RestoreState(m.risk).daily_pnl = m.risk.daily_pnl
            /\ RestoreState(m.risk).trade_count = m.risk.trade_count
        BY <2>2, RiskMethods
      <4>4. Sound(m.sim, m.tm, RestoreState(m.risk), m.dayStart, m.misdated)
        BY <2>2, <4>3, SoundRisk
      <4>5. QED
        BY <4>2, <4>4
    <3>2. CASE m.filed # day' /\ m.day = day'
      <4>1. RestoreRisk(m, day') = ResetDailyState(InitialRisk) /\ books = m.tm
            /\ start = m.dayStart /\ lost = TRUE
        BY <3>2 DEF RestoreRisk
      <4>2. Sound(m.sim, m.tm, ResetDailyState(InitialRisk), m.dayStart, TRUE)
        BY <2>2, InitialRiskSound, SoundAnew
      <4>3. QED
        BY <4>1, <4>2
    <3>3. CASE m.filed # day' /\ m.day # day'
      <4>1. RestoreRisk(m, day') = ResetDailyState(InitialRisk)
            /\ books = [m.tm EXCEPT !.filled = {}] /\ start = m.sim.pnl /\ lost = FALSE
        BY <3>3 DEF RestoreRisk
      <4>2. Sound(m.sim, [m.tm EXCEPT !.filled = {}], ResetDailyState(InitialRisk),
                  m.sim.pnl, FALSE)
        BY <2>2, InitialRiskSound, SoundNewDay
      <4>3. QED
        BY <4>1, <4>2
    <3>4. QED
      BY <3>1, <3>2, <3>3
  <2> HIDE DEF books, start, lost
  <2>4. Sound(m.sim, tm', risk', start, lost)
    BY <2>1, <2>3, SoundReconciled
  <2>5. tm'.filled \subseteq entered' /\ entered' \subseteq Symbols
    <3>1. tm'.filled \subseteq Symbols
      BY <2>4 DEF Sound, Books
    <3>2. QED
      BY <2>1, <3>1 DEF EnteredSymbols, Unmanaged
  <2>6. QED
    BY <1>1, <1>2, <2>1, <2>4, <2>5, PartsPrime DEF InMemory, PInv, PaperTypeOK
<1>5. QED
  BY <1>3, <1>4

(* The steps of the runner that take no order.                             *)
LEMMA RunnerInv ==
  ASSUME PInv, BeginPass \/ EndPass \/ NewTradingDay \/ BrokerFailure \/ Recover
  PROVE  PInv'
<1>1. InMemory
  BY Parts
<1>2. /\ risk \in RiskState /\ Guarded(risk)
      /\ day \in Nat /\ day \in 0..day /\ started \in 0..day
  BY <1>1 DEF InMemory, Sound
<1>3. CASE BeginPass \/ BrokerFailure
  <2>1. OnDisk'
    BY <1>2, <1>3, KeptSound DEF BeginPass, BrokerFailure, clock
  <2>2. QED
    BY <1>1, <1>3, <2>1, PartsPrime DEF BeginPass, BrokerFailure, clock, InMemory
<1>4. CASE EndPass
  <2>1. /\ UNCHANGED <<sim, tm, entered, todo, day, started, dayStart, misdated>>
        /\ phase' = "top" /\ Save(tm)
    BY <1>4 DEF EndPass, clock
  <2>2. CASE Written(tm, risk, day) /\ risk' = risk
    <3>1. OnDisk'
      BY <1>1, <1>2, <2>1, <2>2, WrittenSound DEF InMemory
    <3>2. QED
      BY <1>1, <2>1, <2>2, <3>1, PartsPrime DEF InMemory
  <2>3. CASE risk' = BlockForPersistenceFailure(risk) /\ UNCHANGED saved
    <3>1. OnDisk'
      BY <1>2, <2>1, <2>3, KeptSound
    <3>2. Sound(sim, tm, BlockForPersistenceFailure(risk), dayStart, misdated)
      BY <1>1, <1>2, RiskMethods, SoundRisk DEF InMemory
    <3>3. QED
      BY <1>1, <2>1, <2>3, <3>1, <3>2, PartsPrime DEF InMemory
  <2>4. QED
    BY <2>1, <2>2, <2>3 DEF Save
<1>5. CASE NewTradingDay
  <2>1. OnDisk'
    BY <1>2, <1>5, KeptSound DEF NewTradingDay
  <2>2. /\ sim' = sim /\ tm' = [tm EXCEPT !.filled = {}]
        /\ risk' = ResetDailyState(risk) /\ dayStart' = sim.pnl
        /\ misdated' = FALSE /\ entered' = {} /\ day' \in Nat
        /\ started' \in 0..day' /\ UNCHANGED <<todo, phase>>
    BY <1>2, <1>5 DEF NewTradingDay
  <2>3. Sound(sim', tm', risk', dayStart', misdated')
    BY <1>1, <1>2, <2>2, SoundNewDay DEF InMemory
  <2>4. tm'.filled = {}
    BY <1>1, <2>2 DEF InMemory, Sound, Books
  <2>5. QED
    BY <1>1, <2>1, <2>2, <2>3, <2>4, PartsPrime DEF InMemory
<1>6. CASE Recover
  <2>1. /\ tm' = Reconciled(tm, sim)
        /\ entered' = EnteredSymbols(tm') \cup Unmanaged(tm, sim)
        /\ todo' = {} /\ phase' = "top"
        /\ UNCHANGED <<sim, day, started, dayStart, misdated>>
        /\ Save(tm')
    BY <1>6 DEF Recover, clock
  <2>2. Sound(sim, tm', risk, dayStart, misdated)
    BY <1>1, <2>1, SoundReconciled DEF InMemory
  <2>3. tm'.filled \subseteq entered' /\ entered' \subseteq Symbols
    <3>1. tm'.filled \subseteq Symbols
      BY <2>2 DEF Sound, Books
    <3>2. QED
      BY <2>1, <3>1 DEF EnteredSymbols, Unmanaged
  <2>4. CASE Written(tm', risk, day) /\ UNCHANGED risk
    <3>1. OnDisk'
      BY <1>2, <2>1, <2>2, <2>4, WrittenSound
    <3>2. InMemory'
      BY <1>1, <2>1, <2>2, <2>3, <2>4 DEF InMemory
    <3>3. QED
      BY <3>1, <3>2, PartsPrime
  <2>5. CASE risk' = BlockForPersistenceFailure(risk) /\ UNCHANGED saved
    <3>1. OnDisk'
      BY <1>2, <2>1, <2>5, KeptSound
    <3>2. Sound(sim, tm', BlockForPersistenceFailure(risk), dayStart, misdated)
      BY <1>2, <2>2, RiskMethods, SoundRisk
    <3>3. InMemory'
      BY <1>1, <2>1, <2>3, <2>5, <3>2 DEF InMemory
    <3>4. QED
      BY <3>1, <3>3, PartsPrime
  <2>6. QED
    BY <2>1, <2>4, <2>5 DEF Save
<1>7. QED
  BY <1>3, <1>4, <1>5, <1>6

(* The steps that end the process.                                         *)
LEMMA EndInv ==
  ASSUME PInv, Shutdown \/ Interrupt \/ GiveUp \/ Crash
  PROVE  PInv'
<1>1. InMemory
  BY Parts
<1>2. /\ risk \in RiskState /\ Guarded(risk)
      /\ day \in Nat /\ day \in 0..day /\ started \in 0..day
  BY <1>1 DEF InMemory, Sound
<1>3. InMemory' /\ day' = day
  BY LeaveInv DEF Shutdown, Interrupt, GiveUp, Crash, Leave
<1>4. OnDisk'
  <2>1. CASE Shutdown
    BY <1>1, <1>2, <1>3, <2>1, WrittenSound DEF Shutdown, InMemory
  <2>2. CASE GiveUp
    <3>1. Sound(sim, tm, ActivateKillSwitch(risk), dayStart, misdated)
      BY <1>1, <1>2, RiskMethods, SoundRisk DEF InMemory
    <3>2. QED
      BY <1>2, <1>3, <2>2, <3>1, WrittenSound DEF GiveUp
  <2>3. CASE Crash
    BY <1>2, <1>3, <2>3, KeptSound DEF Crash
  <2>4. CASE Interrupt
    BY <1>1, <1>2, <1>3, <2>4, WrittenSound DEF Interrupt, InMemory
  <2>5. QED
    BY <2>1, <2>2, <2>3, <2>4
<1>5. QED
  BY <1>3, <1>4, PartsPrime

LEMMA PaperStepInv == PInv /\ [Next]_vars => PInv'
<1> SUFFICES ASSUME PInv, [Next]_vars PROVE PInv'
  OBVIOUS
<1>1. CASE ProcessSymbol
  <2>1. PICK s \in Symbols :
          \/ \E q \in Quantities, p \in Prices : Enter(s, q, p) \/ Enter(s, -q, p)
          \/ \E p \in Prices : Exit(s, p)
          \/ Skip(s)
    BY <1>1 DEF ProcessSymbol
  <2>2. \A q \in Quantities : q \in Int /\ -q \in Int
    BY PaperAssumption
  <2>3. \A p \in Prices : p \in Nat
    BY PaperAssumption
  <2>4. CASE \E q \in Quantities, p \in Prices : Enter(s, q, p) \/ Enter(s, -q, p)
    BY <2>2, <2>3, <2>4, EnterInv
  <2>5. CASE \E p \in Prices : Exit(s, p)
    BY <2>3, <2>5, ExitInv
  <2>6. CASE Skip(s)
    BY <2>6 DEF Skip, Done, clock, PInv, PaperTypeOK
  <2>7. QED
    BY <2>1, <2>4, <2>5, <2>6
<1>2. CASE BeginPass \/ EndPass \/ NewTradingDay \/ BrokerFailure \/ Recover
  BY <1>2, RunnerInv
<1>3. CASE Shutdown \/ Interrupt \/ GiveUp \/ Crash
  BY <1>3, EndInv
<1>4. CASE Restart
  BY <1>4, RestartInv
<1>5. CASE UNCHANGED vars
  BY <1>5 DEF vars, PInv, PaperTypeOK
<1>6. QED
  BY <1>1, <1>2, <1>3, <1>4, <1>5 DEF Next

LEMMA PaperAlways == Spec => []PInv
<1>1. QED
  BY PaperInitInv, PaperStepInv, PTL DEF Spec

-----------------------------------------------------------------------------

(* Every variable and the snapshot have their types, also after a restart. *)
THEOREM PaperTypeAlways == Spec => []PaperTypeOK
<1>1. PInv => PaperTypeOK
  BY DEF PInv
<1>2. QED
  BY <1>1, PaperAlways, PTL

(* After any number of crashes, restarts and reconnects the trade manager  *)
(* holds what the simulated broker holds, so no exit is refused.           *)
THEOREM PaperBooksAlways == Spec => []BooksMatchBroker
<1>1. PInv => BooksMatchBroker
  BY DEF PInv, Sound, BooksMatchBroker
<1>2. QED
  BY <1>1, PaperAlways, PTL

(* The loss limit is applied to what the simulated broker realized today:  *)
(* restore_state, the fills and the day change keep the two together; only *)
(* a restart from a snapshot filed under another date separates them.      *)
THEOREM DailyPnlAlways == Spec => []DailyPnlIsOfToday
<1>1. PInv => DailyPnlIsOfToday
  BY DEF PInv, Sound, Counted, DailyPnlIsOfToday
<1>2. QED
  BY <1>1, PaperAlways, PTL

(* The daily entry counter counts symbols entered today, each at most      *)
(* once, whatever restarts and reconnects lie between, and all of them     *)
(* unless one restored a snapshot filed under another date.                *)
THEOREM OneEntryAlways == Spec => []OneEntryPerSymbolADay
<1>1. PInv => OneEntryPerSymbolADay
  BY DEF PInv, Sound, Counted, OneEntryPerSymbolADay
<1>2. QED
  BY <1>1, PaperAlways, PTL

(* A day that has realized the maximal loss takes no further entry, unless *)
(* a restart from a snapshot filed under another date began it anew.       *)
THEOREM PaperLossStops == Spec => LossStopsEntries
<1> DEFINE A == \A s \in Symbols :
                  phase = "process" /\ ~misdated /\ Active(tm', s) /\ ~Active(tm, s)
                    => sim.pnl - dayStart > MaxLoss
<1>1. PInv /\ [Next]_vars => [A]_vars
  <2> SUFFICES ASSUME PInv, Next, NEW s \in Symbols,
                      phase = "process", ~misdated, Active(tm', s), ~Active(tm, s)
               PROVE  sim.pnl - dayStart > MaxLoss
    BY DEF A
  <2>1. PICK z \in Symbols, q \in Int, p \in Nat : Enter(z, q, p)
    <3>1. UNCHANGED tm \/ ProcessSymbol \/ Shutdown \/ Interrupt \/ Crash
      BY DEF Next, BeginPass, EndPass, NewTradingDay, BrokerFailure, Recover, GiveUp,
             Restart
    <3>2. tm' # NewBooks
      BY PaperAssumption DEF Active, NewBooks, Flat
    <3>3. tm' # tm
      OBVIOUS
    <3>4. ProcessSymbol
      BY <3>1, <3>2, <3>3 DEF Shutdown, Interrupt, Crash, Leave
    <3>5. PICK z \in Symbols :
            \/ \E q \in Quantities, p \in Prices : Enter(z, q, p) \/ Enter(z, -q, p)
            \/ \E p \in Prices : Exit(z, p)
            \/ Skip(z)
      BY <3>4 DEF ProcessSymbol
    <3>6. ~Skip(z)
      BY <3>3 DEF Skip
    <3>7. \A p \in Prices : ~Exit(z, p)
      <4> SUFFICES ASSUME NEW p \in Prices, Exit(z, p) PROVE FALSE
        OBVIOUS
      <4>1. tm' = [tm EXCEPT !.positions[z].quantity = 0]
        BY <3>3 DEF Exit
      <4>2. tm \in Books /\ tm.positions \in Holdings
        BY DEF PInv, Sound, Books
      <4>3. s # z => tm'.positions[s] = tm.positions[s]
        BY <4>1, <4>2 DEF Books, Holdings
      <4>4. Active(tm, z)
        BY DEF Exit
      <4>5. QED
        BY <4>3, <4>4 DEF Active
    <3>8. \A q \in Quantities : q \in Int /\ -q \in Int
      BY PaperAssumption
    <3>9. \A p \in Prices : p \in Nat
      BY PaperAssumption
    <3>10. QED
      BY <3>5, <3>6, <3>7, <3>8, <3>9
  <2>2. ~risk.kill_switch
    BY <2>1 DEF Enter, CanTrade
  <2>3. ~(risk.daily_pnl <= MaxLoss)
    BY <2>2 DEF PInv, Sound, Guarded
  <2>4. risk.daily_pnl = sim.pnl - dayStart /\ risk.daily_pnl \in Int /\ MaxLoss \in Int
    BY RiskAssumption DEF PInv, Sound, Counted, RiskState
  <2>5. QED
    BY <2>3, <2>4
<1>2. Spec => [][A]_vars
  BY <1>1, PaperAlways, PTL DEF Spec
<1>3. QED
  BY <1>2 DEF LossStopsEntries, A
-----------------------------------------------------------------------------
(* The money.                                                              *)

Margins(broker) ==
  [s \in Symbols |-> Margin(broker.positions[s].quantity,
                            broker.positions[s].average_price)]

Balanced(broker) ==
  broker.funds = 100 * Capital + 100 * broker.pnl - Reserved(broker)

MoneyInv ==
  /\ PInv
  /\ Balanced(sim)
  /\ saved # <<>> => Balanced(saved[1].sim)

LEMMA MarginFacts ==
  ASSUME NEW q \in Int, NEW a \in Nat
  PROVE  /\ Margin(q, a) \in Int
         /\ Margin(-q, a) = Margin(q, a)
         /\ Margin(0, a) = 0
<1>1. Abs(q) \in Int /\ Abs(-q) = Abs(q) /\ Abs(0) = 0
  BY DEF Abs
<1>2. 0 * a = 0 /\ 0 * MarginPct = 0
  BY PaperAssumption
<1> QED
  BY <1>1, <1>2, MoneyTypes DEF Margin

(* What is reserved, when the position of one symbol changes.              *)
LEMMA ReservedChange ==
  ASSUME NEW b \in Broker, NEW c \in Broker, NEW s \in Symbols,
         \A t \in Symbols \ {s} : c.positions[t] = b.positions[t]
  PROVE  /\ Reserved(b) \in Int /\ Reserved(c) \in Int
         /\ Reserved(c) = Reserved(b) + Margins(c)[s] - Margins(b)[s]
<1>1. ASSUME NEW x \in Broker
      PROVE  Margins(x) \in [Symbols -> Int] /\ Reserved(x) = SumFunction(Margins(x))
  <2>1. \A t \in Symbols : /\ x.positions[t].quantity \in Int
                           /\ x.positions[t].average_price \in Nat
    BY DEF Broker, Holdings
  <2> QED
    BY <2>1, MarginFacts DEF Margins, Reserved
<1>2. Margins(b) \in [Symbols -> Int] /\ Margins(c) \in [Symbols \cup {s} -> Int]
      /\ DOMAIN Margins(b) = Symbols /\ DOMAIN Margins(c) = Symbols
  <2>1. Symbols \cup {s} = Symbols
    OBVIOUS
  <2> QED
    BY <1>1, <2>1
<1>3. \A t \in Symbols \ {s} : Margins(c)[t] = Margins(b)[t]
  BY DEF Margins
<1>4. IsFiniteSet(Symbols)
  BY PaperAssumption
<1>5. SumFunction(Margins(c)) = SumFunction(Margins(b)) + Margins(c)[s] - Margins(b)[s]
  <2> HIDE DEF Margins
  <2> QED
    BY <1>2, <1>3, <1>4, SumChange
<1>6. SumFunction(Margins(b)) \in Int /\ SumFunction(Margins(c)) \in Int
  <2>1. \A x \in Broker : /\ DOMAIN Margins(x) = Symbols
                          /\ Margins(x) = [t \in DOMAIN Margins(x) |-> Margins(x)[t]]
                          /\ \A t \in DOMAIN Margins(x) : Margins(x)[t] \in Int
    BY <1>1
  <2> HIDE DEF Margins
  <2> QED
    BY <1>4, <2>1, Sum
<1> QED
  BY <1>1, <1>5, <1>6

(* An entry turns funds into margin.                                       *)
LEMMA EntryBalances ==
  ASSUME NEW s \in Symbols, NEW q \in Int, NEW p \in Nat,
         sim \in Broker, AfterEntry(s, q, p) \in Broker,
         sim.positions[s].quantity = 0, Balanced(sim)
  PROVE  Balanced(AfterEntry(s, q, p))
<1> DEFINE c == AfterEntry(s, q, p)
<1>1. /\ sim.positions[s].average_price \in Nat
      /\ sim.funds \in Int /\ sim.pnl \in Int /\ DOMAIN sim.positions = Symbols
  BY DEF Broker, Holdings
<1>2. /\ c.positions[s].quantity = q /\ c.positions[s].average_price = p
      /\ \A t \in Symbols \ {s} : c.positions[t] = sim.positions[t]
      /\ c.pnl = sim.pnl /\ c.funds = sim.funds - Margin(q, p)
  BY <1>1 DEF AfterEntry, Broker
<1> HIDE DEF c
<1>3. Margins(c)[s] = Margin(q, p) /\ Margins(sim)[s] = 0 /\ Margin(q, p) \in Int
  BY <1>1, <1>2, MarginFacts DEF Margins
<1>4. /\ Reserved(sim) \in Int /\ Reserved(c) \in Int
      /\ Reserved(c) = Reserved(sim) + Margins(c)[s] - Margins(sim)[s]
  BY <1>2, ReservedChange DEF c
<1> QED
  BY <1>1, <1>2, <1>3, <1>4, PaperAssumption DEF Balanced, c

(* An exit of the whole position gives the margin back, with the P&L.      *)
LEMMA ExitBalances ==
  ASSUME NEW s \in Symbols, NEW q \in Int, NEW p \in Nat,
         sim \in Broker, AfterExit(s, -q, p) \in Broker,
         sim.positions[s].quantity = q, Balanced(sim)
  PROVE  Balanced(AfterExit(s, -q, p))
<1> DEFINE c == AfterExit(s, -q, p)
           a == sim.positions[s].average_price
           gain == Realized(-(-q), a, p)
<1>1. /\ a \in Nat /\ sim.positions[s] \in [quantity : Int, average_price : Nat]
      /\ sim.funds \in Int /\ sim.pnl \in Int /\ DOMAIN sim.positions = Symbols
  BY DEF Broker, Holdings
<1>2. gain \in Int
  BY <1>1, MoneyTypes
<1>3. q + (-q) = 0
  OBVIOUS
<1> HIDE DEF gain, a
<1>4. /\ c.positions[s].quantity = 0 /\ c.positions[s].average_price = a
      /\ \A t \in Symbols \ {s} : c.positions[t] = sim.positions[t]
      /\ c.pnl = sim.pnl + gain /\ c.funds = sim.funds + (Margin(-q, a) + 100 * gain)
  <2> DEFINE pos == [sim.positions EXCEPT ![s].quantity = @ + (-q)]
  <2>1. c = [sim EXCEPT !.funds = @ + (Margin(-q, a) + 100 * gain),
                        !.pnl = @ + gain,
                        !.positions[s].quantity = @ + (-q)]
    BY DEF AfterExit, Release, gain, a
  <2>2. c.positions = pos /\ c.pnl = sim.pnl + gain
        /\ c.funds = sim.funds + (Margin(-q, a) + 100 * gain)
    <3> HIDE DEF c
    <3> QED
      BY <2>1, <1>1 DEF Broker
  <2>3. /\ pos[s].quantity = 0 /\ pos[s].average_price = a
        /\ \A t \in Symbols \ {s} : pos[t] = sim.positions[t]
    BY <1>1, <1>3 DEF a
  <2> HIDE DEF c, pos
  <2> QED
    BY <2>2, <2>3
<1>5. c \in Broker
  OBVIOUS
<1> HIDE DEF c
<1>6. /\ Margins(c)[s] = 0 /\ Margins(sim)[s] = Margin(-q, a) /\ Margin(-q, a) \in Int
  BY <1>1, <1>4, MarginFacts DEF Margins, a
<1>7. /\ Reserved(sim) \in Int /\ Reserved(c) \in Int
      /\ Reserved(c) = Reserved(sim) + Margins(c)[s] - Margins(sim)[s]
  BY <1>4, <1>5, ReservedChange
<1>8. Balanced(c)
  BY <1>1, <1>2, <1>4, <1>6, <1>7, PaperAssumption DEF Balanced
<1> QED
  BY <1>8 DEF c

LEMMA NewBalances == Balanced(NewBroker)
<1> DEFINE D == Symbols
<1>1. NewBroker \in Broker
  BY NewIsSound DEF Sound
<1>2. \A s \in Symbols : Margins(NewBroker)[s] = 0
  BY MarginFacts DEF Margins, NewBroker, Flat
<1>3. SumFunction(Margins(NewBroker)) = 0
  <2>1. Margins(NewBroker) = [s \in Symbols |-> 0]
    BY <1>2 DEF Margins
  <2> QED
    BY <2>1, SumOfZeros, PaperAssumption
<1>4. Reserved(NewBroker) = 0
  BY <1>3 DEF Margins, Reserved
<1> QED
  BY <1>4, PaperAssumption DEF Balanced, NewBroker

LEMMA MoneyStep == MoneyInv /\ [Next]_vars => MoneyInv'
<1> SUFFICES ASSUME MoneyInv, [Next]_vars PROVE MoneyInv'
  OBVIOUS
<1>1. PInv /\ PInv'
  BY PaperStepInv DEF MoneyInv
<1>2. sim \in Broker /\ sim' \in Broker
  BY <1>1 DEF PInv, Sound
<1>3. ASSUME saved' = saved \/ \E m : saved' = <<m>> /\ m.sim = sim
      PROVE  saved' # <<>> => Balanced(saved'[1].sim)
  BY <1>3 DEF MoneyInv
<1>4. CASE UNCHANGED sim /\ (saved' = saved \/ \E m : saved' = <<m>> /\ m.sim = sim)
  BY <1>1, <1>3, <1>4 DEF MoneyInv
<1>5. ASSUME NEW books, NEW r, NEW date, Written(books, r, date)
      PROVE  saved' = saved \/ \E m : saved' = <<m>> /\ m.sim = sim
  BY <1>5 DEF Written
<1>6. CASE \/ BeginPass \/ EndPass \/ NewTradingDay \/ BrokerFailure \/ Recover
           \/ UNCHANGED vars
  BY <1>4, <1>5, <1>6 DEF BeginPass, EndPass, Save, NewTradingDay, BrokerFailure, Recover, vars
<1>7. CASE Shutdown \/ Interrupt \/ GiveUp \/ Crash
  <2>1. sim' = NewBroker
    BY <1>7 DEF Shutdown, Interrupt, GiveUp, Crash, Leave
  <2>2. saved' = saved \/ \E m : saved' = <<m>> /\ m.sim = sim
    BY <1>5, <1>7 DEF Shutdown, Interrupt, GiveUp, Crash
  <2> QED
    BY <1>1, <1>3, <2>1, <2>2, NewBalances DEF MoneyInv
<1>8. CASE Restart
  BY <1>1, <1>8 DEF Restart, RestoreSimulated, MoneyInv
<1>9. ASSUME NEW s \in Symbols, NEW q \in Int, NEW p \in Nat, Enter(s, q, p)
      PROVE  MoneyInv'
  <2>1. UNCHANGED saved
    BY <1>9 DEF Enter, Done
  <2>2. CASE UNCHANGED sim
    BY <1>4, <2>1, <2>2
  <2>3. CASE sim' = AfterEntry(s, q, p) /\ FillsEntry(s, q, p)
    <3>1. Balanced(sim')
      BY <1>2, <2>3, EntryBalances DEF MoneyInv, FillsEntry
    <3> QED
      BY <1>1, <2>1, <3>1 DEF MoneyInv
  <2> QED
    BY <1>9, <2>2, <2>3 DEF Enter
<1>10. ASSUME NEW s \in Symbols, NEW p \in Nat, Exit(s, p)
       PROVE  MoneyInv'
  <2> DEFINE q == tm.positions[s].quantity
  <2>1. UNCHANGED saved
    BY <1>10 DEF Exit, Done
  <2>2. CASE UNCHANGED sim
    BY <1>4, <2>1, <2>2
  <2>3. CASE sim' = AfterExit(s, -q, p)
    <3>1. q \in Int /\ sim.positions[s].quantity = q
      BY <1>1 DEF PInv, Sound, Books, Holdings, Agree
    <3> HIDE DEF q
    <3>2. Balanced(sim')
      BY <1>2, <2>3, <3>1, ExitBalances DEF MoneyInv
    <3> QED
      BY <1>1, <2>1, <3>2 DEF MoneyInv
  <2> QED
    BY <1>10, <2>2, <2>3 DEF Exit
<1>11. CASE ProcessSymbol
  <2>1. PICK s \in Symbols :
          \/ \E q \in Quantities, p \in Prices : Enter(s, q, p) \/ Enter(s, -q, p)
          \/ \E p \in Prices : Exit(s, p)
          \/ Skip(s)
    BY <1>11 DEF ProcessSymbol
  <2>2. \A q \in Quantities : q \in Int /\ -q \in Int
    BY PaperAssumption
  <2>3. \A p \in Prices : p \in Nat
    BY PaperAssumption
  <2>4. CASE \E q \in Quantities, p \in Prices : Enter(s, q, p) \/ Enter(s, -q, p)
    BY <1>9, <2>2, <2>3, <2>4
  <2>5. CASE \E p \in Prices : Exit(s, p)
    BY <1>10, <2>3, <2>5
  <2>6. CASE Skip(s)
    BY <1>4, <2>6 DEF Skip, Done
  <2> QED
    BY <2>1, <2>4, <2>5, <2>6
<1> QED
  BY <1>6, <1>7, <1>8, <1>11 DEF Next

(* No money is made or lost but by realized P&L, over any number of        *)
(* symbols, trades, crashes and restarts: the funds of the simulated       *)
(* broker are the capital and the P&L less the margins reserved.           *)
THEOREM MoneyAlways == Spec => []MoneyConserved
<1>1. Init => MoneyInv
  BY PaperInitInv, NewBalances DEF Init, MoneyInv
<1>2. MoneyInv => MoneyConserved
  BY DEF MoneyInv, Balanced, MoneyConserved
<1> QED
  BY <1>1, <1>2, MoneyStep, PTL DEF Spec
=============================================================================

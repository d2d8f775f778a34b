------------------------- MODULE SwingTradingProofs -------------------------
(***************************************************************************)
(* Proofs about SwingTrading for every value of its constants: any number  *)
(* of symbols, any files, edits, imports and uses of the builder.          *)
(***************************************************************************)
EXTENDS SwingTradingProps, Sums, SequenceTheorems

Looping == phase \in {"top", "setup", "process"}

(* An entry that is still at work is watched too, so that what it executes *)
(* is - unless its position has been closed and the symbol given up.       *)
Watched ==
  /\ Open \subseteq symbols \cup reopened
  /\ working \subseteq symbols \cup Closed \cup reopened

WatchInv ==
  /\ position \in [Symbols -> {"none", "open", "closed"}]
  /\ working \subseteq Symbols
  /\ Looping => Watched
  /\ phase = "process" => pass \subseteq symbols

(* Whatever an entry executes while the runner is not looking is found.    *)
LEMMA ReconcileWatches ==
  ASSUME WatchInv, Watched,
         NEW F \in SUBSET working, NEW E \in SUBSET working, NEW D \in SUBSET F,
         Reconcile(F, D, E)
  PROVE  /\ position' \in [Symbols -> {"none", "open", "closed"}]
         /\ working' \subseteq Symbols
         /\ Watched'
<1>1. /\ position' = [s \in Symbols |-> IF s \in F THEN "open" ELSE position[s]]
      /\ working' \subseteq working
      /\ symbols' = symbols \ {s \in symbols : position'[s] = "closed"}
      /\ reopened' = reopened \cup ((F \cap Closed) \ symbols)
  BY DEF Reconcile
<1>2. position' \in [Symbols -> {"none", "open", "closed"}] /\ working' \subseteq Symbols
  BY <1>1 DEF WatchInv
<1>3. ASSUME NEW s \in Open' PROVE s \in symbols' \cup reopened'
  <2>1. s \in Symbols /\ position'[s] = "open"
    BY <1>3 DEF Open
  <2>2. CASE s \in F
    <3>1. s \in symbols \cup Closed \cup reopened
      BY <2>2 DEF Watched
    <3> QED
      BY <1>1, <2>1, <2>2, <3>1
  <2>3. CASE s \notin F
    <3>1. s \in Open
      BY <1>1, <2>1, <2>3 DEF Open
    <3> QED
      BY <1>1, <2>1, <3>1 DEF Watched
  <2> QED
    BY <2>2, <2>3
<1>4. ASSUME NEW s \in working' PROVE s \in symbols' \cup Closed' \cup reopened'
  <2>1. s \in Symbols /\ s \in symbols \cup Closed \cup reopened
    BY <1>1, <1>2, <1>4 DEF Watched
  <2>2. CASE position'[s] = "closed"
    BY <2>1, <2>2 DEF Closed
  <2>3. CASE position'[s] # "closed"
    <3>1. s \in Closed => s \in F
      BY <1>1, <2>1, <2>3 DEF Closed
    <3> QED
      BY <1>1, <2>1, <2>3, <3>1
  <2> QED
    BY <2>2, <2>3
<1> QED
  BY <1>2, <1>3, <1>4 DEF Watched

LEMMA StepKeepsWatch ==
  ASSUME WatchInv, [Next]_svars
  PROVE  WatchInv'
<1>1. CASE UNCHANGED <<phase, symbols, pass, position, working, reopened>>
  BY <1>1 DEF WatchInv, Watched, Looping, Open, Closed
<1>2. CASE UNCHANGED <<position, working>> /\ ~Looping'
  BY <1>2 DEF WatchInv, Looping
<1>3. CASE Start \/ Import \/ Close \/ Interrupt \/ SetupFails \/ LateSetupFails
  <2>1. phase' \in ImportPhases
    <3>1. CASE Start
      <4>1. phase' = "importing"
        BY <3>1, Zenon DEF Start, StartImport
      <4> QED
        BY <4>1 DEF ImportPhases
    <3>2. CASE Import
      BY <3>2 DEF Import, ImportStep, ImportFails, ImportEnds, ReadSource, AfterSource,
                  ReadMain, ReplaceMain, DeleteSource, SourceGone, FinishImport, ImportPhases
    <3>3. CASE Close \/ Interrupt \/ SetupFails \/ LateSetupFails
      BY <3>3 DEF Close, Interrupt, SetupFails, LateSetupFails, Leave, ImportPhases
    <3> QED
      BY <1>3, <3>1, <3>2, <3>3
  <2> QED
    BY <1>2, <1>3, <2>1 DEF Start, Import, Close, Interrupt, SetupFails, LateSetupFails,
                            Leave, ImportPhases, Looping, trading
<1>4. CASE EnterLoop
  BY <1>4 DEF EnterLoop, EnteredSymbols, WatchInv, Watched, Looping, Open, Closed
<1>5. CASE BeginPass
  <2>1. CASE UNCHANGED <<symbols, reopened>>
    BY <1>5, <2>1 DEF BeginPass, WatchInv, Watched, Looping, Open, Closed
  <2>2. CASE symbols' = Desired /\ reopened' = {}
    BY <1>5, <2>2 DEF BeginPass, Desired, EnteredSymbols, WatchInv, Watched, Looping,
                      Open, Closed
  <2> QED
    BY <1>5, <2>1, <2>2 DEF BeginPass
<1>6. CASE Refresh
  <2>1. PICK F \in SUBSET working, E \in SUBSET working :
          \E D \in SUBSET F : Reconcile(F, D, E)
    BY <1>6 DEF Refresh
  <2>2. Watched /\ pass' = symbols'
    BY <1>6 DEF Refresh, WatchInv, Looping
  <2> QED
    BY <2>1, <2>2, ReconcileWatches DEF WatchInv
<1>7. CASE BrokerFailure
  <2>1. PICK F \in SUBSET working, E \in SUBSET working :
          \E D \in SUBSET F : Reconcile(F, D, E)
    BY <1>7 DEF BrokerFailure
  <2>2. Watched /\ phase' = "top"
    BY <1>7 DEF BrokerFailure, WatchInv, Looping
  <2> QED
    BY <2>1, <2>2, ReconcileWatches DEF WatchInv
<1>8. CASE EndPass
  BY <1>8 DEF EndPass, runner, trading, WatchInv, Watched, Looping, Open, Closed
<1>9. ASSUME NEW s \in Symbols, ExitSymbol(s) PROVE WatchInv'
  BY <1>9 DEF ExitSymbol, Processing, WatchInv, Watched, Looping, Open, Closed
<1>10. ASSUME NEW s \in Symbols, EnterSymbol(s) PROVE WatchInv'
  <2>1. /\ phase = "process" /\ phase' = "process" /\ s \in pass /\ s \in symbols
        /\ pass' = pass \ {s} /\ UNCHANGED <<symbols, reopened>>
        /\ working' \subseteq working \cup {s}
        /\ position' = [position EXCEPT ![s] = "open"] \/ UNCHANGED position
    BY <1>10 DEF EnterSymbol, Processing, WatchInv
  <2>2. position' \in [Symbols -> {"none", "open", "closed"}]
    BY <2>1 DEF WatchInv
  <2>3. Open' \subseteq Open \cup {s} /\ Closed \subseteq Closed' \cup {s}
    BY <2>1 DEF Open, Closed, WatchInv
  <2> QED
    BY <2>1, <2>2, <2>3 DEF WatchInv, Watched, Looping
<1>11. ASSUME NEW s \in Symbols, PassSymbol(s) PROVE WatchInv'
  BY <1>11 DEF PassSymbol, Processing, WatchInv, Watched, Looping, Open, Closed
<1>12. CASE Midnight
  BY <1>12 DEF Midnight, WatchInv, Watched, Looping, Open, Closed
<1>13. CASE UseTool \/ (\E file \in MainFiles : EditMain(file))
            \/ (\E file \in HandFiles : PutByHand(file)) \/ (\E n \in Stamps : TakeAway(n))
  BY <1>1, <1>13 DEF UseTool, EditMain, PutByHand, TakeAway, runner, trading
<1>14. CASE UNCHANGED svars
  BY <1>1, <1>14 DEF svars, runner, trading
<1> QED
  BY <1>3, <1>4, <1>5, <1>6, <1>7, <1>8, <1>9, <1>10, <1>11, <1>12, <1>13, <1>14
     DEF Next, Process

(* A pass of the Swing runner goes through every open position whatever    *)
(* the watchlist files hold, whoever changes them, and whenever the        *)
(* process is started again.                                               *)
THEOREM OpenIsWatchedAlways == Spec => []OpenIsWatched
<1>1. Init => WatchInv
  BY DEF Init, ImportInit, WatchInv, Looping
<1>2. WatchInv => OpenIsWatched
  BY DEF WatchInv, OpenIsWatched, Looping, Watched
<1> QED
  BY <1>1, <1>2, StepKeepsWatch, PTL DEF Spec
-----------------------------------------------------------------------------
(* The numbers of a finite set, the smallest first: the number with k      *)
(* numbers up to it comes at place k.                                      *)
LEMMA InOrderExists ==
  ASSUME NEW S \in SUBSET Nat, IsFiniteSet(S)
  PROVE  \E q \in [1..Cardinality(S) -> S] : \A i, j \in DOMAIN q : i < j => q[i] < q[j]
<1> DEFINE UpTo(x) == {y \in S : y <= x}
           rank    == [x \in S |-> Cardinality(UpTo(x))]
           n       == Cardinality(S)
<1>1. n \in Nat /\ IsFiniteSet(1..n) /\ Cardinality(1..n) = n
  BY FS_CardinalityType, FS_Interval
<1>2. ASSUME NEW x \in S
      PROVE  IsFiniteSet(UpTo(x)) /\ rank[x] \in 1..n
  <2>1. UpTo(x) \in SUBSET S /\ x \in UpTo(x)
    OBVIOUS
  <2>2. IsFiniteSet(UpTo(x)) /\ Cardinality(UpTo(x)) <= n /\ Cardinality(UpTo(x)) \in Nat
    BY <2>1, FS_Subset, FS_CardinalityType
  <2>3. Cardinality(UpTo(x)) # 0
    BY <2>1, <2>2, FS_EmptySet
  <2> QED
    BY <1>1, <2>2, <2>3
<1>3. ASSUME NEW x \in S, NEW y \in S, x < y
      PROVE  rank[x] < rank[y]
  <2>0. \A z \in S : z \in Nat
    OBVIOUS
  <2>1. UpTo(x) \in SUBSET UpTo(y) /\ y \in UpTo(y) /\ y \notin UpTo(x)
    <3>1. x \in Nat /\ y \in Nat
      OBVIOUS
    <3>2. \A z \in UpTo(x) : z \in S /\ z <= y
      BY <1>3, <2>0, <3>1
    <3>3. y \in UpTo(y) /\ y \notin UpTo(x)
      BY <1>3, <3>1
    <3> QED
      BY <3>2, <3>3
  <2>2. Cardinality(UpTo(x)) <= Cardinality(UpTo(y)) /\ Cardinality(UpTo(x)) # Cardinality(UpTo(y))
    BY <1>2, <2>1, FS_Subset
  <2>3. rank[x] = Cardinality(UpTo(x)) /\ rank[y] = Cardinality(UpTo(y))
    OBVIOUS
  <2> HIDE DEF rank, UpTo, n
  <2>4. rank[x] \in Nat /\ rank[y] \in Nat
    BY <1>1, <1>2
  <2> QED
    BY <2>2, <2>3, <2>4
<1> HIDE DEF UpTo
<1>4. rank \in Injection(S, 1..n)
  <2>1. \A x, y \in S : x # y => x < y \/ y < x
    OBVIOUS
  <2>2. \A x, y \in S : rank[x] = rank[y] => x = y
    BY <1>1, <1>2, <1>3, <2>1
  <2> QED
    BY <1>2, <2>2 DEF Injection, IsInjective
<1>5. rank \in Surjection(S, 1..n)
  BY <1>1, <1>4, FS_Injection
<1> HIDE DEF rank, n
<1> DEFINE q == [k \in 1..n |-> CHOOSE x \in S : rank[x] = k]
<1>6. \A k \in 1..n : q[k] \in S /\ rank[q[k]] = k
  BY <1>5 DEF Surjection
<1>8. q \in [1..n -> S] /\ DOMAIN q = 1..n
  BY <1>6
<1> HIDE DEF q
<1>7. ASSUME NEW i \in 1..n, NEW j \in 1..n, i < j PROVE q[i] < q[j]
  <2>1. q[i] \in Nat /\ q[j] \in Nat /\ q[i] # q[j]
    <3>1. \A z \in S : z \in Nat
      OBVIOUS
    <3>2. i # j
      BY <1>1, <1>7
    <3> QED
      BY <1>6, <3>1, <3>2
  <2>2. ~(q[j] < q[i])
    <3>1. q[j] < q[i] => j < i
      BY <1>3, <1>6
    <3> QED
      BY <1>1, <1>7, <3>1
  <2> QED
    BY <2>1, <2>2
<1> QED
  BY <1>7, <1>8 DEF n

LEMMA InOrderFacts ==
  ASSUME NEW S \in SUBSET Nat, IsFiniteSet(S)
  PROVE  /\ InOrder(S) \in [1..Cardinality(S) -> S]
         /\ \A i, j \in DOMAIN InOrder(S) : i # j => InOrder(S)[i] # InOrder(S)[j]
         /\ \A x \in S : \E k \in DOMAIN InOrder(S) : InOrder(S)[k] = x
         /\ Cardinality(S) \in Nat
<1> DEFINE q == InOrder(S)
           n == Cardinality(S)
<1>1. q \in [1..n -> S] /\ \A i, j \in DOMAIN q : i < j => q[i] < q[j]
  BY InOrderExists DEF InOrder
<1>2. n \in Nat /\ IsFiniteSet(1..n) /\ Cardinality(1..n) = n
  BY FS_CardinalityType, FS_Interval
<1> HIDE DEF q, n
<1>3. \A i, j \in DOMAIN q : i # j => q[i] # q[j]
  <2>1. \A i, j \in 1..n : i # j => i < j \/ j < i
    OBVIOUS
  <2>2. \A i \in 1..n : q[i] \in Nat
    BY <1>1
  <2> QED
    BY <1>1, <2>1, <2>2
<1>4. q \in Injection(1..n, S)
  BY <1>1, <1>3 DEF Injection, IsInjective
<1>5. q \in Surjection(1..n, S)
  BY <1>2, <1>4, FS_Injection DEF n
<1> QED
  BY <1>1, <1>2, <1>3, <1>5 DEF Surjection, q, n

-----------------------------------------------------------------------------
(* What is read from a file, and what of it is appended to the watchlist.  *)
LEMMA FileFacts ==
  ASSUME NEW file \in File
  PROVE  /\ file.rows \in Seq(Row) /\ Len(file.rows) \in Nat
         /\ DOMAIN file.rows = 1..Len(file.rows)
         /\ IsFiniteSet(DOMAIN file.rows)
         /\ \A i \in DOMAIN file.rows : file.rows[i] \in Row
<1>1. file.rows \in Seq(Row)
  BY DEF File
<1>2. /\ Len(file.rows) \in Nat /\ DOMAIN file.rows = 1..Len(file.rows)
      /\ \A i \in DOMAIN file.rows : file.rows[i] \in Row
  BY <1>1
<1> QED
  BY <1>1, <1>2, FS_Interval

LEMMA FirstRowFacts ==
  ASSUME NEW file \in File, NEW s \in Listed(file)
  PROVE  /\ FirstRow(file, s) \in DOMAIN file.rows
         /\ file.rows[FirstRow(file, s)].symbol = s
         /\ \A j \in 1..(FirstRow(file, s) - 1) : file.rows[j].symbol # s
<1> DEFINE C == {i \in DOMAIN file.rows : file.rows[i].symbol = s}
<1>1. C # {} /\ C \in SUBSET Nat
  BY FileFacts DEF Listed
<1>2. PICK i \in C : \A j \in C : i <= j
  BY <1>1, SmallestNumber
<1>3. /\ i \in DOMAIN file.rows /\ file.rows[i].symbol = s
      /\ \A j \in 1..(i - 1) : file.rows[j].symbol # s
  <2>1. i \in 1..Len(file.rows) /\ Len(file.rows) \in Nat
    BY FileFacts
  <2>2. ASSUME NEW j \in 1..(i - 1) PROVE j \notin C /\ j \in DOMAIN file.rows
    <3>1. j \in 1..Len(file.rows) /\ ~(i <= j)
      BY <2>1, <2>2
    <3> QED
      BY <1>2, <3>1, FileFacts
  <2> QED
    BY <2>2
<1> QED
  BY <1>3 DEF FirstRow

LEMMA AdditionsFacts ==
  ASSUME NEW source \in File, NEW known
  PROVE  LET rows == Additions(source, known) IN
         /\ rows \in Seq(Row)
         /\ \A k \in DOMAIN rows :
              /\ rows[k].symbol \in Listed(source) \ DOMAIN known
              /\ \E i \in DOMAIN source.rows : rows[k] = source.rows[i]
         /\ \A s \in Listed(source) \ DOMAIN known :
              \E k \in DOMAIN rows : rows[k].symbol = s
         /\ \A j, k \in DOMAIN rows : j # k => rows[j].symbol # rows[k].symbol
<1> DEFINE new  == Listed(source) \ DOMAIN known
           L    == {FirstRow(source, s) : s \in new}
           line == InOrder(L)
           rows == [k \in DOMAIN line |-> source.rows[line[k]]]
<1>1. L \in SUBSET Nat /\ IsFiniteSet(L) /\ L \subseteq DOMAIN source.rows
  <2>1. L \in SUBSET DOMAIN source.rows
    BY FirstRowFacts
  <2>2. IsFiniteSet(DOMAIN source.rows) /\ DOMAIN source.rows \subseteq Nat
    BY FileFacts
  <2> HIDE DEF L
  <2> QED
    BY <2>1, <2>2, FS_Subset
<1>2. \A i \in L : source.rows[i].symbol \in new /\ i = FirstRow(source, source.rows[i].symbol)
  BY FirstRowFacts
<1>3. \A s \in new : \E i \in L : source.rows[i].symbol = s
  BY FirstRowFacts
<1> HIDE DEF L, new
<1>4. /\ line \in [1..Cardinality(L) -> L] /\ Cardinality(L) \in Nat
      /\ \A i, j \in DOMAIN line : i # j => line[i] # line[j]
      /\ \A x \in L : \E k \in DOMAIN line : line[k] = x
  BY <1>1, InOrderFacts
<1> HIDE DEF line
<1>5. Additions(source, known) = rows
  BY DEF Additions, line, L, new
<1>6. DOMAIN rows = 1..Cardinality(L) /\ \A k \in DOMAIN rows : line[k] \in L /\ rows[k] = source.rows[line[k]]
  BY <1>4
<1> HIDE DEF rows
<1>7. \A k \in DOMAIN rows : /\ rows[k].symbol \in new
                             /\ \E i \in DOMAIN source.rows : rows[k] = source.rows[i]
                             /\ rows[k] \in Row
  BY <1>1, <1>2, <1>6, FileFacts
<1>8. rows \in Seq(Row)
  <2>1. rows \in [1..Cardinality(L) -> Row]
    BY <1>6, <1>7 DEF rows
  <2> QED
    BY <1>4, <2>1, IsASeq
<1>9. \A s \in new : \E k \in DOMAIN rows : rows[k].symbol = s
  BY <1>3, <1>4, <1>6
<1>10. \A j, k \in DOMAIN rows : j # k => rows[j].symbol # rows[k].symbol
  <2> SUFFICES ASSUME NEW j \in DOMAIN rows, NEW k \in DOMAIN rows,
                      rows[j].symbol = rows[k].symbol
               PROVE  j = k
    OBVIOUS
  <2>1. line[j] = line[k]
    BY <1>2, <1>6
  <2> QED
    BY <1>4, <1>6, <2>1
<1> QED
  BY <1>5, <1>7, <1>8, <1>9, <1>10 DEF new

-----------------------------------------------------------------------------
(* Where the symbols of the imports are.                                   *)

FilesOK ==
  /\ main \in File
  /\ \A n \in DOMAIN folder : folder[n] \in File
  /\ bytes \in File /\ upload \in File /\ disk \subseteq File
  /\ append.existing \in File /\ append.additions \in Seq(Row)

StampsOK ==
  /\ stamp \in Nat
  /\ \A n \in DOMAIN folder \cup DOMAIN delivered \cup saved : n \in Nat /\ n < stamp

RowSymbols(rows) == {rows[k].symbol : k \in DOMAIN rows}

(* What the process has read of the watchlist is in the main file, also in *)
(* the one it is about to write, and so is what was imported before.  What *)
(* it is importing is in the watchlist it has read, or will be appended.   *)
ReplacingOK ==
  /\ DOMAIN watchlist \subseteq Listed(append.existing) \cup removed
  /\ \A n \in DOMAIN delivered \ DOMAIN folder :
       Listed(delivered[n]) \subseteq Listed(append.existing) \cup removed

HeldOK ==
  \A n \in DOMAIN delivered \cap Held :
    Listed(delivered[n]) \subseteq DOMAIN watchlist \cup RowSymbols(append.additions)

ImportInv ==
  /\ FilesOK
  /\ StampsOK
  /\ \A n \in DOMAIN delivered : ~Unreadable(delivered[n], TRUE)
  /\ \A n \in DOMAIN delivered \cap DOMAIN folder : delivered[n] = folder[n]
  /\ \A n \in DOMAIN delivered \ DOMAIN folder :
       Listed(delivered[n]) \subseteq Listed(main) \cup removed
  /\ Importing => DOMAIN watchlist \subseteq Listed(main) \cup removed
  /\ phase \in {"reading", "replacing"} => HeldOK
  /\ phase = "replacing" => ReplacingOK
  /\ phase = "deleting" =>
       \A n \in DOMAIN delivered \cap Held :
         Listed(delivered[n]) \subseteq Listed(main) \cup removed
  /\ window = "writing" /\ disk = {} => saved \cap DOMAIN delivered = {}

LEMMA EmptyIsFile ==
  /\ EmptyFile \in File /\ <<>> \in Seq(Row)
  /\ NoAppend.existing \in File /\ NoAppend.additions \in Seq(Row)
<1>1. EmptyFile \in File /\ <<>> \in Seq(Row)
  BY DEF EmptyFile, File
<1> QED
  BY <1>1 DEF NoAppend

(* The two files that a replacement of the main file puts together.        *)
LEMMA Appended ==
  ASSUME NEW file \in File, NEW rows \in Seq(Row)
  PROVE  /\ [file EXCEPT !.rows = @ \o rows] \in File
         /\ Listed([file EXCEPT !.rows = @ \o rows]) = Listed(file) \cup RowSymbols(rows)
<1> DEFINE all == file.rows \o rows
           f   == [file EXCEPT !.rows = @ \o rows]
<1>1. file.rows \in Seq(Row) /\ file.header \in BOOLEAN
  BY DEF File
<1>2. all \in Seq(Row) /\ DOMAIN all = 1..(Len(file.rows) + Len(rows))
  BY <1>1
<1>3. f \in File /\ f.rows = all
  BY <1>1, <1>2 DEF File
<1>4. /\ \A k \in DOMAIN file.rows : k \in DOMAIN all /\ all[k] = file.rows[k]
      /\ \A k \in DOMAIN rows : Len(file.rows) + k \in DOMAIN all
                                /\ all[Len(file.rows) + k] = rows[k]
  BY <1>1
<1>5. \A k \in DOMAIN all : \/ k \in DOMAIN file.rows /\ all[k] = file.rows[k]
                            \/ k - Len(file.rows) \in DOMAIN rows
                               /\ all[k] = rows[k - Len(file.rows)]
  BY <1>1, <1>2
<1> HIDE DEF f, all
<1>6. Listed(f) = Listed(file) \cup RowSymbols(rows)
  <2>1. Listed(f) \subseteq Listed(file) \cup RowSymbols(rows)
    BY <1>3, <1>5 DEF Listed, RowSymbols
  <2>2. Listed(file) \subseteq Listed(f) /\ RowSymbols(rows) \subseteq Listed(f)
    BY <1>3, <1>4 DEF Listed, RowSymbols
  <2> QED
    BY <2>1, <2>2
<1> QED
  BY <1>3, <1>6 DEF f

(* The steps that leave the files alone, and do not import.                *)
LEMMA NoImportKeeps ==
  ASSUME ImportInv, UNCHANGED <<disk_vars, tool>>,
         \/ UNCHANGED <<phase, importer>>
         \/ ~Importing' /\ append' \in {append, NoAppend}
  PROVE  ImportInv'
<1>1. UNCHANGED <<main, folder, stamp, delivered, removed, window, saved, bytes, disk, upload>>
  BY DEF disk_vars, tool
<1>2. FilesOK'
  <2>1. append' = append \/ append' = NoAppend
    BY DEF importer
  <2> QED
    BY <1>1, <2>1, EmptyIsFile DEF ImportInv, FilesOK
<1>3. StampsOK'
  BY <1>1 DEF ImportInv, StampsOK
<1>4. CASE UNCHANGED <<phase, importer>>
  BY <1>1, <1>2, <1>3, <1>4 DEF ImportInv, importer, ReplacingOK, HeldOK, Held, Importing
<1>5. CASE ~Importing'
  BY <1>1, <1>2, <1>3, <1>5 DEF ImportInv, Importing
<1> QED
  BY <1>4, <1>5

LEMMA ImportKeeps ==
  ASSUME ImportInv, Start \/ Import
  PROVE  ImportInv'
<1>1. UNCHANGED <<stamp, delivered, removed, window, saved, bytes, disk, upload>>
  BY DEF Start, Import, tool
<1>2. CASE Start
  <2>1. /\ UNCHANGED <<main, folder, append>> /\ phase' = "importing"
        /\ watchlist' = Triggers(main)
    BY <1>2, Zenon DEF Start, StartImport
  <2>2. DOMAIN watchlist' = Listed(main)
    BY <2>1 DEF Triggers
  <2> QED
    BY <1>1, <2>1, <2>2 DEF ImportInv, FilesOK, StampsOK, Importing
<1>3. CASE ImportFails \/ SourceGone \/ FinishImport
  <2>1. /\ UNCHANGED <<main, folder>> /\ append' \in {append, NoAppend}
        /\ phase' \in {"down", "ready"}
    BY <1>3 DEF ImportFails, SourceGone, FinishImport, ImportEnds, importer
  <2>2. FilesOK' /\ StampsOK'
    BY <1>1, <2>1, EmptyIsFile DEF ImportInv, FilesOK, StampsOK
  <2> QED
    BY <1>1, <2>1, <2>2 DEF ImportInv, Importing
<1>4. CASE ReadSource
  <2> DEFINE n == Head(todo)
             rows == Additions(folder[n], watchlist)
  <2>1. UNCHANGED <<main, folder>> /\ phase = "importing"
    BY <1>4 DEF ReadSource
  <2>2. CASE n \notin DOMAIN folder
    <3>1. UNCHANGED <<phase, watchlist, append>>
      BY <1>4, <2>2 DEF ReadSource
    <3> QED
      BY <1>1, <2>1, <3>1 DEF ImportInv, FilesOK, StampsOK, Importing
  <2>3. CASE n \in DOMAIN folder /\ Unreadable(folder[n], TRUE)
    <3>1. phase' = "down" /\ append' = NoAppend
      BY <1>4, <2>3 DEF ReadSource, ImportEnds
    <3>2. FilesOK' /\ StampsOK'
      BY <1>1, <2>1, <3>1, EmptyIsFile DEF ImportInv, FilesOK, StampsOK
    <3> QED
      BY <1>1, <2>1, <3>1, <3>2 DEF ImportInv, Importing
  <2>4. CASE n \in DOMAIN folder /\ ~Unreadable(folder[n], TRUE)
    <3>1. /\ append'.existing = NoAppend.existing /\ append'.additions = rows
          /\ phase' = IF rows = <<>> THEN "deleting" ELSE "reading"
          /\ UNCHANGED <<watchlist, todo>>
      BY <1>4, <2>4 DEF ReadSource, AfterSource, NoAppend
    <3>2. /\ rows \in Seq(Row)
          /\ Listed(folder[n]) \subseteq DOMAIN watchlist \cup RowSymbols(rows)
      <4>1. folder[n] \in File
        BY <2>4 DEF ImportInv, FilesOK
      <4> HIDE DEF n
      <4> QED
        BY <4>1, AdditionsFacts DEF RowSymbols
    <3>3. rows = <<>> => RowSymbols(rows) = {}
      <4> HIDE DEF rows
      <4> QED
        BY DEF RowSymbols
    <3>4. Held' = {n} /\ phase' \in {"deleting", "reading"}
      BY <3>1 DEF Held
    <3> HIDE DEF rows, n
    <3>5. FilesOK' /\ StampsOK'
      <4>1. append'.existing \in File /\ append'.additions \in Seq(Row)
        BY <3>1, <3>2, EmptyIsFile DEF ImportInv, FilesOK
      <4> QED
        BY <1>1, <2>1, <4>1 DEF ImportInv, FilesOK, StampsOK
    <3>6. \A m \in DOMAIN delivered \cap Held' :
            Listed(delivered[m]) \subseteq DOMAIN watchlist \cup RowSymbols(rows)
      BY <2>4, <3>2, <3>4 DEF ImportInv
    <3>7. DOMAIN watchlist \subseteq Listed(main) \cup removed
      BY <2>1 DEF ImportInv, Importing
    <3>8. HeldOK'
      BY <1>1, <3>1, <3>6 DEF HeldOK
    <3>9. phase' = "deleting" =>
            \A m \in DOMAIN delivered' \cap Held' :
              Listed(delivered'[m]) \subseteq Listed(main') \cup removed'
      BY <1>1, <2>1, <3>1, <3>3, <3>6, <3>7
    <3> QED
      BY <1>1, <2>1, <3>1, <3>4, <3>5, <3>7, <3>8, <3>9 DEF ImportInv, Importing
  <2> QED
    BY <2>2, <2>3, <2>4
<1>5. CASE ReplaceMain
  <2>1. /\ phase = "replacing" /\ phase' = "deleting"
        /\ main' = [append.existing EXCEPT !.rows = @ \o append.additions]
        /\ watchlist' = WithAdditions
        /\ append' = NoAppend
        /\ UNCHANGED <<folder, todo>>
    BY <1>5 DEF ReplaceMain
  <2>2. /\ main' \in File
        /\ Listed(main') = Listed(append.existing) \cup RowSymbols(append.additions)
    BY <2>1, Appended DEF ImportInv, FilesOK
  <2>3. DOMAIN watchlist' = DOMAIN watchlist \cup RowSymbols(append.additions)
    BY <2>1 DEF WithAdditions, Extended, Triggers, Listed, RowSymbols
  <2>4. FilesOK' /\ StampsOK'
    BY <1>1, <2>1, <2>2, EmptyIsFile DEF ImportInv, FilesOK, StampsOK
  <2>5. Held' = Held /\ ReplacingOK /\ HeldOK
    BY <2>1 DEF Held, ImportInv
  <2> QED
    BY <1>1, <2>1, <2>2, <2>3, <2>4, <2>5 DEF ImportInv, ReplacingOK, HeldOK
<1>6. CASE DeleteSource
  <2>1. /\ phase = "deleting" /\ phase' = "importing"
        /\ folder' = [n \in DOMAIN folder \ Held |-> folder[n]]
        /\ UNCHANGED <<main, watchlist, append>>
    BY <1>6 DEF DeleteSource, Kept, Held
  <2>2. /\ DOMAIN folder' = DOMAIN folder \ Held
        /\ \A n \in DOMAIN folder' : folder'[n] = folder[n]
    BY <2>1
  <2> QED
    BY <1>1, <2>1, <2>2 DEF ImportInv, FilesOK, StampsOK, Importing
<1>7. CASE ReadMain
  <2>1. UNCHANGED <<main, folder>> /\ phase = "reading"
    BY <1>7 DEF ReadMain
  <2>2. CASE ~main.header
    <3>1. phase' = "down" /\ append' = NoAppend
      BY <1>7, <2>2 DEF ReadMain, ImportEnds
    <3>2. FilesOK' /\ StampsOK'
      BY <1>1, <2>1, <3>1, EmptyIsFile DEF ImportInv, FilesOK, StampsOK
    <3> QED
      BY <1>1, <2>1, <3>1, <3>2 DEF ImportInv, Importing
  <2>3. CASE main.header
    <3>1. /\ append' = [existing |-> main, additions |-> append.additions]
          /\ phase' = "replacing" /\ UNCHANGED <<watchlist, todo>>
      BY <1>7, <2>3 DEF ReadMain
    <3>2. append'.existing = main /\ append'.additions = append.additions
      BY <3>1
    <3>3. FilesOK' /\ StampsOK'
      BY <1>1, <2>1, <3>1, <3>2 DEF ImportInv, FilesOK, StampsOK
    <3>4. Held' = Held /\ HeldOK
      BY <2>1, <3>1 DEF Held, ImportInv
    <3>5. HeldOK'
      BY <1>1, <3>1, <3>2, <3>4 DEF HeldOK
    <3>6. DOMAIN watchlist \subseteq Listed(main) \cup removed
      BY <2>1 DEF ImportInv, Importing
    <3>7. ReplacingOK'
      BY <1>1, <2>1, <3>1, <3>2, <3>6 DEF ImportInv, ReplacingOK
    <3> QED
      BY <1>1, <2>1, <3>1, <3>3, <3>5, <3>6, <3>7 DEF ImportInv, Importing
  <2> QED
    BY <2>2, <2>3
<1> QED
  BY <1>2, <1>3, <1>4, <1>5, <1>6, <1>7 DEF Import, ImportStep

(* Whatever is put into the folder, as long as nothing delivered leaves it. *)
LEMMA ArrivalKeeps ==
  ASSUME ImportInv, Delivered, FilesOK', StampsOK',
         UNCHANGED <<main, removed, phase, importer>>,
         DOMAIN folder \cap DOMAIN delivered \subseteq DOMAIN folder',
         window' = "writing" /\ disk' = {} => saved' \cap DOMAIN delivered' = {}
  PROVE  ImportInv'
<1> DEFINE changed == {n \in DOMAIN folder' : n \in DOMAIN folder => folder'[n] # folder[n]}
<1>1. \A n \in DOMAIN delivered' :
        \/ /\ n \in changed \ Held /\ ~Unreadable(folder'[n], TRUE)
           /\ delivered'[n] = folder'[n]
        \/ n \in DOMAIN delivered \ changed /\ delivered'[n] = delivered[n]
  BY DEF Delivered
<1>2. \A n \in DOMAIN folder' \ changed : n \in DOMAIN folder /\ folder'[n] = folder[n]
  OBVIOUS
<1>3. changed \subseteq DOMAIN folder'
  OBVIOUS
<1> HIDE DEF changed
<1>4. \A n \in DOMAIN delivered' : ~Unreadable(delivered'[n], TRUE)
  BY <1>1 DEF ImportInv
<1>5. \A n \in DOMAIN delivered' \cap DOMAIN folder' : delivered'[n] = folder'[n]
  BY <1>1, <1>2 DEF ImportInv
<1>6. \A n \in DOMAIN delivered' \ DOMAIN folder' :
        n \in DOMAIN delivered \ DOMAIN folder /\ delivered'[n] = delivered[n]
  BY <1>1, <1>3
<1>7. Held' = Held
  BY DEF Held, importer
<1>8. \A n \in DOMAIN delivered' \cap Held :
        n \in DOMAIN delivered \cap Held /\ delivered'[n] = delivered[n]
  BY <1>1
<1> QED
  BY <1>4, <1>5, <1>6, <1>7, <1>8 DEF ImportInv, ReplacingOK, HeldOK, importer, Importing

LEMMA WithFacts ==
  ASSUME NEW n, NEW file, folder' = With(n, file)
  PROVE  /\ DOMAIN folder' = DOMAIN folder \cup {n}
         /\ folder'[n] = file
         /\ \A m \in DOMAIN folder \ {n} : folder'[m] = folder[m]
BY DEF With

(* A new file under the next timestamp.                                    *)
LEMMA NewFileKeeps ==
  ASSUME ImportInv, \/ \E file \in HandFiles : PutByHand(file)
                    \/ UseTool /\ Create
  PROVE  ImportInv'
<1>1. stamp \in Nat /\ stamp \in Stamps /\ stamp' = stamp + 1 /\ Delivered
  BY DEF ImportInv, StampsOK, PutByHand, UseTool, Create
<1>2. UNCHANGED <<main, removed, phase, importer>>
  BY DEF PutByHand, UseTool
<1>3. \A n \in DOMAIN folder \cup DOMAIN delivered \cup saved : n \in Nat /\ n < stamp
  BY DEF ImportInv, StampsOK
<1>4. ASSUME NEW file \in File, folder' = With(stamp, file) \/ UNCHANGED folder
      PROVE  /\ DOMAIN folder \subseteq DOMAIN folder'
             /\ DOMAIN folder' \subseteq DOMAIN folder \cup {stamp}
             /\ \A n \in DOMAIN folder' : folder'[n] \in File
             /\ DOMAIN delivered' \subseteq DOMAIN delivered \cup {stamp}
             /\ Unreadable(file, TRUE) => DOMAIN delivered' \subseteq DOMAIN delivered
  <2>1. /\ DOMAIN folder \subseteq DOMAIN folder'
        /\ DOMAIN folder' \subseteq DOMAIN folder \cup {stamp}
        /\ \A n \in DOMAIN folder : folder'[n] = folder[n]
        /\ \A n \in DOMAIN folder' \ DOMAIN folder : n = stamp /\ folder'[n] = file
    <3>1. stamp \notin DOMAIN folder
      BY <1>1, <1>3
    <3> QED
      BY <1>4, <3>1, WithFacts
  <2>2. \A n \in DOMAIN folder' : folder'[n] \in File
    BY <2>1 DEF ImportInv, FilesOK
  <2>3. \A n \in DOMAIN delivered' \ DOMAIN delivered :
          n \in DOMAIN folder' \ DOMAIN folder /\ ~Unreadable(folder'[n], TRUE)
    BY <1>1, <2>1 DEF Delivered
  <2> QED
    BY <2>1, <2>2, <2>3
<1>5. CASE \E file \in HandFiles : PutByHand(file)
  <2>1. PICK file \in HandFiles : PutByHand(file)
    BY <1>5
  <2>2. file \in File /\ folder' = With(stamp, file)
        /\ UNCHANGED <<window, saved, bytes, disk, upload>>
    BY <2>1, SwingTradingAssumption DEF PutByHand, tool
  <2>3. FilesOK'
    BY <1>2, <1>4, <2>2 DEF ImportInv, FilesOK, importer
  <2>4. StampsOK'
    <3>1. DOMAIN folder' \cup DOMAIN delivered' \cup saved'
            \subseteq DOMAIN folder \cup DOMAIN delivered \cup saved \cup {stamp}
      BY <1>4, <2>2
    <3> QED
      BY <1>1, <1>3, <3>1 DEF StampsOK
  <2>5. window' = "writing" /\ disk' = {} => saved' \cap DOMAIN delivered' = {}
    <3>1. stamp \notin saved
      BY <1>1, <1>3
    <3> QED
      BY <1>4, <2>2, <3>1 DEF ImportInv
  <2> QED
    BY <1>1, <1>2, <1>4, <2>2, <2>3, <2>4, <2>5, ArrivalKeeps
<1>6. CASE UseTool /\ Create
  <2>1. PICK here \in BOOLEAN, table \in Tables : CreateFile(stamp, here, table)
    BY <1>6 DEF Create
  <2>2. /\ saved' = {stamp} /\ UNCHANGED upload
        /\ bytes' = [header |-> TRUE, rows |-> table]
        /\ disk' = {} \/ disk' = {EmptyFile}
        /\ folder' = With(stamp, EmptyFile) \/ UNCHANGED folder
    BY <2>1 DEF CreateFile
  <2>3. EmptyFile \in File /\ Unreadable(EmptyFile, TRUE)
    BY EmptyIsFile DEF EmptyFile, Unreadable
  <2>4. FilesOK'
    <3>1. bytes' \in File
      BY <2>2, WatchlistToolAssumption DEF File
    <3> QED
      BY <1>2, <1>4, <2>2, <2>3, <3>1 DEF ImportInv, FilesOK, importer
  <2>5. StampsOK'
    <3>1. DOMAIN folder' \cup DOMAIN delivered' \cup saved'
            \subseteq DOMAIN folder \cup DOMAIN delivered \cup saved \cup {stamp}
      BY <1>4, <2>2, <2>3
    <3> QED
      BY <1>1, <1>3, <3>1 DEF StampsOK
  <2>6. saved' \cap DOMAIN delivered' = {}
    <3>1. stamp \notin DOMAIN delivered
      BY <1>1, <1>3
    <3> QED
      BY <1>4, <2>2, <2>3, <3>1
  <2> QED
    BY <1>1, <1>2, <1>4, <2>2, <2>3, <2>4, <2>5, <2>6, ArrivalKeeps
<1> QED
  BY <1>5, <1>6

(* The other operations of the builder.                                    *)
LEMMA ToolKeeps ==
  ASSUME ImportInv, UseTool
  PROVE  ImportInv'
<1>1. UNCHANGED <<main, removed, phase, importer>> /\ Delivered
  BY DEF UseTool
<1>2. CASE Create
  BY <1>2, NewFileKeeps
<1>3. CASE /\ ChangeTable \/ CloseFile \/ ReadBack \/ WriteFails \/ ConfirmUpload
                \/ CopyUpload \/ RenameUpload \/ UploadFails \/ (\E file \in EditedFile : EditFile(file))
           /\ UNCHANGED stamp
  <2>1. /\ window' # "writing"
        /\ saved' \in {saved, {}} /\ bytes' \in {bytes, EmptyFile} \cup disk
        /\ upload' \in {upload, EmptyFile} \cup disk
        /\ disk' \subseteq disk \cup {bytes} \cup EditedFile
    BY <1>3 DEF ChangeTable, CloseFile, ReadBack, WriteFails, ConfirmUpload, CopyUpload,
                RenameUpload, UploadFails, EditFile
  <2>2. \/ UNCHANGED folder
        \/ \E n \in saved : folder' = With(n, bytes) \/ folder' = With(n, upload)
        \/ /\ window = "writing" /\ disk = {}
           /\ folder' = [n \in DOMAIN folder \ saved |-> folder[n]]
    BY <1>3 DEF ChangeTable, CloseFile, ReadBack, WriteFails, ConfirmUpload, CopyUpload,
                RenameUpload, UploadFails, EditFile
  <2>3. /\ DOMAIN folder' \subseteq DOMAIN folder \cup saved
        /\ \A n \in DOMAIN folder' : folder'[n] \in File
        /\ DOMAIN folder \cap DOMAIN delivered \subseteq DOMAIN folder'
    <3>1. CASE UNCHANGED folder
      BY <3>1 DEF ImportInv, FilesOK
    <3>2. ASSUME NEW n \in saved, NEW file \in File, folder' = With(n, file)
          PROVE  /\ DOMAIN folder' = DOMAIN folder \cup {n}
                 /\ \A m \in DOMAIN folder' : folder'[m] \in File
      <4>1. /\ DOMAIN folder' = DOMAIN folder \cup {n} /\ folder'[n] = file
            /\ \A m \in DOMAIN folder \ {n} : folder'[m] = folder[m]
        BY <3>2, WithFacts
      <4> QED
        BY <4>1 DEF ImportInv, FilesOK
    <3>3. CASE \E n \in saved : folder' = With(n, bytes) \/ folder' = With(n, upload)
      BY <3>2, <3>3 DEF ImportInv, FilesOK
    <3>4. CASE /\ window = "writing" /\ disk = {}
               /\ folder' = [n \in DOMAIN folder \ saved |-> folder[n]]
      BY <3>4 DEF ImportInv, FilesOK
    <3> QED
      BY <2>2, <3>1, <3>3, <3>4
  <2>4. FilesOK'
    <3>1. bytes' \in File /\ upload' \in File /\ disk' \subseteq File
      BY <2>1, EmptyIsFile, SwingTradingAssumption DEF ImportInv, FilesOK
    <3> QED
      BY <1>1, <2>3, <3>1 DEF ImportInv, FilesOK, importer
  <2>5. DOMAIN delivered' \subseteq DOMAIN delivered \cup DOMAIN folder'
    BY <1>1 DEF Delivered
  <2>6. StampsOK'
    BY <1>3, <2>1, <2>3, <2>5 DEF ImportInv, StampsOK
  <2> QED
    BY <1>1, <2>1, <2>3, <2>4, <2>6, ArrivalKeeps
<1> QED
  BY <1>2, <1>3 DEF UseTool

(* The owner edits the main file, or takes an unreadable import away.      *)
LEMMA OwnerKeeps ==
  ASSUME ImportInv, \/ \E file \in MainFiles : EditMain(file)
                    \/ \E n \in Stamps : TakeAway(n)
  PROVE  ImportInv'
<1>1. CASE \E file \in MainFiles : EditMain(file)
  <2>1. PICK file \in MainFiles : EditMain(file)
    BY <1>1
  <2>2. /\ main' = file /\ file \in File
        /\ removed' = removed \cup (Listed(main) \ Listed(file))
        /\ UNCHANGED <<folder, stamp, delivered, phase, watchlist, todo, append,
                       window, saved, bytes, disk, upload>>
    BY <2>1, SwingTradingAssumption DEF EditMain, importer, tool
  <2>3. /\ Listed(main) \cup removed \subseteq Listed(main') \cup removed'
        /\ removed \subseteq removed'
    BY <2>2
  <2>4. FilesOK' /\ StampsOK' /\ Held' = Held
    BY <2>2 DEF ImportInv, FilesOK, StampsOK, Held
  <2>5. /\ phase = "replacing" => ReplacingOK'
        /\ phase \in {"reading", "replacing"} => HeldOK'
    BY <2>2, <2>3, <2>4 DEF ImportInv, ReplacingOK, HeldOK
  <2> QED
    BY <2>2, <2>3, <2>4, <2>5 DEF ImportInv, Importing
<1>2. CASE \E n \in Stamps : TakeAway(n)
  <2>1. PICK n \in Stamps : TakeAway(n)
    BY <1>2
  <2>2. /\ n \in DOMAIN folder /\ Unreadable(folder[n], TRUE)
        /\ DOMAIN folder' = DOMAIN folder \ {n}
        /\ \A m \in DOMAIN folder' : folder'[m] = folder[m]
        /\ UNCHANGED <<main, stamp, delivered, removed, phase, watchlist, todo, append,
                       window, saved, bytes, disk, upload>>
    BY <2>1 DEF TakeAway, importer, tool
  <2>3. n \notin DOMAIN delivered
    BY <2>2 DEF ImportInv
  <2>4. FilesOK' /\ StampsOK' /\ Held' = Held
    BY <2>2 DEF ImportInv, FilesOK, StampsOK, Held
  <2>5. DOMAIN delivered \ DOMAIN folder' = DOMAIN delivered \ DOMAIN folder
    BY <2>2, <2>3
  <2>6. /\ phase = "replacing" => ReplacingOK'
        /\ phase \in {"reading", "replacing"} => HeldOK'
    BY <2>2, <2>4, <2>5 DEF ImportInv, ReplacingOK, HeldOK
  <2> QED
    BY <2>2, <2>4, <2>5, <2>6 DEF ImportInv, Importing
<1> QED
  BY <1>1, <1>2

LEMMA StepKeepsImports ==
  ASSUME ImportInv, [Next]_svars
  PROVE  ImportInv'
<1>1. CASE UNCHANGED svars
  BY <1>1, NoImportKeeps DEF svars, disk_vars, tool, importer
<1>2. CASE Start \/ Import
  BY <1>2, ImportKeeps
<1>3. CASE \/ EnterLoop \/ Close \/ Interrupt \/ BeginPass \/ SetupFails \/ Refresh
           \/ LateSetupFails \/ EndPass \/ BrokerFailure
  <2>1. UNCHANGED <<disk_vars, tool, append>> /\ ~Importing'
    BY <1>3 DEF EnterLoop, Close, Interrupt, BeginPass, SetupFails, Refresh, LateSetupFails,
                EndPass, BrokerFailure, Leave, Importing, importer, runner, trading
  <2> QED
    BY <2>1, NoImportKeeps
<1>4. CASE \E s \in Symbols : ExitSymbol(s) \/ EnterSymbol(s) \/ PassSymbol(s)
  BY <1>4, NoImportKeeps DEF ExitSymbol, EnterSymbol, PassSymbol, Processing
<1>5. CASE Midnight
  BY <1>5, NoImportKeeps DEF Midnight
<1>6. CASE UseTool
  BY <1>6, ToolKeeps
<1>7. CASE \/ \E file \in MainFiles : EditMain(file)
           \/ \E n \in Stamps : TakeAway(n)
  BY <1>7, OwnerKeeps
<1>8. CASE \E file \in HandFiles : PutByHand(file)
  BY <1>8, NewFileKeeps
<1> QED
  BY <1>1, <1>2, <1>3, <1>4, <1>5, <1>6, <1>7, <1>8 DEF Next, Process

LEMMA InitImports == Init => ImportInv
<1> SUFFICES ASSUME Init PROVE ImportInv
  OBVIOUS
<1>1. /\ main \in MainFiles /\ DOMAIN folder = {} /\ DOMAIN delivered = {}
      /\ phase = "down" /\ append = NoAppend
      /\ window = "idle" /\ saved = {} /\ bytes = EmptyFile /\ disk = {} /\ upload = EmptyFile
      /\ stamp \in Stamps \cup {1 + Cardinality(Stamps)}
  BY DEF Init, ImportInit, ToolInit
<1>2. FilesOK
  BY <1>1, EmptyIsFile, SwingTradingAssumption DEF FilesOK
<1>3. stamp \in Nat
  <2>1. Cardinality(Stamps) \in Nat
    BY SwingTradingAssumption, FS_CardinalityType
  <2> QED
    BY <1>1, <2>1, SwingImportAssumption
<1> QED
  BY <1>1, <1>2, <1>3 DEF ImportInv, StampsOK, Importing

(* No symbol of a readable import gets lost: it is in its file until it is *)
(* in the main watchlist - whichever file operation fails or is cut short, *)
(* and whatever the owner and the builder do to the files meanwhile.       *)
THEOREM ImportsAlways == Spec => []ImportsSurvive
<1>1. ImportInv => ImportsSurvive
  BY DEF ImportInv, ImportsSurvive
<1> QED
  BY <1>1, InitImports, StepKeepsImports, PTL DEF Spec

-----------------------------------------------------------------------------
(* An import leaves the rows of the main file as they are.                 *)

Distinct(rows) == \A j, k \in DOMAIN rows : j # k => rows[j].symbol # rows[k].symbol

CleanInv ==
  /\ edits \in Nat
  /\ ~careless => ~Unreadable(main, FALSE)
  /\ Importing /\ ~careless => Listed(main) \subseteq DOMAIN watchlist
  /\ phase = "replacing" /\ ~careless => append.existing = main
  /\ phase \in {"reading", "replacing"} /\ ~careless =>
       /\ Distinct(append.additions)
       /\ \A k \in DOMAIN append.additions :
            /\ append.additions[k].price # 0
            /\ append.additions[k].symbol \notin DOMAIN watchlist

(* As many symbols as rows: no symbol has two rows.                        *)
LEMMA DuplicateRows ==
  ASSUME NEW file \in File
  PROVE  Cardinality(Listed(file)) = Len(file.rows) <=> Distinct(file.rows)
<1> DEFINE D == DOMAIN file.rows
           f == [i \in D |-> file.rows[i].symbol]
<1>1. IsFiniteSet(D) /\ Cardinality(D) = Len(file.rows)
  <2>1. D = 1..Len(file.rows) /\ Len(file.rows) \in Nat
    BY FileFacts
  <2> HIDE DEF D
  <2> QED
    BY <2>1, FS_Interval
<1>2. f \in Surjection(D, Listed(file))
  BY DEF Surjection, Listed
<1>3. Cardinality(Listed(file)) = Cardinality(D) <=> f \in Injection(D, Listed(file))
  <2> HIDE DEF D, f
  <2> QED
    BY <1>1, <1>2, FS_Surjection
<1>4. f \in Injection(D, Listed(file)) <=> Distinct(file.rows)
  BY <1>2 DEF Injection, IsInjective, Surjection, Distinct
<1> QED
  BY <1>1, <1>3, <1>4

LEMMA AppendedReadable ==
  ASSUME NEW file \in File, ~Unreadable(file, FALSE),
         NEW rows \in Seq(Row), Distinct(rows),
         \A k \in DOMAIN rows : rows[k].price # 0 /\ rows[k].symbol \notin Listed(file)
  PROVE  LET f == [file EXCEPT !.rows = @ \o rows] IN
         /\ ~Unreadable(f, FALSE)
         /\ \A s \in Listed(file) : s \in Listed(f) /\ Triggers(f)[s] = Triggers(file)[s]
<1> DEFINE all == file.rows \o rows
           f   == [file EXCEPT !.rows = @ \o rows]
           n   == Len(file.rows)
<1>1. /\ file.rows \in Seq(Row) /\ n \in Nat /\ DOMAIN file.rows = 1..n
      /\ file.header = TRUE /\ \A i \in DOMAIN file.rows : file.rows[i].price # 0
      /\ Distinct(file.rows)
  BY FileFacts, DuplicateRows DEF Unreadable, File
<1>2. f \in File /\ Listed(f) = Listed(file) \cup RowSymbols(rows)
  BY Appended
<1>3. f.rows = all /\ f.header = TRUE
  BY <1>1 DEF File
<1>4. /\ \A k \in DOMAIN file.rows : k \in DOMAIN all /\ all[k] = file.rows[k]
      /\ \A k \in DOMAIN all : \/ k \in DOMAIN file.rows /\ all[k] = file.rows[k]
                               \/ /\ k - n \in DOMAIN rows /\ k \in Nat
                                  /\ all[k] = rows[k - n]
  BY <1>1
<1> HIDE DEF f, all, n
<1>5. \A k \in DOMAIN file.rows : file.rows[k].symbol \in Listed(file)
  BY DEF Listed
<1>6. Distinct(all)
  <2> SUFFICES ASSUME NEW j \in DOMAIN all, NEW k \in DOMAIN all, j # k
               PROVE  all[j].symbol # all[k].symbol
    BY DEF Distinct
  <2>1. CASE j \in DOMAIN file.rows /\ all[j] = file.rows[j]
    BY <1>1, <1>4, <1>5, <2>1 DEF Distinct
  <2>2. CASE j - n \in DOMAIN rows /\ j \in Nat /\ all[j] = rows[j - n]
    <3>1. CASE k \in DOMAIN file.rows /\ all[k] = file.rows[k]
      BY <1>5, <2>2, <3>1
    <3>2. CASE k - n \in DOMAIN rows /\ k \in Nat /\ all[k] = rows[k - n]
      <4>1. j - n # k - n
        BY <1>1, <2>2, <3>2
      <4> QED
        BY <2>2, <3>2, <4>1 DEF Distinct
    <3> QED
      BY <1>4, <3>1, <3>2
  <2> QED
    BY <1>4, <2>1, <2>2
<1>7. ~Unreadable(f, FALSE)
  <2>1. \A k \in DOMAIN all : all[k].price # 0
    BY <1>1, <1>4
  <2> QED
    BY <1>2, <1>3, <1>6, <2>1, DuplicateRows DEF Unreadable
<1>8. ASSUME NEW s \in Listed(file)
      PROVE  s \in Listed(f) /\ Triggers(f)[s] = Triggers(file)[s]
  <2>1. s \in Listed(f)
    BY <1>2
  <2>2. FirstRow(file, s) \in DOMAIN file.rows /\ file.rows[FirstRow(file, s)].symbol = s
    BY FirstRowFacts
  <2>3. FirstRow(f, s) \in DOMAIN all /\ all[FirstRow(f, s)].symbol = s
    BY <1>2, <1>3, <2>1, FirstRowFacts
  <2>4. FirstRow(f, s) = FirstRow(file, s)
    BY <1>4, <1>6, <2>2, <2>3 DEF Distinct
  <2> QED
    BY <1>3, <1>4, <2>1, <2>2, <2>4 DEF Triggers
<1> QED
  BY <1>7, <1>8 DEF f

LEMMA ImportStaysClean ==
  ASSUME ImportInv, CleanInv, Import
  PROVE  CleanInv'
<1>1. UNCHANGED <<edits, careless>>
  BY DEF Import
<1>2. CASE ImportFails \/ SourceGone \/ FinishImport
  BY <1>1, <1>2
     DEF ImportFails, SourceGone, FinishImport, ImportEnds, CleanInv, Importing
<1>3. CASE ReadSource
  <2> DEFINE n == Head(todo)
             rows == Additions(folder[n], watchlist)
  <2>1. UNCHANGED <<main, folder>> /\ phase = "importing"
    BY <1>3 DEF ReadSource
  <2>2. CASE n \notin DOMAIN folder
    BY <1>1, <1>3, <2>1, <2>2 DEF ReadSource, CleanInv, Importing
  <2>3. CASE n \in DOMAIN folder /\ Unreadable(folder[n], TRUE)
    BY <1>1, <1>3, <2>1, <2>3 DEF ReadSource, ImportEnds, CleanInv, Importing
  <2>4. CASE n \in DOMAIN folder /\ ~Unreadable(folder[n], TRUE)
    <3>1. /\ append'.additions = rows
          /\ phase' = IF rows = <<>> THEN "deleting" ELSE "reading"
          /\ UNCHANGED <<watchlist, todo>>
      BY <1>3, <2>4 DEF ReadSource, AfterSource, NoAppend
    <3>2. folder[n] \in File /\ \A i \in DOMAIN folder[n].rows : folder[n].rows[i].price # 0
      BY <2>4 DEF ImportInv, FilesOK, Unreadable
    <3>3. /\ Distinct(rows)
          /\ \A k \in DOMAIN rows : /\ rows[k].price # 0
                                    /\ rows[k].symbol \notin DOMAIN watchlist
      <4> HIDE DEF n
      <4> QED
        BY <3>2, AdditionsFacts DEF Distinct
    <3> HIDE DEF rows, n
    <3> QED
      BY <1>1, <2>1, <3>1, <3>3 DEF CleanInv, Importing
  <2> QED
    BY <2>2, <2>3, <2>4
<1>4. CASE ReplaceMain
  <2>1. /\ phase = "replacing" /\ phase' = "deleting"
        /\ main' = [append.existing EXCEPT !.rows = @ \o append.additions]
        /\ watchlist' = WithAdditions
    BY <1>4 DEF ReplaceMain
  <2>2. DOMAIN watchlist' = DOMAIN watchlist \cup RowSymbols(append.additions)
    BY <2>1 DEF WithAdditions, Extended, Triggers, Listed, RowSymbols
  <2>3. Listed(main') = Listed(append.existing) \cup RowSymbols(append.additions)
    BY <2>1, Appended DEF ImportInv, FilesOK
  <2>4. ~careless => ~Unreadable(main', FALSE)
    BY <2>1, AppendedReadable DEF CleanInv, ImportInv, FilesOK, Importing
  <2> QED
    BY <1>1, <2>1, <2>2, <2>3, <2>4 DEF CleanInv, Importing
<1>5. CASE DeleteSource
  BY <1>1, <1>5 DEF DeleteSource, CleanInv, Importing
<1>6. CASE ReadMain
  <2>1. UNCHANGED main /\ phase = "reading"
    BY <1>6 DEF ReadMain
  <2>2. CASE ~main.header
    BY <1>1, <1>6, <2>1, <2>2 DEF ReadMain, ImportEnds, CleanInv, Importing
  <2>3. CASE main.header
    <3>1. /\ append' = [existing |-> main, additions |-> append.additions]
          /\ phase' = "replacing" /\ UNCHANGED <<watchlist, todo>>
      BY <1>6, <2>3 DEF ReadMain
    <3>2. append'.existing = main /\ append'.additions = append.additions
      BY <3>1
    <3> QED
      BY <1>1, <2>1, <3>1, <3>2 DEF CleanInv, Importing
  <2> QED
    BY <2>2, <2>3
<1> QED
  BY <1>2, <1>3, <1>4, <1>5, <1>6 DEF Import, ImportStep

LEMMA StepStaysClean ==
  ASSUME ImportInv, CleanInv, [Next]_svars
  PROVE  CleanInv'
<1>1. CASE UNCHANGED <<main, edits, careless>>
           /\ (UNCHANGED <<phase, importer>> \/ ~Importing')
  BY <1>1 DEF CleanInv, Importing, importer
<1>2. CASE Start
  <2>1. /\ UNCHANGED <<main, edits>> /\ careless' = FALSE /\ phase' = "importing"
        /\ watchlist' = Triggers(main) /\ ~Unreadable(main, FALSE)
    BY <1>2, Zenon DEF Start, StartImport
  <2>2. DOMAIN watchlist' = Listed(main)
    BY <2>1 DEF Triggers
  <2> QED
    BY <2>1, <2>2 DEF CleanInv
<1>3. CASE Import
  BY <1>3, ImportStaysClean
<1>4. ASSUME NEW file \in MainFiles, EditMain(file)
      PROVE  CleanInv'
  <2>1. /\ edits' = edits + 1 /\ main' = file /\ phase' = phase
        /\ careless' = (Importing \/ Unreadable(file, FALSE))
    BY <1>4 DEF EditMain
  <2>2. phase \in {"reading", "replacing"} => Importing
    BY DEF Importing
  <2>3. ~careless' => /\ phase' \notin {"reading", "replacing"} /\ ~Importing'
                      /\ ~Unreadable(main', FALSE)
    BY <2>1, <2>2 DEF Importing
  <2>4. edits' \in Nat
    BY <2>1 DEF CleanInv
  <2> QED
    BY <2>3, <2>4 DEF CleanInv
<1>5. CASE \/ EnterLoop \/ Close \/ Interrupt \/ BeginPass \/ SetupFails \/ Refresh
           \/ LateSetupFails \/ EndPass \/ BrokerFailure
  BY <1>1, <1>5 DEF EnterLoop, Close, Interrupt, BeginPass, SetupFails, Refresh, LateSetupFails,
                EndPass, BrokerFailure, Leave, Importing, importer, runner, trading, disk_vars
<1>6. CASE \E s \in Symbols : ExitSymbol(s) \/ EnterSymbol(s) \/ PassSymbol(s)
  BY <1>1, <1>6 DEF ExitSymbol, EnterSymbol, PassSymbol, Processing, disk_vars
<1>7. CASE Midnight
  BY <1>1, <1>7 DEF Midnight, disk_vars
<1>8. CASE UseTool
  <2>1. UNCHANGED <<main, careless, phase, importer>> /\ edits' \in {edits, edits + 1}
    BY <1>8 DEF UseTool, Create
  <2>2. edits' \in Nat
    BY <2>1 DEF CleanInv
  <2>3. UNCHANGED <<main, careless, phase, watchlist, append>>
    BY <2>1 DEF importer
  <2> QED
    BY <2>2, <2>3 DEF CleanInv, Importing
<1>9. CASE \/ \E file \in HandFiles : PutByHand(file)
           \/ \E n \in Stamps : TakeAway(n)
  BY <1>1, <1>9 DEF PutByHand, TakeAway
<1>10. CASE UNCHANGED svars
  BY <1>1, <1>10 DEF svars, disk_vars
<1> QED
  BY <1>2, <1>3, <1>4, <1>5, <1>6, <1>7, <1>8, <1>9, <1>10 DEF Next, Process

(* As long as the owner leaves a readable main file alone, nothing makes   *)
(* it unreadable, drops one of its rows, or changes a trigger price.       *)
THEOREM MainPreserved == Spec => ImportPreservesMain
<1>1. Init => ImportInv /\ CleanInv
  <2> SUFFICES ASSUME Init PROVE CleanInv
    BY InitImports
  <2>1. edits \in Nat
    BY SwingTradingAssumption DEF Init
  <2> QED
    BY <2>1 DEF Init, ImportInit, CleanInv, Importing
<1>2. ImportInv /\ CleanInv /\ [Next]_svars => (ImportInv /\ CleanInv)'
  BY StepKeepsImports, StepStaysClean
<1>3. ASSUME ImportInv, CleanInv, [Next]_svars, edits' = edits, ~careless
      PROVE  /\ ~Unreadable(main', FALSE)
             /\ \A s \in Listed(main) :
                  s \in Listed(main') /\ Triggers(main')[s] = Triggers(main)[s]
  <2>1. CASE UNCHANGED main
    BY <1>3, <2>1 DEF CleanInv
  <2>2. CASE ReplaceMain
    <3> DEFINE rows == append.additions
    <3>1. main' = [append.existing EXCEPT !.rows = @ \o rows] /\ phase = "replacing"
      BY <2>2 DEF ReplaceMain
    <3>2. Importing
      BY <3>1 DEF Importing
    <3>3. append.existing = main /\ Listed(main) \subseteq DOMAIN watchlist
      BY <1>3, <3>1, <3>2 DEF CleanInv
    <3>4. /\ main \in File /\ rows \in Seq(Row) /\ Distinct(rows) /\ ~Unreadable(main, FALSE)
          /\ \A k \in DOMAIN rows : rows[k].price # 0 /\ rows[k].symbol \notin Listed(main)
      BY <1>3, <3>1, <3>2, <3>3 DEF CleanInv, ImportInv, FilesOK
    <3>5. main' = [main EXCEPT !.rows = @ \o rows]
      BY <3>1, <3>3
    <3> HIDE DEF rows
    <3> QED
      BY <3>4, <3>5, AppendedReadable
  <2>3. ~ \E file \in MainFiles : EditMain(file)
    <3>1. edits \in Nat
      BY <1>3 DEF CleanInv
    <3>2. edits + 1 # edits
      BY <3>1
    <3> QED
      BY <1>3, <3>2 DEF EditMain
  <2>4. UNCHANGED main \/ ReplaceMain
    <3>1. Import => UNCHANGED main \/ ReplaceMain
      BY DEF Import, ImportStep, ImportFails, ReadSource, ReadMain, DeleteSource, SourceGone,
             FinishImport
    <3>2. Start => UNCHANGED main
      BY Zenon DEF Start, StartImport
    <3>3. Process /\ ~Start /\ ~Import => UNCHANGED main
      BY DEF Process, EnterLoop, Close, Interrupt, BeginPass, SetupFails, Refresh,
             LateSetupFails, EndPass, BrokerFailure, Leave, ExitSymbol, EnterSymbol,
             PassSymbol, Processing, disk_vars
    <3>4. UseTool \/ Midnight \/ (\E file \in HandFiles : PutByHand(file))
            \/ (\E n \in Stamps : TakeAway(n)) \/ UNCHANGED svars => UNCHANGED main
      BY DEF UseTool, Midnight, PutByHand, TakeAway, svars, disk_vars
    <3> QED
      BY <1>3, <2>3, <3>1, <3>2, <3>3, <3>4 DEF Next
  <2> QED
    BY <2>1, <2>2, <2>4
<1>4. ImportInv /\ CleanInv /\ [Next]_svars =>
        [edits' = edits /\ ~careless =>
           /\ ~Unreadable(main', FALSE)
           /\ \A s \in Listed(main) :
                s \in Listed(main') /\ Triggers(main')[s] = Triggers(main)[s]]_svars
  BY <1>3
<1> QED
  BY <1>1, <1>2, <1>4, PTL DEF Spec, ImportPreservesMain

=============================================================================

------------------------ MODULE TradeManagerProofs -------------------------
(***************************************************************************)
(* Proofs about TradeManager for every value of its constants.             *)
(*                                                                         *)
(* IInv is inductive.  It needs its three parts together: an exit order    *)
(* has a positive quantity (TypeOK) only because an OPEN position is not   *)
(* empty (StatusMatchesQuantity), and an exit that closes a position can   *)
(* drop its levels only because only held positions have any.              *)
(*                                                                         *)
(* The managed orders implement OrderLifecycle, and every filled order has *)
(* one trade.  A fill could only shrink, or be booked again, if a report   *)
(* were older than what is recorded.  BooksAgree rules that out: what      *)
(* AutoTick has recorded is at most what the inbox reports, and that at    *)
(* most what the broker executed.                                          *)
(***************************************************************************)
EXTENDS TradeManagerProps, TLAPS

Raised == raised \in {"none"} \cup Exceptions

(* What the fills change, apart from the risk state.                       *)
PositionsOK ==
  /\ positions \in [Symbols -> Position]
  /\ exit_levels \subseteq Symbols
  /\ Raised
  /\ StatusMatchesQuantity
  /\ HeldIsProtected

IInv == TypeOK /\ StatusMatchesQuantity /\ HeldIsProtected

-----------------------------------------------------------------------------
(* The helpers.                                                            *)

(* The cumulative fill of an order is a natural number.                    *)
LEMMA FilledQuantityType ==
  ASSUME NEW o \in Order, NEW status
  PROVE  FilledQuantity(o, status) \in Nat
BY DEF FilledQuantity, Order

(* The risk methods keep the types of the risk state.                      *)
LEMMA RiskTypes ==
  ASSUME NEW r \in RiskState
  PROVE  /\ RecordEntry(r) \in RiskState
         /\ \A pnl \in Int : RecordRealizedPnl(r, pnl) \in RiskState
<1>1. ASSUME NEW s \in RiskState PROVE ActivateKillSwitch(s) \in RiskState
  BY <1>1 DEF RiskState, ActivateKillSwitch
<1>2. [r EXCEPT !.trade_count = @ + 1] \in RiskState
  BY DEF RiskState
<1>3. RecordEntry(r) \in RiskState
  BY <1>1, <1>2 DEF RecordEntry
<1>4. ASSUME NEW pnl \in Int PROVE RecordRealizedPnl(r, pnl) \in RiskState
  <2>1. [r EXCEPT !.daily_pnl = @ + pnl] \in RiskState
    BY <1>4 DEF RiskState
  <2> QED
    BY <1>1, <2>1 DEF RecordRealizedPnl, CheckDailyLimits
<1> QED
  BY <1>3, <1>4

-----------------------------------------------------------------------------
(* Fills.                                                                  *)

(* An entry fill keeps positions and exit levels in step.                  *)
LEMMA EntryFillKeepsPositions ==
  ASSUME PositionsOK, NEW o \in Order, NEW q \in Nat \ {0}, ApplyEntryFill(o, q)
  PROVE  PositionsOK'
<1> DEFINE held == positions[o.symbol]
           signed == Signed(o, q)
<1>1. /\ o.symbol \in Symbols
      /\ signed \in Int /\ signed # 0
      /\ held \in Position
  BY DEF Order, Signed, PositionsOK
<1>2. CASE raised' = "ValueError" /\ UNCHANGED <<positions, exit_levels>>
  BY <1>2 DEF PositionsOK, Raised, Exceptions, StatusMatchesQuantity, HeldIsProtected, Active
<1>3. CASE /\ held.quantity = 0 \/ (held.quantity > 0) = (signed > 0)
           /\ positions' = [positions EXCEPT ![o.symbol] =
                [quantity |-> held.quantity + signed, status |-> "OPEN"]]
           /\ exit_levels' = exit_levels \cup {o.symbol}
           /\ UNCHANGED raised
  <2>1. held.quantity + signed \in Int /\ held.quantity + signed # 0
    BY <1>1, <1>3 DEF Position
  <2>2. positions' \in [Symbols -> Position]
    BY <1>1, <1>3, <2>1 DEF PositionsOK, Position
  <2>3. \A s \in Symbols :
          positions'[s] = IF s = o.symbol
                          THEN [quantity |-> held.quantity + signed, status |-> "OPEN"]
                          ELSE positions[s]
    BY <1>1, <1>3 DEF PositionsOK
  <2>4. StatusMatchesQuantity'
    BY <2>1, <2>3 DEF PositionsOK, StatusMatchesQuantity, Active
  <2>5. HeldIsProtected'
    BY <1>3, <2>1, <2>3 DEF PositionsOK, HeldIsProtected
  <2> QED
    BY <1>1, <1>3, <2>2, <2>4, <2>5 DEF PositionsOK, Raised
<1> QED
  BY <1>2, <1>3 DEF ApplyEntryFill

(* So does an exit fill: it closes the position exactly when it drops the  *)
(* levels.                                                                 *)
LEMMA ExitFillKeepsPositions ==
  ASSUME PositionsOK, NEW o \in Order, NEW q \in Nat \ {0}, ApplyExitFill(o, q)
  PROVE  PositionsOK'
<1> DEFINE held == positions[o.symbol]
<1>1. o.symbol \in Symbols /\ held \in Position
  BY DEF Order, PositionsOK
<1>2. CASE UNCHANGED <<positions, exit_levels, raised>>
  BY <1>2 DEF PositionsOK, Raised, StatusMatchesQuantity, HeldIsProtected, Active
<1>3. CASE raised' = "ValueError" /\ UNCHANGED <<positions, exit_levels>>
  BY <1>3 DEF PositionsOK, Raised, Exceptions, StatusMatchesQuantity, HeldIsProtected, Active
<1>4. CASE /\ Size(held) >= q
           /\ positions' = [positions EXCEPT ![o.symbol] = Reduced(held, q)]
           /\ exit_levels' = LevelsAfterExit(o.symbol, held, q)
           /\ UNCHANGED raised
  <2> DEFINE left == Reduced(held, q)
  <2>1. /\ left \in Position
        /\ left.quantity = 0 <=> Size(held) = q
        /\ Active(left) <=> left.quantity # 0
    BY <1>1, <1>4 DEF Reduced, Position, Size, Active
  <2>2. held.quantity # 0
    BY <1>1, <1>4 DEF Size, Position
  <2>3. o.symbol \in exit_levels
    BY <1>1, <2>2 DEF PositionsOK, HeldIsProtected
  <2>4. \A s \in Symbols :
          positions'[s] = IF s = o.symbol THEN left ELSE positions[s]
    BY <1>1, <1>4 DEF PositionsOK
  <2>5. positions' \in [Symbols -> Position]
    BY <1>1, <1>4, <2>1 DEF PositionsOK
  <2>6. StatusMatchesQuantity'
    <3> HIDE DEF left
    <3> QED BY <2>1, <2>4 DEF PositionsOK, StatusMatchesQuantity
  <2>7. HeldIsProtected'
    <3> HIDE DEF left
    <3> QED BY <1>1, <1>4, <2>1, <2>3, <2>4 DEF PositionsOK, HeldIsProtected, LevelsAfterExit
  <2> QED
    BY <1>4, <2>5, <2>6, <2>7 DEF PositionsOK, Raised, LevelsAfterExit
<1> QED
  BY <1>2, <1>3, <1>4 DEF ApplyExitFill

(* An exit that ended unfilled only makes EXIT_PENDING OPEN again.         *)
LEMMA ReleaseKeepsPositions ==
  ASSUME PositionsOK, NEW o \in Order, NEW status, ReleasePosition(o, status)
  PROVE  PositionsOK'
<1>1. o.symbol \in Symbols
  BY DEF Order
<1>2. CASE UNCHANGED positions
  BY <1>2 DEF ReleasePosition, PositionsOK, Raised, StatusMatchesQuantity, HeldIsProtected, Active
<1>3. CASE /\ positions[o.symbol].status = "EXIT_PENDING"
           /\ positions' = [positions EXCEPT ![o.symbol].status = "OPEN"]
  <2>1. \A s \in Symbols :
          /\ positions'[s].quantity = positions[s].quantity
          /\ Active(positions'[s]) <=> Active(positions[s])
    BY <1>1, <1>3 DEF PositionsOK, Position, Active
  <2>2. positions' \in [Symbols -> Position]
    BY <1>1, <1>3 DEF PositionsOK, Position
  <2> QED
    BY <2>1, <2>2 DEF ReleasePosition, PositionsOK, Raised, StatusMatchesQuantity, HeldIsProtected
<1> QED
  BY <1>2, <1>3 DEF ReleasePosition

-----------------------------------------------------------------------------
(* update_order_state.                                                     *)

(* The order book of AutoTick, apart from the broker's.                    *)
OrdersOK ==
  /\ DOMAIN orders \subseteq OrderIds
  /\ \A i \in DOMAIN orders : orders[i] \in Order
  /\ trades \in [OrderIds -> Nat]
  /\ risk \in RiskState

(* update_order_state keeps the types of what it writes and, whatever      *)
(* branch it takes, the agreement of positions and exit levels.            *)
LEMMA UpdateKeepsInv ==
  ASSUME PositionsOK, OrdersOK,
         NEW id \in OrderIds, NEW o \in Order, NEW status \in OrderStatus,
         UpdateOrderState(id, o, status)
  PROVE  PositionsOK' /\ OrdersOK' /\ DOMAIN orders \subseteq DOMAIN orders'
<1> DEFINE current  == IF id \in DOMAIN orders THEN orders[id] ELSE o
           previous == FilledQuantity(current, current.status)
           filled   == FilledQuantity(o, status)
           updated  == [o EXCEPT !.status = status, !.filled = filled]
           quantity == Executed(filled, previous)
<1>1. current \in Order
  BY DEF OrdersOK
<1>2. previous \in Nat /\ filled \in Nat
  BY <1>1, FilledQuantityType
<1>3. updated \in Order
  BY <1>2 DEF Order
<1>4. filled > previous => quantity \in Nat \ {0}
  BY <1>2 DEF Executed
<1>5. CASE UNCHANGED <<tmvars, risk>>
  BY <1>5 DEF tmvars, PositionsOK, OrdersOK, Raised, StatusMatchesQuantity,
              HeldIsProtected, Active
<1>6. CASE /\ raised' = "ValueError"
           /\ UNCHANGED <<orders, positions, exit_levels, trades, risk>>
  BY <1>6 DEF PositionsOK, OrdersOK, Raised, Exceptions, StatusMatchesQuantity,
              HeldIsProtected, Active
<1>7. CASE /\ orders' = Put(orders, id, updated)
           /\ RecordTrade(id, status, filled > previous)
           /\ \/ /\ filled > previous
                 /\ risk' = CountEntry(previous)
                 /\ ApplyEntryFill(updated, quantity)
              \/ /\ filled > previous
                 /\ ApplyExitFill(updated, quantity)
              \/ ReleasePosition(updated, status)
  <2> HIDE DEF updated, filled, previous, current, quantity
  <2>1. PositionsOK'
    BY <1>3, <1>4, <1>7, EntryFillKeepsPositions, ExitFillKeepsPositions,
       ReleaseKeepsPositions
  <2>2. /\ DOMAIN orders' = DOMAIN orders \cup {id}
        /\ \A i \in DOMAIN orders' : orders'[i] = IF i = id THEN updated ELSE orders[i]
    BY <1>7 DEF Put
  <2>3. trades' \in [OrderIds -> Nat]
    BY <1>7 DEF RecordTrade, OrdersOK
  <2>4. risk' \in RiskState
    <3>1. risk \in RiskState /\ PnLs \subseteq Int
      BY RiskAssumption DEF OrdersOK
    <3>2. CASE risk' = CountEntry(previous)
      BY <3>1, <3>2, RiskTypes DEF CountEntry
    <3>3. CASE ApplyExitFill(updated, quantity)
      BY <3>1, <3>3, RiskTypes DEF ApplyExitFill
    <3>4. CASE ReleasePosition(updated, status)
      BY <3>1, <3>4 DEF ReleasePosition
    <3> QED BY <1>7, <3>2, <3>3, <3>4
  <2> QED
    BY <1>3, <2>1, <2>2, <2>3, <2>4 DEF OrdersOK
<1> QED
  BY <1>5, <1>6, <1>7 DEF UpdateOrderState

-----------------------------------------------------------------------------
(* Steps.                                                                  *)

BookOK ==
  /\ DOMAIN book \subseteq OrderIds
  /\ \A i \in DOMAIN book : book[i] \in Order

InboxOK ==
  /\ DOMAIN inbox \subseteq DOMAIN orders
  /\ \A i \in DOMAIN inbox : inbox[i].status \in OrderStatus /\ inbox[i].filled \in Nat

(* IInv falls apart into what the different calls write.                   *)
LEMMA IInvParts == IInv <=> PositionsOK /\ OrdersOK /\ BookOK /\ InboxOK
BY DEF IInv, TypeOK, PositionsOK, OrdersOK, BookOK, InboxOK, Raised

(* Every outcome of create_order for a well-formed order keeps the order   *)
(* books; what it does to the positions is up to the caller.               *)
LEMMA CreateKeepsBooks ==
  ASSUME IInv, NEW id \in OrderIds, NEW o \in Order,
         Accepted(id, o) \/ NotAccepted(id, o)
  PROVE  OrdersOK' /\ BookOK' /\ InboxOK' /\ Raised' /\ UNCHANGED exit_levels
<1>1. OrdersOK /\ BookOK /\ InboxOK /\ Raised
  BY IInvParts DEF PositionsOK
<1> DEFINE With(status) == [o EXCEPT !.status = status]
<1>2. \A status \in OrderStatus : With(status) \in Order
  BY DEF Order
<1>3. /\ "SUBMITTED" \in OrderStatus
      /\ "VALIDATED" \in OrderStatus
      /\ "REJECTED" \in OrderStatus
  BY DEF OrderStatus, Pending, Terminal, Unfilled
<1>4. /\ \E status \in OrderStatus : orders' = Put(orders, id, With(status))
      /\ UNCHANGED <<exit_levels, trades, risk, inbox>>
      /\ Raised'
      /\ \/ UNCHANGED book
         \/ \E other \in OrderIds : book' = Put(book, other, With("SUBMITTED"))
  BY <1>1, <1>3 DEF Accepted, NotAccepted, RefusedBeforeSending, RejectedByBroker,
        Uncertain, ReadFailed, Fresh, Raised, Exceptions
<1> HIDE DEF With
<1>5. OrdersOK' /\ DOMAIN orders \subseteq DOMAIN orders'
  <2>1. PICK status \in OrderStatus : orders' = Put(orders, id, With(status))
    BY <1>4
  <2>2. /\ DOMAIN orders' = DOMAIN orders \cup {id}
        /\ \A i \in DOMAIN orders' :
             orders'[i] = IF i = id THEN With(status) ELSE orders[i]
    BY <2>1 DEF Put
  <2> QED
    BY <1>1, <1>2, <1>4, <2>2 DEF OrdersOK
<1>6. BookOK'
  <2>1. CASE UNCHANGED book
    BY <1>1, <2>1 DEF BookOK
  <2>2. ASSUME NEW other \in OrderIds, book' = Put(book, other, With("SUBMITTED"))
        PROVE  BookOK'
    <3>1. /\ DOMAIN book' = DOMAIN book \cup {other}
          /\ \A i \in DOMAIN book' :
               book'[i] = IF i = other THEN With("SUBMITTED") ELSE book[i]
      BY <2>2 DEF Put
    <3> QED
      BY <1>1, <1>2, <1>3, <3>1 DEF BookOK
  <2> QED
    BY <1>4, <2>1, <2>2
<1>7. InboxOK'
  BY <1>1, <1>4, <1>5 DEF InboxOK
<1> QED
  BY <1>4, <1>5, <1>6, <1>7

(* A step that leaves positions and levels alone keeps them in step.       *)
LEMMA SamePositions ==
  ASSUME PositionsOK, UNCHANGED <<positions, exit_levels>>, Raised'
  PROVE  PositionsOK'
BY DEF PositionsOK, StatusMatchesQuantity, HeldIsProtected, Active

LEMMA EnterTradeKeepsIInv ==
  ASSUME IInv, NEW symbol \in Symbols, EnterTrade(symbol)
  PROVE  IInv'
<1>1. PICK id \in OrderIds, side \in Sides, quantity \in 1..MaxQty :
        LET o == NewOrder(symbol, side, "ENTRY", quantity) IN
        \/ Accepted(id, o) /\ UNCHANGED positions
        \/ NotAccepted(id, o)
  BY DEF EnterTrade, Fresh
<1> DEFINE o == NewOrder(symbol, side, "ENTRY", quantity)
<1>2. o \in Order
  BY OrderAssumption DEF NewOrder, Order, OrderStatus
<1> HIDE DEF o
<1>3. UNCHANGED positions
  BY <1>1 DEF NotAccepted, RefusedBeforeSending, RejectedByBroker, Uncertain, ReadFailed, o
<1>4. OrdersOK' /\ BookOK' /\ InboxOK' /\ Raised' /\ UNCHANGED exit_levels
  BY <1>1, <1>2, CreateKeepsBooks DEF o
<1> QED
  BY <1>3, <1>4, IInvParts, SamePositions DEF IInv, TypeOK, PositionsOK, OrdersOK, BookOK,
     InboxOK, Raised

LEMMA SubmitExitKeepsIInv ==
  ASSUME IInv, NEW symbol \in Symbols, SubmitExit(symbol)
  PROVE  IInv'
<1> DEFINE held == positions[symbol]
           o    == NewOrder(symbol, IF held.quantity > 0 THEN "SELL" ELSE "BUY",
                            "EXIT", Size(held))
<1>1. PICK id \in OrderIds :
        \/ /\ Accepted(id, o)
           /\ positions' = [positions EXCEPT ![symbol].status = "EXIT_PENDING"]
        \/ NotAccepted(id, o)
  BY DEF SubmitExit, Fresh
<1>2. PositionsOK /\ held \in Position /\ held.status = "OPEN"
  BY IInvParts DEF SubmitExit, MayExit, PositionsOK
<1>3. Size(held) \in Nat \ {0}
  BY <1>2 DEF PositionsOK, StatusMatchesQuantity, Active, Position, Size
<1>4. o \in Order
  BY <1>3 DEF NewOrder, Order, OrderStatus
<1> HIDE DEF o
<1>5. OrdersOK' /\ BookOK' /\ InboxOK' /\ Raised' /\ UNCHANGED exit_levels
  BY <1>1, <1>4, CreateKeepsBooks
<1>6. PositionsOK'
  <2>1. CASE UNCHANGED positions
    BY <1>2, <1>5, <2>1, SamePositions
  <2>2. CASE positions' = [positions EXCEPT ![symbol].status = "EXIT_PENDING"]
    <3>1. \A s \in Symbols : /\ positions'[s].quantity = positions[s].quantity
                             /\ Active(positions'[s]) <=> Active(positions[s])
      BY <1>2, <2>2 DEF PositionsOK, Position, Active
    <3>2. positions' \in [Symbols -> Position]
      BY <1>2, <2>2 DEF PositionsOK, Position
    <3> QED
      BY <1>2, <1>5, <3>1, <3>2 DEF PositionsOK, StatusMatchesQuantity, HeldIsProtected
  <2> QED
    BY <1>1, <2>1, <2>2 DEF NotAccepted, RefusedBeforeSending, RejectedByBroker,
                            Uncertain, ReadFailed
<1> QED
  BY <1>5, <1>6 DEF IInv, TypeOK, PositionsOK, OrdersOK, BookOK, InboxOK, Raised

LEMMA ReconcileBeginKeepsIInv ==
  ASSUME IInv, ReconcileBegin
  PROVE  IInv'
<1>1. PositionsOK' /\ OrdersOK' /\ BookOK'
  BY IInvParts DEF ReconcileBegin, tmvars, PositionsOK, OrdersOK, BookOK, Raised,
                   StatusMatchesQuantity, HeldIsProtected, Active
<1>2. InboxOK'
  <2>1. /\ DOMAIN inbox' = Reported
        /\ \A i \in Reported : /\ inbox'[i].status = book[i].status
                               /\ inbox'[i].filled = book[i].filled
    BY DEF ReconcileBegin
  <2>2. Reported \subseteq DOMAIN orders' /\ Reported \subseteq DOMAIN book
    BY DEF Reported, ReconcileBegin, tmvars
  <2>3. \A i \in DOMAIN book : book[i].status \in OrderStatus /\ book[i].filled \in Nat
    BY IInvParts DEF BookOK, Order
  <2> QED
    BY <2>1, <2>2, <2>3 DEF InboxOK
<1> QED
  BY <1>1, <1>2 DEF IInv, TypeOK, PositionsOK, OrdersOK, BookOK, InboxOK, Raised

LEMMA ReconcileOneKeepsIInv ==
  ASSUME IInv, NEW id, ReconcileOne(id)
  PROVE  IInv'
<1> DEFINE o == [orders[id] EXCEPT !.filled = inbox[id].filled]
<1>1. PositionsOK /\ OrdersOK /\ BookOK /\ InboxOK
  BY IInvParts
<1>2. id \in OrderIds /\ o \in Order /\ inbox[id].status \in OrderStatus
  BY <1>1 DEF ReconcileOne, OrdersOK, InboxOK, Order
<1>3. UpdateOrderState(id, o, inbox[id].status)
  BY DEF ReconcileOne
<1>4. PositionsOK' /\ OrdersOK' /\ DOMAIN orders \subseteq DOMAIN orders'
  <2> HIDE DEF o
  <2> QED BY <1>1, <1>2, <1>3, UpdateKeepsInv
<1>5. InboxOK'
  BY <1>1, <1>4 DEF ReconcileOne, Drop, EmptyDict, InboxOK
<1>6. BookOK'
  BY <1>1 DEF ReconcileOne, BookOK
<1> QED
  BY <1>4, <1>5, <1>6 DEF IInv, TypeOK, PositionsOK, OrdersOK, BookOK, InboxOK, Raised

LEMMA CancelOrderKeepsIInv ==
  ASSUME IInv, NEW id, CancelOrder(id)
  PROVE  IInv'
<1>1. PositionsOK /\ OrdersOK /\ BookOK /\ InboxOK
  BY IInvParts
<1>2. id \in OrderIds /\ orders[id] \in Order /\ "CANCELLED" \in OrderStatus
  BY <1>1 DEF CancelOrder, OrdersOK, OrderStatus, Terminal, Unfilled
<1>3. PositionsOK' /\ OrdersOK' /\ DOMAIN orders \subseteq DOMAIN orders'
  BY <1>1, <1>2, UpdateKeepsInv DEF CancelOrder
<1>4. InboxOK' /\ BookOK'
  BY <1>1, <1>3 DEF CancelOrder, InboxOK, BookOK
<1> QED
  BY <1>3, <1>4 DEF IInv, TypeOK, PositionsOK, OrdersOK, BookOK, InboxOK, Raised

LEMMA BrokerStepKeepsIInv ==
  ASSUME IInv, NEW id \in DOMAIN book, BrokerStep(id)
  PROVE  IInv'
<1>1. PositionsOK /\ OrdersOK /\ BookOK /\ InboxOK
  BY IInvParts
<1>2. PICK move \in BrokerMoves, f \in book[id].filled..book[id].quantity :
        book' = [book EXCEPT ![id].status = move[2], ![id].filled = f]
  BY DEF BrokerStep
<1>3. move[2] \in OrderStatus
  BY DEF BrokerMoves, Transitions, OrderStatus, Pending, Terminal, Unfilled
<1>4. f \in Nat
  BY <1>1 DEF BookOK, Order
<1>5. BookOK'
  <2> DEFINE moved == [book[id] EXCEPT !.status = move[2], !.filled = f]
  <2>1. moved \in Order
    BY <1>1, <1>3, <1>4 DEF BookOK, Order
  <2>2. /\ DOMAIN book' = DOMAIN book
        /\ \A i \in DOMAIN book : book'[i] = IF i = id THEN moved ELSE book[i]
    BY <1>2
  <2> QED
    BY <1>1, <2>1, <2>2 DEF BookOK
<1>6. OrdersOK' /\ InboxOK' /\ PositionsOK'
  BY <1>1, SamePositions DEF BrokerStep, tmvars, OrdersOK, InboxOK, PositionsOK, Raised
<1> QED
  BY <1>5, <1>6 DEF IInv, TypeOK, PositionsOK, OrdersOK, BookOK, InboxOK, Raised

(* IInv is an inductive invariant of every call and every broker step.     *)
LEMMA NextKeepsIInv ==
  ASSUME IInv, [Next]_vars
  PROVE  IInv'
<1>1. CASE UNCHANGED vars
  BY <1>1 DEF vars, IInv, TypeOK, StatusMatchesQuantity, HeldIsProtected, Active
<1>3. ASSUME NEW id \in DOMAIN orders, CancelUncertain(id)
      PROVE  IInv'
  BY <1>3 DEF CancelUncertain, IInv, TypeOK, Exceptions, StatusMatchesQuantity,
              HeldIsProtected, Active
<1>4. CASE LeaveLoop
  BY <1>4 DEF LeaveLoop, IInv, TypeOK, Exceptions, StatusMatchesQuantity,
              HeldIsProtected, Active
<1>2. CASE Next
  BY <1>2, EnterTradeKeepsIInv, SubmitExitKeepsIInv, ReconcileBeginKeepsIInv,
     ReconcileOneKeepsIInv, BrokerStepKeepsIInv, CancelOrderKeepsIInv,
     <1>3, <1>4 DEF Next, RunnerNext
<1> QED
  BY <1>1, <1>2

LEMMA InitIInv == Init => IInv
BY DEF Init, IInv, TypeOK, StatusMatchesQuantity, HeldIsProtected, Active, EmptyDict,
       NoPosition, Position, InitialRisk, RiskState

(* Type correctness; and a position is held exactly when its status says   *)
(* so and exactly when it has exit levels - for any symbols, quantities,   *)
(* limits and brokers, and any order of the calls.                         *)
THEOREM ProtectedAlways == Spec => [](TypeOK /\ StatusMatchesQuantity /\ HeldIsProtected)
<1>1. IInv /\ [Next]_vars => IInv'
  BY NextKeepsIInv
<1>2. IInv => TypeOK /\ StatusMatchesQuantity /\ HeldIsProtected
  BY DEF IInv
<1> QED
  BY InitIInv, <1>1, <1>2, PTL DEF Spec

-----------------------------------------------------------------------------
(* The order lifecycle.                                                    *)

LEMMA StatusFacts ==
  /\ Terminal \cap Pending = {}
  /\ "FILLED" \in Terminal /\ "REJECTED" \in Terminal /\ "CANCELLED" \in Terminal
  /\ "SUBMITTED" \in Pending
  /\ "VALIDATED" \notin Terminal \cup Pending
  /\ \A m \in Transitions : m[1] \notin Terminal /\ m[2] \in OrderStatus
  /\ "NONE" \notin OrderStatus
  /\ Pending \subseteq OrderStatus /\ Terminal \subseteq OrderStatus
BY DEF Terminal, Pending, Unfilled, Transitions, OrderStatus

(* For a consistent order the recorded fill is the fill of its status.     *)
LEMMA RecordedFill ==
  ASSUME NEW o \in Order, WellFilled(o)
  PROVE  FilledQuantity(o, o.status) = o.filled
BY DEF FilledQuantity, WellFilled, Order

-----------------------------------------------------------------------------
(* What one call of update_order_state does to a known order: nothing, or  *)
(* one arrow of the state machine, or more fills of a live order.          *)
Moved(id, status, filled) ==
  /\ id \in DOMAIN orders
  /\ DOMAIN orders' = DOMAIN orders
  /\ orders'[id].status = status
  /\ orders'[id].filled = filled
  /\ orders'[id].quantity = orders[id].quantity
  /\ orders[id].filled <= filled
  /\ filled <= orders[id].quantity
  /\ status = "FILLED" => filled = orders[id].quantity
  /\ \A i \in DOMAIN orders \ {id} : orders'[i] = orders[i]
  /\ \/ /\ <<orders[id].status, status>> \in Transitions
        /\ trades' = IF status = "FILLED" THEN [trades EXCEPT ![id] = @ + 1] ELSE trades
     \/ /\ orders[id].status = status
        /\ status \notin Terminal
        /\ UNCHANGED trades

(* A report that is not older than the record moves the order.             *)
LEMMA UpdateMoves ==
  ASSUME IInv, NEW id \in DOMAIN orders, WellFilled(orders[id]),
         NEW o \in Order, o.quantity = orders[id].quantity,
         orders[id].filled <= o.filled,
         NEW status \in OrderStatus,
         orders[id].status \in Terminal => o = orders[id],
         UpdateOrderState(id, o, status)
  PROVE  \/ UNCHANGED <<orders, trades>>
         \/ Moved(id, status, FilledQuantity(o, status))
<1> DEFINE current  == orders[id]
           previous == FilledQuantity(current, current.status)
           filled   == FilledQuantity(o, status)
           updated  == [o EXCEPT !.status = status, !.filled = filled]
<1>1. current \in Order /\ id \in OrderIds
  BY DEF IInv, TypeOK
<1>2. previous = current.filled
  BY <1>1, RecordedFill
<1>3. /\ filled \in Nat
      /\ current.filled <= filled
      /\ filled <= current.quantity
      /\ status = "FILLED" => filled = current.quantity
  BY <1>1 DEF FilledQuantity, WellFilled, Order
<1>4. CASE UNCHANGED <<tmvars, risk>>
  BY <1>4 DEF tmvars
<1>5. CASE UNCHANGED <<orders, trades>>
  BY <1>5
<1>6. CASE /\ IF current.status = status THEN filled > previous
                                         ELSE <<current.status, status>> \in Transitions
           /\ orders' = Put(orders, id, updated)
           /\ RecordTrade(id, status, filled > previous)
  <2>1. /\ DOMAIN orders' = DOMAIN orders
        /\ orders'[id] = updated
        /\ \A i \in DOMAIN orders \ {id} : orders'[i] = orders[i]
    <3> HIDE DEF updated
    <3> QED BY <1>6 DEF Put
  <2>2. updated.status = status /\ updated.filled = filled /\ updated.quantity = o.quantity
    BY DEF Order
  <2>3. current.status = status => status \notin Terminal
    <3> SUFFICES ASSUME current.status = status, status \in Terminal
                 PROVE  FALSE
      OBVIOUS
    <3>1. o = current
      OBVIOUS
    <3>2. filled = previous
      BY <3>1
    <3> QED
      BY <1>2, <1>3, <1>6, <3>2
  <2>4. trades' = IF status = "FILLED" THEN [trades EXCEPT ![id] = @ + 1] ELSE trades
    BY <1>6 DEF RecordTrade
  <2>5. CASE current.status = status
    <3>1. UNCHANGED trades
      BY <2>3, <2>4, <2>5, StatusFacts
    <3> QED
      BY <1>3, <2>1, <2>2, <2>3, <2>5, <3>1 DEF Moved
  <2>6. CASE current.status # status
    <3>1. <<current.status, status>> \in Transitions
      BY <1>6, <2>6
    <3> QED
      BY <1>3, <2>1, <2>2, <2>4, <3>1 DEF Moved
  <2> QED
    BY <2>5, <2>6
<1> QED
  BY <1>4, <1>5, <1>6 DEF UpdateOrderState, Allowed

-----------------------------------------------------------------------------
(* What create_order does: a new order, with nothing executed, under an    *)
(* identifier neither side has used.                                       *)
Appears(id) ==
  /\ id \in OrderIds \ Used
  /\ DOMAIN orders' = DOMAIN orders \cup {id}
  /\ orders'[id] \in Order
  /\ orders'[id].filled = 0
  /\ orders'[id].status \in {"VALIDATED", "SUBMITTED", "REJECTED"}
  /\ \A i \in DOMAIN orders : orders'[i] = orders[i]
  /\ UNCHANGED <<trades, inbox>>
  /\ DOMAIN inbox = {}
  /\ \/ UNCHANGED book
     \/ /\ DOMAIN book' = DOMAIN book \cup {id}
        /\ book'[id] = orders'[id]
        /\ orders'[id].status = "SUBMITTED"
        /\ \A i \in DOMAIN book : book'[i] = book[i]
     \/ \E other \in OrderIds \ (Used \cup {id}) :
          /\ DOMAIN book' = DOMAIN book \cup {other}
          /\ book'[other] \in Order
          /\ book'[other].filled = 0
          /\ book'[other].status = "SUBMITTED"
          /\ \A i \in DOMAIN book : book'[i] = book[i]

LEMMA CreateAppears ==
  ASSUME Idle, NEW id \in OrderIds \ Used, NEW o \in Order, o.filled = 0,
         Accepted(id, o) \/ NotAccepted(id, o)
  PROVE  Appears(id)
<1> DEFINE With(status) == [o EXCEPT !.status = status]
<1>1. \A status \in OrderStatus :
        /\ With(status) \in Order
        /\ With(status).filled = 0
        /\ With(status).status = status
  BY DEF Order
<1>2. /\ "SUBMITTED" \in OrderStatus
      /\ "VALIDATED" \in OrderStatus
      /\ "REJECTED" \in OrderStatus
  BY DEF OrderStatus, Pending, Terminal, Unfilled
<1>3. id \notin DOMAIN orders /\ id \notin DOMAIN book /\ DOMAIN inbox = {}
  BY DEF Used, Idle
<1>4. CASE Accepted(id, o)
  <2>1. /\ orders' = Put(orders, id, With("SUBMITTED"))
        /\ book' = Put(book, id, With("SUBMITTED"))
        /\ UNCHANGED <<trades, inbox>>
    BY <1>4 DEF Accepted
  <2> HIDE DEF With
  <2> QED
    BY <1>1, <1>2, <1>3, <2>1 DEF Appears, Put
<1>5. CASE NotAccepted(id, o)
  <2>1. PICK status \in {"VALIDATED", "REJECTED"} :
          /\ orders' = Put(orders, id, With(status))
          /\ UNCHANGED <<trades, inbox>>
          /\ \/ UNCHANGED book
             \/ \E other \in OrderIds \ (Used \cup {id}) :
                  book' = Put(book, other, With("SUBMITTED"))
    BY <1>5 DEF NotAccepted, RefusedBeforeSending, RejectedByBroker, Uncertain,
                ReadFailed, Fresh
  <2> HIDE DEF With
  <2>2. CASE UNCHANGED book
    BY <1>1, <1>2, <1>3, <2>1, <2>2 DEF Appears, Put
  <2>3. ASSUME NEW other \in OrderIds \ (Used \cup {id}),
               book' = Put(book, other, With("SUBMITTED"))
        PROVE  Appears(id)
    <3>1. other \notin DOMAIN book
      BY DEF Used
    <3>2. /\ DOMAIN book' = DOMAIN book \cup {other}
          /\ book'[other] = With("SUBMITTED")
          /\ \A i \in DOMAIN book : book'[i] = book[i]
      BY <2>3, <3>1 DEF Put
    <3>3. /\ DOMAIN orders' = DOMAIN orders \cup {id}
          /\ orders'[id] = With(status)
          /\ \A i \in DOMAIN orders : orders'[i] = orders[i]
      BY <1>3, <2>1 DEF Put
    <3> QED
      BY <1>1, <1>2, <1>3, <2>1, <3>2, <3>3 DEF Appears
  <2> QED
    BY <2>1, <2>2, <2>3
<1> QED
  BY <1>4, <1>5

LEMMA EnterAppears ==
  ASSUME IInv, NEW symbol \in Symbols, EnterTrade(symbol)
  PROVE  \E id \in OrderIds : Appears(id)
<1>1. PICK id \in OrderIds \ Used, side \in Sides, quantity \in 1..MaxQty :
        LET o == NewOrder(symbol, side, "ENTRY", quantity) IN
        Accepted(id, o) \/ NotAccepted(id, o)
  BY DEF EnterTrade, Fresh
<1>2. /\ NewOrder(symbol, side, "ENTRY", quantity) \in Order
      /\ NewOrder(symbol, side, "ENTRY", quantity).filled = 0
  BY OrderAssumption DEF NewOrder, Order, OrderStatus
<1> QED
  BY <1>1, <1>2, CreateAppears DEF EnterTrade

LEMMA ExitAppears ==
  ASSUME IInv, NEW symbol \in Symbols, SubmitExit(symbol)
  PROVE  \E id \in OrderIds : Appears(id)
<1> DEFINE held == positions[symbol]
           o    == NewOrder(symbol, IF held.quantity > 0 THEN "SELL" ELSE "BUY",
                            "EXIT", Size(held))
<1>1. PICK id \in OrderIds \ Used : Accepted(id, o) \/ NotAccepted(id, o)
  BY DEF SubmitExit, Fresh
<1>2. Size(held) \in Nat \ {0}
  BY DEF SubmitExit, MayExit, IInv, TypeOK, StatusMatchesQuantity, Active, Position, Size
<1>3. o \in Order /\ o.filled = 0
  BY <1>2 DEF NewOrder, Order, OrderStatus
<1> HIDE DEF o
<1> QED
  BY <1>1, <1>3, CreateAppears DEF SubmitExit

-----------------------------------------------------------------------------
(* BooksAgree is inductive relative to IInv.                               *)

LEMMA AppearsKeepsBooks ==
  ASSUME IInv, BooksAgree, NEW id \in OrderIds, Appears(id)
  PROVE  BooksAgree'
<1>1. WellFilled(orders'[id])
  BY StatusFacts DEF Appears, WellFilled, Order
<1>2. id \notin DOMAIN orders /\ id \notin DOMAIN book
  BY DEF Appears, Used
<1>3. InboxIsRecent'
  BY DEF Appears, InboxIsRecent
<1>4. CASE UNCHANGED book
  BY <1>1, <1>2, <1>3, <1>4 DEF Appears, BooksAgree
<1>5. CASE /\ DOMAIN book' = DOMAIN book \cup {id}
           /\ book'[id] = orders'[id]
           /\ orders'[id].status = "SUBMITTED"
           /\ \A i \in DOMAIN book : book'[i] = book[i]
  <2>1. /\ orders'[id].filled <= orders'[id].filled
        /\ orders'[id].status # "FILLED"
    BY <1>5 DEF Appears
  <2> QED
    BY <1>1, <1>2, <1>3, <1>5, <2>1 DEF Appears, BooksAgree
<1>6. ASSUME NEW other \in OrderIds \ (Used \cup {id}),
             DOMAIN book' = DOMAIN book \cup {other},
             book'[other] \in Order,
             book'[other].filled = 0,
             book'[other].status = "SUBMITTED",
             \A i \in DOMAIN book : book'[i] = book[i]
      PROVE  BooksAgree'
  <2>1. WellFilled(book'[other])
    BY <1>6 DEF WellFilled, Order
  <2>2. other \notin DOMAIN orders'
    BY <1>6 DEF Appears, Used
  <2> QED
    BY <1>1, <1>2, <1>3, <1>6, <2>1, <2>2 DEF Appears, BooksAgree
<1> QED
  BY <1>4, <1>5, <1>6 DEF Appears

(* A call that moves order id, or none, and only shortens the inbox.       *)
LEMMA MovedKeepsBooks ==
  ASSUME IInv, BooksAgree, UNCHANGED book,
         NEW id \in DOMAIN orders \cap DOMAIN book, NEW status, NEW filled \in Nat,
         \/ UNCHANGED orders
         \/ /\ Moved(id, status, filled)
            /\ filled <= book[id].filled
            /\ status = "FILLED" => book[id].status = "FILLED",
         DOMAIN inbox' \subseteq DOMAIN inbox \ {id},
         \A i \in DOMAIN inbox' : inbox'[i] = inbox[i]
  PROVE  BooksAgree'
<1>1. CASE UNCHANGED orders
  BY <1>1 DEF BooksAgree, InboxIsRecent
<1>2. CASE /\ Moved(id, status, filled)
           /\ filled <= book[id].filled
           /\ status = "FILLED" => book[id].status = "FILLED"
  <2>1. WellFilled(orders'[id])
    BY <1>2 DEF Moved, WellFilled
  <2>2. \A i \in DOMAIN inbox' : orders'[i] = orders[i]
    BY <1>2 DEF Moved, IInv, TypeOK
  <2>3. InboxIsRecent'
    BY <2>2 DEF BooksAgree, InboxIsRecent
  <2> QED
    BY <1>2, <2>1, <2>3 DEF Moved, BooksAgree
<1> QED
  BY <1>1, <1>2

LEMMA ReconcileBeginKeepsBooks ==
  ASSUME IInv, BooksAgree, ReconcileBegin
  PROVE  BooksAgree'
<1>1. \A i \in Reported :
        /\ i \in DOMAIN orders \cap DOMAIN book
        /\ orders[i].status \in Pending
        /\ inbox'[i].status = book[i].status
        /\ inbox'[i].filled = book[i].filled
  BY DEF ReconcileBegin, Reported
<1>2. \A i \in DOMAIN book : book[i].filled \in Nat
  BY DEF IInv, TypeOK, Order
<1>3. InboxIsRecent'
  BY <1>1, <1>2 DEF ReconcileBegin, BooksAgree, WellFilled, InboxIsRecent, tmvars
<1> QED
  BY <1>3 DEF ReconcileBegin, BooksAgree, tmvars

(* Applying a report moves its order no further than the broker is.        *)
LEMMA ReconcileOneMoves ==
  ASSUME IInv, BooksAgree, NEW id, ReconcileOne(id)
  PROVE  /\ id \in DOMAIN orders \cap DOMAIN book
         /\ \/ UNCHANGED <<orders, trades>>
            \/ \E filled \in Nat :
                 /\ Moved(id, inbox[id].status, filled)
                 /\ filled = inbox[id].filled
                 /\ filled <= book[id].filled
                 /\ inbox[id].status = "FILLED" => book[id].status = "FILLED"
<1> DEFINE o == [orders[id] EXCEPT !.filled = inbox[id].filled]
           status == inbox[id].status
<1>1. /\ id \in DOMAIN inbox /\ id \in DOMAIN orders /\ id \in DOMAIN book
      /\ inbox[id].filled \in Nat /\ status \in OrderStatus
      /\ orders[id] \in Order /\ book[id] \in Order
  BY DEF ReconcileOne, IInv, TypeOK, BooksAgree, InboxIsRecent
<1>2. /\ o \in Order
      /\ o.quantity = orders[id].quantity
      /\ o.filled = inbox[id].filled
  BY <1>1 DEF Order
<1>3. /\ orders[id].filled <= o.filled
      /\ orders[id].status \notin Terminal
      /\ WellFilled(orders[id])
      /\ UpdateOrderState(id, o, status)
  BY <1>1, <1>2, StatusFacts DEF ReconcileOne, BooksAgree, InboxIsRecent
<1>4. FilledQuantity(o, status) = inbox[id].filled
  <2>1. /\ inbox[id].filled <= book[id].filled
        /\ book[id].filled <= book[id].quantity
        /\ book[id].quantity = o.quantity
        /\ status = "FILLED" => inbox[id].filled = book[id].quantity
    BY <1>1, <1>2 DEF BooksAgree, InboxIsRecent, WellFilled
  <2> HIDE DEF o, status
  <2> QED
    BY <1>1, <1>2, <2>1 DEF FilledQuantity, Order
<1>5. \/ UNCHANGED <<orders, trades>>
      \/ Moved(id, status, inbox[id].filled)
  <2> HIDE DEF o, status
  <2> QED
    BY <1>1, <1>2, <1>3, <1>4, UpdateMoves
<1> QED
  BY <1>1, <1>5 DEF BooksAgree, InboxIsRecent

LEMMA CancelOrderMoves ==
  ASSUME IInv, BooksAgree, NEW id, CancelOrder(id)
  PROVE  /\ id \in DOMAIN orders \cap DOMAIN book
         /\ \/ UNCHANGED <<orders, trades>>
            \/ Moved(id, "CANCELLED", orders[id].filled)
<1>1. /\ id \in DOMAIN orders /\ id \in DOMAIN book
      /\ orders[id] \in Order /\ WellFilled(orders[id])
      /\ UpdateOrderState(id, orders[id], "CANCELLED")
  BY DEF CancelOrder, IInv, TypeOK, BooksAgree
<1>2. FilledQuantity(orders[id], "CANCELLED") = orders[id].filled
  BY <1>1 DEF FilledQuantity, WellFilled, Order
<1>3. orders[id].filled <= orders[id].filled
  BY <1>1 DEF Order
<1> QED
  BY <1>1, <1>2, <1>3, StatusFacts, UpdateMoves

(* The broker only adds executions, and a filled order stays filled.       *)
LEMMA BrokerStepMoves ==
  ASSUME IInv, NEW id \in DOMAIN book, WellFilled(book[id]), BrokerStep(id)
  PROVE  /\ DOMAIN book' = DOMAIN book
         /\ book[id].status \in Pending
         /\ book'[id].filled \in Nat
         /\ book[id].filled <= book'[id].filled
         /\ book'[id].quantity = book[id].quantity
         /\ WellFilled(book'[id])
         /\ \A i \in DOMAIN book \ {id} : book'[i] = book[i]
         /\ UNCHANGED <<tmvars, inbox, risk>>
<1>1. book[id] \in Order
  BY DEF IInv, TypeOK
<1>2. PICK move \in BrokerMoves, f \in book[id].filled..book[id].quantity :
        /\ move[1] = book[id].status
        /\ (move[2] = "FILLED") <=> (f = book[id].quantity)
        /\ book' = [book EXCEPT ![id].status = move[2], ![id].filled = f]
  BY DEF BrokerStep
<1>3. book[id].status \in Pending
  BY <1>2, StatusFacts DEF BrokerMoves, Pending
<1>4. f \in Nat /\ book[id].filled <= f /\ f <= book[id].quantity
  BY <1>1 DEF Order
<1>5. /\ DOMAIN book' = DOMAIN book
      /\ book'[id].status = move[2]
      /\ book'[id].filled = f
      /\ book'[id].quantity = book[id].quantity
      /\ \A i \in DOMAIN book \ {id} : book'[i] = book[i]
  BY <1>1, <1>2 DEF Order
<1> QED
  BY <1>2, <1>3, <1>4, <1>5 DEF WellFilled, BrokerStep

LEMMA BrokerStepKeepsBooks ==
  ASSUME IInv, BooksAgree, NEW id \in DOMAIN book, BrokerStep(id)
  PROVE  BooksAgree'
<1>1. /\ WellFilled(book[id])
      /\ \A i \in DOMAIN book : book[i].filled \in Nat
      /\ \A i \in DOMAIN orders : orders[i].filled \in Nat
      /\ \A i \in DOMAIN inbox : inbox[i].filled \in Nat
  BY DEF BooksAgree, IInv, TypeOK, Order
<1>2. /\ DOMAIN book' = DOMAIN book
      /\ book[id].status # "FILLED"
      /\ book'[id].filled \in Nat
      /\ book[id].filled <= book'[id].filled
      /\ book'[id].quantity = book[id].quantity
      /\ WellFilled(book'[id])
      /\ \A i \in DOMAIN book \ {id} : book'[i] = book[i]
      /\ UNCHANGED <<orders, inbox>>
  BY <1>1, BrokerStepMoves, StatusFacts DEF tmvars
<1>3. InboxIsRecent'
  <2> SUFFICES ASSUME NEW i \in DOMAIN inbox
               PROVE  /\ i \in DOMAIN book'
                      /\ orders[i].status \in Pending
                      /\ orders[i].filled <= inbox[i].filled
                      /\ inbox[i].filled <= book'[i].filled
                      /\ inbox[i].status = "FILLED" =>
                           /\ book'[i].status = "FILLED"
                           /\ inbox[i].filled = book'[i].quantity
    BY <1>2 DEF InboxIsRecent
  <2>1. CASE i = id
    BY <1>1, <1>2, <2>1 DEF BooksAgree, InboxIsRecent
  <2>2. CASE i # id
    BY <1>2, <2>2 DEF BooksAgree, InboxIsRecent
  <2> QED BY <2>1, <2>2
<1>4. \A i \in DOMAIN orders \cap DOMAIN book :
        /\ orders[i].quantity = book'[i].quantity
        /\ orders[i].filled <= book'[i].filled
        /\ orders[i].status = "FILLED" => book'[i].status = "FILLED"
  BY <1>1, <1>2 DEF BooksAgree
<1> QED
  BY <1>2, <1>3, <1>4 DEF BooksAgree

-----------------------------------------------------------------------------
(* How a step of the specification touches the managed orders.             *)

LEMMA StepsOfOrders ==
  ASSUME IInv, BooksAgree, [Next]_vars
  PROVE  \/ \E id \in OrderIds : Appears(id)
         \/ \E id \in DOMAIN orders : \E status, filled : Moved(id, status, filled)
         \/ UNCHANGED <<orders, trades>>
<1>1. CASE UNCHANGED vars
  BY <1>1 DEF vars
<1>2. CASE \E s \in Symbols : EnterTrade(s) \/ SubmitExit(s)
  BY <1>2, EnterAppears, ExitAppears
<1>3. CASE ReconcileBegin
  BY <1>3 DEF ReconcileBegin, tmvars
<1>4. CASE \E id \in DOMAIN inbox : ReconcileOne(id)
  BY <1>4, ReconcileOneMoves
<1>5. CASE \E id \in DOMAIN book : BrokerStep(id)
  BY <1>5 DEF BrokerStep, tmvars
<1>6. CASE \E id \in DOMAIN orders : CancelOrder(id)
  BY <1>6, CancelOrderMoves
<1>7. CASE LeaveLoop \/ \E id \in DOMAIN orders : CancelUncertain(id)
  BY <1>7 DEF LeaveLoop, CancelUncertain
<1> QED
  BY <1>1, <1>2, <1>3, <1>4, <1>5, <1>6, <1>7 DEF Next, RunnerNext

LEMMA NextKeepsBooks ==
  ASSUME IInv, BooksAgree, [Next]_vars
  PROVE  BooksAgree'
<1>1. CASE UNCHANGED vars
  BY <1>1 DEF vars, BooksAgree, InboxIsRecent
<1>2. CASE \E s \in Symbols : EnterTrade(s) \/ SubmitExit(s)
  BY <1>2, EnterAppears, ExitAppears, AppearsKeepsBooks
<1>3. ASSUME NEW id \in DOMAIN inbox, ReconcileOne(id)
      PROVE  BooksAgree'
  <2>1. /\ DOMAIN inbox' \subseteq DOMAIN inbox \ {id}
        /\ \A i \in DOMAIN inbox' : inbox'[i] = inbox[i]
        /\ UNCHANGED book
    BY <1>3 DEF ReconcileOne, Drop, EmptyDict
  <2>2. id \in DOMAIN orders \cap DOMAIN book
    BY <1>3, ReconcileOneMoves
  <2>3. CASE UNCHANGED orders
    BY <2>1, <2>2, <2>3, MovedKeepsBooks, 0 \in Nat
  <2>4. ASSUME NEW filled \in Nat,
               Moved(id, inbox[id].status, filled),
               filled <= book[id].filled,
               inbox[id].status = "FILLED" => book[id].status = "FILLED"
        PROVE  BooksAgree'
    BY <2>1, <2>2, <2>4, MovedKeepsBooks
  <2> QED
    BY <1>3, <2>3, <2>4, ReconcileOneMoves
<1>4. ASSUME NEW id \in DOMAIN orders, CancelOrder(id)
      PROVE  BooksAgree'
  <2>1. /\ id \in DOMAIN orders \cap DOMAIN book
        /\ UNCHANGED <<inbox, book>>
        /\ DOMAIN inbox = {}
        /\ orders[id].filled \in Nat
        /\ orders[id].filled <= book[id].filled
    BY <1>4 DEF CancelOrder, Idle, IInv, TypeOK, Order, BooksAgree
  <2>2. UNCHANGED orders \/ Moved(id, "CANCELLED", orders[id].filled)
    BY <1>4, CancelOrderMoves
  <2> QED
    BY <2>1, <2>2, MovedKeepsBooks
<1>5. ASSUME NEW id \in DOMAIN orders, CancelUncertain(id)
      PROVE  BooksAgree'
  BY <1>5 DEF CancelUncertain, BooksAgree, InboxIsRecent
<1>6. CASE LeaveLoop
  BY <1>6 DEF LeaveLoop, BooksAgree, InboxIsRecent
<1> QED
  BY <1>1, <1>2, <1>3, <1>4, <1>5, <1>6, ReconcileBeginKeepsBooks,
     BrokerStepKeepsBooks DEF Next, RunnerNext

LEMMA InitBooks == Init => BooksAgree
BY DEF Init, EmptyDict, BooksAgree, InboxIsRecent

(* No order is executed beyond its quantity, and AutoTick never books more *)
(* of it than the broker executed, for any number of orders and any order  *)
(* of entries, exits, cancellations and reconciliations.                   *)
THEOREM BooksAgreeAlways == Spec => []BooksAgree
<1>1. Init => IInv /\ BooksAgree
  BY InitIInv, InitBooks
<1>2. IInv /\ BooksAgree /\ [Next]_vars => (IInv /\ BooksAgree)'
  BY NextKeepsIInv, NextKeepsBooks
<1> QED
  BY <1>1, <1>2, PTL DEF Spec

-----------------------------------------------------------------------------
(* One trade per filled order.                                             *)

LEMMA StepKeepsTrades ==
  ASSUME IInv, BooksAgree, OneTradePerFilledOrder, [Next]_vars
  PROVE  OneTradePerFilledOrder'
<1>1. trades \in [OrderIds -> Nat] /\ DOMAIN orders \subseteq OrderIds
  BY DEF IInv, TypeOK
<1>2. ASSUME NEW id \in OrderIds, Appears(id)
      PROVE  OneTradePerFilledOrder'
  <2>1. id \notin DOMAIN orders /\ orders'[id].status # "FILLED"
    BY <1>2 DEF Appears, Used
  <2> QED
    BY <1>1, <1>2, <2>1 DEF Appears, OneTradePerFilledOrder
<1>3. ASSUME NEW id \in DOMAIN orders, NEW status, NEW filled, Moved(id, status, filled)
      PROVE  OneTradePerFilledOrder'
  <2>1. CASE /\ <<orders[id].status, status>> \in Transitions
             /\ trades' = IF status = "FILLED" THEN [trades EXCEPT ![id] = @ + 1]
                                               ELSE trades
    <3>1. orders[id].status # "FILLED"
      <4>1. <<orders[id].status, status>>[1] \notin Terminal
        BY <2>1, StatusFacts
      <4> QED
        BY <4>1, StatusFacts
    <3>2. trades[id] = 0
      BY <1>1, <3>1 DEF OneTradePerFilledOrder
    <3>3. \A i \in OrderIds \ {id} :
            /\ trades'[i] = trades[i]
            /\ i \in DOMAIN orders' <=> i \in DOMAIN orders
            /\ i \in DOMAIN orders => orders'[i] = orders[i]
      BY <1>1, <1>3, <2>1 DEF Moved
    <3>4. trades'[id] = IF status = "FILLED" THEN 1 ELSE 0
      BY <1>1, <2>1, <3>2
    <3>5. id \in DOMAIN orders' /\ orders'[id].status = status
      BY <1>3 DEF Moved
    <3> QED
      BY <1>1, <3>3, <3>4, <3>5 DEF OneTradePerFilledOrder
  <2>2. CASE orders[id].status = status /\ UNCHANGED trades
    BY <1>1, <1>3, <2>2 DEF Moved, OneTradePerFilledOrder
  <2> QED
    BY <1>3, <2>1, <2>2 DEF Moved
<1>4. CASE UNCHANGED <<orders, trades>>
  BY <1>4 DEF OneTradePerFilledOrder
<1> QED
  BY <1>2, <1>3, <1>4, StepsOfOrders

LEMMA InitTrades == Init => OneTradePerFilledOrder
BY DEF Init, EmptyDict, OneTradePerFilledOrder

(* Every filled order has exactly one trade record and no other order has  *)
(* one: no report is booked twice, however often it is read.               *)
THEOREM TradesAlways == Spec => []OneTradePerFilledOrder
<1>1. Init => IInv /\ BooksAgree /\ OneTradePerFilledOrder
  BY InitIInv, InitBooks, InitTrades
<1>2. IInv /\ BooksAgree /\ OneTradePerFilledOrder /\ [Next]_vars
        => (IInv /\ BooksAgree /\ OneTradePerFilledOrder)'
  BY NextKeepsIInv, NextKeepsBooks, StepKeepsTrades
<1> QED
  BY <1>1, <1>2, PTL DEF Spec

-----------------------------------------------------------------------------
(* The refinement.                                                         *)

StatusMap == [i \in OrderIds |-> StatusOf(i)]
FilledMap == [i \in OrderIds |-> IF i \in DOMAIN orders THEN orders[i].filled ELSE 0]

LEMMA InitRefines == Init => Lifecycle!LInit
BY DEF Init, EmptyDict, Lifecycle!LInit, StatusOf

LEMMA AppearsRefines ==
  ASSUME IInv, NEW id \in OrderIds, Appears(id)
  PROVE  Lifecycle!Create(id)
<1>1. id \notin DOMAIN orders
  BY DEF Appears, Used
<1>2. StatusMap[id] = "NONE"
  BY <1>1 DEF StatusMap, StatusOf
<1>3. StatusMap' = [StatusMap EXCEPT ![id] = orders'[id].status]
  BY <1>1 DEF StatusMap, StatusOf, Appears
<1>4. FilledMap' = FilledMap
  BY <1>1 DEF FilledMap, Appears
<1>5. orders'[id].status \in {"VALIDATED", "SUBMITTED", "REJECTED"} /\ trades' = trades
  BY DEF Appears
<1> QED
  BY <1>2, <1>3, <1>4, <1>5 DEF Lifecycle!Create, StatusMap, FilledMap

LEMMA MovedRefines ==
  ASSUME IInv, NEW id \in DOMAIN orders, NEW status, NEW filled, Moved(id, status, filled)
  PROVE  Lifecycle!Advance(id) \/ Lifecycle!Accumulate(id)
<1>1. id \in OrderIds /\ orders[id] \in Order
  BY DEF IInv, TypeOK
<1>2. StatusMap[id] = orders[id].status /\ FilledMap[id] = orders[id].filled
  BY <1>1 DEF StatusMap, StatusOf, FilledMap
<1>3. StatusMap' = [StatusMap EXCEPT ![id] = status]
  BY <1>1 DEF StatusMap, StatusOf, Moved
<1>4. FilledMap' = [FilledMap EXCEPT ![id] = filled]
  BY <1>1 DEF FilledMap, Moved
<1>5. FilledMap'[id] = filled
  BY <1>1, <1>4 DEF FilledMap
<1>6. Lifecycle!FillsMore(id)
  <2>1. FilledMap' = [FilledMap EXCEPT ![id] = FilledMap'[id]]
    BY <1>4, <1>5
  <2>2. FilledMap'[id] >= FilledMap[id]
    BY <1>1, <1>2, <1>5 DEF Moved, Order
  <2> QED
    BY <2>1, <2>2 DEF Lifecycle!FillsMore, FilledMap
<1>7. CASE /\ <<orders[id].status, status>> \in Transitions
           /\ trades' = IF status = "FILLED" THEN [trades EXCEPT ![id] = @ + 1] ELSE trades
  <2>1. status \in {a[2] : a \in Transitions}
    <3>1. <<orders[id].status, status>>[2] = status
      OBVIOUS
    <3> QED
      BY <1>7, <3>1
  <2>2. <<StatusMap[id], status>> \in Transitions
    BY <1>2, <1>7
  <2> QED
    BY <1>3, <1>6, <1>7, <2>1, <2>2 DEF Lifecycle!Advance, StatusMap
<1>8. CASE orders[id].status = status /\ status \notin Terminal /\ UNCHANGED trades
  <2>1. StatusMap' = StatusMap
    BY <1>1, <1>2, <1>3, <1>8 DEF StatusMap
  <2>2. StatusMap[id] \notin Terminal \cup {"NONE"}
    BY <1>1, <1>2, <1>8, StatusFacts DEF Order
  <2> QED
    BY <1>6, <1>8, <2>1, <2>2 DEF Lifecycle!Accumulate, StatusMap
<1> QED
  BY <1>7, <1>8 DEF Moved

LEMMA StepRefines ==
  ASSUME IInv, BooksAgree, [Next]_vars
  PROVE  [Lifecycle!LNext]_(Lifecycle!lvars)
<1>1. ASSUME NEW id \in OrderIds, Appears(id)
      PROVE  Lifecycle!LNext
  BY <1>1, AppearsRefines DEF Lifecycle!LNext
<1>2. ASSUME NEW id \in DOMAIN orders, NEW status, NEW filled, Moved(id, status, filled)
      PROVE  Lifecycle!LNext
  <2>1. id \in OrderIds
    BY DEF IInv, TypeOK
  <2> QED
    BY <1>2, <2>1, MovedRefines DEF Lifecycle!LNext
<1>4. CASE UNCHANGED <<orders, trades>>
  BY <1>4 DEF Lifecycle!lvars, StatusOf
<1> QED
  BY <1>1, <1>2, <1>4, StepsOfOrders

(* The managed orders implement the abstract order lifecycle: created      *)
(* once, moved along the documented arrows only, fills that never shrink,  *)
(* one booking per filled order.                                           *)
THEOREM OrdersImplementLifecycle == Spec => OrdersFollowLifecycle
<1>1. Init => IInv /\ BooksAgree /\ Lifecycle!LInit
  BY InitIInv, InitBooks, InitRefines
<1>2. IInv /\ BooksAgree /\ [Next]_vars
        => /\ (IInv /\ BooksAgree)'
           /\ [Lifecycle!LNext]_(Lifecycle!lvars)
  BY NextKeepsIInv, NextKeepsBooks, StepRefines
<1> QED
  BY <1>1, <1>2, PTL DEF Spec, OrdersFollowLifecycle, Lifecycle!LSpec

-----------------------------------------------------------------------------
(* The runner never cancels an order, so an order it believes to be over   *)
(* is over at the broker.                                                  *)

FinalReports ==
  \A i \in DOMAIN inbox :
    inbox[i].status \in Terminal => /\ book[i].status = inbox[i].status
                                    /\ book[i].filled = inbox[i].filled

LEMMA RunnerStepKeepsFinal ==
  ASSUME IInv, BooksAgree, FinalReports, NeverAheadOfBroker, [RunnerNext]_vars
  PROVE  FinalReports' /\ NeverAheadOfBroker'
<1> USE StatusFacts
<1>1. BooksAgree'
  BY NextKeepsBooks DEF Next
<1> SUFFICES FinalReports' /\
             \A i \in (DOMAIN orders \cap DOMAIN book)' :
               orders'[i].status \in Terminal => /\ orders'[i].status = book'[i].status
                                                 /\ orders'[i].filled = book'[i].filled
  BY <1>1 DEF NeverAheadOfBroker, BooksAgree
<1>2. CASE UNCHANGED vars
  BY <1>2 DEF vars, FinalReports, NeverAheadOfBroker
<1>3. ASSUME NEW id \in OrderIds, Appears(id)
      PROVE  /\ FinalReports'
             /\ \A i \in (DOMAIN orders \cap DOMAIN book)' :
                  orders'[i].status \in Terminal => /\ orders'[i].status = book'[i].status
                                                    /\ orders'[i].filled = book'[i].filled
  <2>1. id \notin DOMAIN orders /\ id \notin DOMAIN book
    BY <1>3 DEF Appears, Used
  <2>2. FinalReports'
    BY <1>3 DEF Appears, FinalReports
  <2>3. CASE UNCHANGED book
    BY <1>3, <2>1, <2>2, <2>3 DEF Appears, NeverAheadOfBroker
  <2>4. CASE /\ DOMAIN book' = DOMAIN book \cup {id}
             /\ book'[id] = orders'[id]
             /\ \A i \in DOMAIN book : book'[i] = book[i]
    BY <1>3, <2>1, <2>2, <2>4 DEF Appears, NeverAheadOfBroker
  <2>5. ASSUME NEW other \in OrderIds \ (Used \cup {id}),
               DOMAIN book' = DOMAIN book \cup {other},
               \A i \in DOMAIN book : book'[i] = book[i]
        PROVE  \A i \in (DOMAIN orders \cap DOMAIN book)' :
                 orders'[i].status \in Terminal => /\ orders'[i].status = book'[i].status
                                                   /\ orders'[i].filled = book'[i].filled
    <3>1. other \notin DOMAIN orders'
      BY <1>3, <2>5 DEF Appears, Used
    <3> QED
      BY <1>3, <2>1, <2>5, <3>1 DEF Appears, NeverAheadOfBroker
  <2> QED
    BY <1>3, <2>2, <2>3, <2>4, <2>5 DEF Appears
<1>4. CASE ReconcileBegin
  BY <1>4 DEF ReconcileBegin, Reported, FinalReports, NeverAheadOfBroker, tmvars
<1>5. ASSUME NEW id \in DOMAIN inbox, ReconcileOne(id)
      PROVE  /\ FinalReports'
             /\ \A i \in (DOMAIN orders \cap DOMAIN book)' :
                  orders'[i].status \in Terminal => /\ orders'[i].status = book'[i].status
                                                    /\ orders'[i].filled = book'[i].filled
  <2>1. FinalReports'
    BY <1>5 DEF ReconcileOne, Drop, EmptyDict, FinalReports
  <2>2. UNCHANGED book
    BY <1>5 DEF ReconcileOne
  <2>3. CASE UNCHANGED orders
    BY <2>1, <2>2, <2>3 DEF NeverAheadOfBroker
  <2>4. CASE Moved(id, inbox[id].status, inbox[id].filled)
    BY <2>1, <2>2, <2>4 DEF Moved, NeverAheadOfBroker, FinalReports
  <2> QED
    BY <1>5, <2>3, <2>4, ReconcileOneMoves
<1>6. ASSUME NEW id \in DOMAIN book, BrokerStep(id)
      PROVE  /\ FinalReports'
             /\ \A i \in (DOMAIN orders \cap DOMAIN book)' :
                  orders'[i].status \in Terminal => /\ orders'[i].status = book'[i].status
                                                    /\ orders'[i].filled = book'[i].filled
  <2>1. /\ DOMAIN book' = DOMAIN book
        /\ book[id].status \in Pending
        /\ \A i \in DOMAIN book \ {id} : book'[i] = book[i]
        /\ UNCHANGED <<orders, inbox>>
    BY <1>6, BrokerStepMoves DEF BooksAgree, tmvars
  <2>2. \A i \in DOMAIN inbox : i \in DOMAIN book
    BY DEF BooksAgree, InboxIsRecent
  <2> QED
    BY <2>1, <2>2 DEF FinalReports, NeverAheadOfBroker
<1>7. CASE LeaveLoop
  BY <1>7 DEF LeaveLoop, FinalReports, NeverAheadOfBroker
<1> QED
  BY <1>2, <1>3, <1>4, <1>5, <1>6, <1>7, EnterAppears, ExitAppears DEF RunnerNext

(* What the runner recorded is what the broker did, or less; and an order  *)
(* it believes to be over ended at the broker with the same executions.    *)
THEOREM NeverAhead == RunnerSpec => []NeverAheadOfBroker
<1> DEFINE J == IInv /\ BooksAgree /\ FinalReports /\ NeverAheadOfBroker
<1>1. Init => J
  BY InitIInv, InitBooks DEF Init, EmptyDict, FinalReports, NeverAheadOfBroker
<1>2. J /\ [RunnerNext]_vars => J'
  BY NextKeepsIInv, NextKeepsBooks, RunnerStepKeepsFinal DEF Next
<1> QED
  BY <1>1, <1>2, PTL DEF RunnerSpec

=============================================================================

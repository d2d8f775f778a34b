----------------------------- MODULE FillProofs -----------------------------
(***************************************************************************)
(* What the executions add up to, for every value of the constants: the    *)
(* daily entry counter, the quantity of every position, and the quantity   *)
(* the broker holds, which the exits at work never exceed.                 *)
(*                                                                         *)
(* An entry counts when it executes for the first time.  That it does so   *)
(* once rests on BooksAgree: no report is older than the record, so a fill *)
(* never falls back to nothing and rises again.                            *)
(*                                                                         *)
(* An execution adds its growth to the sum of the fills, and the same to   *)
(* the position as long as an exit opposes what it closes.  Two invariants *)
(* give that: DirectionInv when the strategy enters on one side only, and  *)
(* OneAtATime when the broker executes an order at once or not at all.     *)
(* From the latter follows what is said of exits; SidesInv relates the     *)
(* managed position and the broker's by the one order between them.        *)
(***************************************************************************)
EXTENDS TradeManagerProofs, Sums

-----------------------------------------------------------------------------
(* The risk methods close the entries when a limit is reached.             *)
LEMMA RiskGuards ==
  ASSUME NEW r \in RiskState, LimitReached(r) => r.kill_switch
  PROVE  /\ RecordEntry(r).trade_count = r.trade_count + 1
         /\ LimitReached(RecordEntry(r)) => RecordEntry(r).kill_switch
         /\ \A pnl \in Int :
              /\ RecordRealizedPnl(r, pnl).trade_count = r.trade_count
              /\ LimitReached(RecordRealizedPnl(r, pnl))
                   => RecordRealizedPnl(r, pnl).kill_switch
<1>1. ASSUME NEW s \in RiskState
      PROVE  /\ ActivateKillSwitch(s).kill_switch
             /\ ActivateKillSwitch(s).trade_count = s.trade_count
  BY <1>1 DEF ActivateKillSwitch, RiskState
<1>2. /\ RecordEntry(r).trade_count = r.trade_count + 1
      /\ LimitReached(RecordEntry(r)) => RecordEntry(r).kill_switch
  <2> DEFINE counted == [r EXCEPT !.trade_count = @ + 1]
  <2>1. /\ counted \in RiskState /\ counted.trade_count = r.trade_count + 1
        /\ counted.daily_pnl = r.daily_pnl /\ counted.kill_switch = r.kill_switch
    BY DEF RiskState
  <2>2. RecordEntry(r) = IF counted.trade_count >= MaxTrades
                         THEN ActivateKillSwitch(counted) ELSE counted
    BY DEF RecordEntry
  <2> HIDE DEF counted
  <2> QED
    BY <1>1, <2>1, <2>2 DEF LimitReached
<1>3. ASSUME NEW pnl \in Int
      PROVE  /\ RecordRealizedPnl(r, pnl).trade_count = r.trade_count
             /\ LimitReached(RecordRealizedPnl(r, pnl))
                  => RecordRealizedPnl(r, pnl).kill_switch
  <2> DEFINE booked == [r EXCEPT !.daily_pnl = @ + pnl]
  <2>1. booked \in RiskState /\ booked.trade_count = r.trade_count
    BY DEF RiskState
  <2>2. RecordRealizedPnl(r, pnl) = IF LimitReached(booked)
                                    THEN ActivateKillSwitch(booked) ELSE booked
    BY DEF RecordRealizedPnl, CheckDailyLimits
  <2> HIDE DEF booked
  <2> QED
    BY <1>1, <2>1, <2>2
<1> QED
  BY <1>2, <1>3

(* What update_order_state does to an order and to the counter: an entry   *)
(* that executes for the first time is counted, and nothing else is.       *)
FirstFill(id) ==
  /\ orders[id].intent = "ENTRY"
  /\ orders[id].filled = 0
  /\ orders'[id].filled > 0

Updated(id, status) ==
  /\ DOMAIN orders' = DOMAIN orders
  /\ \A i \in DOMAIN orders \ {id} : orders'[i] = orders[i]
  /\ orders'[id].status = status
  /\ orders'[id].symbol = orders[id].symbol
  /\ orders'[id].intent = orders[id].intent
  /\ orders'[id].filled \in Nat
  /\ orders[id].filled <= orders'[id].filled
  /\ risk'.trade_count = risk.trade_count + (IF FirstFill(id) THEN 1 ELSE 0)
  /\ LimitReached(risk') => risk'.kill_switch

Guarded == LimitReached(risk) => risk.kill_switch

LEMMA UpdateCounts ==
  ASSUME IInv, Guarded, NEW id \in DOMAIN orders, WellFilled(orders[id]),
         NEW o \in Order, o.quantity = orders[id].quantity,
         o.symbol = orders[id].symbol, o.intent = orders[id].intent,
         orders[id].filled <= o.filled,
         NEW status \in OrderStatus,
         UpdateOrderState(id, o, status)
  PROVE  UNCHANGED <<orders, risk>> \/ Updated(id, status)
<1> DEFINE filled  == FilledQuantity(o, status)
           updated == [o EXCEPT !.status = status, !.filled = filled]
<1>1. /\ orders[id] \in Order /\ orders[id].filled \in Nat
      /\ FilledQuantity(orders[id], orders[id].status) = orders[id].filled
      /\ risk \in RiskState
  BY RecordedFill DEF IInv, TypeOK, Order
<1>2. filled \in Nat /\ orders[id].filled <= filled
  BY <1>1 DEF FilledQuantity, WellFilled, Order
<1>3. /\ updated.status = status /\ updated.filled = filled
      /\ updated.symbol = orders[id].symbol /\ updated.intent = orders[id].intent
  <2> HIDE DEF filled
  <2> QED
    BY DEF Order
<1>4. \/ UNCHANGED <<orders, risk>>
      \/ /\ orders' = Put(orders, id, updated)
         /\ \/ /\ filled > orders[id].filled /\ orders[id].intent = "ENTRY"
               /\ risk' = IF orders[id].filled = 0 THEN RecordEntry(risk) ELSE risk
            \/ /\ filled > orders[id].filled /\ orders[id].intent = "EXIT"
               /\ risk' = risk \/ \E pnl \in PnLs : risk' = RecordRealizedPnl(risk, pnl)
            \/ ~(filled > orders[id].filled) /\ risk' = risk
  <2> HIDE DEF filled
  <2> QED
    BY <1>1, <1>2 DEF UpdateOrderState, tmvars, filled, Executed, ApplyExitFill,
                      ReleasePosition, CountEntry
<1> HIDE DEF updated, filled
<1>5. CASE orders' = Put(orders, id, updated)
  <2>1. /\ DOMAIN orders' = DOMAIN orders /\ orders'[id] = updated
        /\ \A i \in DOMAIN orders \ {id} : orders'[i] = orders[i]
    BY <1>5 DEF Put
  <2>2. FirstFill(id) <=>
          orders[id].intent = "ENTRY" /\ orders[id].filled = 0 /\ filled > 0
    BY <1>3, <2>1 DEF FirstFill
  <2>3. /\ risk' = RecordEntry(risk) => (LimitReached(risk') => risk'.kill_switch)
        /\ \A pnl \in PnLs : risk' = RecordRealizedPnl(risk, pnl)
             => (LimitReached(risk') => risk'.kill_switch)
    BY <1>1, RiskGuards, RiskAssumption DEF Guarded, LimitReached
  <2>4. /\ \A pnl \in PnLs : RecordRealizedPnl(risk, pnl).trade_count = risk.trade_count
        /\ RecordEntry(risk).trade_count = risk.trade_count + 1
        /\ risk.trade_count \in Nat
    BY <1>1, RiskGuards, RiskAssumption DEF Guarded, RiskState
  <2>5. risk' = risk => (LimitReached(risk') => risk'.kill_switch)
    BY DEF Guarded, LimitReached
  <2>6. CASE UNCHANGED <<orders, risk>>
    BY <2>6
  <2>7. CASE ~UNCHANGED <<orders, risk>>
    <3>1. /\ risk'.trade_count = risk.trade_count + (IF FirstFill(id) THEN 1 ELSE 0)
          /\ LimitReached(risk') => risk'.kill_switch
      BY <1>1, <1>2, <1>4, <2>2, <2>3, <2>4, <2>5, <2>7
    <3> QED
      BY <1>2, <1>3, <2>1, <3>1 DEF Updated
  <2> QED
    BY <2>6, <2>7
<1> QED
  BY <1>4, <1>5

(* Every step creates an order that has executed nothing, applies a report *)
(* or a cancellation to one, or leaves what counts alone.                  *)
LEMMA StepsOfCount ==
  ASSUME IInv, BooksAgree, Guarded, [Next]_vars
  PROVE  \/ /\ UNCHANGED risk
            /\ \E id \in OrderIds :
                 /\ Appears(id)
                 /\ orders'[id].intent = "ENTRY" =>
                      /\ CanTrade(risk, TRUE)
                      /\ ~HasActiveTrade(orders'[id].symbol)
         \/ \E id \in DOMAIN orders, status \in OrderStatus :
              /\ Updated(id, status)
              /\ orders[id].status \in Pending \/ status \notin Pending
              /\ orders[id].status \in Pending \/ ~FirstFill(id)
         \/ /\ UNCHANGED risk /\ DOMAIN orders' = DOMAIN orders
            /\ \A i \in DOMAIN orders :
                 /\ orders'[i].symbol = orders[i].symbol
                 /\ orders'[i].intent = orders[i].intent
                 /\ orders'[i].status = orders[i].status
                 /\ orders'[i].filled = orders[i].filled
<1>1. CASE UNCHANGED <<orders, risk>>
  BY <1>1
<1>2. ASSUME NEW s \in Symbols, EnterTrade(s)
      PROVE  /\ UNCHANGED risk
             /\ \E id \in OrderIds :
                  /\ Appears(id) /\ orders'[id].symbol = s
                  /\ CanTrade(risk, TRUE) /\ ~HasActiveTrade(s)
  <2>1. PICK id \in OrderIds \ Used, side \in Sides, quantity \in 1..MaxQty :
          LET o == NewOrder(s, side, "ENTRY", quantity) IN
          Accepted(id, o) \/ NotAccepted(id, o)
    BY <1>2 DEF EnterTrade, Fresh
  <2> DEFINE o == NewOrder(s, side, "ENTRY", quantity)
  <2>2. o \in Order /\ o.filled = 0 /\ o.symbol = s
    BY OrderAssumption DEF NewOrder, Order, OrderStatus
  <2> HIDE DEF o
  <2>3. Accepted(id, o) \/ NotAccepted(id, o)
    BY <2>1 DEF o
  <2>4. Appears(id) /\ UNCHANGED risk
    BY <1>2, <2>2, <2>3, CreateAppears
       DEF EnterTrade, Accepted, NotAccepted, RefusedBeforeSending, RejectedByBroker,
           Uncertain, ReadFailed
  <2>5. orders'[id].symbol = s
    BY <2>2, <2>3 DEF Accepted, NotAccepted, RefusedBeforeSending, RejectedByBroker,
                      Uncertain, ReadFailed, Put, Order
  <2> QED
    BY <1>2, <2>4, <2>5 DEF EnterTrade
<1>3. ASSUME NEW s \in Symbols, SubmitExit(s)
      PROVE  /\ UNCHANGED risk
             /\ \E id \in OrderIds : Appears(id) /\ orders'[id].intent = "EXIT"
  <2> DEFINE held == positions[s]
             o    == NewOrder(s, IF held.quantity > 0 THEN "SELL" ELSE "BUY",
                              "EXIT", Size(held))
  <2>1. PICK id \in OrderIds \ Used : Accepted(id, o) \/ NotAccepted(id, o)
    BY <1>3 DEF SubmitExit, Fresh
  <2>2. Size(held) \in Nat \ {0}
    BY <1>3 DEF SubmitExit, MayExit, IInv, TypeOK, StatusMatchesQuantity, Active,
                Position, Size
  <2>3. o \in Order /\ o.filled = 0 /\ o.intent = "EXIT"
    BY <2>2 DEF NewOrder, Order, OrderStatus
  <2> HIDE DEF o
  <2>4. Appears(id) /\ UNCHANGED risk
    BY <1>3, <2>1, <2>3, CreateAppears
       DEF SubmitExit, Accepted, NotAccepted, RefusedBeforeSending, RejectedByBroker,
           Uncertain, ReadFailed
  <2>5. orders'[id].intent = "EXIT"
    BY <2>1, <2>3 DEF Accepted, NotAccepted, RefusedBeforeSending, RejectedByBroker,
                      Uncertain, ReadFailed, Put, Order
  <2> QED
    BY <2>4, <2>5
<1>4. ASSUME NEW id \in DOMAIN inbox, ReconcileOne(id)
      PROVE  /\ id \in DOMAIN orders /\ orders[id].status \in Pending
             /\ UNCHANGED <<orders, risk>>
                  \/ \E status \in OrderStatus : Updated(id, status)
  <2> DEFINE o == [orders[id] EXCEPT !.filled = inbox[id].filled]
  <2>1. /\ id \in DOMAIN orders /\ orders[id] \in Order /\ WellFilled(orders[id])
        /\ inbox[id].filled \in Nat /\ inbox[id].status \in OrderStatus
        /\ orders[id].filled <= inbox[id].filled
        /\ orders[id].status \in Pending
    BY DEF IInv, TypeOK, BooksAgree, InboxIsRecent
  <2>2. /\ o \in Order /\ o.quantity = orders[id].quantity
        /\ o.symbol = orders[id].symbol
        /\ o.intent = orders[id].intent /\ o.filled = inbox[id].filled
    BY <2>1 DEF Order
  <2>3. UpdateOrderState(id, o, inbox[id].status)
    BY <1>4 DEF ReconcileOne
  <2> HIDE DEF o
  <2> QED
    BY <2>1, <2>2, <2>3, UpdateCounts
<1>5. ASSUME NEW id \in DOMAIN orders, CancelOrder(id)
      PROVE  /\ UNCHANGED <<orders, risk>> \/ Updated(id, "CANCELLED")
             /\ UNCHANGED <<orders, risk>> \/ orders'[id].filled = orders[id].filled
  <2>1. /\ orders[id] \in Order /\ WellFilled(orders[id])
        /\ orders[id].filled <= orders[id].filled
    BY DEF IInv, TypeOK, BooksAgree, Order
  <2>2. UpdateOrderState(id, orders[id], "CANCELLED")
    BY <1>5 DEF CancelOrder
  <2>3. UNCHANGED orders \/ orders'[id].filled = orders[id].filled
    BY <1>5, CancelOrderMoves DEF Moved
  <2> QED
    BY <2>1, <2>2, <2>3, StatusFacts, UpdateCounts
<1>6. CASE \E id \in DOMAIN orders : CancelUncertain(id)
  BY <1>1, <1>6 DEF CancelUncertain
<1>7. CASE ReconcileBegin \/ LeaveLoop \/ (\E id \in DOMAIN book : BrokerStep(id))
             \/ UNCHANGED vars
  BY <1>1, <1>7 DEF ReconcileBegin, LeaveLoop, BrokerStep, tmvars, vars
<1>8. CASE \E id \in DOMAIN orders : CancelOrder(id)
  <2>1. PICK id \in DOMAIN orders : CancelOrder(id)
    BY <1>8
  <2>2. CASE UNCHANGED <<orders, risk>>
    BY <1>1, <2>2
  <2>3. CASE Updated(id, "CANCELLED") /\ orders'[id].filled = orders[id].filled
    <3>1. ~FirstFill(id) /\ "CANCELLED" \notin Pending /\ "CANCELLED" \in OrderStatus
      BY <2>3, StatusFacts DEF FirstFill
    <3> QED
      BY <2>3, <3>1
  <2> QED
    BY <1>5, <2>1, <2>2, <2>3
<1>9. CASE \E id \in DOMAIN inbox : ReconcileOne(id)
  BY <1>1, <1>4, <1>9
<1>10. CASE \E s \in Symbols : EnterTrade(s) \/ SubmitExit(s)
  BY <1>2, <1>3, <1>10
<1> QED
  BY <1>6, <1>7, <1>8, <1>9, <1>10 DEF Next, RunnerNext

-----------------------------------------------------------------------------
(* The counter is the number of entries that executed.                     *)
EnteredOrders ==
  {i \in DOMAIN orders : orders[i].intent = "ENTRY" /\ orders[i].filled > 0}

CountInv == IsFiniteSet(EnteredOrders) /\ EntriesCounted

LEMMA NextKeepsCount ==
  ASSUME IInv, BooksAgree, CountInv, [Next]_vars
  PROVE  CountInv'
<1>1. /\ Guarded /\ risk.trade_count = Cardinality(EnteredOrders)
      /\ IsFiniteSet(EnteredOrders)
      /\ \A i \in DOMAIN orders : orders[i].filled \in Nat
  BY DEF CountInv, EntriesCounted, EnteredOrders, Guarded, IInv, TypeOK, Order
<1>2. CASE EnteredOrders' = EnteredOrders /\ risk'.trade_count = risk.trade_count
           /\ (LimitReached(risk') => risk'.kill_switch)
  BY <1>1, <1>2 DEF CountInv, EntriesCounted, EnteredOrders, LimitReached
<1>3. UNCHANGED risk => (/\ risk'.trade_count = risk.trade_count
                         /\ LimitReached(risk') => risk'.kill_switch)
  BY <1>1 DEF Guarded, LimitReached
<1>4. CASE /\ UNCHANGED risk
           /\ \E id \in OrderIds : Appears(id)
  <2>1. EnteredOrders' = EnteredOrders
    BY <1>4 DEF Appears, Used, EnteredOrders
  <2> QED
    BY <1>2, <1>3, <1>4, <2>1
<1>5. ASSUME NEW id \in DOMAIN orders, NEW status, Updated(id, status)
      PROVE  CountInv'
  <2>1. CASE FirstFill(id)
    <3>1. EnteredOrders' = EnteredOrders \cup {id} /\ id \notin EnteredOrders
      BY <1>1, <1>5, <2>1 DEF Updated, FirstFill, EnteredOrders
    <3>2. IsFiniteSet(EnteredOrders')
          /\ Cardinality(EnteredOrders') = Cardinality(EnteredOrders) + 1
      BY <1>1, <3>1, FS_AddElement
    <3> QED
      BY <1>1, <1>5, <2>1, <3>2
         DEF Updated, CountInv, EntriesCounted, EnteredOrders, LimitReached
  <2>2. CASE ~FirstFill(id)
    <3>1. EnteredOrders' = EnteredOrders
      BY <1>1, <1>5, <2>2 DEF Updated, FirstFill, EnteredOrders
    <3>2. risk.trade_count \in Nat
      BY DEF IInv, TypeOK, RiskState
    <3> QED
      BY <1>2, <1>5, <2>2, <3>1, <3>2 DEF Updated
  <2> QED
    BY <2>1, <2>2
<1>6. CASE /\ UNCHANGED risk /\ DOMAIN orders' = DOMAIN orders
           /\ \A i \in DOMAIN orders : /\ orders'[i].intent = orders[i].intent
                                       /\ orders'[i].filled = orders[i].filled
  <2>1. EnteredOrders' = EnteredOrders
    BY <1>6 DEF EnteredOrders
  <2> QED
    BY <1>2, <1>3, <1>6, <2>1
<1> QED
  BY <1>1, <1>4, <1>5, <1>6, StepsOfCount

(* "The first execution of an ENTRY order consumes the daily trade limit": *)
(* the counter of the risk manager is the number of entries that executed, *)
(* and a reached limit has closed the entries, whatever the order of       *)
(* calls, partial fills, repeated and late reports.                        *)
THEOREM EntriesCountedAlways == Spec => []EntriesCounted
<1>1. Init => IInv /\ BooksAgree /\ CountInv
  <2> SUFFICES ASSUME Init PROVE CountInv
    BY InitIInv, InitBooks
  <2>1. EnteredOrders = {}
    BY DEF Init, EmptyDict, EnteredOrders
  <2>2. IsFiniteSet({}) /\ Cardinality({}) = 0
    BY FS_EmptySet
  <2>3. risk.trade_count = 0 /\ ~LimitReached(risk)
    BY RiskAssumption DEF Init, InitialRisk, LimitReached
  <2> QED
    BY <2>1, <2>2, <2>3 DEF CountInv, EntriesCounted, EnteredOrders
<1>2. IInv /\ BooksAgree /\ CountInv /\ [Next]_vars => (IInv /\ BooksAgree /\ CountInv)'
  BY NextKeepsIInv, NextKeepsBooks, NextKeepsCount
<1>3. CountInv => EntriesCounted
  BY DEF CountInv
<1> QED
  BY <1>1, <1>2, <1>3, PTL DEF Spec

-----------------------------------------------------------------------------
(* How far the counter may pass the limit.  Entries that wait for their    *)
(* first execution are of different symbols, and the last of them was sent *)
(* below the limit.                                                        *)
Waiting ==
  {i \in DOMAIN orders : /\ orders[i].intent = "ENTRY"
                         /\ orders[i].status \in Pending
                         /\ orders[i].filled = 0}

NearInv ==
  /\ IsFiniteSet(Waiting)
  /\ \A i, j \in Waiting : orders[i].symbol = orders[j].symbol => i = j
  /\ risk.trade_count + Cardinality(Waiting) <= MaxTrades + Cardinality(Symbols) - 1

LEMMA NextStaysNear ==
  ASSUME IsFiniteSet(Symbols), IInv, IInv', BooksAgree, Guarded, NearInv, [Next]_vars
  PROVE  NearInv'
<1>1. /\ risk.trade_count \in Nat /\ risk'.trade_count \in Nat
      /\ Cardinality(Waiting) \in Nat /\ Cardinality(Symbols) \in Nat
      /\ MaxTrades \in Nat
      /\ \A i \in DOMAIN orders : orders[i].filled \in Nat /\ orders[i].symbol \in Symbols
      /\ \A i \in DOMAIN orders' : orders'[i].symbol \in Symbols
  BY FS_CardinalityType, RiskAssumption DEF NearInv, IInv, TypeOK, RiskState, Order
<1>2. ASSUME Waiting' \subseteq Waiting, risk'.trade_count = risk.trade_count,
             \A i \in Waiting' : orders'[i].symbol = orders[i].symbol
      PROVE  NearInv'
  <2>1. IsFiniteSet(Waiting') /\ Cardinality(Waiting') <= Cardinality(Waiting)
        /\ Cardinality(Waiting') \in Nat
    BY <1>2, FS_Subset, FS_CardinalityType DEF NearInv
  <2>2. \A i, j \in Waiting' : orders'[i].symbol = orders'[j].symbol => i = j
    BY <1>2 DEF NearInv
  <2>3. risk'.trade_count + Cardinality(Waiting') <= MaxTrades + Cardinality(Symbols) - 1
    BY <1>1, <1>2, <2>1 DEF NearInv
  <2> QED
    BY <2>1, <2>2, <2>3 DEF NearInv
<1>3. ASSUME NEW id \in OrderIds, Appears(id), UNCHANGED risk,
             orders'[id].intent = "ENTRY" =>
               CanTrade(risk, TRUE) /\ ~HasActiveTrade(orders'[id].symbol)
      PROVE  NearInv'
  <2>1. /\ Waiting \subseteq Waiting' /\ Waiting' \subseteq Waiting \cup {id}
        /\ \A i \in Waiting : orders'[i] = orders[i]
    BY <1>3 DEF Appears, Used, Waiting
  <2>2. CASE orders'[id].intent # "ENTRY"
    BY <1>2, <1>3, <2>1, <2>2 DEF Waiting
  <2>3. CASE orders'[id].intent = "ENTRY"
    <3>1. IsFiniteSet(Waiting')
      <4>1. IsFiniteSet(Waiting \cup {id})
        BY FS_AddElement DEF NearInv
      <4> QED
        BY <2>1, <4>1, FS_Subset
    <3>2. \A i \in Waiting : orders[i].symbol # orders'[id].symbol
      BY <1>3, <2>3 DEF HasActiveTrade, Of, Waiting
    <3>3. \A i, j \in Waiting' : orders'[i].symbol = orders'[j].symbol => i = j
      BY <2>1, <3>2 DEF NearInv
    <3>4. Cardinality(Waiting') <= Cardinality(Symbols)
      <4> DEFINE f == [i \in Waiting' |-> orders'[i].symbol]
      <4>1. f \in [Waiting' -> Symbols]
        BY <1>1 DEF Waiting
      <4>2. ~(\E x, y \in Waiting' : x # y /\ f[x] = f[y])
        BY <3>3
      <4>3. Cardinality(Waiting') \in Nat
        BY <3>1, FS_CardinalityType
      <4> HIDE DEF f
      <4>4. ~(Cardinality(Symbols) < Cardinality(Waiting'))
        BY <3>1, <4>1, <4>2, FS_PigeonHole
      <4> QED
        BY <1>1, <4>3, <4>4
    <3>5. risk.trade_count < MaxTrades
      BY <1>3, <2>3 DEF CanTrade
    <3>6. Cardinality(Waiting') \in Nat
      BY <3>1, FS_CardinalityType
    <3>7. risk'.trade_count + Cardinality(Waiting') <= MaxTrades + Cardinality(Symbols) - 1
      BY <1>1, <1>3, <3>4, <3>5, <3>6
    <3> QED
      BY <3>1, <3>3, <3>7 DEF NearInv
  <2> QED
    BY <2>2, <2>3
<1>4. ASSUME NEW id \in DOMAIN orders, NEW status \in OrderStatus, Updated(id, status),
             orders[id].status \in Pending \/ status \notin Pending,
             orders[id].status \in Pending \/ ~FirstFill(id)
      PROVE  NearInv'
  <2>1. Waiting' \subseteq Waiting /\ \A i \in Waiting' : orders'[i].symbol = orders[i].symbol
    BY <1>1, <1>4 DEF Updated, Waiting
  <2>2. CASE ~FirstFill(id)
    <3>1. risk'.trade_count = risk.trade_count
      BY <1>1, <1>4, <2>2 DEF Updated
    <3> QED
      BY <1>2, <2>1, <3>1
  <2>3. CASE FirstFill(id)
    <3>1. id \in Waiting /\ id \notin Waiting' /\ risk'.trade_count = risk.trade_count + 1
      BY <1>4, <2>3 DEF Updated, FirstFill, Waiting
    <3>2. Waiting' \subseteq Waiting \ {id}
      BY <2>1, <3>1
    <3>3. IsFiniteSet(Waiting \ {id})
          /\ Cardinality(Waiting \ {id}) = Cardinality(Waiting) - 1
      BY <3>1, FS_RemoveElement DEF NearInv
    <3>4. IsFiniteSet(Waiting') /\ Cardinality(Waiting') <= Cardinality(Waiting) - 1
          /\ Cardinality(Waiting') \in Nat
      BY <3>2, <3>3, FS_Subset, FS_CardinalityType
    <3>5. \A i, j \in Waiting' : orders'[i].symbol = orders'[j].symbol => i = j
      BY <2>1 DEF NearInv
    <3>6. risk'.trade_count + Cardinality(Waiting') <= MaxTrades + Cardinality(Symbols) - 1
      BY <1>1, <3>1, <3>4 DEF NearInv
    <3> QED
      BY <3>4, <3>5, <3>6 DEF NearInv
  <2> QED
    BY <2>2, <2>3
<1>5. CASE /\ UNCHANGED risk /\ DOMAIN orders' = DOMAIN orders
           /\ \A i \in DOMAIN orders :
                /\ orders'[i].symbol = orders[i].symbol
                /\ orders'[i].intent = orders[i].intent
                /\ orders'[i].status = orders[i].status
                /\ orders'[i].filled = orders[i].filled
  <2>1. Waiting' = Waiting
    BY <1>5 DEF Waiting
  <2>2. \A i \in Waiting' : orders'[i].symbol = orders[i].symbol
    BY <1>5 DEF Waiting
  <2> QED
    BY <1>2, <1>5, <2>1, <2>2
<1> QED
  BY <1>3, <1>4, <1>5, StepsOfCount

(* The limit is checked when an entry is sent and consumed when it         *)
(* executes: with any finite number of symbols it is exceeded by less than *)
(* that number.                                                            *)
THEOREM NearLimitAlways == IsFiniteSet(Symbols) => (Spec => []EntriesNearLimit)
<1> SUFFICES ASSUME IsFiniteSet(Symbols) PROVE Spec => []EntriesNearLimit
  OBVIOUS
<1>1. Init => NearInv
  <2> SUFFICES ASSUME Init PROVE NearInv
    OBVIOUS
  <2>1. Waiting = {}
    BY DEF Init, EmptyDict, Waiting
  <2>2. IsFiniteSet({}) /\ Cardinality({}) = 0 /\ Cardinality(Symbols) \in Nat
    BY FS_EmptySet, FS_CardinalityType
  <2>3. risk.trade_count = 0 /\ MaxTrades \in Nat \ {0}
    BY RiskAssumption DEF Init, InitialRisk
  <2> QED
    BY <2>1, <2>2, <2>3 DEF NearInv
<1>2. IInv /\ IInv' /\ BooksAgree /\ EntriesCounted /\ NearInv /\ [Next]_vars => NearInv'
  BY NextStaysNear DEF EntriesCounted, Guarded
<1>3. IInv /\ NearInv => EntriesNearLimit
  <2> SUFFICES ASSUME IInv, NearInv PROVE EntriesNearLimit
    OBVIOUS
  <2>1. /\ risk.trade_count \in Nat /\ MaxTrades \in Nat
        /\ Cardinality(Waiting) \in Nat /\ Cardinality(Symbols) \in Nat
    BY FS_CardinalityType, RiskAssumption DEF NearInv, IInv, TypeOK, RiskState
  <2> QED
    BY <2>1 DEF NearInv, EntriesNearLimit
<1>4. Init /\ [][Next]_vars => []IInv
  BY InitIInv, NextKeepsIInv, PTL
<1>5. Init /\ [][Next]_vars => []BooksAgree /\ []EntriesCounted
  BY BooksAgreeAlways, EntriesCountedAlways, PTL DEF Spec
<1> QED
  BY <1>1, <1>2, <1>3, <1>4, <1>5, PTL DEF Spec

-----------------------------------------------------------------------------
(* What one call of update_order_state does to a known order and to the    *)
(* position of its symbol.                                                 *)
Recorded(id, status, filled) ==
  /\ DOMAIN orders' = DOMAIN orders
  /\ \A i \in DOMAIN orders \ {id} : orders'[i] = orders[i]
  /\ orders'[id].symbol = orders[id].symbol
  /\ orders'[id].side = orders[id].side
  /\ orders'[id].intent = orders[id].intent
  /\ orders'[id].quantity = orders[id].quantity
  /\ orders'[id].status = status
  /\ orders'[id].filled = filled
  /\ orders[id].filled <= filled
  /\ status = "FILLED" => filled = orders[id].quantity
  /\ \/ orders[id].status = status /\ filled > orders[id].filled
     \/ <<orders[id].status, status>> \in Transitions

Becomes(s, p) == \A t \in Symbols : positions'[t] = IF t = s THEN p ELSE positions[t]

(* A released position: the exit ended without executing.                  *)
Releases(id, status) ==
  /\ orders[id].intent = "EXIT" /\ status \in Unfilled
  /\ positions[orders[id].symbol].status = "EXIT_PENDING"

Booked(id, status, q) ==
  LET o    == orders[id]
      held == positions[o.symbol]
  IN
  \/ /\ q = 0 /\ UNCHANGED raised
     /\ IF Releases(id, status)
        THEN Becomes(o.symbol, [quantity |-> held.quantity, status |-> "OPEN"])
        ELSE UNCHANGED positions
  \/ /\ q > 0 /\ raised' = "ValueError" /\ UNCHANGED positions
     /\ IF o.intent = "ENTRY" THEN held.quantity # 0
        ELSE held.status # "NONE" /\ Size(held) < q
  \/ /\ q > 0 /\ UNCHANGED raised
     /\ o.intent = "ENTRY"
     /\ Becomes(o.symbol, [quantity |-> held.quantity + Signed(o, q), status |-> "OPEN"])
  \/ /\ q > 0 /\ UNCHANGED <<positions, raised>>
     /\ o.intent = "EXIT" /\ held.status = "NONE"
  \/ /\ q > 0 /\ UNCHANGED raised
     /\ o.intent = "EXIT" /\ held.status # "NONE" /\ Size(held) >= q
     /\ Becomes(o.symbol, Reduced(held, q))

LEMMA UpdateBooks ==
  ASSUME IInv, NEW id \in DOMAIN orders, WellFilled(orders[id]),
         NEW o \in Order, o.quantity = orders[id].quantity,
         o.symbol = orders[id].symbol, o.intent = orders[id].intent,
         o.side = orders[id].side, orders[id].filled <= o.filled,
         NEW status \in OrderStatus,
         UpdateOrderState(id, o, status)
  PROVE  \/ /\ UNCHANGED <<orders, positions>>
            /\ raised' = raised \/ raised' = "ValueError"
         \/ /\ Recorded(id, status, FilledQuantity(o, status))
            /\ Booked(id, status, FilledQuantity(o, status) - orders[id].filled)
<1> DEFINE filled  == FilledQuantity(o, status)
           updated == [o EXCEPT !.status = status, !.filled = filled]
           q       == filled - orders[id].filled
           held    == positions[orders[id].symbol]
<1>1. /\ orders[id] \in Order /\ orders[id].filled \in Nat
      /\ FilledQuantity(orders[id], orders[id].status) = orders[id].filled
  BY RecordedFill DEF IInv, TypeOK, Order
<1>2. /\ filled \in Nat /\ orders[id].filled <= filled
      /\ status = "FILLED" => filled = orders[id].quantity
  BY <1>1 DEF FilledQuantity, WellFilled, Order
<1>3. /\ updated.status = status /\ updated.filled = filled
      /\ updated.symbol = orders[id].symbol /\ updated.intent = orders[id].intent
      /\ updated.side = orders[id].side /\ updated.quantity = orders[id].quantity
  <2> HIDE DEF filled
  <2> QED
    BY DEF Order
<1>4. /\ orders[id].symbol \in Symbols /\ held \in Position
      /\ positions \in [Symbols -> Position]
  BY <1>1 DEF IInv, TypeOK, Order
<1>5. \/ /\ UNCHANGED <<orders, positions>>
         /\ raised' = raised \/ raised' = "ValueError"
      \/ /\ orders' = Put(orders, id, updated)
         /\ \/ orders[id].status = status /\ filled > orders[id].filled
            \/ <<orders[id].status, status>> \in Transitions
         /\ \/ q > 0 /\ updated.intent = "ENTRY" /\ ApplyEntryFill(updated, q)
            \/ q > 0 /\ updated.intent = "EXIT" /\ ApplyExitFill(updated, q)
            \/ q = 0 /\ ReleasePosition(updated, status)
  <2>1. /\ orders[id].filled < filled <=> q > 0
        /\ ~(orders[id].filled < filled) <=> q = 0
    BY <1>1, <1>2
  <2> HIDE DEF filled
  <2> QED
    BY <1>1, <1>2, <1>3, <2>1 DEF UpdateOrderState, tmvars, filled, Executed, Allowed
<1> HIDE DEF updated, filled
<1>6. CASE /\ orders' = Put(orders, id, updated)
           /\ \/ orders[id].status = status /\ filled > orders[id].filled
              \/ <<orders[id].status, status>> \in Transitions
           /\ \/ q > 0 /\ updated.intent = "ENTRY" /\ ApplyEntryFill(updated, q)
              \/ q > 0 /\ updated.intent = "EXIT" /\ ApplyExitFill(updated, q)
              \/ q = 0 /\ ReleasePosition(updated, status)
  <2>1. /\ DOMAIN orders' = DOMAIN orders /\ orders'[id] = updated
        /\ \A i \in DOMAIN orders \ {id} : orders'[i] = orders[i]
    BY <1>6 DEF Put
  <2>2. Recorded(id, status, filled)
    BY <1>2, <1>3, <1>6, <2>1 DEF Recorded
  <2>3. ASSUME NEW p, positions' = [positions EXCEPT ![orders[id].symbol] = p]
        PROVE  Becomes(orders[id].symbol, p)
    BY <1>4, <2>3 DEF Becomes
  <2>4. Booked(id, status, q)
    <3> HIDE DEF q
    <3>1. CASE q > 0 /\ updated.intent = "ENTRY" /\ ApplyEntryFill(updated, q)
      <4>1. Signed(updated, q) = Signed(orders[id], q)
        BY <1>3 DEF Signed
      <4> QED
        BY <1>3, <2>3, <3>1, <4>1 DEF ApplyEntryFill, Booked
    <3>2. CASE q > 0 /\ updated.intent = "EXIT" /\ ApplyExitFill(updated, q)
      BY <1>3, <2>3, <3>2 DEF ApplyExitFill, Booked
    <3>3. CASE q = 0 /\ ReleasePosition(updated, status)
      <4> DEFINE open == [quantity |-> held.quantity, status |-> "OPEN"]
      <4>1. CASE Releases(id, status)
        <5>1. positions' = [positions EXCEPT ![orders[id].symbol].status = "OPEN"]
          BY <1>3, <3>3, <4>1 DEF ReleasePosition, Releases
        <5>2. [held EXCEPT !.status = "OPEN"] = open
          BY <1>4 DEF Position
        <5>3. positions' = [positions EXCEPT ![orders[id].symbol] = open]
          BY <5>1, <5>2
        <5>4. Becomes(orders[id].symbol, open)
          BY <2>3, <5>3
        <5> QED
          BY <3>3, <4>1, <5>4 DEF Booked, ReleasePosition
      <4>2. CASE ~Releases(id, status)
        <5>1. UNCHANGED <<positions, raised>>
          BY <1>3, <3>3, <4>2 DEF ReleasePosition, Releases
        <5> QED
          BY <3>3, <4>2, <5>1 DEF Booked
      <4> QED
        BY <4>1, <4>2
    <3> QED
      BY <1>6, <3>1, <3>2, <3>3
  <2> QED
    BY <2>2, <2>4 DEF filled
<1> QED
  BY <1>5, <1>6

-----------------------------------------------------------------------------
(* How a step touches the orders and the positions.                        *)

Opposes(o, p) ==
  /\ p.status # "NONE"
  /\ p.quantity > 0 => o.side = "SELL"
  /\ p.quantity < 0 => o.side = "BUY"

EntersNew(id) ==
  /\ Appears(id)
  /\ orders'[id].intent = "ENTRY"
  /\ orders'[id].side \in Sides
  /\ ~HasActiveTrade(orders'[id].symbol)
  /\ UNCHANGED positions

ExitsNew(id) ==
  LET o == orders'[id]
      held == positions[o.symbol]
  IN
  /\ Appears(id)
  /\ o.intent = "EXIT"
  /\ o.quantity = Size(held)
  /\ held.status = "OPEN"
  /\ Opposes(o, held)
  /\ \/ /\ o.status = "SUBMITTED"
        /\ Becomes(o.symbol, [quantity |-> held.quantity, status |-> "EXIT_PENDING"])
     \/ o.status \notin Pending /\ UNCHANGED positions

Applies(id, status, filled) ==
  /\ orders[id].status \in Pending
  /\ Recorded(id, status, filled)
  /\ Booked(id, status, filled - orders[id].filled)

LEMMA EnterIsNew ==
  ASSUME IInv, NEW s \in Symbols, EnterTrade(s)
  PROVE  \E id \in OrderIds : EntersNew(id)
<1>1. PICK id \in OrderIds \ Used, side \in Sides, quantity \in 1..MaxQty :
        LET o == NewOrder(s, side, "ENTRY", quantity) IN
        \/ Accepted(id, o) /\ UNCHANGED positions
        \/ NotAccepted(id, o)
  BY DEF EnterTrade, Fresh
<1> DEFINE o == NewOrder(s, side, "ENTRY", quantity)
<1>2. o \in Order /\ o.filled = 0 /\ o.symbol = s /\ o.intent = "ENTRY" /\ o.side \in Sides
  BY OrderAssumption DEF NewOrder, Order, OrderStatus
<1> HIDE DEF o
<1>3. Accepted(id, o) \/ NotAccepted(id, o)
  BY <1>1 DEF o
<1>4. Appears(id) /\ UNCHANGED positions /\ ~HasActiveTrade(s)
  BY <1>1, <1>2, <1>3, CreateAppears
     DEF EnterTrade, NotAccepted, RefusedBeforeSending, RejectedByBroker,
         Uncertain, ReadFailed, o
<1>5. \E status : orders'[id] = [o EXCEPT !.status = status]
  BY <1>3 DEF Accepted, NotAccepted, RefusedBeforeSending, RejectedByBroker,
              Uncertain, ReadFailed, Put
<1>6. orders'[id].symbol = s /\ orders'[id].intent = "ENTRY" /\ orders'[id].side \in Sides
  BY <1>2, <1>5 DEF Order
<1> QED
  BY <1>4, <1>6 DEF EntersNew

LEMMA ExitIsNew ==
  ASSUME IInv, NEW s \in Symbols, SubmitExit(s)
  PROVE  \E id \in OrderIds : ExitsNew(id)
<1> DEFINE held == positions[s]
           o    == NewOrder(s, IF held.quantity > 0 THEN "SELL" ELSE "BUY",
                            "EXIT", Size(held))
<1>1. PICK id \in OrderIds \ Used :
        \/ /\ Accepted(id, o)
           /\ positions' = [positions EXCEPT ![s].status = "EXIT_PENDING"]
        \/ NotAccepted(id, o)
  BY DEF SubmitExit, Fresh
<1>2. Size(held) \in Nat \ {0} /\ held \in Position /\ held.status = "OPEN"
      /\ positions \in [Symbols -> Position]
  BY DEF SubmitExit, MayExit, IInv, TypeOK, StatusMatchesQuantity, Active, Position, Size
<1>3. /\ o \in Order /\ o.filled = 0 /\ o.intent = "EXIT" /\ o.symbol = s
      /\ o.quantity = Size(held) /\ Opposes(o, held)
  BY <1>2 DEF NewOrder, Order, OrderStatus, Opposes, Position
<1> HIDE DEF o
<1>4. Appears(id)
  BY <1>1, <1>3, CreateAppears DEF SubmitExit
<1>5. \E status : orders'[id] = [o EXCEPT !.status = status]
  BY <1>1 DEF Accepted, NotAccepted, RefusedBeforeSending, RejectedByBroker,
              Uncertain, ReadFailed, Put
<1>6. /\ orders'[id].symbol = s /\ orders'[id].intent = "EXIT"
      /\ orders'[id].side = o.side /\ orders'[id].quantity = Size(held)
  BY <1>3, <1>5 DEF Order
<1>7. Opposes(orders'[id], held)
  BY <1>3, <1>6 DEF Opposes
<1>8. /\ "VALIDATED" \notin Pending /\ "REJECTED" \notin Pending
  BY DEF Pending
<1>9. CASE positions' = [positions EXCEPT ![s].status = "EXIT_PENDING"] /\ Accepted(id, o)
  <2>1. [held EXCEPT !.status = "EXIT_PENDING"]
          = [quantity |-> held.quantity, status |-> "EXIT_PENDING"]
    BY <1>2 DEF Position
  <2>2. Becomes(s, [quantity |-> held.quantity, status |-> "EXIT_PENDING"])
    BY <1>2, <1>9, <2>1 DEF Becomes
  <2>3. orders'[id].status = "SUBMITTED"
    BY <1>3, <1>9 DEF Accepted, Put, Order
  <2> QED
    BY <1>2, <1>4, <1>6, <1>7, <2>2, <2>3 DEF ExitsNew
<1>10. CASE NotAccepted(id, o)
  <2>1. /\ UNCHANGED positions
        /\ orders'[id] = [o EXCEPT !.status = "VALIDATED"]
           \/ orders'[id] = [o EXCEPT !.status = "REJECTED"]
    BY <1>10 DEF NotAccepted, RefusedBeforeSending, RejectedByBroker,
                Uncertain, ReadFailed, Put
  <2>2. orders'[id].status \notin Pending
    BY <1>3, <1>8, <2>1 DEF Order
  <2> QED
    BY <1>2, <1>4, <1>6, <1>7, <2>1, <2>2 DEF ExitsNew
<1> QED
  BY <1>1, <1>9, <1>10

LEMMA ReconcileApplies ==
  ASSUME IInv, BooksAgree, NEW id, ReconcileOne(id)
  PROVE  /\ id \in DOMAIN orders /\ raised = "none"
         /\ \/ /\ UNCHANGED <<orders, positions>>
               /\ raised' = raised \/ raised' = "ValueError"
            \/ Applies(id, inbox[id].status, inbox[id].filled)
<1> DEFINE o == [orders[id] EXCEPT !.filled = inbox[id].filled]
           status == inbox[id].status
<1>1. /\ id \in DOMAIN inbox /\ id \in DOMAIN orders /\ id \in DOMAIN book
      /\ inbox[id].filled \in Nat /\ status \in OrderStatus
      /\ orders[id] \in Order /\ book[id] \in Order /\ WellFilled(orders[id])
      /\ orders[id].filled <= inbox[id].filled /\ orders[id].status \in Pending
      /\ raised = "none"
  BY DEF ReconcileOne, IInv, TypeOK, BooksAgree, InboxIsRecent
<1>2. /\ o \in Order /\ o.quantity = orders[id].quantity
      /\ o.symbol = orders[id].symbol /\ o.intent = orders[id].intent
      /\ o.side = orders[id].side /\ o.filled = inbox[id].filled
      /\ UpdateOrderState(id, o, status)
  BY <1>1 DEF Order, ReconcileOne
<1>3. FilledQuantity(o, status) = inbox[id].filled
  <2>1. /\ inbox[id].filled <= book[id].filled
        /\ book[id].filled <= book[id].quantity
        /\ book[id].quantity = o.quantity
        /\ status = "FILLED" => inbox[id].filled = book[id].quantity
    BY <1>1, <1>2 DEF BooksAgree, InboxIsRecent, WellFilled
  <2> HIDE DEF o, status
  <2> QED
    BY <1>1, <1>2, <2>1 DEF FilledQuantity, Order
<1> HIDE DEF o, status
<1>4. \/ /\ UNCHANGED <<orders, positions>>
         /\ raised' = raised \/ raised' = "ValueError"
      \/ /\ Recorded(id, status, inbox[id].filled)
         /\ Booked(id, status, inbox[id].filled - orders[id].filled)
  BY <1>1, <1>2, <1>3, UpdateBooks
<1> QED
  BY <1>1, <1>4 DEF Applies, status

LEMMA CancelApplies ==
  ASSUME IInv, BooksAgree, NEW id, CancelOrder(id)
  PROVE  /\ id \in DOMAIN orders /\ raised = "none"
         /\ \/ /\ UNCHANGED <<orders, positions>>
               /\ raised' = raised \/ raised' = "ValueError"
            \/ Applies(id, "CANCELLED", orders[id].filled)
<1>1. /\ id \in DOMAIN orders /\ raised = "none"
      /\ orders[id] \in Order /\ WellFilled(orders[id])
      /\ orders[id].filled <= orders[id].filled
      /\ UpdateOrderState(id, orders[id], "CANCELLED")
  BY DEF CancelOrder, Idle, IInv, TypeOK, BooksAgree, Order
<1>2. FilledQuantity(orders[id], "CANCELLED") = orders[id].filled
  BY <1>1 DEF FilledQuantity, WellFilled, Order
<1>3. \/ /\ UNCHANGED <<orders, positions>>
         /\ raised' = raised \/ raised' = "ValueError"
      \/ /\ Recorded(id, "CANCELLED", orders[id].filled)
         /\ Booked(id, "CANCELLED", orders[id].filled - orders[id].filled)
  <2>1. "CANCELLED" \in OrderStatus
    BY StatusFacts
  <2> QED
    BY <1>1, <1>2, <2>1, UpdateBooks
<1>4. Recorded(id, "CANCELLED", orders[id].filled) => orders[id].status \in Pending
  <2> SUFFICES ASSUME <<orders[id].status, "CANCELLED">> \in Transitions
               PROVE  orders[id].status \in Pending
    BY <1>1 DEF Recorded, Order
  <2> QED
    BY DEF Transitions, Pending, Terminal, Unfilled
<1> QED
  BY <1>1, <1>3, <1>4 DEF Applies

LEMMA RunnerStepsOfFills ==
  ASSUME IInv, BooksAgree, [RunnerNext]_vars
  PROVE  \/ raised = "none" /\ \E id \in OrderIds : EntersNew(id) \/ ExitsNew(id)
         \/ raised = "none" /\ \E id \in DOMAIN orders : \E status : \E filled \in Nat :
                                 Applies(id, status, filled)
         \/ raised = "none" /\ UNCHANGED <<orders, positions>>
         \/ /\ UNCHANGED <<orders, positions>>
            /\ raised' = raised \/ raised' = "ValueError"
<1>1. CASE UNCHANGED vars \/ ReconcileBegin \/ \E id \in DOMAIN book : BrokerStep(id)
  BY <1>1 DEF vars, ReconcileBegin, BrokerStep, tmvars
<1>2. CASE \E s \in Symbols : EnterTrade(s) \/ SubmitExit(s)
  BY <1>2, EnterIsNew, ExitIsNew DEF EnterTrade, SubmitExit, Idle
<1>3. ASSUME NEW id \in DOMAIN inbox, ReconcileOne(id)
      PROVE  \/ raised = "none" /\ \E i \in DOMAIN orders : \E status : \E filled \in Nat :
                                     Applies(i, status, filled)
             \/ /\ UNCHANGED <<orders, positions>>
                /\ raised' = raised \/ raised' = "ValueError"
  <2>1. inbox[id].filled \in Nat
    BY DEF IInv, TypeOK
  <2> QED
    BY <1>3, <2>1, ReconcileApplies
<1>4. CASE LeaveLoop
  BY <1>4 DEF LeaveLoop, Idle
<1> QED
  BY <1>1, <1>2, <1>3, <1>4 DEF RunnerNext

LEMMA StepsOfFills ==
  ASSUME IInv, BooksAgree, [Next]_vars
  PROVE  \/ raised = "none" /\ \E id \in OrderIds : EntersNew(id) \/ ExitsNew(id)
         \/ raised = "none" /\ \E id \in DOMAIN orders : \E status : \E filled \in Nat :
                                 Applies(id, status, filled)
         \/ raised = "none" /\ UNCHANGED <<orders, positions>>
         \/ /\ UNCHANGED <<orders, positions>>
            /\ raised' = raised \/ raised' = "ValueError"
<1>1. ASSUME NEW id \in DOMAIN orders, CancelOrder(id)
      PROVE  \/ raised = "none" /\ \E i \in DOMAIN orders : \E status : \E filled \in Nat :
                                     Applies(i, status, filled)
             \/ /\ UNCHANGED <<orders, positions>>
                /\ raised' = raised \/ raised' = "ValueError"
  <2>1. orders[id].filled \in Nat
    BY DEF IInv, TypeOK, Order
  <2> QED
    BY <1>1, <2>1, CancelApplies
<1>2. ASSUME NEW id \in DOMAIN orders, CancelUncertain(id)
      PROVE  raised = "none" /\ UNCHANGED <<orders, positions>>
  BY <1>2 DEF CancelUncertain, Idle
<1> QED
  BY <1>1, <1>2, RunnerStepsOfFills DEF Next

-----------------------------------------------------------------------------
(* The position is the sum of the fills.                                   *)

(* A waiting exit is on the side that closes its position.                 *)
ExitsOppose ==
  \A i \in DOMAIN orders :
    orders[i].intent = "EXIT" /\ orders[i].status \in Pending
      => Opposes(orders[i], positions[orders[i].symbol])

FillsInv == IsFiniteSet(DOMAIN orders) /\ PositionIsSumOfFills

LEMMA NothingSigned == ASSUME NEW o, NEW q, q = 0 PROVE Signed(o, q) = 0
<1>1. \A n \in Int : -n <= 0 /\ -n >= 0 => -n = 0
  OBVIOUS
<1>2. -0 <= 0 /\ -0 >= 0 /\ 0 \in Int
  OBVIOUS
<1>3. -0 = 0
  BY <1>1, <1>2, Zenon
<1> QED
  BY <1>3, Zenon DEF Signed

LEMMA FillsOfType ==
  ASSUME IInv, IInv', NEW s
  PROVE  /\ FillsOf(s) \in [{j \in DOMAIN orders : orders[j].symbol = s} -> Int]
         /\ FillsOf(s)' \in [{j \in DOMAIN orders' : orders'[j].symbol = s} -> Int]
<1>1. /\ \A i \in DOMAIN orders : Signed(orders[i], orders[i].filled) \in Int
      /\ \A i \in DOMAIN orders' : Signed(orders'[i], orders'[i].filled) \in Int
  BY DEF IInv, TypeOK, Order, Signed
<1> QED
  BY <1>1 DEF FillsOf

(* A new order has executed nothing.                                       *)
LEMMA NewOrderAddsNothing ==
  ASSUME IInv, IInv', IsFiniteSet(DOMAIN orders), NEW id, Appears(id), NEW s
  PROVE  /\ IsFiniteSet(DOMAIN orders')
         /\ SumFunction(FillsOf(s)') = SumFunction(FillsOf(s))
<1> DEFINE D == {j \in DOMAIN orders : orders[j].symbol = s}
<1>1. /\ id \notin DOMAIN orders /\ DOMAIN orders' = DOMAIN orders \cup {id}
      /\ \A i \in DOMAIN orders : orders'[i] = orders[i]
      /\ orders'[id].filled = 0
  BY DEF Appears, Used
<1>2. IsFiniteSet(DOMAIN orders') /\ IsFiniteSet(D)
  BY <1>1, FS_AddElement, FS_Subset
<1>3. FillsOf(s) \in [D -> Int]
      /\ FillsOf(s)' \in [{j \in DOMAIN orders' : orders'[j].symbol = s} -> Int]
  BY FillsOfType
<1>4. CASE orders'[id].symbol = s
  <2>1. {j \in DOMAIN orders' : orders'[j].symbol = s} = D \cup {id} /\ id \notin D
    BY <1>1, <1>4
  <2>2. FillsOf(s)'[id] = 0
    <3>1. FillsOf(s)'[id] = Signed(orders'[id], orders'[id].filled)
      BY <1>1, <2>1 DEF FillsOf
    <3>2. Signed(orders'[id], orders'[id].filled) = 0
      BY <1>1, NothingSigned
    <3> QED
      BY <3>1, <3>2
  <2>3. \A x \in D \ {id} : FillsOf(s)'[x] = FillsOf(s)[x]
    BY <1>1, <2>1 DEF FillsOf, Signed
  <2>4. SumFunction(FillsOf(s)) \in Int
    <3>1. /\ DOMAIN FillsOf(s) = D /\ FillsOf(s) = [x \in D |-> FillsOf(s)[x]]
          /\ \A x \in D : FillsOf(s)[x] \in Int
      BY <1>3
    <3> HIDE DEF D
    <3> QED
      BY <1>2, <3>1, Sum
  <2> DEFINE f == FillsOf(s)
             g == FillsOf(s)'
  <2>5. f \in [D -> Int] /\ g \in [D \cup {id} -> Int]
    BY <1>3, <2>1
  <2>7. /\ IsFiniteSet(D) /\ f \in [D -> Int] /\ g \in [D \cup {id} -> Int]
        /\ \A x \in D \ {id} : g[x] = f[x]
    BY <1>2, <2>3, <2>5
  <2> HIDE DEF f, g, D
  <2>6. SumFunction(g) = SumFunction(f) + g[id] - (IF id \in D THEN f[id] ELSE 0)
    <3>1. \A h \in [D -> Int] : \A k \in [D \cup {id} -> Int] :
            (\A x \in D \ {id} : k[x] = h[x])
              => SumFunction(k) = SumFunction(h) + k[id] - (IF id \in D THEN h[id] ELSE 0)
      BY <2>7, SumChange
    <3> QED
      BY <2>7, <3>1
  <2> QED
    BY <1>2, <2>1, <2>2, <2>4, <2>6 DEF f, g
<1>5. CASE orders'[id].symbol # s
  <2>1. {j \in DOMAIN orders' : orders'[j].symbol = s} = D
    BY <1>1, <1>5
  <2>2. FillsOf(s)' = FillsOf(s)
    BY <1>1, <2>1 DEF FillsOf, Signed
  <2> QED
    BY <1>2, <2>2
<1> QED
  BY <1>4, <1>5

(* A recorded execution adds its growth to the fills of its symbol.        *)
LEMMA RecordedAddsGrowth ==
  ASSUME IInv, IInv', IsFiniteSet(DOMAIN orders), NEW id \in DOMAIN orders,
         NEW status, NEW filled \in Nat, Recorded(id, status, filled), NEW s
  PROVE  SumFunction(FillsOf(s)') =
           IF orders[id].symbol = s
           THEN SumFunction(FillsOf(s)) + Signed(orders[id], filled - orders[id].filled)
           ELSE SumFunction(FillsOf(s))
<1> DEFINE D == {j \in DOMAIN orders : orders[j].symbol = s}
           f == FillsOf(s)
           g == FillsOf(s)'
<1>1. {j \in DOMAIN orders' : orders'[j].symbol = s} = D /\ IsFiniteSet(D)
  BY FS_Subset DEF Recorded
<1>2. f \in [D -> Int] /\ g \in [D -> Int]
  BY <1>1, FillsOfType
<1>3. \A x \in D \ {id} : g[x] = f[x]
  BY <1>1 DEF FillsOf, Recorded
<1>4. CASE orders[id].symbol # s
  <2>1. f = g
    BY <1>2, <1>3, <1>4
  <2> QED
    BY <1>4, <2>1
<1>5. CASE orders[id].symbol = s
  <2>1. id \in D /\ D \cup {id} = D
    BY <1>5
  <2>2. /\ f[id] = Signed(orders[id], orders[id].filled)
        /\ g[id] = Signed(orders[id], filled)
    BY <1>1, <2>1 DEF FillsOf, Recorded, Signed
  <2>3. g[id] - f[id] = Signed(orders[id], filled - orders[id].filled)
    BY <2>2 DEF Signed, IInv, TypeOK, Order
  <2>4. SumFunction(f) \in Int
    <3>1. /\ DOMAIN f = D /\ f = [x \in D |-> f[x]] /\ \A x \in D : f[x] \in Int
      BY <1>2
    <3> HIDE DEF D, f
    <3> QED
      BY <1>1, <3>1, Sum
  <2>5. f[id] \in Int /\ g[id] \in Int
    BY <1>2, <2>1
  <2>8. /\ IsFiniteSet(D) /\ f \in [D -> Int] /\ g \in [D \cup {id} -> Int]
        /\ \A x \in D \ {id} : g[x] = f[x]
    BY <1>1, <1>2, <1>3, <2>1
  <2> HIDE DEF f, g, D
  <2>6. SumFunction(g) = SumFunction(f) + g[id] - f[id]
    <3>1. SumFunction(g) = SumFunction(f) + g[id] - (IF id \in D THEN f[id] ELSE 0)
      <4>1. \A h \in [D -> Int] : \A k \in [D \cup {id} -> Int] :
              (\A x \in D \ {id} : k[x] = h[x])
                => SumFunction(k) = SumFunction(h) + k[id] - (IF id \in D THEN h[id] ELSE 0)
        BY <2>8, SumChange
      <4> QED
        BY <2>8, <4>1
    <3> QED
      BY <2>1, <3>1
  <2>7. SumFunction(g) = SumFunction(f) + Signed(orders[id], filled - orders[id].filled)
    BY <2>3, <2>4, <2>5, <2>6
  <2> QED
    BY <1>5, <2>7 DEF f, g
<1> QED
  BY <1>4, <1>5

LEMMA NextKeepsFills ==
  ASSUME IInv, BooksAgree, ExitsOppose, FillsInv, [Next]_vars
  PROVE  FillsInv'
<1>1. IInv'
  BY NextKeepsIInv
<1>2. ASSUME raised = "none", NEW id \in OrderIds, EntersNew(id) \/ ExitsNew(id)
      PROVE  FillsInv'
  <2>1. Appears(id)
    BY <1>2 DEF EntersNew, ExitsNew
  <2>2. \A s \in Symbols : positions'[s].quantity = positions[s].quantity
    BY <1>2 DEF EntersNew, ExitsNew, Becomes
  <2>3. \A s \in Symbols : positions[s].quantity = SumFunction(FillsOf(s))
    BY <1>2 DEF FillsInv, PositionIsSumOfFills
  <2>4. IsFiniteSet(DOMAIN orders')
    BY <1>1, <2>1, NewOrderAddsNothing DEF FillsInv
  <2>5. \A s \in Symbols : SumFunction(FillsOf(s)') = SumFunction(FillsOf(s))
    BY <1>1, <2>1, NewOrderAddsNothing DEF FillsInv
  <2> QED
    BY <2>2, <2>3, <2>4, <2>5 DEF FillsInv, PositionIsSumOfFills
<1>3. ASSUME raised = "none", NEW id \in DOMAIN orders, NEW status, NEW filled \in Nat,
             Applies(id, status, filled)
      PROVE  FillsInv'
  <2> DEFINE o == orders[id]
             q == filled - o.filled
             held == positions[o.symbol]
  <2>1. /\ o \in Order /\ o.symbol \in Symbols /\ q \in Nat /\ held \in Position
    BY <1>3 DEF IInv, TypeOK, Order, Applies, Recorded
  <2>2. IsFiniteSet(DOMAIN orders')
    BY <1>3 DEF Applies, Recorded, FillsInv
  <2>3. SUFFICES ASSUME raised' # "ValueError", NEW s \in Symbols
                 PROVE  positions'[s].quantity = SumFunction(FillsOf(s)')
    BY <2>2 DEF FillsInv, PositionIsSumOfFills
  <2>4. positions[s].quantity = SumFunction(FillsOf(s))
    BY <1>3 DEF FillsInv, PositionIsSumOfFills
  <2>5. SumFunction(FillsOf(s)') = IF o.symbol = s
                                   THEN SumFunction(FillsOf(s)) + Signed(o, q)
                                   ELSE SumFunction(FillsOf(s))
    BY <1>1, <1>3, RecordedAddsGrowth DEF Applies, FillsInv
  <2>6. o.intent = "EXIT" => Opposes(o, held)
    BY <1>3 DEF Applies, ExitsOppose
  <2>7. Signed(o, 0) = 0
    BY NothingSigned
  <2>8. Booked(id, status, q)
    BY <1>3 DEF Applies
  <2>9. CASE s # o.symbol
    <3>1. positions'[s] = positions[s]
      BY <2>3, <2>8, <2>9 DEF Booked, Becomes
    <3> QED
      BY <2>4, <2>5, <2>9, <3>1
  <2>10. CASE s = o.symbol
    <3>1. positions'[s].quantity = held.quantity + Signed(o, q)
      <4>1. CASE q = 0
        <5>1. positions'[s].quantity = held.quantity
          BY <2>1, <2>8, <2>10, <4>1 DEF Booked, Becomes
        <5> QED
          BY <2>1, <2>7, <4>1, <5>1 DEF Position
      <4>2. CASE q > 0 /\ o.intent = "ENTRY"
        BY <2>1, <2>3, <2>8, <2>10, <4>2 DEF Booked, Becomes
      <4>3. CASE q > 0 /\ o.intent = "EXIT"
        <5>1. /\ held.status # "NONE" /\ Size(held) >= q
              /\ positions'[s] = Reduced(held, q)
          <6> HIDE DEF q
          <6> QED
            BY <2>1, <2>3, <2>6, <2>8, <2>10, <4>3 DEF Booked, Becomes, Opposes
        <5>2. Reduced(held, q).quantity = IF held.quantity > 0 THEN held.quantity - q
                                                               ELSE held.quantity + q
          BY DEF Reduced
        <5>3. held.quantity # 0
          BY <2>1, <4>3, <5>1 DEF Size, Position
        <5>4. IF held.quantity > 0 THEN o.side = "SELL" ELSE o.side = "BUY"
          BY <2>1, <2>6, <4>3, <5>3 DEF Opposes, Position
        <5> HIDE DEF q
        <5> QED
          BY <2>1, <5>1, <5>2, <5>4 DEF Signed, Position
      <4>4. o.intent \in {"ENTRY", "EXIT"}
        BY <2>1 DEF Order
      <4> QED
        BY <2>1, <4>1, <4>2, <4>3, <4>4
    <3> QED
      BY <2>4, <2>5, <2>10, <3>1
  <2> QED
    BY <2>9, <2>10
<1>4. CASE raised = "none" /\ UNCHANGED <<orders, positions>>
  BY <1>4 DEF FillsInv, PositionIsSumOfFills, FillsOf
<1>5. CASE UNCHANGED <<orders, positions>> /\ (raised' = raised \/ raised' = "ValueError")
  BY <1>5 DEF FillsInv, PositionIsSumOfFills, FillsOf
<1> QED
  BY <1>2, <1>3, <1>4, <1>5, StepsOfFills

-----------------------------------------------------------------------------
(* A strategy that enters in one direction only: every position it holds,  *)
(* and so every exit, is on one side.                                      *)

OneDirection == ~({"BUY", "SELL"} \subseteq Sides)

DirectionInv ==
  /\ \A i \in DOMAIN orders :
       IF orders[i].intent = "ENTRY" THEN orders[i].side \in Sides
       ELSE /\ positions[orders[i].symbol].status # "NONE"
            /\ orders[i].side = "SELL" => "BUY" \in Sides
            /\ orders[i].side = "BUY" => "SELL" \in Sides
  /\ \A s \in Symbols : /\ positions[s].quantity > 0 => "BUY" \in Sides
                        /\ positions[s].quantity < 0 => "SELL" \in Sides

LEMMA DirectionOpposes ==
  ASSUME IInv, DirectionInv, OneDirection
  PROVE  ExitsOppose
<1> SUFFICES ASSUME NEW i \in DOMAIN orders, orders[i].intent = "EXIT"
             PROVE  Opposes(orders[i], positions[orders[i].symbol])
  BY DEF ExitsOppose
<1>1. orders[i].symbol \in Symbols /\ orders[i].side \in {"BUY", "SELL"}
  BY DEF IInv, TypeOK, Order
<1> QED
  BY <1>1 DEF DirectionInv, OneDirection, Opposes

(* The position a booked execution leaves is still there, and on a side    *)
(* the strategy enters.                                                    *)
LEMMA BookedDirection ==
  ASSUME IInv, DirectionInv, NEW id \in DOMAIN orders, NEW status, NEW q \in Nat,
         Booked(id, status, q), NEW s \in Symbols
  PROVE  /\ positions[s].status # "NONE" => positions'[s].status # "NONE"
         /\ positions'[s].quantity > 0 => "BUY" \in Sides
         /\ positions'[s].quantity < 0 => "SELL" \in Sides
<1> DEFINE o    == orders[id]
           held == positions[o.symbol]
<1>1. o \in Order /\ o.symbol \in Symbols /\ held \in Position
  BY DEF IInv, TypeOK, Order
<1>2. /\ positions[s].quantity > 0 => "BUY" \in Sides
      /\ positions[s].quantity < 0 => "SELL" \in Sides
      /\ held.quantity > 0 => "BUY" \in Sides
      /\ held.quantity < 0 => "SELL" \in Sides
      /\ o.intent = "ENTRY" => o.side \in Sides
  BY <1>1 DEF DirectionInv
<1>3. CASE positions'[s] = positions[s]
  BY <1>2, <1>3
<1>4. CASE s = o.symbol /\ Becomes(s, [quantity |-> held.quantity, status |-> "OPEN"])
  BY <1>2, <1>4 DEF Becomes
<1>5. CASE /\ s = o.symbol /\ o.intent = "ENTRY"
           /\ Becomes(s, [quantity |-> held.quantity + Signed(o, q), status |-> "OPEN"])
  <2>1. /\ held.quantity \in Int /\ o.side \in {"BUY", "SELL"}
        /\ positions'[s].quantity = held.quantity + Signed(o, q)
        /\ positions'[s].status = "OPEN"
    BY <1>1, <1>5 DEF Position, Order, Becomes
  <2> HIDE DEF held
  <2> QED
    BY <1>2, <1>5, <2>1 DEF Signed
<1>6. CASE /\ s = o.symbol /\ Size(held) >= q /\ held.status # "NONE"
           /\ Becomes(s, Reduced(held, q))
  <2>1. /\ held.quantity \in Int /\ positions'[s] = Reduced(held, q)
    BY <1>1, <1>6 DEF Position, Becomes
  <2>2. /\ positions'[s].quantity = IF held.quantity > 0 THEN held.quantity - q
                                                         ELSE held.quantity + q
        /\ positions'[s].status # "NONE"
    BY <2>1 DEF Reduced
  <2> HIDE DEF held
  <2> QED
    BY <1>2, <1>6, <2>1, <2>2 DEF Size
<1> QED
  BY <1>3, <1>4, <1>5, <1>6 DEF Booked, Becomes

LEMMA NextKeepsDirection ==
  ASSUME IInv, BooksAgree, DirectionInv, [Next]_vars
  PROVE  DirectionInv'
<1>1. ASSUME NEW id \in OrderIds, EntersNew(id)
      PROVE  DirectionInv'
  BY <1>1 DEF EntersNew, Appears, DirectionInv
<1>2. ASSUME NEW id \in OrderIds, ExitsNew(id)
      PROVE  DirectionInv'
  <2> DEFINE o    == orders'[id]
             held == positions[o.symbol]
  <2>1. o \in Order /\ o.symbol \in Symbols /\ held \in Position /\ held.quantity # 0
    BY <1>2 DEF ExitsNew, Appears, Order, IInv, TypeOK, StatusMatchesQuantity, Active
  <2>2. /\ o.side = "SELL" => "BUY" \in Sides
        /\ o.side = "BUY" => "SELL" \in Sides
    BY <1>2, <2>1 DEF ExitsNew, Opposes, DirectionInv, Position
  <2>3. \A s \in Symbols : /\ positions'[s].quantity = positions[s].quantity
                           /\ positions[s].status # "NONE" => positions'[s].status # "NONE"
    BY <1>2, <2>1 DEF ExitsNew, Becomes
  <2>4. positions'[o.symbol].status # "NONE" /\ o.intent # "ENTRY"
    BY <1>2, <2>1, <2>3 DEF ExitsNew
  <2>5. /\ DOMAIN orders' = DOMAIN orders \cup {id}
        /\ \A i \in DOMAIN orders : orders'[i] = orders[i] /\ orders[i].symbol \in Symbols
    BY <1>2 DEF ExitsNew, Appears, IInv, TypeOK, Order
  <2> QED
    BY <2>2, <2>3, <2>4, <2>5 DEF DirectionInv
<1>3. ASSUME NEW id \in DOMAIN orders, NEW status, NEW filled \in Nat, Applies(id, status, filled)
      PROVE  DirectionInv'
  <2>1. filled - orders[id].filled \in Nat
    BY <1>3 DEF Applies, Recorded, IInv, TypeOK, Order
  <2>2. \A s \in Symbols :
          /\ positions[s].status # "NONE" => positions'[s].status # "NONE"
          /\ positions'[s].quantity > 0 => "BUY" \in Sides
          /\ positions'[s].quantity < 0 => "SELL" \in Sides
    BY <1>3, <2>1, BookedDirection DEF Applies
  <2>3. /\ DOMAIN orders' = DOMAIN orders
        /\ \A i \in DOMAIN orders : /\ orders'[i].symbol = orders[i].symbol
                                    /\ orders'[i].side = orders[i].side
                                    /\ orders'[i].intent = orders[i].intent
                                    /\ orders[i].symbol \in Symbols
    BY <1>3 DEF Applies, Recorded, IInv, TypeOK, Order
  <2> QED
    BY <2>2, <2>3 DEF DirectionInv
<1>5. CASE UNCHANGED <<orders, positions>>
  BY <1>5 DEF DirectionInv
<1> QED
  BY <1>1, <1>2, <1>3, <1>5, StepsOfFills

-----------------------------------------------------------------------------
(* A broker that executes an order at once or not at all: an execution     *)
(* completes its order, so a position waits for at most one exit and is    *)
(* entered by at most one order at a time.                                 *)

AllOrNothing(o) == o.status # "FILLED" => o.filled = 0

WholeBooks ==
  /\ \A i \in DOMAIN book : AllOrNothing(book[i])
  /\ \A i \in DOMAIN orders : AllOrNothing(orders[i])
  /\ \A i \in DOMAIN inbox : AllOrNothing(inbox[i])

LEMMA AppearsWhole ==
  ASSUME WholeBooks, NEW id, Appears(id)
  PROVE  WholeBooks'
<1>1. id \notin DOMAIN orders /\ id \notin DOMAIN book
  BY DEF Appears, Used
<1>2. CASE UNCHANGED book
  BY <1>1, <1>2 DEF Appears, WholeBooks, AllOrNothing
<1>3. CASE /\ DOMAIN book' = DOMAIN book \cup {id}
           /\ book'[id] = orders'[id]
           /\ \A i \in DOMAIN book : book'[i] = book[i]
  BY <1>1, <1>3 DEF Appears, WholeBooks, AllOrNothing
<1>4. ASSUME NEW other \in OrderIds \ (Used \cup {id}),
             DOMAIN book' = DOMAIN book \cup {other},
             book'[other].filled = 0,
             \A i \in DOMAIN book : book'[i] = book[i]
      PROVE  WholeBooks'
  BY <1>1, <1>4 DEF Appears, WholeBooks, AllOrNothing
<1> QED
  BY <1>2, <1>3, <1>4 DEF Appears

LEMMA BrokerStepWhole ==
  ASSUME IInv, BooksAgree, WholeBooks, ~PartialFills, NEW id \in DOMAIN book, BrokerStep(id)
  PROVE  WholeBooks'
<1>1. book[id] \in Order /\ WellFilled(book[id])
  BY DEF IInv, TypeOK, BooksAgree
<1>2. PICK move \in BrokerMoves, f \in book[id].filled..book[id].quantity :
        /\ (move[2] = "FILLED") <=> (f = book[id].quantity)
        /\ f \in {0, book[id].quantity}
        /\ book' = [book EXCEPT ![id].status = move[2], ![id].filled = f]
  BY DEF BrokerStep
<1>3. book'[id].status = move[2] /\ book'[id].filled = f
  BY <1>1, <1>2 DEF Order
<1>4. AllOrNothing(book'[id])
  BY <1>2, <1>3 DEF AllOrNothing
<1> QED
  BY <1>1, <1>4, BrokerStepMoves DEF WholeBooks, tmvars

LEMMA NextKeepsWhole ==
  ASSUME IInv, BooksAgree, WholeBooks, ~PartialFills, [Next]_vars
  PROVE  WholeBooks'
<1>1. CASE UNCHANGED vars
  BY <1>1 DEF vars, WholeBooks
<1>2. CASE \E s \in Symbols : EnterTrade(s) \/ SubmitExit(s)
  BY <1>2, EnterAppears, ExitAppears, AppearsWhole
<1>3. CASE ReconcileBegin
  BY <1>3 DEF ReconcileBegin, Reported, WholeBooks, AllOrNothing, tmvars
<1>4. ASSUME NEW id \in DOMAIN inbox, ReconcileOne(id)
      PROVE  WholeBooks'
  <2>1. /\ DOMAIN inbox' \subseteq DOMAIN inbox
        /\ \A i \in DOMAIN inbox' : inbox'[i] = inbox[i]
        /\ UNCHANGED book
    BY <1>4 DEF ReconcileOne, Drop, EmptyDict
  <2>2. CASE UNCHANGED orders
    BY <2>1, <2>2 DEF WholeBooks
  <2>3. CASE Moved(id, inbox[id].status, inbox[id].filled)
    BY <2>1, <2>3 DEF WholeBooks, AllOrNothing, Moved
  <2> QED
    BY <1>4, <2>2, <2>3, ReconcileOneMoves
<1>5. ASSUME NEW id \in DOMAIN orders, CancelOrder(id)
      PROVE  WholeBooks'
  <2>1. UNCHANGED <<inbox, book>>
    BY <1>5 DEF CancelOrder
  <2>2. CASE UNCHANGED orders
    BY <2>1, <2>2 DEF WholeBooks
  <2>3. CASE Moved(id, "CANCELLED", orders[id].filled)
    <3>1. orders[id].status # "FILLED"
      <4>1. CASE orders[id].status = "CANCELLED"
        BY <4>1
      <4>2. CASE <<orders[id].status, "CANCELLED">> \in Transitions
        <5>1. <<orders[id].status, "CANCELLED">>[1] \notin Terminal
          BY <4>2, StatusFacts
        <5> QED
          BY <5>1, StatusFacts
      <4> QED
        BY <2>3, <4>1, <4>2 DEF Moved
    <3> QED
      BY <2>1, <2>3, <3>1 DEF WholeBooks, AllOrNothing, Moved
  <2> QED
    BY <1>5, <2>2, <2>3, CancelOrderMoves
<1>6. ASSUME NEW id \in DOMAIN orders, CancelUncertain(id)
      PROVE  WholeBooks'
  BY <1>6 DEF CancelUncertain, WholeBooks
<1>7. CASE LeaveLoop
  BY <1>7 DEF LeaveLoop, WholeBooks
<1> QED
  BY <1>1, <1>2, <1>3, <1>4, <1>5, <1>6, <1>7, BrokerStepWhole DEF Next, RunnerNext

Waits(i, intent) == orders[i].intent = intent /\ orders[i].status \in Pending

OneAtATime ==
  /\ \A i \in DOMAIN orders :
       /\ Waits(i, "EXIT") => /\ positions[orders[i].symbol].status = "EXIT_PENDING"
                              /\ Opposes(orders[i], positions[orders[i].symbol])
       /\ Waits(i, "ENTRY") => ~Active(positions[orders[i].symbol])
  /\ \A i, j \in DOMAIN orders : \A intent \in {"ENTRY", "EXIT"} :
       /\ orders[i].symbol = orders[j].symbol
       /\ Waits(i, intent) /\ Waits(j, intent)
       => i = j

LEMMA OneAtATimeOpposes ==
  ASSUME OneAtATime
  PROVE  ExitsOppose
BY DEF OneAtATime, ExitsOppose, Waits

(* An applied report ends its order, or leaves everything but the status.  *)
LEMMA AppliesWhole ==
  ASSUME IInv, WholeBooks, WholeBooks', NEW id \in DOMAIN orders, NEW status,
         NEW filled \in Nat, Applies(id, status, filled)
  PROVE  /\ orders[id].filled = 0
         /\ \/ /\ filled = 0 /\ status # "FILLED"
               /\ status \in Pending \cup Unfilled
            \/ /\ filled > 0 /\ status = "FILLED"
               /\ filled = orders[id].quantity
<1>1. orders[id] \in Order /\ orders[id].status \in Pending
  BY DEF IInv, TypeOK, Applies
<1>2. orders[id].filled = 0
  BY <1>1, StatusFacts DEF WholeBooks, AllOrNothing
<1>3. status \in Pending \cup Unfilled \cup {"FILLED"}
  <2>1. CASE <<orders[id].status, status>> \in Transitions
    BY <1>1, <2>1 DEF Transitions, Pending, Unfilled, Terminal
  <2> QED
    BY <1>1, <2>1 DEF Applies, Recorded
<1>4. CASE status = "FILLED"
  BY <1>1, <1>2, <1>4 DEF Applies, Recorded, Order
<1>5. CASE status # "FILLED"
  <2>1. AllOrNothing(orders'[id])
    BY DEF WholeBooks, Applies, Recorded
  <2> QED
    BY <1>2, <1>3, <1>5, <2>1 DEF AllOrNothing, Applies, Recorded
<1> QED
  BY <1>4, <1>5

LEMMA NextKeepsOneAtATime ==
  ASSUME IInv, BooksAgree, WholeBooks, WholeBooks', OneAtATime, [Next]_vars
  PROVE  OneAtATime'
<1>1. ASSUME NEW id \in OrderIds, EntersNew(id)
      PROVE  OneAtATime'
  <2>1. /\ id \notin DOMAIN orders /\ DOMAIN orders' = DOMAIN orders \cup {id}
        /\ \A i \in DOMAIN orders : orders'[i] = orders[i]
        /\ orders'[id].intent = "ENTRY" /\ UNCHANGED positions
        /\ ~Active(positions[orders'[id].symbol])
        /\ \A i \in DOMAIN orders :
             orders[i].symbol = orders'[id].symbol => ~Waits(i, "ENTRY")
    BY <1>1 DEF EntersNew, Appears, Used, HasActiveTrade, Of, Waits
  <2> QED
    BY <2>1 DEF OneAtATime, Waits, Opposes
<1>2. ASSUME NEW id \in OrderIds, ExitsNew(id)
      PROVE  OneAtATime'
  <2> DEFINE o    == orders'[id]
             held == positions[o.symbol]
  <2>1. /\ id \notin DOMAIN orders /\ DOMAIN orders' = DOMAIN orders \cup {id}
        /\ \A i \in DOMAIN orders : orders'[i] = orders[i] /\ orders[i].symbol \in Symbols
        /\ o.intent = "EXIT" /\ held.status = "OPEN" /\ o.symbol \in Symbols
        /\ Opposes(o, held)
    BY <1>2 DEF ExitsNew, Appears, Used, IInv, TypeOK, Order
  <2>2. \A i \in DOMAIN orders :
          orders[i].symbol = o.symbol => ~Waits(i, "ENTRY") /\ ~Waits(i, "EXIT")
    BY <2>1 DEF OneAtATime, Active
  <2>3. \A s \in Symbols \ {o.symbol} : positions'[s] = positions[s]
    BY <1>2 DEF ExitsNew, Becomes
  <2>4. o.status \in Pending => /\ positions'[o.symbol].status = "EXIT_PENDING"
                                /\ Opposes(o, positions'[o.symbol])
    BY <1>2, <2>1 DEF ExitsNew, Becomes, Opposes
  <2> HIDE DEF o
  <2>5. o = orders'[id]
    BY DEF o
  <2> QED
    BY <2>1, <2>2, <2>3, <2>4, <2>5 DEF OneAtATime, Waits, Opposes
<1>3. ASSUME NEW id \in DOMAIN orders, NEW status, NEW filled \in Nat, Applies(id, status, filled)
      PROVE  OneAtATime'
  <2> DEFINE o    == orders[id]
             s    == o.symbol
             held == positions[s]
             q    == filled - o.filled
  <2>1. /\ DOMAIN orders' = DOMAIN orders
        /\ \A i \in DOMAIN orders : /\ orders'[i].symbol = orders[i].symbol
                                    /\ orders'[i].side = orders[i].side
                                    /\ orders'[i].intent = orders[i].intent
                                    /\ orders[i].symbol \in Symbols
        /\ \A i \in DOMAIN orders \ {id} : orders'[i].status = orders[i].status
        /\ orders[id].status \in Pending /\ orders'[id].status = status
        /\ s \in Symbols /\ o.intent \in {"ENTRY", "EXIT"}
        /\ held \in Position
    BY <1>3 DEF Applies, Recorded, IInv, TypeOK, Order
  <2>2. \A i \in DOMAIN orders : \A intent \in {"ENTRY", "EXIT"} :
          Waits(i, intent)' => Waits(i, intent)
    BY <2>1 DEF Waits
  <2>3. Booked(id, status, q)
    BY <1>3 DEF Applies
  <2>4. /\ orders[id].filled = 0
        /\ \/ q = 0 /\ status # "FILLED" /\ status \in Pending \cup Unfilled
           \/ q > 0 /\ status = "FILLED"
    BY <1>3, AppliesWhole
  <2>5. \A i, j \in DOMAIN orders : \A intent \in {"ENTRY", "EXIT"} :
          orders'[i].symbol = orders'[j].symbol
            /\ Waits(i, intent)' /\ Waits(j, intent)' => i = j
    BY <2>1, <2>2 DEF OneAtATime
  <2>6. CASE UNCHANGED positions
    <3>1. \A i \in DOMAIN orders : Opposes(orders'[i], positions'[orders[i].symbol])
                                    <=> Opposes(orders[i], positions[orders[i].symbol])
      BY <2>1, <2>6 DEF Opposes
    <3> QED
      BY <2>1, <2>2, <2>5, <2>6, <3>1 DEF OneAtATime
  <2>7. ASSUME NEW p, Becomes(s, p),
               \A i \in DOMAIN orders : orders[i].symbol = s =>
                 ~Waits(i, "ENTRY")' /\ ~Waits(i, "EXIT")'
        PROVE  OneAtATime'
    <3>1. \A i \in DOMAIN orders : orders[i].symbol # s =>
            positions'[orders[i].symbol] = positions[orders[i].symbol]
      BY <2>1, <2>7 DEF Becomes
    <3>2. \A i \in DOMAIN orders : orders[i].symbol # s =>
            (Opposes(orders'[i], positions'[orders[i].symbol])
               <=> Opposes(orders[i], positions[orders[i].symbol]))
      BY <2>1, <3>1 DEF Opposes
    <3> HIDE DEF s
    <3> QED
      BY <2>1, <2>2, <2>5, <2>7, <3>1, <3>2 DEF OneAtATime
  <2>8. \A i \in DOMAIN orders \ {id} : orders[i].symbol = s => ~Waits(i, o.intent)
    BY <2>1 DEF OneAtATime, Waits
  <2>9. CASE q > 0
    <3>1. ~Waits(id, "ENTRY")' /\ ~Waits(id, "EXIT")'
      BY <2>1, <2>4, <2>9, StatusFacts DEF Waits
    <3>2. o.intent = "ENTRY" => ~Active(held)
      BY <2>1 DEF OneAtATime, Waits
    <3>3. o.intent = "EXIT" => held.status = "EXIT_PENDING"
      BY <2>1 DEF OneAtATime, Waits
    <3>4. \A i \in DOMAIN orders \ {id} : orders[i].symbol = s =>
            ~Waits(i, "ENTRY") /\ ~Waits(i, "EXIT")
      BY <2>1, <2>8, <3>2, <3>3 DEF OneAtATime, Active
    <3>5. \A i \in DOMAIN orders : orders[i].symbol = s =>
            ~Waits(i, "ENTRY")' /\ ~Waits(i, "EXIT")'
      BY <2>2, <3>1, <3>4
    <3> QED
      BY <2>3, <2>6, <2>7, <2>9, <3>5 DEF Booked
  <2>10. CASE q = 0
    <3>1. CASE Releases(id, status)
      <4>1. ~Waits(id, "ENTRY")' /\ ~Waits(id, "EXIT")'
        <5>1. status \notin Pending
          BY <3>1, StatusFacts DEF Releases, Terminal
        <5> QED
          BY <2>1, <5>1 DEF Waits
      <4>2. \A i \in DOMAIN orders \ {id} : orders[i].symbol = s =>
              ~Waits(i, "ENTRY") /\ ~Waits(i, "EXIT")
        BY <2>1, <2>8, <3>1 DEF OneAtATime, Active, Releases
      <4>3. \A i \in DOMAIN orders : orders[i].symbol = s =>
              ~Waits(i, "ENTRY")' /\ ~Waits(i, "EXIT")'
        BY <2>2, <4>1, <4>2
      <4> QED
        BY <2>3, <2>7, <2>10, <3>1, <4>3 DEF Booked
    <3>2. CASE ~Releases(id, status)
      BY <2>3, <2>6, <2>10, <3>2 DEF Booked
    <3> QED
      BY <3>1, <3>2
  <2> QED
    BY <2>4, <2>9, <2>10
<1>5. CASE UNCHANGED <<orders, positions>>
  BY <1>5 DEF OneAtATime, Waits, Opposes
<1> QED
  BY <1>1, <1>2, <1>3, <1>5, StepsOfFills

-----------------------------------------------------------------------------
(* The position is the sum of the fills.                                   *)

LEMMA InitFills == Init => FillsInv /\ DirectionInv /\ WholeBooks /\ OneAtATime
<1> SUFFICES ASSUME Init PROVE FillsInv /\ DirectionInv /\ WholeBooks /\ OneAtATime
  OBVIOUS
<1>1. DOMAIN orders = {} /\ DOMAIN book = {} /\ DOMAIN inbox = {}
      /\ \A s \in Symbols : positions[s].quantity = 0
  BY DEF Init, EmptyDict, NoPosition
<1>2. IsFiniteSet(DOMAIN orders)
  BY <1>1, FS_EmptySet
<1>3. ASSUME NEW s \in Symbols PROVE SumFunction(FillsOf(s)) = 0
  <2>1. DOMAIN FillsOf(s) = {} /\ FillsOf(s) = [x \in {} |-> FillsOf(s)[x]]
    BY <1>1 DEF FillsOf
  <2> QED
    BY <2>1, FS_EmptySet, Sum
<1>4. FillsInv
  BY <1>1, <1>2, <1>3 DEF FillsInv, PositionIsSumOfFills
<1>5. DirectionInv /\ WholeBooks /\ OneAtATime
  BY <1>1 DEF DirectionInv, WholeBooks, OneAtATime
<1> QED
  BY <1>4, <1>5

(* Whatever reports are skipped, repeated or applied late, a position is   *)
(* the sum of the executions recorded in its orders - when the strategy    *)
(* enters in one direction, or when the broker executes an order at once   *)
(* or not at all.  (With both directions and partial fills it is not: an   *)
(* exit that outlives its position reduces the next one, see the README.)  *)
THEOREM FillsAlways ==
  OneDirection \/ ~PartialFills => (Spec => []PositionIsSumOfFills)
<1>1. Init => IInv /\ BooksAgree /\ FillsInv /\ DirectionInv /\ WholeBooks /\ OneAtATime
  BY InitIInv, InitBooks, InitFills
<1>2. FillsInv => PositionIsSumOfFills
  BY DEF FillsInv
<1>3. ASSUME OneDirection PROVE Spec => []PositionIsSumOfFills
  <2> DEFINE J == IInv /\ BooksAgree /\ FillsInv /\ DirectionInv
  <2>1. J /\ [Next]_vars => J'
    BY <1>3, NextKeepsIInv, NextKeepsBooks, NextKeepsFills, NextKeepsDirection, DirectionOpposes
  <2> QED
    BY <1>1, <1>2, <2>1, PTL DEF Spec
<1>4. ASSUME ~PartialFills PROVE Spec => []PositionIsSumOfFills
  <2> DEFINE J == IInv /\ BooksAgree /\ FillsInv /\ WholeBooks /\ OneAtATime
  <2>1. J /\ [Next]_vars => J'
    BY <1>4, NextKeepsIInv, NextKeepsBooks, NextKeepsFills, NextKeepsWhole,
       NextKeepsOneAtATime, OneAtATimeOpposes
  <2> QED
    BY <1>1, <1>2, <2>1, PTL DEF Spec
<1> QED
  BY <1>3, <1>4

-----------------------------------------------------------------------------
(* One exit in flight.                                                     *)

ExitKept ==
  \A s \in Symbols :
    positions[s].status = "EXIT_PENDING" =>
      \E i \in LiveExits(s) : orders[i].quantity = Size(positions[s])

LEMMA KeptExitIsOne ==
  ASSUME IInv, OneAtATime, ExitKept
  PROVE  OneExitInFlight
<1> SUFFICES ASSUME NEW s \in Symbols
             PROVE  IF positions[s].status = "EXIT_PENDING"
                    THEN \E i \in LiveExits(s) : /\ LiveExits(s) = {i}
                                                 /\ orders[i].quantity = Size(positions[s])
                    ELSE LiveExits(s) = {}
  BY DEF OneExitInFlight
<1>1. \A i \in LiveExits(s) : i \in DOMAIN orders /\ orders[i].symbol = s /\ Waits(i, "EXIT")
  BY DEF LiveExits, Of, Waits
<1>2. CASE positions[s].status = "EXIT_PENDING"
  <2>1. PICK i \in LiveExits(s) : orders[i].quantity = Size(positions[s])
    BY <1>2 DEF ExitKept
  <2>2. LiveExits(s) = {i}
    BY <1>1, <2>1 DEF OneAtATime
  <2> QED
    BY <1>2, <2>1, <2>2
<1>3. CASE positions[s].status # "EXIT_PENDING"
  BY <1>1, <1>3 DEF OneAtATime
<1> QED
  BY <1>2, <1>3

LEMMA RunnerStepKeepsExit ==
  ASSUME IInv, BooksAgree, WholeBooks, WholeBooks', OneAtATime, ExitKept, [RunnerNext]_vars
  PROVE  ExitKept'
<1> SUFFICES ASSUME NEW s \in Symbols, positions'[s].status = "EXIT_PENDING"
             PROVE  \E i \in DOMAIN orders' :
                      /\ orders'[i].symbol = s /\ orders'[i].intent = "EXIT"
                      /\ orders'[i].status \in Pending
                      /\ orders'[i].quantity = Size(positions'[s])
  BY DEF ExitKept, LiveExits, Of
<1>1. ASSUME positions'[s] = positions[s]
      PROVE  \E i \in DOMAIN orders :
               /\ orders[i].symbol = s /\ Waits(i, "EXIT")
               /\ orders[i].quantity = Size(positions'[s])
  BY <1>1 DEF ExitKept, LiveExits, Of, Waits
<1>2. ASSUME NEW id \in OrderIds, EntersNew(id)
      PROVE  \E i \in DOMAIN orders' :
               /\ orders'[i].symbol = s /\ orders'[i].intent = "EXIT"
               /\ orders'[i].status \in Pending
               /\ orders'[i].quantity = Size(positions'[s])
  BY <1>1, <1>2 DEF EntersNew, Appears, Waits
<1>3. ASSUME NEW id \in OrderIds, ExitsNew(id)
      PROVE  \E i \in DOMAIN orders' :
               /\ orders'[i].symbol = s /\ orders'[i].intent = "EXIT"
               /\ orders'[i].status \in Pending
               /\ orders'[i].quantity = Size(positions'[s])
  <2>1. CASE positions'[s] = positions[s]
    BY <1>1, <1>3, <2>1 DEF ExitsNew, Appears, Waits
  <2>2. CASE positions'[s] # positions[s]
    <3>1. /\ orders'[id].symbol = s /\ orders'[id].intent = "EXIT"
          /\ orders'[id].quantity = Size(positions[s])
          /\ orders'[id].status = "SUBMITTED" /\ id \in DOMAIN orders'
          /\ positions'[s] = [quantity |-> positions[s].quantity, status |-> "EXIT_PENDING"]
      BY <1>3, <2>2 DEF ExitsNew, Appears, Becomes
    <3> QED
      BY <3>1, StatusFacts DEF Size
  <2> QED
    BY <2>1, <2>2
<1>4. ASSUME NEW id \in DOMAIN orders, NEW status, NEW filled \in Nat, Applies(id, status, filled)
      PROVE  \E i \in DOMAIN orders' :
               /\ orders'[i].symbol = s /\ orders'[i].intent = "EXIT"
               /\ orders'[i].status \in Pending
               /\ orders'[i].quantity = Size(positions'[s])
  <2> DEFINE o    == orders[id]
             held == positions[o.symbol]
             q    == filled - o.filled
  <2>1. /\ DOMAIN orders' = DOMAIN orders
        /\ \A i \in DOMAIN orders \ {id} : orders'[i] = orders[i]
        /\ orders'[id].symbol = o.symbol /\ orders'[id].intent = o.intent
        /\ orders'[id].quantity = o.quantity /\ orders'[id].status = status
        /\ o \in Order /\ o.status \in Pending /\ o.symbol \in Symbols /\ held \in Position
    BY <1>4 DEF Applies, Recorded, IInv, TypeOK, Order
  <2>2. /\ o.filled = 0
        /\ \/ q = 0 /\ status # "FILLED" /\ status \in Pending \cup Unfilled
           \/ q > 0 /\ status = "FILLED" /\ q = o.quantity
    BY <1>4, <2>1, AppliesWhole DEF Order
  <2>3. Booked(id, status, q)
    BY <1>4 DEF Applies
  <2>4. ASSUME o.symbol = s, held.status = "EXIT_PENDING"
        PROVE  /\ o.intent = "EXIT" /\ o.quantity = Size(held)
               /\ q > 0 => Reduced(held, q).status = "CLOSED"
    <3>1. o.intent # "ENTRY"
      BY <2>1, <2>4 DEF OneAtATime, Waits, Active
    <3>2. o.intent = "EXIT"
      BY <2>1, <3>1 DEF Order
    <3>3. PICK i \in DOMAIN orders : /\ orders[i].symbol = s /\ Waits(i, "EXIT")
                                     /\ orders[i].quantity = Size(held)
      BY <2>4 DEF ExitKept, LiveExits, Of, Waits
    <3>4. i = id
      BY <2>1, <2>4, <3>2, <3>3 DEF OneAtATime, Waits
    <3>5. q = Size(held) => Reduced(held, q).status = "CLOSED"
      BY <2>1 DEF Reduced, Size, Position
    <3> QED
      BY <2>2, <3>2, <3>3, <3>4, <3>5
  <2>5. CASE positions'[s] = positions[s]
    <3>1. PICK i \in DOMAIN orders : /\ orders[i].symbol = s /\ Waits(i, "EXIT")
                                     /\ orders[i].quantity = Size(positions'[s])
      BY <1>1, <2>5
    <3>2. CASE i # id
      BY <2>1, <3>1, <3>2 DEF Waits
    <3>3. CASE i = id
      <4>1. o.intent = "EXIT" /\ held.status = "EXIT_PENDING" /\ o.symbol = s
            /\ o.quantity = Size(held)
        BY <2>5, <3>1, <3>3 DEF Waits
      <4>2. status \in Pending
        <5>1. ~Releases(id, status)
          <6>1. SUFFICES ASSUME Releases(id, status) PROVE FALSE
            OBVIOUS
          <6>2. q = 0
            BY <2>2, <6>1 DEF Releases, Unfilled
          <6>3. Becomes(o.symbol, [quantity |-> held.quantity, status |-> "OPEN"])
            BY <2>3, <6>1, <6>2 DEF Booked
          <6> QED
            BY <2>5, <4>1, <6>3 DEF Becomes
        <5>2. status # "FILLED"
          <6>1. SUFFICES ASSUME q > 0 PROVE FALSE
            BY <2>2
          <6>2. Becomes(o.symbol, Reduced(held, q))
            BY <2>2, <2>3, <4>1, <6>1 DEF Booked, Order, Size, Position
          <6> QED
            BY <2>4, <2>5, <4>1, <6>1, <6>2 DEF Becomes
        <5> QED
          BY <2>2, <4>1, <5>1, <5>2 DEF Releases
      <4> QED
        BY <2>1, <3>1, <3>3, <4>2 DEF Waits
    <3> QED
      BY <3>2, <3>3
  <2>6. CASE positions'[s] # positions[s]
    <3>1. o.symbol = s /\ q > 0 /\ o.intent = "EXIT" /\ Becomes(s, Reduced(held, q))
      BY <2>1, <2>3, <2>6 DEF Booked, Becomes
    <3>2. held.status = "EXIT_PENDING"
      BY <2>1, <3>1 DEF OneAtATime, Waits
    <3> QED
      BY <2>4, <3>1, <3>2 DEF Becomes
  <2> QED
    BY <2>5, <2>6
<1>5. CASE UNCHANGED <<orders, positions>>
  BY <1>1, <1>5 DEF Waits
<1> QED
  BY <1>2, <1>3, <1>4, <1>5, RunnerStepsOfFills

(* With a broker that executes an order at once or not at all, a position  *)
(* waits for an exit exactly when one exit order is live, and that order   *)
(* is for the whole position - for any number of symbols and orders, both  *)
(* directions, and any order of signals, answers and reports.              *)
THEOREM OneExitAlways == ~PartialFills => (RunnerSpec => []OneExitInFlight)
<1> SUFFICES ASSUME ~PartialFills PROVE RunnerSpec => []OneExitInFlight
  OBVIOUS
<1> DEFINE J == IInv /\ BooksAgree /\ WholeBooks /\ OneAtATime /\ ExitKept
<1>1. Init => J
  BY InitIInv, InitBooks, InitFills DEF Init, NoPosition, ExitKept
<1>2. J /\ [RunnerNext]_vars => J'
  BY NextKeepsIInv, NextKeepsBooks, NextKeepsWhole, NextKeepsOneAtATime,
     RunnerStepKeepsExit DEF Next
<1>3. J => OneExitInFlight
  BY KeptExitIsOne
<1> QED
  BY <1>1, <1>2, <1>3, PTL DEF RunnerSpec

(* So a position marked EXIT_PENDING has an exit order that can still act, *)
(* whatever is being reconciled: the exit that is never sent again, in the *)
(* counterexample, needs an order that executes in several parts.          *)
THEOREM ExitPendingAlways == ~PartialFills => (RunnerSpec => []ExitPendingHasExit)
<1>1. OneExitInFlight => ExitPendingHasExit
  BY DEF OneExitInFlight, ExitPendingHasExit
<1> QED
  BY <1>1, OneExitAlways, PTL

-----------------------------------------------------------------------------
(* The broker's orders and positions.                                      *)

BookFinite == IsFiniteSet(DOMAIN book)

LEMMA BrokerPositionType ==
  ASSUME IInv, BookFinite, NEW s
  PROVE  BrokerPosition(s) \in Int
<1> DEFINE D == {j \in DOMAIN book : book[j].symbol = s}
           f == [i \in D |-> Signed(book[i], book[i].filled)]
<1>1. IsFiniteSet(D)
  BY FS_Subset DEF BookFinite
<1>2. \A i \in D : f[i] \in Int
  BY DEF IInv, TypeOK, Order, Signed
<1>3. SumFunction(f) \in Int
  <2>1. DOMAIN f = D /\ f = [x \in D |-> f[x]]
    OBVIOUS
  <2> HIDE DEF D, f
  <2> QED
    BY <1>1, <1>2, <2>1, Sum
<1> QED
  BY <1>3 DEF BrokerPosition

Executions(s) ==
  [i \in {j \in DOMAIN book : book[j].symbol = s} |-> Signed(book[i], book[i].filled)]

LEMMA ExecutionsType ==
  ASSUME IInv, BookFinite, NEW s
  PROVE  /\ IsFiniteSet({j \in DOMAIN book : book[j].symbol = s})
         /\ Executions(s) \in [{j \in DOMAIN book : book[j].symbol = s} -> Int]
         /\ BrokerPosition(s) = SumFunction(Executions(s))
         /\ BrokerPosition(s) \in Int
<1>1. \A i \in DOMAIN book : Signed(book[i], book[i].filled) \in Int
  BY DEF IInv, TypeOK, Order, Signed
<1>2. BrokerPosition(s) \in Int
  BY BrokerPositionType
<1> QED
  BY <1>1, <1>2, FS_Subset DEF Executions, BookFinite, BrokerPosition

(* One order is new at the broker, or changes.                             *)
LEMMA PositionChange ==
  ASSUME IInv, IInv', BookFinite, NEW n, DOMAIN book' = DOMAIN book \cup {n},
         \A i \in DOMAIN book \ {n} : book'[i] = book[i],
         n \in DOMAIN book => book'[n].symbol = book[n].symbol,
         NEW s
  PROVE  BrokerPosition(s)' =
           IF book'[n].symbol # s THEN BrokerPosition(s)
           ELSE BrokerPosition(s) + Signed(book'[n], book'[n].filled)
                  - (IF n \in DOMAIN book THEN Signed(book[n], book[n].filled) ELSE 0)
<1> DEFINE D == {j \in DOMAIN book : book[j].symbol = s}
           E == {j \in DOMAIN book' : book'[j].symbol = s}
           f == Executions(s)
           g == Executions(s)'
<1>1. IsFiniteSet(D) /\ f \in [D -> Int] /\ BrokerPosition(s) = SumFunction(f)
  BY ExecutionsType
<1>2. BookFinite'
  BY FS_AddElement DEF BookFinite
<1>3. g \in [E -> Int] /\ BrokerPosition(s)' = SumFunction(g)
  <2>1. \A i \in DOMAIN book' : Signed(book'[i], book'[i].filled) \in Int
    BY DEF IInv, TypeOK, Order, Signed
  <2> QED
    BY <2>1 DEF Executions, BrokerPosition
<1>4. CASE book'[n].symbol # s
  <2>1. E = D
    BY <1>4
  <2>2. f = g
    BY <2>1, <1>4 DEF Executions, Signed
  <2> QED
    BY <1>1, <1>3, <1>4, <2>2
<1>5. CASE book'[n].symbol = s
  <2>1. /\ E = D \cup {n} /\ (n \in D <=> n \in DOMAIN book)
        /\ \A x \in D \ {n} : g[x] = f[x]
    BY <1>5 DEF Executions, Signed
  <2>2. /\ g[n] = Signed(book'[n], book'[n].filled)
        /\ n \in D => f[n] = Signed(book[n], book[n].filled)
    BY <2>1 DEF Executions
  <2>3. /\ IsFiniteSet(D) /\ f \in [D -> Int] /\ g \in [D \cup {n} -> Int]
        /\ \A x \in D \ {n} : g[x] = f[x]
    BY <1>1, <1>3, <2>1
  <2> HIDE DEF f, g, D, E
  <2>4. SumFunction(g) = SumFunction(f) + g[n] - (IF n \in D THEN f[n] ELSE 0)
    <3>1. \A h \in [D -> Int] : \A k \in [D \cup {n} -> Int] :
            (\A x \in D \ {n} : k[x] = h[x])
              => SumFunction(k) = SumFunction(h) + k[n] - (IF n \in D THEN h[n] ELSE 0)
      BY <2>3, SumChange
    <3> QED
      BY <2>3, <3>1
  <2> QED
    BY <1>1, <1>3, <1>5, <2>1, <2>2, <2>4
<1> QED
  BY <1>4, <1>5

(* A new order executed nothing yet.                                       *)
LEMMA OrderIsPlaced ==
  ASSUME IInv, IInv', BookFinite, NEW n, n \notin DOMAIN book,
         DOMAIN book' = DOMAIN book \cup {n},
         \A i \in DOMAIN book : book'[i] = book[i],
         book'[n].filled = 0, book'[n].status \in Pending, NEW s
  PROVE  /\ BrokerPosition(s)' = BrokerPosition(s)
         /\ LiveOrders(s)' = IF book'[n].symbol = s THEN LiveOrders(s) \cup {n}
                             ELSE LiveOrders(s)
<1>1. BrokerPosition(s)' =
        IF book'[n].symbol # s THEN BrokerPosition(s)
        ELSE BrokerPosition(s) + Signed(book'[n], book'[n].filled) - 0
  BY PositionChange
<1>2. Signed(book'[n], book'[n].filled) = 0
  BY NothingSigned
<1>3. BrokerPosition(s) \in Int
  BY BrokerPositionType
<1>4. LiveOrders(s)' = IF book'[n].symbol = s THEN LiveOrders(s) \cup {n} ELSE LiveOrders(s)
  BY DEF LiveOrders
<1> QED
  BY <1>1, <1>2, <1>3, <1>4

(* A step of the broker: an order of which nothing was executed is over,   *)
(* wholly executed or not at all, or goes on.                              *)
BrokerMoved(id, s) ==
  /\ book[id].symbol = s /\ id \in LiveOrders(s)
  /\ DOMAIN book' = DOMAIN book
  /\ \A i \in DOMAIN book \ {id} : book'[i] = book[i]
  /\ book'[id].symbol = s /\ book'[id].intent = book[id].intent
  /\ book'[id].status \in Pending \cup Terminal
  /\ AllOrNothing(book'[id])
  /\ \A t \in Symbols \ {s} : BrokerPosition(t)' = BrokerPosition(t)
                               /\ LiveOrders(t)' = LiveOrders(t)
  /\ LiveOrders(s)' = IF book'[id].status \in Pending THEN LiveOrders(s)
                      ELSE LiveOrders(s) \ {id}
  /\ BrokerPosition(s)' = IF book'[id].status = "FILLED"
                          THEN BrokerPosition(s) + Signed(book[id], book[id].quantity)
                          ELSE BrokerPosition(s)
  /\ book'[id].side = book[id].side /\ book'[id].quantity = book[id].quantity

LEMMA OneOrderMoves ==
  ASSUME IInv, IInv', BookFinite, ~PartialFills,
         NEW id \in DOMAIN book, AllOrNothing(book[id]), NEW s \in Symbols,
         book[id].symbol = s, BrokerStep(id)
  PROVE  BrokerMoved(id, s)
<1>1. book[id] \in Order /\ AllOrNothing(book[id])
  BY DEF IInv, TypeOK
<1>2. PICK move \in BrokerMoves, f \in book[id].filled..book[id].quantity :
        /\ move[1] = book[id].status
        /\ (move[2] = "FILLED") <=> (f = book[id].quantity)
        /\ f \in {0, book[id].quantity}
        /\ book' = [book EXCEPT ![id].status = move[2], ![id].filled = f]
  BY DEF BrokerStep
<1>3. /\ book[id].status \in Pending /\ move[2] \in Pending \cup Terminal
      /\ "FILLED" \notin Pending
  BY <1>2 DEF BrokerMoves, Pending, Transitions, Terminal, Unfilled
<1>4. book[id].filled = 0
  BY <1>1, <1>3 DEF AllOrNothing
<1>5. /\ DOMAIN book' = DOMAIN book /\ book'[id].status = move[2] /\ book'[id].filled = f
      /\ book'[id].symbol = s /\ book'[id].intent = book[id].intent
      /\ book'[id].side = book[id].side /\ book'[id].quantity = book[id].quantity
      /\ \A i \in DOMAIN book \ {id} : book'[i] = book[i]
  BY <1>1, <1>2 DEF Order
<1>6. f = IF move[2] = "FILLED" THEN book[id].quantity ELSE 0
  BY <1>2
<1>7. /\ \A t \in Symbols \ {s} : BrokerPosition(t)' = BrokerPosition(t)
      /\ BrokerPosition(s)' = BrokerPosition(s) + Signed(book'[id], book'[id].filled)
                                - Signed(book[id], book[id].filled)
  BY <1>5, PositionChange
<1>8. /\ Signed(book[id], book[id].filled) = 0
      /\ Signed(book'[id], book'[id].filled) =
           IF move[2] = "FILLED" THEN Signed(book[id], book[id].quantity) ELSE 0
  <2>1. Signed(book[id], book[id].filled) = 0 /\ \A o : Signed(o, 0) = 0
    BY <1>4, NothingSigned
  <2> QED
    BY <1>5, <1>6, <2>1 DEF Signed
<1>9. BrokerPosition(s) \in Int /\ Signed(book[id], book[id].quantity) \in Int
  BY <1>1, BrokerPositionType DEF Order, Signed
<1>10. BrokerPosition(s)' = IF book'[id].status = "FILLED"
                            THEN BrokerPosition(s) + Signed(book[id], book[id].quantity)
                            ELSE BrokerPosition(s)
  BY <1>5, <1>7, <1>8, <1>9
<1>11. /\ \A t \in Symbols \ {s} : LiveOrders(t)' = LiveOrders(t)
       /\ LiveOrders(s)' = IF book'[id].status \in Pending THEN LiveOrders(s)
                           ELSE LiveOrders(s) \ {id}
       /\ id \in LiveOrders(s)
  BY <1>1, <1>3, <1>5 DEF LiveOrders, Order
<1>12. AllOrNothing(book'[id])
  BY <1>5, <1>6 DEF AllOrNothing
<1> QED
  BY <1>3, <1>5, <1>7, <1>10, <1>11, <1>12 DEF BrokerMoved

-----------------------------------------------------------------------------
(* An order is sent: stored under id, at the broker - if there at all -    *)
(* under n, which is another identifier when the answer was lost.          *)
Sends(id, n, o) ==
  /\ id \in OrderIds \ Used /\ n \in OrderIds \ Used
  /\ o \in Order /\ o.filled = 0 /\ o.status = "SUBMITTED"
  /\ DOMAIN orders' = DOMAIN orders \cup {id}
  /\ orders'[id].symbol = o.symbol /\ orders'[id].intent = o.intent
  /\ orders'[id].side = o.side /\ orders'[id].quantity = o.quantity
  /\ orders'[id].filled = 0
  /\ \A i \in DOMAIN orders : orders'[i] = orders[i]
  /\ DOMAIN inbox = {} /\ UNCHANGED inbox
  /\ raised = "none"
  /\ \/ /\ UNCHANGED book
        /\ orders'[id].status \in {"VALIDATED", "REJECTED"}
        /\ o.intent = "EXIT" => raised' # "none"
     \/ /\ DOMAIN book' = DOMAIN book \cup {n}
        /\ book'[n] = o
        /\ \A i \in DOMAIN book : book'[i] = book[i]
        /\ orders'[id].status = IF n = id THEN "SUBMITTED" ELSE "VALIDATED"
        /\ n # id => raised' # "none"

LEMMA CreateSends ==
  ASSUME Idle, NEW id \in OrderIds \ Used, NEW o \in Order, o.filled = 0,
         Accepted(id, o) \/ NotAccepted(id, o)
  PROVE  \E n : Sends(id, n, [o EXCEPT !.status = "SUBMITTED"])
<1> DEFINE With(status) == [o EXCEPT !.status = status]
<1>1. \A status \in OrderStatus :
        /\ With(status) \in Order /\ With(status).filled = 0
        /\ With(status).status = status
        /\ With(status).symbol = o.symbol /\ With(status).intent = o.intent
        /\ With(status).side = o.side /\ With(status).quantity = o.quantity
  BY DEF Order
<1>2. /\ "SUBMITTED" \in OrderStatus /\ "VALIDATED" \in OrderStatus
      /\ "REJECTED" \in OrderStatus
  BY DEF OrderStatus, Pending, Terminal, Unfilled
<1>3. id \notin DOMAIN orders /\ id \notin DOMAIN book /\ DOMAIN inbox = {} /\ raised = "none"
  BY DEF Used, Idle
<1>4. ASSUME NEW status \in OrderStatus, orders' = Put(orders, id, With(status))
      PROVE  /\ DOMAIN orders' = DOMAIN orders \cup {id}
             /\ orders'[id].symbol = o.symbol /\ orders'[id].intent = o.intent
             /\ orders'[id].side = o.side /\ orders'[id].quantity = o.quantity
             /\ orders'[id].filled = 0 /\ orders'[id].status = status
             /\ \A i \in DOMAIN orders : orders'[i] = orders[i]
  <2> HIDE DEF With
  <2>1. DOMAIN orders' = DOMAIN orders \cup {id} /\ orders'[id] = With(status)
        /\ \A i \in DOMAIN orders : orders'[i] = orders[i]
    BY <1>3, <1>4 DEF Put
  <2> QED
    BY <1>1, <2>1
<1>5. ASSUME NEW n \in OrderIds \ Used, book' = Put(book, n, With("SUBMITTED"))
      PROVE  /\ DOMAIN book' = DOMAIN book \cup {n} /\ book'[n] = With("SUBMITTED")
             /\ \A i \in DOMAIN book : book'[i] = book[i]
  <2> HIDE DEF With
  <2> QED
    BY <1>5 DEF Put, Used
<1>6. UNCHANGED inbox
  BY DEF Accepted, NotAccepted, RefusedBeforeSending, RejectedByBroker, Uncertain, ReadFailed
<1>7. CASE Accepted(id, o)
  <2>1. orders' = Put(orders, id, With("SUBMITTED")) /\ book' = Put(book, id, With("SUBMITTED"))
    BY <1>7 DEF Accepted
  <2> HIDE DEF With
  <2>2. Sends(id, id, With("SUBMITTED"))
    BY <1>1, <1>2, <1>3, <1>4, <1>5, <1>6, <2>1 DEF Sends
  <2> QED
    BY <2>2 DEF With
<1>8. CASE RefusedBeforeSending(id, o) \/ RejectedByBroker(id, o) \/ ReadFailed(id, o)
  <2>1. PICK status \in {"VALIDATED", "REJECTED"} : orders' = Put(orders, id, With(status))
    BY <1>8 DEF RefusedBeforeSending, RejectedByBroker, ReadFailed
  <2>2. UNCHANGED book /\ (o.intent = "EXIT" => raised' # "none")
    BY <1>8 DEF RefusedBeforeSending, RejectedByBroker, ReadFailed
  <2> HIDE DEF With
  <2>3. Sends(id, id, With("SUBMITTED"))
    BY <1>1, <1>2, <1>3, <1>4, <1>6, <2>1, <2>2 DEF Sends
  <2> QED
    BY <2>3 DEF With
<1>9. CASE Uncertain(id, o)
  <2>1. /\ orders' = Put(orders, id, With("VALIDATED")) /\ raised' # "none"
        /\ \/ UNCHANGED book
           \/ \E n \in OrderIds \ (Used \cup {id}) : book' = Put(book, n, With("SUBMITTED"))
    BY <1>9 DEF Uncertain, Fresh
  <2> HIDE DEF With
  <2>2. \E n : Sends(id, n, With("SUBMITTED"))
    <3>1. CASE UNCHANGED book
      BY <1>1, <1>2, <1>3, <1>4, <1>6, <2>1, <3>1 DEF Sends
    <3>2. ASSUME NEW n \in OrderIds \ (Used \cup {id}), book' = Put(book, n, With("SUBMITTED"))
          PROVE  Sends(id, n, With("SUBMITTED"))
      BY <1>1, <1>2, <1>3, <1>4, <1>5, <1>6, <2>1, <3>2 DEF Sends
    <3> QED
      BY <2>1, <3>1, <3>2
  <2> QED
    BY <2>2 DEF With
<1> QED
  BY <1>7, <1>8, <1>9 DEF NotAccepted

LEMMA EntrySends ==
  ASSUME IInv, NEW s \in Symbols, EnterTrade(s)
  PROVE  /\ \E id, n, o : Sends(id, n, o) /\ o.symbol = s /\ o.intent = "ENTRY"
         /\ ~HasActiveTrade(s) /\ UNCHANGED positions
<1>1. PICK id \in OrderIds \ Used, side \in Sides, quantity \in 1..MaxQty :
        LET o == NewOrder(s, side, "ENTRY", quantity) IN
        \/ Accepted(id, o) /\ UNCHANGED positions
        \/ NotAccepted(id, o)
  BY DEF EnterTrade, Fresh
<1> DEFINE o == NewOrder(s, side, "ENTRY", quantity)
<1>2. o \in Order /\ o.filled = 0 /\ o.symbol = s /\ o.intent = "ENTRY"
  BY OrderAssumption DEF NewOrder, Order, OrderStatus
<1>3. ~HasActiveTrade(s) /\ UNCHANGED positions /\ Idle
  BY <1>1 DEF EnterTrade, NotAccepted, RefusedBeforeSending, RejectedByBroker,
              Uncertain, ReadFailed
<1> HIDE DEF o
<1>4. Accepted(id, o) \/ NotAccepted(id, o)
  BY <1>1 DEF o
<1>5. PICK n : Sends(id, n, [o EXCEPT !.status = "SUBMITTED"])
  BY <1>2, <1>3, <1>4, CreateSends
<1>6. /\ [o EXCEPT !.status = "SUBMITTED"].symbol = s
      /\ [o EXCEPT !.status = "SUBMITTED"].intent = "ENTRY"
  BY <1>2 DEF Order
<1> QED
  BY <1>3, <1>5, <1>6

LEMMA ExitSends ==
  ASSUME IInv, NEW s \in Symbols, SubmitExit(s)
  PROVE  /\ \E id, n, o : /\ Sends(id, n, o) /\ o.symbol = s /\ o.intent = "EXIT"
                          /\ positions[s].quantity = -Signed(o, o.quantity)
         /\ positions[s].quantity # 0 /\ positions[s].status = "OPEN"
         /\ \A t \in Symbols : /\ Active(positions'[t]) <=> Active(positions[t])
                               /\ positions'[t].quantity = positions[t].quantity
<1> DEFINE held == positions[s]
           o    == NewOrder(s, IF held.quantity > 0 THEN "SELL" ELSE "BUY",
                            "EXIT", Size(held))
<1>1. PICK id \in OrderIds \ Used :
        \/ /\ Accepted(id, o)
           /\ positions' = [positions EXCEPT ![s].status = "EXIT_PENDING"]
        \/ NotAccepted(id, o)
  BY DEF SubmitExit, Fresh
<1>2. Size(held) \in Nat \ {0} /\ held \in Position /\ held.status = "OPEN" /\ Idle
      /\ positions \in [Symbols -> Position] /\ held.quantity # 0 /\ Active(held)
  BY DEF SubmitExit, MayExit, IInv, TypeOK, StatusMatchesQuantity, Active, Position, Size
<1>3. /\ o \in Order /\ o.filled = 0 /\ o.intent = "EXIT" /\ o.symbol = s
      /\ o.side = (IF held.quantity > 0 THEN "SELL" ELSE "BUY") /\ o.quantity = Size(held)
  BY <1>2 DEF NewOrder, Order, OrderStatus
<1> HIDE DEF o
<1>4. Accepted(id, o) \/ NotAccepted(id, o)
  BY <1>1
<1>5. PICK n : Sends(id, n, [o EXCEPT !.status = "SUBMITTED"])
  BY <1>2, <1>3, <1>4, CreateSends
<1>6. /\ [o EXCEPT !.status = "SUBMITTED"].symbol = s
      /\ [o EXCEPT !.status = "SUBMITTED"].intent = "EXIT"
      /\ [o EXCEPT !.status = "SUBMITTED"].quantity = o.quantity
      /\ [o EXCEPT !.status = "SUBMITTED"].side = o.side
  BY <1>3 DEF Order
<1>7. \A t \in Symbols : /\ Active(positions'[t]) <=> Active(positions[t])
                         /\ positions'[t].quantity = positions[t].quantity
  <2>1. CASE positions' = [positions EXCEPT ![s].status = "EXIT_PENDING"]
    BY <1>2, <2>1 DEF Active, Position
  <2>2. CASE NotAccepted(id, o)
    BY <2>2 DEF NotAccepted, RefusedBeforeSending, RejectedByBroker, Uncertain, ReadFailed
  <2> QED
    BY <1>1, <2>1, <2>2
<1>8. held.quantity = -Signed([o EXCEPT !.status = "SUBMITTED"], o.quantity)
  BY <1>2, <1>3, <1>6 DEF Signed, Size, Position
<1>9. \E i, m, p : /\ Sends(i, m, p) /\ p.symbol = s /\ p.intent = "EXIT"
                   /\ positions[s].quantity = -Signed(p, p.quantity)
  BY <1>3, <1>5, <1>6, <1>8
<1>10. positions[s].quantity # 0 /\ positions[s].status = "OPEN"
  BY <1>2
<1> QED
  BY <1>7, <1>9, <1>10

-----------------------------------------------------------------------------
(* What the trade manager believes, and what the broker holds, when orders *)
(* execute at once or not at all.                                          *)

(* Orders the broker works on under an identifier nobody here knows.       *)
Unknown(s) == {i \in DOMAIN book \ DOMAIN orders : book[i].symbol = s}

(* A known order is the same on both sides.  An unknown one was left by an *)
(* uncertain write, which ended the run, on a symbol nothing else waited   *)
(* for.                                                                    *)
Twins ==
  /\ \A i \in DOMAIN orders \cap DOMAIN book :
       /\ orders[i].symbol = book[i].symbol
       /\ orders[i].side = book[i].side
       /\ orders[i].intent = book[i].intent
       /\ orders[i].status \in Pending \cup Terminal
  /\ \A i \in DOMAIN orders : orders[i].status \in Pending => i \in DOMAIN book
  /\ \A s \in Symbols : Unknown(s) # {} => raised # "none" /\ LiveExits(s) = {}

(* The broker holds what is managed, and what the one awaited order has    *)
(* executed without being reported.                                        *)
SidesMatch ==
  \A s \in Symbols :
    Unknown(s) = {} =>
      /\ PendingOf(s) = {} => BrokerPosition(s) = positions[s].quantity
      /\ \A i \in PendingOf(s) :
           BrokerPosition(s) = positions[s].quantity + Signed(book[i], book[i].filled)

LEMMA OneAwaited ==
  ASSUME IInv, OneAtATime, NEW i \in DOMAIN orders, orders[i].status \in Pending
  PROVE  PendingOf(orders[i].symbol) = {i}
<1>1. orders[i].intent \in {"ENTRY", "EXIT"}
      /\ \A j \in DOMAIN orders : orders[j].intent \in {"ENTRY", "EXIT"}
  BY DEF IInv, TypeOK, Order
<1>2. ASSUME NEW j \in PendingOf(orders[i].symbol)
      PROVE  j = i
  <2>1. j \in DOMAIN orders /\ orders[j].symbol = orders[i].symbol
        /\ Waits(j, orders[j].intent) /\ Waits(i, orders[i].intent)
    BY DEF PendingOf, Waits
  <2>2. orders[i].intent = orders[j].intent
    BY <1>1, <2>1 DEF OneAtATime, Active, Waits
  <2> QED
    BY <1>1, <2>1, <2>2 DEF OneAtATime
<1> QED
  BY <1>2 DEF PendingOf

SidesInv == BookFinite /\ Twins /\ SidesMatch

(* An order is sent for a symbol nothing waits for.                        *)
LEMMA SendKeepsSides ==
  ASSUME IInv, IInv', SidesInv, NEW id, NEW n, NEW o, Sends(id, n, o),
         PendingOf(o.symbol) = {},
         \A t \in Symbols : positions'[t].quantity = positions[t].quantity
  PROVE  SidesInv'
<1> USE StatusFacts
<1>1. /\ id \notin DOMAIN orders /\ id \notin DOMAIN book
      /\ n \notin DOMAIN orders /\ n \notin DOMAIN book
      /\ DOMAIN orders' = DOMAIN orders \cup {id} /\ raised = "none"
      /\ \A i \in DOMAIN orders : orders'[i] = orders[i]
      /\ orders'[id].symbol = o.symbol /\ o.symbol \in Symbols
  BY DEF Sends, Used, Order
<1>2. DOMAIN book \subseteq DOMAIN orders
  <2>1. \A s \in Symbols : Unknown(s) = {}
    BY <1>1 DEF SidesInv, Twins
  <2> QED
    BY <2>1 DEF Unknown, IInv, TypeOK, Order
<1>3. CASE UNCHANGED book
  <2>1. BookFinite' /\ \A s : BrokerPosition(s)' = BrokerPosition(s)
    BY <1>3 DEF SidesInv, BookFinite, BrokerPosition
  <2>2. orders'[id].status \in {"VALIDATED", "REJECTED"}
    BY <1>1, <1>3 DEF Sends
  <2>3. /\ \A s : PendingOf(s)' = PendingOf(s) /\ Unknown(s)' = {}
    BY <1>1, <1>2, <1>3, <2>2 DEF PendingOf, Unknown
  <2>4. Twins'
    BY <1>1, <1>3, <2>2, <2>3 DEF SidesInv, Twins
  <2>5. SidesMatch'
    <3>1. \A s \in Symbols : Unknown(s) = {}
      BY <1>2 DEF Unknown
    <3> QED
      BY <1>3, <2>1, <2>3, <3>1 DEF SidesInv, SidesMatch
  <2> QED
    BY <2>1, <2>4, <2>5 DEF SidesInv
<1>4. CASE ~UNCHANGED book
  <2>1. /\ DOMAIN book' = DOMAIN book \cup {n} /\ book'[n] = o
        /\ \A i \in DOMAIN book : book'[i] = book[i]
        /\ orders'[id].status = IF n = id THEN "SUBMITTED" ELSE "VALIDATED"
        /\ n # id => raised' # "none"
        /\ o \in Order /\ o.filled = 0 /\ o.status = "SUBMITTED"
        /\ orders'[id].side = o.side /\ orders'[id].intent = o.intent
    BY <1>4 DEF Sends
  <2>2. BookFinite'
    BY <2>1, FS_AddElement DEF SidesInv, BookFinite
  <2>3. \A s : BrokerPosition(s)' = BrokerPosition(s)
    BY <1>1, <2>1, OrderIsPlaced DEF SidesInv
  <2>4. \A s \in Symbols \ {o.symbol} :
          Unknown(s)' = {} /\ Unknown(s) = {} /\ PendingOf(s)' = PendingOf(s)
    BY <1>1, <1>2, <2>1 DEF Unknown, PendingOf
  <2>5. /\ Unknown(o.symbol) = {}
        /\ n = id => Unknown(o.symbol)' = {} /\ PendingOf(o.symbol)' = {id}
        /\ n # id => PendingOf(o.symbol)' = {}
    BY <1>1, <1>2, <2>1 DEF Unknown, PendingOf
  <2>6. Twins'
    <3>1. ASSUME NEW i \in (DOMAIN orders \cap DOMAIN book)'
          PROVE  /\ orders'[i].symbol = book'[i].symbol
                 /\ orders'[i].side = book'[i].side
                 /\ orders'[i].intent = book'[i].intent
                 /\ orders'[i].status \in Pending \cup Terminal
      <4>1. CASE i \in DOMAIN orders
        BY <1>1, <2>1, <4>1 DEF SidesInv, Twins
      <4>2. CASE i = id
        BY <1>1, <2>1, <4>2
      <4> QED
        BY <1>1, <4>1, <4>2
    <3>2. ASSUME NEW i \in DOMAIN orders', orders'[i].status \in Pending
          PROVE  i \in DOMAIN book'
      BY <1>1, <2>1, <3>2 DEF SidesInv, Twins
    <3>3. ASSUME NEW s \in Symbols, Unknown(s)' # {}
          PROVE  raised' # "none" /\ LiveExits(s)' = {}
      <4>1. s = o.symbol /\ n # id /\ PendingOf(s)' = {}
        BY <2>4, <2>5, <3>3
      <4> QED
        BY <2>1, <4>1 DEF LiveExits, Of, PendingOf
    <3> QED
      BY <3>1, <3>2, <3>3 DEF Twins
  <2>7. SidesMatch'
    <3> SUFFICES ASSUME NEW s \in Symbols, Unknown(s)' = {}
                 PROVE  /\ PendingOf(s)' = {} => BrokerPosition(s)' = positions'[s].quantity
                        /\ \A i \in PendingOf(s)' :
                             BrokerPosition(s)' =
                               positions'[s].quantity + Signed(book'[i], book'[i].filled)
      BY DEF SidesMatch
    <3>1. CASE s # o.symbol
      <4>1. \A i \in PendingOf(s) : i \in DOMAIN book
        BY DEF SidesInv, Twins, PendingOf
      <4> QED
        BY <2>1, <2>3, <2>4, <3>1, <4>1 DEF SidesInv, SidesMatch
    <3>2. CASE s = o.symbol
      <4>1. BrokerPosition(s)' = positions'[s].quantity /\ positions'[s].quantity \in Int
        BY <2>3, <2>5, <3>2 DEF SidesInv, SidesMatch, IInv, TypeOK, Position
      <4>2. Signed(book'[n], book'[n].filled) = 0
        BY <2>1, NothingSigned
      <4>3. \A i \in PendingOf(s)' : i = n
        BY <2>5, <3>2
      <4> QED
        BY <4>1, <4>2, <4>3
    <3> QED
      BY <3>1, <3>2
  <2> QED
    BY <2>2, <2>6, <2>7 DEF SidesInv
<1> QED
  BY <1>3, <1>4

(* The broker moves an order.                                              *)
LEMMA BrokerKeepsSides ==
  ASSUME IInv, IInv', BooksAgree', NeverAheadOfBroker, WholeBooks, OneAtATime, SidesInv,
         ~PartialFills,
         NEW id \in DOMAIN book, BrokerStep(id)
  PROVE  SidesInv'
<1>1. PICK s \in Symbols : book[id].symbol = s
  BY DEF IInv, TypeOK, Order
<1>2. BrokerMoved(id, s) /\ UNCHANGED <<orders, positions, raised>>
  BY <1>1, OneOrderMoves DEF BrokerStep, tmvars, SidesInv, WholeBooks
<1>3. /\ DOMAIN book' = DOMAIN book /\ \A i \in DOMAIN book \ {id} : book'[i] = book[i]
      /\ book'[id].symbol = s /\ book'[id].intent = book[id].intent
      /\ book'[id].side = book[id].side /\ book'[id].quantity = book[id].quantity
      /\ book[id].status \in Pending
  BY <1>2 DEF BrokerMoved, LiveOrders
<1>4. /\ \A t : PendingOf(t)' = PendingOf(t) /\ LiveExits(t)' = LiveExits(t)
      /\ \A t \in Symbols : Unknown(t)' = Unknown(t)
  BY <1>1, <1>2, <1>3 DEF PendingOf, LiveExits, Of, Unknown
<1>5. BookFinite' /\ Twins'
  BY <1>1, <1>2, <1>3, <1>4 DEF SidesInv, BookFinite, Twins
<1>6. ASSUME NEW t \in Symbols, Unknown(t) = {}
      PROVE  /\ PendingOf(t) = {} => BrokerPosition(t)' = positions[t].quantity
             /\ \A i \in PendingOf(t) :
                  BrokerPosition(t)' = positions[t].quantity + Signed(book'[i], book'[i].filled)
  <2>1. CASE t # s
    <3>1. BrokerPosition(t)' = BrokerPosition(t)
      BY <1>2, <2>1 DEF BrokerMoved
    <3>2. \A i \in PendingOf(t) : i \in DOMAIN book /\ i # id
      BY <1>1, <2>1 DEF SidesInv, Twins, PendingOf
    <3> QED
      BY <1>3, <1>6, <3>1, <3>2 DEF SidesInv, SidesMatch
  <2>2. CASE t = s
    <3>1. id \in DOMAIN orders /\ orders[id].symbol = s
      BY <1>1, <1>6, <2>2 DEF Unknown, SidesInv, Twins
    <3>2. orders[id].status \in Pending
      <4>1. orders[id].status \notin Terminal
        BY <1>3, <3>1, StatusFacts DEF NeverAheadOfBroker
      <4> QED
        BY <3>1, <4>1 DEF SidesInv, Twins
    <3>3. PendingOf(s) = {id}
      BY <3>1, <3>2, OneAwaited
    <3>4. book[id] \in Order /\ book[id].filled = 0
      BY <1>3, StatusFacts DEF IInv, TypeOK, WholeBooks, AllOrNothing
    <3>5. BrokerPosition(s) = positions[s].quantity /\ positions[s].quantity \in Int
      <4>1. Signed(book[id], book[id].filled) = 0
        BY <3>4, NothingSigned
      <4>2. BrokerPosition(s) = positions[s].quantity + Signed(book[id], book[id].filled)
        BY <1>6, <2>2, <3>3 DEF SidesInv, SidesMatch
      <4>3. positions[s].quantity \in Int
        BY DEF IInv, TypeOK, Position
      <4> QED
        BY <4>1, <4>2, <4>3
    <3>6. CASE book'[id].status = "FILLED"
      <4>1. book'[id].filled = book[id].quantity
        BY <1>3, <3>6 DEF BooksAgree, WellFilled
      <4>2. Signed(book'[id], book'[id].filled) = Signed(book[id], book[id].quantity)
        BY <1>3, <4>1 DEF Signed
      <4>3. BrokerPosition(s)' = BrokerPosition(s) + Signed(book[id], book[id].quantity)
        BY <1>2, <3>6 DEF BrokerMoved
      <4> QED
        BY <2>2, <3>3, <3>5, <4>2, <4>3
    <3>7. CASE book'[id].status # "FILLED"
      <4>1. Signed(book'[id], book'[id].filled) = 0
        BY <1>2, <3>7, NothingSigned DEF BrokerMoved, AllOrNothing
      <4>2. BrokerPosition(s)' = BrokerPosition(s)
        BY <1>2, <3>7 DEF BrokerMoved
      <4> QED
        BY <2>2, <3>3, <3>5, <4>1, <4>2
    <3> QED
      BY <3>6, <3>7
  <2> QED
    BY <2>1, <2>2
<1>7. SidesMatch'
  BY <1>2, <1>4, <1>6 DEF SidesMatch
<1> QED
  BY <1>5, <1>7 DEF SidesInv

(* A report is applied.                                                    *)
LEMMA ReportKeepsSides ==
  ASSUME IInv, IInv', BooksAgree, FinalReports, WholeBooks, WholeBooks', OneAtATime, ExitKept,
         SidesInv, NEW id \in DOMAIN inbox, ReconcileOne(id)
  PROVE  SidesInv'
<1> USE StatusFacts
<1>1. UNCHANGED book /\ id \in DOMAIN orders /\ raised = "none"
  BY DEF ReconcileOne, IInv, TypeOK
<1>2. \A s \in Symbols : Unknown(s) = {}
  BY <1>1 DEF SidesInv, Twins
<1>3. BookFinite' /\ \A s : BrokerPosition(s)' = BrokerPosition(s)
  BY <1>1 DEF SidesInv, BookFinite, BrokerPosition
<1>4. CASE UNCHANGED <<orders, positions>>
  <2>1. /\ \A s : PendingOf(s)' = PendingOf(s) /\ LiveExits(s)' = LiveExits(s)
        /\ \A s \in Symbols : Unknown(s)' = {}
    BY <1>1, <1>2, <1>4 DEF PendingOf, LiveExits, Of, Unknown
  <2>2. Twins'
    BY <1>1, <1>4, <2>1 DEF SidesInv, Twins
  <2>3. SidesMatch'
    BY <1>1, <1>2, <1>3, <1>4, <2>1 DEF SidesInv, SidesMatch
  <2> QED
    BY <1>3, <2>2, <2>3 DEF SidesInv
<1>5. ASSUME NEW status, NEW q \in Nat, Applies(id, status, q),
             status = inbox[id].status, q = inbox[id].filled
      PROVE  SidesInv'
  <2>0. PICK s \in Symbols : orders[id].symbol = s
    BY <1>1 DEF IInv, TypeOK, Order
  <2> DEFINE held == positions[s]
  <2>1. /\ orders[id] \in Order /\ orders[id].symbol = s /\ held \in Position
        /\ orders[id].status \in Pending /\ id \in DOMAIN book
        /\ book[id].side = orders[id].side
    BY <1>1, <1>5, <2>0 DEF IInv, TypeOK, Applies, SidesInv, Twins
  <2>2. /\ orders[id].filled = 0
        /\ \/ q = 0 /\ status # "FILLED" /\ status \in Pending \cup Unfilled
           \/ q > 0 /\ status = "FILLED" /\ q = orders[id].quantity
    BY <1>1, <1>5, AppliesWhole DEF Order
  <2>3. /\ DOMAIN orders' = DOMAIN orders
        /\ \A i \in DOMAIN orders \ {id} : orders'[i] = orders[i]
        /\ orders'[id].symbol = s /\ orders'[id].side = orders[id].side
        /\ orders'[id].intent = orders[id].intent
        /\ orders'[id].status = status
    BY <1>5, <2>0 DEF Applies, Recorded
  <2>4. /\ PendingOf(s) = {id}
        /\ PendingOf(s)' = IF status \in Pending THEN {id} ELSE {}
        /\ \A t \in Symbols \ {s} : PendingOf(t)' = PendingOf(t)
        /\ \A t \in Symbols : Unknown(t)' = {}
    <3>1. PendingOf(s) = {id}
      BY <1>1, <2>1, OneAwaited
    <3> QED
      BY <1>1, <1>2, <2>3, <3>1 DEF PendingOf, Unknown
  <2>5. Twins'
    <3>1. status \in Pending \cup Terminal
      BY <2>2 DEF Terminal
    <3> QED
      BY <1>1, <2>1, <2>3, <2>4, <3>1 DEF SidesInv, Twins
  <2>6. Booked(id, status, q)
    <3>1. q - orders[id].filled = q
      BY <2>1, <2>2
    <3> QED
      BY <1>5, <3>1 DEF Applies
  <2>7. /\ \A t \in Symbols \ {s} : positions'[t] = positions[t]
        /\ positions'[s].quantity = held.quantity + Signed(orders[id], q)
    <3>1. CASE q = 0
      <4>1. Signed(orders[id], q) = 0
        BY <3>1, NothingSigned
      <4>2. held.quantity \in Int
        BY <2>1 DEF Position
      <4>3. \/ UNCHANGED positions
            \/ Becomes(s, [quantity |-> held.quantity, status |-> "OPEN"])
        BY <2>1, <2>6, <3>1 DEF Booked
      <4> QED
        BY <2>1, <4>1, <4>2, <4>3 DEF Becomes
    <3>2. CASE q > 0 /\ orders[id].intent = "ENTRY"
      <4>1. held.quantity = 0
        <5>1. ~Active(held)
          BY <1>1, <2>1, <3>2 DEF OneAtATime, Waits
        <5> QED
          BY <2>1, <5>1 DEF IInv, StatusMatchesQuantity
      <4>2. Becomes(s, [quantity |-> held.quantity + Signed(orders[id], q), status |-> "OPEN"])
        BY <2>1, <2>6, <3>2, <4>1 DEF Booked
      <4> QED
        BY <2>1, <4>2 DEF Becomes
    <3>3. CASE q > 0 /\ orders[id].intent = "EXIT"
      <4>1. held.status = "EXIT_PENDING" /\ Opposes(orders[id], held)
        <5>1. Waits(id, "EXIT")
          BY <2>1, <3>3 DEF Waits
        <5> QED
          BY <1>1, <2>1, <5>1 DEF OneAtATime
      <4>2. PICK i \in LiveExits(s) : orders[i].quantity = Size(held)
        BY <2>1, <4>1 DEF ExitKept
      <4>3. i = id /\ q = Size(held) /\ held.quantity # 0
        <5>1. i \in PendingOf(s)
          BY <4>2 DEF LiveExits, Of, PendingOf
        <5> QED
          BY <2>1, <2>2, <2>4, <3>3, <4>1, <4>2, <5>1 DEF IInv, StatusMatchesQuantity, Active
      <4>4. Becomes(s, Reduced(held, q))
        BY <2>1, <2>6, <3>3, <4>1, <4>3 DEF Booked, Size, Position
      <4>5. Reduced(held, q).quantity = held.quantity + Signed(orders[id], q)
        BY <2>1, <4>1, <4>3 DEF Reduced, Opposes, Signed, Size, Position, Order
      <4> QED
        BY <2>1, <4>4, <4>5 DEF Becomes
    <3> QED
      BY <2>1, <2>2, <3>1, <3>2, <3>3 DEF Order
  <2>8. Signed(book[id], q) = Signed(orders[id], q)
    BY <2>1 DEF Signed
  <2>9. BrokerPosition(s) = held.quantity + Signed(book[id], book[id].filled)
    BY <1>2, <2>1, <2>4 DEF SidesInv, SidesMatch
  <2>10. SidesMatch'
    <3> SUFFICES ASSUME NEW t \in Symbols
                 PROVE  /\ PendingOf(t)' = {} => BrokerPosition(t)' = positions'[t].quantity
                        /\ \A i \in PendingOf(t)' :
                             BrokerPosition(t)' =
                               positions'[t].quantity + Signed(book'[i], book'[i].filled)
      BY DEF SidesMatch
    <3>1. CASE t # s
      BY <1>1, <1>2, <1>3, <2>4, <2>7, <3>1 DEF SidesInv, SidesMatch
    <3>2. CASE t = s /\ status \in Pending
      <4>1. Signed(orders[id], q) = 0 /\ held.quantity \in Int
        BY <2>1, <2>2, <3>2, NothingSigned DEF Position
      <4>2. positions'[s].quantity = held.quantity
        BY <2>7, <4>1
      <4> QED
        BY <1>1, <1>3, <2>4, <2>9, <3>2, <4>2
    <3>3. CASE t = s /\ status \notin Pending
      <4>1. book[id].filled = q
        BY <1>5, <2>2, <3>3 DEF FinalReports, Terminal
      <4> QED
        BY <1>3, <2>4, <2>7, <2>8, <2>9, <3>3, <4>1
    <3> QED
      BY <3>1, <3>2, <3>3
  <2> QED
    BY <1>3, <2>5, <2>10 DEF SidesInv
<1> QED
  <2>1. inbox[id].filled \in Nat
    BY DEF IInv, TypeOK
  <2> QED
    BY <1>4, <1>5, <2>1, ReconcileApplies

LEMMA RunnerStepKeepsSides ==
  ASSUME IInv, IInv', BooksAgree, BooksAgree', FinalReports, NeverAheadOfBroker,
         WholeBooks, WholeBooks', OneAtATime, ExitKept, SidesInv, ~PartialFills,
         [RunnerNext]_vars
  PROVE  SidesInv'
<1>1. CASE /\ UNCHANGED <<orders, positions, book>>
           /\ raised' = raised \/ raised' # "none"
  <2>1. \A s : /\ PendingOf(s)' = PendingOf(s) /\ LiveExits(s)' = LiveExits(s)
               /\ Unknown(s)' = Unknown(s) /\ BrokerPosition(s)' = BrokerPosition(s)
    BY <1>1 DEF PendingOf, LiveExits, Of, Unknown, BrokerPosition
  <2> QED
    BY <1>1, <2>1 DEF SidesInv, BookFinite, Twins, SidesMatch
<1>2. ASSUME NEW s \in Symbols, EnterTrade(s)
      PROVE  SidesInv'
  <2>1. PICK id, n, o : Sends(id, n, o) /\ o.symbol = s /\ o.intent = "ENTRY"
    BY <1>2, EntrySends
  <2>2. ~HasActiveTrade(s) /\ UNCHANGED positions
    BY <1>2, EntrySends
  <2>3. PendingOf(s) = {}
    BY <2>2 DEF PendingOf, HasActiveTrade, Of, OneAtATime, Waits, Active, IInv, TypeOK, Order
  <2> QED
    BY <2>1, <2>2, <2>3, SendKeepsSides
<1>3. ASSUME NEW s \in Symbols, SubmitExit(s)
      PROVE  SidesInv'
  <2>1. PICK id, n, o : Sends(id, n, o) /\ o.symbol = s
    BY <1>3, ExitSends
  <2>2. /\ positions[s].status = "OPEN"
        /\ \A t \in Symbols : positions'[t].quantity = positions[t].quantity
    BY <1>3, ExitSends
  <2>3. PendingOf(s) = {}
    BY <2>2 DEF PendingOf, OneAtATime, Waits, Active, IInv, TypeOK, Order
  <2> QED
    BY <2>1, <2>2, <2>3, SendKeepsSides
<1>4. CASE UNCHANGED vars \/ ReconcileBegin \/ LeaveLoop
  BY <1>1, <1>4 DEF vars, tmvars, ReconcileBegin, LeaveLoop
<1> QED
  BY <1>2, <1>3, <1>4, BrokerKeepsSides, ReportKeepsSides DEF RunnerNext

(* The exits the broker may execute are at most the one that is awaited.   *)
LEMMA SidesForbidOverselling ==
  ASSUME IInv, BooksAgree, NeverAheadOfBroker, WholeBooks, OneAtATime, ExitKept, SidesInv
  PROVE  ExitsNeverOversell
<1> SUFFICES ASSUME NEW s \in Symbols
             PROVE  Outstanding(s) <= Size([quantity |-> BrokerPosition(s)])
  BY DEF ExitsNeverOversell
<1> DEFINE D == {j \in DOMAIN orders \cap DOMAIN book :
                   /\ book[j].symbol = s
                   /\ book[j].intent = "EXIT"
                   /\ book[j].status \in Pending}
           f == [i \in D |-> book[i].quantity - book[i].filled]
<1>1. BrokerPosition(s) \in Int /\ Outstanding(s) = SumFunction(f)
  BY BrokerPositionType DEF Outstanding, SidesInv
<1>2. ASSUME NEW i \in D
      PROVE  /\ i \in LiveExits(s) /\ PendingOf(s) = {i} /\ orders[i].symbol = s
             /\ book[i].filled = 0 /\ book[i].quantity \in Nat
             /\ book[i].quantity = orders[i].quantity
  <2>1. /\ orders[i].symbol = s /\ orders[i].intent = "EXIT"
        /\ orders[i].status \in Pending
    BY StatusFacts DEF SidesInv, Twins, NeverAheadOfBroker
  <2>2. PendingOf(s) = {i}
    BY <2>1, OneAwaited
  <2>3. book[i].filled = 0 /\ book[i].quantity \in Nat
    BY StatusFacts DEF WholeBooks, AllOrNothing, IInv, TypeOK, Order
  <2>4. book[i].quantity = orders[i].quantity
    BY DEF BooksAgree
  <2> QED
    BY <2>1, <2>2, <2>3, <2>4 DEF LiveExits, Of
<1>3. CASE D = {}
  <2>1. SumFunction(f) = 0
    <3>1. f = [x \in DOMAIN f |-> f[x]] /\ DOMAIN f = {} /\ IsFiniteSet({})
      BY <1>3, FS_EmptySet
    <3> HIDE DEF f
    <3> QED
      BY <3>1, Sum
  <2> HIDE DEF f, D
  <2> QED
    BY <1>1, <2>1 DEF Size
<1>4. ASSUME NEW i \in D
      PROVE  Outstanding(s) <= Size([quantity |-> BrokerPosition(s)])
  <2>1. D = {i}
    BY <1>2
  <2>2. SumFunction(f) = book[i].quantity
    <3>1. /\ f = [x \in DOMAIN f |-> f[x]] /\ DOMAIN f = {i}
          /\ f[i] = book[i].quantity /\ f[i] \in Int
          /\ [x \in DOMAIN f \ {i} |-> f[x]] = [x \in {} |-> 0]
      <4>1. i \in D /\ f[i] = book[i].quantity - book[i].filled
        OBVIOUS
      <4>2. f[i] = book[i].quantity /\ f[i] \in Int
        BY <1>2, <4>1
      <4>3. DOMAIN f = {i} /\ f = [x \in DOMAIN f |-> f[x]]
        BY <2>1
      <4> HIDE DEF f, D
      <4> QED
        BY <4>2, <4>3
    <3>2. SumFunction([x \in {} |-> 0]) = 0
      BY FS_EmptySet, SumOfZeros
    <3>3. IsFiniteSet(DOMAIN f)
      BY <3>1, FS_Singleton
    <3> HIDE DEF f
    <3>4. SumFunction(f) = f[i] + SumFunction([x \in DOMAIN f \ {i} |-> f[x]])
      BY <3>1, <3>3, Sum
    <3>5. SumFunction([x \in DOMAIN f \ {i} |-> f[x]]) = 0
      BY <3>1, <3>2, Zenon
    <3> QED
      BY <3>1, <3>4, <3>5
  <2>3. positions[s].status = "EXIT_PENDING" /\ book[i].quantity = Size(positions[s])
    <3>1. positions[s].status = "EXIT_PENDING"
      BY <1>2 DEF OneAtATime, LiveExits, Of, Waits
    <3>2. PICK j \in LiveExits(s) : orders[j].quantity = Size(positions[s])
      BY <3>1 DEF ExitKept
    <3>3. j = i
      BY <1>2, <3>2 DEF LiveExits, Of, PendingOf
    <3> QED
      BY <1>2, <3>1, <3>2, <3>3
  <2>4. BrokerPosition(s) = positions[s].quantity
    <3>1. Unknown(s) = {}
      BY <1>2 DEF SidesInv, Twins
    <3>2. BrokerPosition(s) = positions[s].quantity + Signed(book[i], book[i].filled)
      BY <1>2, <3>1 DEF SidesInv, SidesMatch
    <3>3. Signed(book[i], book[i].filled) = 0 /\ positions[s].quantity \in Int
      BY <1>2, NothingSigned DEF IInv, TypeOK, Position
    <3> QED
      BY <3>2, <3>3
  <2>5. positions[s].quantity \in Int
    BY DEF IInv, TypeOK, Position
  <2> HIDE DEF f, D
  <2> QED
    BY <1>1, <2>2, <2>3, <2>4, <2>5 DEF Size
<1> QED
  BY <1>3, <1>4

(* When the broker executes an order at once or not at all, the exits it   *)
(* may still execute never exceed what it holds, for any number of symbols *)
(* and orders: the oversold exit of the counterexample needs an execution  *)
(* that overtakes a smaller one (square_off_intraday, _apply_exit_fill).   *)
THEOREM NeverOversells == ~PartialFills => (RunnerSpec => []ExitsNeverOversell)
<1> SUFFICES ASSUME ~PartialFills PROVE RunnerSpec => []ExitsNeverOversell
  OBVIOUS
<1> DEFINE K == IInv /\ BooksAgree /\ FinalReports /\ NeverAheadOfBroker
           J == K /\ WholeBooks /\ OneAtATime /\ ExitKept /\ SidesInv
<1>1. Init => J
  <2>1. Init => K /\ WholeBooks /\ OneAtATime /\ ExitKept
    BY InitIInv, InitBooks, InitFills
       DEF Init, EmptyDict, FinalReports, NeverAheadOfBroker, NoPosition, ExitKept
  <2>2. Init => SidesInv
    <3> SUFFICES ASSUME Init PROVE SidesInv
      OBVIOUS
    <3>1. DOMAIN book = {} /\ DOMAIN orders = {} /\ \A s \in Symbols : positions[s].quantity = 0
      BY DEF Init, EmptyDict, NoPosition
    <3>2. BookFinite
      BY <3>1, FS_EmptySet DEF BookFinite
    <3>3. ASSUME NEW s PROVE BrokerPosition(s) = 0
      <4> DEFINE D == {j \in DOMAIN book : book[j].symbol = s}
      <4>1. D = {}
        BY <3>1
      <4>2. [i \in D |-> Signed(book[i], book[i].filled)] = [i \in {} |-> 0]
        BY <4>1
      <4>3. SumFunction([i \in {} |-> 0]) = 0
        BY FS_EmptySet, SumOfZeros
      <4> QED
        BY <4>2, <4>3 DEF BrokerPosition
    <3> QED
      BY <3>1, <3>2, <3>3 DEF SidesInv, Twins, SidesMatch, Unknown, PendingOf
  <2> QED
    BY <2>1, <2>2
<1>2. J /\ [RunnerNext]_vars => J'
  <2> SUFFICES ASSUME J, [RunnerNext]_vars PROVE J'
    OBVIOUS
  <2>1. K' /\ WholeBooks' /\ OneAtATime'
    BY NextKeepsIInv, NextKeepsBooks, RunnerStepKeepsFinal, NextKeepsWhole,
       NextKeepsOneAtATime DEF Next
  <2>2. ExitKept'
    BY <2>1, RunnerStepKeepsExit
  <2>3. SidesInv'
    BY <2>1, RunnerStepKeepsSides
  <2> QED
    BY <2>1, <2>2, <2>3
<1>3. J => ExitsNeverOversell
  BY SidesForbidOverselling
<1> QED
  BY <1>1, <1>2, <1>3, PTL DEF RunnerSpec

=============================================================================

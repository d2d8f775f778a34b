------------------------- MODULE PaperTradingProps --------------------------
(***************************************************************************)
(* What a Paper account may be trusted for.                                *)
(***************************************************************************)
EXTENDS PaperTrading, FiniteSets, Functions

Broker == [funds : Int, pnl : Int, positions : Holdings]
Books == [positions : Holdings, filled : SUBSET Symbols]
Snapshot ==
  [sim : Broker, tm : Books, risk : RiskState, day : Nat, filed : Nat,
   dayStart : Int, misdated : BOOLEAN]

(* The variables have their types; a snapshot is of today or earlier, and  *)
(* saved under its date or an earlier one.                                 *)
PaperTypeOK ==
  /\ sim \in Broker
  /\ tm \in Books
  /\ risk \in RiskState
  /\ entered \subseteq Symbols
  /\ todo \subseteq Symbols
  /\ phase \in {"top", "process", "recover", "down"}
  /\ day \in Nat
  /\ started \in 0..day
  /\ dayStart \in Int
  /\ misdated \in BOOLEAN
  /\ saved # <<>> => /\ saved[1] \in Snapshot
                     /\ saved[1].day <= day /\ saved[1].filed <= saved[1].day

(* The trade manager and the simulated broker hold the same positions, at  *)
(* the same average price while there is one - so that no exit is refused. *)
Agree(books, broker) ==
  \A s \in Symbols :
    /\ books.positions[s].quantity = broker.positions[s].quantity
    /\ Active(books, s) =>
         books.positions[s].average_price = broker.positions[s].average_price

BooksMatchBroker == Agree(tm, sim)

(* No money is made or lost but by realized P&L: the funds are the capital *)
(* plus the P&L, less the margins of the open positions.                   *)
Reserved(broker) ==
  SumFunction([s \in Symbols |-> Margin(broker.positions[s].quantity,
                                        broker.positions[s].average_price)])

MoneyConserved == sim.funds = 100 * Capital + 100 * sim.pnl - Reserved(sim)

(* The daily P&L the loss limit is applied to is what the simulated broker *)
(* realized today, also after restarts and reconnects - unless the process *)
(* that saved it was started on an earlier date and interrupted: then the  *)
(* restart begins the limits of the day anew.                              *)
DailyPnlIsOfToday == ~misdated => risk.daily_pnl = sim.pnl - dayStart

(* No restart or reconnect makes a symbol enter twice on a day: the entry  *)
(* counter never counts more than the symbols entered today, and all of    *)
(* them unless the limits began anew.                                      *)
OneEntryPerSymbolADay ==
  /\ risk.trade_count <= Cardinality(tm.filled)
  /\ ~misdated => risk.trade_count = Cardinality(tm.filled)

(* No entry is taken on a day that has realized the maximal loss, unless   *)
(* the limits began anew.                                                  *)
LossStopsEntries ==
  [][\A s \in Symbols :
       phase = "process" /\ ~misdated /\ Active(tm', s) /\ ~Active(tm, s)
         => sim.pnl - dayStart > MaxLoss]_vars
=============================================================================

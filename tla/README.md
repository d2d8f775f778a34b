# AutoTick: verification project

AutoTick is a trading engine: strategies signal entries, a trade manager sends
orders to a broker and keeps the books (orders, positions, trades, stop-loss
levels), a risk manager limits the day, and the Live runner reconciles with the
broker and persists a snapshot so that it can be killed and restarted. This
directory holds TLA+ modules translated from that code, the TLC runs that check
them, and TLAPS proofs of the main results. Paths below are relative to
`src/autotick/`.

## 1. Inventory

| Component | State it keeps | Operations | What must hold |
|---|---|---|---|
| Trade manager (`engine/trade_manager.py`) | `_orders`, `_positions`, `_trades`, `_exit_levels` | create, update, reconcile, cancel, modify orders; entry and exit fills; exits by stop, target, expiry, square-off; startup reconciliation | every execution booked once; a held position is protected; one exit per position; documented order transitions |
| Risk manager (`engine/risk_manager.py`) | entry counter, daily P&L, kill switch, persistence latch | count an entry, realize P&L, reset, restore, block | the limits of the day, across restarts |
| Realtime runner (`main.py`, `_run_realtime`, `_run_providers`) | `entered`, `blocked`, `trading_date`, `runtime_date`, watched symbols | pass of the loop, new day, reload, recovery, shutdown | no duplicate entry; unknown broker state blocks; nothing due is left; open positions are watched |
| Recovery and store (`persistence/`) | one snapshot per profile | recover, reconcile, save | a restart continues where the snapshot ended; risk state is not lost within a day |
| Reconnect manager (`engine/reconnect_manager.py`) | current error, authentication attempts | recover | ends in success, a stop, or exhausted authentication; keeps to its limit |
| AngelOne adapter and session (`providers/brokers/angelone/`, `providers/session_pool.py`) | connection, tokens, instrument master | reads with retries, writes exactly once, refresh and login | a write is never repeated; an unknown result is reported as such |
| Simulated broker (`providers/brokers/simulated/`) | funds, orders, positions | immediate fills | money is conserved |
| Calendar, expiry (`engine/market_session.py`, `engine/expiry.py`) | configuration | open/close times, square-off, cutoffs | the scans agree with what they look for; never trades outside the hours |
| Swing watchlist (`strategy/swing_strategy.py`, `swing_watchlist_tool.py`, `main.py`) | the main CSV file, import files, the builder's window | import, reload, create, upload | an import survives a crash; the main file is only extended |
| Engine, dispatcher, validator (`engine/`) | subscriptions | emit | see section 7 |
| Strategies, indicators, reports, audit, configuration, diagnostics | - | - | see PROJECT.json and section 7 |

**How they interact.** One thread runs the loop; calls are synchronous and there
are no callbacks into the trade manager. The concurrency is with the broker (and
the account owner): orders execute, are cancelled or rejected between any two
calls, and the engine learns it from a polled order book. `create_order` is the
only write; its outcome may be unknown. The snapshot is written at the end of a
pass, so everything since is lost in a crash. Midnight changes the order list of
the broker and the meaning of "today" under a running process, and a slow broker
lets time pass in the middle of a pass. In Swing mode the owner, the watchlist
builder and the process share a folder of CSV files without a lock.

**What is hard.** Polled, cumulative, skipped or late reports; two reads that are
not one snapshot; a write with an unknown result; a crash between a write at the
broker and the save; partial fills that meet an exit; the day change; two clocks
read at different moments of one pass; errors of two kinds alternating in one
recovery; file operations of three parties between each other. The list with
source lines is `hazards` in PROJECT.json.

## 2. Modules

| Module | Models |
|---|---|
| `RiskManager` | the four risk attributes as one record, each method as a function on it |
| `Orders` | the order record, the status sets, `_TRANSITIONS`, `_filled_quantity`, dictionaries |
| `TradeManager` | the trade manager with the broker beside it; `Spec` (the runner's calls and cancellations, in one process), `RunnerSpec` (the runner's calls), `FairRunnerSpec`. Recoveries and restarts are in `LiveTrading` |
| `OrderLifecycle` | abstract specification: what the state machine promises of every order |
| `TradeCycle` | abstract specification: what the runner promises of an account, that the trades of an instrument follow one another at the broker |
| `LiveTrading` | the runner around `TradeManager`: passes, snapshot, crash, restart, reconnect, day change, trades by hand |
| `ExitLevels` | the values of the exit levels of one position: `monitor_exit`, the level arithmetic, snapshot and restart |
| `PaperTrading` | Paper mode: the simulated broker under trade manager, risk manager and runner, with its part of the snapshot |
| `MarketCalendar`, `Expiry` | the market clock and the expiry policy as operators, with what the validator demands of their configuration |
| `BrokerSession`, `ReconnectManager` | what a call, a login and a reconnect answer; the recovery loop over them |
| `TradingDay` | the runner against the clock: calendar, expiry, square-off, reconnect manager and risk manager composed |
| `SwingImport`, `WatchlistTool` | the import of CSV files, operation by operation; the builder that makes and uploads them |
| `SwingTrading` | Swing mode: the watched symbols between files, builder, owner, reloads, positions and restarts |
| `...Props` | the properties of the module they are named after |
| `...Proofs` | the theorems about the module they are named after; `FillProofs` those about what the executions of the trade manager add up to |
| `Sums` | lemmas about the sums of the community modules (`SumFunction`), smallest numbers and least indices, for the proofs |
| `MC...` | small instances for TLC |

The runner is seen three times, each time with what it needs and the rest as
coarse as possible: `LiveTrading` has orders, uncertain writes and crashes and
no clock but midnight; `TradingDay` has the clock, the calendar and the recovery
loop and orders that are executed at once; `SwingTrading` has the watchlist and
sees of an order only what watching depends on.

**TradeManager.** `orders`, `positions`, `exit_levels`, `trades` are the four
dictionaries; `risk` is the risk manager; `book` is the broker (external);
`raised` is the exception that left the last call, or `LoopLeft`. A method is one
action, `modify_order` excepted, which is not modelled (section 7).
`reconcile_orders` is not one action: it reads the book once (`ReconcileBegin`, into
`inbox`) and updates one order after the other (`ReconcileOne`), and the broker
moves in between. `EnterTrade` and `SubmitExit` contain all of `create_order`:
`Accepted`, or `NotAccepted` in its four forms (refused by the adapter before
sending, rejected by the broker, result unknown, a preceding read failed).
After a refusal, an accepted margin fit or an exception the state is what the
code leaves, including the rejected order that `create_order` trips over.
`BrokerStep` lets the broker take any move of its status map. `CancelOrder` is
the acknowledged cancellation, `CancelUncertain` the one of unknown result, after
which nothing is recorded. `LeaveLoop` is the end of the calls: the close of the
market, a stop, or an order book that cannot be read.

**LiveTrading.** `phase` is the place in `_run_providers`/`_run_realtime`:
`down`, `orders` and `positions` (the two reads of `reconcile_startup`), `top` of
the loop, `updates` (applying `reconcile_orders`), `process` (symbols). `saved`
is the snapshot and `savedToday` whether its trading date is the current one;
`today`, `stale` and `earlier` say which orders belong to the current date and
to the date the process believes in, `aged` that it was started on an earlier
date. `Leave` is what remains of a process that ended (nothing); `Crash` leaves
the old snapshot, `Shutdown` and an exception write a new one - the exception
under the date of the start, which the history variable `misdated` remembers -
and an exception during startup writes none. `SaveMemory` may fail and then
latches `persistence_failed`. `doubled` is history as well: the symbols an exit
was sent for that did not match the broker, because it held another quantity or
still worked on an order of the symbol (`MatchedExit`). The code never compares
an exit with the broker, so such exits happen (section 6). `TradeCycle` is this
module seen from the broker alone: a symbol is `flat`, `entering`, `held` or
`exiting` by what the broker works on and holds (`Stage`, `Account` in
`LiveTradingProps`), and `lost` once it is in `doubled`; reports, snapshots,
crashes and recoveries are stuttering steps of it.

**ExitLevels.** `TradeManager` keeps the set of symbols that have exit levels;
this module keeps the levels of one of them (`levels`), with the direction and
status of its position, the runner's `phase` and the last snapshot `saved`. A
tick is one of `TickHitsStop`, `TickTrails`, `TickActivates`, `TickHitsTarget`,
`TickPasses`, the branches of `monitor_exit`; `SubmitExit` has every outcome of
the order: filled at once, waiting, refused with `ValueError` (which ends the
run and saves), or a broker error (which starts a recovery). Long and short are
one set of actions over the order `AtLeast`. `reopened` and `survived` are
history variables for the properties. Prices are whole, levels hundredths, so
percentages are exact. An exit that the simulated account rejects is recorded,
and the pass goes on to its save. The position changes hands only through AutoTick here; a
trade by hand in the other direction is in `LiveTrading`.

**PaperTrading.** `sim` is the simulated account and execution provider (funds,
realized P&L, positions), `tm` the trade manager's side, `risk` the risk manager.
A simulated market order is filled or rejected inside `place_order`, so
`create_order` with all it books is one action (`Enter`, `Exit`), nothing is ever
pending, and `reconcile_orders` finds nothing. `AfterEntry` and `AfterExit` are
the two halves of `_fill`. Which price an order meets, whether a strategy
signals and whether an exit triggers is open. `Restart` restores both sides from
one snapshot and reconciles them (`RestoreSimulated`, `RestoreBooks`,
`RestoreRisk`, `Reconciled`), `Recover` only reconciles, and saves. A snapshot has
the day it was made on (`day`) and the date it is filed under (`filed`):
`Shutdown` and the end of a pass file it under today, `Interrupt` (an exception or
Ctrl-C, between any two steps) under the date of the start (`started`), as
`main.py:1041` and the `finally` block do; `RestoreRisk` looks at `filed`. History
variables are `dayStart`, the P&L a day began with, and `misdated`: today's risk
state was lost because its snapshot was filed under another date. Funds and margins are hundredths, so that a
margin percentage is exact; the code's floats are not modelled. Limit orders,
`modify_order`, `cancel_order` and `square_off` of the provider are not reached
by the runner and left out.

**TradingDay.** `clock` counts minutes and a date is a day's number; the length
of a day and of a week are constants, so that a day is a few minutes. `config`
is any configuration the validator accepts (`ValidConfig`) and never changes.
Time passes between any two steps (`Tick`), also in the middle of a pass, at
most `PassLength` minutes of it. The calendar's clock is that of its time zone;
orders are dated by the machine's (`trade_manager.py:148`), `HostOffset` minutes
apart. `GetContract` finds the contract, refuses, or answers that a loaded
instrument master does not list it (`master`, loaded by `LoadContracts`). `BeginPass` is the top of the loop: the new
day, the order reconciliation and the square-off, which reads the time of the
top and then the time of now; `SkipSymbol`, `ExitSymbol`, `EnterSymbol` and
`PassSymbol` are the ways through `_process_symbols`, each with its
`get_contract` and its expiry check. The recovery is `ReconnectManager` over
`BrokerSession`: `NextAttempt`, `Reconnect`, `RestoreFails`, then `Resume` or
`GiveUp`; the broker goes away, refuses logins and ends tokens `MaxChanges`
times. `MarketCloses`, `Stop`, `Interrupt` and `GiveUp` are the ways the run
ends, each with the date it saves under. Orders are executed at once or refused,
so the positions and orders of a snapshot are those of memory, and `saved` keeps
its date and risk state. `pass` holds the pass's locals and, as history, what it
tried, skipped and found unknown; `rejected` of `recovery` is history too.

**SwingTrading.** `main` and `folder` are the files; a file is its header and its
rows, and a price is a number or stands for one that cannot be read. The import
reads the import, reads the main file again, replaces it and deletes the import
in separate steps (`ReadSource`, `ReadMain`, `ReplaceMain`, `DeleteSource`), each
of which may fail or be the process's last. The builder opens the file under its
final name in the watched folder, closes it and reads it back in three steps
(`CreateFile`, `CloseFile`, `ReadBack`), and uploads in three more (`ConfirmUpload`, `CopyUpload`,
`RenameUpload`), while its saved file may be edited between any two. The owner edits the main
file, puts imports into the folder and takes away one that stops the startup.
`Delivered` records what arrives readable, also in the place of another file;
not what is put under the name of a file that is just being imported, which the
import deletes without having read it (section 6). `InOrder` (files by age) and
`Extended` (the watchlist with new triggers) are definitions instead of the
library's `SortSeq` and `@@`, which TLC evaluates by Java code and the prover
knows nothing of.
`BeginPass` is the daily reload, `Refresh` the set-up of strategies and the
order reconciliation with `_remove_closed_swing_symbols`. Positions are none,
open or closed; an entry executes in parts, also after an exit. `delivered`,
`removed`, `careless` and `reopened` are history variables: what arrived
complete, what the owner took out, whether he spoilt the main file or edited it
during an import, and symbols given up whose entry went on.

**Abstractions.** In `TradeManager` and `LiveTrading` prices are positive where
the code tests them, and appear only as the P&L an exit realizes (`PnLs`). Exit
levels are the set of keys that have them. A strategy may signal, and a stop may
be hit, in any pass. Timestamps are the sets above (an order's
`status_updated_at` is set once, when it is validated). Positions and holdings
are one map, the sum of what the broker's orders executed. In `LiveTrading` the
process is not inside a pass at midnight (in `TradingDay` it may be), and the
positions, holdings and trades of `reconcile_startup` are read at one moment,
after the orders. In `PaperTrading` no interrupt falls inside an order, between
the simulated fill and its booking. Writes that
fail during shutdown leave what a crash leaves. `entered` is thinned out report
by report in the model and after the last report in the code; nothing reads it
in between. In `TradingDay` the pre-market wait and the back-off are the choice
of when the next step is taken. `next_open` and `expiry_cutoff` look `Horizon`
minutes or days far. Beyond that the code differs (`next_open` raises after 370
days, `expiry_cutoff` goes on scanning); `WithinReach` says that no configuration
looks further, and TLC checks it of the instance.

## 3. Runs

All runs set `CHECK_DEADLOCK FALSE`: identifiers, minutes or edits run out (the
bounds below), and an exception ends the program.

| Run | Instance | Shows |
|---|---|---|
| `tm_core` | `Spec`, 2 symbols, 3 orders, quantity 2, partial fills | a position has exit levels exactly while it holds something; a position is the sum of its orders' executions; one trade per filled order; the entry counter counts entries that executed; AutoTick's books never run ahead of the broker's; orders implement `OrderLifecycle` |
| `tm_live` | `FairRunnerSpec`, 1 symbol, 3 orders, long and short, late rejections, no partial fills | one exit, of the whole size, for a waiting position; an order believed over is over; the daily limit is exceeded by fewer than the number of symbols; while the loop goes on, an order that is over at the broker does not stay pending, and a position whose exits are over does not stay EXIT_PENDING |
| `live_crash` | 1 symbol, 3 orders, crashes, exceptions, failed reads, late rejections, 2 dates | across crashes and restarts no entry is sent for a symbol in which the broker holds a position or works on an order, unless an exit of it was sent twice; the broker's orders and positions implement `TradeCycle`; what is managed and not waited for is what the broker holds; orders of the day that were lost block their symbol; the entry counter covers the entries AutoTick knows of, unless a snapshot was misdated |
| `live_partial` | 1 symbol, 2 orders of quantity 2, partial fills, crashes, failed reads, logins and snapshot writes, trades by hand both ways | a snapshot never has a position without levels, whatever memory and recovery it comes from |
| `exits_trailing` | prices 8-13, ATRs 0, 0.75 and 1.20, multiplier 2, 10 % stop and target, long and short, crashes | the trailing stop is where stop loss and best price put it; protection only tightens; a restart resumes from a snapshot that is not tighter; no hit passes without an exit |
| `paper` | 2 symbols, prices 9 and 11, quantities 1 and 2, capital 12, margin 50 %, maximal loss 3, 2 dates, interrupts and crashes | trade manager and simulated broker hold the same; funds are the capital plus P&L less open margins; unless a snapshot was misdated, the daily P&L is today's, the entry counter counts today's symbols, and a day that has lost the maximum takes no entry |
| `trading_day` | 1 expiring symbol, days of 6 minutes, weeks of 3 days, 13 minutes, passes of up to 1 minute, 2 broker changes, 2 authentication attempts, the machine's clock one minute behind; six configurations | the three calendar scans agree with their definitions; a pass leaves nothing open that was due; an unknown expiry stops entries for the pass; authentication keeps to its limit; one entry per symbol and trading date; every recovery ends when the broker stays |
| `swing` | 2 symbols, 2 imports, by hand or by the builder, 2 edits, 2 dates | a delivered import is in its file or in the main file; the main file stays readable and keeps its rows and triggers; a pass goes through every open position; readable imports are all applied in the end |
| `bad_*` | small instances | the findings of section 6 |

**Bounds.** Three orders are an entry, an exit and a second entry, or an
uncertain entry (which takes two identifiers: the client's, and the broker's
AutoTick never learns) and a later entry: the shortest way to a duplicate. (The
duplicate that follows a doubled exit needs five and a midnight, see section 6;
the theorem of section 4 covers every number.)
Quantity 2 is the least with a partial fill. `MaxTrades` 2 lets the limit be
reached, and `MaxLoss` is one lost trade. `LastDate` 1 is one midnight:
yesterday's and today's orders, and a process that is stale. `ReportsOpen FALSE`
lets the broker go from SUBMITTED straight to an execution, which OPEN only
delays; `tm_core`, `live_partial` and `bad_stale_date` use it, the other runs
keep OPEN. `Outages` names what may go wrong beside the broker, so that each
live run stays small: failed logins are in `live_partial`, and an interrupt does at any point what an exception does at
one, and is used in `bad_stale_date`; the theorems of section 4 hold for all
outages together. The trades by hand of `live_partial` are on one date.
In `exits_trailing` six prices let a tick jump over stop, target and trailing
stop, and the ATRs put the trailing stop on either side of the stop loss; the
target is set (with a target of 0 the target branch keeps the position). In
`paper` the capital pays for one position of quantity 2 or two of quantity 1, so
entries are refused, and the daily loss is reached by one losing exit of quantity
2 or by two of quantity 1.
Two symbols interact only through the risk state and the funds; they are used in
`tm_core` and `paper`, with symmetry.

In `trading_day` minutes 2 to 4 of a day are market time, so there is a minute
before, at, between and after every boundary; the machine, one minute behind,
changes its date after the calendar. `LastTime` 12 covers two days and the first
minute of a third: a run over midnight, a restart on the next day,
and an expiry (day 2) whose cutoff lies inside. The configurations are
positional with expiry exit one trading day before, intraday with a square-off,
a holiday that moves the cutoff, with a configured contract, a week that wraps
around with a break over midnight, Swing outside market hours, and an always open
market, the last two without expiry exit; two more are invalid and rejected. `AuthMaxAttempts` 2 and two broker
changes let errors of both kinds alternate and the limit be reached. One symbol
is enough: symbols meet in the risk counters only, and the theorems of section 4
hold for any number.

`swing` has two scenarios, chosen by `MCInit`: the runner only reads the main
file, so the imports are checked with a process that finds the market closed
after importing (two stamps, one edit), and the runner with a main file that the
owner changes twice. The files of the instance are: a known symbol with a valid
or an unreadable price, a table with a duplicate, one that names a known symbol
with another trigger, and an unreadable import.

**Fairness.** The loop reconciles in every pass (`main.py:838`) and applies every
report it read, so `ReconcileBegin` and `ReconcileOne` are weakly fair. Nothing is
assumed of the broker, signals, exits or outages: orders may stay open for ever,
and the loop may be left before they end, as it is at the close of the market
(`main.py:774`), when DAY orders end. So `PendingOrdersSettle` and `ExitsResolve`
ask what is settled once the broker is done with an order, and allow the end of
the loop (`LeaveLoop`) or an exception instead. In `TradingDay`
a process that runs goes on (`WF` of `Runner`); the broker, the clock, the stop
event and the user owe nothing, and `RecoveryEnds` asks only that the broker is
not away for ever. In `SwingTrading` the process goes on (`WF` of `Process`) and
comes to its daily close (`SF` of `Close`: the market ends every day, which is
also what starts a next import), and no file operation of the import fails every
time it is tried (`SF` of both reads, replacing and deleting).

**Mutants.** Each property has a mutant in PROJECT.json: an operator marked
"Mutant" in the module, with which TLC finds the property violated.

## 4. Proofs

TLAPS checks these for every set of symbols, orders, quantities and prices,
every risk limit, calendar, configuration and file, and every broker the
environment actions allow:

| Theorem | States |
|---|---|
| `ProtectedAlways` | `Spec => [](TypeOK /\ StatusMatchesQuantity /\ HeldIsProtected)` of `TradeManager` |
| `BooksAgreeAlways` | `Spec => []BooksAgree` |
| `TradesAlways` | `Spec => []OneTradePerFilledOrder` |
| `OrdersImplementLifecycle` | `Spec => OrdersFollowLifecycle` (refinement of `OrderLifecycle`) |
| `NeverAhead` | `RunnerSpec => []NeverAheadOfBroker` |
| `EntriesCountedAlways` | `Spec => []EntriesCounted` |
| `NearLimitAlways` | `IsFiniteSet(Symbols) => (Spec => []EntriesNearLimit)` |
| `FillsAlways` | `OneDirection \/ ~PartialFills => (Spec => []PositionIsSumOfFills)` |
| `OneExitAlways` | `~PartialFills => (RunnerSpec => []OneExitInFlight)` |
| `ExitPendingAlways` | `~PartialFills => (RunnerSpec => []ExitPendingHasExit)` |
| `NeverOversells` | `~PartialFills => (RunnerSpec => []ExitsNeverOversell)` |
| `LiveAlways` | `LiveSpec => [](LiveTypeOK /\ StatusMatchesQuantity /\ HeldIsProtected /\ SnapshotIsProtected)` of `LiveTrading` |
| `LiveTypeAlways` | `LiveSpec => []LiveTypeOK` |
| `UnknownBlockedAlways` | `~ManualTrades => (LiveSpec => []UnknownIsBlocked)` |
| `CountCoversAlways` | `LiveSpec => []CountCoversKnown` |
| `NoDuplicateAlways` | `~ManualTrades /\ ~PartialFills => (LiveSpec => NoDuplicateEntry)` |
| `ManagedIsHeldAlways` | `~ManualTrades /\ ~PartialFills => (LiveSpec => []ManagedIsHeld)` |
| `AccountImplementsCycle` | `~ManualTrades /\ ~PartialFills => (LiveSpec => BrokerFollowsCycle)` (refinement of `TradeCycle`) |
| `LevelsTypeAlways`, `TrailingAlways`, `SnapshotAlways` | `Spec => []LevelsTypeOK`, `[]TrailingFollowsBest`, `[]SnapshotNeverTighter` of `ExitLevels` |
| `NeverLoosens` | `Spec => ProtectionOnlyTightens` |
| `HitsAreAnswered` | `Spec => []NoHitSurvives` |
| `PaperTypeAlways`, `PaperBooksAlways`, `DailyPnlAlways`, `OneEntryAlways`, `MoneyAlways` | `Spec => []PaperTypeOK`, `[]BooksMatchBroker`, `[]DailyPnlIsOfToday`, `[]OneEntryPerSymbolADay`, `[]MoneyConserved` of `PaperTrading` |
| `PaperLossStops` | `Spec => LossStopsEntries` |
| `TypeAlways`, `AuthLimitAlways`, `UnknownAlways`, `NothingDueAlways` | `Spec => []TradingDayTypeOK`, `[]AuthLimit`, `[]UnknownExpiryStops`, `[]PassLeavesNothingDue` of `TradingDay` |
| `DatesAlways` | `WithinReach => (Spec => []DatesMatchDefinition)` |
| `OneEntryADayAlways` | `Spec => OneEntryADay` |
| `OpenIsWatchedAlways`, `ImportsAlways` | `Spec => []OpenIsWatched`, `[]ImportsSurvive` of `SwingTrading` |
| `MainPreserved` | `Spec => ImportPreservesMain` |

They rest on the constants' assumptions, which say of what type the constants
are (`RiskAssumption`, `OrderAssumption`, `BrokerAssumption`, `LevelsAssumption`,
`PaperAssumption`, `CalendarAssumption`, `ReconnectAssumption`,
`TradingDayAssumption`, `SwingImportAssumption`, `WatchlistToolAssumption`,
`SwingTradingAssumption`), and on the hypotheses in the table:

* `IsFiniteSet(Symbols)`: without it the bound of `EntriesNearLimit` means nothing.
* `OneDirection` (the strategy enters by BUY only or by SELL only) or no partial
  fills: otherwise `PositionIsSumOfFills` is false of the code, see section 6.
* `~PartialFills`: otherwise every property stated under it is false of the code.
  `bad_oversell` violates `OneExitInFlight` and `ExitsNeverOversell`,
  `bad_stuck_exit` violates `ExitPendingHasExit`; the double count of
  `bad_double_count` violates `ManagedIsHeld` too, and a second entry may follow
  from it (section 6), which violates `NoDuplicateEntry` and `BrokerFollowsCycle`.
* `~ManualTrades`: an order placed by hand while the process runs is heard of at
  the next recovery, not before. A trade by hand also breaks `NoDuplicateEntry`,
  `ManagedIsHeld` and `BrokerFollowsCycle`: nothing tells AutoTick of it before
  the entry.
* Two conditions stand in the properties themselves. `CountCoversKnown`,
  `DailyPnlIsOfToday`, the equality of `OneEntryPerSymbolADay` and
  `LossStopsEntries` are about days whose snapshot was not `misdated`
  (`bad_stale_date` shows the others). `OneEntryADay` is about an earlier order
  that the machine dated as the calendar does (section 6).
* `WithinReach`: the market opens within the reach of `next_open`, and an expiry
  has the configured number of trading days before it within that of
  `expiry_cutoff`. `MCTradingDay` assumes it of its instance, so TLC checks it.

*Books.* `HeldIsProtected` is not inductive alone: that an entry fill has a
position to add to, and an exit fill never drives a quantity through zero, needs
the sign of quantities, and that a report is about an order of the right type.
`IInv` is the conjunction of type correctness, the agreement of status and
quantity, and protection; it is preserved by each action, and the fills are
lemmas of their own (`EntryFillKeepsPositions`, `ExitFillKeepsPositions`).
For the order books the step from one state to the next is reduced to three
facts about single orders (`UpdateMoves`, `CreateAppears`, `BrokerStepMoves`):
an order appears with nothing executed, moves along an arrow, or accumulates.
`BooksAgree` contains its own strengthening `InboxIsRecent`: a report that waits
to be applied is not older than the record and not newer than the broker's.
`NeverAhead` needs `RunnerSpec`, because `cancel_order` records CANCELLED on the
broker's acknowledgement, and the order may still execute.

*Sums.* `SumFunction` is a recursion over a set in an order that `CHOOSE` picks.
`Sums` shows what the proofs need of it (`SumChange`: changing or adding one
value changes the sum by as much) without an induction rule: among the sets for
which a statement fails there is a smallest, because subsets of a finite set are
well-founded, and that one leads to a contradiction. The same form of argument
serves the recursive functions of the models: an explicit function satisfies the
recursion, two functions that satisfy it agree, and so `CHOOSE` picks this one.

*Entry counter and fills.* An entry is counted when it executes first; that this
happens once needs that no report takes an execution back, which is
`BooksAgree`. `CountInv` adds that the executed entries are finitely many. For
the limit, `NearInv` counts the entries that may still execute (`Waiting`) with
those that did: they are of different symbols, since `has_active_trade` refuses
a second one, and none is sent once the limit is reached. For
`PositionIsSumOfFills` the growth of an order's fill must be what the position
changes by, which fails when an exit executes against a position of its own
side, as `_apply_exit_fill` takes the size and never the side
(`trade_manager.py:483`). Two invariants exclude it: `DirectionInv` (all
positions, and so all exits, are on one side) and `OneAtATime` (without partial
fills a symbol has one order at work, an exit only with the position it closes
in EXIT_PENDING), from which `OneExitInFlight` and `ExitPendingHasExit` follow too.

*No exit beyond the position.* `ExitsNeverOversell` speaks of the broker alone,
the exit of the managed position. `SidesInv` brings the two together: of a symbol
without an order AutoTick does not know, the broker holds the managed quantity,
and, while one order is waited for, that quantity and what the order has executed
and not reported (`SidesMatch`). An order whose result is unknown
lives at the broker under an identifier of its own; the run ends with it, and no
known exit is at work then (`Twins`). An exit is sent for the managed
quantity when nothing is waited for, so for what the broker holds; its execution
empties both sides. The invariant needs orders that are executed at once:
otherwise an entry may grow behind its exit.

*Live runner.* `MemoryOK` is `IInv` as a predicate of any state of the trade
manager, so that it can be said of memory, of the snapshot and of what a
reconciliation makes of either; the quantities a reconciliation takes over are
sums over the broker's finitely many orders, and integers for that reason.
`UnknownInv` follows an order that AutoTick placed and forgot: while a process
runs its symbol is blocked, during a recovery it is among the unknown ones
between the two reads, and no step but a crash makes an order unknown
(`NothingForgotten`). `CoverInv` is the argument for the entry counter: memory
and a snapshot of the date cover the entries they know (`Covers`), a snapshot of
an earlier date knows none of today, and a process that has not noticed midnight
has sent nothing since (`StaleOK`); an order that executed is an order the
broker has (`Traced`), and a running process knows the orders of its snapshot
(`SnapshotKnown`), so that none is counted under another one's identifier.

*No second entry.* AutoTick decides on what it knows, and the broker moves on
meanwhile. `EntryInv` says why this is enough. At the broker, a symbol has at most
one order at work, an entry with nothing held or an exit for all that is held
(`OneAtWork`; this is what a doubled exit destroys). Between the two sides, at
most one order that AutoTick still waits for has ended in a way that frees the
symbol - a failed entry, a filled exit - and then the broker is flat
(`EndedInv`); while a recovery is between its two reads the same is said of the
orders that may still end so (`MayEndInv`). In the loop, a symbol that looks free
and is not held back is flat, and before entries are decided every order that
freed a symbol has been applied (`SafeInv`). Held back means in `blocked` and in
`entered`: a failed entry takes its symbol out of `entered` alone
(`main.py:221`), and is harmless here because the broker is flat then. When a
recovery ends, `UnknownInv` makes the difference: what the broker works on is
known, and then an active trade, or unknown, and then blocked. Memory and
snapshot are again one predicate (`Sound`): neither believes an order over that
the broker works on, and neither waits for two entries of a symbol.

*Managed is held.* `SidesInv` does not survive the runner: snapshots are old,
recoveries read orders and positions at two moments, and orders of yesterday are
never reported again. `AccountInv` says what does. In the loop, of a symbol that is
neither blocked nor lost and waits only for orders that will be reported
(`Awaited`), at most one execution lies between the two sides, and it explains the
difference (`Explains`): an entry that the books do not have, or an exit that they
do not have - or have, because the recovery already took the broker's quantity
(`MatchInv`). Between the two reads of a recovery nothing can be said of
quantities, which are about to be replaced; but an entry that executes there
leaves a position that the comparison with the managed ones will find
(`HoldsInv`), so its symbol ends up blocked. `EntryInv` gives the rest, above all
that the broker works on one order of the symbol at a time.

*One trade after the other.* That the account implements `TradeCycle` is then a
matter of one lemma per action: an order at work is the only one of its symbol
(`OneAtWork`), an entry meets nothing held, and a step of the process that sends
nothing leaves `Stage` and `Account` alone (`CycleMoves` puts the cases together).
`NoDuplicateEntry` is the part of it that the documents promise; the refinement
adds that an exit is sent only for what is held, that it leaves nothing, and that
nothing but an execution changes the account.

*Exit levels.* `LInv` adds to the checked invariants that the levels in the
snapshot follow their best price too, which a restart relies on. Every step
opens, tightens, closes or resumes a position (`StepOK`, one case per action);
the arithmetic is in two lemmas (`MovedTightens`, `ActivatedTightens`) that need
of an ATR and its multiplier only that their product is an integer.

*Paper.* Everything the invariants say of memory must be said of the snapshot as
well, because a restart puts it there: `Sound` is one predicate of either, and
`PInv` states it of both, with the fact that symbols filled today are among
`entered`, which is why the counter grows by one for each new symbol. `Guarded`
(a day at its maximal loss has the kill switch set) is what `LossStopsEntries`
needs; a new date and `restore_state` establish it again, except from a misdated
snapshot, which the invariants therefore carry along. `MoneyInv` adds the
equation of the funds (`Balanced`) to both; an order changes one term of the sum
of the margins and the funds by as much.

*Trading day.* `RecoveryInv` relates the two counters of a recovery at each of
its phases: an authentication error after another kind of error is counted at
once and again at the top of the loop, so the counter is between the errors met
and twice their number, which bounds them by the limit from above and from below
by half of it. `UnknownInv` says that a symbol met with an unknown expiry is not
processed again in its pass, and so cannot be closed and entered behind the kill
switch. `EntryInv` is why a day has one entry of a symbol although `entered` is
rebuilt from the dates of orders and the pass may reach into the next date: an
entry of the running trading date is in `entered`, or the date is over and the
next pass that may enter begins a new one; and while a process starts, no order
is younger than the date it starts with.

The scans are proved to find what they look for: `next_open` jumps from closed
date to closed date and from minute to minute, and nothing it jumps over is
open; `expiry_cutoff` counts back through closed dates, and the date where it
stops has as many trading days up to the expiry as were asked for, and is the
only one (`CutoffMatches`). `DueInv` is then why a pass leaves nothing due: the
square-off at the top of an intraday pass tries every open position, and a
symbol that is due at the time of the top is due at the later time at which it is
processed, because the cutoff is unique and time does not go back, so it is tried,
skipped or unknown; nothing is entered behind either cutoff.

*Watching.* `WatchInv` is `OpenIsWatched` in every phase of the loop, with two
facts: orders at work are of watched symbols or of symbols given up earlier, and
what remains of a pass is watched. Nothing about files enters the argument: the
desired list is a union with what is held, whatever the file says.

*Import.* `ImportInv` says of each place in the import where a delivered symbol
is: in its file; in the watchlist or the additions about to be written, as long
as the file is `Held` (`HeldOK`); or in the main file or among those the owner took out.
It also needs that the main file being written contains what earlier imports
brought, which is where an owner's edit during the import counts as taking out.
That an import keeps the rows and triggers of the main file (`CleanInv`) comes
down to its additions: they are new symbols, each once, with readable prices, so
appended to a readable file they leave it readable.

*Only model-checked.* The liveness properties (`PendingOrdersSettle`,
`ExitsResolve`, `RecoveryEnds`, `ImportsApplied`), because liveness under
fairness is out of the prover's reach. Every invariant, every other action
property and both refinements of the passing runs are theorems, some under the
hypotheses above; so are two of the four properties that the `bad_` runs violate,
`ExitPendingHasExit` and `ExitsNeverOversell`, under the hypothesis that excludes
the violation. `StatusMatchesQuantity` is
a theorem only (`ProtectedAlways`, `LiveAlways`).

## 5. What the checks show

The trade manager's books are sound under any interleaving with a broker that
reports cumulatively and late, as long as it does not raise: nothing is booked
twice, nothing ahead of the broker, and protection follows the position exactly.
The runner does not enter twice after a crash or an unknown result, because
broker positions and unknown orders of the day block the symbol - as long as no
exit went out twice, which blocking does not prevent, and orders are executed at
once. Under the same conditions the account sees one trade after the other, and
AutoTick is never wrong about what it holds in a symbol that it waits for
nothing of. With atomic executions and without outages, an exit is unique and
never larger than what is held, and once the broker is done with it the position
is closed or handed back - if the loop is still there to hear of it.

The trailing stop only tightens while the program runs, in both directions and
for all parameters; a restart may give back what was gained since the last
snapshot and nothing else; and no tick at or through protection passes without
an exit being submitted.

A Paper account keeps its money through restarts, reconnects, interrupts and day
changes; a crash may lose passes, but loses them on both sides. It keeps the
limits of the day unless the process was started on an earlier date and ends by
an exception or Ctrl-C: the next start of that day then begins them anew
(`bad_stale_date`). The entry counter covers the entries AutoTick knows of, in
Live mode; one that a crash or an uncertain write lost is not among them.

Within market hours the clock is handled soundly too: a pass that time overtakes
leaves nothing open that was due when it began, no sequence of restarts and
midnights gives a symbol a second entry on a trading date (as long as machine and
calendar agree on the date of its order), and every recovery
ends within its limit. The Swing import survives a kill at every file operation,
and no reload, reconnect or restart lets go of an open position.

The limits are the interesting part: partial executions break the exit logic,
recovery reads two things at two moments, a rejection raises, and the date a run
is saved under is the date of its start unless the runner returns.

## 6. Findings

* `bad_oversell`: while an exit is pending for the executed part of an entry, a
  further execution sets the position OPEN again (`trade_manager.py:586`); the
  next trigger sends a second exit for the whole of it. Together the exits sell
  more than is held, and the fill that no longer fits raises `ValueError`.
* `bad_stuck_exit`: an exit that is cancelled together with a new partial
  execution takes the branch for executions and not the `elif` that gives the
  position back (`trade_manager.py:163`); what is left stays EXIT_PENDING, and no
  stop is monitored.
* `bad_stale_date`: `runtime_date` is the date of the start until
  `_run_realtime` returns; when a `KeyboardInterrupt` or another exception
  leaves it on a later day, the `finally` block (`main.py:1155`) saves the entry
  counter, P&L and kill switch of today under the date of the start, and the
  next start resets them (`persistence/recovery.py:95`). Paper mode does the
  same: with `bad_stale_date`'s steps a Paper process takes entries again on a
  day at its maximal loss (`misdated` in `PaperTrading`).
* `bad_double_count`: a recovery overwrites a position with the broker's, which
  may include executions the order record lacks; the next report of the order
  adds them again. With an exit it takes them off again, and a second entry
  follows, see below.

A proof attempt found another consequence of the same second exit, which TLC
confirms in 19 states of `TradeManager` with `Sides = {"BUY", "SELL"}`, partial
fills and four orders (`PositionIsSumOfFills` is violated): an entry executes in
part, its exit is sent, the rest executes, and a second exit of the whole closes
the position. The symbol is entered short, and the first exit, a SELL, executes.
`_apply_exit_fill` (`trade_manager.py:483`) does not look at the side of the
order, so the short position shrinks in the books where it grows at the broker.

Another proof attempt, of `NoDuplicateEntry` without its condition on `doubled`,
ended with a counterexample that TLC confirms in 33 states of `LiveTrading` with
five orders, failed reads, one midnight, long only and without partial fills. A
lost exit ends in a second entry:

1. An entry executes. The result of its exit is unknown (`call_once`), the
   exit is alive at the broker, the run ends and is started again.
2. The symbol is blocked, but only for entries: the position is still OPEN in the
   books. The first exit executes; after midnight the process sends a second one
   for the position it believes in.
3. The next recovery no longer sees yesterday's exit, finds nothing held and
   closes the position, while the second exit is still pending.
   `has_active_trade` (`trade_manager.py:274`) asks for pending entries only.
4. The second exit executes and opens a short position nobody manages, and a new
   entry is sent next to it.

A longer way to a second exit (six orders, three dates) needs no lost write: an
exit of yesterday that a stale recovery left SUBMITTED expires late, and
`update_order_state` (`trade_manager.py:163`) then gives the position back whose
new exit is under way. `doubled` marks both, and the theorem says that nothing
else leads to a second entry when orders are executed at once.

With partial executions there is another way, without a doubled exit, which TLC
confirms in 26 states of `LiveTrading` with three orders, quantity 2, failed reads
and one midnight. An entry of two executes and its exit is sent; a failed read
starts a recovery, and between its two reads the exit executes one. The recovery
takes over the quantity one, the order record still has an execution of none, and
the next report of the same exit reduces the position a second time: it is CLOSED
in the books while the broker holds one. Midnight ends the exit at the broker, a
new day begins, and the symbol takes a new entry beside what is still held.

More behaviours were met on the way. The models contain them, and properties
exclude or allow them where the list says so; they have no run of their own.

Orders and positions:

* `place_order` sets REJECTED on the object `create_order` has stored, so
  recording the submission finds an illegal transition and raises
  (`trade_manager.py:98`). Only entries that the margin fit replaced by a smaller
  copy are recorded.
* A position that waits for its exit across midnight in a running process is
  never heard of again until a recovery, and an entry pending then blocks its
  symbol. Nor is an exit heard of that ends when the loop is left at the close.
* An entry that executes and is lost to AutoTick - by a crash before the save
  (`main.py:865`), or by a write of unknown result - is not counted, although the
  first execution consumes the daily limit by the documents. Its symbol is
  blocked, but the limit then allows one entry more in other symbols.
* A failed entry takes a symbol out of `entered` although a recovery blocked it.
* The exit that fills between the two reads of a recovery raises in the next
  pass, where the position is already closed.
* An ATR of 0 raises (`risk_manager.py:123`) with half of the levels changed and
  ends the run with the position open, after which a trailing stop may start
  where its own tick has passed it.
* A position that closes and reopens between two saves gets the levels of the old
  one from a crash in between (`reopened` in `ExitLevels`).
* `modify_order` (`trade_manager.py:120`), which the runner never calls, records
  what the adapter returns, and that is the requested order also when the broker
  refused the change (`angelone/execution.py:86`): the record then has another
  quantity than the order, and a later FILLED books what was never executed. A
  change of unknown result records nothing; and given the stored object itself
  it sets a PARTIAL order back to SUBMITTED.

Clock and recovery:

* Orders are dated by the machine's clock (`trade_manager.py:148`) and trading
  dates by that of the calendar's time zone. Where the two differ,
  `entered_symbols` misses an order of today around midnight, and a restart or a
  recovery then allows a second entry of the symbol on that trading date.
* Without `only_market_hours` the loop also trades between midnight and the
  open, still on the trading date before (`main.py:801`), and the reset at the
  open then allows a second entry on one calendar day; `OneEntryADay` is about
  confined hours.
* `square_off_time` has no effect under WEEKLY and ALWAYS_OPEN schedules
  (`market_session.py:171`), although INTRADAY is accepted with them;
  `PassLeavesNothingDue` speaks of DAILY.
* The recovery loop knows no market hours: a square-off, an expiry cutoff or the
  Swing close that falls into it waits for its end.
* A connection error followed by an authentication error counts twice
  (`reconnect_manager.py:89`), so a recovery may give up after half of the
  configured attempts; `AuthLimit` states both bounds.
* `validator.py` reads a missing `trade.expiry_exit.enabled` as true (lines 206
  and 331), `expiry.py:59` and `main.py:396` as false.

Swing watchlist:

* "keeping current list" (`main.py:825`) holds only once strategies exist: in the
  first pass of a process or a date the set-up reads the same file and its
  `ValueError` ends the process.
* A symbol with a CLOSED position in the snapshot is dropped in every first pass
  although the file lists it (`main.py:224`), and so never entered again.
* An entry that executes further after the exit of its first part reopens the
  position of a symbol that is no longer watched, until a reload or a restart
  (`reopened` in `SwingTrading`).
* An edit of the owner between the import's read and its replacement of the main
  file is lost (`careless`).
* The builder opens an import under its final name in the watched folder
  (`swing_watchlist_tool.py`), and a start that finds it empty ends; and the
  bytes an upload compares may have changed when they are copied.
* The import deletes a file by its name: one that is put under the name of a file
  just being imported (an upload of an edited copy) is deleted unread.

## 7. Not modelled

* *Engine, dispatcher, validator.* The runner uses the engine for one synchronous
  call, `emit` of a signal to the validator (`main.py:640`); the queue, `start`,
  `run` and `shutdown` have no caller in the program.
* *Indicators, strategies, position sizing.* What a strategy decides and how
  large an order is are free choices of the models; the arithmetic on floats
  behind them would have to be modelled by rounding, which nothing else depends on.
* *Backtest and replay.* The trade manager and simulated broker of
  `PaperTrading`, driven by recorded candles in one thread, without outages and
  with one save at the end.
* *Reports, audit trail, logger, diagnostics.* Output; nothing reads it back.
* *Provider factory, interfaces, data classes.* Construction and types.
* *`modify_order`.* Nothing in the program calls it; what it does is in section 6.
* *Moments too close for these models.* The reads of positions, holdings and
  trades in `reconcile_startup` are one step, after that of the orders; an
  interrupt inside one simulated order is left out.
* *Of the modelled parts:* SQLite and the JSON of the snapshot, the parsing of the
  broker's texts and amounts, the throttle, average prices outside Paper mode,
  the heartbeat, the windows of the builder.

What could come next: two symbols in `live_crash`, which is beyond five minutes of
TLC today (the theorems about it hold for any number), and the values of the exit
levels in the composition with orders that execute in parts.

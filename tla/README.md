# A verification of VisionTradingOS

TLA+ models, TLC model checks and TLAPS proofs about the trading core of
VisionTradingOS.  Paths below are relative to the repository's root; modules and
configurations are in this directory.

    tlc -workers 2 -config MCTradeComponents.cfg MCTradeComponents.tla   # a run
    tlapm TradeLifecycleV1_proofs.tla                                    # a module's proofs

`PROJECT.json` is the machine-readable index: which lines of the source the
definitions model (`map`, and section 8 for their helpers), the runs, a faulty variant of the code for each property
(`mutants`), the hazards, the findings, the theorems.

## 1. The system

VisionTradingOS is a Python desktop application for index trading.  It reads live
prices from a broker (Zerodha), builds candles and evidence about the market, turns
evidence into strategy and risk decisions, and carries approved decisions through a
*dry-run* execution, a managed position and a journal, or through paper orders.  No order
reaches the broker.  There are two generations of most engines; the later one
(`..._v1`, `..._v2` packages with validators and frozen snapshots) is the one the
certified chain composes.

    broker sockets -> live market data / option chain -> candles, context, evidence
                                     |
            StrategyDecisionV2 -> RiskManagementV2 -> ExecutionRuntimeV1
                                                            |
        TradeJournalV1 <- TradeLifecycleV1 (coordinator) <- PositionManagementV1
              ^                  ^
              +--- runtime integrations: one coordinator per instrument

    signal -> RiskEngine -> execution policy -> authorization -> handoff
                                                                    |
      reconciliation <- receipts <- paper execution coordinator <---+
                                       |            |
                              order management   paper trading -> performance journal

    ProductionSafetyV1 watches the chain: safety rules, kill switches, incidents.
    The desktop builds it all, starts it, replays sessions through it and shuts it down.

Everything the later generation stores is guarded by one `RLock` per object and
every public method runs under it, so a method is an atomic step unless it
releases the lock in between.  The event bus (`core/event_bus.py`) is synchronous: a
subscriber runs inside the caller's step, before the caller's next statement.

### Inventory

| component (src/) | state it keeps | operations | what makes it correct | module |
|---|---|---|---|---|
| Execution Runtime V1 (`application/execution_runtime_v1`) | status, active intent, last result, cache of finished executions, counters | start, stop, submit, confirm_fill, cancel_active, clear | a risk snapshot is executed once and never beyond its approved quantity; the intent in flight and the last result agree | `ExecutionRuntimeV1` |
| Position Management V1 (`engines/position_management_v1`) | active position, cache of openings, last update, counters | open_from_execution, update_price, partial_exit, close, clear | units and money balance; time moves forward; one position at a time | `PositionManagementV1` |
| Trade Lifecycle V1 (`application/trade_lifecycle_v1`) | status, stage, copies of the components' results, last request, counters | validate, start, stop, process, confirm_execution_fill, update_position_price, partial_exit_position, close_position, clear | no unit is held twice; what is reported is what is held; no stop while exposed | `TradeLifecycleV1` over the two above |
| Production Safety V1 (`engines/production_safety_v1`) | status, kill switches, last evaluations, incidents, recovery decision | start, stop, evaluate, activate and release of two kinds of kill switch, request_recovery, clear | a kill switch binds until released; failures are on record; recovery is never declared early | `ProductionSafetyV1` |
| Trade runtime integration (`application/trade_lifecycle_runtime_integration_v1`) | status, coordinator per instrument, last context, price and snapshot of each | validate, start, stop, route_context, route_position_price, confirm, partial exit, close, clear | the snapshot never hides exposure; stopped means flat; the coordinators follow | `TradeRuntimeV1` |
| Trade journal (`engines/trade_journal_v1`, `application/trade_journal_runtime_integration_v1`) | entries, analytics, status | record, route_lifecycle, clear | a closed position is journalled at most once and stays; statistics agree with the entries | `TradeJournalV1` |
| Order management (`engines/order_management`) | orders, latest command of each, broker ids, approved quantities | create, apply (acknowledge, modify, fill, cancel, reject), reset | quantities within the approval; one order per broker id; a fill counts once; ended orders stay | `OrderManagementV1`, abstractly `OrderBook` |
| Paper execution coordinator (`engines/paper_execution_coordinator`) | receipts, five maps from plan, content, request and order to receipt, status | execute, on_order_update, cancel, start, stop, reset_session | a plan is executed once; a filled entry is protected; an ended execution leaves no live order | `PaperExecutionV1` over `OrderBook` |
| Execution reconciliation (`engines/execution_reconciliation`) | reports by id, by content and by request | reconcile, start, stop, reset | a report tells the truth about what it compared; one report per comparison | `ExecutionReconciliationV1`, `ReconciliationReportsV1` |
| Paper trading (`engines/paper_trading`) | an order, a position, records, processed plans, counts; managed submissions | receive_plan, on_tick, on_candle, shutdown, reset; submit, update, cancel a managed order | every order is accounted for once; no result is better than the market allowed | `PaperTradingV1`; managed submissions in `PaperExecutionV1` |
| Performance analytics (`engines/performance_analytics`) | trades kept, the journal file | record_trade, load, reset, clear | an accepted result is kept, shown once and read again after a restart | `PerformanceJournalV1` |
| Execution policy (`engines/trade_execution_policy`) | plans, three indexes of active plans | evaluate, approve_manual, cancel_plan, expire_plan, start, stop, reset_session | each plan fits its risk decision and is the only active one of its kind | `ExecutionPolicyV1` |
| Authorization and handoff (`engines/trade_decision_authorization`, `application/authorized_paper_execution`) | results, outcomes, invoked plan ids | authorize, handoff, start, stop, reset | the paper coordinator is called for authorized, fresh, fitting plans, once each | `AuthorizedPaperV1` |
| Risk and trade plans, first generation (`engines/risk`) | session, locks, decision; published state; daily counts, active plan | evaluate, record_trade_opened/closed, locks, reset; update, record_decision; trade plan evaluate | approvals stay within every limit; sides are treated alike; an offered plan stands | `RiskEngineV1` (both gates), `RiskTradePlansV1` |
| Risk management V2 (`engines/risk_management_v2`) | latest input, snapshot and the one before, history | process, reset | fourteen rules and five size limits hold of every approval; history is of distinct times | `RiskManagementV2` |
| Live market data (`brokers/zerodha/market_data`, `application/live_market_data`) | session, connection, registry of subscriptions, queued callbacks, status | connect, disconnect, subscribe, callbacks of the broker's thread, start, stop, errors | CONNECTED means the subscription was sent; a drop counts once | `LiveFeedV1` |
| Option subscriptions and chains (`brokers/zerodha/option_market_data`, `application/live_option_chain*`, `application/option_chain_analytics_integration`) | active subscription rows, quotes, chain, baseline, analytics | prepare, activate, replace, deactivate; on_tick, assemble, replace universe; start, stop | the line streams what is active; a chain is of one universe at one moment | `OptionChainFeedV1` |
| Desktop option chain (`application/desktop_option_chain.py`) | stack and token owner of each index | spot tick, option tick, start, stop | owned tokens are streamed and their underlying has a stack or shows the error | `DesktopOptionChainV1` |
| Futures VWAP (`application/futures_vwap.py`) | per index: volume noted, the engine's volume and date, the manager's copy of it | resolve, load history, tick, runtime reset, day change, stop | no traded volume enters a day's VWAP twice | `FuturesVWAPV1` |
| Candles and price action (`engines/candle`, `engines/market_data`, `engines/vwap`, `engines/price_action`, `application/symbol_runtime.py`) | open candle, closed candles, swings, trend | on_tick, warm_up, daily levels, correction of the newest candle, reset | history is what the closed candles say, live or warmed up | `CandlePipelineV1`, `PriceActionV1` |
| Historical warm-up (`application/historical_warmup`, `brokers/zerodha/historical`) | status, results | warm_up, backfill, clear | seeded history joins the live candles without gap or repetition | `HistoricalWarmupV1` |
| Application lifecycle (`application/lifecycle_manager.py`, orchestrator, symbol runtime) | status, runtimes, engines | start, stop, restart, reset, sessions | the status is true; a failed start is undone | `ApplicationLifecycleV1` |
| Live shadow sessions (`application/live_shadow_session`, `engines/shadow_trading_session`, `adapters/zerodha`) | coordinator status, shadow session of each runtime, adapter connection | start, observe, stop, complete, reset | a session that is reported as ended has ended | `LiveShadowV1` |
| Replay and backtest (`engines/historical_market_replay`, `engines/deterministic_backtest`) | session, cursor, reports, drivers | load, start, pause, step, finish, poll | a backtest ends and its ending is reported | `DeterministicBacktestV1` |
| Live market validation (`engines/live_market_validation`) | session, findings, health, reports | start, observe, resolve, stop, export | what was found is told in the report | `LiveValidationV1` |
| Desktop start and shutdown (`application/desktop_live_data.py`, `reference_data_bootstrap.py`, `dashboard/application.py`) | parts built and started | create, start, shutdown | shutdown reaches everything started; reference data is of closed sessions | `DesktopStartupV1` |
| Event bus (`core/event_bus.py`) | subscribers | subscribe, publish | each subscriber is called once an event | inside the modules that publish |
| Evidence engines, strategy, AI reasoning (context, momentum, fusion, setup, strategy, confidence) | last evaluation | evaluate | scoring rules; no state but the last answer | not modelled |
| Configuration, core models, widgets, scripts, catalogue parsing | constants, value types, layout | | pure data or I/O | not modelled |

`PROJECT.json` has the full list with a status for each.

### What is hard here

* **Long legal call sequences.**  The certified chain is three objects each with
  caches of its own.  Submitting again what was executed, filling after a
  position was closed, cancelling the intent on the component behind the
  coordinator's back: each is legal alone and no test orders them.
* **Exceptions between two assignments.**  Constructors of frozen snapshots
  validate; a method that has changed half of its fields when one raises
  leaves the rest.  A subscriber of the event bus that raises stops its publisher.
* **Objects callers keep.**  Plans, authorizations, lifecycle snapshots and order states are
  immutable copies: they are handed in again after what they describe has moved on.
* **Two clocks.**  Positions are opened with the local clock and priced with the
  market data's timestamp; safety commands carry the caller's timestamp.
* **Threads.**  `request_recovery` takes the engine's lock twice and evaluates in between;
  the broker client's thread queues callbacks while the user interface thread commands.
* **Commands that come late or twice.**  Orders are moved by commands with timestamps; duplicates are
  recognised by comparing with one remembered command.
* **Several broker calls for one operation.**  Subscribing and replacing a universe of options takes two or
  three calls; each may fail, and so may the undoing.
* **Files.**  An append may be cut off, by an error or by the end of the process.
* **Bounded histories.**  Incident and snapshot histories drop their oldest entry.

Section "hazards" of `PROJECT.json` lists each at its line with the properties
that cover it.

## 2. Modules

### `NoneValue`, `TradeTypes`
`NoneValue` declares Python's `None`, one value for all modules.  `TradeTypes` holds the immutable values of the chain: `RiskSnapshot` (with its strategy snapshot's
fields), `Intent`, `Result`, and what their constructors demand.  `RiskSnapshots` is
the constant set of snapshots the program meets; `RiskSnapshotsAssumption` says they
satisfy the constructors' checks.  An average price is never stored: the models
keep the notional, so comparisons of the code's averages are exact comparisons of
products.  The code's floating-point rounding is therefore not modelled.

### `ExecutionRuntimeV1`
One action per public method.  `Submit` splits into the three ways the method ends
(answered from the cache, declined, accepted); `ConfirmFill` and `CancelActive` do not
ask for a running status, as in the code.  A call that raises before it changed
anything is no step.  `filledFor` is an auxiliary variable, the units filled for
each snapshot since the last clear; no guard reads it.  The fill policy is chosen in
`Init`; the other configuration flags keep their defaults.

### `PositionManagementV1`
One action per public method and `Tick` for the engine's clock.  Money is multiplied
by the position's initial quantity, so that profits are integers.  The order of the
branches of `update_price` (invalidation before objective) is `AfterPrice`'s.  The
objective's partial fraction keeps its default, one half.

### `TradeLifecycleV1`, `DryRunTrade`
The coordinator extends both components and conjoins their actions to its own
assignments: its `Process` *is* the runtime's `Submit` with what the coordinator does
next.  Where the code raises after a component changed (the position engine
refuses a fill price), the action keeps the component's change and drops the rest.
`CancelExecution` is the call a user of the coordinator can make on the runtime it
exposes.  `unitsOpened` is auxiliary.

`DryRunTrade` is the abstract specification: each risk snapshot moves
`NEW -> WORKING -> HELD -> CLOSED` at most once (or leaves at `CANCELLED`, `UNHELD`), and
at most one is in hand.  `PhaseOf` is the refinement mapping: it reads the active
intent, the position and the two caches.

### `ProductionSafetyV1`
A rule of the engine is a pair of a rule name and a target (`GLOBAL` or an instrument).
An evaluation is abstracted to its severity, which determines whether it passes, warns
or blocks.  Kept: the status, the switches, the evaluations, the incidents with their
opening time, the recovery decision, and the last input with whether a snapshot
answers it.  `request_recovery` is three actions with a program counter
(`recoveryCall`), because another thread's calls fit between its two critical sections;
all others are one.  An operation whose incident update raises
(`SafetyIncident` refuses a time before its opening) is a disjunct of its own that keeps what
the code assigned before the exception.  Left out: counters, messages, the
history of snapshots, and kill switches for instruments outside the configuration.
A resolved incident keeps only its place in the bounded list.

`ordered` is chosen in `Init`: callers that stamp their calls in calling order, or
callers that do not.  The engine does not enforce the order; properties that
need it say `ordered =>`.

### `TradeRuntimeV1`
The runtime integration over one coordinator for each instrument.  A coordinator is a record
and each of its operations an operator that returns the coordinator after the call; it is
`TradeLifecycleV1` without quantities and prices: a fill is partial or complete, its price suits
a position or does not (the position engine refuses it, after the fill), and what an
execution that ended left in the two caches is one record for each trade.  A call that raises
inside a coordinator changes the coordinator and not what the integration remembers
(`RoutedRaises`).  `ApplicationMoves` is the application lifecycle, which anybody may start and stop;
`CancelBehind` is `cancel_active` on the runtime a coordinator exposes.

### `TradeJournalV1`
The journal with its integration: the journal's own operations are sub-actions that the integration's actions conjoin and
that another user of the journal may call (`callers = "ANY"`).  Closed positions come from whichever lifecycle snapshot a caller
kept, in any order, again and again.  The statistics of the journal are operators on the sequence of realised profits, folds where
the code loops, and the same figures again as definitions without loops (`Figures`, `TrendTells`).  With
`minimum_trades_for_trend` of 1, which the configuration accepts, the trend of a single trade divides by zero after the entry
was added: `RecordRaises` leaves the entry in and the statistics behind, and two properties except that value.

### `OrderManagementV1`
An order is a record and each command's effect an operator on it (`Modified`, `WithFill`, `Touched`).
Commands are not consumed: `Issue` puts one under way with a time of its own, and from then on it
may be delivered at any time, any number of times, in any order, also after `Reset`.  A delivery the
engine answers without a change is no step; the only such answer that changes something,
`_remember_duplicate`, is `RememberDuplicate`.  `_acknowledge` also provides for a pending order that has a
broker id already: the proofs show there is none (`PendingUnknownToBroker`).  The average price is the
exact notional.  `applied` and `displaced` are auxiliary: the commands that changed an order, and the orders
that forgot one.

### `OrderBook`
What the order engine promises to a component that places orders: an order is placed once and then moves
forward, its fills within its quantity, its quantity within the approval.  Commands, times, versions and
broker ids are gone.  `OrderManagementV1` implements it (`Book`, with the mapping `Entry`; `ImplementsOrderBook`), which TLC checks
and `OrdersImplementBook` proves, so what holds of `PaperExecutionV1` over the book holds over the engine.

### `PaperExecutionV1`
The coordinator over `OrderBook` and the paper engine's managed submissions.  The orders move by other components' commands (`Venue`);
the states they leave reach `on_order_update` at once, late, repeatedly, out of order or never: `delayed` holds the former
states somebody kept.  `execute` has three outcomes that matter (rejected, refused by the paper engine after the order was created,
accepted), `on_order_update` six, among them the two in which something raises half-way: the paper engine refuses the update
(`UpdateFails`), or the opposite order has moved on and its cancellation is stale (`ProtectiveFilledLate`; `CancelLate` for
`cancel`).  A receipt without an order is `None`: it is found by nothing but its own id.  `maps` are the coordinator's
own, so that a rejection that takes a receipt's place leaves them as the code does.  Left out: requests that plan and
policy alone make ineligible, `existing_execution_receipt_ids` (empty), modifications of prices only, prices of protective orders.
The coordinator's status is only `stopped`: no other value is read.  A failure to create a
protective order cannot happen here: the order is new to the engine and the plan's quantities agree.

### `ExecutionReconciliationV1`, `ReconciliationReportsV1`
The first is the comparison, an operator over the states of `PaperExecutionV1`: which differences between receipt, plan, order,
submission and position it finds.  The second is the engine's bookkeeping of requests, contents and reports, with what a
comparison reads as an `Input` and what it finds as a status.

### `PaperTradingV1`, `PerformanceJournalV1`
The signal path of the paper engine: a plan becomes a pending order, a tick or a candle fills it, later ones close the
position, each close is a record.  One call is one step: `TickHandled` is the whole handler from the withdrawal of the order
to the record.  `PerformanceJournalV1` extends it by the analytics engine that appends each record to a JSON Lines file.  A line
is `{}` (nothing that can be read) or `{r}`; `torn` is an unfinished last one.  `Writes` are the outcomes of an append: done, nothing
written, a part, or all but the newline; `CrashInAppend` is the end of the process in the middle.  `fate` is a history variable.

### `ExecutionPolicyV1`, `AuthorizedPaperV1`
A plan's id stands for what it is computed from (request and policy), so `plans` keeps only what the id does not tell.
`ContentChecks` and `DuplicateChecks` are the checks in the code's order, the first that fails blocks.  `AuthorizedPaperV1` adds the gate
and the handoff: both work on what their callers kept (`keptPlan`, `results`), also after the plan was cancelled or the
gate reset.  `outcomes` keep what their requests were about.

### `RiskEngineV1`
The authoritative gate: a session that rolls with the dates of the calls, locks, checks in their order, the sized answer.  Callers report
the trades they opened and closed.  The section "The older gate" is `update()` and `record_decision()` over the stateless
`RiskCalculator`.  A history variable (`opened`) tells whether the latest approval was opened.

### `RiskManagementV2`
Process with all fourteen rules in order, the five size limits and the step, the change against the answer before, corrections at the
same time, and the bounded history.  Amounts multiplied by fractions are exact, scaled by `Parts`.  Its snapshots are what
`RiskSnapshotsAssumption` of `TradeTypes` is about.

### `RiskTradePlansV1`
The trade plan engine of a symbol: gates, levels, sizes and limits in their order, the plan on offer, the day's counts.  Price
levels are the caller's.

### `LiveFeedV1`
Broker session manager, WebSocket manager and the runtime above.  Every method is one step; `events` is the queue of callbacks the
broker client's thread has not delivered, and the link moves on its own.

### `OptionChainFeedV1`
The subscription manager with each of its two or three broker calls failing or not, and the undoing failing or not (`tidy`); above
it quotes, assembly, staleness, the live integration and the analytics integration.

### `DesktopOptionChainV1`, `FuturesVWAPV1`
The desktop's manager of option stacks with its token router, and the futures proxy with the cumulative volume of the broker's day.
The proxy keeps the VWAP engine's volume (`acc`) apart from the manager's copy of it (`cum`): `on_tick` counts before it publishes
(`vwap_engine.py:82-100`), and the manager copies the total only when everything after that returned (`futures_vwap.py:447`), so a tick
or a candle is refused, counted and heard of, or counted and not heard of (`TickedFrom`, `Seeded`).  The history variable `unheard` records
the volume the engine holds after an error while the manager knows of none; no guard reads it.  The manager starts once: a second
`start()` returns at once, so a run has no restart and no other contract.  The index's own ticks, which carry no volume, are left out.

### `PriceActionV1`, `CandlePipelineV1`, `HistoricalWarmupV1`
The price action engine of one timeframe, which is a function of the candles it holds (`PriceActionIsSound`); the lanes of one symbol from
ticks to closed, analysed candles, where every command may be refused half way; and the warm-up and backfill over it.

### `ApplicationLifecycleV1`, `LiveShadowV1`
Calls of the application are operators from a state to the states they may leave, with `ok` for those that returned, because an
engine's subscriber may raise anywhere.  `LiveShadowV1` adds the read-only adapter and the coordinator of live shadow sessions.

### `DeterministicBacktestV1`
Replay engine and files, backtest engine, the two drivers polled by the window's refresh, the user's commands and the live feed.
The limits `max_findings` (`engine.py:502`) and `max_session_results` (`engine.py:333`), which drop the oldest entries of a report, are left out:
no plan of the default size reaches them.

### `LiveValidationV1`
The observer of the event bus with its findings, health and report.

### `DesktopStartupV1`
Construction of the desktop under every setting, failures in each part, the window's start and shutdown; the bounds of the
reference data.

### The modules `MC...`
Each gives small instances of several components.  They rest while one of them, `driven`, is driven alone through its whole
interface, so a run is the union of separate state spaces; parts that do interact are composed by the modules above and driven
together.

### Faulty forms
Definitions introduced by the comment "A faulty form" are plausible errors of
the code.  No specification uses them: each shows that a property is not vacuous,
because replacing the definition that follows by it makes TLC report a violation.

## 3. Runs

In the trading components every step is a call of somebody else's: nothing waits or is scheduled, no fairness of
callers can be justified from the code, and their specifications are `[Next]_vars` without fairness.  Two parts are scheduled, and
the runs over them state it:

* `MarketSpec` has weak fairness of the delivery of queued callbacks: the broker client runs a thread of its own that delivers
  what is in its queue (`StaleConnectionEnds`).
* `PlatformSpec` has weak fairness of the window's refresh: a timer of the user interface calls it for as long as the window is
  open, and every refresh polls the replay and the backtest driver (`BacktestEnds`).

Deadlock is checked in `components` and `desk`, where some call is possible in every state.  Elsewhere a bound on calls, times or
events ends behaviours (`CHECK_DEADLOCK FALSE`).

| run | configuration | properties | bounds |
|---|---|---|---|
| `components` | `MCTradeComponents.cfg` | `FillsAccountedFor`, `FinishedIsFinal`, `PositionsAreHonest`, `JournalIsTrue`, `OneReportPerComparison`, `StandingIsTrue`, `RecoveryReadyIsSafe`, `IncidentsAreHonest` | runtime: five risk snapshots, three fill policies, 3 submissions and 2 rejections between clears; position engine: all exit configurations, prices 2, 5, 6; journal: three closed positions, curve of 2; safety: three inputs at two instants, 3 incidents, ordered and unordered callers; reports: 2 request ids, 2 contents, 2 inputs |
| `trade_orders` | `MCTradeOrders.cfg` | `CoordinatorIsTruthful`, `ImplementsDryRunTrade`, `OrdersAreSound`, `ImplementsOrderBook` | coordinator: positions open on complete fills only, three snapshots, 3 requests; orders: a stop-limit buy and a limit sell, one broker id, 4 instants |
| `desk` | `MCTradingDesk.cfg` | `NeverUnderstatesExposure`, `CoordinatorsStayInStep`, `NoDoubleExecution`, `ReportsTellTheTruth`, `OrdersFollowReceipt` | an instrument without trades and one with two, 2 positions; paper: requests that share ids and content, one of two units with a stop; one delayed order state, one reset |
| `decisions` | `MCDecisions.cfg` | `ActivePlansHold`, `CallsWereApproved`, `RiskReviewIsSound`, `OfferedPlanStands`, `SidesAreEqualAndCovered`, `PaperBooksAreHonest`, `ResultsAreKept`, `RiskLimitsHold` | 21 execution requests at two times, 2 interruptions; risk engine: two instruments, days of 4, evaluations at 5 and 9, 2 trades, 1 loss; trade plans at 1, 2 and 5; reviews: 29 inputs at three times with corrections, history of 2; paper: two plans, 6 events, a file of 2 lines, 3 candle shapes |
| `market` | `MCMarket.cfg` | `FeedIsHonest`, `ChainsAreSound`, `VolumeCountedOnce`, `OwnedTokensAccountedFor`, `PriceActionIsSound`, `HistoryIsSound`, `StaleConnectionEnds` | feed: two tokens, two sessions, a queue of 3; options: two universes that share a call, 3 operations; price action: 5 candles; pipeline: 3 ticks delivered, 2 warm-ups |
| `platform` | `MCPlatform.cfg` | `ShutdownReachesEverything`, `ReferenceIsOfClosedSessions`, `StatusIsTrue`, `FailedStartIsUndone`, `ReportedSessionEnded`, `EndingsAreReported`, `FindingsAreTold`, `BacktestEnds` | every setting of nine switches, a week of 4 days; two runtimes, one fault, 3 calls; three session files, one malformed; 2 validation events |
| `safety_kill` | `MCTradeComponents_kill.cfg` | `KillSwitchTakesEffect` (violated: finding 2) | unordered callers |
| `lifecycle_units` | `MCTradeOrders_units.cfg` | `PositionsCoveredByFills` (violated: finding 1) | one trade, partial fills open positions |
| `orders_refill` | `MCTradeOrders_refill.cfg` | `FillsCountedOnce` (violated: finding 3) | 4 instants |
| `paper_retry` | `MCTradingDesk_retry.cfg` | `RetryKeepsReceipt` (violated: finding 4) | as `desk` |
| `journal_torn` | `MCDecisions_torn.cfg` | `AcceptedIsReadAgain` (violated: finding 5) | 7 events |
| `validation_clean` | `MCPlatform_clean.cfg` | `CleanFeedIsHealthy` (violated: finding 6) | as `platform` |

Why the bounds meet the interesting cases: two submissions of different
snapshots and a third request reach every combination of repeated, stale and fresh
requests (the caches are per snapshot, the coordinator remembers one request);
a quantity of 3 has the partial fills 1 and 2 and the odd half; a long and a short
snapshot have both directions of every comparison; three incidents fill and overflow
the list while two rules fail; two instants suffice for a stale timestamp; three entries
overflow the equity curve; one delayed state reaches every order of two
reports about a receipt, and one reset every confusion of a receipt with its predecessor.  Two paper plans, a long and a short one
with opposite levels, let a file have a kept, a lost and a torn line.  Two universes that share a row meet every part of a
replacement, and one fault in one of two runtimes every half-way start and stop.  The counters
(`MaxSubmitted`, `MaxRejected`, `MaxEvents`, `MaxProcessed`, `MaxCalls` and the like) are never read by a guard of the
code: they only cut the state space.

The properties, in words:

* `FillsAccountedFor`, `FinishedIsFinal`: the runtime's two records of the intent in flight agree, counted submissions are filled,
  cancelled or open, fills never exceed the approved quantity, and a finished execution is final until a clear.
* `PositionsAreHonest`: open and closed units make up the initial ones, realised and unrealised gains make up what the cash flows
  say, every opening was closed or is held, and a position's update time does not go back.
* `CoordinatorIsTruthful`, `ImplementsDryRunTrade`: stopped means flat, the coordinator's copies are those of the position it holds,
  units in positions are covered by fills, and each snapshot is traded at most once.
* `NeverUnderstatesExposure`, `CoordinatorsStayInStep`: the published snapshot of an instrument shows every execution and position it
  has; a running integration has running coordinators, a stopped one is flat, and a trade with a final result is not executed again.
* `JournalIsTrue`: a closed position has at most one entry, entries survive everything but a clear, the integration's count is the
  journal's, and the statistics are those of the entries.
* `StandingIsTrue`, `RecoveryReadyIsSafe`, `IncidentsAreHonest`: a switch that is on blocks and the status is the decision's (for ordered
  callers); recovery is not declared while anything blocks; every blocking rule has one open incident, and what needs a manual
  release is closed by one only.
* `OrdersAreSound`, `ImplementsOrderBook`: filled and remaining make up a quantity within the approval, the table of broker ids and
  the orders agree, ended orders stay and live ones never go back.
* `NoDoubleExecution`, `OrdersFollowReceipt`: of executions that share a plan, its content or a request id at most one has orders; a
  receipt that shows its entry filled has every protective order, for the filled quantity; an ended one has no live order; and
  no call takes a receipt's orders or its final status away.
* `ReportsTellTheTruth`, `OneReportPerComparison`: CONSISTENT can be trusted, anything else is no false alarm, and a comparison has one report.
* `ActivePlansHold`, `CallsWereApproved`: active plans fit their risk decision and are the only ones of their kind; the paper
  coordinator is called for authorized, fresh and fitting plans, once each.
* `RiskLimitsHold`, `SidesAreEqualAndCovered`, `RiskReviewIsSound`, `OfferedPlanStands`: approvals, and the openings reported after them, are within
  every limit; a trade and its mirror image get the same answer; every kept review follows the rules and the history is of distinct
  times; the plan on offer is of its day, its evaluation and within the budget and the counts.
* `PaperBooksAreHonest`, `ResultsAreKept`: every paper order is pending or ended once, no result is better than the market allowed; every result is kept and
  shown once or known to be lost, and is on the file unless an append was torn.
* `FeedIsHonest`, `StaleConnectionEnds`: CONNECTED means subscribed, a drop counts once, and a CONNECTED over a dead link ends.
* `ChainsAreSound`, `OwnedTokensAccountedFor`, `VolumeCountedOnce`: the line streams the active rows, a chain is of one universe at one moment and is
  compared with an earlier one; owned tokens are streamed; no traded volume is counted twice, but for what a history was first loaded
  over while every tick so far had raised (section 4).
* `PriceActionIsSound`, `HistoryIsSound`: the engine's reading depends on its candles alone, has no break to both sides and treats them
  alike; analysis follows the closed candles, and a backfill adds closed ones only.
* `StatusIsTrue`, `FailedStartIsUndone`, `ReportedSessionEnded`: RUNNING runs, STOPPED holds nothing; a start that fails leaves nothing
  serving; a reported live session runs nowhere any more.
* `ShutdownReachesEverything`, `ReferenceIsOfClosedSessions`: a closed window left nothing on but what refused to stop; reference data is of the last
  session and of minutes that are over.
* `EndingsAreReported`, `BacktestEnds`, `FindingsAreTold`: what ended has a report that says what was played; a running backtest ends or is paused; the
  report and the state of a validation session tell of its findings.

## 4. Findings

1. `lifecycle_units`: with the default configuration a partial fill opens a
   position; after it is closed, confirming the rest opens a second position for *all*
   units filled so far (`application/trade_lifecycle_v1/coordinator.py:195`).
2. `safety_kill`: a kill switch stamped before an open incident was opened is
   remembered as on, raises, and blocks nothing (`engines/production_safety_v1/engine.py:156`).
3. `orders_refill`: a `MODIFY` that changes nothing replaces the command duplicates are recognised by and
   leaves the order's time, so the fill before it is counted again when it is redelivered
   (`engines/order_management/order_management_engine.py:283`).
4. `paper_retry`: a request executed again while the coordinator is stopped is rejected, and the rejection takes the
   place of the receipt of the running execution: it is no longer active, and cancelling it leaves its orders alone
   (`engines/paper_execution_coordinator/engine.py:168`).
5. `journal_torn`: an append that writes a part of its line and fails leaves it; the next trade continues that line, is accepted and
   shown, and cannot be read after a restart (`engines/performance_analytics/repository.py:125`).
6. `validation_clean`: every accepted tick is published under two names and the validation session observes both, so a clean feed is
   DEGRADED (`engines/live_market_validation/engine.py:526`, against `README.md:153`).

The passing runs state what holds outside them: `CoordinatorIsTruthful` for positions that open on complete fills only,
`StandingIsTrue` for ordered callers, `ReceiptsAreKept` for a coordinator that is not stopped, `ResultsAreKept` for files without a torn append,
`VolumeCountedOnce` up to the volume the history was loaded over unheard: with `unheard` dropped from it TLC finds the double count in four steps.

Further disagreements are stated as definitions that no run checks, because a run checks one of them: `GlobalLockPrecedes`
(releasing an instrument's switch sets `MONITORING` while the account is blocked globally, safety `engine.py:233`), `StaysStopped` (a stopped
reconciliation becomes active), `ApprovalIsAnswered` (a plan that still stands is answered by a later rejection), `BatchIsComplete` (a batch
that completes without all its sessions), `BacktestBlockedByLive` (the live feed blocks replays only, `desktop_live_data.py:698`).

Behaviour met while modelling that no document speaks of, and that the models keep:

* Execution policy: a cancelled or expired plan is revived by evaluating its request again; a stop followed by the same request
  replaces an active plan by one that is LOCKED (`engine.py:109`); `approve_manual` works on a stopped engine; `allow_duplicate_plan` lets the
  indexes name one of several active plans.
* Handoff: a subscriber that raises makes the outcome FAILED although orders are in the market.
* Live shadow coordinator: a reset while RUNNING forgets its request and its active sessions and stays RUNNING (`live_shadow_session/coordinator.py:249`).
* Paper trading: a tick stamped before a pending order's plan was made raises inside the engine and leaves the order pending.
* Risk management V2: an entry equal to its invalidation raises (`models.py:257`), so BLOCKED_BY_INVALIDATION is never reported, and
  BLOCKED_BY_POSITION_LIMIT is never set; the exposure rules test one unit, not a step, so a size of zero is reported as BLOCKED_BY_CAPITAL.
* Risk engine: an emergency lock leaves the lifecycle READY after `start()` although nothing is approved.
* Live feed: `on_error` marks ERROR over a live socket; the tokens of options and futures are not subscribed again after a
  reconnect; stopping and starting the futures manager changes nothing; a futures manager that fails in `start()` stays wired
  (`desktop_live_data.py:395`).
* Futures VWAP: when a subscriber of `VWAP_UPDATED` raises on every tick before the first history load (before 09:16 there is no completed
  minute), the engine holds their volume and `cumulative_volume` is still 0, so the next tick loads the history over it
  (`futures_vwap.py:395`, `447`) and the day's VWAP has that volume twice.
* Option chain: a restarted live runtime is READY with the chain of before.
* Replay: a reload keeps the last report; preparing a backtest destroys a running replay; equal session ids of a batch are dropped
  (`deterministic_backtest/engine.py:303`).
* Runtime: a reset that raises half way while a shadow session runs (`symbol_runtime.py:841`); a FAILED shadow session is reported
  HEALTHY; a second session that fails to start returns the first one's summary.
* Warm-up: an analysis that raises after the seeding leaves the candles seeded (`symbol_runtime.py:464`); a seeded running candle makes later seeds raise
  (`candle_engine.py:228`).
* Validation: a TICK_GAP keeps its warning, and `record_reconnect` does not end an outage.
* Desktop: a window whose `start()` raises is not shut down.

## 5. Proofs

Each theorem holds for every value of the constants that satisfies the named assumptions of its modules.  These say what the code's
constructors check and how an absent value is told from a present one; TLC evaluates them for the instances of the runs.

| theorem | statement | inductive invariant |
|---|---|---|
| **`TradeLifecycleV1_proofs`** | | |
| `ExecTypeCorrect`, `ExecStateCoherent`, `ExecSubmissionsAccounted`, `ExecNeverOverfilled` | the parts of the next | `ExecIInv` |
| `ExecFillsAccountedFor` | `ExecSpec => []FillsAccountedFor` | `ExecIInv` |
| `ExecFinishedIsFinal` | `ExecSpec => FinishedIsFinal` | `ExecIInv` |
| `PositionsStayHonest` | `PosSpec => PositionsAreHonest` | `PosIInv` |
| `LcReportsHeldPosition` | `LcSpec => []ReportsHeldPosition` | `LcIInv` |
| `CoordinatorStaysTruthful` | `[]CoordinatorIsTruthful`, positions opening on complete fills | `WholeFillsIInv` |
| `LifecycleImplementsTrade` | `ImplementsDryRunTrade`, positions opening on complete fills | `WholeFillsIInv` |
| **`OrderManagementV1_proofs`** | | |
| `OrderTypeCorrect`, `OrdersStayWithinApproval`, `BrokerIdsAlwaysAgree`, `OrdersOnlyMoveForward` | the parts of the next | `OrderIInv` |
| `OrdersStaySound` | `OrderSpec => OrdersAreSound` | `OrderIInv` |
| `OrdersImplementBook` | `OrderSpec => ImplementsOrderBook` | `OrderIInv` |
| **`ReconciliationReportsV1`** | | |
| `ReportsStayUnique` | `ReportsSpec => []OneReportPerComparison` | `ReportsIInv` |
| **`ProductionSafetyV1_proofs`** | | |
| `StandingStaysTrue` | `SafetySpec => []StandingIsTrue` | `SafetyIInv` |
| `RecoveryStaysSafe` | `SafetySpec => []RecoveryReadyIsSafe` | `SafetyIInv` |
| `IncidentsStayHonest` | `SafetySpec => IncidentsAreHonest` | `SafetyIInv` |
| `JournalStaysTrue` | `JournalSpec =>` all of `JournalIsTrue`, with the statistics the code's loops compute | `TradeJournalIInv` |
| **`TradingDesk_proofs`** | | |
| `ExposureStaysVisible`, `IntegrationStaysInStep` | `RuntimeSpec => []NeverUnderstatesExposure`, `[]CoordinatorsStayInStep` | `RuntimeIInv` |
| `ExecutionsStaySingle`, `OrdersStayWithReceipts` | `PaperSpec => []NoDoubleExecution`, `OrdersFollowReceipt` | `PaperIInv` |
| `ReportsStayTrue` | `PaperSpec => []ReportsTellTheTruth` | `PaperIInv` |
| **`MarketData_proofs`** | | |
| `VolumeStaysCountedOnce` | `ProxySpec => []VolumeCountedOnce` | `ProxyIInv` |
| `OwnedTokensStayAccountedFor` | `DeskSpec => []OwnedTokensAccountedFor` | `DeskIInv` |
| `FeedStaysHonest` | `FeedSpec => []FeedIsHonest` | `FeedIInv` |
| `ChainsStaySound` | `ChainSpec => []ChainsAreSound` | `ChainIInv` |
| `HistoryStaysSound` | `WarmupSpec => HistoryIsSound` | `WarmupIInv` |
| `PriceActionStaysSound` | `PriceActionSpec => []PriceActionIsSound` | `EngineIInv` |
| **`Decisions_proofs`** | | |
| `GateStaysEvenAndCovered` | `GateSpec => []SidesAreEqualAndCovered` | `GateIInv` |
| `RiskLimitsStayHeld` | `RiskSpec => RiskLimitsHold` | `RiskIInv` |
| `ReviewsStaySound` | `ReviewSpec => []RiskReviewIsSound` | `ReviewIInv` |
| `OfferedPlansStand` | `PlanSpec => []OfferedPlanStands` | `PlanIInv` |
| `PlansStandAlone` | `PolicySpec => []ActivePlansHold` | `PolicyIInv` |
| `CallsStayApproved` | `AuthSpec => []CallsWereApproved` | `AuthIInv` |
| `BooksStayHonest` | `TradingSpec => []PaperBooksAreHonest` | `BooksIInv` |
| `ResultsStayKept` | `TradingSpec => []ResultsAreKept` | `JournalIInv` |
| **`Platform_proofs`** | | |
| `ShutdownReaches`, `ReferenceIsClosed` | `StartupSpec => []ShutdownReachesEverything`, `[]ReferenceIsOfClosedSessions` | `StartupIInv` |
| `NothingLiveHolds` | `StartupSpec => []NothingLiveWithoutSession` | `SessionlessIInv` |
| `StatusesAreTrue`, `FailedStartsAreUndone` | `AppSpec => []StatusIsTrue`, `FailedStartIsUndone` | `AppSound(OwnNames)` |
| `ReportedSessionsEnded`, `StatusesAreTrueLive` | `LiveSpec => []ReportedSessionEnded`, `[]StatusIsTrue` | `LiveSound` |
| `EndingsReported` | `SessionsSpec => []EndingsAreReported` | `SessionsSound` |
| `FindingsTold` | `ValSpec => []FindingsAreTold` | `ValSound` |

Why the invariants are stronger than the properties:

* `ExecIInv`: that a fill stays within the approved quantity follows only because the last result is the active intent's own and its
  `remaining` is exact (`ActiveIntentIsLastResult`), which needs that a snapshot with an active intent has no finished result and that units are
  filled for submitted snapshots only (`FillsComeFromSubmissions`).
* `PosIInv` has the books together with the finiteness of the cache they count; `LcIInv` joins both components' invariants with what the
  coordinator remembers of them (`AnswerIsHeld`); `WholeFillsIInv` adds which phase each trade is in, which is the refinement mapping's own
  invariant.
* `OrderIInv` adds that every order has its approved quantity on record (or a modification would compare with nothing) and that a pending order
  has no broker id (or acknowledging it would leave its earlier id in the table).
* `ReportsIInv`: `byInput` names every report of a comparison, so a second one of the same input is never made.
* `SafetyIInv`: the incidents' shape, that they are not opened after the latest stamp of ordered callers, and that the evaluations are those of the
  switches; recovery depends on all of it because the request reads twice.
* `TradeJournalIInv`: without other callers the journal never fails when the trend is of two trades or more, one that neither runs nor is stopped is
  empty, and a stopped integration has stopped it; else clearing the integration could leave entries it no longer counts.
* `RuntimeIInv`: each coordinator is sound on its own and what the integration remembers is not older than it, per instrument.
* `PaperIInv`: the five maps agree, references are orders of the book, delayed states precede present ones, submissions agree with their orders, and a filled
  entry that was just reported is protected.  None of these is inductive without the rest.
* `ProxyIInv` bounds what the engine counts by the last volume noted, and that by what was traded (`Seen`), and what it counts while the
  manager may still load a history by `unheard` (`Unknown`), without which a load would not preserve the first.  `DeskIInv` carries what a manager that was never started
  owns.  `FeedIInv` relates the connection's status to the link and to *every* queued callback.  `ChainIInv` adds that the line is the
  active rows while no undo failed, and the analytics' base is the last chain of an earlier time.
* `WarmupIInv`: every lane stands where the candles it was given make it stand (`StandsAt`), unless a late seed disturbed it, and the coordinator's books
  are those of its results.  What a seeding leaves behind is followed candle by candle: seeding `cs` and then `ds` is seeding both.
* `EngineIInv`: the candles held are valid and the engine is the replay of them, so a correction is a replay of one candle less and one more.  A
  replayed engine is `Coherent`: the last swing high tops the candles around it and, until it is broken, every close since it was confirmed; the low
  likewise.  Then an unbroken low is never above an unbroken high (`SwingsInOrder`), whichever came first, and no close breaks both.  `MirroredAccept`
  says that accepting a candle and turning the market upside down commute; it needs that no break is two-sided, because the code asks for the
  high first.
* `RiskIInv`: until the session changes under it, an approval's figures fit the session it is recorded in (`ApprovalStands`), or the opening
  reported later could exceed a limit.  `ReviewIInv`: the answer before the latest is the one it is compared with.  `PlanIInv`: an approved
  state carries the active plan, which is within the budget.
* `PolicyIInv`: with duplicates forbidden, every active plan is known to the three indexes, and an index names active plans only; `AuthIInv` adds what
  an authorization, a kept plan and an outcome say of the plan they were made from.
* `BooksIInv`: the counters make up the orders and positions there are, a plan in hand has no record yet, a filled order was filled at no better than
  its entry, and an open position is within its levels or was marked by a tick from before it.  `JournalIInv` adds that what is kept
  was closed, is on the file, and no two results are of one trade.
* `StartupIInv` has only what shutting down needs, and that the bounds are those of an instant: the work is in the lemma `BoundsAre`, that the
  search for the last session day ends (`WeekIsSane`: a week has a working day) and finds it.
* `AppSound` is of the whole application: every runtime is sound (`SoundRuntime`), RUNNING means that the application serves in every runtime, and a
  stopped runtime holds only what it may; the lemmas follow every partial start and clean-up engine by engine and runtime by runtime.
  `LiveSound` adds the coordinator's types, and that a reported session is named (`SessionsAreNamed`: a request does not name the user's own
  session) and no runtime of its instruments runs it.
* `SessionsSound` relates the two engines: results are in strictly increasing order of sessions, none is beyond the current one and those that passed are
  complete (`AsPlayed`); an ended replay has its outcome and an ended backtest its latest report; while the replay plays for a begun backtest, it
  plays the session begun last, which has no result yet.
* `ValSound`: the severity of a finding is that of its code (`SeveritiesFor`), so a repeated finding cannot hide an error; what was raised is listed while
  nothing had to make room; RUNNING is untroubled and DEGRADED troubled; a report is of this session or an earlier one, and a completed session is over.

Induction over data is done without the library's theorems on operators: a set of numbers that has 0 and with each number the next has them
all (`Counting`, from the well-foundedness of `<`), a finite non-empty set of integers has a least element (`FiniteHasLeast`), and finitely many candles
have a highest (`FiniteHasHighest`).  The recursions the first of these unfolds (`Replayed`, the seeding of a lane) are written as recursive functions.

Checked by TLC only, and why:

* Liveness (`StaleConnectionEnds`, `BacktestEnds`) and `ENABLED` are out of the prover's reach.
* What a fold over data computes for every input: that `Statistics` is `Figures` (`AnalyticsCurrent` in `JournalIsTrue`), and the sum over commands in `OnlyIdleModificationsForget`.

## 6. Plan

Done: the modules of section 2, the runs of section 3, the proofs of section 5.

Left, in this order:

1. The stage between `RiskManagementV2` and `TradeTypes`: that every snapshot of a review satisfies `RiskSnapshotsAssumption`
   (`RiskReviewIsSound` states the parts of it).

Components that do not interact share a run, each in a state space of its own; deeper properties take the place of weaker ones.

## 7. Not modelled, and why

Network I/O and response parsing (broker adapters, instrument catalogue), Qt widgets and presenters, scripts and the first-generation
prototypes have no state of their own worth checking.  The evidence, strategy, reasoning and confidence engines are scoring rules over one
input that keep their last answer: nothing interleaves, and what they answer is an input of the models.  The first-generation trade
journal and position engine are superseded by modelled ones.  Configuration values are constants.  Floating-point arithmetic is replaced by exact
integers throughout, so rounding is out of scope.  The content of bounded histories, messages and event payloads is left out where
no property is about them.

## 8. Definitions that share the lines of another

`map` names, for each line of code the model stands for, the definition that translates it: the actions and the operations first.  A helper
whose lines lie, but for a few, in the range of another definition is listed here instead, with its lines, so that every definition can be opened beside its source.

* `TradeTypes`: in engines/strategy_decision_v2/enums.py: `StrategyDirections` 27-31; in engines/risk_management_v2/models.py: `PricesWellFormed`
  125-153, `RiskSnapshot` 210-237, `RiskWellFormed` 268-276, `Approved` 272-274, `Price` 294-299, `Quantity` 316-320; in
  engines/strategy_decision_v2/models.py: `StrategyWellFormed` 186-203; in application/execution_runtime_v1/enums.py: `Decisions` 17-21.
* `ExecutionRuntimeV1`: in application/execution_runtime_v1/enums.py: `AllFillPolicies` 47-50; in application/execution_runtime_v1/runtime.py:
  `execVars` 39-69, `execCounts` 61-68, `SubmitResult` 114-131, `Declined` 118-119, `FillResult` 152-158, `Remember` 162; in
  application/execution_runtime_v1/validator.py: `Executable` 34-50; in application/execution_runtime_v1/simulator.py: `ImmediateFill` 38-54.
* `PositionManagementV1`: in engines/position_management_v1/engine.py: `posVars` 41-71, `posCounts` 61-71, `OpenResult` 77-88, `UpdatePrice` 97-171,
  `Fresh` 109-116, `Finished` 160; in engines/position_management_v1/enums.py: `PosDecisions` 22-26; in engines/position_management_v1/calculator.py:
  `Side` 36-42, `Invalidation` 66, `Objective` 67, `InvalidationReached` 139-142.
* `TradeLifecycleV1`: in application/trade_lifecycle_v1/enums.py: `LcStatuses` 8-14; in engines/position_management_v1/calculator.py: `Openable`
  32-45; in application/trade_lifecycle_v1/coordinator.py: `MayProcess` 142-158, `Process` 142-187.
* `ProductionSafetyV1`: in engines/production_safety_v1/configuration.py: `SafetyInstruments` 72-82; in engines/production_safety_v1/enums.py:
  `Targets` 20-22; in engines/production_safety_v1/recovery.py: `DependencyRules` 33; in engines/production_safety_v1/evaluator.py: `RuleOrder` 33-47,
  `DailyLossBreached` 87-92, `DrawdownBreached` 95-100; in engines/production_safety_v1/engine.py: `EvaluateRaises` 109-117, `ActiveState` 112-113,
  `Running` 112-113, `EvaluateFresh` 112-117, `EvaluateCached` 114-115, `EvaluateForRecovery` 186, `MayReleaseGlobal` 198-201, `OpenRules` 276-277,
  `NewIncidents` 306-316, `InRuleOrder` 306-316, `UpdateRefused` 317-321, `TrimIncidents` 324, `IsSwitchIncident` 329, `RefreshedEvaluations` 378-388,
  `RefreshRefused` 389, `ManualOnly` 394-405; in engines/production_safety_v1/models.py: `ResolveRefused` 139-148.
* `TradeRuntimeV1`: in application/trade_lifecycle_runtime_integration_v1/registry.py: `Instruments` 46-48; in
  application/trade_lifecycle_runtime_integration_v1/integration.py: `runtimeVars` 37-77, `Validated` 100-105, `Flat` 151-154, `RouteTrade` 165-193,
  `RouteContext` 165-193, `RoutedRaises` 182, `Routable` 341-345; in application/enums.py: `AppStatuses` 14-18; in
  application/trade_lifecycle_v1/enums.py: `CoordinatorStages` 17-34; in engines/position_management_v1/engine.py: `Serial` 73-95; in
  application/trade_lifecycle_v1/coordinator.py: `NewCoordinator` 36-86, `ValidationFails` 96-107, `Holding` 99-100, `Idle` 146-157, `MayProcess`
  150-157, `ProcessedFresh` 158-187, `CachedRaises` 180-181, `Opens` 180-185, `Confirmed` 189-205, `Priced` 207-220, `ExitsPart` 222-228, `ExitsAll`
  230-238, `Executing` 328-336; in application/execution_runtime_v1/runtime.py: `CancelBehind` 173-190.
* `TradeJournalV1`: in engines/trade_journal_v1/engine.py: `fixed` 29-46, `journalVars` 29-53; in engines/trade_journal_v1/registry.py: `Entered`
  22-25, `GainsOf` 53-55; in engines/trade_journal_v1/analytics.py: `Of` 68-70, `Total` 71, `Larger` 126, `TrendRaises` 161-164.
* `OrderManagementV1`: in engines/order_management/order_management_engine.py: `orderVars` 33-41, `NewOrder` 73-98, `Accepts` 105-120, `Deliver`
  105-130, `Duplicate` 110-117, `FreeBrokerId` 156-158, `Touched` 163-169, `Modifiable` 174-201, `Modified` 182-217, `QuantityAllowed` 185-190,
  `SameTerms` 203-207, `WellFormed` 221-225, `WithFill` 228-244; in engines/order_management/validator.py: `Ended` 35-39; in
  application/symbol_runtime.py: `Stamped` 786-790; in engines/order_management/models.py: `Seen` 89-123, `Entry` 89-123; in
  engines/order_management/enums.py: `Sides` 8-10, `Types` 13-17.
* `PaperExecutionV1`: in engines/paper_execution_coordinator/engine.py: `maps` 90-117, `coordinatorVars` 90-117, `Updates` 215-222, `Heard` 216-227,
  `EntryUpdate` 228-284, `OrdersCancelled` 294-301, `Before` 295, `OrdersOf` 295-296, `IsLive` 297-298, `Protection` 462-476, `Opposite` 602-604,
  `Purposes` 648-652; in engines/order_management/models.py: `OrderState` 89-123.
* `OrderBook`: in engines/order_management/enums.py: `BookStatuses` 24-30; in engines/order_management/validator.py: `Live` 35-39, `Successors` 41-62;
  in engines/order_management/models.py: `BookEntry` 89-123; in engines/order_management/order_management_engine.py: `Placed` 73-98, `Moved` 152-172,
  `Resized` 174-219, `Filling` 221-246, `FilledBy` 221-246.
* `ExecutionPolicyV1`: in engines/trade_execution_policy/engine.py: `ActiveStatuses` 40-44, `policyVars` 56-74, `ModeOf` 238-258, `ContentChecks`
  238-303, `NoneFails` 238-316, `FirstFailure` 238-316, `QuantityOf` 264, `EntryOf` 278, `ReferenceOf` 279, `Distance` 288, `Aligned` 639-641; in
  engines/trade_execution_policy/models.py: `ValidUntil` 359-361.
* `AuthorizedPaperV1`: in engines/trade_decision_authorization/engine.py: `MAX_INPUT_AGE` 31; in
  application/authorized_paper_execution/coordinator.py: `MAX_AUTHORIZATION_AGE` 35, `handoffVars` 58-71, `HeldOrRejected` 240-260.
* `ExecutionReconciliationV1`: in engines/execution_reconciliation/engine.py: `EndedSubmissions` 59-63.
* `ReconciliationReportsV1`: in engines/execution_reconciliation/engine.py: `vars` 102-148, `ReconcileStopped` 257-260, `ReconcileDisabled` 261-264,
  `ReconcileRaises` 270-281, `After` 656-661.
* `LiveFeedV1`: in brokers/zerodha/market_data/client.py: `Callback` 87-102; in brokers/zerodha/auth/session_manager.py: `IsAuthenticated` 189-191; in
  brokers/zerodha/market_data/websocket_manager.py: `IsConnected` 251-253; in application/live_market_data/runtime.py: `FeedStarted` 91-108,
  `FeedStopped` 110-130.
* `OptionChainFeedV1`: in brokers/zerodha/option_market_data/manager.py: `ActivationUndone` 102-126, `ReplacementReached` 128-172, `Undo` 289-305,
  `TokensOf` 307-308; in brokers/zerodha/option_market_data/transport.py: `Removed` 22-38; in application/live_option_chain/runtime.py: `Serving`
  118-124; in application/live_option_chain_integration/coordinator.py: `IntegrationValid` 93-123; in engines/option_chain_analytics/engine.py:
  `AppendBounded` 75-97; in application/live_option_chain/assembler.py: `FreshChain` 91-111.
* `FuturesVWAPV1`: in engines/vwap/vwap_engine.py: `Accumulated` 48-105, `Held` 150-171; in application/futures_vwap.py: `NoFutures` 112-134,
  `LoadsOf` 378-392, `Fed` 387-392, `Seeded` 353-392, `Bootstraps` 353-392.  `Unheard` is the history variable's update.
* `DesktopOptionChainV1`: in application/desktop_option_chain.py: `Owned` 216-217, `Ignored` 299-336, `ActivationRaises` 383-464, `StackFor` 383-464,
  `Taken` 408-420, `Freed` 420-440.
* `DeterministicBacktestV1`: in engines/deterministic_backtest/enums.py: `BacktestTerminal` 11-18; in application/desktop_live_data.py:
  `ConfiguredReplay` 691-707; in engines/deterministic_backtest/engine.py: `ProcessSession` 152-173, `ProcessBacktest` 152-173, `StartNextSession`
  283-300, `SessionResult` 312-330; in engines/historical_market_replay/enums.py: `ReplayTerminal` 6-14; in
  engines/historical_market_replay/engine.py: `Complete` 282-286, `Startable` 309-312.
* `ApplicationLifecycleV1`: in application/enums.py: `RuntimeStatus` 14-18; in application/symbol_runtime.py: `NewRuntime` 79-263, `Engines` 281-294,
  `StartedTo` 281-294, `StartedRuntime` 281-294, `StartRaised` 281-294, `StoppedRuntime` 296-310, `StopRaised` 296-310, `HalfReset` 804-868,
  `ResetRuntime` 804-868, `PaperTicked` 918-927, `PaperShutDown` 929-935, `Processing` 1149-1151; in engines/shadow_trading_session/engine.py:
  `EngineStarted` 95-99, `EngineStopped` 101-105, `ShadowStoppable` 163-198, `ShadowStopped` 163-198; in application/orchestrator.py:
  `OrchestratorStart` 125-130, `OrchestratorStop` 132-140, `StopShadowSession` 332-334, `ResetTo` 410-417, `AppNext` 410-417, `ResetAll` 419-437; in
  application/authorized_paper_execution/coordinator.py: `HandoffStarted` 73-77, `HandoffStopped` 125-132; in core/event_bus.py: `MayRaise` 34-39; in
  application/lifecycle_manager.py: `Start` 58-73, `StopApplication` 75-90, `Stop` 75-90, `RestartApplication` 92-103, `Restart` 92-103,
  `ResetApplication` 105-109.
* `LiveShadowV1`: in application/live_shadow_session/coordinator.py: `LinkReady` 60-117, `LiveEnded` 61-75, `Observing` 119-154, `Stoppable` 171-215,
  `LiveReset` 249-273, `FailedLive` 362-366; in adapters/zerodha/adapter.py: `NewAdapter` 32-63, `Disconnect` 189-196, `ResetAdapter` 211-227,
  `Receiving` 256-276, `MalformedBatch` 256-276, `OnTicks` 256-276, `AdapterFails` 314-318, `AdapterTerminal` 359-363; in application/orchestrator.py:
  `LiveNext` 419-437.
* `RiskEngineV1`: in engines/risk/risk_engine.py: `Started` 109-113, `StopRisk` 115-117, `RecordResult` 205-209, `FirstRefusal` 280-308,
  `RefusedByValidation` 704-736, `DateOf` 738-740, `Rolled` 742-758, `ClockOf` 1042-1045; in engines/risk/models.py: `OpenFor` 586-591, `RiskAnswers`
  594-653, `RiskDecisions` 594-653; in engines/risk/calculator.py: `Loss` 55-91, `DailyLimit` 55-91, `MaxLotsFor` 55-91, `ReducedByTrades` 103-123.
* `RiskTradePlansV1`: in engines/risk/trade_plan_engine.py: `LevelFailure` 100-119, `ApprovedLots` 129-135, `GateFailure` 237-264, `SameDay` 394-399,
  `PlanToday` 394-399, `StateToday` 394-399, `NextAbove` 477-479, `NextBelow` 482-484, `Level` 487-491.
* `PriceActionV1`: in engines/price_action/price_action_engine.py: `EmptyEngine` 45-72, `Late` 98-132, `Updated` 98-132, `Replayed` 163-174,
  `SwungLow` 176-202, `Swung` 176-202, `BreaksHigh` 270-303, `BreaksLow` 270-303, `TwoSided` 270-303, `BrokenWith` 270-303, `SwingKey` 353-354,
  `BreakDirections` 395-409, `Pullback` 411-418, `Raises` 437-487; in engines/price_action/models.py: `SwingPoints` 22-31, `States` 43-69; in
  engines/price_action/enums.py: `Trends` 22-26, `BreakTypes` 29-33, `Directions` 36-39, `Sweeps` 60-64.
* `CandlePipelineV1`: in engines/vwap/vwap_engine.py: `EmptyVwap` 42-46, `Day` 170-185; in application/symbol_runtime.py: `Primary` 79-263,
  `SpotSource` 315-352, `WarmUp` 443-507, `Warmed` 443-507, `Behind` 495-507, `Analysed` 937-960, `PassOn` 937-960, `WarmOne` 1093-1114, `ProxyReady`
  1145-1147; in core/models/candle.py: `CandleOf` 12-42; in engines/candle/candle_engine.py: `StartsOf` 130-172, `InOrder` 184-204, `Strict` 226-231;
  in engines/price_action/price_action_engine.py: `Take` 98-139.
* `HistoricalWarmupV1`: in application/historical_warmup/coordinator.py: `NewCoordinator` 35-80, `OtherResults` 82-115, `Eligible` 117-181,
  `PreviousDayRaises` 202-260, `Seeds` 202-260, `AnyResult` 262-294, `Finished` 296-329, `StatusOf` 306-329, `Total` 306-329, `Accepted` 306-329,
  `FetchedBy` 306-329, `Instruments` 360-364.
* `LiveValidationV1`: in engines/live_market_validation/engine.py: `Sessionless` 146-192, `ValidTick` 290-356, `TickSeen` 290-356, `ChainSeen`
  447-499, `Active` 570-571, `Listed` 593-624, `Appended` 593-624, `DegradedBy` 593-624, `Found` 593-624, `FoundIf` 593-624, `Identity` 741-742,
  `Disallowed` 768-775, `Date` 829-830; in engines/live_market_validation/enums.py: `Troubles` 20-24, `Outcomes` 85-89; in
  engines/market_data/market_data_engine.py: `FeedTick` 43-80.
* `PaperTradingV1`: in engines/paper_trading/engine.py: `paperVars` 53-87, `EmptyDesk` 53-87, `OrderPending` 89-91, `PositionOpen` 93-95,
  `TickHandled` 233-251, `CandleExit` 253-269, `ShutdownAt` 271-278, `AfterHours` 379-397, `TargetReached` 379-397, `Fees` 403-404, `Expired` 477-482,
  `Withdrawn` 483-500, `LevelTouched` 497-500, `Bullish` 542-545, `EntryFill` 542-545, `StopExit` 548-551, `Profit` 554-557; in
  engines/paper_trading/models.py: `PaperOrders` 14-68, `PaperPositions` 71-125, `PaperRecords` 128-219.
* `PerformanceJournalV1`: in engines/performance_analytics/engine.py: `NoJournal` 21-51, `Restart` 21-51; in
  engines/performance_analytics/repository.py: `AllLines` 47-60, `SameTrade` 62-77, `Recorded` 62-77, `Appended` 114-129, `TornAppends` 132-141; in
  engines/paper_trading/engine.py: `MarketTick` 418-471, `MarketCandle` 465-471, `StopPaper` 515-519.
* `DesktopStartupV1`: in application/desktop_live_data.py: `Accepted` 164-193, `Effective` 188-242, `ReplaySwitches` 733-735; in
  application/reference_data_bootstrap.py: `DayOfTime` 37, `TimeOfDay` 37, `SessionDay` 39, `LastMinute` 51-53; in dashboard/application.py:
  `StopOrder` 93-113, `OrderOf` 93-113, `Stopping` 116-138.
* `RiskManagementV2`: in engines/risk_management_v2/models.py: `CurrentEquity` 52-54, `ReviewSnapshots` 210-240, `Raises` 257-258; in
  engines/risk_management_v2/enums.py: `ApprovedDecisions` 8-10, `RiskDecisionV2` 8-13, `Fails` 54-58; in engines/risk_management_v2/calculator.py:
  `Reduces` 53, `Changed` 106; in engines/risk_management_v2/validator.py: `StopDistance` 25, `UnitNotional` 27, `DailyLossRule` 65-69, `DrawdownRule`
  72-76, `TradesRule` 87-90, `CapitalRule` 93-96, `InvalidationRule` 99-102, `ObjectiveRule` 105-108, `TradeRiskRule` 131-136, `TotalLeft` 145-146,
  `InstrumentLeft` 152-153; in engines/risk_management_v2/sizing.py: `RiskPerUnit` 20-21, `RiskBudget` 22-24, `RoundedQuantity` 25-26,
  `CappedQuantity` 27-48, `SmallestOf` 36-48, `Capacity` 64-68; in engines/risk_management_v2/engine.py: `Latest` 72-79.

# OctoBot: a TLA+ model of the trading bot

OctoBot is an asyncio program: one event loop runs the tasks of a trading bot, which
share orders, portfolios and channels and hand over to each other at every `await`. Most
of what is hard to test in it is in those hand-overs: what was true before an `await`
and is not after it, which of two tasks gets a lock, which answer of the exchange comes
first. This directory models those parts in TLA+, checks them with TLC and proves, for
every size, what TLC checks on small instances.

Contents: [inventory](#inventory), [plan](#plan), [the modules](#the-modules),
[what the runs show](#what-the-runs-show), [what is proved](#what-is-proved),
[findings](#findings), [limits](#limits).

## Inventory

`packages/` holds the libraries, `octobot/` the process that puts them together.

| Part | State it keeps | Operations | Interacts with | Hard because |
| --- | --- | --- | --- | --- |
| Portfolio (`trading/personal_data/portfolios`) | available and total of each asset, configured starting portfolio, expected updates | lock, release, fill, deposit, withdraw, replace from a balance, reset | orders call it when they open and close; the balance updater replaces it | several steps that can raise half way; release recomputed from the order; updates of the exchange race with predicted ones |
| Orders and their states (`personal_data/orders`) | status, current `OrderState` object, locks, group, chained orders | create, edit, cancel, refresh, fill, terminate, close | `Trader`, exchange connector, orders updater, portfolio, trades | a state is replaced while tasks still run in the old one; three locks; refresh answers that are late |
| Order groups and chained orders | members, enabled, active leg | on_fill, on_cancel, swap of the active leg | orders, `Trader` | two legs can be filled at once |
| Trader (`exchanges/traders`) | enabled, risk | create, edit, cancel, cancel_all, withdraw | orders, connector, portfolio lock | callers may hold the portfolio lock |
| Trades (`personal_data/trades`) | trades by id, by exchange order id | upsert, closing trade lookup | orders that close, orders that reappear | decides whether a late order is a new one |
| Channels (`async_channel`, `exchange_channel.py`) | consumers, producers, paused, synchronized | register, remove, pause, resume, send, stop, synchronized drain | everything that publishes or listens | pause and resume race with the loops they control |
| Updaters (`exchange_data/*/channel`, `personal_data/*/channel`) | running flag, task, refresh times | start, poll, pause, resume, stop | exchange, channels, jobs | loops see a pause late |
| Jobs (`commons/async_job.py`) | idle event, dependencies, tasks | run, periodic run, stop | orders and balance updaters | waits with timeouts, a `finally` that runs the job |
| Backtesting (`backtesting`) | timestamp, producers by priority | next timestamp, drain by priority, join | synchronized channels | callbacks feed queues that were already drained |
| Node scheduler (`node/scheduler`) | workflows, their inputs and messages (durable) | iterate, receive priority actions, reschedule, stop | flow jobs, user actions | crash between two steps, messages to a workflow that ends |
| Flow (`flow`) | graph of actions, their results | execute the executable ones, reset | node, trading | order of execution, retries |
| Evaluators (`evaluators`) | matrix of notes | evaluate, set note, strategies read | exchange channels, trading modes | several notes form one decision |
| Trading modes (`trading/modes`, `tentacles`) | target state | produce signals, create and cancel orders | all of the above | hold the portfolio lock over awaits |
| Services, notifiers, interfaces, node API, client, sync, copy, agents, tentacles manager, community | connections and files | input and output | users and third parties | the network |

What makes each part correct, and the properties that say it:

* **Portfolio.** No amount is negative; available is total minus what open orders lock;
  a fill moves both assets or none; except where an entry was created by a debit, which
  the code does not check. (`NonNegative`, `Reconciled`, `AvailableWithinTotal`,
  `SettlesBothAssets`)
* **Orders.** The bot books an order as what happened to it on the exchange, once; every
  fill and every cancel is eventually found; nobody waits forever. (`FilledMeansFilled`,
  `CanceledMeansCanceled`, `SettledOnce`, `NoReinclusion`, `FilledIsClosed`,
  `CanceledIsClosed`, `CancelReturns`)
* **Channels and updaters.** Whoever needs data gets it, nothing is polled for nobody or
  twice, stopping stops. (`PauseMatchesConsumers`, `PolledWhileWatched`, `FedWhileWatched`,
  `QuietWhenUnwatched`, `StopEndsPolling`, `OneLoop`)
* **Backtesting.** What a timestamp triggers is processed at that timestamp, consumers of
  higher priorities first, no whitelisted timestamp is jumped over and the end is reached,
  whoever is not stranded in a channel that is not served at its level.
  (`NothingLeftBehind`, `TasksRunInTime`, `HigherFirst`, `WhitelistedAreTriggered`,
  `BacktestingEnds`)
* **Automation workflows.** Nothing that was recorded is executed again, whatever crashes;
  workflows of one automation never work side by side; only a restart takes a stop from
  an automation; only messages that came too late are lost. (`RepeatedOnlyIfLost`, `OneWorkflowWorks`,
  `OnlyRestartsResume`, `OnlyLateMessagesLost`, `CompletedSignalsCount`) The chain of its
  workflows is one automation. (`KeepsPromise`)
* Planned: **groups** (at most one leg of a pair stays open once the other is done, no
  leg is canceled for nothing), **jobs** (a job never runs next to what it depends on).

`PROJECT.json` lists every component with its sources and status, and under `hazards` the
places where these can go wrong, with the properties that watch them.

## Plan

In the order in which the modules are written; the first seven are done.

1. `SpotPortfolio`: accounting of the simulated portfolio. *Done, proved.*
2. `OrderLifecycle`: one order of a real trader under concurrent tasks. *Done,
   checked and proved.*
3. `PollingChannel`: pause, resume and stop. *Done, checked and proved.*
4. `OrderPromise`, the abstract specification of what an order promises the rest of the
   bot, implemented by `OrderLifecycle`. *Done, checked and proved.*
5. `AutomationWorkflow`: iterations, user actions, rescheduling, restarts, crashes and
   recovery over a durable scheduler. *Done, checked and proved.*
6. `Backtesting`: the clock, consumer queues and the drain by priority. *Done,
   checked and proved.*
7. `AutomationPromise`, the abstract specification of one automation, implemented by
   `AutomationWorkflow`. *Done, checked and proved.*
8. `AsyncJob`: jobs with dependencies, idle events and timeouts.
9. `OrderGroup`: two orders composed through a group; then chained orders.
10. `ExchangePortfolio`: balance updates, expected updates and their timeouts.
11. `RLock`, and `cancel_all_orders` over several orders.

Bounds for these: two or three tasks or consumers, two messages, one crash, one or two
failures, which is what each hazard takes. Theorems worth proving: the invariants of 8 and
the exclusions of 9 and 10, which stay with TLC where they are about termination.

## The modules

### SpotPortfolio

The portfolio of a simulated trader, and of a real one whose portfolio is not synchronized
(`enable_portfolio_exchange_sync` unset). Two assets, `N` orders.

| TLA+ | Code |
| --- | --- |
| `portfolio` | `Portfolio.portfolio`, a `SpotAsset` per currency |
| `listed` | the keys of that dict |
| `order` | the open and closed orders, with the attributes the portfolio reads |
| `slippage` | history, not in the code: what fills below the limit price leave locked |
| `overdrawn` | history: the assets whose entry was created by a debit |
| `Update`, `Lock`, `Release`, `UpdateFromFill` | `SpotAsset.update`, `SpotPortfolio.update_portfolio_available_from_order`, `update_portfolio_data_from_order` |
| `Open`, `Edit`, `Cancel`, `Fill` | `OpenOrderState.initialize_impl`, `Trader.edit_order`, `CancelOrderState.terminate`, `FillOrderState.terminate`, each with the calls they make on the portfolio manager |
| `Deposit`, `Withdraw`, `ResetHistory` | `PortfolioManager.handle_balance_update_from_*`, `reset_history` |
| `Look` | `Portfolio.get_currency_portfolio`, which lists the currency it is asked for |

None of these operations suspends between its first and its last change of the portfolio
in this mode, so each is one action. What happens inside of one matters all the same: an
update is a record `[amounts, raised]` that is carried through the calls, so that an
operation that raises half way leaves what it had done.

An update of a currency that the dict does not list is not checked: `_update_portfolio_data`
(`portfolio.py:228-235`) makes the raw deltas its first amounts. `Update` does the same, and
`overdrawn` remembers it. The starting portfolio of the run lists the base only, so the
quote is missing until a read, a deposit, a sale or a lock creates it, and again after a
reset. `PreviousPortfolios` is what a simulator may load from an earlier session.

Amounts are integers in `1/Scale` of the tradable step and fees fractions of `Scale`,
which makes the decimal arithmetic of the code exact; rounding is not modelled.

Two switches name what the rest of the code has to guarantee: `FundedEdits` (editors check
the funds before they edit) and `FundedResets` (the configured portfolio covers the locked
funds). The theorems assume both. A run shows what happens without the first; without the
second, TLC finds a reset that makes an available amount negative (`asset.py:69` subtracts
without a check).

### OrderLifecycle

One open spot order of a real trader. The tasks are the callers of `Trader.cancel_order`,
the job that fetches the open orders, and the tasks that `on_order_refresh_success`
creates. A task is where it awaits (`pc`), the state object it works on, and its local
variables; an action is what it does between two awaits that can suspend: the exchange,
a lock that is taken, or a new task.

| TLA+ | Code |
| --- | --- |
| `exchange` | the order on the exchange |
| `status`, `states`, `outcome` | `Order.status`, the `OrderState` objects in order of creation, the trade the order became |
| `orderLock`, `portfolioLock`, `states[i].lock` | `Order.lock`, `Portfolio.lock` (reentrant), `State.lock` |
| `CancelOrder` ... `CancelAnswered` | `Trader.cancel_order`, `_handle_order_cancellation`, `_handle_order_cancel_error`, `CCXTConnector.cancel_order` |
| `TakeStateLock` ... `RestoreState` | `State.synchronize`, `refresh_operation`, `OrderState._synchronize_with_exchange`, `OrdersProducer.update_order_from_exchange`, `handle_order_update_from_raw` |
| `OnRefreshSuccessful` | `on_refresh_successful` of the open, cancel and fill states |
| `UpdatePortfolio`, `EnsureNotCleared`, `OnClose` | `terminate` of the cancel and fill states, `CloseOrderState.terminate` |
| `FetchOpenOrders`, `CheckMissingOpenOrders` | `OrdersUpdater`, `OrdersProducer` |

Old states are kept in `states` since tasks still run in them: `Order.state` is the last
one. An action that does not await in between contains everything the code calls,
written as operators from a world to a world (`Terminate`, `StartRefresh`, `OnCancel`...).
`ahead` orders the tasks that are ready as the event loop does, first come first served:
without it, a refresh task could be overtaken forever by tasks that became ready after it.

### OrderPromise

What the rest of the bot relies on about an order: the exchange decides how it ends, then
the portfolio is updated once, then it becomes the trade that tells how it ended. Three
variables, three steps. `OrderLifecycle` implements it under the mapping `Promise`
(`exchange` to `ending`, `settlements = 1` to `settled`, `outcome` to `trade`), where
cancels are effective when they are acknowledged.

### PollingChannel

A channel of an exchange, its consumers and the update loops of `OrderBookUpdater`.

| TLA+ | Code |
| --- | --- |
| `consumers`, `isPaused`, `registered` | `Channel.consumers`, `is_paused`, `producers` |
| `isRunning`, `shouldStop`, `produceTask` | the attributes of `Producer` |
| `loops` | every task of `Producer.start()` that is not done, also those `produce_task` has forgotten |
| `NewConsumer`, `RemoveConsumer`, `Run`, `Stop` | `ExchangeChannel.new_consumer`, `Channel.remove_consumer`, `Producer.run`, `Channel.stop` |
| `CheckProducersState`, `Pause`, `Resume` | `_check_producers_state`, `pause`, `resume` |
| `Begin`, `Fetch...`, `Wake` | `OrderBookUpdater.start`, `start_update_loop` |
| `unsupported` | history: the updater paused its channel by itself |

### AutomationWorkflow

One automation of a node: a chain of durable workflows, one per iteration, each started by
the former under an identifier derived from its own, and the workflows of the user actions
that stop it, signal it, trigger it or restart it.

| TLA+ | Code |
| --- | --- |
| `wf[i]` | `AutomationWorkflow.execute_automation` of the `i`-th identifier: where it is (`pc`), its messages, the action it received, its inputs, the state of its latest and of its first iteration, whether the latest was postponed |
| `ua[u]` | `UserActionWorkflow.execute_user_action`: its step, the workflow it found, the state it restarts from, the result it received |
| `State` | the content of the task that iterations hand on: which priority actions are completed, whether the automation is stopped |
| `Receive`, `ExecutionTime`, `ReceiveExtra`, `IgnoreForced`, `NothingLeft` | `_wait_and_trigger_on_actions_update`, `_process_pending_priority_actions_and_reschedule` |
| `Attempt`, `AttemptRaises`, `Record` | `execute_iteration`, its retries, the record of its result and `_should_continue_workflow` |
| `ScheduleNext`, `Close` | `_schedule_next_iteration`, the end of `execute_automation` |
| `Resolve` ... `RecordSent` | `_send_to_active_automation_workflow` |
| `ReceiveResult`, `ResultTimeout` | `_recv_signal_execution_result` and what is made of it |
| `AssertNotRunning`, `BuildRestart`, `CreateTask` | `restart_automation.py`, `trigger_task` |
| `Crash` | the process stops; the engine runs what has not ended again |
| `executions`, `dropped` | history: how often an action was executed, and how many of these no recorded state remembers |

The engine (DBOS) is external. What the model takes from it: the result of a finished
step is recorded and not executed again; a message that is received is received once; a
workflow is started once under an identifier, and starting it again does nothing; several
workflows run at the same time. An action is what happens between two records. The
operations that are not steps (sending a message, starting a workflow) take effect at once
and are separated from the record that follows, which a crash can come between.

What an iteration does in the graph of the automation is reduced to its outcomes: it goes
on, ends, stops, fails or is postponed; one that executes a priority action may also leave
nothing to do next, which ends the workflow. A user action is counted each time it is
executed. A signal whose actions do not await their result (`await_execution_result`) is a
kind of its own, `unawaited`: it is completed when it is sent (`signal_automation.py:124-130`)
and waits for nothing.

After the messages that came meanwhile, the workflow asks the result of its latest iteration
whether to stop, not its state (`ShouldStop`, `automation_workflow.py:645`). A postponed
iteration has no such result: the property `OnlyRestartsResume` names this exception, see
[findings](#findings).

### AutomationPromise

What a node promises of an automation, without workflows, messages or retries: one
iteration at a time, which executes a user action that it does not know of (`Execute`) and
then remembers it (`Remember`) or loses it (`Lose`, with a crash or a postponed iteration),
or fails with it (`Fail`, `Break`); it hands over only while it runs and, once it was stopped,
only if what it did last was postponed; after it has ended nothing happens but a restart. `AutomationWorkflow` implements it under
the mapping `Promise`, which looks at the last workflow of the chain: its index is
`iteration`, it is `working` until it has ended, its state tells `stopped` and `done`, its
latest iteration `postponed`, a result that is not recorded yet is `pending`, and the history variables are `executed` and
`lost`. Messages and the steps of user actions, a restart apart, are stutters.

### Backtesting

The clock of a backtesting and the drain of the queues of its channels.

| TLA+ | Code |
| --- | --- |
| `now`, `whitelist`, `ahead` | `TimeManager.current_timestamp`, `timestamps_whitelist`, its deque |
| `consumers`, `queue` | the consumers of each channel and their queues |
| `kept`, `served` | `ChannelsManager.producers`, `producers_by_priority_levels` |
| `loop` | where `TimeUpdater.start`, `handle_new_iteration`, `refresh_priority_level` and `synchronized_perform_consumers_queue` are |
| `Push`, `Advance`, `Finishes`, `End`, `Stop` | `TimeUpdater.start`, `stop` |
| `SkipLevel`, `StartLevel`, `NextCycle` | `handle_new_iteration` |
| `NextProducer`, `NextConsumer`, `Recheck` | `refresh_priority_level`, `synchronized_perform_consumers_queue` |
| `Perform`, `PerformRaises`, `PerformTimesOut`, `RunTask` | the callbacks of the consumers and the tasks they create |
| `NextTimestamp`, `Pop` | `next_timestamp`, `_has_current_timestamp_in_whitelist` |
| `triggered`, `cut` | history: the timestamps that were pushed, those of which a level was given up |

A message carries the time of the callback or task that sent it, which is what the
properties compare. After the first timestamp the producers without consumers are dropped
for good, which `Advance` does in the same step as the clock, as the code does. A consumer
that comes later to a channel that is not served at its level is `Stranded`:
`update_producers_by_priority_levels` runs once. Late consumers join any channel in the
model; the properties name those that are stranded as their exception. The tasks of
callbacks push in one step, so the one cycle of the event loop that the code yields
completes all of them; a coroutine that awaits more than once is not covered.

### Other modules

`PartialSums` sums a function over `1 .. n` with a recursive function (there is no
`RECURSIVE` operator in any module that is proved about). The `MC...` modules give the
constants their values for TLC, the `.cfg` files choose between them, and `...Proofs` hold
the theorems.

## What the runs show

| Run | Configuration | Shows |
| --- | --- | --- |
| `spot_portfolio` | 2 orders, 2 quantities and prices, maker and taker rates 0 and 1/2, backtesting fills, a starting portfolio without the quote | `TypeOK`, `NonNegative`, `Reconciled`, `SettlesBothAssets` hold in all 1,414,109 states |
| `order_lifecycle` | 2 cancels (one under the portfolio lock), 2 attempts, 2 failures, cancels effective at once | `TypeOK`, `FilledMeansFilled`, `CanceledMeansCanceled`, `NoReinclusion` hold, and the promise is kept (`KeepsPromise`) |
| `order_progress` | 2 cancels, cancels effective later, 1 failure, fairness | `SettledOnce`, `FilledIsClosed`, `CancelReturns` hold |
| `polling_channel` | 2 consumers that need the channel and 1 that does not, 3 loops, 2 failed rounds, fairness | all six properties hold |
| `automation_workflow` | 2 user actions of any of the five kinds, 2 workflows, 2 attempts, 1 attempt that raises or crash, user actions interchangeable (`SYMMETRY`) | all six properties hold and the promise is kept (`KeepsPromise`) in 3,012,781 states |
| `backtesting` | 4 channels, 6 consumers of 3 priorities of which 2 come late to any channel, timestamps 0 to 3, no whitelist or {1, 2}, 2 pushes per timestamp, 1 error, fairness | all six properties hold in 763,347 states |
| `unfunded_edits`, `async_cancel`, `cancel_during_refresh`, `locking_cancel`, `polling_twice`, `skipped_timestamp` | as small as possible | one violation each: see [findings](#findings) |

Why the bounds are enough. Two orders are what it takes for one to take the funds another
counts on, and the starting portfolio is exhausted by two of the larger ones. An order has
at most one final state per way it can end; two cancels and the poll create every pair of
competing tasks, and four refreshers are more than ever exist at a time (with fewer,
`CHOOSE` would fail in `Spawn`, which TLC reports). Two synchronization attempts allow one
to fail before the maximum. Three loops are two more than there should be; registering is
disabled when all are taken, so the properties are checked for as many pauses and resumes
as leave at most three. `MaxFailures` and `MaxBreaks` bound failures because a liveness
property needs them to end; `MaxTotal` bounds deposits.

Two user actions are what a race takes (a restart against a stop, or two restarts), two
workflows are one reschedule or restart with all the interleavings around it, and what
follows repeats it; one fault can come at any point of these. Pushes of callbacks are
bounded because callbacks that answer each other for ever would never let the clock move
on, in the code as well: two pushes are enough for one that goes back to a channel that was
already served.

Every property has a mutant in the modules: an operator next to the definition it mutates,
marked as such in its comment, with a plausible bug that makes the property fail.

**Fairness.** `OrderLifecycle`: every task that has begun gets its turn when it can run
(the event loop is first come first served and asyncio locks wake their waiters in order),
every request is answered or fails (the connector has timeouts), the open orders job runs
again and again (`AsyncJob`, `OrdersUpdater.__init__`), and an acknowledged cancel ends.
Nobody has to cancel and nothing has to be filled. `PollingChannel`: timers fire and
requests are answered, so a loop that can step does; nobody has to register, leave or
stop. `Backtesting`: the event loop runs its loop and the tasks of the callbacks; nobody
has to stop it or to come late. All of it is weak fairness.

**Deadlock.** Checked for the portfolio and the order, where the poll and new operations
always go on. Not for the channel, which may be stopped, nor for a backtesting and an automation, which
end.

## What is proved

With TLAPS, for every value of the constants that their assumptions allow.

* `SpotPortfolioProofs`, assuming `Funded` (edits and resets are funded): `TypeCorrect`,
  `NeverNegative`, `AlwaysReconciled`, `FillsSettle`, for any starting portfolio, also one
  that misses the currency an order spends. What they say of an overdrawn asset is what the
  code keeps of it: `NonNegative` speaks of the others, `Reconciled` is an equation while
  nothing was overdrawn and an inequality afterwards (nothing is ever released or available
  in excess), and `SettlesBothAssets` speaks of fills while nothing was overdrawn.
  `NonNegative` is not inductive: that a fill does not drive an amount below zero follows
  from what its lock took, and so from `Reconciled`. `Inv` therefore joins the types, non
  negativity, reconciliation, the bounds on the attributes of open orders (an edited price
  is the filled price) and that what is not listed is zero (`Unlisted`). A release of an
  asset that is not overdrawn never fails as the sum of the locks is at least the one that
  is released, which `PartialSumsProofs` provides with lemmas about sums.
  The fees forecast are taker fees, at least what is paid: hence `MakerRate <= TakerRate < Scale`.
* `PollingChannelProofs`, without assumptions but the bounds: `TypeCorrect`,
  `PauseAlwaysMatches`, `AlwaysPolled`. A resume that finds `is_running` set starts nothing,
  so the invariant says when the flag can be relied on: while it is set, either a loop has
  not begun yet (it will find the channel as it is by then), or the channel is not paused
  and some loop is alive (it cannot end while it is not). Every pause clears the flag,
  hence a channel that is not paused is running (`ResumedIsRunning`).
* `AutomationWorkflowProofs`, without assumptions but the bounds: `TypeCorrect`, `OneAtATime`,
  `NeverRepeated`, `LateOnly`, `SignalsCount`, `StoppedStays`. None of these is inductive: each
  says something of all workflows or of all times, while the code only ever looks at one.
  The invariant is about the last workflow of the chain. The others are closing or have
  ended (`Handover`), and one that is closing has its successor (`Successors`), so that a
  restart, which continues the last workflow that ended, is either the second to derive the
  identifier of the next one, and does nothing, or finds that nobody works (`Starts`). What
  was executed is then at most what the last workflow holds, in its state or in a result
  that is not recorded yet, plus what was dropped (`Counts`), which is where a crash, an error
  and an interrupted drain add (`Forgotten`, `UnrecordedCount`); `Consistent` says that a
  state never loses an action or a stop to the one it is replaced by. `SignalsCount` is
  about signals that await their result; `StoppedStays` says that only a restart takes a stop
  away, and that what is stopped hands over after a postponed message only.
* `AutomationPromiseProofs`, without assumptions but the bounds: `PromiseKept`, which is that
  `AutomationWorkflow` implements `AutomationPromise`, signals included. The invariant above
  says who works and bounds what is lost; the promise also needs what a state holds
  exactly. `Recalls` adds it: what a workflow falls back to is part of what it holds, and
  the result of an iteration adds to it what that iteration executed, unless it was
  postponed (`Faithful`), and a restart is built from a state that is not stopped
  (`RestartsRun`); `RecallsHold` is its invariance. There is one lemma per action that says
  which step of the promise it is (`AttemptPromised`, `RecordPromised`, `CrashPromised`, ...), or
  that the promise does not see it (`NotSeen`).
* `OrderLifecycleProofs`, for any number of tasks, attempts and failures: `TypeCorrect`,
  `SettledAtMostOnce`, `FilledIsTrue`; if cancels are effective when they are acknowledged
  (`~AsyncCancel`), `CanceledIsTrue` and `PromiseKept`, which is that `OrderLifecycle`
  implements `OrderPromise`; if canceled orders are saved as trades too, `NeverReincluded`.
  All assume `[]EnoughRefreshers`: `Refreshers` stands for tasks that the code creates
  without a limit, so one of them is free. In the runs it never fails: TLC would report
  the `CHOOSE` of `Spawn`. `Settlement` says why the portfolio is updated once: a task
  that updates it holds the portfolio lock until the order is closed, and the next to get
  the lock checks that it is not. `Fits` says why the trade is the right one: a cancel or a
  fill state is only created when the exchange told so (`StateFits`), what a task remembers
  or was told fits the states and the exchange whenever it goes on (`TaskFits`), and the
  status is never open again once the order has a second state, since an update of an
  order that is ending is refused if it says open (`AllowsNewStatus`). `Reached` is the same of the
  middle of a run, and there is one lemma per call that a run can end with
  (`TerminateReached`, `StartRefreshReached`, `OnCancelReached`, ...) and one per action.

* `BacktestingProofs`: `TypeCorrect`, `NothingIsLeftBehind`, `TasksInTime` and
  `PrioritiesRespected` for late consumers of any channel, and `WhitelistTriggered` if no
  timestamp of the clock falls into a gap of the whitelist (`Gapless`: where it does, the run
  `skipped_timestamp` shows the loss). `ConsumersAssumption` says that a consumer listens to
  the time from the start, which is how data enters a backtesting. `NothingLeftBehind`
  speaks of the moment the clock moves, and is not inductive: what is left behind depends
  on which levels the drain still has to visit. `Drained` follows it. A channel that is
  served at one level is served at all lower ones by a producer that is kept, and so are all
  the consumers that were there from the start (`ServesAll`, `ServedFrom`); levels are
  visited from the lowest number on, so the levels that are left are above the present one
  (`LevelsInOrder`); for who is served, the queues of the levels that were visited hold only
  what came after the visit (`LevelsBehind`); and while a listener of the time has its level
  ahead, no task of an earlier timestamp waits, as the drain yields to the event loop before
  it comes to that listener (`TasksBehind`, `ClockIsHeard`). A consumer that is stranded
  stays so (`MessagesStay`), and none is before the first jump (`ServedAtFirst`).
  `Covered` says that what is still to come of a whitelist is still in the
  queue of the time manager; its step is the recursion of `next_timestamp`, of which
  `JumpExists` and `JumpLands` say that it is defined and where it ends. Facts about the
  lists of consumers and producers, which the code filters all the time, are in
  `OnlyRange` and `ListOfSet`.

Only model-checked: the liveness properties `FilledIsClosed`, `CancelReturns`,
`CanceledIsClosed`, `FedWhileWatched`, `QuietWhenUnwatched`, `StopEndsPolling` and
`BacktestingEnds`, since fairness and `ENABLED` are out of the prover's reach. `SumTo`,
`Only` and the jump of `NextTimestamp` are recursive functions; facts about them are proved
by induction on naturals with the recursion unfolded step by step.

## Findings

Six disagreements between what the code says of itself and what it does, each shown by a
run and detailed in `PROJECT.json`:

1. `unfunded_edits`: an edit whose new funds are refused is half applied (`trader.py:332`).
2. `async_cancel`: an order filled while its cancel is verified is booked as canceled
   (`order_util.py:491`).
3. `cancel_during_refresh`: a cancel answered during a refresh is forgotten, the order stays
   open in the bot (`trader.py:663`).
4. `locking_cancel`: a refused cancel of a caller that holds the portfolio lock can wait
   forever (`trader.py:697`).
5. `polling_twice`: leaving and registering again within a refresh doubles the polling of
   the exchange (`order_book_updater.py:94`).
6. `skipped_timestamp`: a whitelist with a gap loses the timestamp after it
   (`time_manager.py:80`).

Three more defects are reached by passing runs, whose properties name them as their
exception, so that whatever else went wrong would be found:

* *Unchecked first debit* (`portfolio.py:232-235`). The first update of a currency that the
  portfolio does not list skips `_ensure_update_validity`. An order that spends such a
  currency opens with `available` negative and `total` 0; its fill credits the asset it
  receives, raises on the one it spends (`portfolio_manager.py:335` only logs it) and leaves
  the lock behind. Hence `overdrawn` in `NonNegative`, `Reconciled` and `SettlesBothAssets`.
* *A stop that is forgotten* (`automation_workflow.py:645`). A triggered iteration that both
  stops the automation and fails goes on to the messages that came meanwhile. When the last
  of these is postponed, its result says nothing of the stop, and the automation that was
  stopped schedules its next workflow without a restart.
  Hence `postponed` in `OnlyRestartsResume` and in `HandOver` of `AutomationPromise`.
* *An endless drain* (`channels_manager.py:99-105`). A consumer that joins a channel which
  has nobody of its level counts as work to do and is never served, so that the drain does
  not end. `docs/content/developers/packages/backtesting.md:45` describes a guard of 15
  seconds; the call of `wait_for` is commented out (`channels_manager.py:92-94`). Hence
  `Stranded` in `BacktestingEnds`, `NothingLeftBehind` and `HigherFirst`.

The conditions the passing runs and the theorems make are the complements of these:
`FundedEdits`, `AsyncCancel` false, whitelists without gaps, no caller that holds the portfolio
lock, and `FilledIsClosed` excepts an order that was taken for canceled.

## Limits

* Decimals are integers; rounding, precision and market limits are left out.
* `SpotPortfolio`: one pair; no partial fills, groups or chained orders. Resets and edits are
  funded in the theorems and the passing run (`Funded`).
* `OrderLifecycle`: one order that exists on the exchange from the start; the exchange finds
  it by its id; the updates come from the REST polling and not from a websocket; what other
  holders of the portfolio lock do is left out. With two cancels on an exchange that
  acknowledges first, an order can become a trade whose status is PENDING_CANCEL, which the
  closing trade lookup does not count: `NoReinclusion` is checked where cancels are
  effective at once and canceled orders are saved as trades.
* `PollingChannel`: one producer per channel, as every exchange channel has; a round of
  fetches is one step; consumers' queues and callbacks are left out.
* `AutomationWorkflow`: one automation. Creating, editing and deleting it, trading signals
  of copied accounts and the content of its graph are left out. What the code says of
  itself and the model takes into account: actions may be executed twice when a crash comes
  before their record (`automation_workflow.py:200-203`), which `dropped` counts; an error
  while messages are drained ends the workflow with the state of its first iteration. That
  user actions and iterations come to an end is not checked.
* `Backtesting`: the tasks of callbacks push in one step (`channels_manager.py:91` yields one
  cycle of the event loop: a coroutine that needs several may push at a later timestamp).
  Importers and data files are left out.
* Not modelled, with the reasons, in `PROJECT.json`: the components with that status.

--------------------------- MODULE OrderLifecycle ---------------------------
(***************************************************************************)
(* One open spot order of a real trader, from the asyncio tasks that       *)
(* cancel it, poll it and close it to the OrderState objects they replace. *)
(*                                                                         *)
(* A task runs alone until it awaits the exchange, a lock that is taken or *)
(* a timer; each action below is such a run.  The tasks are the callers of *)
(* Trader.cancel_order, the open orders updater, and the tasks created for *)
(* OrderState.on_refresh_successful.  The portfolio lock is also taken by  *)
(* code outside of this module, so a task can always be made to wait for   *)
(* it; what else those holders do is not modelled.                         *)
(*                                                                         *)
(* The order has no group and no chained order, is active, managed by the  *)
(* exchange and is not partially filled: an exchange update only ever      *)
(* changes its status, and the exchange finds an order by its id.          *)
(***************************************************************************)
EXTENDS Naturals, Sequences

CONSTANTS
  Cancellers,         \* callers of Trader.cancel_order, once each
  Locking,            \* those that hold the portfolio lock meanwhile
  Updater,            \* the task of the open orders job
  Refreshers,         \* the on_refresh_successful tasks that can exist at a time
  NoTask,
  AsyncCancel,        \* the exchange may acknowledge a cancel before it is effective
  SavesCanceled,      \* is_saving_cancelled_orders_as_trade
  MaxSynchronizationAttempts, \* of CancelOrderState and FillOrderState
  MaxFailures         \* bound: failed requests

Tasks == Cancellers \cup {Updater} \cup Refreshers

ASSUME TasksAssumption ==
  /\ Locking \subseteq Cancellers
  /\ Cancellers \cap Refreshers = {}
  /\ Updater \notin Cancellers \cup Refreshers
  /\ NoTask \notin Tasks
ASSUME BoundsAssumption ==
  /\ AsyncCancel \in BOOLEAN /\ SavesCanceled \in BOOLEAN
  /\ MaxSynchronizationAttempts \in Nat \ {0}
  /\ MaxFailures \in Nat

VARIABLES
  exchange,      \* the order on the exchange
  status,        \* Order.status
  states,        \* the OrderState objects created so far; Order.state is the last one
  outcome,       \* status of the trade the closed and cleared order became, or "NONE"
  orderLock,     \* Order.lock
  portfolioLock, \* Portfolio.lock, reentrant
  task,          \* where each task is, and its local variables
  ahead,         \* the tasks that may run once more before each ready refresher does
  settlements,   \* history: the portfolio updates made for the order
  reincluded,    \* history: an update of the closed order made it a new open order
  failures       \* history: failed requests

vars == <<exchange, status, states, outcome, orderLock, portfolioLock, task, ahead,
          settlements, reincluded, failures>>

Statuses == {"OPEN", "CLOSED", "FILLED", "PENDING_CANCEL", "CANCELED"}
Fill == {"CLOSED", "FILLED"}                  \* FILL_ORDER_STATUS_SCOPE
Cancel == {"PENDING_CANCEL", "CANCELED"}      \* CANCEL_ORDER_STATUS_SCOPE

Values == {"OPEN", "CANCELING", "CANCELED", "FILLED", "REFRESHING"}
State == [kind : {"open", "cancel", "fill"}, value : Values,
          attempts : 0 .. MaxSynchronizationAttempts, lock : Tasks \cup {NoTask}]
NewState(k, v) == [kind |-> k, value |-> v, attempts |-> 0, lock |-> NoTask]

\* Where a task awaits; "start", "idle" and "none" before it begins.
Pcs == {"start", "order lock", "request", "verify", "answered", "done",
        "refresh", "ask", "answer", "raw lock", "restore", "terminate", "settle",
        "settling", "idle", "listed", "none", "ready"}
Task == [pc : Pcs, state : Nat, was : Values \cup {"NONE"},
         reply : Statuses \cup {"NONE", "ABSENT", "REJECTED", "FAILED"}, retried : BOOLEAN]
At(pc) == [pc |-> pc, state |-> 0, was |-> "NONE", reply |-> "NONE", retried |-> FALSE]
Ended(t) == At(IF t \in Cancellers THEN "done" ELSE IF t = Updater THEN "idle" ELSE "none")

Init ==
  /\ exchange = "open" /\ status = "OPEN"
  /\ states = <<NewState("open", "OPEN")>>
  /\ outcome = "NONE"
  /\ orderLock = NoTask /\ portfolioLock = NoTask
  /\ task = [t \in Tasks |-> IF t \in Cancellers THEN At("start") ELSE Ended(t)]
  /\ ahead = [r \in Refreshers |-> {}]
  /\ settlements = 0 /\ reincluded = FALSE /\ failures = 0

-----------------------------------------------------------------------------
(* What a step makes of the order and the tasks: each operator is the rest *)
(* of the run of task t from the call it is named after, w the world then. *)

Here == [states |-> states, status |-> status, task |-> task]
closed == outcome # "NONE"
Current == states[Len(states)]
IsOpen == /\ ~closed
          /\ CASE Current.kind = "open"   -> Current.value = "OPEN"
               [] Current.kind = "cancel" -> Current.value # "CANCELED"
               [] Current.kind = "fill"   -> Current.value # "FILLED"
IsRefreshing == ~closed /\ Current.value = "REFRESHING"

End(t, w) == [w EXCEPT !.task[t] = Ended(t)]
AtState(t, pc, i, w) == [w EXCEPT !.task[t] = [@ EXCEPT !.pc = pc, !.state = i]]

\* A portfolio lock still held by a task that ends is released.
Becomes(t, w) ==
  /\ states' = w.states /\ status' = w.status /\ task' = w.task
  /\ portfolioLock' = IF portfolioLock = t /\ w.task[t] = Ended(t) THEN NoTask ELSE portfolioLock

Spawn(i, w) ==
  LET r == CHOOSE x \in Refreshers : w.task[x].pc = "none"
  IN  [w EXCEPT !.task[r] = [At("ready") EXCEPT !.state = i]]

Terminate(t, i, w) ==
  IF w.states[i].lock # NoTask THEN AtState(t, "terminate", i, w)
  ELSE IF closed THEN End(t, w)
  ELSE AtState(t, "settle", i,
         [w EXCEPT !.states[i].lock = t,
                   !.status = IF w.states[i].kind = "fill" THEN "FILLED" ELSE @])

\* Mutant: refresh_operation does not remember the state it replaces.
StartRefreshForgetful(t, i, w) ==
  IF w.states[i].value = "REFRESHING" THEN End(t, w)
  ELSE IF w.states[i].lock # NoTask THEN AtState(t, "refresh", i, w)
  ELSE AtState(t, "ask", i, [w EXCEPT !.states[i].value = "REFRESHING"])

StartRefresh(t, i, w) ==
  LET s == w.states[i]
      remembered == [w EXCEPT !.task[t].was = s.value]
  IN  IF s.value = "REFRESHING" THEN End(t, w)
      ELSE IF s.lock # NoTask THEN AtState(t, "refresh", i, remembered)
      ELSE AtState(t, "ask", i, [remembered EXCEPT !.states[i].value = "REFRESHING"])

Restore(t, i, w) ==
  IF w.states[i].lock # NoTask THEN AtState(t, "restore", i, w)
  ELSE End(t, [w EXCEPT !.states[i].value = IF @ = "REFRESHING" THEN w.task[t].was ELSE @])

OnFill(t, w) ==
  Terminate(t, Len(w.states) + 1, [w EXCEPT !.states = Append(@, NewState("fill", "FILLED"))])

OnCancel(t, w) ==
  LET new == Len(w.states) + 1
      replaced(v) == [w EXCEPT !.states = Append(@, NewState("cancel", v))]
  IN  IF closed THEN End(t, w)
      ELSE IF w.status = "CANCELED" THEN Terminate(t, new, replaced("CANCELED"))
      ELSE StartRefresh(t, new, replaced("CANCELING"))

OnFillIfOpen(t, w) == IF IsOpen /\ ~IsRefreshing THEN OnFill(t, w) ELSE End(t, w)

-----------------------------------------------------------------------------
(* Trader.cancel_order.                                                    *)

CancelOrder(c) ==
  /\ task[c].pc = "start"
  /\ c \in Locking => portfolioLock = NoTask
  /\ IF ~IsOpen THEN task' = [task EXCEPT ![c] = Ended(c)] /\ UNCHANGED <<orderLock, portfolioLock>>
     ELSE /\ task' = [task EXCEPT ![c].pc = IF orderLock = NoTask THEN "request" ELSE "order lock"]
          /\ orderLock' = IF orderLock = NoTask THEN c ELSE orderLock
          /\ portfolioLock' = IF c \in Locking THEN c ELSE portfolioLock
  /\ UNCHANGED <<exchange, status, states, outcome, settlements, reincluded, failures>>

TakeOrderLock(c) ==
  /\ task[c].pc = "order lock" /\ orderLock = NoTask
  /\ orderLock' = c
  /\ task' = [task EXCEPT ![c].pc = "request"]
  /\ UNCHANGED <<exchange, status, states, outcome, portfolioLock, settlements, reincluded, failures>>

\* The exchange answers the request, or fails to.
AcceptCancel(c) ==
  /\ task[c].pc = "request" /\ exchange \in {"open", "canceling"}
  /\ exchange' \in {"canceled"} \cup (IF AsyncCancel THEN {"canceling"} ELSE {})
  /\ task' = [task EXCEPT ![c].pc = "verify"]
  /\ UNCHANGED <<status, states, outcome, orderLock, portfolioLock, settlements, reincluded, failures>>

Reply(c, r) == task' = [task EXCEPT ![c] = [@ EXCEPT !.pc = "answered", !.reply = r]]

RefuseCancel(c) ==
  /\ task[c].pc = "request" /\ exchange \in {"filled", "canceled"}
  /\ Reply(c, "REJECTED")
  /\ UNCHANGED <<exchange, status, states, outcome, orderLock, portfolioLock,
                 settlements, reincluded, failures>>

FailCancel(c) ==
  /\ task[c].pc \in {"request", "verify"} /\ failures < MaxFailures
  /\ failures' = failures + 1
  /\ Reply(c, "FAILED")
  /\ UNCHANGED <<exchange, status, states, outcome, orderLock, portfolioLock,
                 settlements, reincluded>>

\* parse_is_cancelled holds for a closed order as well.
VerifyCancel(c) ==
  /\ task[c].pc = "verify"
  /\ Reply(c, IF exchange = "canceling" THEN "PENDING_CANCEL" ELSE "CANCELED")
  /\ UNCHANGED <<exchange, status, states, outcome, orderLock, portfolioLock,
                 settlements, reincluded, failures>>

RetryCancel(c) ==
  /\ task[c].pc = "answered" /\ task[c].reply \in {"REJECTED", "FAILED"} /\ ~task[c].retried
  /\ task' = [task EXCEPT ![c] = [At("request") EXCEPT !.retried = TRUE]]
  /\ UNCHANGED <<exchange, status, states, outcome, orderLock, portfolioLock,
                 settlements, reincluded, failures>>

CancelFailed(c) ==
  /\ task[c].pc = "answered" /\ task[c].reply = "FAILED" /\ task[c].retried
  /\ orderLock' = NoTask
  /\ Becomes(c, End(c, Here))
  /\ UNCHANGED <<exchange, outcome, settlements, reincluded, failures>>

\* Mutant: a refused cancel means that the order is canceled.
HandleOrderCancelErrorOptimistic(c) ==
  /\ task[c].pc = "answered" /\ task[c].reply = "REJECTED" /\ task[c].retried
  /\ orderLock' = NoTask
  /\ Becomes(c, OnCancel(c, [Here EXCEPT !.status = "CANCELED"]))
  /\ UNCHANGED <<exchange, outcome, settlements, reincluded, failures>>

\* Mutant: the order is synchronized inside of its lock.
HandleOrderCancelErrorLocked(c) ==
  /\ task[c].pc = "answered" /\ task[c].reply = "REJECTED" /\ task[c].retried
  /\ Becomes(c, IF closed THEN End(c, Here) ELSE StartRefresh(c, Len(states), Here))
  /\ UNCHANGED <<exchange, outcome, orderLock, settlements, reincluded, failures>>

HandleOrderCancelError(c) ==
  /\ task[c].pc = "answered" /\ task[c].reply = "REJECTED" /\ task[c].retried
  /\ orderLock' = NoTask
  /\ Becomes(c, IF closed THEN End(c, Here) ELSE StartRefresh(c, Len(states), Here))
  /\ UNCHANGED <<exchange, outcome, settlements, reincluded, failures>>

CancelAnswered(c) ==
  /\ task[c].pc = "answered" /\ task[c].reply \in Cancel
  /\ orderLock' = NoTask
  /\ LET answered == [Here EXCEPT !.status = task[c].reply]
     IN  Becomes(c, IF IsRefreshing THEN End(c, answered) ELSE OnCancel(c, answered))
  /\ UNCHANGED <<exchange, outcome, settlements, reincluded, failures>>

-----------------------------------------------------------------------------
(* State.synchronize: the state is REFRESHING while the exchange is asked. *)

TakeStateLock(t) ==
  LET i == task[t].state
  IN  /\ task[t].pc = "refresh" /\ states[i].lock = NoTask
      /\ Becomes(t, AtState(t, "ask", i, [Here EXCEPT !.states[i].value = "REFRESHING"]))
      /\ UNCHANGED <<exchange, outcome, orderLock, settlements, reincluded, failures>>

Raw == CASE exchange \in {"open", "canceling"} -> "OPEN"
         [] exchange = "filled" -> "CLOSED"
         [] exchange = "canceled" -> "CANCELED"

IsMaxSynchronizationAttemptsReached(i) ==
  states[i].kind # "open" /\ states[i].attempts = MaxSynchronizationAttempts

ForceFinalState(t) ==
  LET i == task[t].state
      final == IF states[i].kind = "fill" THEN "FILLED" ELSE "CANCELED"
  IN  /\ task[t].pc = "ask" /\ IsMaxSynchronizationAttemptsReached(i)
      /\ Becomes(t, Restore(t, i, Spawn(i, [Here EXCEPT !.states[i].value = final, !.status = final])))
      /\ UNCHANGED <<exchange, outcome, orderLock, settlements, reincluded, failures>>

SkipClosed(t) ==
  LET i == task[t].state
  IN  /\ task[t].pc = "ask" /\ ~IsMaxSynchronizationAttemptsReached(i) /\ closed
      /\ Becomes(t, Restore(t, i, Here))
      /\ UNCHANGED <<exchange, outcome, orderLock, settlements, reincluded, failures>>

\* Only states that have a maximum count their attempts here.
Attempted(i) ==
  [Here EXCEPT !.states[i].attempts = IF states[i].kind = "open" THEN @ ELSE @ + 1]

UpdateOrderFromExchange(t) ==
  LET i == task[t].state
  IN  /\ task[t].pc = "ask" /\ ~IsMaxSynchronizationAttemptsReached(i) /\ ~closed
      /\ Becomes(t, AtState(t, "answer", i, [Attempted(i) EXCEPT !.task[t].reply = Raw]))
      /\ UNCHANGED <<exchange, outcome, orderLock, settlements, reincluded, failures>>

UpdateFails(t) ==
  LET i == task[t].state
  IN  /\ task[t].pc = "ask" /\ ~IsMaxSynchronizationAttemptsReached(i) /\ ~closed
      /\ failures < MaxFailures /\ failures' = failures + 1
      /\ Becomes(t, Restore(t, i, Attempted(i)))
      /\ UNCHANGED <<exchange, outcome, orderLock, settlements, reincluded>>

\* The state a refresh was for is restored; the list of open orders is not for one.
AfterRaw(t, w) == IF task[t].state = 0 THEN End(t, w) ELSE Restore(t, task[t].state, w)

\* Mutant: only filled trades are looked up.
IsOutOfSyncOrderIfFilled == outcome \in Fill

IsOutOfSyncOrder == outcome \in Fill \/ (outcome = "CANCELED" /\ SavesCanceled)
AllowsNewStatus(s, raw) == s.kind = "open" \/ raw \in Fill \cup Cancel

UpdateFromRaw(t, raw) ==
  IF closed \/ raw = status \/ ~AllowsNewStatus(Current, raw) THEN AfterRaw(t, Here)
  ELSE AfterRaw(t, Spawn(Len(states), [Here EXCEPT !.status = raw]))

HandleOrderUpdateFromRaw(t) ==
  /\ task[t].pc = "answer" \/ (task[t].pc = "listed" /\ task[t].reply = "OPEN")
  /\ Becomes(t, IF ~closed /\ orderLock # NoTask THEN AtState(t, "raw lock", task[t].state, Here)
                ELSE UpdateFromRaw(t, task[t].reply))
  /\ reincluded' = (reincluded \/ (closed /\ ~IsOutOfSyncOrder))
  /\ UNCHANGED <<exchange, outcome, orderLock, settlements, failures>>

TakeOrderLockForRaw(t) ==
  /\ task[t].pc = "raw lock" /\ orderLock = NoTask
  /\ Becomes(t, UpdateFromRaw(t, task[t].reply))
  /\ UNCHANGED <<exchange, outcome, orderLock, settlements, reincluded, failures>>

RestoreState(t) ==
  /\ task[t].pc = "restore" /\ states[task[t].state].lock = NoTask
  /\ Becomes(t, Restore(t, task[t].state, Here))
  /\ UNCHANGED <<exchange, outcome, orderLock, settlements, reincluded, failures>>

-----------------------------------------------------------------------------
(* on_refresh_successful of each kind of state.                            *)

\* Mutant: whatever is not open anymore is filled.
OpenRefreshedFills(r, i) ==
  IF states[i].value # Current.value THEN End(r, Here)
  ELSE IF status = "OPEN" THEN End(r, [Here EXCEPT !.states[i].value = "OPEN"])
  ELSE OnFill(r, [Here EXCEPT !.status = "FILLED"])

OpenRefreshed(r, i) ==
  IF states[i].value # Current.value THEN End(r, Here)
  ELSE IF status = "OPEN" THEN End(r, [Here EXCEPT !.states[i].value = "OPEN"])
  ELSE IF status = "CLOSED" THEN OnFill(r, [Here EXCEPT !.status = "FILLED"])
  ELSE IF status = "FILLED" THEN OnFillIfOpen(r, Here)
  ELSE OnCancel(r, Here)

CancelRefreshed(r, i) ==
  CASE status = "CANCELED" -> Terminate(r, i, [Here EXCEPT !.states[i].value = "CANCELED"])
    [] status = "PENDING_CANCEL" ->
         (CASE states[i].value = "REFRESHING" -> End(r, Here)
            [] states[i].value = "CANCELING"  -> StartRefresh(r, i, Here)
            [] states[i].value = "CANCELED"   -> Terminate(r, i, Here))
    [] status \in Fill -> OnFillIfOpen(r, Here)
    [] status = "OPEN" -> End(r, Here)

FillRefreshed(r, i) ==
  CASE status \in Fill -> Terminate(r, i, [Here EXCEPT !.states[i].value = "FILLED"])
    [] status \in Cancel -> OnCancel(r, Here)
    [] status = "OPEN" -> End(r, Here)

OnRefreshSuccessful(r) ==
  LET i == task[r].state
  IN  /\ task[r].pc = "ready"
      /\ Becomes(r, IF closed THEN End(r, Here)
                    ELSE CASE states[i].kind = "open"   -> OpenRefreshed(r, i)
                           [] states[i].kind = "cancel" -> CancelRefreshed(r, i)
                           [] states[i].kind = "fill"   -> FillRefreshed(r, i))
      /\ UNCHANGED <<exchange, outcome, orderLock, settlements, reincluded, failures>>

-----------------------------------------------------------------------------
(* terminate of a final state: the portfolio, then the trade.              *)

TakeLockToTerminate(t) ==
  /\ task[t].pc = "terminate" /\ states[task[t].state].lock = NoTask
  /\ Becomes(t, Terminate(t, task[t].state, Here))
  /\ UNCHANGED <<exchange, outcome, orderLock, settlements, reincluded, failures>>

Unlocked(t, w) == [w EXCEPT !.states[task[t].state].lock = NoTask]

\* Mutant: the order is not checked again once the portfolio lock is taken.
UpdatePortfolioUnchecked(t) ==
  /\ task[t].pc = "settle" /\ portfolioLock \in {NoTask, t}
  /\ portfolioLock' = t
  /\ settlements' = settlements + 1
  /\ task' = [task EXCEPT ![t].pc = "settling"]
  /\ UNCHANGED <<exchange, status, states, outcome, orderLock, reincluded, failures>>

UpdatePortfolio(t) ==
  /\ task[t].pc = "settle" /\ portfolioLock \in {NoTask, t} /\ ~closed
  /\ portfolioLock' = t
  /\ settlements' = settlements + 1
  /\ task' = [task EXCEPT ![t].pc = "settling"]
  /\ UNCHANGED <<exchange, status, states, outcome, orderLock, reincluded, failures>>

EnsureNotCleared(t) ==
  /\ task[t].pc = "settle" /\ portfolioLock \in {NoTask, t} /\ closed
  /\ Becomes(t, End(t, Unlocked(t, Here)))
  /\ UNCHANGED <<exchange, outcome, orderLock, settlements, reincluded, failures>>

OnClose(t) ==
  /\ task[t].pc = "settling"
  /\ outcome' = status
  /\ Becomes(t, End(t, Unlocked(t, Here)))
  /\ UNCHANGED <<exchange, orderLock, settlements, reincluded, failures>>

-----------------------------------------------------------------------------
(* The open orders job, and the exchange.                                  *)

FetchOpenOrders ==
  /\ task[Updater].pc = "idle"
  /\ task' = [task EXCEPT ![Updater] =
                [At("listed") EXCEPT !.reply = IF Raw = "OPEN" THEN "OPEN" ELSE "ABSENT"]]
  /\ UNCHANGED <<exchange, status, states, outcome, orderLock, portfolioLock,
                 settlements, reincluded, failures>>

\* Mutant: orders being canceled are not looked for.
CheckMissingOpenOrdersIfOpen ==
  /\ task[Updater].pc = "listed" /\ task[Updater].reply = "ABSENT"
  /\ Becomes(Updater, IF ~closed /\ status = "OPEN"
                      THEN StartRefresh(Updater, Len(states), Here)
                      ELSE End(Updater, Here))
  /\ UNCHANGED <<exchange, outcome, orderLock, settlements, reincluded, failures>>

CheckMissingOpenOrders ==
  /\ task[Updater].pc = "listed" /\ task[Updater].reply = "ABSENT"
  /\ Becomes(Updater, IF ~closed /\ status \in {"OPEN", "PENDING_CANCEL"}
                      THEN StartRefresh(Updater, Len(states), Here)
                      ELSE End(Updater, Here))
  /\ UNCHANGED <<exchange, outcome, orderLock, settlements, reincluded, failures>>

ExchangeFills ==
  /\ exchange \in {"open", "canceling"}
  /\ exchange' = "filled"
  /\ UNCHANGED <<status, states, outcome, orderLock, portfolioLock, task,
                 settlements, reincluded, failures>>

ExchangeCancels ==
  /\ exchange \in {"open", "canceling"}
  /\ exchange' = "canceled"
  /\ UNCHANGED <<status, states, outcome, orderLock, portfolioLock, task,
                 settlements, reincluded, failures>>

-----------------------------------------------------------------------------
(* What runs next.  The event loop runs the tasks that are ready in the    *)
(* order they became so: a refresher just created may be preceded by the   *)
(* tasks that were ready before it, once each.                             *)

AtExchange(c) == AcceptCancel(c) \/ RefuseCancel(c) \/ FailCancel(c) \/ VerifyCancel(c)

CancelStep(c) ==
  \/ TakeOrderLock(c) \/ RetryCancel(c) \/ CancelFailed(c)
  \/ HandleOrderCancelError(c) \/ CancelAnswered(c)

StateStep(t) ==
  \/ TakeStateLock(t) \/ ForceFinalState(t) \/ SkipClosed(t) \/ UpdateOrderFromExchange(t)
  \/ UpdateFails(t) \/ HandleOrderUpdateFromRaw(t) \/ TakeOrderLockForRaw(t) \/ RestoreState(t)
  \/ TakeLockToTerminate(t) \/ UpdatePortfolio(t) \/ EnsureNotCleared(t) \/ OnClose(t)

Run(t) ==
  \/ t \in Cancellers /\ CancelStep(t)
  \/ t \in Refreshers /\ OnRefreshSuccessful(t)
  \/ t = Updater /\ (FetchOpenOrders \/ CheckMissingOpenOrders)
  \/ StateStep(t)

Ready(r) == task[r].pc = "ready"
Begins(t) == t \in Cancellers /\ CancelOrder(t)
Schedule(t) ==
  /\ \A r \in Refreshers \ {t} : Ready(r) => t \in ahead[r]
  /\ Begins(t) \/ Run(t)
  /\ ahead' = [r \in Refreshers |->
                 CASE ~Ready(r)' -> {}
                   [] Ready(r)' /\ Ready(r) ->
                        ahead[r] \ ({t} \cup {n \in Refreshers : Ready(n)' /\ ~Ready(n)})
                   [] Ready(r)' /\ ~Ready(r) ->
                        {n \in Tasks \ {t, r} : task[n].pc # "none"}]

Exchange ==
  /\ ExchangeFills \/ ExchangeCancels \/ \E c \in Cancellers : AtExchange(c)
  /\ UNCHANGED ahead

Next == (\E t \in Tasks : Schedule(t)) \/ Exchange

Spec == Init /\ [][Next]_vars

(***************************************************************************)
(* Every started task gets its turn, every request its answer, the open    *)
(* orders are fetched again and again and an acknowledged cancel ends up   *)
(* effective or beaten by a fill.  Nobody has to cancel, no order has to   *)
(* be filled.                                                              *)
(***************************************************************************)
Fairness ==
  /\ \A t \in Tasks : WF_vars(Schedule(t) /\ task[t].pc # "start")
  /\ \A c \in Cancellers : WF_vars(AtExchange(c) /\ UNCHANGED ahead)
  /\ WF_vars(exchange = "canceling" /\ ExchangeCancels /\ UNCHANGED ahead)

FairSpec == Spec /\ Fairness

-----------------------------------------------------------------------------
(* Each task, state and lock has the values the code gives it.             *)
TypeOK ==
  /\ exchange \in {"open", "canceling", "canceled", "filled"}
  /\ status \in Statuses
  /\ states \in Seq(State) /\ states # <<>>
  /\ outcome \in Statuses \cup {"NONE"}
  /\ orderLock \in Cancellers \cup {NoTask} /\ portfolioLock \in Tasks \cup {NoTask}
  /\ task \in [Tasks -> Task] /\ ahead \in [Refreshers -> SUBSET Tasks]
  /\ settlements \in Nat /\ reincluded \in BOOLEAN /\ failures \in 0 .. MaxFailures

(* However many tasks race to cancel, fill or resynchronize the order, its *)
(* effect on the portfolio is applied once: the order is checked again     *)
(* after each wait for the portfolio lock (fill_order_state.terminate,     *)
(* cancel_order_state.terminate).                                          *)
SettledOnce == settlements <= 1

(* An order only becomes a filled trade if the exchange did fill it: no    *)
(* cancel answer, forced final state or refresh of a former state makes    *)
(* one up.                                                                 *)
FilledMeansFilled == outcome \in Fill => exchange = "filled"

(* An order only becomes a canceled trade if the exchange canceled it.     *)
CanceledMeansCanceled == outcome = "CANCELED" => exchange = "canceled"

(* A late answer about a closed order never brings it back as a new open   *)
(* order (exchange_personal_data.handle_order_update_from_raw).            *)
NoReinclusion == ~reincluded

(* The tasks that race on the order, their locks and their retries keep    *)
(* together the promise made about it: it is settled once, only after it   *)
(* ended on the exchange, and then becomes the trade of that very end.     *)
Promise == INSTANCE OrderPromise WITH
  ending  <- IF exchange \in {"filled", "canceled"} THEN exchange ELSE "none",
  settled <- settlements = 1,
  trade   <- CASE outcome = "NONE" -> "none" [] outcome \in Fill -> "filled"
               [] outcome = "CANCELED" -> "canceled" [] OTHER -> outcome
KeepsPromise == Promise!Spec

(* An order filled on the exchange eventually becomes a trade whatever     *)
(* cancels, refreshes and failures were under way, unless the answer to a  *)
(* cancel request took it for canceled meanwhile.                          *)
FilledIsClosed == exchange = "filled" ~> (closed \/ status = "CANCELED")

(* An order canceled on the exchange eventually becomes a trade.           *)
CanceledIsClosed == exchange = "canceled" ~> closed

(* A call of cancel_order returns, even when it fails.                     *)
CancelReturns == \A c \in Cancellers : task[c].pc # "start" ~> task[c].pc = "done"
=============================================================================

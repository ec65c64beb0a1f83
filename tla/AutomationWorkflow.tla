------------------------- MODULE AutomationWorkflow -------------------------
(***************************************************************************)
(* One automation of a node: the chain of durable workflows that runs it,  *)
(* one per iteration, and the user action workflows that talk to it.       *)
(*                                                                         *)
(* The engine records the result of every operation of a workflow.  After  *)
(* a crash the workflow runs again from its first line with the recorded   *)
(* results, so its place is what is recorded (pc), and only an operation   *)
(* that had not been recorded is executed again.  Receiving a message and  *)
(* recording it is one transaction, and so is starting a workflow under an *)
(* identifier, which does nothing when there is one.                       *)
(*                                                                         *)
(* The actions of the automation's graph, which it executes when no        *)
(* message came, are one action here: it goes on, ends the graph, stops    *)
(* the automation, fails or is postponed.  Only user actions are counted.  *)
(***************************************************************************)
EXTENDS Naturals, Sequences, FiniteSets

CONSTANTS
  UserActions,
  Kinds,           \* what they may ask for; "unawaited" are signals without await_execution_result
  NoAction,        \* no message came before the execution time
  MaxAttempts,     \* AUTOMATION_WORKFLOW_MAX_ITERATION_RETRIES
  MaxIndex,        \* bound: workflows after the first one
  MaxFaults        \* bound: attempts that raise and crashes of the node

ASSUME ActionsAssumption ==
  /\ Kinds \subseteq {"stop", "signal", "unawaited", "forced", "restart"}
  /\ NoAction \notin UserActions
ASSUME BoundsAssumption ==
  /\ MaxAttempts \in Nat \ {0} /\ MaxIndex \in Nat /\ MaxFaults \in Nat

VARIABLES
  wf,          \* the workflows of the automation, by the index in their identifier
  ua,          \* the workflow of each user action
  executions,  \* history: how often each user action was executed
  dropped,     \* history: those executions that no recorded state remembers
  faults       \* history: attempts that raised and crashes

vars == <<wf, ua, executions, dropped, faults>>

Indexes == 0 .. MaxIndex

\* What an iteration leaves to the next one (task.content); stopped is stop_automation.
State == [done : SUBSET UserActions, stopped : BOOLEAN]
NewState == [done |-> {}, stopped |-> FALSE]

\* What an attempt of an iteration leads to (AutomationWorkflowIterationResult).
Result == [state : State, executed : BOOLEAN, error : BOOLEAN, postponed : BOOLEAN, next : BOOLEAN]
Outcome(s, x, e, p, n) == [state |-> s, executed |-> x, error |-> e, postponed |-> p, next |-> n]
NoResult == Outcome(NewState, FALSE, FALSE, FALSE, FALSE)

Message == [action : UserActions, late : BOOLEAN]
Workflow == [pc : {"none", "wait", "iterate", "executed", "drain", "schedule", "closing",
                   "ended"},
             mail : Seq(Message), action : UserActions \cup {NoAction}, draining : BOOLEAN,
             attempts : 0 .. MaxAttempts, input : State, state : State, known : State,
             postponed : BOOLEAN, result : Result]
NewWorkflow(pc, s) ==
  [pc |-> pc, mail |-> <<>>, action |-> NoAction, draining |-> FALSE, attempts |-> 0,
   input |-> s, state |-> s, known |-> s, postponed |-> FALSE, result |-> NoResult]

UserAction == [kind : Kinds, pc : {"dispatch", "send", "sent", "await", "checked", "built", "done"},
               target : Nat, state : State, reply : {"none", "ok", "failed"},
               status : {"none", "completed", "failed"}]

NewUserAction(k) == [kind |-> k, pc |-> "dispatch", target |-> 0, state |-> NewState, reply |-> "none",
                  status |-> "none"]

Init ==
  /\ wf = [i \in Indexes |-> NewWorkflow(IF i = 0 THEN "wait" ELSE "none", NewState)]
  /\ ua \in [UserActions -> {NewUserAction(k) : k \in Kinds}]
  /\ executions = [u \in UserActions |-> 0] /\ dropped = [u \in UserActions |-> 0]
  /\ faults = 0

-----------------------------------------------------------------------------
(* Waiting for a priority action, or for the execution time.               *)

Active(i) == wf[i].pc \notin {"none", "ended"}
LastLook(i) == wf[i].pc \in {"schedule", "closing"}

Take(i, a, rest) ==
  [wf[i] EXCEPT !.pc = "iterate", !.action = a, !.mail = rest, !.attempts = 0, !.postponed = FALSE]

Receive(i) ==
  /\ wf[i].pc = "wait" /\ wf[i].mail # <<>>
  /\ wf' = [wf EXCEPT ![i] = Take(i, Head(@.mail).action, Tail(@.mail))]
  /\ UNCHANGED <<ua, executions, dropped, faults>>

ExecutionTime(i) ==
  /\ wf[i].pc = "wait" /\ wf[i].mail = <<>>
  /\ wf' = [wf EXCEPT ![i] = Take(i, NoAction, <<>>)]
  /\ UNCHANGED <<ua, executions, dropped, faults>>

-----------------------------------------------------------------------------
(* The step execute_iteration: an attempt, then the record of its result.  *)

IsPriority(a) == a # NoAction /\ ua[a].kind \in {"stop", "signal", "unawaited"}

\* Mutant: an action that is already completed in the state is executed again.
PriorityOutcomesRepeated(a, s) ==
  LET after == [s EXCEPT !.done = @ \cup {a}]
  IN  {Outcome([after EXCEPT !.stopped = @ \/ ua[a].kind = "stop"], TRUE, FALSE, FALSE, n) :
         n \in BOOLEAN}

\* There are no next actions when the graph is completed, or when what is pending in it
\* depends on an action that failed.
PriorityOutcomes(a, s) ==
  LET after == [s EXCEPT !.done = @ \cup {a}]
      postponed(x) == Outcome(s, x, TRUE, TRUE, TRUE)
  IN  IF a \in s.done THEN {postponed(FALSE)}
      ELSE {Outcome([after EXCEPT !.stopped = @ \/ ua[a].kind = "stop"], TRUE, FALSE, FALSE, n) :
              n \in BOOLEAN}
             \cup {Outcome(after, TRUE, TRUE, FALSE, n) : n \in BOOLEAN}
             \cup {postponed(FALSE), postponed(TRUE)}

GraphOutcomes(s) ==
  {Outcome(s, FALSE, TRUE, TRUE, TRUE)}
    \cup {Outcome([s EXCEPT !.stopped = @ \/ x.stop], FALSE, x.error, FALSE, x.next) :
            x \in [stop : BOOLEAN, error : BOOLEAN, next : BOOLEAN]}

Outcomes(a, s) == IF IsPriority(a) THEN PriorityOutcomes(a, s) ELSE GraphOutcomes(s)

Count(f, a, n) == IF n THEN [f EXCEPT ![a] = @ + 1] ELSE f

\* Only such a signal awaits the result of its execution; its first answer counts.
Answer(a, r) ==
  IF a # NoAction /\ ua[a].kind = "signal" /\ ua[a].pc # "done" /\ ua[a].reply = "none"
  THEN [ua EXCEPT ![a].reply = r] ELSE ua

\* Mutant: the error of a postponed iteration is not part of the answer.
AttemptUnanswered(i) ==
  /\ wf[i].pc = "iterate"
  /\ \E o \in Outcomes(wf[i].action, wf[i].state) :
       /\ wf' = [wf EXCEPT ![i].pc = "executed", ![i].result = o]
       /\ executions' = Count(executions, wf[i].action, o.executed)
       /\ ua' = Answer(wf[i].action, IF o.error /\ ~o.postponed THEN "failed" ELSE "ok")
  /\ UNCHANGED <<dropped, faults>>

Attempt(i) ==
  /\ wf[i].pc = "iterate"
  /\ \E o \in Outcomes(wf[i].action, wf[i].state) :
       /\ wf' = [wf EXCEPT ![i].pc = "executed", ![i].result = o]
       /\ executions' = Count(executions, wf[i].action, o.executed)
       /\ ua' = Answer(wf[i].action, IF o.error THEN "failed" ELSE "ok")
  /\ UNCHANGED <<dropped, faults>>

\* The workflow ends with the state that execute_automation has, which is the
\* one of its first iteration; the message it answers is the first one too.
Ended(s) == NewWorkflow("ended", s)
Interrupted(w) == Ended(w.known)
Forget(f, w) == [u \in UserActions |-> f[u] + IF u \in w.state.done \ w.known.done THEN 1 ELSE 0]

AttemptRaises(i) ==
  LET w == wf[i]
      a == w.action
  IN  /\ w.pc = "iterate" /\ faults < MaxFaults
      /\ faults' = faults + 1
      /\ \E x \in {FALSE} \cup (IF IsPriority(a) /\ a \notin w.state.done THEN {TRUE} ELSE {}),
            retried \in BOOLEAN :
           /\ retried => w.attempts + 1 < MaxAttempts
           /\ executions' = Count(executions, a, x)
           /\ IF retried
              THEN /\ wf' = [wf EXCEPT ![i].attempts = @ + 1]
                   /\ dropped' = Count(dropped, a, x)
                   /\ UNCHANGED ua
              ELSE /\ wf' = [wf EXCEPT ![i] = Interrupted(@)]
                   /\ dropped' = Forget(Count(dropped, a, x), w)
                   /\ ua' = IF w.draining THEN ua ELSE Answer(a, "failed")

ShouldContinue(w, o) ==
  \/ o.postponed
  \/ IF o.error THEN ~w.draining /\ w.action # NoAction ELSE ~o.state.stopped

Recorded(w) ==
  LET o == w.result
      kept == [w EXCEPT !.state = o.state, !.known = IF w.draining THEN @ ELSE o.state,
                        !.postponed = o.postponed, !.result = NoResult, !.action = NoAction,
                        !.attempts = 0]
  IN  IF ~ShouldContinue(w, o) THEN Ended(o.state)
      ELSE IF o.next THEN [kept EXCEPT !.pc = "drain"]
      ELSE IF w.draining THEN Interrupted(kept)
      ELSE Ended(o.state)

Record(i) ==
  LET w == wf[i]
      kept == [w EXCEPT !.state = w.result.state]
  IN  /\ w.pc = "executed"
      /\ wf' = [wf EXCEPT ![i] = Recorded(@)]
      /\ dropped' =
           IF w.result.postponed THEN Count(dropped, w.action, w.result.executed)
           ELSE IF w.draining /\ ShouldContinue(w, w.result) /\ ~w.result.next
           THEN Forget(dropped, kept)
           ELSE dropped
      /\ UNCHANGED <<ua, executions, faults>>

-----------------------------------------------------------------------------
(* The messages that came meanwhile, and the next iteration.               *)

IsForced(w) == ua[Head(w.mail).action].kind = "forced"

IgnoreForced(i) ==
  /\ wf[i].pc = "drain" /\ wf[i].mail # <<>> /\ IsForced(wf[i])
  /\ wf' = [wf EXCEPT ![i].mail = Tail(@)]
  /\ UNCHANGED <<ua, executions, dropped, faults>>

ReceiveExtra(i) ==
  /\ wf[i].pc = "drain" /\ wf[i].mail # <<>> /\ ~IsForced(wf[i])
  /\ wf' = [wf EXCEPT ![i] = [Take(i, Head(@.mail).action, Tail(@.mail)) EXCEPT !.draining = TRUE]]
  /\ UNCHANGED <<ua, executions, dropped, faults>>

\* should_stop of the latest iteration result, which a postponed iteration leaves FALSE
\* whatever its state says.
ShouldStop(w) == w.state.stopped /\ ~w.postponed

\* Mutant: the messages are looked at once.
NothingLeftOnce(i) ==
  /\ wf[i].pc = "drain" /\ (wf[i].mail = <<>> \/ wf[i].draining)
  /\ wf' = [wf EXCEPT ![i] = IF ShouldStop(@) THEN Ended(@.state) ELSE [@ EXCEPT !.pc = "schedule"]]
  /\ UNCHANGED <<ua, executions, dropped, faults>>

\* Mutant: the stop of an iteration that also failed is not looked at.
NothingLeftUnstopped(i) ==
  /\ wf[i].pc = "drain" /\ wf[i].mail = <<>>
  /\ wf' = [wf EXCEPT ![i].pc = "schedule"]
  /\ UNCHANGED <<ua, executions, dropped, faults>>

NothingLeft(i) ==
  /\ wf[i].pc = "drain" /\ wf[i].mail = <<>>
  /\ wf' = [wf EXCEPT ![i] = IF ShouldStop(@) THEN Ended(@.state) ELSE [@ EXCEPT !.pc = "schedule"]]
  /\ UNCHANGED <<ua, executions, dropped, faults>>

\* Mutant: a workflow that exists is started again.
EnqueuedAgain(j, s) == NewWorkflow("wait", s)

Enqueued(j, s) == IF wf[j].pc = "none" THEN NewWorkflow("wait", s) ELSE wf[j]

\* Mutant: a workflow that scheduled the next one goes on waiting for messages.
ScheduleNextAndWait(i) ==
  /\ wf[i].pc = "schedule" /\ i < MaxIndex
  /\ wf' = [wf EXCEPT ![i].pc = "wait", ![i + 1] = Enqueued(i + 1, wf[i].state)]
  /\ UNCHANGED <<ua, executions, dropped, faults>>

ScheduleNext(i) ==
  /\ wf[i].pc = "schedule" /\ i < MaxIndex
  /\ wf' = [wf EXCEPT ![i].pc = "closing", ![i + 1] = Enqueued(i + 1, wf[i].state)]
  /\ UNCHANGED <<ua, executions, dropped, faults>>

\* A workflow that rescheduled has no output: its content is its input.
Close(i) ==
  /\ wf[i].pc = "closing"
  /\ wf' = [wf EXCEPT ![i] = Ended(@.input)]
  /\ UNCHANGED <<ua, executions, dropped, faults>>

-----------------------------------------------------------------------------
(* The workflow of a user action: the step dispatch_user_action, then for  *)
(* a signal the result it awaits, for a restart the task it creates.       *)

Sends(u) == ua[u].kind # "restart"
Moves(u, pc) == ua' = [ua EXCEPT ![u].pc = pc]
Finishes(u, s) == ua' = [ua EXCEPT ![u] = [NewUserAction(@.kind) EXCEPT !.pc = "done", !.status = s]]

\* The latest of the workflows that have not ended.
Resolve(u) ==
  /\ ua[u].pc = "dispatch" /\ Sends(u)
  /\ \E i \in Indexes :
       /\ Active(i) /\ \A j \in Indexes : Active(j) => j <= i
       /\ ua' = [ua EXCEPT ![u].pc = "send", ![u].target = i]
  /\ UNCHANGED <<wf, executions, dropped, faults>>

NotFound(u) ==
  /\ ua[u].pc = "dispatch" /\ Sends(u) /\ \A i \in Indexes : ~Active(i)
  /\ Finishes(u, "failed")
  /\ UNCHANGED <<wf, executions, dropped, faults>>

Send(u) ==
  LET i == ua[u].target
  IN  /\ ua[u].pc = "send"
      /\ ua' = [ua EXCEPT ![u].pc = "sent", ![u].target = 0]
      /\ wf' = IF wf[i].pc = "ended" THEN wf
               ELSE [wf EXCEPT ![i].mail = Append(@, [action |-> u, late |-> LastLook(i)])]
      /\ UNCHANGED <<executions, dropped, faults>>

RecordSent(u) ==
  /\ ua[u].pc = "sent"
  /\ IF ua[u].kind = "signal" THEN Moves(u, "await") ELSE Finishes(u, "completed")
  /\ UNCHANGED <<wf, executions, dropped, faults>>

\* Mutant: the result of the execution is taken for a status.
ReceiveResultRaw(u) ==
  /\ ua[u].pc = "await" /\ ua[u].reply # "none"
  /\ Finishes(u, ua[u].reply)
  /\ UNCHANGED <<wf, executions, dropped, faults>>

ReceiveResult(u) ==
  /\ ua[u].pc = "await" /\ ua[u].reply # "none"
  /\ Finishes(u, IF ua[u].reply = "ok" THEN "completed" ELSE "failed")
  /\ UNCHANGED <<wf, executions, dropped, faults>>

ResultTimeout(u) ==
  /\ ua[u].pc = "await" /\ ua[u].reply = "none"
  /\ Finishes(u, "failed")
  /\ UNCHANGED <<wf, executions, dropped, faults>>

AssertNotRunning(u) ==
  /\ ua[u].pc = "dispatch" /\ ~Sends(u)
  /\ IF \E i \in Indexes : Active(i) THEN Finishes(u, "failed") ELSE Moves(u, "checked")
  /\ UNCHANGED <<wf, executions, dropped, faults>>

\* The latest workflow that ended; the task is created once this is recorded.
BuildRestart(u) ==
  /\ ua[u].pc = "checked"
  /\ \E n \in Indexes :
       /\ wf[n].pc = "ended" /\ \A j \in Indexes : wf[j].pc = "ended" => j <= n
       /\ ua' = [ua EXCEPT ![u] = [@ EXCEPT !.pc = "built", !.target = n + 1,
                                            !.state = [wf[n].known EXCEPT !.stopped = FALSE]]]
  /\ UNCHANGED <<wf, executions, dropped, faults>>

CreateTask(u) ==
  LET n == ua[u].target
  IN  /\ ua[u].pc = "built" /\ n <= MaxIndex
      /\ wf' = [wf EXCEPT ![n] = Enqueued(n, ua[u].state)]
      /\ Finishes(u, "completed")
      /\ UNCHANGED <<executions, dropped, faults>>

-----------------------------------------------------------------------------
(* The node stops anywhere and starts again: what was not recorded is lost,*)
(* what it did outside of the record, messages included, is not.           *)

Crash ==
  /\ faults < MaxFaults /\ faults' = faults + 1
  /\ wf' = [i \in Indexes |->
              IF wf[i].pc \in {"iterate", "executed"}
              THEN [wf[i] EXCEPT !.pc = "iterate", !.attempts = 0, !.result = NoResult]
              ELSE wf[i]]
  /\ ua' = [u \in UserActions |->
              IF ua[u].pc \in {"send", "sent", "checked"}
              THEN [ua[u] EXCEPT !.pc = "dispatch", !.target = 0] ELSE ua[u]]
  /\ dropped' = [u \in UserActions |->
                   dropped[u] + Cardinality({i \in Indexes : /\ wf[i].pc = "executed"
                                                             /\ wf[i].action = u
                                                             /\ wf[i].result.executed})]
  /\ UNCHANGED executions

Iterates(i) ==
  \/ Receive(i) \/ ExecutionTime(i) \/ Attempt(i) \/ Record(i)
  \/ IgnoreForced(i) \/ ReceiveExtra(i) \/ NothingLeft(i) \/ ScheduleNext(i) \/ Close(i)

Acts(u) ==
  \/ Resolve(u) \/ NotFound(u) \/ Send(u) \/ RecordSent(u) \/ ReceiveResult(u)
  \/ ResultTimeout(u) \/ AssertNotRunning(u) \/ BuildRestart(u) \/ CreateTask(u)

Next ==
  \/ \E i \in Indexes : Iterates(i) \/ AttemptRaises(i)
  \/ \E u \in UserActions : Acts(u)
  \/ Crash

Spec == Init /\ [][Next]_vars

-----------------------------------------------------------------------------
TypeOK ==
  /\ wf \in [Indexes -> Workflow] /\ ua \in [UserActions -> UserAction]
  /\ executions \in [UserActions -> Nat] /\ dropped \in [UserActions -> Nat]
  /\ faults \in 0 .. MaxFaults

(* Whatever is delivered twice, retried or restarted, a user action is     *)
(* executed again only if no recorded state remembers that it was: the     *)
(* identifiers of the completed actions travel with the state from one     *)
(* iteration to the next (automation_job._prepare_added_priority_actions). *)
RepeatedOnlyIfLost == \A u \in UserActions : executions[u] <= 1 + dropped[u]

(* Reschedules and restarts that race never make two workflows of one      *)
(* automation work: all derive the same identifier for the next one.       *)
OneWorkflowWorks ==
  \A i, j \in Indexes :
    wf[i].pc \notin {"none", "closing", "ended"} /\ wf[j].pc \notin {"none", "closing", "ended"}
      => i = j

(* A workflow that hands over to the next one leaves no message behind     *)
(* that it could have seen: those that remain were sent after its last     *)
(* look, to a workflow that was then the active one.                       *)
OnlyLateMessagesLost ==
  \A i \in Indexes : wf[i].pc \in {"schedule", "closing"} =>
    \A n \in DOMAIN wf[i].mail : wf[i].mail[n].late

(* A signal that awaits its result and is reported as completed was        *)
(* executed, and the state remembers it unless the node crashed or the     *)
(* workflow was interrupted before it was recorded.  One that awaits none  *)
(* is completed when it is sent.                                           *)
CompletedSignalsCount ==
  \A u \in UserActions : ua[u].kind = "signal" /\ ua[u].status = "completed" =>
    \/ dropped[u] > 0
    \/ \E i \in Indexes : u \in wf[i].state.done \/ (wf[i].action = u /\ wf[i].result.executed)

\* Workflows are started one after the other.
LastIndex == Cardinality({i \in Indexes : wf[i].pc # "none"}) - 1
Last == wf[LastIndex].state

(* Whatever messages and errors came with its stop, only a restart takes   *)
(* the stop from an automation, and it only schedules another iteration    *)
(* if the latest message that it drained was postponed: the decision to go *)
(* on looks for the stop in the result of that iteration, which has none   *)
(* (_process_pending_priority_actions_and_reschedule).                     *)
OnlyRestartsResume ==
  [][Last.stopped =>
       /\ Last'.stopped \/ \E u \in UserActions : CreateTask(u)
       /\ \A i \in Indexes : ScheduleNext(i) => wf[i].postponed]_vars

\* An execution whose result is not recorded yet.
InFlight(w) == IF w.pc = "executed" /\ w.result.executed THEN {w.action} ELSE {}

\* One automation, seen through the last workflow of its chain.
Promise == INSTANCE AutomationPromise WITH
  iteration <- LastIndex, working <- wf[LastIndex].pc # "ended",
  stopped <- Last.stopped, postponed <- wf[LastIndex].postponed, done <- Last.done,
  pending <- InFlight(wf[LastIndex]),
  executed <- executions, lost <- dropped

(* However workflows reschedule, restart, fail and crash, their chain is   *)
(* one automation that executes, remembers, loses, ends and resumes as     *)
(* AutomationPromise says.                                                 *)
KeepsPromise == Promise!Spec
=============================================================================

---------------------- MODULE AutomationPromiseProofs ----------------------
(***************************************************************************)
(* AutomationWorkflow implements AutomationPromise, for any number of user *)
(* actions, workflows, attempts and faults.  The invariant says who works; *)
(* the promise is also about what a state holds: exactly what was          *)
(* remembered before and what the iteration executed (Faithful), nothing   *)
(* less than what an interruption falls back to.                           *)
(***************************************************************************)
EXTENDS AutomationWorkflowProofs

\* What a workflow falls back to is part of what it holds, and the result of an
\* iteration adds to it what that iteration executed.
Faithful(w) ==
  /\ w.known.done \subseteq w.state.done /\ (w.known.stopped => w.state.stopped)
  /\ w.pc = "executed" =>
       w.result.state.done =
         w.state.done \cup (IF w.result.executed /\ ~w.result.postponed THEN {w.action} ELSE {})

\* A restart was asked for to run again.
RestartsRun == \A u \in UserActions : ua[u].pc = "built" => ~ua[u].state.stopped

Recalls == (\A i \in Indexes : Faithful(wf[i])) /\ RestartsRun
-----------------------------------------------------------------------------
LEMMA NewIsFaithful ==
  ASSUME NEW pc, NEW s, pc # "executed"
  PROVE  Faithful(NewWorkflow(pc, s))
BY DEF NewWorkflow, Faithful

LEMMA EndedIsFaithful ==
  ASSUME NEW s
  PROVE  Faithful(Ended(s)) /\ Ended(s).pc = "ended" /\ Ended(s).state = s
BY NewIsFaithful DEF Ended, NewWorkflow

(* A workflow that keeps what it holds.                                    *)
LEMMA FaithfulStays ==
  ASSUME NEW v, NEW w, Faithful(v), w.known = v.known, w.state = v.state,
         w.pc # "executed" \/ /\ v.pc = "executed" /\ w.result = v.result /\ w.action = v.action
  PROVE  Faithful(w)
BY DEF Faithful

LEMMA WorkflowMoves ==
  ASSUME Inv, Recalls, NEW i \in Indexes, NEW w, wf' = [wf EXCEPT ![i] = w], Faithful(w),
         \A u \in UserActions : ua'[u].pc = "built" => ua[u].pc = "built" /\ ua'[u].state = ua[u].state
  PROVE  Recalls'
<1>1. \A j \in Indexes : wf'[j] = IF j = i THEN w ELSE wf[j]
  BY Parts
<1>. QED
  BY <1>1 DEF Recalls, RestartsRun

(* Only what is executed and not postponed is added to what is done.       *)
LEMMA OutcomeDone ==
  ASSUME NEW a \in UserActions \cup {NoAction}, NEW s \in State, NEW o \in Outcomes(a, s)
  PROVE  o.state.done = s.done \cup (IF o.executed /\ ~o.postponed THEN {a} ELSE {})
<1>1. CASE IsPriority(a)
  <2>1. a \in UserActions
    BY <1>1 DEF IsPriority
  <2>. DEFINE after == [s EXCEPT !.done = @ \cup {a}]
              stop == [after EXCEPT !.stopped = @ \/ ua[a].kind = "stop"]
  <2>2. after \in State /\ after.done = s.done \cup {a}
    BY <2>1 DEF State
  <2>3. stop.done = after.done
    <3>. HIDE DEF after
    <3>. QED
      BY <2>2 DEF State
  <2>. HIDE DEF after, stop
  <2>4. \/ o = Outcome(s, FALSE, TRUE, TRUE, TRUE) \/ o = Outcome(s, TRUE, TRUE, TRUE, TRUE)
        \/ \E n \in BOOLEAN : \/ o = Outcome(stop, TRUE, FALSE, FALSE, n)
                              \/ o = Outcome(after, TRUE, TRUE, FALSE, n)
    BY <1>1 DEF Outcomes, PriorityOutcomes, after, stop
  <2>. QED
    BY <2>2, <2>3, <2>4 DEF Outcome
<1>2. CASE ~IsPriority(a)
  <2>1. CASE o = Outcome(s, FALSE, TRUE, TRUE, TRUE)
    BY <2>1 DEF Outcome
  <2>2. CASE o # Outcome(s, FALSE, TRUE, TRUE, TRUE)
    <3>1. PICK x \in [stop : BOOLEAN, error : BOOLEAN, next : BOOLEAN] :
            o = Outcome([s EXCEPT !.stopped = @ \/ x.stop], FALSE, x.error, FALSE, x.next)
      BY <2>2, <1>2 DEF Outcomes, GraphOutcomes
    <3>. DEFINE t == [s EXCEPT !.stopped = @ \/ x.stop]
    <3>2. t.done = s.done
      BY DEF State
    <3>. HIDE DEF t
    <3>3. o = Outcome(t, FALSE, x.error, FALSE, x.next)
      BY <3>1 DEF t
    <3>. QED
      BY <3>2, <3>3 DEF Outcome
  <2>. QED
    BY <2>1, <2>2
<1>. QED
  BY <1>1, <1>2
-----------------------------------------------------------------------------
(* Every step keeps it.                                                    *)
LEMMA LooksRecall ==
  ASSUME Inv, Recalls, NEW i \in Indexes,
         Receive(i) \/ ExecutionTime(i) \/ IgnoreForced(i) \/ ReceiveExtra(i) \/ NothingLeft(i)
  PROVE  Recalls'
<1>1. wf[i] \in Workflow /\ Faithful(wf[i])
  BY Parts DEF Recalls
<1>2. \A a, rest : /\ Take(i, a, rest).pc = "iterate" /\ Take(i, a, rest).known = wf[i].known
                   /\ Take(i, a, rest).state = wf[i].state /\ Faithful(Take(i, a, rest))
  <2>. SUFFICES ASSUME NEW a, NEW rest
                PROVE  /\ Take(i, a, rest).pc = "iterate" /\ Take(i, a, rest).known = wf[i].known
                       /\ Take(i, a, rest).state = wf[i].state /\ Faithful(Take(i, a, rest))
    OBVIOUS
  <2>1. /\ Take(i, a, rest).pc = "iterate" /\ Take(i, a, rest).known = wf[i].known
        /\ Take(i, a, rest).state = wf[i].state
    BY <1>1 DEF Take, Workflow
  <2>. QED
    BY <1>1, <2>1, FaithfulStays
<1>3. CASE Receive(i) \/ ExecutionTime(i)
  <2>1. PICK a, rest : wf' = [wf EXCEPT ![i] = Take(i, a, rest)] /\ ua' = ua
    BY <1>3, Parts DEF Receive, ExecutionTime
  <2>. QED
    BY <1>2, <2>1, WorkflowMoves
<1>4. CASE IgnoreForced(i)
  <2>. DEFINE w == [wf[i] EXCEPT !.mail = Tail(@)]
  <2>1. w.pc = wf[i].pc /\ w.state = wf[i].state /\ w.known = wf[i].known
    BY <1>1 DEF Workflow
  <2>2. wf' = [wf EXCEPT ![i] = w] /\ wf[i].pc = "drain" /\ ua' = ua
    BY <1>4, Parts DEF IgnoreForced
  <2>. HIDE DEF w
  <2>3. Faithful(w)
    BY <1>1, <2>1, <2>2, FaithfulStays
  <2>. QED
    BY <2>2, <2>3, WorkflowMoves
<1>5. CASE ReceiveExtra(i)
  <2>. DEFINE t == Take(i, Head(wf[i].mail).action, Tail(wf[i].mail))
              w == [t EXCEPT !.draining = TRUE]
  <2>1. Head(wf[i].mail).action \in UserActions \cup {NoAction} /\ Tail(wf[i].mail) \in Seq(Message)
    BY <1>5, FirstMessage DEF ReceiveExtra
  <2>2. t \in Workflow /\ t.pc = "iterate" /\ t.state = wf[i].state /\ t.known = wf[i].known
    BY <2>1, <1>2, Taken
  <2>3. wf' = [wf EXCEPT ![i] = w] /\ ua' = ua
    BY <1>5, Parts DEF ReceiveExtra
  <2>. HIDE DEF t
  <2>4. w.pc = "iterate" /\ w.state = wf[i].state /\ w.known = wf[i].known
    BY <2>2 DEF Workflow
  <2>. HIDE DEF w
  <2>5. Faithful(w)
    BY <1>1, <2>4, FaithfulStays
  <2>. QED
    BY <2>3, <2>5, WorkflowMoves
<1>6. CASE NothingLeft(i)
  <2>. DEFINE t == [wf[i] EXCEPT !.pc = "schedule"]
              w == IF ShouldStop(wf[i]) THEN Ended(wf[i].state) ELSE t
  <2>1. t.pc = "schedule" /\ t.state = wf[i].state /\ t.known = wf[i].known
    BY <1>1 DEF Workflow
  <2>. HIDE DEF t
  <2>2. Faithful(w)
    BY <1>1, <2>1, FaithfulStays, EndedIsFaithful
  <2>. HIDE DEF w
  <2>3. wf' = [wf EXCEPT ![i] = w] /\ ua' = ua
    BY <1>6, Parts DEF NothingLeft, w, t
  <2>. QED
    BY <2>2, <2>3, WorkflowMoves
<1>. QED
  BY <1>3, <1>4, <1>5, <1>6

LEMMA AttemptRecalls ==
  ASSUME Inv, Recalls, NEW i \in Indexes, Attempt(i)
  PROVE  Recalls'
<1>. DEFINE a == wf[i].action
<1>1. wf[i] \in Workflow /\ Faithful(wf[i])
  BY Parts DEF Recalls
<1>2. wf[i].state \in State /\ a \in UserActions \cup {NoAction}
  BY <1>1 DEF Workflow
<1>3. PICK o \in Outcomes(a, wf[i].state) :
        /\ wf' = [wf EXCEPT ![i] = [wf[i] EXCEPT !.pc = "executed", !.result = o]]
        /\ ua' = Answer(a, IF o.error THEN "failed" ELSE "ok")
  BY Parts DEF Attempt
<1>. DEFINE w == [wf[i] EXCEPT !.pc = "executed", !.result = o]
<1>4. w.result = o /\ w.action = a /\ w.state = wf[i].state /\ w.known = wf[i].known
  BY <1>1 DEF Workflow
<1>5. wf' = [wf EXCEPT ![i] = w]
  BY <1>3
<1>. HIDE DEF w
<1>6. Faithful(w)
  BY <1>1, <1>2, <1>3, <1>4, OutcomeDone DEF Faithful
<1>7. \A u \in UserActions : ua'[u].pc = ua[u].pc /\ ua'[u].state = ua[u].state
  BY <1>2, <1>3, Replied, Parts
<1>. QED
  BY <1>5, <1>6, <1>7, WorkflowMoves

LEMMA AttemptRaisesRecalls ==
  ASSUME Inv, Recalls, NEW i \in Indexes, AttemptRaises(i)
  PROVE  Recalls'
<1>. DEFINE a == wf[i].action
            r == [wf[i] EXCEPT !.attempts = @ + 1]
            e == Interrupted(wf[i])
<1>1. wf[i] \in Workflow /\ Faithful(wf[i]) /\ wf[i].pc = "iterate"
  BY Parts DEF Recalls, AttemptRaises
<1>2. a \in UserActions \cup {NoAction}
  BY <1>1 DEF Workflow
<1>3. /\ wf' = [wf EXCEPT ![i] = r] \/ wf' = [wf EXCEPT ![i] = e]
      /\ ua' = ua \/ ua' = Answer(a, "failed")
  BY Parts DEF AttemptRaises
<1>4. r.pc = "iterate" /\ r.state = wf[i].state /\ r.known = wf[i].known
  BY <1>1 DEF Workflow
<1>. HIDE DEF r
<1>5. Faithful(r) /\ Faithful(e)
  BY <1>1, <1>4, FaithfulStays, EndedIsFaithful DEF Interrupted
<1>6. \A u \in UserActions : ua'[u].pc = ua[u].pc /\ ua'[u].state = ua[u].state
  BY <1>2, <1>3, Replied, Parts
<1>. HIDE DEF e
<1>. QED
  BY <1>3, <1>5, <1>6, WorkflowMoves

LEMMA RecordRecalls ==
  ASSUME Inv, Recalls, NEW i \in Indexes, Record(i)
  PROVE  Recalls'
<1>. DEFINE v == wf[i]
            o == wf[i].result
            kept == [v EXCEPT !.state = o.state, !.known = IF v.draining THEN @ ELSE o.state,
                              !.postponed = o.postponed, !.result = NoResult, !.action = NoAction,
                              !.attempts = 0]
            drain == [kept EXCEPT !.pc = "drain"]
            w == Recorded(v)
<1>1. /\ v \in Workflow /\ v.pc = "executed" /\ Faithful(v)
      /\ v.state.done \subseteq o.state.done /\ (v.state.stopped => o.state.stopped)
  BY Parts DEF Record, Consistent, Recalls
<1>2. /\ drain.pc = "drain" /\ drain.state = o.state
      /\ drain.known = IF v.draining THEN v.known ELSE o.state
  BY <1>1 DEF Workflow
<1>3. w = Ended(o.state) \/ w = drain \/ w = Ended(kept.known)
  BY DEF Recorded, Interrupted
<1>4. wf' = [wf EXCEPT ![i] = w] /\ ua' = ua
  BY Parts DEF Record
<1>. HIDE DEF kept, drain, w
<1>5. Faithful(drain)
  BY <1>1, <1>2 DEF Faithful
<1>6. Faithful(w)
  BY <1>3, <1>5, EndedIsFaithful
<1>. QED
  BY <1>4, <1>6, WorkflowMoves

\* A workflow that is enqueued starts from a state it falls back to.
LEMMA EnqueuedIsFaithful ==
  ASSUME Recalls, NEW n \in Indexes, NEW s
  PROVE  Faithful(Enqueued(n, s))
BY NewIsFaithful DEF Enqueued, Recalls

LEMMA ScheduleNextRecalls ==
  ASSUME Inv, Recalls, NEW i \in Indexes, ScheduleNext(i)
  PROVE  Recalls'
<1>. DEFINE c == [wf[i] EXCEPT !.pc = "closing"]
            e == Enqueued(i + 1, wf[i].state)
<1>1. wf[i] \in Workflow /\ Faithful(wf[i]) /\ i + 1 \in Indexes /\ i # i + 1
  BY Parts, BoundsAssumption DEF Recalls, ScheduleNext, Indexes
<1>2. c.pc = "closing" /\ c.state = wf[i].state /\ c.known = wf[i].known
  BY <1>1 DEF Workflow
<1>3. wf' = [wf EXCEPT ![i] = c, ![i + 1] = e] /\ ua' = ua
  BY Parts DEF ScheduleNext
<1>. HIDE DEF c
<1>4. Faithful(c) /\ Faithful(e)
  BY <1>1, <1>2, FaithfulStays, EnqueuedIsFaithful
<1>. HIDE DEF e
<1>5. \A j \in Indexes : wf'[j] = IF j = i + 1 THEN e ELSE IF j = i THEN c ELSE wf[j]
  BY <1>1, <1>3, Parts
<1>. QED
  BY <1>3, <1>4, <1>5 DEF Recalls, RestartsRun

LEMMA CloseRecalls ==
  ASSUME Inv, Recalls, NEW i \in Indexes, Close(i)
  PROVE  Recalls'
<1>. DEFINE w == Ended(wf[i].input)
<1>1. wf' = [wf EXCEPT ![i] = w] /\ ua' = ua /\ Faithful(w)
  BY Parts, EndedIsFaithful DEF Close
<1>. HIDE DEF w
<1>. QED
  BY <1>1, WorkflowMoves

\* A user action that changes nothing but itself.
LEMMA UserRecalls ==
  ASSUME Inv, Recalls, NEW u \in UserActions, NEW x, ua' = [ua EXCEPT ![u] = x],
         wf' = wf, x.pc = "built" => ~x.state.stopped
  PROVE  Recalls'
<1>1. \A y \in UserActions : ua'[y] = IF y = u THEN x ELSE ua[y]
  BY DEF Inv, TypeOK
<1>. QED
  BY <1>1 DEF Recalls, RestartsRun

LEMMA FinishesRecalls ==
  ASSUME Inv, Recalls, NEW u \in UserActions, NEW s, Finishes(u, s), wf' = wf
  PROVE  Recalls'
<1>. DEFINE x == [NewUserAction(ua[u].kind) EXCEPT !.pc = "done", !.status = s]
<1>1. x.pc = "done" /\ ua' = [ua EXCEPT ![u] = x]
  BY DEF Finishes, NewUserAction, Inv, TypeOK
<1>. HIDE DEF x
<1>. QED
  BY <1>1, UserRecalls

LEMMA MovesRecalls ==
  ASSUME Inv, Recalls, NEW u \in UserActions, NEW pc, Moves(u, pc), pc # "built", wf' = wf
  PROVE  Recalls'
<1>. DEFINE x == [ua[u] EXCEPT !.pc = pc]
<1>1. x.pc = pc /\ ua' = [ua EXCEPT ![u] = x]
  BY DEF Moves, Inv, TypeOK, UserAction
<1>. HIDE DEF x
<1>. QED
  BY <1>1, UserRecalls

LEMMA ActsRecall ==
  ASSUME Inv, Recalls, NEW u \in UserActions, Acts(u)
  PROVE  Recalls'
<1>1. CASE Resolve(u)
  <2>1. PICK i \in Indexes : /\ ua' = [ua EXCEPT ![u].pc = "send", ![u].target = i]
                             /\ UNCHANGED <<wf, executions, dropped, faults>>
    BY <1>1 DEF Resolve
  <2>. DEFINE x == [ua[u] EXCEPT !.pc = "send", !.target = i]
  <2>2. x.pc = "send" /\ ua' = [ua EXCEPT ![u] = x]
    BY <2>1 DEF Inv, TypeOK, UserAction
  <2>. HIDE DEF x
  <2>. QED
    BY <2>1, <2>2, UserRecalls
<1>2. CASE NotFound(u) \/ ReceiveResult(u) \/ ResultTimeout(u)
  <2>1. PICK s : Finishes(u, s) /\ wf' = wf
    BY <1>2 DEF NotFound, ReceiveResult, ResultTimeout
  <2>. QED
    BY <2>1, FinishesRecalls
<1>3. CASE RecordSent(u) \/ AssertNotRunning(u)
  <2>1. wf' = wf /\ ((\E s : Finishes(u, s)) \/ Moves(u, "await") \/ Moves(u, "checked"))
    <3>1. CASE RecordSent(u)
      BY <3>1 DEF RecordSent
    <3>2. CASE AssertNotRunning(u)
      BY <3>2 DEF AssertNotRunning
    <3>. QED
      BY <1>3, <3>1, <3>2
  <2>. QED
    BY <2>1, FinishesRecalls, MovesRecalls
<1>4. CASE Send(u)
  <2>. DEFINE i == ua[u].target
              m == [action |-> u, late |-> LastLook(i)]
              w == [wf[i] EXCEPT !.mail = Append(@, m)]
  <2>1. i \in Indexes
    BY <1>4 DEF Inv, Routes, Send
  <2>2. wf[i] \in Workflow /\ Faithful(wf[i])
    BY <2>1, Parts DEF Recalls
  <2>3. /\ w.pc = wf[i].pc /\ w.state = wf[i].state /\ w.known = wf[i].known
        /\ w.result = wf[i].result /\ w.action = wf[i].action
    BY <2>2 DEF Workflow
  <2>4. wf' = wf \/ wf' = [wf EXCEPT ![i] = w]
    BY <1>4, <2>1, Parts DEF Send
  <2>. HIDE DEF w, i
  <2>5. Faithful(w)
    BY <2>2, <2>3 DEF Faithful
  <2>6. ua' = [ua EXCEPT ![u].pc = "sent", ![u].target = 0]
    BY <1>4 DEF Send
  <2>7. \A y \in UserActions : ua'[y].pc = "built" => ua[y].pc = "built" /\ ua'[y].state = ua[y].state
    <3>1. ua \in [UserActions -> UserAction]
      BY DEF Inv, TypeOK
    <3>2. ua[u] \in UserAction
      BY <3>1
    <3>. DEFINE x == [ua[u] EXCEPT !.pc = "sent", !.target = 0]
    <3>3. x.pc = "sent"
      BY <3>2 DEF UserAction
    <3>4. ua' = [ua EXCEPT ![u] = x]
      BY <2>6
    <3>. HIDE DEF x
    <3>. QED
      BY <3>1, <3>3, <3>4
  <2>8. CASE wf' = wf
    BY <2>7, <2>8 DEF Recalls, RestartsRun
  <2>. QED
    BY <2>1, <2>4, <2>5, <2>7, <2>8, WorkflowMoves
<1>5. CASE BuildRestart(u)
  <2>. DEFINE r(n) == [wf[n].known EXCEPT !.stopped = FALSE]
  <2>1. PICK n \in Indexes :
          /\ ua' = [ua EXCEPT ![u] = [ua[u] EXCEPT !.pc = "built", !.target = n + 1, !.state = r(n)]]
          /\ UNCHANGED <<wf, executions, dropped, faults>>
    BY <1>5 DEF BuildRestart, Inv, TypeOK
  <2>2. ua[u] \in UserAction /\ wf[n].known \in State
    BY DEF Inv, TypeOK, Workflow
  <2>3. ~r(n).stopped
    BY <2>2 DEF State
  <2>. HIDE DEF r
  <2>. DEFINE x == [ua[u] EXCEPT !.pc = "built", !.target = n + 1, !.state = r(n)]
  <2>4. x.state = r(n)
    BY <2>2 DEF UserAction
  <2>5. ua' = [ua EXCEPT ![u] = x]
    BY <2>1
  <2>. HIDE DEF x
  <2>. QED
    BY <2>1, <2>3, <2>4, <2>5, UserRecalls
<1>6. CASE CreateTask(u)
  <2>. DEFINE n == ua[u].target
              e == Enqueued(n, ua[u].state)
  <2>1. /\ ua[u] \in UserAction /\ ua[u].pc = "built" /\ Finishes(u, "completed")
        /\ wf' = [wf EXCEPT ![n] = e] /\ n <= MaxIndex
    BY <1>6 DEF CreateTask, Inv, TypeOK
  <2>2. n \in Indexes
    BY <2>1, BoundsAssumption DEF UserAction, Indexes
  <2>3. Faithful(e)
    BY <2>2, EnqueuedIsFaithful
  <2>4. \A y \in UserActions : ua'[y].pc = "built" => ua[y].pc = "built" /\ ua'[y].state = ua[y].state
    <3>. DEFINE x == [NewUserAction(ua[u].kind) EXCEPT !.pc = "done", !.status = "completed"]
    <3>1. x.pc = "done" /\ ua' = [ua EXCEPT ![u] = x]
      BY <2>1 DEF Finishes, NewUserAction, Inv, TypeOK
    <3>2. ua \in [UserActions -> UserAction]
      BY DEF Inv, TypeOK
    <3>. HIDE DEF x
    <3>. QED
      BY <3>1, <3>2
  <2>. HIDE DEF e, n
  <2>. QED
    BY <2>1, <2>2, <2>3, <2>4, WorkflowMoves
<1>. QED
  BY <1>1, <1>2, <1>3, <1>4, <1>5, <1>6 DEF Acts

\* What a crash leaves of a workflow and of a user action.
LEMMA CrashLeaves ==
  ASSUME Inv, Crash
  PROVE  /\ \A i \in Indexes :
              \/ wf[i].pc \notin {"iterate", "executed"} /\ wf'[i] = wf[i]
              \/ /\ wf[i].pc \in {"iterate", "executed"} /\ wf'[i].pc = "iterate"
                 /\ wf'[i].state = wf[i].state /\ wf'[i].known = wf[i].known
                 /\ wf'[i].postponed = wf[i].postponed
         /\ \A u \in UserActions : ua'[u].pc = "built" => ua'[u] = ua[u]
<1>. DEFINE v(i) == [wf[i] EXCEPT !.pc = "iterate", !.attempts = 0, !.result = NoResult]
            x(u) == [ua[u] EXCEPT !.pc = "dispatch", !.target = 0]
<1>1. \A i \in Indexes : /\ v(i).pc = "iterate" /\ v(i).state = wf[i].state
                         /\ v(i).known = wf[i].known /\ v(i).postponed = wf[i].postponed
  <2>. SUFFICES ASSUME NEW i \in Indexes
                PROVE  /\ v(i).pc = "iterate" /\ v(i).state = wf[i].state
                       /\ v(i).known = wf[i].known /\ v(i).postponed = wf[i].postponed
    OBVIOUS
  <2>1. wf[i] \in Workflow
    BY Parts
  <2>. HIDE DEF NoResult
  <2>. QED
    BY <2>1 DEF Workflow
<1>2. \A u \in UserActions : x(u).pc = "dispatch"
  BY DEF Inv, TypeOK, UserAction
<1>3. /\ wf' = [i \in Indexes |-> IF wf[i].pc \in {"iterate", "executed"} THEN v(i) ELSE wf[i]]
      /\ ua' = [u \in UserActions |->
                  IF ua[u].pc \in {"send", "sent", "checked"} THEN x(u) ELSE ua[u]]
  BY DEF Crash
<1>. HIDE DEF v, x
<1>. QED
  BY <1>1, <1>2, <1>3

LEMMA CrashRecalls ==
  ASSUME Inv, Recalls, Crash
  PROVE  Recalls'
<1>1. \A i \in Indexes : Faithful(wf'[i])
  BY CrashLeaves DEF Recalls, Faithful
<1>. QED
  BY <1>1, CrashLeaves DEF Recalls, RestartsRun

LEMMA RecallsInitially ==
  ASSUME Init
  PROVE  Recalls
<1>1. \A i \in Indexes : Faithful(wf[i])
  BY NewIsFaithful DEF Init
<1>2. \A u \in UserActions : ua[u].pc = "dispatch"
  <2>. SUFFICES ASSUME NEW u \in UserActions
                PROVE  ua[u].pc = "dispatch"
    OBVIOUS
  <2>1. PICK k \in Kinds : ua[u] = NewUserAction(k)
    BY DEF Init
  <2>. QED
    BY <2>1 DEF NewUserAction
<1>. QED
  BY <1>1, <1>2 DEF Recalls, RestartsRun

LEMMA StepRecalls ==
  ASSUME Inv, Recalls, [Next]_vars
  PROVE  Recalls'
<1>1. CASE UNCHANGED vars
  BY <1>1 DEF vars, Recalls, Faithful, RestartsRun
<1>2. ASSUME NEW i \in Indexes, Iterates(i) \/ AttemptRaises(i)
      PROVE  Recalls'
  BY <1>2, LooksRecall, AttemptRecalls, AttemptRaisesRecalls, RecordRecalls,
     ScheduleNextRecalls, CloseRecalls DEF Iterates
<1>3. ASSUME NEW u \in UserActions, Acts(u)
      PROVE  Recalls'
  BY <1>3, ActsRecall
<1>. QED
  BY <1>1, <1>2, <1>3, CrashRecalls DEF Next
-----------------------------------------------------------------------------
(* The automation is seen through its last workflow.                       *)
\* A step of a workflow that works is one of the automation.
LEMMA Seen ==
  ASSUME Inv, NEW i \in Indexes, NEW w, Working(wf[i]), wf' = [wf EXCEPT ![i] = w], w.pc # "none"
  PROVE  /\ LastIndex = i /\ LastIndex' = i /\ wf'[i] = w
         /\ Last = wf[i].state /\ Last' = w.state /\ wf[i].pc # "ended"
<1>1. IsLast(i)
  BY WorkingIsLast DEF Inv
<1>2. \A j \in Indexes : wf'[j] = IF j = i THEN w ELSE wf[j]
  BY Parts
<1>3. IsLast(i)'
  BY <1>1, <1>2 DEF IsLast
<1>4. Handover'
  BY <1>1, <1>2, BoundsAssumption DEF Inv, Handover, IsLast, Indexes
<1>. QED
  BY <1>1, <1>2, <1>3, <1>4, IndexOfLast, NextIndexOfLast DEF Working, Inv

\* A step that leaves the last workflow what it is.
LEMMA NotSeen ==
  ASSUME Handover, Handover', NEW l \in Indexes, IsLast(l), IsLast(l)',
         (wf'[l].pc = "ended") <=> (wf[l].pc = "ended"), wf'[l].state = wf[l].state,
         wf'[l].postponed = wf[l].postponed,
         InFlight(wf'[l]) = InFlight(wf[l]), UNCHANGED <<executions, dropped>>
  PROVE  UNCHANGED Promise!vars
<1>1. LastIndex = l /\ LastIndex' = l /\ Last' = Last
  BY IndexOfLast, NextIndexOfLast
<1>. QED
  BY <1>1 DEF Promise!vars, InFlight

LEMMA CountIsOneMore ==
  ASSUME NEW f \in [UserActions -> Nat], NEW a, NEW n \in BOOLEAN, n => a \in UserActions
  PROVE  Count(f, a, n) = Promise!OneMore(f, IF n THEN {a} ELSE {})
<1>. DEFINE S == IF n THEN {a} ELSE {}
<1>1. Promise!OneMore(f, S) = [u \in UserActions |-> IF u \in S THEN f[u] + 1 ELSE f[u]]
  BY DEF Promise!OneMore
<1>2. /\ Count(f, a, n) \in [UserActions -> Nat]
      /\ \A u \in UserActions : Count(f, a, n)[u] = IF u \in S THEN f[u] + 1 ELSE f[u]
  BY Counted
<1>. HIDE DEF S
<1>. QED
  BY <1>1, <1>2 DEF S

LEMMA ForgetIsOneMore ==
  ASSUME NEW f \in [UserActions -> Nat], NEW a, NEW n \in BOOLEAN, n => a \in UserActions,
         NEW w, n => a \notin w.state.done, NEW S,
         \A u \in UserActions :
           u \in S <=> (n /\ u = a) \/ (u \in w.state.done /\ u \notin w.known.done)
  PROVE  Forget(Count(f, a, n), w) = Promise!OneMore(f, S)
<1>. DEFINE g == Count(f, a, n)
<1>1. g \in [UserActions -> Nat] /\ \A u \in UserActions : g[u] = IF n /\ u = a THEN f[u] + 1 ELSE f[u]
  BY Counted
<1>. HIDE DEF g
<1>2. /\ Forget(g, w) \in [UserActions -> Nat]
      /\ \A u \in UserActions :
           Forget(g, w)[u] = IF u \in w.state.done /\ u \notin w.known.done THEN g[u] + 1 ELSE g[u]
  BY <1>1, Forgotten
<1>3. \A u \in UserActions : Forget(g, w)[u] = IF u \in S THEN f[u] + 1 ELSE f[u]
  BY <1>1, <1>2
<1>4. Forget(g, w) = Promise!OneMore(f, S)
  BY <1>2, <1>3 DEF Promise!OneMore
<1>. QED
  BY <1>4 DEF g

LEMMA OneMoreOfNone ==
  ASSUME NEW f \in [UserActions -> Nat]
  PROVE  Promise!OneMore(f, {}) = f
BY DEF Promise!OneMore
-----------------------------------------------------------------------------
(* Every step of a workflow is one of the automation, or none.             *)
LEMMA LooksPromised ==
  ASSUME Inv, NEW i \in Indexes,
         Receive(i) \/ ExecutionTime(i) \/ IgnoreForced(i) \/ ReceiveExtra(i)
  PROVE  Promise!Remember \/ UNCHANGED Promise!vars
<1>1. wf[i] \in Workflow /\ wf[i].pc \in {"wait", "drain"} /\ Working(wf[i])
      /\ UNCHANGED <<executions, dropped>>
  BY Parts DEF Receive, ExecutionTime, IgnoreForced, ReceiveExtra, Working
<1>2. PICK w : /\ wf' = [wf EXCEPT ![i] = w]
               /\ w.pc \in {"iterate", "drain"} /\ w.state = wf[i].state
               /\ w.postponed = FALSE \/ w.postponed = wf[i].postponed
  <2>0. \A a, rest : Take(i, a, rest).postponed = FALSE
    BY <1>1 DEF Take, Workflow
  <2>1. CASE Receive(i) \/ ExecutionTime(i)
    BY <2>0, <2>1, TakenStopped, Parts DEF Receive, ExecutionTime
  <2>2. CASE IgnoreForced(i)
    <3>. DEFINE w == [wf[i] EXCEPT !.mail = Tail(@)]
    <3>1. w.pc = wf[i].pc /\ w.state = wf[i].state /\ w.postponed = wf[i].postponed
      BY <1>1 DEF Workflow
    <3>2. wf' = [wf EXCEPT ![i] = w] /\ wf[i].pc = "drain"
      BY <2>2, Parts DEF IgnoreForced
    <3>. HIDE DEF w
    <3>. QED
      BY <3>1, <3>2
  <2>3. CASE ReceiveExtra(i)
    <3>. DEFINE t == Take(i, Head(wf[i].mail).action, Tail(wf[i].mail))
                w == [t EXCEPT !.draining = TRUE]
    <3>1. Head(wf[i].mail).action \in UserActions \cup {NoAction} /\ Tail(wf[i].mail) \in Seq(Message)
      BY <2>3, FirstMessage DEF ReceiveExtra
    <3>2. t \in Workflow /\ t.pc = "iterate" /\ t.state = wf[i].state /\ t.postponed = FALSE
      BY <3>1, <2>0, Taken
    <3>3. wf' = [wf EXCEPT ![i] = w]
      BY <2>3, Parts DEF ReceiveExtra
    <3>. HIDE DEF t
    <3>4. w.pc = "iterate" /\ w.state = wf[i].state /\ w.postponed = FALSE
      BY <3>2 DEF Workflow
    <3>. HIDE DEF w
    <3>. QED
      BY <3>3, <3>4
  <2>. QED
    BY <2>1, <2>2, <2>3
<1>3. /\ LastIndex = i /\ LastIndex' = i /\ wf'[i] = w /\ Last = wf[i].state /\ Last' = w.state
  BY <1>1, <1>2, Seen
<1>4. InFlight(w) = {} /\ InFlight(wf[i]) = {}
  BY <1>1, <1>2 DEF InFlight
<1>5. CASE w.postponed = FALSE
  BY <1>1, <1>2, <1>3, <1>4, <1>5 DEF Promise!Remember
<1>6. CASE w.postponed = wf[i].postponed
  BY <1>1, <1>2, <1>3, <1>4, <1>6 DEF Promise!vars
<1>. QED
  BY <1>2, <1>5, <1>6

LEMMA NothingLeftPromised ==
  ASSUME Inv, NEW i \in Indexes, NothingLeft(i)
  PROVE  Promise!Remember \/ UNCHANGED Promise!vars
<1>. DEFINE t == [wf[i] EXCEPT !.pc = "schedule"]
            e == Ended(wf[i].state)
            w == IF ShouldStop(wf[i]) THEN e ELSE t
<1>1. wf[i] \in Workflow /\ wf[i].pc = "drain" /\ Working(wf[i])
      /\ UNCHANGED <<executions, dropped>>
  BY Parts DEF NothingLeft, Working
<1>2. /\ t.pc = "schedule" /\ t.state = wf[i].state /\ t.postponed = wf[i].postponed
      /\ e.pc = "ended" /\ e.state = wf[i].state /\ e.postponed = FALSE
  BY <1>1, EndedIsFaithful DEF Workflow, Ended, NewWorkflow
<1>3. wf' = [wf EXCEPT ![i] = w]
  BY Parts DEF NothingLeft
<1>. HIDE DEF t, e
<1>4. /\ w.pc \in {"schedule", "ended"} /\ w.state = wf[i].state
      /\ w.postponed = FALSE \/ (w.pc = "schedule" /\ w.postponed = wf[i].postponed)
  BY <1>2
<1>. HIDE DEF w
<1>5. /\ LastIndex = i /\ LastIndex' = i /\ wf'[i] = w /\ Last = wf[i].state /\ Last' = w.state
  BY <1>1, <1>3, <1>4, Seen
<1>6. InFlight(w) = {} /\ InFlight(wf[i]) = {}
  BY <1>1, <1>4 DEF InFlight
<1>7. CASE w.postponed = FALSE
  BY <1>1, <1>4, <1>5, <1>6, <1>7 DEF Promise!Remember
<1>8. CASE w.pc = "schedule" /\ w.postponed = wf[i].postponed
  BY <1>1, <1>4, <1>5, <1>6, <1>8 DEF Promise!vars
<1>. QED
  BY <1>4, <1>7, <1>8

LEMMA AttemptPromised ==
  ASSUME Inv, NEW i \in Indexes, Attempt(i)
  PROVE  Promise!Execute
<1>. DEFINE a == wf[i].action
<1>1. wf[i] \in Workflow /\ wf[i].pc = "iterate" /\ Working(wf[i])
  BY Parts DEF Attempt, Working
<1>2. wf[i].state \in State /\ a \in UserActions \cup {NoAction}
  BY <1>1 DEF Workflow
<1>3. PICK o \in Outcomes(a, wf[i].state) :
        /\ wf' = [wf EXCEPT ![i] = [wf[i] EXCEPT !.pc = "executed", !.result = o]]
        /\ executions' = Count(executions, a, o.executed)
        /\ UNCHANGED <<dropped, faults>>
  BY Parts DEF Attempt
<1>4. o.executed \in BOOLEAN /\ (o.executed => a \in UserActions /\ a \notin wf[i].state.done)
  BY <1>2, <1>3, OutcomesOfAttempts DEF Result
<1>. DEFINE w == [wf[i] EXCEPT !.pc = "executed", !.result = o]
<1>5. w.pc = "executed" /\ w.result = o /\ w.action = a /\ w.state = wf[i].state
      /\ w.postponed = wf[i].postponed
  BY <1>1 DEF Workflow
<1>6. wf' = [wf EXCEPT ![i] = w]
  BY <1>3
<1>. HIDE DEF w
<1>7. /\ LastIndex = i /\ LastIndex' = i /\ wf'[i] = w /\ Last = wf[i].state /\ Last' = w.state
      /\ wf[i].pc # "ended"
  BY <1>1, <1>5, <1>6, Seen
<1>8. InFlight(wf[i]) = {} /\ InFlight(w) = IF o.executed THEN {a} ELSE {}
  BY <1>1, <1>5 DEF InFlight
<1>9. executions' = Promise!OneMore(executions, InFlight(w))
  <2>1. executions \in [UserActions -> Nat]
    BY Parts
  <2>2. Count(executions, a, o.executed)
          = Promise!OneMore(executions, IF o.executed THEN {a} ELSE {})
    BY <1>4, <2>1, CountIsOneMore
  <2>. QED
    BY <1>3, <1>8, <2>2
<1>10. InFlight(w) \in Promise!New
  BY <1>4, <1>7, <1>8 DEF Promise!New
<1>. QED
  BY <1>3, <1>5, <1>7, <1>8, <1>9, <1>10 DEF Promise!Execute

LEMMA AttemptRaisesPromised ==
  ASSUME Inv, Recalls, NEW i \in Indexes, AttemptRaises(i)
  PROVE  Promise!Fail \/ Promise!Break
<1>. DEFINE v == wf[i]
            a == wf[i].action
<1>1. v \in Workflow /\ v.pc = "iterate" /\ Working(v) /\ Faithful(v) /\ Consistent(v)
  BY Parts DEF AttemptRaises, Working, Recalls
<1>2. a \in UserActions \cup {NoAction} /\ dropped \in [UserActions -> Nat]
      /\ executions \in [UserActions -> Nat]
  BY <1>1, Parts DEF Workflow
<1>3. PICK x \in BOOLEAN :
        /\ x => a \in UserActions /\ a \notin v.state.done
        /\ executions' = Count(executions, a, x)
        /\ \/ /\ wf' = [wf EXCEPT ![i].attempts = @ + 1] /\ dropped' = Count(dropped, a, x)
           \/ /\ wf' = [wf EXCEPT ![i] = Interrupted(@)]
              /\ dropped' = Forget(Count(dropped, a, x), v)
  <2>1. PICK x \in {FALSE} \cup (IF IsPriority(a) /\ a \notin v.state.done THEN {TRUE} ELSE {}),
             retried \in BOOLEAN :
               /\ executions' = Count(executions, a, x)
               /\ IF retried
                  THEN wf' = [wf EXCEPT ![i].attempts = @ + 1] /\ dropped' = Count(dropped, a, x)
                  ELSE /\ wf' = [wf EXCEPT ![i] = Interrupted(@)]
                       /\ dropped' = Forget(Count(dropped, a, x), v)
    BY DEF AttemptRaises
  <2>2. x \in BOOLEAN /\ (x => a \in UserActions /\ a \notin v.state.done)
    BY <1>2, <2>1 DEF IsPriority
  <2>. HIDE DEF a
  <2>. QED
    BY <2>1, <2>2
<1>. DEFINE failed == IF x THEN {a} ELSE {}
<1>4. executions' = Promise!OneMore(executions, failed)
  BY <1>2, <1>3, CountIsOneMore
<1>5. InFlight(v) = {}
  BY <1>1 DEF InFlight
<1>6. CASE wf' = [wf EXCEPT ![i].attempts = @ + 1] /\ dropped' = Count(dropped, a, x)
  <2>. DEFINE w == [v EXCEPT !.attempts = @ + 1]
  <2>1. w.pc = "iterate" /\ w.state = v.state /\ w.postponed = v.postponed
    BY <1>1 DEF Workflow
  <2>2. wf' = [wf EXCEPT ![i] = w]
    BY <1>6, Parts
  <2>. HIDE DEF w
  <2>3. /\ LastIndex = i /\ LastIndex' = i /\ wf'[i] = w /\ Last = v.state /\ Last' = w.state
    BY <1>1, <2>1, <2>2, Seen
  <2>4. InFlight(w) = {}
    BY <2>1 DEF InFlight
  <2>5. dropped' = Promise!OneMore(dropped, failed)
    BY <1>2, <1>3, <1>6, CountIsOneMore
  <2>6. failed \in Promise!New
    BY <1>3, <2>3 DEF Promise!New
  <2>. HIDE DEF failed
  <2>7. Promise!Fail
    BY <1>1, <1>4, <1>5, <2>1, <2>3, <2>4, <2>5, <2>6 DEF Promise!Fail
  <2>. QED
    BY <2>7
<1>7. CASE wf' = [wf EXCEPT ![i] = Interrupted(@)] /\ dropped' = Forget(Count(dropped, a, x), v)
  <2>. DEFINE w == Ended(v.known)
  <2>1. w.pc = "ended" /\ w.state = v.known /\ w.postponed = FALSE
    BY EndedIsFaithful DEF Ended, NewWorkflow
  <2>2. wf' = [wf EXCEPT ![i] = w]
    BY <1>7, Parts DEF Interrupted
  <2>. HIDE DEF w
  <2>3. /\ LastIndex = i /\ LastIndex' = i /\ wf'[i] = w /\ Last = v.state /\ Last' = v.known
    BY <1>1, <2>1, <2>2, Seen
  <2>4. InFlight(w) = {}
    BY <2>1 DEF InFlight
  <2>5. v.known.done \subseteq v.state.done /\ v.known.stopped = v.state.stopped
    <3>1. v.known.stopped \in BOOLEAN /\ v.state.stopped \in BOOLEAN
      BY <1>1 DEF Workflow, State
    <3>. QED
      BY <1>1, <3>1 DEF Faithful, Consistent
  <2>6. dropped' = Promise!OneMore(dropped, failed \cup (v.state.done \ v.known.done))
    <3>. DEFINE S == failed \cup (v.state.done \ v.known.done)
    <3>1. \A u \in UserActions :
            u \in S <=> (x /\ u = a) \/ (u \in v.state.done /\ u \notin v.known.done)
      OBVIOUS
    <3>2. /\ dropped \in [UserActions -> Nat] /\ x \in BOOLEAN
          /\ x => a \in UserActions
          /\ x => a \notin v.state.done
      BY <1>2, <1>3
    <3>. HIDE DEF S, v, a
    <3>3. Forget(Count(dropped, a, x), v) = Promise!OneMore(dropped, S)
      BY <3>1, <3>2, ForgetIsOneMore
    <3>. QED
      BY <1>7, <3>3 DEF S
  <2>7. failed \in Promise!New
    BY <1>3, <2>3 DEF Promise!New
  <2>. HIDE DEF failed
  <2>8. failed \cup {} \cup (v.state.done \ v.known.done) = failed \cup (v.state.done \ v.known.done)
    OBVIOUS
  <2>9. Promise!Break
    BY <1>1, <1>4, <1>5, <2>1, <2>3, <2>4, <2>5, <2>6, <2>7, <2>8 DEF Promise!Break
  <2>. QED
    BY <2>9
<1>. QED
  BY <1>3, <1>6, <1>7

LEMMA RecordPromised ==
  ASSUME Inv, Recalls, NEW i \in Indexes, Record(i)
  PROVE  Promise!Remember \/ Promise!Lose \/ Promise!Break
<1>. DEFINE v == wf[i]
            o == wf[i].result
            a == wf[i].action
            goes == ShouldContinue(v, o)
<1>1. v \in Workflow /\ Consistent(v) /\ Faithful(v) /\ v.pc = "executed" /\ Working(v)
  BY Parts DEF Record, Working, Recalls
<1>2. /\ o \in Result /\ o.executed \in BOOLEAN /\ o.postponed \in BOOLEAN /\ o.next \in BOOLEAN
      /\ o.state \in State /\ v.state \in State /\ v.known \in State
      /\ dropped \in [UserActions -> Nat] /\ executions \in [UserActions -> Nat]
  BY <1>1, Parts DEF Workflow, Result
<1>3. /\ v.state.stopped => o.state.stopped
      /\ o.postponed => o.next /\ o.state = v.state
      /\ o.executed => a \in UserActions /\ a \notin v.state.done
      /\ v.state.stopped => v.known.stopped
      /\ v.known.done \subseteq v.state.done /\ (v.known.stopped => v.state.stopped)
      /\ o.state.done = v.state.done \cup (IF o.executed /\ ~o.postponed THEN {a} ELSE {})
  BY <1>1 DEF Consistent, Faithful
<1>4. /\ wf' = [wf EXCEPT ![i] = Recorded(v)] /\ executions' = executions
      /\ dropped' = IF o.postponed THEN Count(dropped, a, o.executed)
                    ELSE IF v.draining /\ goes /\ ~o.next
                    THEN Forget(dropped, [v EXCEPT !.state = o.state]) ELSE dropped
  BY Parts DEF Record
<1>5. o.postponed => goes
  BY DEF ShouldContinue
<1>6. InFlight(v) = IF o.executed THEN {a} ELSE {}
  BY <1>1 DEF InFlight
\* The workflow ends with what the iteration left.
<1>7. CASE ~goes \/ (~o.next /\ ~v.draining)
  <2>1. Recorded(v) = Ended(o.state)
    BY <1>7 DEF Recorded
  <2>. DEFINE w == Ended(o.state)
  <2>2. w.pc = "ended" /\ w.state = o.state /\ w.postponed = FALSE
    BY EndedIsFaithful DEF Ended, NewWorkflow
  <2>. HIDE DEF goes
  <2>3. ~o.postponed /\ dropped' = dropped
    BY <1>3, <1>4, <1>5, <1>7
  <2>4. wf' = [wf EXCEPT ![i] = w]
    BY <1>4, <2>1
  <2>. HIDE DEF w
  <2>5. /\ LastIndex = i /\ LastIndex' = i /\ wf'[i] = w /\ Last = v.state /\ Last' = o.state
        /\ v.pc # "ended"
    BY <1>1, <2>2, <2>4, Seen
  <2>6. InFlight(w) = {} /\ o.state.done = v.state.done \cup InFlight(v)
    BY <1>3, <1>6, <2>2, <2>3 DEF InFlight
  <2>7. o.state.stopped \in {v.state.stopped, TRUE}
    BY <1>2, <1>3 DEF State
  <2>8. Promise!Remember
    BY <1>4, <2>2, <2>3, <2>5, <2>6, <2>7 DEF Promise!Remember
  <2>. QED
    BY <2>8
\* The workflow looks at the messages that came meanwhile.
<1>8. CASE goes /\ o.next
  <2>. DEFINE w == [v EXCEPT !.pc = "drain", !.state = o.state, !.result = NoResult,
                             !.known = IF v.draining THEN v.known ELSE o.state,
                             !.postponed = o.postponed, !.action = NoAction, !.attempts = 0]
  <2>1. w.pc = "drain" /\ w.state = o.state /\ w.postponed = o.postponed
    BY <1>1 DEF Workflow
  <2>2. Recorded(v) = w
    BY <1>1, <1>2, <1>8 DEF Recorded, Workflow
  <2>3. wf' = [wf EXCEPT ![i] = w]
    BY <1>4, <2>2
  <2>. HIDE DEF w
  <2>4. /\ LastIndex = i /\ LastIndex' = i /\ wf'[i] = w /\ Last = v.state /\ Last' = o.state
        /\ v.pc # "ended"
    BY <1>1, <2>1, <2>3, Seen
  <2>5. InFlight(w) = {}
    BY <2>1 DEF InFlight
  <2>6. CASE o.postponed
    <3>1. dropped' = Promise!OneMore(dropped, InFlight(v))
      <4>1. Count(dropped, a, o.executed)
              = Promise!OneMore(dropped, IF o.executed THEN {a} ELSE {})
        BY <1>2, <1>3, CountIsOneMore
      <4>. QED
        BY <1>4, <1>6, <2>6, <4>1
    <3>2. Promise!Lose
      BY <1>1, <1>3, <1>4, <2>1, <2>4, <2>5, <2>6, <3>1 DEF Promise!Lose
    <3>. QED
      BY <3>2
  <2>7. CASE ~o.postponed
    <3>1. o.state.done = v.state.done \cup InFlight(v) /\ dropped' = dropped
      BY <1>3, <1>4, <1>6, <1>8, <2>7
    <3>2. o.state.stopped \in {v.state.stopped, TRUE}
      BY <1>2, <1>3 DEF State
    <3>3. Promise!Remember
      <4>1. o.postponed = FALSE
        BY <1>2, <2>7
      <4>. QED
        BY <1>4, <2>1, <2>4, <2>5, <3>1, <3>2, <4>1 DEF Promise!Remember
    <3>. QED
      BY <3>3
  <2>. QED
    BY <2>6, <2>7
\* An iteration of a message left nothing to go on with.
<1>9. CASE goes /\ ~o.next /\ v.draining
  <2>. DEFINE w == Ended(v.known)
              r == [v EXCEPT !.state = o.state]
  <2>1. Recorded(v) = w
    BY <1>1, <1>9 DEF Recorded, Interrupted, Workflow
  <2>2. w.pc = "ended" /\ w.state = v.known /\ w.postponed = FALSE
    BY EndedIsFaithful DEF Ended, NewWorkflow
  <2>3. ~o.postponed /\ ~o.state.stopped
    BY <1>3, <1>9 DEF ShouldContinue
  <2>4. r.state = o.state /\ r.known = v.known
    BY <1>1 DEF Workflow
  <2>. HIDE DEF r, goes
  <2>5. dropped' = Forget(dropped, r)
    BY <1>4, <1>9, <2>3 DEF r
  <2>6. Forget(dropped, r) = Promise!OneMore(dropped, o.state.done \ v.known.done)
    <3>. DEFINE S == o.state.done \ v.known.done
    <3>1. /\ Forget(dropped, r) \in [UserActions -> Nat]
          /\ \A u \in UserActions :
               Forget(dropped, r)[u] = IF u \in r.state.done /\ u \notin r.known.done
                                       THEN dropped[u] + 1 ELSE dropped[u]
      BY <1>2, Forgotten
    <3>2. \A u \in UserActions : u \in S <=> u \in r.state.done /\ u \notin r.known.done
      BY <2>4
    <3>. HIDE DEF S
    <3>3. Forget(dropped, r) = Promise!OneMore(dropped, S)
      BY <3>1, <3>2 DEF Promise!OneMore
    <3>. QED
      BY <3>3 DEF S
  <2>7. o.state.done \ v.known.done = {} \cup InFlight(v) \cup (v.state.done \ v.known.done)
    BY <1>3, <1>6, <2>3
  <2>8. wf' = [wf EXCEPT ![i] = w]
    BY <1>4, <2>1
  <2>. HIDE DEF w
  <2>9. /\ LastIndex = i /\ LastIndex' = i /\ wf'[i] = w /\ Last = v.state /\ Last' = v.known
        /\ v.pc # "ended"
    BY <1>1, <2>2, <2>8, Seen
  <2>10. InFlight(w) = {}
    BY <2>2 DEF InFlight
  <2>11. v.known.stopped = v.state.stopped
    BY <1>2, <1>3 DEF State
  <2>12. executions' = Promise!OneMore(executions, {})
    BY <1>2, <1>4, OneMoreOfNone
  <2>13. {} \in Promise!New
    BY DEF Promise!New
  <2>14. dropped' = Promise!OneMore(dropped, {} \cup InFlight(v) \cup (v.state.done \ v.known.done))
    BY <2>5, <2>6, <2>7
  <2>15. Promise!Break
    BY <1>3, <2>2, <2>9, <2>10, <2>11, <2>12, <2>13, <2>14 DEF Promise!Break
  <2>. QED
    BY <2>15
<1>. QED
  BY <1>2, <1>7, <1>8, <1>9

LEMMA ScheduleNextPromised ==
  ASSUME Inv, NEW i \in Indexes, ScheduleNext(i)
  PROVE  Promise!HandOver
<1>. DEFINE c == [wf[i] EXCEPT !.pc = "closing"]
            e == NewWorkflow("wait", wf[i].state)
            n == i + 1
<1>1. /\ wf[i] \in Workflow /\ Consistent(wf[i]) /\ wf[i].pc = "schedule"
      /\ UNCHANGED <<executions, dropped>> /\ n \in Indexes /\ i # n
  BY Parts, BoundsAssumption DEF ScheduleNext, Indexes
<1>2. IsLast(i)
  BY <1>1, WorkingIsLast DEF Inv, Working
<1>3. wf[n].pc = "none" /\ \A j \in Indexes : j > n => wf[j].pc = "none" /\ j # i
  BY <1>1, <1>2, BoundsAssumption DEF IsLast, Indexes
<1>4. wf' = [wf EXCEPT ![i] = c, ![n] = e]
  BY <1>3, Parts DEF ScheduleNext, Enqueued
<1>5. e.pc = "wait" /\ e.state = wf[i].state /\ e.postponed = FALSE
  BY DEF NewWorkflow
<1>. HIDE DEF c, e
<1>6. \A j \in Indexes : wf'[j] = IF j = n THEN e ELSE IF j = i THEN c ELSE wf[j]
  BY <1>1, <1>4, Parts
<1>7. IsLast(n)'
  BY <1>1, <1>3, <1>5, <1>6, BoundsAssumption DEF IsLast, Indexes
<1>8. wf'[n] = e
  BY <1>1, <1>6
<1>. HIDE DEF n
<1>9. LastIndex = i /\ LastIndex' = n /\ Last = wf[i].state /\ Last' = e.state
  <2>1. Handover'
    BY StepKeeps DEF Inv, Next, Iterates
  <2>. QED
    BY <1>1, <1>2, <1>7, <1>8, <2>1, IndexOfLast, NextIndexOfLast DEF Inv
<1>10. InFlight(wf[i]) = {} /\ InFlight(e) = {}
  BY <1>1, <1>5 DEF InFlight
<1>11. (wf[i].state.stopped => wf[i].postponed) /\ n = i + 1
  BY <1>1 DEF Consistent, n
<1>. QED
  BY <1>1, <1>5, <1>8, <1>9, <1>10, <1>11 DEF Promise!HandOver

LEMMA ClosePromised ==
  ASSUME Inv, NEW i \in Indexes, Close(i)
  PROVE  UNCHANGED Promise!vars
<1>. DEFINE w == Ended(wf[i].input)
<1>1. /\ wf' = [wf EXCEPT ![i] = w] /\ wf[i].pc = "closing" /\ w.pc = "ended"
      /\ UNCHANGED <<executions, dropped>>
  BY Parts, EndedIsFaithful DEF Close
<1>. HIDE DEF w
<1>2. PICK l \in Indexes : IsLast(l)
  BY DEF Inv
<1>3. i # l
  BY <1>1, <1>2, BoundsAssumption DEF Inv, Successors, IsLast, Indexes
<1>4. \A j \in Indexes : wf'[j] = IF j = i THEN w ELSE wf[j]
  BY <1>1, Parts
<1>5. IsLast(l)' /\ wf'[l] = wf[l]
  BY <1>1, <1>2, <1>3, <1>4 DEF IsLast
<1>6. Handover'
  BY StepKeeps DEF Inv, Next, Iterates
<1>. QED
  BY <1>1, <1>2, <1>5, <1>6, NotSeen DEF Inv

(* A user action only leaves messages, unless it restarts.                 *)
LEMMA ActsPromised ==
  ASSUME Inv, NEW u \in UserActions, Acts(u), ~CreateTask(u)
  PROVE  UNCHANGED Promise!vars
<1>0. Handover /\ Handover'
  BY StepKeeps DEF Inv, Next
<1>1. PICK l \in Indexes : IsLast(l)
  BY DEF Inv
<1>2. CASE Send(u)
  <2>. DEFINE i == ua[u].target
              m == [action |-> u, late |-> LastLook(i)]
              w == [wf[i] EXCEPT !.mail = Append(@, m)]
  <2>1. i \in Indexes /\ UNCHANGED <<executions, dropped>>
    BY <1>2 DEF Inv, Routes, Send
  <2>2. wf[i] \in Workflow
    BY <2>1, Parts
  <2>3. /\ w.pc = wf[i].pc /\ w.state = wf[i].state /\ w.result = wf[i].result
        /\ w.action = wf[i].action /\ w.postponed = wf[i].postponed
    BY <2>2 DEF Workflow
  <2>4. wf' = wf \/ wf' = [wf EXCEPT ![i] = w]
    BY <1>2, <2>1, Parts DEF Send
  <2>. HIDE DEF w, i
  <2>5. \A j \in Indexes : /\ wf'[j].pc = wf[j].pc /\ wf'[j].state = wf[j].state
                           /\ wf'[j].result = wf[j].result /\ wf'[j].action = wf[j].action
                           /\ wf'[j].postponed = wf[j].postponed
    BY <2>1, <2>3, <2>4, Parts
  <2>6. IsLast(l)' /\ InFlight(wf'[l]) = InFlight(wf[l])
    BY <1>1, <2>5 DEF IsLast, InFlight
  <2>. QED
    BY <1>0, <1>1, <2>1, <2>5, <2>6, NotSeen
<1>3. CASE ~Send(u)
  <2>1. UNCHANGED <<wf, executions, dropped>>
    BY <1>3 DEF Acts, Resolve, NotFound, RecordSent, ReceiveResult, ResultTimeout,
                AssertNotRunning, BuildRestart
  <2>2. IsLast(l)'
    BY <1>1, <2>1 DEF IsLast
  <2>. QED
    BY <1>0, <1>1, <2>1, <2>2, NotSeen
<1>. QED
  BY <1>2, <1>3

LEMMA CreateTaskPromised ==
  ASSUME Inv, Recalls, NEW u \in UserActions, CreateTask(u)
  PROVE  Promise!Restart \/ UNCHANGED Promise!vars
<1>. DEFINE n == ua[u].target
            i == n - 1
            s == ua[u].state
<1>1. /\ ua[u].pc = "built" /\ n <= MaxIndex /\ wf' = [wf EXCEPT ![n] = Enqueued(n, s)]
      /\ UNCHANGED <<executions, dropped>>
  BY DEF CreateTask
<1>2. ua[u] \in UserAction /\ n \in Nat /\ s \in State /\ ~s.stopped
  BY <1>1 DEF Inv, TypeOK, UserAction, Recalls, RestartsRun
<1>3. n # 0 /\ i \in Indexes /\ wf[i].pc = "ended" /\ s.done = wf[i].known.done
  BY <1>1 DEF Inv, Restarts
<1>4. n \in Indexes /\ n = i + 1 /\ i # n
  BY <1>1, <1>2, <1>3, BoundsAssumption DEF Indexes
<1>5. wf \in [Indexes -> Workflow] /\ Consistent(wf[i])
  BY <1>3, Parts
<1>6. CASE wf[n].pc # "none"
  <2>1. wf' = wf
    BY <1>1, <1>4, <1>5, <1>6 DEF Enqueued
  <2>. QED
    BY <1>1, <2>1 DEF Promise!vars, LastIndex, Last, InFlight
<1>7. CASE wf[n].pc = "none"
  <2>. DEFINE e == NewWorkflow("wait", s)
  <2>1. wf' = [wf EXCEPT ![n] = e]
    BY <1>1, <1>7 DEF Enqueued
  <2>2. e.pc = "wait" /\ e.state = s /\ e.postponed = FALSE
    BY DEF NewWorkflow
  <2>. HIDE DEF e, n, i, s
  <2>3. \A j \in Indexes : j > i => wf[j].pc = "none"
    <3>. SUFFICES ASSUME NEW j \in Indexes, j > i, wf[j].pc # "none"
                  PROVE  FALSE
      OBVIOUS
    <3>1. j # n /\ j \in Nat /\ i \in Nat
      BY <1>3, <1>7, BoundsAssumption DEF Indexes
    <3>2. j > n
      BY <3>1, <1>4
    <3>3. wf[n].pc \in {"closing", "ended"}
      BY <1>4, <3>2 DEF Inv, Handover
    <3>. QED
      BY <1>7, <3>3
  <2>4. IsLast(i)
    BY <1>3, <2>3 DEF IsLast
  <2>. PICK k \in Indexes : k = n
    BY <1>4
  <2>5. \A j \in Indexes : wf'[j] = IF j = k THEN e ELSE wf[j]
    BY <1>5, <2>1
  <2>6. IsLast(k)' /\ wf'[k] = e
    <3>1. \A j \in Indexes : j > k => j > i /\ j # k
      BY <1>3, <1>4, BoundsAssumption DEF Indexes
    <3>. QED
      BY <2>2, <2>3, <2>5, <3>1 DEF IsLast
  <2>7. LastIndex = i /\ LastIndex' = k /\ Last = wf[i].state /\ Last' = s
    <3>1. Handover /\ Handover'
      BY StepKeeps DEF Inv, Next, Acts
    <3>. QED
      BY <1>3, <2>2, <2>4, <2>6, <3>1, IndexOfLast, NextIndexOfLast
  <2>8. InFlight(wf[i]) = {} /\ InFlight(e) = {}
    BY <1>3, <2>2 DEF InFlight
  <2>9. s.done = wf[i].state.done /\ s.stopped = FALSE
    BY <1>2, <1>3, <1>5 DEF Consistent, State
  <2>10. Promise!Restart
    BY <1>1, <1>3, <1>4, <2>2, <2>6, <2>7, <2>8, <2>9 DEF Promise!Restart
  <2>. QED
    BY <2>10
<1>. QED
  BY <1>6, <1>7

\* Only the last workflow can have been at an iteration.
LEMMA CrashPromised ==
  ASSUME Inv, Crash
  PROVE  Promise!Lose
<1>1. PICK l \in Indexes : IsLast(l)
  BY DEF Inv
<1>2. \A i \in Indexes :
        \/ wf[i].pc \notin {"iterate", "executed"} /\ wf'[i] = wf[i]
        \/ /\ wf[i].pc \in {"iterate", "executed"} /\ wf'[i].pc = "iterate"
           /\ wf'[i].state = wf[i].state /\ wf'[i].postponed = wf[i].postponed
  BY CrashLeaves
<1>3. IsLast(l)'
  BY <1>1, <1>2 DEF IsLast
<1>4. LastIndex = l /\ LastIndex' = l /\ Last' = Last /\ wf'[l].postponed = wf[l].postponed
  <2>1. Handover /\ Handover'
    BY StepKeeps DEF Inv, Next
  <2>. QED
    BY <1>1, <1>2, <1>3, <2>1, IndexOfLast, NextIndexOfLast
<1>5. InFlight(wf'[l]) = {} /\ ((wf'[l].pc = "ended") <=> (wf[l].pc = "ended"))
  BY <1>2 DEF InFlight
<1>6. \A u \in UserActions : Cardinality(Unrecorded(u)) = IF u \in InFlight(wf[l]) THEN 1 ELSE 0
  <2>. SUFFICES ASSUME NEW u \in UserActions
                PROVE  Cardinality(Unrecorded(u)) = IF u \in InFlight(wf[l]) THEN 1 ELSE 0
    OBVIOUS
  <2>1. \A i \in Unrecorded(u) : i = l
    <3>. SUFFICES ASSUME NEW i \in Unrecorded(u)
                  PROVE  i = l
      OBVIOUS
    <3>1. i \in Indexes /\ Working(wf[i])
      BY DEF Unrecorded, Working
    <3>. QED
      BY <1>1, <3>1, WorkingIsLast, OneLast DEF Inv
  <2>2. CASE u \in InFlight(wf[l])
    <3>1. Unrecorded(u) = {l}
      BY <2>1, <2>2 DEF Unrecorded, InFlight
    <3>. QED
      BY <2>2, <3>1, FS_Singleton
  <2>3. CASE u \notin InFlight(wf[l])
    <3>1. Unrecorded(u) = {}
      BY <2>1, <2>3 DEF Unrecorded, InFlight
    <3>. QED
      BY <2>3, <3>1, FS_EmptySet
  <2>. QED
    BY <2>2, <2>3
<1>7. dropped' = Promise!OneMore(dropped, InFlight(wf[l]))
  <2>1. dropped' = [u \in UserActions |-> dropped[u] + Cardinality(Unrecorded(u))]
    BY DEF Crash, Unrecorded
  <2>2. \A u \in UserActions : dropped[u] \in Nat
    BY DEF Inv, TypeOK
  <2>. DEFINE S == InFlight(wf[l])
  <2>. HIDE DEF S
  <2>3. dropped' = [u \in UserActions |-> IF u \in S THEN dropped[u] + 1 ELSE dropped[u]]
    <3>1. \A u \in UserActions : dropped[u] + Cardinality(Unrecorded(u))
                                   = IF u \in S THEN dropped[u] + 1 ELSE dropped[u]
      BY <1>6, <2>2 DEF S
    <3>. QED
      BY <2>1, <3>1
  <2>. QED
    BY <2>3 DEF Promise!OneMore, S
<1>8. executions' = executions
  BY DEF Crash
<1>. QED
  BY <1>4, <1>5, <1>7, <1>8 DEF Promise!Lose
-----------------------------------------------------------------------------
LEMMA PromisedStep ==
  ASSUME Inv, Recalls, [Next]_vars
  PROVE  [Promise!Next]_(Promise!vars)
<1>1. CASE UNCHANGED vars
  BY <1>1 DEF vars, Promise!vars, LastIndex, Last, InFlight
<1>2. ASSUME NEW i \in Indexes, Iterates(i) \/ AttemptRaises(i)
      PROVE  [Promise!Next]_(Promise!vars)
  BY <1>2, LooksPromised, NothingLeftPromised, AttemptPromised, AttemptRaisesPromised,
     RecordPromised, ScheduleNextPromised, ClosePromised DEF Iterates, Promise!Next
<1>3. ASSUME NEW u \in UserActions, Acts(u)
      PROVE  [Promise!Next]_(Promise!vars)
  BY <1>3, ActsPromised, CreateTaskPromised DEF Promise!Next
<1>4. CASE Crash
  BY <1>4, CrashPromised DEF Promise!Next
<1>. QED
  BY <1>1, <1>2, <1>3, <1>4 DEF Next

LEMMA PromisedInitially ==
  ASSUME Init
  PROVE  Promise!Init
<1>1. /\ \A i \in Indexes : /\ (wf[i].pc = IF i = 0 THEN "wait" ELSE "none")
                            /\ wf[i].state = NewState /\ wf[i].postponed = FALSE
  BY DEF Init, NewWorkflow
<1>2. 0 \in Indexes /\ IsLast(0)
  BY <1>1, BoundsAssumption DEF IsLast, Indexes
<1>3. LastIndex = 0 /\ Last = NewState /\ wf[0].pc = "wait"
  BY <1>1, <1>2, Initially, IndexOfLast DEF Inv
<1>4. InFlight(wf[0]) = {}
  BY <1>3 DEF InFlight
<1>. QED
  BY <1>1, <1>2, <1>3, <1>4 DEF Init, Promise!Init, NewState

\* What a state holds is exactly what was executed and remembered, in every chain.
THEOREM RecallsHold == Spec => []Recalls
<1>1. Inv /\ Recalls /\ [Next]_vars => Recalls'
  BY StepRecalls
<1>. QED
  BY <1>1, RecallsInitially, Invariance, PTL DEF Spec

(* The workflows of an automation keep the promise of one automation: one  *)
(* iteration at a time; a user action is only executed when it is not      *)
(* remembered, and counted as lost when it is forgotten; nothing happens   *)
(* after the end but a restart, only that one undoes a stop, and what was  *)
(* stopped hands over only when its latest iteration was postponed.        *)
THEOREM PromiseKept == Spec => KeepsPromise
<1>1. Init => Promise!Init
  BY PromisedInitially
<1>2. Inv /\ Recalls /\ [Next]_vars => [Promise!Next]_(Promise!vars)
  BY PromisedStep
<1>. QED
  BY <1>1, <1>2, Invariance, RecallsHold, PTL DEF Spec, KeepsPromise, Promise!Spec
=============================================================================

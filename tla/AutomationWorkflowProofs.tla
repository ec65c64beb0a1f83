---------------------- MODULE AutomationWorkflowProofs ----------------------
(***************************************************************************)
(* However many user actions race with however many iterations, retries,   *)
(* crashes and restarts: what is recorded is not executed again, one       *)
(* workflow works at a time, and only a restart revives a stopped          *)
(* automation.                                                             *)
(*                                                                         *)
(* All of it is about the last workflow of the chain: the others are       *)
(* closing or have ended (Handover), a workflow that is closing has its    *)
(* successor, and a restart continues what has ended.  The executions of   *)
(* an action that no state forgot are at most what the last workflow knows *)
(* of it (Counts), in its state or in a result that is not recorded yet.   *)
(***************************************************************************)
EXTENDS AutomationWorkflow, FiniteSetTheorems, TLAPS

Working(w) == w.pc \notin {"none", "closing", "ended"}

IsLast(i) == wf[i].pc # "none" /\ \A j \in Indexes : j > i => wf[j].pc = "none"

\* An execution of u that is in the state of w, or will be once it is recorded.
Held(w, u) == u \in w.state.done \/ (w.pc = "executed" /\ w.action = u /\ w.result.executed)

Answered(x) == x.kind = "signal" /\ (x.reply = "ok" \/ x.status = "completed")

Handover ==
  \A i, j \in Indexes : i < j /\ wf[j].pc # "none" => wf[i].pc \in {"closing", "ended"}

Successors ==
  \A i \in Indexes : wf[i].pc = "closing" => i + 1 \in Indexes /\ wf[i + 1].pc # "none"

\* What holds within one workflow.
Consistent(w) ==
  /\ w.pc = "ended" => w.known = w.state
  /\ w.state.stopped => w.known.stopped
  /\ w.pc \in {"schedule", "closing"} => /\ w.state.stopped => w.postponed
                                         /\ \A n \in DOMAIN w.mail : w.mail[n].late
  /\ w.pc = "executed" =>
       /\ w.state.done \subseteq w.result.state.done
       /\ w.state.stopped => w.result.state.stopped
       /\ w.result.postponed => w.result.next /\ w.result.state = w.state
       /\ w.result.executed => /\ w.action \in UserActions /\ w.action \notin w.state.done
                               /\ w.result.postponed \/ w.action \in w.result.state.done

Restarts ==
  \A u \in UserActions : ua[u].pc = "built" =>
    /\ ua[u].target # 0 /\ ua[u].target - 1 \in Indexes
    /\ wf[ua[u].target - 1].pc = "ended"
    /\ ua[u].state.done = wf[ua[u].target - 1].known.done

Routes ==
  \A u \in UserActions :
    /\ ua[u].pc = "send" => ua[u].target \in Indexes /\ wf[ua[u].target].pc # "none"
    /\ ua[u].pc \in {"checked", "built"} => ua[u].kind = "restart"

Counts ==
  \A i \in Indexes, u \in UserActions :
    IsLast(i) => executions[u] <= dropped[u] + IF Held(wf[i], u) THEN 1 ELSE 0

Answers ==
  \A i \in Indexes, u \in UserActions :
    IsLast(i) /\ Answered(ua[u]) => dropped[u] > 0 \/ Held(wf[i], u)

Inv ==
  /\ TypeOK /\ Handover /\ Successors /\ (\E i \in Indexes : IsLast(i))
  /\ (\A i \in Indexes : Consistent(wf[i]))
  /\ Restarts /\ Routes /\ Counts /\ Answers
-----------------------------------------------------------------------------
(* There is one last workflow: the others have handed over to it.          *)
LEMMA OneLast ==
  ASSUME Handover, NEW i \in Indexes, NEW j \in Indexes, IsLast(i), IsLast(j)
  PROVE  i = j
BY BoundsAssumption DEF Handover, IsLast, Indexes

(* A workflow that still works is the last one.                            *)
LEMMA WorkingIsLast ==
  ASSUME Handover, NEW i \in Indexes, Working(wf[i])
  PROVE  IsLast(i)
BY BoundsAssumption DEF Handover, IsLast, Working, Indexes

(* The last workflow may do anything but start others: the invariant then  *)
(* only depends on what the workflow has become.                           *)
LEMMA LastMoves ==
  ASSUME Inv, NEW i \in Indexes, NEW w \in Workflow,
         Working(wf[i]), wf' = [wf EXCEPT ![i] = w], w.pc \notin {"none", "closing"},
         Consistent(w),
         ua' \in [UserActions -> UserAction],
         \A u \in UserActions : /\ ua'[u].pc = ua[u].pc /\ ua'[u].target = ua[u].target
                                /\ ua'[u].state = ua[u].state /\ ua'[u].kind = ua[u].kind,
         executions' \in [UserActions -> Nat], dropped' \in [UserActions -> Nat],
         faults' \in 0 .. MaxFaults,
         \A u \in UserActions : executions'[u] <= dropped'[u] + IF Held(w, u) THEN 1 ELSE 0,
         \A u \in UserActions : Answered(ua'[u]) => dropped'[u] > 0 \/ Held(w, u)
  PROVE  Inv'
<1>1. wf \in [Indexes -> Workflow] /\ wf' \in [Indexes -> Workflow]
  BY DEF Inv, TypeOK
<1>2. TypeOK'
  BY <1>1 DEF TypeOK
<1>3. IsLast(i)
  BY WorkingIsLast DEF Inv
<1>4. \A j \in Indexes : wf'[j] = IF j = i THEN w ELSE wf[j]
  BY <1>1
<1>5. IsLast(i)' /\ \A j \in Indexes : IsLast(j)' => j = i
  BY <1>3, <1>4, BoundsAssumption DEF IsLast, Indexes
<1>6. Handover'
  BY <1>3, <1>4 DEF Inv, Handover, IsLast, Indexes
<1>7. Successors'
  BY <1>4 DEF Inv, Successors
<1>8. (\A j \in Indexes : Consistent(wf[j]))'
  BY <1>4 DEF Inv
<1>9. Restarts'
  BY <1>4 DEF Inv, Restarts, Working
<1>10. Routes'
  BY <1>4 DEF Inv, Routes, Working
<1>11. Counts' /\ Answers'
  BY <1>4, <1>5 DEF Counts, Answers
<1>. QED
  BY <1>2, <1>5, <1>6, <1>7, <1>8, <1>9, <1>10, <1>11 DEF Inv

(* A user action that changes nothing but itself.                          *)
LEMMA UserMoves ==
  ASSUME Inv, NEW u \in UserActions, NEW x \in UserAction,
         ua' = [ua EXCEPT ![u] = x], UNCHANGED <<wf, executions, dropped, faults>>,
         x.kind = ua[u].kind,
         x.pc = "send" => x.target \in Indexes /\ wf[x.target].pc # "none",
         x.pc \in {"checked", "built"} => x.kind = "restart",
         x.pc = "built" => /\ x.target # 0 /\ x.target - 1 \in Indexes
                           /\ wf[x.target - 1].pc = "ended"
                           /\ x.state.done = wf[x.target - 1].known.done,
         Answered(x) => Answered(ua[u])
  PROVE  Inv'
<1>1. ua \in [UserActions -> UserAction] /\ ua' \in [UserActions -> UserAction]
  BY DEF Inv, TypeOK
<1>2. \A v \in UserActions : ua'[v] = IF v = u THEN x ELSE ua[v]
  BY <1>1
<1>3. TypeOK'
  BY <1>1 DEF Inv, TypeOK
<1>4. Handover' /\ Successors' /\ (\E i \in Indexes : IsLast(i))'
      /\ (\A i \in Indexes : Consistent(wf[i]))' /\ Counts'
  BY DEF Inv, Handover, Successors, IsLast, Consistent, Counts, Held
<1>5. Restarts' /\ Routes'
  BY <1>2 DEF Inv, Restarts, Routes
<1>6. Answers'
  BY <1>2 DEF Inv, Answers, IsLast, Held
<1>. QED
  BY <1>3, <1>4, <1>5, <1>6 DEF Inv
-----------------------------------------------------------------------------
(* The parts of the invariant, for one workflow.                           *)
LEMMA Parts ==
  ASSUME Inv, NEW i \in Indexes
  PROVE  /\ wf[i] \in Workflow /\ Consistent(wf[i])
         /\ ua \in [UserActions -> UserAction] /\ wf \in [Indexes -> Workflow]
         /\ executions \in [UserActions -> Nat] /\ dropped \in [UserActions -> Nat]
         /\ faults \in 0 .. MaxFaults
BY DEF Inv, TypeOK

(* What the last workflow knows of the executions and the answers.         *)
LEMMA LastKnows ==
  ASSUME Inv, NEW i \in Indexes, Working(wf[i]), NEW u \in UserActions
  PROVE  /\ executions[u] <= dropped[u] + IF Held(wf[i], u) THEN 1 ELSE 0
         /\ Answered(ua[u]) => dropped[u] > 0 \/ Held(wf[i], u)
<1>1. IsLast(i)
  BY WorkingIsLast DEF Inv
<1>. QED
  BY <1>1 DEF Inv, Counts, Answers

(* A workflow that only moves on, without a result or a new state.         *)
LEMMA MovesOn ==
  ASSUME Inv, NEW i \in Indexes, NEW w \in Workflow,
         Working(wf[i]), wf[i].pc # "executed", wf' = [wf EXCEPT ![i] = w],
         w.pc \notin {"none", "closing", "executed"}, Consistent(w),
         w.state.done = wf[i].state.done,
         UNCHANGED <<ua, executions, dropped, faults>>
  PROVE  Inv'
<1>1. \A u \in UserActions : Held(w, u) <=> Held(wf[i], u)
  BY DEF Held
<1>2. \A u \in UserActions : executions'[u] <= dropped'[u] + IF Held(w, u) THEN 1 ELSE 0
  BY <1>1, LastKnows
<1>3. \A u \in UserActions : Answered(ua'[u]) => dropped'[u] > 0 \/ Held(w, u)
  BY <1>1, LastKnows
<1>. QED
  BY <1>2, <1>3, LastMoves, Parts

LEMMA Taken ==
  ASSUME Inv, NEW i \in Indexes, NEW x \in UserActions \cup {NoAction}, NEW rest \in Seq(Message)
  PROVE  /\ Take(i, x, rest) \in Workflow /\ Consistent(Take(i, x, rest))
         /\ Take(i, x, rest).pc = "iterate" /\ Take(i, x, rest).state = wf[i].state
<1>1. wf[i] \in Workflow /\ Consistent(wf[i])
  BY Parts
<1>2. 0 \in 0 .. MaxAttempts
  BY BoundsAssumption
<1>. QED
  BY <1>1, <1>2 DEF Take, Workflow, Consistent

LEMMA FirstMessage ==
  ASSUME Inv, NEW i \in Indexes, wf[i].mail # <<>>
  PROVE  Head(wf[i].mail).action \in UserActions /\ Tail(wf[i].mail) \in Seq(Message)
<1>1. wf[i].mail \in Seq(Message)
  BY Parts DEF Workflow
<1>2. Head(wf[i].mail) \in Message /\ Tail(wf[i].mail) \in Seq(Message)
  BY <1>1
<1>. QED
  BY <1>2 DEF Message

LEMMA ReceiveKeeps ==
  ASSUME Inv, NEW i \in Indexes, Receive(i)
  PROVE  Inv'
<1>1. Head(wf[i].mail).action \in UserActions \cup {NoAction} /\ Tail(wf[i].mail) \in Seq(Message)
  BY FirstMessage DEF Receive
<1>. DEFINE w == Take(i, Head(wf[i].mail).action, Tail(wf[i].mail))
<1>2. w \in Workflow /\ Consistent(w) /\ w.pc = "iterate" /\ w.state = wf[i].state
  BY <1>1, Taken
<1>3. wf' = [wf EXCEPT ![i] = w] /\ Working(wf[i]) /\ wf[i].pc = "wait"
      /\ UNCHANGED <<ua, executions, dropped, faults>>
  BY Parts DEF Receive, Working
<1>. QED
  BY <1>2, <1>3, MovesOn

LEMMA ExecutionTimeKeeps ==
  ASSUME Inv, NEW i \in Indexes, ExecutionTime(i)
  PROVE  Inv'
<1>. DEFINE w == Take(i, NoAction, <<>>)
<1>0. NoAction \in UserActions \cup {NoAction} /\ <<>> \in Seq(Message)
  OBVIOUS
<1>1. w \in Workflow /\ Consistent(w) /\ w.pc = "iterate" /\ w.state = wf[i].state
  BY <1>0, Taken
<1>2. wf' = [wf EXCEPT ![i] = w] /\ Working(wf[i]) /\ wf[i].pc = "wait"
      /\ UNCHANGED <<ua, executions, dropped, faults>>
  BY Parts DEF ExecutionTime, Working
<1>. QED
  BY <1>1, <1>2, MovesOn

LEMMA IgnoreForcedKeeps ==
  ASSUME Inv, NEW i \in Indexes, IgnoreForced(i)
  PROVE  Inv'
<1>. DEFINE w == [wf[i] EXCEPT !.mail = Tail(@)]
<1>1. Tail(wf[i].mail) \in Seq(Message)
  BY FirstMessage DEF IgnoreForced
<1>2. w \in Workflow /\ Consistent(w) /\ w.pc = "drain" /\ w.state = wf[i].state
  BY <1>1, Parts DEF Workflow, Consistent, IgnoreForced
<1>3. wf' = [wf EXCEPT ![i] = w] /\ Working(wf[i]) /\ wf[i].pc = "drain"
      /\ UNCHANGED <<ua, executions, dropped, faults>>
  BY Parts DEF IgnoreForced, Working
<1>. QED
  BY <1>2, <1>3, MovesOn

LEMMA ReceiveExtraKeeps ==
  ASSUME Inv, NEW i \in Indexes, ReceiveExtra(i)
  PROVE  Inv'
<1>1. Head(wf[i].mail).action \in UserActions \cup {NoAction} /\ Tail(wf[i].mail) \in Seq(Message)
  BY FirstMessage DEF ReceiveExtra
<1>. DEFINE t == Take(i, Head(wf[i].mail).action, Tail(wf[i].mail))
            w == [t EXCEPT !.draining = TRUE]
<1>2. t \in Workflow /\ Consistent(t) /\ t.pc = "iterate" /\ t.state = wf[i].state
  BY <1>1, Taken
<1>. HIDE DEF t
<1>3. w \in Workflow /\ Consistent(w) /\ w.pc = "iterate" /\ w.state = wf[i].state
  BY <1>2 DEF Workflow, Consistent
<1>4. wf' = [wf EXCEPT ![i] = w] /\ Working(wf[i]) /\ wf[i].pc = "drain"
      /\ UNCHANGED <<ua, executions, dropped, faults>>
  BY Parts DEF ReceiveExtra, Working, t
<1>. QED
  BY <1>3, <1>4, MovesOn

LEMMA EndedIsWorkflow ==
  ASSUME NEW s \in State
  PROVE  /\ Ended(s) \in Workflow /\ Consistent(Ended(s)) /\ Ended(s).pc = "ended"
         /\ Ended(s).state = s
<1>1. 0 \in 0 .. MaxAttempts
  BY BoundsAssumption
<1>2. NoResult \in Result
  BY DEF NoResult, Outcome, Result, NewState, State
<1>3. Ended(s) \in Workflow
  BY <1>1, <1>2 DEF Ended, NewWorkflow, Workflow
<1>. QED
  BY <1>3 DEF Ended, NewWorkflow, Consistent

LEMMA NothingLeftKeeps ==
  ASSUME Inv, NEW i \in Indexes, NothingLeft(i)
  PROVE  Inv'
<1>. DEFINE w == IF ShouldStop(wf[i]) THEN Ended(wf[i].state) ELSE [wf[i] EXCEPT !.pc = "schedule"]
<1>1. wf[i] \in Workflow /\ Consistent(wf[i]) /\ wf[i].pc = "drain" /\ wf[i].mail = <<>>
  BY Parts DEF NothingLeft
<1>2. wf[i].state \in State
  BY <1>1 DEF Workflow
<1>3. /\ w \in Workflow /\ Consistent(w) /\ w.pc \in {"ended", "schedule"}
      /\ w.state.done = wf[i].state.done
  <2>1. CASE ShouldStop(wf[i])
    BY <2>1, <1>2, EndedIsWorkflow
  <2>2. CASE ~ShouldStop(wf[i])
    BY <2>2, <1>1 DEF Workflow, Consistent, ShouldStop
  <2>. QED
    BY <2>1, <2>2
<1>4. wf' = [wf EXCEPT ![i] = w] /\ Working(wf[i])
      /\ UNCHANGED <<ua, executions, dropped, faults>>
  BY <1>1, Parts DEF NothingLeft, Working
<1>. HIDE DEF w
<1>. QED
  BY <1>1, <1>3, <1>4, MovesOn

-----------------------------------------------------------------------------
(* The outcomes of an attempt: what was done stays done, what was stopped  *)
(* stays stopped, and only what the state does not know is executed.       *)
LEMMA OutcomesOfAttempts ==
  ASSUME NEW a \in UserActions \cup {NoAction}, NEW s \in State, NEW o \in Outcomes(a, s)
  PROVE  /\ o \in Result
         /\ s.done \subseteq o.state.done /\ (s.stopped => o.state.stopped)
         /\ o.postponed => o.next /\ o.state = s
         /\ o.executed => /\ a \in UserActions /\ a \notin s.done
                          /\ o.postponed \/ a \in o.state.done
         /\ IsPriority(a) /\ ~o.error => o.executed
<1>1. CASE IsPriority(a)
  <2>1. a \in UserActions
    BY <1>1 DEF IsPriority
  <2>. DEFINE after == [s EXCEPT !.done = @ \cup {a}]
              stop == [after EXCEPT !.stopped = @ \/ ua[a].kind = "stop"]
  <2>2. /\ after \in State /\ after.done = s.done \cup {a} /\ after.stopped = s.stopped
    BY <2>1 DEF State
  <2>3. /\ stop \in State /\ stop.done = after.done /\ (after.stopped => stop.stopped)
    <3>. HIDE DEF after
    <3>. QED
      BY <2>2 DEF State
  <2>. HIDE DEF after, stop
  <2>4. \/ o = Outcome(s, FALSE, TRUE, TRUE, TRUE) \/ o = Outcome(s, TRUE, TRUE, TRUE, TRUE)
        \/ /\ a \notin s.done
           /\ \E n \in BOOLEAN : \/ o = Outcome(stop, TRUE, FALSE, FALSE, n)
                                 \/ o = Outcome(after, TRUE, TRUE, FALSE, n)
    BY <1>1 DEF Outcomes, PriorityOutcomes, after, stop
  <2>5. o = Outcome(s, TRUE, TRUE, TRUE, TRUE) => a \notin s.done
    BY <1>1 DEF Outcomes, PriorityOutcomes, Outcome
  <2>6. CASE o = Outcome(s, FALSE, TRUE, TRUE, TRUE)
    BY <2>6 DEF Outcome, Result
  <2>7. CASE o = Outcome(s, TRUE, TRUE, TRUE, TRUE)
    BY <2>1, <2>5, <2>7 DEF Outcome, Result
  <2>8. ASSUME a \notin s.done, NEW n \in BOOLEAN, o = Outcome(stop, TRUE, FALSE, FALSE, n)
        PROVE  /\ o \in Result /\ s.done \subseteq o.state.done /\ (s.stopped => o.state.stopped)
               /\ ~o.postponed /\ o.executed /\ a \in o.state.done
    <3>1. /\ o.state = stop /\ o.executed = TRUE /\ o.error = FALSE /\ o.postponed = FALSE
          /\ o \in Result
      BY <2>2, <2>3, <2>8 DEF Outcome, Result
    <3>. QED
      BY <2>2, <2>3, <3>1
  <2>9. ASSUME a \notin s.done, NEW n \in BOOLEAN, o = Outcome(after, TRUE, TRUE, FALSE, n)
        PROVE  /\ o \in Result /\ s.done \subseteq o.state.done /\ (s.stopped => o.state.stopped)
               /\ ~o.postponed /\ o.executed /\ a \in o.state.done
    <3>1. /\ o.state = after /\ o.executed = TRUE /\ o.error = TRUE /\ o.postponed = FALSE
          /\ o \in Result
      BY <2>2, <2>9 DEF Outcome, Result
    <3>. QED
      BY <2>2, <3>1
  <2>. QED
    BY <2>1, <2>4, <2>6, <2>7, <2>8, <2>9
<1>2. CASE ~IsPriority(a)
  <2>1. CASE o = Outcome(s, FALSE, TRUE, TRUE, TRUE)
    BY <2>1, <1>2 DEF Outcome, Result
  <2>2. CASE o # Outcome(s, FALSE, TRUE, TRUE, TRUE)
    <3>1. PICK x \in [stop : BOOLEAN, error : BOOLEAN, next : BOOLEAN] :
            o = Outcome([s EXCEPT !.stopped = @ \/ x.stop], FALSE, x.error, FALSE, x.next)
      BY <2>2, <1>2 DEF Outcomes, GraphOutcomes
    <3>. DEFINE t == [s EXCEPT !.stopped = @ \/ x.stop]
    <3>2. t \in State /\ t.done = s.done /\ (s.stopped => t.stopped)
      BY DEF State
    <3>. HIDE DEF t
    <3>3. o = Outcome(t, FALSE, x.error, FALSE, x.next)
      BY <3>1 DEF t
    <3>. QED
      BY <3>2, <3>3, <1>2 DEF Outcome, Result
  <2>. QED
    BY <2>1, <2>2
<1>. QED
  BY <1>1, <1>2

(* Counting an execution adds one to it at most.                           *)
LEMMA Counted ==
  ASSUME NEW f \in [UserActions -> Nat], NEW a, NEW n \in BOOLEAN, n => a \in UserActions
  PROVE  /\ Count(f, a, n) \in [UserActions -> Nat]
         /\ \A u \in UserActions : Count(f, a, n)[u] = IF n /\ u = a THEN f[u] + 1 ELSE f[u]
BY DEF Count

(* An answer only reaches the workflow that awaits one.                    *)
LEMMA Replied ==
  ASSUME ua \in [UserActions -> UserAction], NEW a \in UserActions \cup {NoAction},
         NEW r \in {"ok", "failed"}
  PROVE  /\ Answer(a, r) \in [UserActions -> UserAction]
         /\ \A u \in UserActions :
              /\ Answer(a, r)[u].pc = ua[u].pc /\ Answer(a, r)[u].target = ua[u].target
              /\ Answer(a, r)[u].state = ua[u].state /\ Answer(a, r)[u].kind = ua[u].kind
              /\ Answered(Answer(a, r)[u]) =>
                   Answered(ua[u]) \/ (r = "ok" /\ u = a /\ ua[a].kind = "signal")
<1>1. CASE Answer(a, r) = ua
  BY <1>1
<1>2. CASE Answer(a, r) # ua
  <2>1. a \in UserActions /\ ua[a].kind = "signal"
    BY <1>2 DEF Answer
  <2>. DEFINE x == [ua[a] EXCEPT !.reply = r]
  <2>2. x \in UserAction /\ x.pc = ua[a].pc /\ x.target = ua[a].target /\ x.state = ua[a].state
        /\ x.kind = ua[a].kind /\ x.reply = r /\ x.status = ua[a].status
    BY <2>1 DEF UserAction
  <2>. HIDE DEF x
  <2>3. Answer(a, r) = [ua EXCEPT ![a] = x]
    BY <1>2 DEF Answer, x
  <2>. QED
    BY <2>1, <2>2, <2>3 DEF Answered
<1>. QED
  BY <1>1, <1>2

LEMMA AttemptKeeps ==
  ASSUME Inv, NEW i \in Indexes, Attempt(i)
  PROVE  Inv'
<1>. DEFINE a == wf[i].action
<1>1. wf[i] \in Workflow /\ Consistent(wf[i]) /\ wf[i].pc = "iterate" /\ Working(wf[i])
  BY Parts DEF Attempt, Working
<1>2. wf[i].state \in State /\ a \in UserActions \cup {NoAction}
  BY <1>1 DEF Workflow
<1>3. PICK o \in Outcomes(a, wf[i].state) :
        /\ wf' = [wf EXCEPT ![i] = [wf[i] EXCEPT !.pc = "executed", !.result = o]]
        /\ executions' = Count(executions, a, o.executed)
        /\ ua' = Answer(a, IF o.error THEN "failed" ELSE "ok")
        /\ UNCHANGED <<dropped, faults>>
  BY Parts DEF Attempt
<1>4. /\ o \in Result
      /\ wf[i].state.done \subseteq o.state.done /\ (wf[i].state.stopped => o.state.stopped)
      /\ o.postponed => o.next /\ o.state = wf[i].state
      /\ o.executed => /\ a \in UserActions /\ a \notin wf[i].state.done
                       /\ o.postponed \/ a \in o.state.done
      /\ IsPriority(a) /\ ~o.error => o.executed
  BY <1>2, OutcomesOfAttempts
<1>. DEFINE w == [wf[i] EXCEPT !.pc = "executed", !.result = o]
<1>5. w \in Workflow /\ w.pc = "executed" /\ w.result = o /\ w.action = a /\ w.state = wf[i].state
      /\ w.known = wf[i].known
  BY <1>1, <1>4 DEF Workflow
<1>. HIDE DEF w
<1>6. Consistent(w)
  BY <1>1, <1>4, <1>5 DEF Consistent
<1>7. \A u \in UserActions : Held(w, u) <=> Held(wf[i], u) \/ (u = a /\ o.executed)
  BY <1>1, <1>5 DEF Held
<1>8. o.executed => ~Held(wf[i], a)
  BY <1>1, <1>4 DEF Held
<1>9. o.executed \in BOOLEAN /\ dropped' = dropped /\ faults' = faults
  BY <1>3, <1>4 DEF Result
<1>10. /\ executions' \in [UserActions -> Nat]
       /\ \A u \in UserActions : executions'[u] = IF o.executed /\ u = a THEN executions[u] + 1
                                                                     ELSE executions[u]
  BY <1>3, <1>4, <1>9, Counted, Parts
<1>11. \A u \in UserActions : executions'[u] <= dropped'[u] + IF Held(w, u) THEN 1 ELSE 0
  <2>. TAKE u \in UserActions
  <2>1. executions[u] <= dropped[u] + IF Held(wf[i], u) THEN 1 ELSE 0
    BY <1>1, LastKnows
  <2>2. executions[u] \in Nat /\ dropped[u] \in Nat
    BY Parts
  <2>. QED
    BY <2>1, <2>2, <1>7, <1>8, <1>9, <1>10
<1>12. /\ ua' \in [UserActions -> UserAction]
       /\ \A u \in UserActions :
            /\ ua'[u].pc = ua[u].pc /\ ua'[u].target = ua[u].target
            /\ ua'[u].state = ua[u].state /\ ua'[u].kind = ua[u].kind
            /\ Answered(ua'[u]) => Answered(ua[u]) \/ (~o.error /\ u = a /\ ua[a].kind = "signal")
  BY <1>2, <1>3, Replied, Parts
<1>13. \A u \in UserActions : Answered(ua'[u]) => dropped'[u] > 0 \/ Held(w, u)
  <2>. TAKE u \in UserActions
  <2>1. CASE Answered(ua[u])
    BY <2>1, <1>1, <1>7, <1>9, LastKnows
  <2>2. CASE ~o.error /\ u = a /\ ua[a].kind = "signal"
    <3>1. IsPriority(a)
      BY <2>2, ActionsAssumption DEF IsPriority
    <3>. QED
      BY <2>2, <3>1, <1>4, <1>7
  <2>. QED
    BY <2>1, <2>2, <1>12
<1>14. wf' = [wf EXCEPT ![i] = w] /\ w.pc \notin {"none", "closing"} /\ faults' \in 0 .. MaxFaults
       /\ dropped' \in [UserActions -> Nat]
  BY <1>3, <1>5, <1>9, Parts DEF w
<1>. QED
  BY <1>1, <1>5, <1>6, <1>10, <1>11, <1>12, <1>13, <1>14, LastMoves

(* What is forgotten is what was done and is not known.                    *)
LEMMA Forgotten ==
  ASSUME NEW f \in [UserActions -> Nat], NEW w
  PROVE  /\ Forget(f, w) \in [UserActions -> Nat]
         /\ \A u \in UserActions :
              Forget(f, w)[u] = IF u \in w.state.done /\ u \notin w.known.done THEN f[u] + 1 ELSE f[u]
BY DEF Forget

LEMMA AttemptRaisesKeeps ==
  ASSUME Inv, NEW i \in Indexes, AttemptRaises(i)
  PROVE  Inv'
<1>. DEFINE v == wf[i]
            a == wf[i].action
<1>1. v \in Workflow /\ Consistent(v) /\ v.pc = "iterate" /\ Working(v)
  BY Parts DEF AttemptRaises, Working
<1>2. a \in UserActions \cup {NoAction} /\ v.known \in State /\ v.attempts \in Nat
  BY <1>1 DEF Workflow
<1>3. PICK x \in BOOLEAN, retried \in BOOLEAN :
        /\ x => a \in UserActions /\ a \notin v.state.done
        /\ retried => v.attempts + 1 < MaxAttempts
        /\ executions' = Count(executions, a, x)
        /\ retried => /\ wf' = [wf EXCEPT ![i] = [v EXCEPT !.attempts = @ + 1]]
                      /\ dropped' = Count(dropped, a, x) /\ ua' = ua
        /\ ~retried => /\ wf' = [wf EXCEPT ![i] = Interrupted(v)]
                       /\ dropped' = Forget(Count(dropped, a, x), v)
                       /\ ua' = ua \/ ua' = Answer(a, "failed")
  <2>1. PICK x \in {FALSE} \cup (IF IsPriority(a) /\ a \notin v.state.done THEN {TRUE} ELSE {}),
             retried \in BOOLEAN :
               /\ retried => v.attempts + 1 < MaxAttempts
               /\ executions' = Count(executions, a, x)
               /\ IF retried
                  THEN /\ wf' = [wf EXCEPT ![i].attempts = @ + 1]
                       /\ dropped' = Count(dropped, a, x) /\ UNCHANGED ua
                  ELSE /\ wf' = [wf EXCEPT ![i] = Interrupted(@)]
                       /\ dropped' = Forget(Count(dropped, a, x), v)
                       /\ ua' = IF v.draining THEN ua ELSE Answer(a, "failed")
    BY DEF AttemptRaises
  <2>2. x \in BOOLEAN /\ (x => a \in UserActions /\ a \notin v.state.done)
    BY <1>2, <2>1 DEF IsPriority
  <2>. HIDE DEF a
  <2>. QED
    BY <2>1, <2>2, Parts
<1>4. /\ executions' \in [UserActions -> Nat] /\ Count(dropped, a, x) \in [UserActions -> Nat]
      /\ \A u \in UserActions :
           /\ executions'[u] = IF x /\ u = a THEN executions[u] + 1 ELSE executions[u]
           /\ Count(dropped, a, x)[u] = IF x /\ u = a THEN dropped[u] + 1 ELSE dropped[u]
  BY <1>3, Counted, Parts
<1>5. /\ ua' \in [UserActions -> UserAction]
      /\ \A u \in UserActions :
           /\ ua'[u].pc = ua[u].pc /\ ua'[u].target = ua[u].target
           /\ ua'[u].state = ua[u].state /\ ua'[u].kind = ua[u].kind
           /\ Answered(ua'[u]) => Answered(ua[u])
  <2>1. CASE ua' = ua
    BY <2>1, Parts
  <2>2. CASE ua' = Answer(a, "failed")
    BY <2>2, <1>2, Replied, Parts
  <2>. QED
    BY <1>3, <2>1, <2>2
<1>6. faults' \in 0 .. MaxFaults
  BY Parts, BoundsAssumption DEF AttemptRaises
<1>7. \A u \in UserActions :
        /\ executions[u] \in Nat /\ dropped[u] \in Nat
        /\ executions[u] <= dropped[u] + IF u \in v.state.done THEN 1 ELSE 0
        /\ Answered(ua[u]) => dropped[u] > 0 \/ u \in v.state.done
  BY <1>1, LastKnows, Parts DEF Held
<1>8. CASE retried
  <2>. DEFINE w == [v EXCEPT !.attempts = @ + 1]
  <2>1. v.attempts + 1 \in 0 .. MaxAttempts
    BY <1>2, <1>3, <1>8, BoundsAssumption
  <2>2. w \in Workflow /\ w.pc = "iterate" /\ Consistent(w) /\ w.state = v.state
    BY <1>1, <2>1 DEF Workflow, Consistent
  <2>. HIDE DEF w
  <2>3. \A u \in UserActions : Held(w, u) <=> u \in v.state.done
    BY <2>2 DEF Held
  <2>4. dropped' = Count(dropped, a, x) /\ wf' = [wf EXCEPT ![i] = w]
    BY <1>3, <1>8 DEF w
  <2>5. \A u \in UserActions : executions'[u] <= dropped'[u] + IF Held(w, u) THEN 1 ELSE 0
    BY <1>4, <1>7, <2>3, <2>4
  <2>6. \A u \in UserActions : Answered(ua'[u]) => dropped'[u] > 0 \/ Held(w, u)
    BY <1>4, <1>5, <1>7, <2>3, <2>4
  <2>. QED
    BY <1>1, <1>4, <1>5, <1>6, <2>2, <2>4, <2>5, <2>6, LastMoves
<1>9. CASE ~retried
  <2>. DEFINE w == Interrupted(v)
  <2>1. w \in Workflow /\ w.pc = "ended" /\ Consistent(w) /\ w.state = v.known
    BY <1>2, EndedIsWorkflow DEF Interrupted
  <2>. HIDE DEF w
  <2>2. \A u \in UserActions : Held(w, u) <=> u \in v.known.done
    BY <2>1 DEF Held
  <2>3. dropped' = Forget(Count(dropped, a, x), v) /\ wf' = [wf EXCEPT ![i] = w]
    BY <1>3, <1>9 DEF w
  <2>4. /\ dropped' \in [UserActions -> Nat]
        /\ \A u \in UserActions :
             dropped'[u] = IF u \in v.state.done /\ u \notin v.known.done
                           THEN Count(dropped, a, x)[u] + 1 ELSE Count(dropped, a, x)[u]
    BY <1>4, <2>3, Forgotten
  <2>5. \A u \in UserActions : executions'[u] <= dropped'[u] + IF Held(w, u) THEN 1 ELSE 0
    BY <1>4, <1>7, <2>2, <2>4
  <2>6. \A u \in UserActions : Answered(ua'[u]) => dropped'[u] > 0 \/ Held(w, u)
    BY <1>4, <1>5, <1>7, <2>2, <2>4
  <2>. QED
    BY <1>1, <1>4, <1>5, <1>6, <2>1, <2>3, <2>4, <2>5, <2>6, LastMoves
<1>. QED
  BY <1>8, <1>9

LEMMA RecordKeeps ==
  ASSUME Inv, NEW i \in Indexes, Record(i)
  PROVE  Inv'
<1>. DEFINE v == wf[i]
            o == wf[i].result
            a == wf[i].action
            goes == ShouldContinue(v, o)
<1>1. v \in Workflow /\ Consistent(v) /\ v.pc = "executed" /\ Working(v)
  BY Parts DEF Record, Working
<1>2. /\ o \in Result /\ o.state \in State /\ v.known \in State /\ v.state \in State
      /\ o.executed \in BOOLEAN /\ o.postponed \in BOOLEAN /\ o.next \in BOOLEAN
  BY <1>1 DEF Workflow, Result
<1>3. /\ v.state.done \subseteq o.state.done /\ (v.state.stopped => o.state.stopped)
      /\ o.postponed => o.next /\ o.state = v.state
      /\ o.executed => /\ a \in UserActions /\ a \notin v.state.done
                       /\ o.postponed \/ a \in o.state.done
      /\ v.state.stopped => v.known.stopped
  BY <1>1 DEF Consistent
<1>4. /\ wf' = [wf EXCEPT ![i] = Recorded(v)] /\ UNCHANGED <<ua, executions, faults>>
      /\ dropped' = IF o.postponed THEN Count(dropped, a, o.executed)
                    ELSE IF v.draining /\ goes /\ ~o.next
                    THEN Forget(dropped, [v EXCEPT !.state = o.state]) ELSE dropped
  BY Parts DEF Record
<1>5. \A u \in UserActions :
        /\ executions'[u] = executions[u] /\ ua'[u] = ua[u]
        /\ executions[u] \in Nat /\ dropped[u] \in Nat
        /\ executions[u] <= dropped[u] + IF u \in v.state.done \/ (a = u /\ o.executed) THEN 1 ELSE 0
        /\ Answered(ua[u]) => dropped[u] > 0 \/ u \in v.state.done \/ (a = u /\ o.executed)
  BY <1>1, <1>4, LastKnows, Parts DEF Held
<1>6. /\ executions' \in [UserActions -> Nat] /\ ua' \in [UserActions -> UserAction]
      /\ faults' \in 0 .. MaxFaults
  BY <1>4, Parts
<1>7. o.postponed => goes
  BY DEF ShouldContinue
\* The workflow ends with what the iteration left.
<1>8. CASE ~goes \/ (~o.next /\ ~v.draining)
  <2>1. Recorded(v) = Ended(o.state)
    BY <1>8 DEF Recorded
  <2>. DEFINE w == Ended(o.state)
  <2>2. w \in Workflow /\ w.pc = "ended" /\ Consistent(w) /\ w.state = o.state
    BY <1>2, EndedIsWorkflow
  <2>. HIDE DEF w, goes
  <2>3. ~o.postponed /\ dropped' = dropped
    BY <1>3, <1>4, <1>7, <1>8
  <2>4. \A u \in UserActions : Held(w, u) <=> u \in o.state.done
    BY <2>2 DEF Held
  <2>5. \A u \in UserActions : executions'[u] <= dropped'[u] + IF Held(w, u) THEN 1 ELSE 0
    BY <1>3, <1>5, <2>3, <2>4
  <2>6. \A u \in UserActions : Answered(ua'[u]) => dropped'[u] > 0 \/ Held(w, u)
    BY <1>3, <1>5, <2>3, <2>4
  <2>7. wf' = [wf EXCEPT ![i] = w] /\ dropped' \in [UserActions -> Nat]
    BY <1>4, <2>1, <2>3, Parts DEF w
  <2>. QED
    BY <1>1, <1>5, <1>6, <2>2, <2>5, <2>6, <2>7, LastMoves
\* The workflow looks at the messages that came meanwhile.
<1>9. CASE goes /\ o.next
  <2>. DEFINE w == [v EXCEPT !.pc = "drain", !.state = o.state, !.result = NoResult,
                             !.known = IF v.draining THEN v.known ELSE o.state,
                             !.postponed = o.postponed, !.action = NoAction, !.attempts = 0]
  <2>1. NoResult \in Result /\ 0 \in 0 .. MaxAttempts
    BY BoundsAssumption DEF NoResult, Outcome, Result, NewState, State
  <2>2. w \in Workflow /\ w.pc = "drain" /\ w.state = o.state
        /\ w.known = IF v.draining THEN v.known ELSE o.state
    BY <1>1, <1>2, <2>1 DEF Workflow
  <2>3. Recorded(v) = w
    BY <1>1, <1>2, <1>9 DEF Recorded, Workflow
  <2>. HIDE DEF w
  <2>4. o.state.stopped => w.known.stopped
    BY <1>3, <1>9, <2>2 DEF ShouldContinue
  <2>5. Consistent(w)
    BY <2>2, <2>4 DEF Consistent
  <2>6. \A u \in UserActions : Held(w, u) <=> u \in o.state.done
    BY <2>2 DEF Held
  <2>. HIDE DEF goes
  <2>7. /\ dropped' \in [UserActions -> Nat]
        /\ \A u \in UserActions :
             dropped'[u] = IF o.postponed /\ o.executed /\ u = a THEN dropped[u] + 1 ELSE dropped[u]
    <3>1. CASE o.postponed
      BY <3>1, <1>2, <1>3, <1>4, Counted, Parts
    <3>2. CASE ~o.postponed
      BY <3>2, <1>4, <1>9, Parts
    <3>. QED
      BY <3>1, <3>2
  <2>8. \A u \in UserActions : executions'[u] <= dropped'[u] + IF Held(w, u) THEN 1 ELSE 0
    BY <1>3, <1>5, <2>6, <2>7
  <2>9. \A u \in UserActions : Answered(ua'[u]) => dropped'[u] > 0 \/ Held(w, u)
    BY <1>3, <1>5, <2>6, <2>7
  <2>10. wf' = [wf EXCEPT ![i] = w]
    BY <1>4, <2>3
  <2>. QED
    BY <1>1, <1>5, <1>6, <2>2, <2>5, <2>7, <2>8, <2>9, <2>10, LastMoves
\* An iteration of a message left nothing to go on with.
<1>10. CASE goes /\ ~o.next /\ v.draining
  <2>. DEFINE w == Ended(v.known)
  <2>1. Recorded(v) = w
    BY <1>1, <1>10 DEF Recorded, Interrupted, Workflow
  <2>2. w \in Workflow /\ w.pc = "ended" /\ Consistent(w) /\ w.state = v.known
    BY <1>2, EndedIsWorkflow
  <2>. HIDE DEF w, goes
  <2>. DEFINE r == [v EXCEPT !.state = o.state]
  <2>3. r.state = o.state /\ r.known = v.known
    BY <1>1 DEF Workflow
  <2>. HIDE DEF r
  <2>4. ~o.postponed /\ dropped' = Forget(dropped, r)
    BY <1>3, <1>4, <1>10 DEF r
  <2>5. /\ dropped' \in [UserActions -> Nat]
        /\ \A u \in UserActions :
             dropped'[u] = IF u \in o.state.done /\ u \notin v.known.done
                           THEN dropped[u] + 1 ELSE dropped[u]
    <3>1. dropped \in [UserActions -> Nat]
      BY Parts
    <3>2. /\ Forget(dropped, r) \in [UserActions -> Nat]
          /\ \A u \in UserActions :
               Forget(dropped, r)[u] = IF u \in r.state.done /\ u \notin r.known.done
                                       THEN dropped[u] + 1 ELSE dropped[u]
      BY <3>1, Forgotten
    <3>. QED
      BY <2>3, <2>4, <3>2
  <2>6. \A u \in UserActions : Held(w, u) <=> u \in v.known.done
    BY <2>2 DEF Held
  <2>7. \A u \in UserActions : executions'[u] <= dropped'[u] + IF Held(w, u) THEN 1 ELSE 0
    BY <1>3, <1>5, <2>4, <2>5, <2>6
  <2>8. \A u \in UserActions : Answered(ua'[u]) => dropped'[u] > 0 \/ Held(w, u)
    BY <1>3, <1>5, <2>4, <2>5, <2>6
  <2>9. wf' = [wf EXCEPT ![i] = w]
    BY <1>4, <2>1
  <2>. QED
    BY <1>1, <1>5, <1>6, <2>2, <2>5, <2>7, <2>8, <2>9, LastMoves
<1>. QED
  BY <1>2, <1>8, <1>9, <1>10
-----------------------------------------------------------------------------
(* The chain: a new workflow is last, and starts from what the one before  *)
(* it knows.                                                               *)
LEMMA Starts ==
  ASSUME Inv, NEW n \in Indexes, NEW s \in State, NEW f \in [Indexes -> Workflow],
         NEW i \in Indexes, n = i + 1, IsLast(i), Consistent(f[i]),
         wf[i].pc \in {"schedule", "ended"}, f[i].pc \in {"closing", "ended"},
         wf[i].pc = "ended" => f[i] = wf[i],
         s.done = wf[i].state.done,
         \A j \in Indexes : j # i /\ j # n => f[j] = wf[j],
         f[n] = NewWorkflow("wait", s), wf' = f,
         ua' \in [UserActions -> UserAction],
         \A u \in UserActions : \/ ua'[u] = ua[u]
                                \/ ua'[u].pc = "done" /\ ~Answered(ua'[u]),
         UNCHANGED <<executions, dropped, faults>>
  PROVE  Inv'
<1>1. TypeOK'
  BY DEF Inv, TypeOK
<1>2. /\ f[n].pc = "wait" /\ f[n].state = s /\ f[n].known = s /\ f[n].mail = <<>>
  BY DEF NewWorkflow
<1>3. i < n /\ \A j \in Indexes : j > n => wf[j].pc = "none" /\ j # i
  BY BoundsAssumption DEF IsLast, Indexes
<1>4. IsLast(n)' /\ \A j \in Indexes : IsLast(j)' => j = n
  BY <1>2, <1>3, BoundsAssumption DEF IsLast, Indexes
<1>5. Handover'
  <2>. SUFFICES ASSUME NEW j \in Indexes, NEW k \in Indexes, j < k, f[k].pc # "none"
                PROVE  f[j].pc \in {"closing", "ended"}
    BY DEF Handover
  <2>1. k <= n
    BY <1>3, BoundsAssumption DEF Indexes
  <2>2. j <= i
    BY <2>1, BoundsAssumption DEF Indexes
  <2>3. CASE j = i
    BY <2>3
  <2>4. CASE j < i
    <3>1. wf[j].pc \in {"closing", "ended"}
      BY <2>4 DEF Inv, Handover, IsLast
    <3>2. j # i /\ j # n
      BY <2>4, BoundsAssumption DEF Indexes
    <3>. QED
      BY <3>1, <3>2
  <2>. QED
    BY <2>2, <2>3, <2>4, BoundsAssumption DEF Indexes
<1>6. Successors'
  <2>. SUFFICES ASSUME NEW j \in Indexes, f[j].pc = "closing"
                PROVE  j + 1 \in Indexes /\ f[j + 1].pc # "none"
    BY DEF Successors
  <2>1. CASE j = i
    BY <2>1, <1>2
  <2>2. CASE j # i
    <3>1. wf[j].pc = "closing"
      BY <2>2, <1>2
    <3>2. j + 1 \in Indexes /\ wf[j + 1].pc # "none"
      BY <3>1 DEF Inv, Successors
    <3>3. CASE j + 1 = i \/ j + 1 = n
      BY <1>2, <3>2, <3>3
    <3>4. CASE j + 1 # i /\ j + 1 # n
      BY <3>2, <3>4
    <3>. QED
      BY <3>3, <3>4
  <2>. QED
    BY <2>1, <2>2
<1>7. (\A j \in Indexes : Consistent(wf[j]))'
  <2>1. Consistent(f[n])
    BY <1>2 DEF Consistent
  <2>. QED
    BY <2>1 DEF Inv
<1>8. Restarts'
  <2>. SUFFICES ASSUME NEW u \in UserActions, ua'[u].pc = "built"
                PROVE  LET k == ua'[u].target - 1
                       IN  /\ ua'[u].target # 0 /\ k \in Indexes /\ f[k].pc = "ended"
                           /\ ua'[u].state.done = f[k].known.done
    BY DEF Restarts
  <2>. DEFINE k == ua[u].target - 1
  <2>1. /\ ua'[u] = ua[u] /\ ua[u].target # 0 /\ k \in Indexes /\ wf[k].pc = "ended"
        /\ ua[u].state.done = wf[k].known.done
    BY DEF Inv, Restarts
  <2>2. wf[n].pc = "none"
    BY <1>3 DEF IsLast
  <2>3. f[k] = wf[k]
    BY <2>1, <2>2
  <2>. QED
    BY <2>1, <2>3
<1>9. Routes'
  BY <1>2 DEF Inv, Routes
<1>10. \A u \in UserActions : Held(f[n], u) <=> u \in wf[i].state.done
  BY <1>2 DEF Held
<1>11. \A u \in UserActions : Held(wf[i], u) <=> u \in wf[i].state.done
  BY DEF Held
<1>12. Counts' /\ Answers'
  <2>1. \A u \in UserActions :
          /\ executions[u] <= dropped[u] + IF u \in wf[i].state.done THEN 1 ELSE 0
          /\ Answered(ua[u]) => dropped[u] > 0 \/ u \in wf[i].state.done
    BY <1>11 DEF Inv, Counts, Answers
  <2>. QED
    BY <1>4, <1>10, <2>1 DEF Counts, Answers
<1>. QED
  BY <1>1, <1>4, <1>5, <1>6, <1>7, <1>8, <1>9, <1>12 DEF Inv

LEMMA NewWorkflowType ==
  ASSUME NEW s \in State
  PROVE  NewWorkflow("wait", s) \in Workflow
<1>1. 0 \in 0 .. MaxAttempts
  BY BoundsAssumption
<1>2. NoResult \in Result
  BY DEF NoResult, Outcome, Result, NewState, State
<1>. QED
  BY <1>1, <1>2 DEF NewWorkflow, Workflow

LEMMA ScheduleNextKeeps ==
  ASSUME Inv, NEW i \in Indexes, ScheduleNext(i)
  PROVE  Inv'
<1>. DEFINE n == i + 1
            s == wf[i].state
            f == [wf EXCEPT ![i].pc = "closing", ![n] = Enqueued(n, s)]
            c == [wf[i] EXCEPT !.pc = "closing"]
<1>1. n \in Indexes /\ i # n /\ wf[i].pc = "schedule" /\ wf' = f
      /\ UNCHANGED <<ua, executions, dropped, faults>>
  BY BoundsAssumption DEF ScheduleNext, Indexes
<1>2. wf[i] \in Workflow /\ Consistent(wf[i]) /\ s \in State
  BY Parts DEF Workflow
<1>3. IsLast(i)
  BY <1>1, WorkingIsLast DEF Inv, Working
<1>4. Enqueued(n, s) = NewWorkflow("wait", s)
  BY <1>1, <1>3, BoundsAssumption DEF IsLast, Enqueued, Indexes
<1>5. /\ f \in [Indexes -> Workflow] /\ f[i] = c /\ f[n] = NewWorkflow("wait", s)
      /\ \A j \in Indexes : j # i /\ j # n => f[j] = wf[j]
  <2>1. c \in Workflow /\ NewWorkflow("wait", s) \in Workflow
    BY <1>2, NewWorkflowType DEF Workflow
  <2>. HIDE DEF s
  <2>. QED
    BY <2>1, <1>1, <1>4, Parts
<1>6. c.pc = "closing" /\ Consistent(c)
  BY <1>1, <1>2 DEF Consistent, Workflow
<1>7. ua' \in [UserActions -> UserAction] /\ ua' = ua
  BY <1>1, Parts
<1>. HIDE DEF f, c, n, s
<1>8. n = i + 1 /\ s.done = wf[i].state.done
  BY DEF n, s
<1>. QED
  BY <1>1, <1>2, <1>3, <1>5, <1>6, <1>7, <1>8, Starts

(* No workflow changes its place in the chain.                             *)
PlacesStay ==
  \A j \in Indexes : /\ wf'[j].pc = "none" <=> wf[j].pc = "none"
                     /\ wf[j].pc \in {"closing", "ended"} => wf'[j].pc \in {"closing", "ended"}
                     /\ wf[j].pc = "ended" => wf'[j] = wf[j]
                     /\ wf'[j].pc = "closing" => wf[j].pc = "closing"
                     /\ Consistent(wf'[j])

(* No user action finds a workflow, looks at one or gets an answer.        *)
UsersStay ==
  \A u \in UserActions :
    /\ ua'[u].kind = ua[u].kind
    /\ ua'[u].pc = "send" => ua[u].pc = "send" /\ ua'[u].target = ua[u].target
    /\ ua'[u].pc \in {"checked", "built"} => ua[u].pc = ua'[u].pc /\ ua'[u] = ua[u]
    /\ Answered(ua'[u]) => Answered(ua[u])

(* What the last workflow knows still accounts for what was executed.      *)
LastAccounts ==
  \A i \in Indexes, u \in UserActions : IsLast(i) =>
    /\ executions'[u] <= dropped'[u] + IF Held(wf'[i], u) THEN 1 ELSE 0
    /\ Answered(ua[u]) => dropped'[u] > 0 \/ Held(wf'[i], u)

LEMMA ChainStays ==
  ASSUME Inv, TypeOK', PlacesStay, UsersStay, LastAccounts
  PROVE  Inv'
<1>. USE DEF PlacesStay, UsersStay, LastAccounts
<1>1. \A i \in Indexes : IsLast(i)' <=> IsLast(i)
  BY DEF IsLast
<1>2. (\E i \in Indexes : IsLast(i))' /\ (\A i \in Indexes : Consistent(wf[i]))'
  BY <1>1 DEF Inv
<1>3. Handover'
  BY DEF Inv, Handover
<1>4. Successors'
  <2>. SUFFICES ASSUME NEW j \in Indexes, wf'[j].pc = "closing"
                PROVE  j + 1 \in Indexes /\ wf'[j + 1].pc # "none"
    BY DEF Successors
  <2>1. j + 1 \in Indexes /\ wf[j + 1].pc # "none"
    BY DEF Inv, Successors
  <2>. QED
    BY <2>1
<1>5. Restarts'
  <2>. SUFFICES ASSUME NEW u \in UserActions, ua'[u].pc = "built"
                PROVE  LET k == ua'[u].target - 1
                       IN  /\ ua'[u].target # 0 /\ k \in Indexes /\ wf'[k].pc = "ended"
                           /\ ua'[u].state.done = wf'[k].known.done
    BY DEF Restarts
  <2>. DEFINE k == ua[u].target - 1
  <2>1. /\ ua'[u] = ua[u] /\ ua[u].target # 0 /\ k \in Indexes /\ wf[k].pc = "ended"
        /\ ua[u].state.done = wf[k].known.done
    BY DEF Inv, Restarts
  <2>2. wf'[k] = wf[k]
    BY <2>1
  <2>. QED
    BY <2>1, <2>2
<1>6. Routes'
  BY DEF Inv, Routes
<1>7. Counts' /\ Answers'
  BY <1>1 DEF Counts, Answers
<1>. QED
  BY <1>2, <1>3, <1>4, <1>5, <1>6, <1>7 DEF Inv

LEMMA CloseKeeps ==
  ASSUME Inv, NEW i \in Indexes, Close(i)
  PROVE  Inv'
<1>. DEFINE w == Ended(wf[i].input)
            f == [wf EXCEPT ![i] = w]
<1>1. wf[i] \in Workflow /\ wf[i].pc = "closing" /\ wf' = f
      /\ UNCHANGED <<ua, executions, dropped, faults>>
  BY Parts DEF Close
<1>2. wf[i].input \in State
  BY <1>1 DEF Workflow
<1>3. w \in Workflow /\ Consistent(w) /\ w.pc = "ended"
  BY <1>2, EndedIsWorkflow
<1>. HIDE DEF w
<1>4. f \in [Indexes -> Workflow] /\ \A j \in Indexes : f[j] = IF j = i THEN w ELSE wf[j]
  BY <1>3, Parts
<1>. HIDE DEF f
<1>5. ~IsLast(i)
  BY <1>1, BoundsAssumption DEF Inv, Successors, IsLast, Indexes
<1>6. PlacesStay
  BY <1>1, <1>3, <1>4 DEF Inv, PlacesStay
<1>7. LastAccounts
  BY <1>1, <1>4, <1>5 DEF Inv, Counts, Answers, LastAccounts
<1>8. UsersStay
  BY <1>1 DEF UsersStay
<1>9. TypeOK'
  BY <1>1, <1>4 DEF Inv, TypeOK
<1>. QED
  BY <1>6, <1>7, <1>8, <1>9, ChainStays

LEMMA SendKeeps ==
  ASSUME Inv, NEW u \in UserActions, Send(u)
  PROVE  Inv'
<1>. DEFINE i == ua[u].target
            x == [ua[u] EXCEPT !.pc = "sent", !.target = 0]
            m == [action |-> u, late |-> LastLook(i)]
            w == IF wf[i].pc = "ended" THEN wf[i] ELSE [wf[i] EXCEPT !.mail = Append(@, m)]
            f == [wf EXCEPT ![i] = w]
<1>1. /\ ua[u].pc = "send" /\ ua' = [ua EXCEPT ![u] = x]
      /\ UNCHANGED <<executions, dropped, faults>>
  BY DEF Send, Moves
<1>2. i \in Indexes /\ wf[i].pc # "none"
  BY <1>1 DEF Inv, Routes
<1>3. wf[i] \in Workflow /\ Consistent(wf[i])
  BY <1>2, Parts
<1>4. wf' = f
  BY <1>2, Parts DEF Send
<1>5. /\ w \in Workflow /\ Consistent(w) /\ w.pc = wf[i].pc /\ w.state = wf[i].state
      /\ w.action = wf[i].action /\ w.result = wf[i].result
      /\ wf[i].pc = "ended" => w = wf[i]
  <2>1. CASE wf[i].pc = "ended"
    BY <2>1, <1>3
  <2>2. CASE wf[i].pc # "ended"
    <3>. DEFINE t == [wf[i] EXCEPT !.mail = Append(@, m)]
    <3>1. m \in Message /\ m.late = LastLook(i) /\ wf[i].mail \in Seq(Message)
      BY <1>3 DEF Message, LastLook, Workflow
    <3>. HIDE DEF m
    <3>2. Append(wf[i].mail, m) \in Seq(Message)
      BY <3>1
    <3>3. /\ t \in Workflow /\ t.pc = wf[i].pc /\ t.state = wf[i].state /\ t.known = wf[i].known
          /\ t.action = wf[i].action /\ t.result = wf[i].result /\ t.mail = Append(wf[i].mail, m)
          /\ t.postponed = wf[i].postponed
      BY <1>3, <3>2 DEF Workflow
    <3>4. t.pc \in {"schedule", "closing"} => \A n \in DOMAIN t.mail : t.mail[n].late
      <4>. SUFFICES ASSUME wf[i].pc \in {"schedule", "closing"},
                           NEW n \in DOMAIN Append(wf[i].mail, m)
                    PROVE  Append(wf[i].mail, m)[n].late
        BY <3>3
      <4>1. CASE n = Len(wf[i].mail) + 1
        <5>1. Append(wf[i].mail, m)[n] = m
          BY <4>1, <3>1
        <5>2. LastLook(i)
          BY DEF LastLook
        <5>. QED
          BY <5>1, <5>2, <3>1
      <4>2. CASE n # Len(wf[i].mail) + 1
        <5>1. n \in DOMAIN wf[i].mail /\ Append(wf[i].mail, m)[n] = wf[i].mail[n]
          BY <4>2, <3>1
        <5>. QED
          BY <5>1, <1>3 DEF Consistent
      <4>. QED
        BY <4>1, <4>2
    <3>. HIDE DEF t
    <3>5. Consistent(t)
      BY <1>3, <3>3, <3>4 DEF Consistent
    <3>6. w = t
      BY <2>2 DEF t
    <3>. QED
      BY <2>2, <3>3, <3>5, <3>6
  <2>. QED
    BY <2>1, <2>2
<1>. HIDE DEF w
<1>6. f \in [Indexes -> Workflow] /\ \A j \in Indexes : f[j] = IF j = i THEN w ELSE wf[j]
  BY <1>2, <1>5, Parts
<1>. HIDE DEF f
<1>7. \A j \in Indexes : /\ f[j].pc = wf[j].pc /\ Consistent(f[j])
                         /\ wf[j].pc = "ended" => f[j] = wf[j]
  BY <1>5, <1>6 DEF Inv
<1>8. \A j \in Indexes, v \in UserActions : Held(f[j], v) <=> Held(wf[j], v)
  BY <1>5, <1>6 DEF Held
<1>9. LastAccounts
  BY <1>1, <1>4, <1>8 DEF Inv, Counts, Answers, LastAccounts
<1>10. ua[u] \in UserAction /\ ua \in [UserActions -> UserAction]
  BY <1>2, Parts
<1>11. /\ x \in UserAction /\ x.pc = "sent" /\ x.kind = ua[u].kind /\ x.reply = ua[u].reply
       /\ x.status = ua[u].status
  BY <1>10 DEF UserAction
<1>. HIDE DEF x, i
<1>12. ua' \in [UserActions -> UserAction] /\ \A v \in UserActions : ua'[v] = IF v = u THEN x ELSE ua[v]
  BY <1>1, <1>10, <1>11
<1>13. UsersStay
  BY <1>11, <1>12 DEF Answered, UsersStay
<1>14. PlacesStay
  <2>. SUFFICES ASSUME NEW j \in Indexes
                PROVE  /\ f[j].pc = "none" <=> wf[j].pc = "none"
                       /\ wf[j].pc \in {"closing", "ended"} => f[j].pc \in {"closing", "ended"}
                       /\ wf[j].pc = "ended" => f[j] = wf[j]
                       /\ f[j].pc = "closing" => wf[j].pc = "closing"
                       /\ Consistent(f[j])
    BY <1>4 DEF PlacesStay
  <2>. QED
    BY <1>7
<1>15. TypeOK'
  BY <1>1, <1>4, <1>6, <1>12 DEF Inv, TypeOK
<1>. QED
  BY <1>9, <1>13, <1>14, <1>15, ChainStays
-----------------------------------------------------------------------------
(* The steps of the user actions.                                          *)
LEMMA Moved ==
  ASSUME Inv, NEW u \in UserActions, NEW pc \in {"send", "await", "checked"}, Moves(u, pc)
  PROVE  LET x == [ua[u] EXCEPT !.pc = pc]
         IN  /\ x \in UserAction /\ ua' = [ua EXCEPT ![u] = x] /\ x.pc = pc
             /\ x.kind = ua[u].kind /\ x.target = ua[u].target
             /\ Answered(x) <=> Answered(ua[u])
<1>1. ua[u] \in UserAction
  BY DEF Inv, TypeOK
<1>. QED
  BY <1>1 DEF Moves, UserAction, Answered

LEMMA Finished ==
  ASSUME Inv, NEW u \in UserActions, NEW s \in {"completed", "failed"}, Finishes(u, s)
  PROVE  LET x == [NewUserAction(ua[u].kind) EXCEPT !.pc = "done", !.status = s]
         IN  /\ x \in UserAction /\ ua' = [ua EXCEPT ![u] = x] /\ x.pc = "done"
             /\ x.kind = ua[u].kind
             /\ Answered(x) <=> ua[u].kind = "signal" /\ s = "completed"
<1>1. ua[u] \in UserAction /\ ua[u].kind \in Kinds
  BY DEF Inv, TypeOK, UserAction
<1>2. ua' = [ua EXCEPT ![u] = [NewUserAction(ua[u].kind) EXCEPT !.pc = "done", !.status = s]]
  BY DEF Finishes
<1>3. NewState \in State
  BY DEF NewState, State
<1>. QED
  BY <1>1, <1>2, <1>3 DEF NewUserAction, UserAction, Answered

(* An action that finishes without a success, or whose answer has come.    *)
LEMMA FinishKeeps ==
  ASSUME Inv, NEW u \in UserActions, NEW s \in {"completed", "failed"}, Finishes(u, s),
         UNCHANGED <<wf, executions, dropped, faults>>,
         ua[u].kind = "signal" /\ s = "completed" => ua[u].reply = "ok"
  PROVE  Inv'
<1>. DEFINE x == [NewUserAction(ua[u].kind) EXCEPT !.pc = "done", !.status = s]
<1>1. /\ x \in UserAction /\ ua' = [ua EXCEPT ![u] = x] /\ x.pc = "done"
      /\ x.kind = ua[u].kind /\ (Answered(x) <=> ua[u].kind = "signal" /\ s = "completed")
  BY Finished
<1>. HIDE DEF x
<1>2. Answered(x) => Answered(ua[u])
  BY <1>1 DEF Answered
<1>. QED
  BY <1>1, <1>2, UserMoves

LEMMA MoveKeeps ==
  ASSUME Inv, NEW u \in UserActions, NEW pc \in {"await", "checked"}, Moves(u, pc),
         UNCHANGED <<wf, executions, dropped, faults>>, pc = "checked" => ua[u].kind = "restart"
  PROVE  Inv'
<1>. DEFINE x == [ua[u] EXCEPT !.pc = pc]
<1>1. /\ x \in UserAction /\ ua' = [ua EXCEPT ![u] = x] /\ x.pc = pc
      /\ x.kind = ua[u].kind /\ (Answered(x) <=> Answered(ua[u]))
  BY Moved
<1>. HIDE DEF x
<1>. QED
  BY <1>1, UserMoves

LEMMA ResolveKeeps ==
  ASSUME Inv, NEW u \in UserActions, Resolve(u)
  PROVE  Inv'
<1>1. PICK i \in Indexes : /\ Active(i) /\ ua' = [ua EXCEPT ![u].pc = "send", ![u].target = i]
                           /\ UNCHANGED <<wf, executions, dropped, faults>>
  BY DEF Resolve
<1>2. ua[u] \in UserAction /\ ua \in [UserActions -> UserAction]
  BY DEF Inv, TypeOK
<1>. DEFINE x == [ua[u] EXCEPT !.pc = "send", !.target = i]
<1>3. /\ x \in UserAction /\ x.pc = "send" /\ x.target = i /\ x.kind = ua[u].kind
      /\ x.reply = ua[u].reply /\ x.status = ua[u].status
  <2>1. i \in Nat
    BY BoundsAssumption DEF Indexes
  <2>. QED
    BY <2>1, <1>2 DEF UserAction
<1>4. ua' = [ua EXCEPT ![u] = x]
  BY <1>1, <1>2
<1>. HIDE DEF x
<1>5. Answered(x) => Answered(ua[u])
  BY <1>3 DEF Answered
<1>6. wf[i].pc # "none"
  BY <1>1 DEF Active
<1>. QED
  BY <1>1, <1>3, <1>4, <1>5, <1>6, UserMoves

LEMMA BuildRestartKeeps ==
  ASSUME Inv, NEW u \in UserActions, BuildRestart(u)
  PROVE  Inv'
<1>. DEFINE r(n) == [wf[n].known EXCEPT !.stopped = FALSE]
<1>1. PICK n \in Indexes :
        /\ wf[n].pc = "ended" /\ ua[u].pc = "checked"
        /\ ua' = [ua EXCEPT ![u] = [ua[u] EXCEPT !.pc = "built", !.target = n + 1, !.state = r(n)]]
        /\ UNCHANGED <<wf, executions, dropped, faults>>
  BY DEF BuildRestart, Inv, TypeOK
<1>2. ua[u] \in UserAction /\ wf[n] \in Workflow /\ wf[n].known \in State
  BY DEF Inv, TypeOK, Workflow
<1>3. r(n) \in State /\ r(n).done = wf[n].known.done
  BY <1>2 DEF State
<1>. DEFINE x == [ua[u] EXCEPT !.pc = "built", !.target = n + 1, !.state = r(n)]
<1>. HIDE DEF r
<1>4. n \in Nat /\ n + 1 \in Nat /\ n + 1 # 0 /\ n + 1 - 1 = n
  BY BoundsAssumption DEF Indexes
<1>5. /\ x \in UserAction /\ x.pc = "built" /\ x.target = n + 1 /\ x.kind = ua[u].kind
      /\ x.reply = ua[u].reply /\ x.status = ua[u].status /\ x.state = r(n)
  BY <1>2, <1>3, <1>4 DEF UserAction
<1>6. ua' = [ua EXCEPT ![u] = x]
  BY <1>1
<1>. HIDE DEF x
<1>7. Answered(x) => Answered(ua[u])
  BY <1>5 DEF Answered
<1>8. x.kind = "restart"
  BY <1>1, <1>5 DEF Inv, Routes
<1>. DEFINE k == x.target
<1>9. k = n + 1
  BY <1>5
<1>. HIDE DEF k
<1>10. k # 0 /\ k - 1 = n
  BY <1>4, <1>9
<1>11. x.pc = "built" => /\ x.target # 0 /\ x.target - 1 \in Indexes
                         /\ wf[x.target - 1].pc = "ended"
                         /\ x.state.done = wf[x.target - 1].known.done
  BY <1>1, <1>3, <1>5, <1>10 DEF k
<1>. QED
  BY <1>1, <1>5, <1>6, <1>7, <1>8, <1>11, UserMoves

LEMMA CreateTaskKeeps ==
  ASSUME Inv, NEW u \in UserActions, CreateTask(u)
  PROVE  Inv'
<1>. DEFINE n == ua[u].target
            i == n - 1
            s == ua[u].state
            f == [wf EXCEPT ![n] = Enqueued(n, s)]
<1>1. /\ ua[u].pc = "built" /\ n <= MaxIndex /\ wf' = f /\ Finishes(u, "completed")
      /\ UNCHANGED <<executions, dropped, faults>>
  BY DEF CreateTask
<1>2. ua[u] \in UserAction /\ n \in Nat /\ s \in State /\ ua[u].kind = "restart"
  BY <1>1 DEF Inv, TypeOK, UserAction, Routes
<1>3. n # 0 /\ i \in Indexes /\ wf[i].pc = "ended" /\ s.done = wf[i].known.done
  BY <1>1 DEF Inv, Restarts
<1>4. n \in Indexes /\ n = i + 1 /\ i # n
  BY <1>1, <1>2, <1>3, BoundsAssumption DEF Indexes
<1>5. wf \in [Indexes -> Workflow] /\ ua \in [UserActions -> UserAction] /\ Consistent(wf[i])
  BY <1>3, Parts
<1>. HIDE DEF i
<1>6. CASE wf[n].pc # "none"
  <2>1. wf' = wf
    BY <1>1, <1>4, <1>5, <1>6 DEF Enqueued
  <2>. QED
    BY <1>1, <1>2, <2>1, FinishKeeps
<1>7. CASE wf[n].pc = "none"
  <2>1. IsLast(i)
    <3>. SUFFICES ASSUME NEW j \in Indexes, j > i, wf[j].pc # "none"
                  PROVE  FALSE
      BY <1>3 DEF IsLast
    <3>0. j # n /\ j \in Nat /\ i \in Nat
      BY <1>3, <1>7, BoundsAssumption DEF Indexes
    <3>. HIDE DEF n
    <3>1. j > n
      BY <3>0, <1>4
    <3>2. wf[n].pc \in {"closing", "ended"}
      BY <1>4, <3>1 DEF Inv, Handover
    <3>. QED
      BY <1>7, <3>2
  <2>2. f \in [Indexes -> Workflow] /\ f[n] = NewWorkflow("wait", s)
        /\ \A j \in Indexes : j # n => f[j] = wf[j]
    <3>1. NewWorkflow("wait", s) \in Workflow
      BY <1>2, NewWorkflowType
    <3>2. Enqueued(n, s) = NewWorkflow("wait", s)
      BY <1>7 DEF Enqueued
    <3>. HIDE DEF s, n
    <3>. QED
      BY <3>1, <3>2, <1>4, <1>5
  <2>. DEFINE x == [NewUserAction(ua[u].kind) EXCEPT !.pc = "done", !.status = "completed"]
  <2>3. /\ x \in UserAction /\ ua' = [ua EXCEPT ![u] = x] /\ x.pc = "done" /\ ~Answered(x)
    BY <1>1, <1>2, Finished
  <2>. HIDE DEF x
  <2>4. /\ ua' \in [UserActions -> UserAction]
        /\ \A v \in UserActions : ua'[v] = ua[v] \/ (ua'[v].pc = "done" /\ ~Answered(ua'[v]))
    BY <1>5, <2>3
  <2>5. s.done = wf[i].state.done
    BY <1>3, <1>5 DEF Consistent
  <2>6. f[i] = wf[i] /\ wf' = f
    BY <1>1, <1>3, <1>4, <2>2
  <2>. HIDE DEF f, s, n
  <2>7. /\ n \in Indexes /\ s \in State /\ f \in [Indexes -> Workflow] /\ i \in Indexes
        /\ n = i + 1 /\ Consistent(f[i]) /\ wf[i].pc \in {"schedule", "ended"}
        /\ f[i].pc \in {"closing", "ended"} /\ (wf[i].pc = "ended" => f[i] = wf[i])
    BY <1>2, <1>3, <1>4, <1>5, <2>2, <2>6
  <2>8. \A j \in Indexes : j # i /\ j # n => f[j] = wf[j]
    BY <2>2
  <2>9. UNCHANGED <<executions, dropped, faults>>
    BY <1>1
  <2>10. f[n] = NewWorkflow("wait", s) /\ wf' = f
    BY <2>2, <2>6
  <2>11. \A v \in UserActions : \/ ua'[v] = ua[v]
                                \/ ua'[v].pc = "done" /\ ~Answered(ua'[v])
    BY <2>4
  <2>12. ua' \in [UserActions -> UserAction]
    BY <2>4
  <2>. QED
    BY <2>1, <2>5, <2>7, <2>8, <2>9, <2>10, <2>11, <2>12, Starts
<1>. QED
  BY <1>6, <1>7

LEMMA NotFoundKeeps ==
  ASSUME Inv, NEW u \in UserActions, NotFound(u)
  PROVE  Inv'
BY FinishKeeps DEF NotFound

LEMMA RecordSentKeeps ==
  ASSUME Inv, NEW u \in UserActions, RecordSent(u)
  PROVE  Inv'
<1>1. CASE ua[u].kind = "signal"
  BY <1>1, MoveKeeps DEF RecordSent
<1>2. CASE ua[u].kind # "signal"
  BY <1>2, FinishKeeps DEF RecordSent
<1>. QED
  BY <1>1, <1>2

LEMMA ReceiveResultKeeps ==
  ASSUME Inv, NEW u \in UserActions, ReceiveResult(u)
  PROVE  Inv'
<1>1. CASE ua[u].reply = "ok"
  BY <1>1, FinishKeeps DEF ReceiveResult
<1>2. CASE ua[u].reply # "ok"
  BY <1>2, FinishKeeps DEF ReceiveResult
<1>. QED
  BY <1>1, <1>2

LEMMA ResultTimeoutKeeps ==
  ASSUME Inv, NEW u \in UserActions, ResultTimeout(u)
  PROVE  Inv'
BY FinishKeeps DEF ResultTimeout

LEMMA AssertNotRunningKeeps ==
  ASSUME Inv, NEW u \in UserActions, AssertNotRunning(u)
  PROVE  Inv'
<1>1. ua[u].kind = "restart" /\ UNCHANGED <<wf, executions, dropped, faults>>
  BY DEF AssertNotRunning, Sends
<1>2. CASE \E i \in Indexes : Active(i)
  BY <1>1, <1>2, FinishKeeps DEF AssertNotRunning
<1>3. CASE ~\E i \in Indexes : Active(i)
  BY <1>1, <1>3, MoveKeeps DEF AssertNotRunning
<1>. QED
  BY <1>2, <1>3
-----------------------------------------------------------------------------
(* The node stops.  What was executed and not recorded is dropped: only    *)
(* the last workflow can have been at it.                                  *)
Unrecorded(u) == {i \in Indexes : wf[i].pc = "executed" /\ wf[i].action = u /\ wf[i].result.executed}

LEMMA UnrecordedCount ==
  ASSUME NEW u \in UserActions
  PROVE  /\ Cardinality(Unrecorded(u)) \in Nat
         /\ \A i \in Unrecorded(u) : Cardinality(Unrecorded(u)) >= 1
<1>1. IsFiniteSet(Indexes)
  BY FS_Interval, BoundsAssumption DEF Indexes
<1>2. IsFiniteSet(Unrecorded(u))
  BY <1>1, FS_Subset DEF Unrecorded
<1>3. Cardinality(Unrecorded(u)) \in Nat
  BY <1>2, FS_CardinalityType
<1>4. \A i \in Unrecorded(u) : Cardinality(Unrecorded(u)) # 0
  BY <1>2, FS_EmptySet
<1>. QED
  BY <1>3, <1>4

LEMMA CrashedWorkflow ==
  ASSUME NEW w \in Workflow, Consistent(w), w.pc \in {"iterate", "executed"}
  PROVE  LET v == [w EXCEPT !.pc = "iterate", !.attempts = 0, !.result = NoResult]
         IN  /\ v \in Workflow /\ Consistent(v) /\ v.pc = "iterate" /\ v.state = w.state
<1>1. 0 \in 0 .. MaxAttempts
  BY BoundsAssumption
<1>2. NoResult \in Result
  BY DEF NoResult, Outcome, Result, NewState, State
<1>. DEFINE v == [w EXCEPT !.pc = "iterate", !.attempts = 0, !.result = NoResult]
<1>3. /\ v \in Workflow /\ v.pc = "iterate" /\ v.state = w.state /\ v.known = w.known
  <2>. HIDE DEF NoResult
  <2>. QED
    BY <1>1, <1>2 DEF Workflow
<1>. HIDE DEF v
<1>4. Consistent(v)
  BY <1>3 DEF Consistent
<1>. QED
  BY <1>3, <1>4 DEF v

LEMMA CrashKeeps ==
  ASSUME Inv, Crash
  PROVE  Inv'
<1>. DEFINE v(i) == [wf[i] EXCEPT !.pc = "iterate", !.attempts = 0, !.result = NoResult]
            At(i) == wf[i].pc \in {"iterate", "executed"}
            x(u) == [ua[u] EXCEPT !.pc = "dispatch", !.target = 0]
<1>1. /\ wf' = [i \in Indexes |-> IF At(i) THEN v(i) ELSE wf[i]]
      /\ ua' = [u \in UserActions |->
                  IF ua[u].pc \in {"send", "sent", "checked"} THEN x(u) ELSE ua[u]]
      /\ dropped' = [u \in UserActions |-> dropped[u] + Cardinality(Unrecorded(u))]
      /\ executions' = executions /\ faults' = faults + 1 /\ faults < MaxFaults
  BY DEF Crash, Unrecorded
<1>2. /\ wf \in [Indexes -> Workflow] /\ ua \in [UserActions -> UserAction]
      /\ executions \in [UserActions -> Nat] /\ dropped \in [UserActions -> Nat]
      /\ faults \in 0 .. MaxFaults
  BY DEF Inv, TypeOK
<1>3. \A i \in Indexes : At(i) =>
        /\ v(i) \in Workflow /\ Consistent(v(i)) /\ v(i).pc = "iterate"
        /\ v(i).state = wf[i].state
  BY CrashedWorkflow, Parts
<1>. HIDE DEF v
<1>4. \A i \in Indexes : /\ wf'[i] \in Workflow /\ Consistent(wf'[i])
                         /\ At(i) => wf'[i].pc = "iterate" /\ wf'[i].state = wf[i].state
                         /\ ~At(i) => wf'[i] = wf[i]
  BY <1>1, <1>2, <1>3 DEF Inv
<1>5. PlacesStay
  BY <1>4 DEF PlacesStay
<1>6. \A u \in UserActions : /\ x(u) \in UserAction /\ x(u).pc = "dispatch"
                             /\ x(u).kind = ua[u].kind /\ x(u).reply = ua[u].reply
                             /\ x(u).status = ua[u].status
  BY <1>2 DEF UserAction
<1>. HIDE DEF x
<1>7. \A u \in UserActions : /\ ua'[u] \in UserAction
                             /\ \/ ua[u].pc \notin {"send", "sent", "checked"} /\ ua'[u] = ua[u]
                                \/ /\ ua'[u].pc = "dispatch" /\ ua'[u].kind = ua[u].kind
                                   /\ ua'[u].reply = ua[u].reply /\ ua'[u].status = ua[u].status
  BY <1>1, <1>2, <1>6
<1>8. UsersStay
  BY <1>7 DEF UsersStay, Answered
<1>9. \A u \in UserActions : dropped'[u] \in Nat
  BY <1>1, <1>2, UnrecordedCount
<1>10. TypeOK'
  <2>1. wf' \in [Indexes -> Workflow]
    BY <1>1, <1>4
  <2>2. ua' \in [UserActions -> UserAction]
    BY <1>1, <1>7
  <2>3. dropped' \in [UserActions -> Nat]
    BY <1>1, <1>9
  <2>4. faults' \in 0 .. MaxFaults
    BY <1>1, <1>2, BoundsAssumption
  <2>. QED
    BY <1>1, <1>2, <2>1, <2>2, <2>3, <2>4 DEF TypeOK
<1>11. LastAccounts
  <2>. SUFFICES ASSUME NEW i \in Indexes, NEW u \in UserActions, IsLast(i)
                PROVE  /\ executions[u] <= dropped'[u] + IF Held(wf'[i], u) THEN 1 ELSE 0
                       /\ Answered(ua[u]) => dropped'[u] > 0 \/ Held(wf'[i], u)
    BY <1>1 DEF LastAccounts
  <2>1. /\ executions[u] <= dropped[u] + IF Held(wf[i], u) THEN 1 ELSE 0
        /\ Answered(ua[u]) => dropped[u] > 0 \/ Held(wf[i], u)
    BY DEF Inv, Counts, Answers
  <2>2. dropped'[u] = dropped[u] + Cardinality(Unrecorded(u))
    BY <1>1
  <2>3. /\ executions[u] \in Nat /\ dropped[u] \in Nat /\ dropped'[u] \in Nat
        /\ Cardinality(Unrecorded(u)) \in Nat
    BY <1>2, <1>9, UnrecordedCount
  <2>4. CASE i \in Unrecorded(u)
    <3>1. dropped'[u] >= dropped[u] + 1
      BY <2>2, <2>3, <2>4, UnrecordedCount
    <3>. QED
      BY <2>1, <2>3, <3>1
  <2>5. CASE i \notin Unrecorded(u)
    <3>1. Held(wf[i], u) => u \in wf[i].state.done
      BY <2>5 DEF Held, Unrecorded
    <3>2. wf'[i].state = wf[i].state
      BY <1>4
    <3>3. Held(wf[i], u) => Held(wf'[i], u)
      BY <3>1, <3>2 DEF Held
    <3>4. dropped'[u] >= dropped[u]
      BY <2>2, <2>3
    <3>. QED
      BY <2>1, <2>3, <3>3, <3>4
  <2>. QED
    BY <2>4, <2>5
<1>. QED
  BY <1>5, <1>8, <1>10, <1>11, ChainStays
-----------------------------------------------------------------------------
LEMMA Initially ==
  ASSUME Init
  PROVE  Inv
<1>1. NewState \in State /\ 0 \in 0 .. MaxAttempts /\ NoResult \in Result /\ 0 \in Indexes
  BY BoundsAssumption DEF NewState, State, NoResult, Outcome, Result, Indexes
<1>. DEFINE pc(i) == IF i = 0 THEN "wait" ELSE "none"
            w(i) == NewWorkflow(pc(i), NewState)
<1>2. \A i \in Indexes : /\ w(i) \in Workflow /\ w(i).pc = pc(i) /\ w(i).state = NewState
                         /\ w(i).known = NewState
  <2>. HIDE DEF NewState, NoResult
  <2>. QED
    BY <1>1 DEF NewWorkflow, Workflow
<1>3. wf = [i \in Indexes |-> w(i)]
  BY DEF Init
<1>. HIDE DEF w
<1>4. \A i \in Indexes : /\ wf[i] \in Workflow /\ wf[i].pc = pc(i) /\ wf[i].state = NewState
                         /\ wf[i].known = NewState
  BY <1>2, <1>3
<1>5. \A i \in Indexes : Consistent(wf[i])
  BY <1>4 DEF Consistent, NewState
<1>6. \A u \in UserActions : /\ ua[u] \in UserAction /\ ua[u].pc = "dispatch"
                             /\ ua[u].reply = "none" /\ ua[u].status = "none"
  <2>. SUFFICES ASSUME NEW u \in UserActions
                PROVE  /\ ua[u] \in UserAction /\ ua[u].pc = "dispatch"
                       /\ ua[u].reply = "none" /\ ua[u].status = "none"
    OBVIOUS
  <2>1. PICK k \in Kinds : ua[u] = NewUserAction(k)
    BY DEF Init
  <2>. HIDE DEF NewState
  <2>. QED
    BY <1>1, <2>1 DEF NewUserAction, UserAction
<1>7. TypeOK
  <2>1. wf \in [Indexes -> Workflow]
    BY <1>3, <1>4
  <2>2. ua \in [UserActions -> UserAction]
    BY <1>6 DEF Init
  <2>. QED
    BY <2>1, <2>2, BoundsAssumption DEF TypeOK, Init
<1>8. IsLast(0)
  BY <1>1, <1>4 DEF IsLast
<1>9. Handover /\ Successors
  BY <1>4, BoundsAssumption DEF Handover, Successors, Indexes
<1>10. Restarts /\ Routes
  BY <1>6 DEF Restarts, Routes
<1>11. Counts /\ Answers
  BY <1>6 DEF Init, Counts, Answers, Answered
<1>. QED
  BY <1>1, <1>5, <1>7, <1>8, <1>9, <1>10, <1>11 DEF Inv

LEMMA Unchanged ==
  ASSUME Inv, UNCHANGED vars
  PROVE  Inv'
BY DEF vars, Inv, TypeOK, Handover, Successors, IsLast, Consistent, Restarts, Routes, Counts,
       Answers, Answered, Held

LEMMA StepKeeps ==
  ASSUME Inv, [Next]_vars
  PROVE  Inv'
<1>1. ASSUME NEW i \in Indexes, Iterates(i)
      PROVE  Inv'
  BY <1>1, ReceiveKeeps, ExecutionTimeKeeps, AttemptKeeps, RecordKeeps, IgnoreForcedKeeps,
     ReceiveExtraKeeps, NothingLeftKeeps, ScheduleNextKeeps, CloseKeeps DEF Iterates
<1>2. ASSUME NEW i \in Indexes, AttemptRaises(i)
      PROVE  Inv'
  BY <1>2, AttemptRaisesKeeps
<1>3. ASSUME NEW u \in UserActions, Acts(u)
      PROVE  Inv'
  BY <1>3, ResolveKeeps, NotFoundKeeps, SendKeeps, RecordSentKeeps, ReceiveResultKeeps,
     ResultTimeoutKeeps, AssertNotRunningKeeps, BuildRestartKeeps, CreateTaskKeeps DEF Acts
<1>. QED
  BY <1>1, <1>2, <1>3, CrashKeeps, Unchanged DEF Next

(* The invariant of every chain of workflows.                              *)
THEOREM Invariance == Spec => []Inv
<1>1. Init => Inv
  BY Initially
<1>2. Inv /\ [Next]_vars => Inv'
  BY StepKeeps
<1>. QED
  BY <1>1, <1>2, PTL DEF Spec

(* The variables have their types.                                         *)
THEOREM TypeCorrect == Spec => []TypeOK
<1>1. Inv => TypeOK
  BY DEF Inv
<1>. QED
  BY <1>1, Invariance, PTL

(* One workflow of an automation works at a time, whatever reschedules,    *)
(* restarts and crashes race.                                              *)
THEOREM OneAtATime == Spec => []OneWorkflowWorks
<1>1. Inv => OneWorkflowWorks
  <2>. SUFFICES ASSUME Inv, NEW i \in Indexes, NEW j \in Indexes, Working(wf[i]), Working(wf[j])
                PROVE  i = j
    BY DEF OneWorkflowWorks, Working
  <2>. QED
    BY WorkingIsLast, OneLast DEF Inv
<1>. QED
  BY <1>1, Invariance, PTL

(* A user action is executed again only if what it did was not recorded:   *)
(* at most once more than its executions were dropped.                     *)
THEOREM NeverRepeated == Spec => []RepeatedOnlyIfLost
<1>1. Inv => RepeatedOnlyIfLost
  <2>. SUFFICES ASSUME Inv, NEW u \in UserActions
                PROVE  executions[u] <= 1 + dropped[u]
    BY DEF RepeatedOnlyIfLost
  <2>1. PICK i \in Indexes : IsLast(i)
    BY DEF Inv
  <2>2. executions[u] <= dropped[u] + IF Held(wf[i], u) THEN 1 ELSE 0
    BY <2>1 DEF Inv, Counts
  <2>3. executions[u] \in Nat /\ dropped[u] \in Nat
    BY DEF Inv, TypeOK
  <2>. QED
    BY <2>2, <2>3
<1>. QED
  BY <1>1, Invariance, PTL

(* A workflow that hands over leaves only messages it could not have seen. *)
THEOREM LateOnly == Spec => []OnlyLateMessagesLost
<1>1. Inv => OnlyLateMessagesLost
  BY DEF Inv, Consistent, OnlyLateMessagesLost
<1>. QED
  BY <1>1, Invariance, PTL

(* A signal that awaits its result and is reported as completed counts:    *)
(* the last workflow holds its execution unless it was dropped.            *)
THEOREM SignalsCount == Spec => []CompletedSignalsCount
<1>1. Inv => CompletedSignalsCount
  <2>. SUFFICES ASSUME Inv, NEW u \in UserActions, Answered(ua[u])
                PROVE  \/ dropped[u] > 0
                       \/ \E i \in Indexes :
                            u \in wf[i].state.done \/ (wf[i].action = u /\ wf[i].result.executed)
    BY DEF CompletedSignalsCount, Answered
  <2>1. PICK i \in Indexes : IsLast(i)
    BY DEF Inv
  <2>2. dropped[u] > 0 \/ Held(wf[i], u)
    BY <2>1 DEF Inv, Answers
  <2>. QED
    BY <2>2 DEF Held
<1>. QED
  BY <1>1, Invariance, PTL
-----------------------------------------------------------------------------
(* What was stopped stays stopped until a restart creates a workflow.      *)
StaysStopped ==
  \A i \in Indexes : /\ wf'[i].pc = "none" <=> wf[i].pc = "none"
                     /\ IsLast(i) /\ wf[i].state.stopped => wf'[i].state.stopped

LEMMA OneMoves ==
  ASSUME Inv, NEW i \in Indexes, NEW w, wf' = [wf EXCEPT ![i] = w],
         wf[i].pc # "none", w.pc # "none", IsLast(i) /\ wf[i].state.stopped => w.state.stopped
  PROVE  StaysStopped
<1>1. \A j \in Indexes : wf'[j] = IF j = i THEN w ELSE wf[j]
  BY Parts
<1>. QED
  BY <1>1 DEF StaysStopped

LEMMA EndedStopped ==
  ASSUME NEW s
  PROVE  Ended(s).pc = "ended" /\ Ended(s).state = s
BY DEF Ended, NewWorkflow

LEMMA TakenStopped ==
  ASSUME Inv, NEW i \in Indexes, NEW a, NEW rest
  PROVE  Take(i, a, rest).pc = "iterate" /\ Take(i, a, rest).state = wf[i].state
<1>1. wf[i] \in Workflow
  BY Parts
<1>. QED
  BY <1>1 DEF Take, Workflow

LEMMA LooksStopped ==
  ASSUME Inv, NEW i \in Indexes,
         Receive(i) \/ ExecutionTime(i) \/ IgnoreForced(i) \/ ReceiveExtra(i) \/ NothingLeft(i)
  PROVE  StaysStopped
<1>1. wf[i] \in Workflow
  BY Parts
<1>2. CASE Receive(i)
  BY <1>2, TakenStopped, OneMoves, Parts DEF Receive
<1>3. CASE ExecutionTime(i)
  BY <1>3, TakenStopped, OneMoves, Parts DEF ExecutionTime
<1>4. CASE IgnoreForced(i)
  <2>. DEFINE w == [wf[i] EXCEPT !.mail = Tail(@)]
  <2>1. w.pc = wf[i].pc /\ w.state = wf[i].state
    BY <1>1 DEF Workflow
  <2>2. wf' = [wf EXCEPT ![i] = w] /\ wf[i].pc # "none"
    BY <1>4, Parts DEF IgnoreForced
  <2>. QED
    BY <2>1, <2>2, OneMoves
<1>5. CASE ReceiveExtra(i)
  <2>. DEFINE t == Take(i, Head(wf[i].mail).action, Tail(wf[i].mail))
              w == [t EXCEPT !.draining = TRUE]
  <2>1. Head(wf[i].mail).action \in UserActions \cup {NoAction} /\ Tail(wf[i].mail) \in Seq(Message)
    BY <1>5, FirstMessage DEF ReceiveExtra
  <2>2. t \in Workflow /\ t.pc = "iterate" /\ t.state = wf[i].state
    BY <2>1, Taken
  <2>3. wf' = [wf EXCEPT ![i] = w] /\ wf[i].pc # "none"
    BY <1>5, Parts DEF ReceiveExtra
  <2>. HIDE DEF t
  <2>4. w.pc = "iterate" /\ w.state = wf[i].state
    BY <2>2 DEF Workflow
  <2>. QED
    BY <2>3, <2>4, OneMoves
<1>6. CASE NothingLeft(i)
  <2>. DEFINE w == IF ShouldStop(wf[i]) THEN Ended(wf[i].state)
                   ELSE [wf[i] EXCEPT !.pc = "schedule"]
  <2>1. w.pc # "none" /\ w.state = wf[i].state
    BY <1>1, EndedStopped DEF Workflow
  <2>2. wf' = [wf EXCEPT ![i] = w] /\ wf[i].pc # "none"
    BY <1>6, Parts DEF NothingLeft
  <2>. HIDE DEF w
  <2>. QED
    BY <2>1, <2>2, OneMoves
<1>. QED
  BY <1>2, <1>3, <1>4, <1>5, <1>6

LEMMA AttemptStopped ==
  ASSUME Inv, NEW i \in Indexes, Attempt(i) \/ AttemptRaises(i)
  PROVE  StaysStopped
<1>1. wf[i] \in Workflow /\ wf[i].pc = "iterate" /\ (wf[i].state.stopped => wf[i].known.stopped)
  BY Parts DEF Attempt, AttemptRaises, Consistent
<1>2. CASE Attempt(i)
  <2>1. PICK o : wf' = [wf EXCEPT ![i].pc = "executed", ![i].result = o]
    BY <1>2 DEF Attempt
  <2>. DEFINE w == [wf[i] EXCEPT !.pc = "executed", !.result = o]
  <2>2. wf' = [wf EXCEPT ![i] = w]
    BY <2>1, Parts
  <2>3. w.pc = "executed" /\ w.state = wf[i].state
    BY <1>1 DEF Workflow
  <2>. HIDE DEF w
  <2>. QED
    BY <1>1, <2>2, <2>3, OneMoves
<1>3. CASE AttemptRaises(i)
  <2>. DEFINE r == [wf[i] EXCEPT !.attempts = @ + 1]
              e == Interrupted(wf[i])
  <2>1. wf' = [wf EXCEPT ![i] = r] \/ wf' = [wf EXCEPT ![i] = e]
    BY <1>3, Parts DEF AttemptRaises
  <2>2. r.pc = "iterate" /\ r.state = wf[i].state
    BY <1>1 DEF Workflow
  <2>3. e.pc = "ended" /\ e.state = wf[i].known
    BY EndedStopped DEF Interrupted
  <2>. HIDE DEF r, e
  <2>. QED
    BY <1>1, <2>1, <2>2, <2>3, OneMoves
<1>. QED
  BY <1>2, <1>3

LEMMA RecordStopped ==
  ASSUME Inv, NEW i \in Indexes, Record(i)
  PROVE  StaysStopped
<1>. DEFINE v == wf[i]
            o == wf[i].result
            kept == [v EXCEPT !.state = o.state, !.known = IF v.draining THEN @ ELSE o.state,
                              !.postponed = o.postponed, !.result = NoResult, !.action = NoAction,
                              !.attempts = 0]
            drain == [kept EXCEPT !.pc = "drain"]
            w == Recorded(v)
<1>1. /\ v \in Workflow /\ v.pc = "executed"
      /\ v.state.stopped => v.known.stopped /\ o.state.stopped
  BY Parts DEF Record, Consistent
<1>2. /\ kept.state = o.state /\ drain.pc = "drain" /\ drain.state = o.state
      /\ v.draining => kept.known = v.known
  BY <1>1 DEF Workflow
<1>3. \/ w = Ended(o.state) \/ w = drain
      \/ v.draining /\ w = Ended(kept.known)
  BY DEF Recorded, Interrupted
<1>4. wf' = [wf EXCEPT ![i] = w]
  BY Parts DEF Record
<1>. HIDE DEF kept, drain, w
<1>5. w.pc # "none" /\ (v.state.stopped => w.state.stopped)
  BY <1>1, <1>2, <1>3, EndedStopped
<1>. QED
  BY <1>1, <1>4, <1>5, OneMoves

LEMMA CloseStopped ==
  ASSUME Inv, NEW i \in Indexes, Close(i)
  PROVE  StaysStopped
<1>. DEFINE w == Ended(wf[i].input)
<1>1. wf' = [wf EXCEPT ![i] = w] /\ wf[i].pc = "closing" /\ w.pc = "ended"
  BY Parts, EndedStopped DEF Close
<1>2. ~IsLast(i)
  BY <1>1, BoundsAssumption DEF Inv, Successors, IsLast, Indexes
<1>. HIDE DEF w
<1>. QED
  BY <1>1, <1>2, OneMoves

LEMMA ActsStopped ==
  ASSUME Inv, NEW u \in UserActions, Acts(u), ~CreateTask(u)
  PROVE  StaysStopped
<1>1. CASE Send(u)
  <2>. DEFINE i == ua[u].target
              m == [action |-> u, late |-> LastLook(i)]
              w == [wf[i] EXCEPT !.mail = Append(@, m)]
  <2>1. i \in Indexes /\ wf[i].pc # "none"
    BY <1>1 DEF Inv, Routes, Send
  <2>2. w.pc = wf[i].pc /\ w.state = wf[i].state
    BY <2>1, Parts DEF Workflow
  <2>3. wf' = wf \/ wf' = [wf EXCEPT ![i] = w]
    BY <1>1, <2>1, Parts DEF Send
  <2>. HIDE DEF w, i
  <2>4. CASE wf' = wf
    BY <2>4 DEF StaysStopped
  <2>. QED
    BY <2>1, <2>2, <2>3, <2>4, OneMoves
<1>2. CASE ~Send(u)
  <2>1. wf' = wf
    BY <1>2 DEF Acts, Resolve, NotFound, RecordSent, ReceiveResult, ResultTimeout,
                AssertNotRunning, BuildRestart
  <2>. QED
    BY <2>1 DEF StaysStopped
<1>. QED
  BY <1>1, <1>2

LEMMA CrashStopped ==
  ASSUME Inv, Crash
  PROVE  StaysStopped
<1>. DEFINE v(i) == [wf[i] EXCEPT !.pc = "iterate", !.attempts = 0, !.result = NoResult]
<1>1. \A i \in Indexes : v(i).pc = "iterate" /\ v(i).state = wf[i].state
  BY Parts DEF Workflow
<1>2. wf' = [i \in Indexes |-> IF wf[i].pc \in {"iterate", "executed"} THEN v(i) ELSE wf[i]]
  BY DEF Crash
<1>. HIDE DEF v
<1>. QED
  BY <1>1, <1>2 DEF StaysStopped

(* The workflows that were started are those up to the last one.           *)
LEMMA IndexOfLast ==
  ASSUME Handover, NEW i \in Indexes, IsLast(i)
  PROVE  LastIndex = i /\ Last = wf[i].state
<1>. DEFINE started == {j \in Indexes : wf[j].pc # "none"}
<1>1. started = 0 .. i
  BY BoundsAssumption DEF Handover, IsLast, Indexes
<1>2. i \in Nat
  BY BoundsAssumption DEF Indexes
<1>3. Cardinality(0 .. i) = i + 1
  BY <1>2, FS_Interval
<1>4. LastIndex = Cardinality(started) - 1
  BY DEF LastIndex
<1>. HIDE DEF started
<1>5. LastIndex = i
  BY <1>1, <1>2, <1>3, <1>4
<1>. QED
  BY <1>5 DEF Last

LEMMA NextIndexOfLast ==
  ASSUME Handover', NEW i \in Indexes, IsLast(i)'
  PROVE  LastIndex' = i /\ Last' = wf'[i].state
<1>. DEFINE started == {j \in Indexes : wf'[j].pc # "none"}
<1>1. started = 0 .. i
  BY BoundsAssumption DEF Handover, IsLast, Indexes
<1>2. i \in Nat
  BY BoundsAssumption DEF Indexes
<1>3. Cardinality(0 .. i) = i + 1
  BY <1>2, FS_Interval
<1>4. LastIndex' = Cardinality(started) - 1
  BY DEF LastIndex
<1>. HIDE DEF started
<1>5. LastIndex' = i
  BY <1>1, <1>2, <1>3, <1>4
<1>. QED
  BY <1>5 DEF Last

Resumes ==
  Last.stopped =>
    /\ Last'.stopped \/ \E u \in UserActions : CreateTask(u)
    /\ \A i \in Indexes : ScheduleNext(i) => wf[i].postponed

(* The successor starts with the state of the workflow that schedules it.  *)
LEMMA ScheduledStopped ==
  ASSUME Inv, NEW i \in Indexes, ScheduleNext(i), Last.stopped
  PROVE  Last'.stopped /\ wf[i].postponed
<1>1. wf[i] \in Workflow /\ wf[i].pc = "schedule" /\ IsLast(i)
  BY Parts, WorkingIsLast DEF ScheduleNext, Working, Inv
<1>2. wf[i].state.stopped
  BY <1>1, IndexOfLast DEF Inv
<1>3. wf[i].postponed
  BY <1>1, <1>2 DEF Inv, Consistent
<1>4. i + 1 \in Indexes /\ wf[i + 1].pc = "none"
  BY <1>1, BoundsAssumption DEF ScheduleNext, IsLast, Indexes
<1>. DEFINE n == NewWorkflow("wait", wf[i].state)
            c == [wf[i] EXCEPT !.pc = "closing"]
<1>5. n.pc = "wait" /\ n.state = wf[i].state
  BY DEF NewWorkflow
<1>6. wf' = [wf EXCEPT ![i] = c, ![i + 1] = n]
  BY <1>4, Parts DEF ScheduleNext, Enqueued
<1>. HIDE DEF n, c
<1>7. wf'[i + 1] = n /\ \A j \in Indexes : j > i + 1 => wf'[j] = wf[j]
  BY <1>4, <1>6, Parts, BoundsAssumption DEF Indexes
<1>8. IsLast(i + 1)'
  BY <1>1, <1>4, <1>5, <1>7, BoundsAssumption DEF IsLast, Indexes
<1>9. Handover'
  BY StepKeeps DEF Inv, Next, Iterates
<1>10. Last' = wf'[i + 1].state
  BY <1>4, <1>8, <1>9, NextIndexOfLast
<1>. QED
  BY <1>2, <1>3, <1>5, <1>7, <1>10

LEMMA OnlyCreateTaskResumes ==
  ASSUME Inv, [Next]_vars
  PROVE  [Resumes]_vars
<1>. SUFFICES ASSUME Next, Last.stopped
              PROVE  /\ Last'.stopped \/ \E u \in UserActions : CreateTask(u)
                     /\ \A i \in Indexes : ScheduleNext(i) => wf[i].postponed
  BY DEF Resumes
<1>1. \A i \in Indexes : ScheduleNext(i) => Last'.stopped /\ wf[i].postponed
  BY ScheduledStopped
<1>2. ASSUME \A i \in Indexes : ~ScheduleNext(i), \A u \in UserActions : ~CreateTask(u)
      PROVE  Last'.stopped
  <2>1. PICK l \in Indexes : IsLast(l)
    BY DEF Inv
  <2>2. wf[l].state.stopped
    BY <2>1, IndexOfLast DEF Inv
  <2>3. StaysStopped
    <3>1. CASE Crash
      BY <3>1, CrashStopped
    <3>2. ASSUME NEW i \in Indexes, Iterates(i) \/ AttemptRaises(i)
          PROVE  StaysStopped
      BY <1>2, <3>2, LooksStopped, AttemptStopped, RecordStopped, CloseStopped DEF Iterates
    <3>3. ASSUME NEW u \in UserActions, Acts(u)
          PROVE  StaysStopped
      BY <1>2, <3>3, ActsStopped
    <3>. QED
      BY <3>1, <3>2, <3>3 DEF Next
  <2>4. IsLast(l)' /\ wf'[l].state.stopped
    BY <2>1, <2>2, <2>3 DEF StaysStopped, IsLast
  <2>5. Handover'
    BY StepKeeps DEF Inv
  <2>. QED
    BY <2>4, <2>5, NextIndexOfLast
<1>. QED
  BY <1>1, <1>2

(* Only a restart takes the stop from an automation; what it schedules     *)
(* while it is stopped follows a message that was postponed.               *)
THEOREM StoppedStays == Spec => OnlyRestartsResume
<1>1. Inv /\ [Next]_vars => [Resumes]_vars
  BY OnlyCreateTaskResumes
<1>. QED
  BY <1>1, Invariance, PTL DEF Spec, OnlyRestartsResume, Resumes
=============================================================================

------------------------ MODULE OrderLifecycleProofs ------------------------
(***************************************************************************)
(* However many tasks cancel, poll and close the order: it is settled      *)
(* once, and it becomes the trade of what happened to it on the exchange.  *)
(*                                                                         *)
(* A state object that is not the open one is only made when the exchange  *)
(* told how the order ended, and from then on the status cannot be open    *)
(* again: an update of an order that is ending is only taken into account  *)
(* if it tells an end too.  What is told never becomes wrong, as the order *)
(* ends once on the exchange.  The theorems that need an exchange to tell  *)
(* the truth about cancels assume that AsyncCancel is FALSE.               *)
(***************************************************************************)
EXTENDS OrderLifecycle, TLAPS

\* Spawn finds a task that does not run yet: Refreshers is a bound of the model only.
EnoughRefreshers == \E r \in Refreshers : task[r].pc = "none"

World == [states : Seq(State), status : Statuses, task : [Tasks -> Task]]

\* The values that a state of kind k may have.
Valued(k, v) ==
  /\ k = "open" => v \in {"OPEN", "REFRESHING"}
  /\ k = "cancel" => v \in {"CANCELING", "CANCELED", "REFRESHING"}
  /\ k = "fill" => v \in {"FILLED", "REFRESHING"}

\* The exchange did tell s.
Told(s) ==
  /\ s \in Fill => exchange = "filled"
  /\ ~AsyncCancel => s # "PENDING_CANCEL" /\ (s = "CANCELED" => exchange = "canceled")

StateFits(i, s) ==
  /\ Valued(s.kind, s.value) /\ (i = 1 <=> s.kind = "open")
  /\ s.kind = "fill" => exchange = "filled"
  /\ s.kind = "cancel" /\ ~AsyncCancel => exchange = "canceled"

\* Where a task is, and what it remembers, fit the states S.
TaskFits(k, S) ==
  /\ k.state \in 0 .. Len(S)
  /\ k.pc \in {"refresh", "ask", "restore", "terminate", "settle", "settling", "ready"} => k.state # 0
  /\ k.pc \in {"terminate", "settle", "settling"} => k.state # 1
  /\ k.pc \in {"refresh", "ask", "answer", "raw lock", "restore"} /\ k.state # 0 =>
       Valued(S[k.state].kind, k.was)
  /\ k.pc \in {"answer", "raw lock"} => k.reply \in Statuses
  /\ k.pc = "listed" => k.state = 0
  /\ Told(k.reply)
  /\ k.pc = "verify" /\ ~AsyncCancel => exchange = "canceled"

Fits(w) ==
  /\ w \in World /\ w.states # <<>>
  /\ Told(w.status) /\ (Len(w.states) > 1 => w.status # "OPEN")
  /\ \A i \in 1 .. Len(w.states) : StateFits(i, w.states[i])
  /\ \A x \in Tasks : TaskFits(w.task[x], w.states)

\* w is what a run of t made of the world so far; t is not at the portfolio.
Reached(t, w) ==
  /\ Fits(w) /\ w.task[t].pc # "settling"
  /\ \A x \in Tasks : w.task[x].pc = "settling" <=> task[x].pc = "settling"

\* The portfolio is updated by one task at a time, which closes the order.
Settlement ==
  /\ settlements \in {0, 1}
  /\ \A t \in Tasks : task[t].pc = "settling" => portfolioLock = t /\ settlements = 1 /\ ~closed
  /\ settlements = 1 => closed \/ \E t \in Tasks : task[t].pc = "settling"

Truth ==
  /\ exchange = "canceling" => AsyncCancel
  /\ closed => Told(outcome) /\ outcome # "OPEN"
  /\ SavesCanceled /\ ~AsyncCancel => ~reincluded

Inv == TypeOK /\ Fits(Here) /\ Settlement /\ Truth
-----------------------------------------------------------------------------
(* What a step changes of the world.                                       *)

\* R has the states of S, and maybe new ones.
Extends(S, R) == Len(R) >= Len(S) /\ \A i \in 1 .. Len(S) : R[i].kind = S[i].kind

LEMMA FitsLater ==
  ASSUME NEW k, NEW S \in Seq(State), NEW R \in Seq(State), Extends(S, R), TaskFits(k, S)
  PROVE  TaskFits(k, R)
<1>1. Len(S) \in Nat /\ Len(R) \in Nat /\ Len(R) >= Len(S)
  BY DEF Extends
<1>2. k.state \in 0 .. Len(S)
  BY DEF TaskFits
<1>3. k.state \in 0 .. Len(S) /\ k.state \in 0 .. Len(R)
  BY <1>2, <1>1
<1>4. k.state # 0 => R[k.state].kind = S[k.state].kind
  BY <1>1, <1>3 DEF Extends
<1>5. k.pc \in {"refresh", "ask", "answer", "raw lock", "restore"} /\ k.state # 0 =>
        Valued(R[k.state].kind, k.was)
  <2>. SUFFICES ASSUME k.pc \in {"refresh", "ask", "answer", "raw lock", "restore"}, k.state # 0
                PROVE  Valued(R[k.state].kind, k.was)
    OBVIOUS
  <2>1. Valued(S[k.state].kind, k.was)
    BY DEF TaskFits
  <2>. QED
    BY <1>4, <2>1
<1>. QED
  BY <1>3, <1>5 DEF TaskFits

\* The task that runs gets somewhere.
LEMMA Moved ==
  ASSUME NEW t \in Tasks, NEW w, Reached(t, w), NEW k \in Task, TaskFits(k, w.states),
         k.pc # "settling", NEW v, v = [w EXCEPT !.task[t] = k]
  PROVE  /\ Reached(t, v) /\ v.states = w.states /\ v.status = w.status /\ v.task[t] = k
         /\ \A x \in Tasks \ {t} : v.task[x] = w.task[x]
<1>1. w \in World /\ w.task \in [Tasks -> Task]
  BY DEF Reached, Fits, World
<1>2. /\ v \in World /\ v.states = w.states /\ v.status = w.status
      /\ v.task = [w.task EXCEPT ![t] = k]
  BY <1>1 DEF World
<1>3. \A x \in Tasks : v.task[x] = IF x = t THEN k ELSE w.task[x]
  BY <1>1, <1>2
<1>. QED
  BY <1>2, <1>3 DEF Reached, Fits

\* A state of the order changes, but not its kind.
LEMMA Changed ==
  ASSUME NEW t \in Tasks, NEW w, Reached(t, w), NEW i, i \in 1 .. Len(w.states), NEW s \in State,
         s.kind = w.states[i].kind, Valued(s.kind, s.value), NEW v, v = [w EXCEPT !.states[i] = s]
  PROVE  /\ Reached(t, v) /\ v.states = [w.states EXCEPT ![i] = s] /\ Len(v.states) = Len(w.states)
         /\ v.status = w.status /\ v.task = w.task /\ v.states[i] = s
<1>1. w \in World /\ w.states \in Seq(State) /\ w.states # <<>>
  BY DEF Reached, Fits, World
<1>. DEFINE S == w.states
            R == [S EXCEPT ![i] = s]
<1>2. R \in Seq(State) /\ Len(R) = Len(S) /\ \A j \in 1 .. Len(S) : R[j] = IF j = i THEN s ELSE S[j]
  BY <1>1
<1>3. v \in World /\ v.states = R /\ v.status = w.status /\ v.task = w.task
  BY <1>1, <1>2 DEF World
<1>. HIDE DEF R
<1>4. R # <<>>
  BY <1>1, <1>2
<1>5. Extends(S, R)
  BY <1>1, <1>2 DEF Extends
<1>6. \A x \in Tasks : TaskFits(w.task[x], R)
  BY <1>1, <1>2, <1>5, FitsLater DEF Reached, Fits
<1>7. \A j \in 1 .. Len(R) : StateFits(j, R[j])
  BY <1>2 DEF Reached, Fits, StateFits
<1>. QED
  BY <1>2, <1>3, <1>4, <1>6, <1>7 DEF Reached, Fits, R

\* The status changes to something that was told.
LEMMA Learned ==
  ASSUME NEW t \in Tasks, NEW w, Reached(t, w), NEW s \in Statuses, Told(s),
         Len(w.states) > 1 => s # "OPEN", NEW v, v = [w EXCEPT !.status = s]
  PROVE  Reached(t, v) /\ v.states = w.states /\ v.status = s /\ v.task = w.task
<1>1. w \in World
  BY DEF Reached, Fits
<1>2. v \in World /\ v.states = w.states /\ v.status = s /\ v.task = w.task
  BY <1>1 DEF World
<1>. QED
  BY <1>2 DEF Reached, Fits

\* The order gets a new state.
LEMMA Replaced ==
  ASSUME NEW t \in Tasks, NEW w, Reached(t, w), w.status # "OPEN", NEW s \in State,
         StateFits(2, s), NEW v, v = [w EXCEPT !.states = Append(@, s)]
  PROVE  /\ Reached(t, v) /\ Len(v.states) = Len(w.states) + 1 /\ Len(w.states) \in Nat \ {0}
         /\ v.states[Len(w.states) + 1] = s /\ v.status = w.status /\ v.task = w.task
<1>. DEFINE S == w.states
            R == Append(S, s)
<1>1. w \in World /\ S \in Seq(State) /\ S # <<>> /\ Len(S) \in Nat \ {0}
  BY DEF Reached, Fits, World
<1>2. /\ R \in Seq(State) /\ Len(R) = Len(S) + 1 /\ R[Len(S) + 1] = s
      /\ \A j \in 1 .. Len(S) : R[j] = S[j]
  BY <1>1
<1>3. v \in World /\ v.states = R /\ v.status = w.status /\ v.task = w.task
  BY <1>1, <1>2 DEF World
<1>. HIDE DEF R
<1>4. Extends(S, R) /\ R # <<>>
  BY <1>1, <1>2 DEF Extends
<1>5. \A x \in Tasks : TaskFits(w.task[x], R)
  BY <1>1, <1>2, <1>4, FitsLater DEF Reached, Fits
<1>6. \A j \in 1 .. Len(R) : StateFits(j, R[j])
  <2>. SUFFICES ASSUME NEW j \in 1 .. Len(R)
                PROVE  StateFits(j, R[j])
    OBVIOUS
  <2>1. CASE j = Len(S) + 1
    <3>1. j # 1 /\ R[j] = s
      BY <1>1, <1>2, <2>1
    <3>. QED
      BY <3>1 DEF StateFits
  <2>2. CASE j # Len(S) + 1
    <3>1. j \in 1 .. Len(S) /\ R[j] = S[j]
      BY <1>1, <1>2, <2>2
    <3>. QED
      BY <3>1 DEF Reached, Fits
  <2>. QED
    BY <2>1, <2>2
<1>. QED
  BY <1>1, <1>2, <1>3, <1>4, <1>5, <1>6 DEF Reached, Fits

-----------------------------------------------------------------------------
(* The rest of a run, from each of the calls it makes.                     *)
LEMMA Typed ==
  ASSUME NEW t \in Tasks, NEW w, Reached(t, w)
  PROVE  /\ w \in World /\ w.states \in Seq(State) /\ w.states # <<>> /\ Len(w.states) \in Nat \ {0}
         /\ w.status \in Statuses /\ Told(w.status) /\ w.task \in [Tasks -> Task]
         /\ w.task[t] \in Task /\ TaskFits(w.task[t], w.states)
<1>1. w \in World /\ w.states \in Seq(State) /\ w.states # <<>>
  BY DEF Reached, Fits, World
<1>2. Len(w.states) \in Nat \ {0}
  BY <1>1
<1>. QED
  BY <1>1, <1>2 DEF Reached, Fits, World

LEMMA EndedFits ==
  ASSUME NEW t \in Tasks, NEW S \in Seq(State)
  PROVE  Ended(t) \in Task /\ TaskFits(Ended(t), S) /\ Ended(t).pc # "settling"
<1>. DEFINE pc == IF t \in Cancellers THEN "done" ELSE IF t = Updater THEN "idle" ELSE "none"
<1>1. pc \in {"done", "idle", "none"} /\ Ended(t) = At(pc)
  BY DEF Ended
<1>. HIDE DEF pc
<1>2. At(pc) \in Task /\ At(pc).pc = pc /\ At(pc).state = 0 /\ At(pc).reply = "NONE"
  BY <1>1 DEF At, Task, Pcs
<1>3. Told("NONE")
  BY DEF Told, Fill
<1>4. 0 \in 0 .. Len(S)
  OBVIOUS
<1>5. TaskFits(At(pc), S)
  BY <1>1, <1>2, <1>3, <1>4 DEF TaskFits
<1>. QED
  BY <1>1, <1>2, <1>5

LEMMA EndReached ==
  ASSUME NEW t \in Tasks, NEW w, Reached(t, w)
  PROVE  Reached(t, End(t, w))
BY Typed, EndedFits, Moved DEF End

\* A task goes to wait at a state.
LEMMA AtStateReached ==
  ASSUME NEW t \in Tasks, NEW w, Reached(t, w), NEW pc \in Pcs, NEW i \in Nat, i \in 0 .. Len(w.states),
         pc \notin {"settle", "settling", "verify", "listed"}, pc = "terminate" => i \notin {0, 1},
         pc \in {"refresh", "ask", "restore", "ready"} => i # 0,
         pc \in {"refresh", "ask", "answer", "raw lock", "restore"} /\ i # 0 =>
           Valued(w.states[i].kind, w.task[t].was),
         pc \in {"answer", "raw lock"} => w.task[t].reply \in Statuses
  PROVE  Reached(t, AtState(t, pc, i, w))
<1>. DEFINE k == [w.task[t] EXCEPT !.pc = pc, !.state = i]
<1>1. w.task[t] \in Task /\ TaskFits(w.task[t], w.states) /\ w.task \in [Tasks -> Task]
      /\ w \in World /\ Len(w.states) \in Nat
  BY Typed
<1>2. /\ k \in Task /\ k.pc = pc /\ k.state = i /\ k.was = w.task[t].was
      /\ k.reply = w.task[t].reply
  BY <1>1 DEF Task
<1>3. AtState(t, pc, i, w) = [w EXCEPT !.task[t] = k]
  BY <1>1 DEF AtState, World
<1>. HIDE DEF k
<1>4. TaskFits(k, w.states)
  <2>1. Told(k.reply)
    BY <1>1, <1>2 DEF TaskFits
  <2>. QED
    BY <1>2, <2>1 DEF TaskFits
<1>5. k.pc # "settling"
  BY <1>2
<1>6. k \in Task
  BY <1>2
<1>. QED
  BY <1>3, <1>4, <1>5, <1>6, Moved

LEMMA SpawnReached ==
  ASSUME NEW t \in Tasks, NEW w, Reached(t, w), w.task = task, EnoughRefreshers,
         task[t].pc # "none", NEW i \in Nat, i \in 1 .. Len(w.states)
  PROVE  LET v == Spawn(i, w)
         IN  /\ Reached(t, v) /\ v.states = w.states /\ v.status = w.status
             /\ v.task[t] = w.task[t]
<1>. DEFINE r == CHOOSE x \in Refreshers : w.task[x].pc = "none"
            k == [At("ready") EXCEPT !.state = i]
            v == Spawn(i, w)
<1>1. r \in Refreshers /\ w.task[r].pc = "none"
  BY DEF EnoughRefreshers
<1>2. w \in World /\ w.states \in Seq(State) /\ w.task \in [Tasks -> Task] /\ Len(w.states) \in Nat
  BY Typed
<1>3. v = [w EXCEPT !.task[r] = k]
  BY DEF Spawn
<1>4. k \in Task /\ k.pc = "ready" /\ k.state = i /\ k.reply = "NONE"
  BY DEF At, Task, Pcs
<1>5. r \in Tasks /\ r # t
  BY <1>1 DEF Tasks
<1>. HIDE DEF r, k, v
<1>6. /\ v \in World /\ v.states = w.states /\ v.status = w.status
      /\ v.task = [w.task EXCEPT ![r] = k]
  BY <1>2, <1>3, <1>4 DEF World
<1>7. \A x \in Tasks : v.task[x] = IF x = r THEN k ELSE w.task[x]
  BY <1>2, <1>5, <1>6
<1>8. Told("NONE")
  BY DEF Told, Fill
<1>9. i \in 0 .. Len(w.states) /\ i # 0
  BY <1>2
<1>10. TaskFits(k, w.states)
  BY <1>4, <1>8, <1>9 DEF TaskFits
<1>11. Fits(v)
  BY <1>6, <1>7, <1>10 DEF Reached, Fits
<1>12. v.task[t] = w.task[t]
  BY <1>5, <1>7
<1>13. \A x \in Tasks : v.task[x].pc = "settling" <=> task[x].pc = "settling"
  BY <1>1, <1>4, <1>7 DEF Reached
<1>. QED
  BY <1>6, <1>11, <1>12, <1>13 DEF Reached, v

LEMMA LockedState ==
  ASSUME NEW t \in Tasks, NEW w, Reached(t, w), NEW i, i \in 1 .. Len(w.states),
         NEW n \in Tasks \cup {NoTask}
  PROVE  LET a == [w EXCEPT !.states[i] = [w.states[i] EXCEPT !.lock = n]]
         IN  /\ Reached(t, a) /\ Len(a.states) = Len(w.states) /\ a.task = w.task
             /\ a.status = w.status
<1>. DEFINE s == w.states[i]
            l == [s EXCEPT !.lock = n]
            a == [w EXCEPT !.states[i] = l]
<1>1. s \in State /\ StateFits(i, s)
  BY Typed DEF Reached, Fits
<1>2. l \in State /\ l.kind = s.kind /\ l.value = s.value
  BY <1>1 DEF State
<1>3. Valued(l.kind, l.value)
  BY <1>1, <1>2 DEF StateFits
<1>4. a = [w EXCEPT !.states[i] = l] /\ l.kind = w.states[i].kind
  BY <1>2
<1>. HIDE DEF l, s, a
<1>5. Reached(t, a)
  BY <1>2, <1>3, <1>4, Changed
<1>6. Len(a.states) = Len(w.states)
  BY <1>2, <1>3, <1>4, Changed
<1>7. a.task = w.task /\ a.status = w.status
  BY <1>2, <1>3, <1>4, Changed
<1>. QED
  BY <1>5, <1>6, <1>7 DEF a, l, s

(* The terminate of a final state.                                         *)
LEMMA TerminateReached ==
  ASSUME NEW t \in Tasks, NEW w, Reached(t, w), NEW i \in Nat, i \in 2 .. Len(w.states),
         w.status # "OPEN"
  PROVE  Reached(t, Terminate(t, i, w))
<1>1. /\ w.states \in Seq(State) /\ Len(w.states) \in Nat /\ w.task[t] \in Task
      /\ w.status \in Statuses /\ Told(w.status)
  BY Typed
<1>2. i \in 0 .. Len(w.states) /\ i \in 1 .. Len(w.states) /\ i \notin {0, 1}
  BY <1>1
<1>. DEFINE s == w.states[i]
            u == [w EXCEPT !.states[i].lock = t,
                           !.status = IF s.kind = "fill" THEN "FILLED" ELSE @]
<1>3. s \in State /\ StateFits(i, s)
  BY <1>1, <1>2 DEF Reached, Fits
<1>4. CASE s.lock # NoTask
  BY <1>1, <1>2, <1>4, AtStateReached DEF Terminate, Pcs
<1>5. CASE s.lock = NoTask /\ closed
  BY <1>5, EndReached DEF Terminate
<1>6. CASE s.lock = NoTask /\ ~closed
  <2>. DEFINE l == [s EXCEPT !.lock = t]
              a == [w EXCEPT !.states[i] = l]
              f == IF s.kind = "fill" THEN "FILLED" ELSE w.status
              k == [w.task[t] EXCEPT !.pc = "settle", !.state = i]
  <2>. HIDE DEF l
  <2>3. /\ Reached(t, a) /\ Len(a.states) = Len(w.states) /\ a.task = w.task /\ a.status = w.status
    BY <1>2, LockedState DEF a, l
  <2>4. f \in Statuses /\ Told(f) /\ f # "OPEN"
    BY <1>1, <1>3 DEF StateFits, Told, Statuses, Fill
  <2>. HIDE DEF a, f
  <2>. DEFINE b == [a EXCEPT !.status = f]
  <2>5. Reached(t, b) /\ b.states = a.states /\ b.task = w.task
    BY <2>3, <2>4, Learned
  <2>6. b = u
    <3>1. w \in World
      BY Typed
    <3>2. u = [w EXCEPT !.states[i] = l, !.status = f]
      <4>1. u = [w EXCEPT !.states[i] = [s EXCEPT !.lock = t], !.status = f]
        BY DEF f
      <4>. QED
        BY <4>1 DEF l
    <3>3. b = [[w EXCEPT !.states[i] = l] EXCEPT !.status = f]
      BY DEF a
    <3>. HIDE DEF b, u
    <3>. QED
      BY <3>1, <3>2, <3>3 DEF World
  <2>7. /\ k \in Task /\ k.pc = "settle" /\ k.state = i /\ k.reply = w.task[t].reply
    BY <1>1 DEF Task, Pcs
  <2>8. Terminate(t, i, w) = [b EXCEPT !.task[t] = k]
    <3>1. Terminate(t, i, w) = AtState(t, "settle", i, u)
      BY <1>6 DEF Terminate
    <3>. HIDE DEF b, u
    <3>2. b \in World
      BY <2>5, Typed
    <3>. QED
      BY <2>5, <2>6, <3>1, <3>2 DEF AtState, World
  <2>. HIDE DEF b, k
  <2>9. Told(w.task[t].reply)
    BY Typed DEF TaskFits
  <2>10. TaskFits(k, b.states)
    <3>1. i \in 0 .. Len(b.states)
      BY <1>2, <2>3, <2>5
    <3>. QED
      BY <1>2, <2>7, <2>9, <3>1 DEF TaskFits
  <2>11. k.pc # "settling" /\ k \in Task
    BY <2>7
  <2>. QED
    BY <2>5, <2>8, <2>10, <2>11, Moved
<1>. QED
  BY <1>4, <1>5, <1>6

\* A state of the order gets another value.
LEMMA ValueReached ==
  ASSUME NEW t \in Tasks, NEW w, Reached(t, w), NEW i, i \in 1 .. Len(w.states), NEW n \in Values,
         Valued(w.states[i].kind, n)
  PROVE  LET a == [w EXCEPT !.states[i].value = n]
         IN  /\ Reached(t, a) /\ Len(a.states) = Len(w.states) /\ a.task = w.task
             /\ a.status = w.status /\ a.states[i].kind = w.states[i].kind
<1>. DEFINE s == w.states[i]
            l == [s EXCEPT !.value = n]
            a == [w EXCEPT !.states[i].value = n]
<1>1. s \in State
  BY Typed
<1>2. l \in State /\ l.kind = s.kind /\ l.value = n
  BY <1>1 DEF State
<1>3. Valued(l.kind, l.value)
  BY <1>2
<1>4. a = [w EXCEPT !.states[i] = l] /\ l.kind = w.states[i].kind
  BY <1>2
<1>. HIDE DEF l, s, a
<1>5. Reached(t, a)
  BY <1>2, <1>3, <1>4, Changed
<1>6. Len(a.states) = Len(w.states)
  BY <1>2, <1>3, <1>4, Changed
<1>7. a.task = w.task /\ a.status = w.status
  BY <1>2, <1>3, <1>4, Changed
<1>8. a.states[i] = l
  BY <1>2, <1>3, <1>4, Changed
<1>9. a.states[i].kind = w.states[i].kind
  BY <1>4, <1>8
<1>. QED
  BY <1>5, <1>6, <1>7, <1>9 DEF a

(* The start of refresh_operation.                                         *)
LEMMA StartRefreshReached ==
  ASSUME NEW t \in Tasks, NEW w, Reached(t, w), NEW i \in Nat, i \in 1 .. Len(w.states)
  PROVE  Reached(t, StartRefresh(t, i, w))
<1>1. /\ w.states \in Seq(State) /\ Len(w.states) \in Nat /\ w.task[t] \in Task /\ w \in World
      /\ w.task \in [Tasks -> Task] /\ TaskFits(w.task[t], w.states)
  BY Typed
<1>. DEFINE s == w.states[i]
            m == [w EXCEPT !.task[t].was = s.value]
            k(pc) == [w.task[t] EXCEPT !.was = s.value, !.pc = pc, !.state = i]
            v(pc) == [w EXCEPT !.task[t] = k(pc)]
<1>2. s \in State /\ StateFits(i, s)
  BY <1>1 DEF Reached, Fits
<1>3. s.value \in Values /\ Valued(s.kind, s.value) /\ s.kind \in {"open", "cancel", "fill"}
  BY <1>2 DEF State, StateFits
<1>4. ASSUME NEW pc \in {"refresh", "ask"}
      PROVE  /\ Reached(t, v(pc)) /\ v(pc).states = w.states
             /\ v(pc) = AtState(t, pc, i, m)
  <2>. DEFINE q == k(pc)
  <2>1. /\ q \in Task /\ q.pc = pc /\ q.state = i /\ q.was = s.value
        /\ q.reply = w.task[t].reply
    BY <1>1, <1>3 DEF Task, Pcs
  <2>2. v(pc) = AtState(t, pc, i, m)
    <3>. HIDE DEF s
    <3>. QED
      BY <1>1 DEF AtState, World
  <2>3. v(pc) = [w EXCEPT !.task[t] = q]
    OBVIOUS
  <2>. HIDE DEF v, k, q
  <2>4. Told(w.task[t].reply) /\ i \in 0 .. Len(w.states) /\ i # 0
    <3>1. Told(w.task[t].reply)
      BY <1>1 DEF TaskFits
    <3>. QED
      BY <1>1, <3>1
  <2>5. TaskFits(q, w.states)
    BY <1>3, <2>1, <2>4 DEF TaskFits
  <2>6. q.pc # "settling"
    BY <2>1
  <2>7. q \in Task
    BY <2>1
  <2>8. Reached(t, v(pc))
    BY <2>3, <2>5, <2>6, <2>7, Moved
  <2>9. v(pc).states = w.states
    BY <1>1, <2>3 DEF World
  <2>. QED
    BY <2>2, <2>8, <2>9
<1>. HIDE DEF v, k
<1>5. CASE s.value = "REFRESHING"
  BY <1>5, EndReached DEF StartRefresh
<1>6. CASE s.value # "REFRESHING" /\ s.lock # NoTask
  <2>1. StartRefresh(t, i, w) = v("refresh")
    BY <1>4, <1>6 DEF StartRefresh
  <2>. QED
    BY <1>4, <2>1
<1>7. CASE s.value # "REFRESHING" /\ s.lock = NoTask
  <2>. DEFINE b == v("ask")
  <2>1. /\ Reached(t, b) /\ b.states = w.states /\ b = AtState(t, "ask", i, m)
    BY <1>4
  <2>2. StartRefresh(t, i, w) = AtState(t, "ask", i, [m EXCEPT !.states[i].value = "REFRESHING"])
    BY <1>7 DEF StartRefresh
  <2>. HIDE DEF b, s
  <2>3. StartRefresh(t, i, w) = [b EXCEPT !.states[i].value = "REFRESHING"]
    <3>1. /\ m \in [states : {w.states}, status : {w.status}, task : {m.task}]
      BY <1>1 DEF World
    <3>. HIDE DEF m
    <3>. QED
      BY <1>1, <2>1, <2>2, <3>1 DEF AtState
  <2>4. "REFRESHING" \in Values /\ Valued(b.states[i].kind, "REFRESHING")
    BY DEF Values, Valued
  <2>5. i \in 1 .. Len(b.states)
    BY <2>1
  <2>6. Reached(t, [b EXCEPT !.states[i].value = "REFRESHING"])
    BY <2>1, <2>4, <2>5, ValueReached
  <2>. QED
    BY <2>3, <2>6
<1>. QED
  BY <1>5, <1>6, <1>7

(* The end of a refresh.                                                   *)
LEMMA RestoreReached ==
  ASSUME NEW t \in Tasks, NEW w, Reached(t, w), NEW i \in Nat, i \in 1 .. Len(w.states),
         Valued(w.states[i].kind, w.task[t].was)
  PROVE  Reached(t, Restore(t, i, w))
<1>1. w.states \in Seq(State) /\ Len(w.states) \in Nat /\ w.task[t] \in Task
  BY Typed
<1>. DEFINE s == w.states[i]
            n == IF s.value = "REFRESHING" THEN w.task[t].was ELSE s.value
            a == [w EXCEPT !.states[i].value = n]
<1>2. s \in State /\ StateFits(i, s)
  BY <1>1 DEF Reached, Fits
<1>3. s.value \in Values /\ Valued(s.kind, s.value) /\ s.kind \in {"open", "cancel", "fill"}
  BY <1>2 DEF State, StateFits
<1>4. CASE s.lock # NoTask
  <2>1. i \in 0 .. Len(w.states) /\ i # 0
    BY <1>1
  <2>2. Restore(t, i, w) = AtState(t, "restore", i, w)
    BY <1>4 DEF Restore
  <2>3. "restore" \in Pcs
    BY DEF Pcs
  <2>. QED
    BY <2>1, <2>2, <2>3, AtStateReached
<1>5. CASE s.lock = NoTask
  <2>1. n \in Values /\ Valued(s.kind, n)
    <3>1. w.task[t].was \in Values
      BY <1>3 DEF Valued, Values
    <3>. QED
      BY <1>3, <3>1
  <2>2. Restore(t, i, w) = End(t, a)
    BY <1>5 DEF Restore
  <2>. HIDE DEF n
  <2>3. Reached(t, a)
    BY <2>1, ValueReached
  <2>. HIDE DEF a
  <2>. QED
    BY <2>2, <2>3, EndReached
<1>. QED
  BY <1>4, <1>5

LEMMA NewStates ==
  /\ NewState("fill", "FILLED") \in State
  /\ \A n \in {"CANCELING", "CANCELED"} : NewState("cancel", n) \in State
  /\ exchange = "filled" => StateFits(2, NewState("fill", "FILLED"))
  /\ (~AsyncCancel => exchange = "canceled") =>
       \A n \in {"CANCELING", "CANCELED"} : StateFits(2, NewState("cancel", n))
<1>1. 0 \in 0 .. MaxSynchronizationAttempts
  BY BoundsAssumption
<1>. QED
  BY <1>1 DEF NewState, State, Values, StateFits, Valued

LEMMA OnFillReached ==
  ASSUME NEW t \in Tasks, NEW w, Reached(t, w), w.status \in Fill
  PROVE  Reached(t, OnFill(t, w))
<1>. DEFINE s == NewState("fill", "FILLED")
            n == Len(w.states) + 1
            v == [w EXCEPT !.states = Append(@, s)]
<1>1. exchange = "filled" /\ w.status # "OPEN"
  BY Typed DEF Told, Fill
<1>2. s \in State /\ StateFits(2, s)
  BY <1>1, NewStates
<1>3. v = [w EXCEPT !.states = Append(@, s)]
  OBVIOUS
<1>. HIDE DEF s, v
<1>4. Reached(t, v) /\ Len(v.states) = n /\ v.status = w.status /\ Len(w.states) \in Nat \ {0}
  BY <1>1, <1>2, <1>3, Replaced
<1>5. n \in Nat /\ n \in 2 .. Len(v.states)
  BY <1>4
<1>6. OnFill(t, w) = Terminate(t, n, v)
  BY DEF OnFill, v, s
<1>7. v.status # "OPEN"
  BY <1>1, <1>4
<1>. HIDE DEF n
<1>. QED
  BY <1>4, <1>5, <1>6, <1>7, TerminateReached

LEMMA OnFillIfOpenReached ==
  ASSUME NEW t \in Tasks, NEW w, Reached(t, w), w.status \in Fill
  PROVE  Reached(t, OnFillIfOpen(t, w))
BY OnFillReached, EndReached DEF OnFillIfOpen

LEMMA OnCancelReached ==
  ASSUME NEW t \in Tasks, NEW w, Reached(t, w), w.status \in Cancel
  PROVE  Reached(t, OnCancel(t, w))
<1>1. w.status # "OPEN" /\ (~AsyncCancel => exchange = "canceled")
  BY Typed DEF Told, Cancel
<1>. DEFINE n == Len(w.states) + 1
            v(x) == [w EXCEPT !.states = Append(@, NewState("cancel", x))]
<1>2. ASSUME NEW x \in {"CANCELING", "CANCELED"}
      PROVE  /\ Reached(t, v(x)) /\ n \in Nat /\ n \in 2 .. Len(v(x).states)
             /\ v(x).status = w.status
  <2>. DEFINE s == NewState("cancel", x)
              a == v(x)
  <2>1. s \in State /\ StateFits(2, s)
    BY <1>1, NewStates
  <2>2. a = [w EXCEPT !.states = Append(@, s)]
    OBVIOUS
  <2>. HIDE DEF s, a, v
  <2>3. Reached(t, a) /\ Len(a.states) = n /\ a.status = w.status /\ Len(w.states) \in Nat \ {0}
    BY <1>1, <2>1, <2>2, Replaced
  <2>. QED
    BY <2>3 DEF a
<1>3. CASE closed
  BY <1>3, EndReached DEF OnCancel
<1>4. CASE ~closed /\ w.status = "CANCELED"
  <2>1. OnCancel(t, w) = Terminate(t, n, v("CANCELED"))
    BY <1>4 DEF OnCancel
  <2>. DEFINE a == v("CANCELED")
  <2>2. Reached(t, a) /\ n \in Nat /\ n \in 2 .. Len(a.states) /\ a.status # "OPEN"
    BY <1>1, <1>2
  <2>. HIDE DEF n, a
  <2>3. Reached(t, Terminate(t, n, a))
    BY <2>2, TerminateReached
  <2>. QED
    BY <2>1, <2>3 DEF a
<1>5. CASE ~closed /\ w.status # "CANCELED"
  <2>1. OnCancel(t, w) = StartRefresh(t, n, v("CANCELING"))
    BY <1>5 DEF OnCancel
  <2>. DEFINE a == v("CANCELING")
  <2>2. Reached(t, a) /\ n \in Nat /\ n \in 2 .. Len(a.states)
    BY <1>2
  <2>3. n \in 1 .. Len(a.states)
    BY <2>2
  <2>. HIDE DEF n, a
  <2>4. Reached(t, StartRefresh(t, n, a))
    BY <2>2, <2>3, StartRefreshReached
  <2>. QED
    BY <2>1, <2>4 DEF a
<1>. QED
  BY <1>3, <1>4, <1>5

-----------------------------------------------------------------------------
(* What was told stays true: the order ends once on the exchange.          *)
GoesOn == exchange' = exchange \/ exchange \in {"open", "canceling"}

LEMMA ToldStays ==
  ASSUME GoesOn, NEW s, Told(s)
  PROVE  Told(s)'
BY DEF GoesOn, Told, Fill

LEMMA TaskStays ==
  ASSUME GoesOn, NEW k, NEW S, TaskFits(k, S)
  PROVE  TaskFits(k, S)'
<1>1. Told(k.reply)'
  BY ToldStays DEF TaskFits
<1>2. (k.pc = "verify" /\ ~AsyncCancel => exchange = "canceled")'
  BY DEF GoesOn, TaskFits
<1>. QED
  BY <1>1, <1>2 DEF TaskFits

LEMMA FitsStays ==
  ASSUME GoesOn, NEW w, Fits(w)
  PROVE  Fits(w)'
<1>1. ASSUME NEW i, NEW s, StateFits(i, s)
      PROVE  StateFits(i, s)'
  BY <1>1 DEF GoesOn, StateFits
<1>2. ASSUME NEW k, NEW S, TaskFits(k, S)
      PROVE  TaskFits(k, S)'
  BY <1>2, TaskStays
<1>3. Told(w.status)'
  BY ToldStays DEF Fits
<1>. QED
  BY <1>1, <1>2, <1>3 DEF Fits

(* The world as it is when a task runs.                                    *)
LEMMA HereReached ==
  ASSUME Inv, NEW t \in Tasks, task[t].pc # "settling"
  PROVE  /\ Reached(t, Here) /\ Here.states = states /\ Here.status = status /\ Here.task = task
BY DEF Inv, Reached, Here

LEMMA Facts ==
  ASSUME Inv
  PROVE  /\ states \in Seq(State) /\ states # <<>> /\ Len(states) \in Nat \ {0} /\ status \in Statuses
         /\ Told(status) /\ (Len(states) > 1 => status # "OPEN")
         /\ task \in [Tasks -> Task] /\ \A t \in Tasks : TaskFits(task[t], states)
         /\ \A i \in 1 .. Len(states) : StateFits(i, states[i])
<1>1. states \in Seq(State) /\ states # <<>>
  BY DEF Inv, TypeOK
<1>2. Len(states) \in Nat \ {0}
  BY <1>1
<1>. QED
  BY <1>1, <1>2 DEF Inv, TypeOK, Fits, Here

AheadTyped == ahead \in [Refreshers -> SUBSET Tasks]

(* A step that ends at a world a run reaches.                              *)
LEMMA BecomesKeeps ==
  ASSUME Inv, NEW t \in Tasks, task[t].pc # "settling", NEW v, Reached(t, v), Becomes(t, v),
         UNCHANGED <<exchange, outcome, settlements>>, AheadTyped',
         orderLock' \in Cancellers \cup {NoTask}, failures' \in 0 .. MaxFailures,
         reincluded' \in BOOLEAN, SavesCanceled /\ ~AsyncCancel => ~reincluded'
  PROVE  Inv'
<1>1. states' = v.states /\ status' = v.status /\ task' = v.task
  BY DEF Becomes
<1>2. v \in World /\ v.states # <<>> /\ Fits(v)
  BY DEF Reached, Fits
<1>3. Here' = v
  BY <1>1, <1>2 DEF Here, World
<1>4. Fits(v)'
  BY <1>2, FitsStays DEF GoesOn
<1>5. Fits(Here)'
  BY <1>3, <1>4
<1>6. portfolioLock' \in Tasks \cup {NoTask}
  BY DEF Becomes, Inv, TypeOK
<1>7. TypeOK'
  BY <1>1, <1>2, <1>6 DEF Inv, TypeOK, World, AheadTyped
<1>8. \A x \in Tasks : /\ task'[x].pc = "settling" <=> task[x].pc = "settling"
                       /\ task[x].pc = "settling" => x # t
  BY <1>1 DEF Reached
<1>9. Settlement'
  <2>1. \A x \in Tasks : task[x].pc = "settling" => portfolioLock' = portfolioLock
    BY <1>8 DEF Inv, Settlement, Becomes
  <2>. QED
    BY <1>8, <2>1 DEF Inv, Settlement, closed
<1>10. Truth'
  BY DEF Inv, Truth, closed, Told
<1>. QED
  BY <1>5, <1>7, <1>9, <1>10 DEF Inv

(* A step that only takes a task elsewhere.                                *)
LEMMA TaskKeeps ==
  ASSUME Inv, NEW t \in Tasks, task[t].pc # "settling", NEW k \in Task, k.pc # "settling",
         GoesOn, TaskFits(k, states)', task' = [task EXCEPT ![t] = k],
         UNCHANGED <<status, states, outcome, settlements, reincluded>>, AheadTyped',
         exchange' \in {"open", "canceling", "canceled", "filled"},
         exchange' = "canceling" => AsyncCancel,
         orderLock' \in Cancellers \cup {NoTask}, failures' \in 0 .. MaxFailures,
         portfolioLock' = portfolioLock \/ (portfolioLock = NoTask /\ portfolioLock' \in Tasks)
  PROVE  Inv'
<1>1. task \in [Tasks -> Task] /\ task' \in [Tasks -> Task]
  BY Facts
<1>2. \A x \in Tasks : task'[x] = IF x = t THEN k ELSE task[x]
  BY <1>1
<1>3. TypeOK'
  BY <1>1 DEF Inv, TypeOK, AheadTyped
<1>4. Fits(Here)'
  <2>1. Fits(Here) /\ Here = [states |-> states, status |-> status, task |-> task]
    BY DEF Inv, Here
  <2>. DEFINE w == Here
  <2>2. ASSUME NEW h, h = [states |-> states, status |-> status, task |-> task], Fits(h)
        PROVE  Fits(h)' /\ h.states = states /\ h.status = status /\ h.task = task
    BY <2>2, FitsStays
  <2>3. PICK h : h = [states |-> states, status |-> status, task |-> task] /\ Fits(h)
    BY <2>1
  <2>4. Fits(h)' /\ h.states = states /\ h.status = status /\ h.task = task
    BY <2>2, <2>3
  <2>5. Here' = [states |-> states, status |-> status, task |-> task']
    BY DEF Here
  <2>. QED
    BY <1>1, <1>2, <2>4, <2>5 DEF Fits, World
<1>5. Settlement'
  <2>1. NoTask \notin Tasks
    BY TasksAssumption
  <2>. QED
    BY <1>2, <2>1 DEF Inv, Settlement, closed
<1>6. Truth'
  <2>1. closed => Told(outcome)'
    BY ToldStays DEF Inv, Truth
  <2>. QED
    BY <2>1 DEF Inv, Truth, closed
<1>. QED
  BY <1>3, <1>4, <1>5, <1>6 DEF Inv

LEMMA TaskGoes ==
  ASSUME Inv, NEW t \in Tasks, task[t].pc # "settling", NEW k \in Task, k.pc # "settling",
         TaskFits(k, states), task' = [task EXCEPT ![t] = k],
         UNCHANGED <<exchange, status, states, outcome, settlements, reincluded>>, AheadTyped',
         orderLock' \in Cancellers \cup {NoTask}, failures' \in 0 .. MaxFailures,
         portfolioLock' = portfolioLock \/ (portfolioLock = NoTask /\ portfolioLock' \in Tasks)
  PROVE  Inv'
<1>1. GoesOn
  BY DEF GoesOn
<1>2. \A S : TaskFits(k, S) => TaskFits(k, S)'
  BY <1>1, TaskStays
<1>3. PICK S : S = states /\ TaskFits(k, S)
  OBVIOUS
<1>4. TaskFits(k, S)'
  BY <1>2, <1>3
<1>5. TaskFits(k, states)'
  BY <1>3, <1>4
<1>6. /\ exchange' \in {"open", "canceling", "canceled", "filled"}
      /\ exchange' = "canceling" => AsyncCancel
  BY DEF Inv, TypeOK, Truth
<1>. QED
  BY <1>1, <1>5, <1>6, TaskKeeps

LEMMA ZeroFits == \A n \in Nat : 0 \in 0 .. n
OBVIOUS

(* A task that waits for the order lock or an answer needs no state.       *)
LEMMA QuietFits ==
  ASSUME Inv, NEW t \in Tasks, NEW k \in Task, k.state \in {0, task[t].state},
         k.pc \in {"order lock", "request", "answered"}, Told(k.reply)
  PROVE  TaskFits(k, states)
<1>1. TaskFits(task[t], states) /\ Len(states) \in Nat
  BY Facts
<1>2. task[t].state \in 0 .. Len(states)
  BY <1>1 DEF TaskFits
<1>3. Len(states) \in Nat
  BY <1>1
<1>4. 0 \in 0 .. Len(states)
  BY <1>3, ZeroFits
<1>5. k.state \in 0 .. Len(states)
  <2>1. CASE k.state = 0
    BY <1>4, <2>1
  <2>2. CASE k.state = task[t].state
    BY <1>2, <2>2
  <2>. QED
    BY <2>1, <2>2
<1>. QED
  BY <1>5 DEF TaskFits

LEMMA TaskFacts ==
  ASSUME Inv, NEW t \in Tasks
  PROVE  task[t] \in Task /\ TaskFits(task[t], states) /\ Told(task[t].reply)
<1>1. task[t] \in Task /\ TaskFits(task[t], states)
  BY Facts
<1>. QED
  BY <1>1 DEF TaskFits

-----------------------------------------------------------------------------
(* The steps of cancel_order.                                              *)
LEMMA CancelOrderKeeps ==
  ASSUME Inv, NEW c \in Cancellers, CancelOrder(c), AheadTyped'
  PROVE  Inv'
<1>1. c \in Tasks /\ task[c].pc = "start"
  BY DEF CancelOrder, Tasks
<1>2. /\ UNCHANGED <<exchange, status, states, outcome, settlements, reincluded, failures>>
      /\ failures' \in 0 .. MaxFailures /\ orderLock \in Cancellers \cup {NoTask}
  BY DEF CancelOrder, Inv, TypeOK
<1>3. task[c] \in Task /\ Told(task[c].reply) /\ states \in Seq(State)
  BY <1>1, TaskFacts, Facts
<1>4. CASE ~IsOpen
  <2>. DEFINE k == Ended(c)
  <2>1. k \in Task /\ TaskFits(k, states) /\ k.pc # "settling"
    BY <1>1, <1>3, EndedFits
  <2>2. task' = [task EXCEPT ![c] = k] /\ UNCHANGED <<orderLock, portfolioLock>>
    BY <1>4 DEF CancelOrder
  <2>. HIDE DEF k
  <2>. QED
    BY <1>1, <1>2, <2>1, <2>2, TaskGoes
<1>5. CASE IsOpen
  <2>. DEFINE pc == IF orderLock = NoTask THEN "request" ELSE "order lock"
              k == [task[c] EXCEPT !.pc = pc]
  <2>1. pc \in {"request", "order lock"}
    OBVIOUS
  <2>2. /\ task' = [task EXCEPT ![c] = k] /\ orderLock' \in Cancellers \cup {NoTask}
        /\ portfolioLock' = portfolioLock \/ (portfolioLock = NoTask /\ portfolioLock' \in Tasks)
    BY <1>1, <1>2, <1>5, Facts DEF CancelOrder
  <2>. HIDE DEF pc
  <2>3. k \in Task /\ k.pc = pc /\ k.state = task[c].state /\ k.reply = task[c].reply
    BY <1>3, <2>1 DEF Task, Pcs
  <2>. HIDE DEF k
  <2>4. TaskFits(k, states)
    BY <1>1, <1>3, <2>1, <2>3, QuietFits
  <2>5. k \in Task /\ k.pc # "settling"
    BY <2>1, <2>3
  <2>. QED
    BY <1>1, <1>2, <2>2, <2>4, <2>5, TaskGoes
<1>. QED
  BY <1>4, <1>5

LEMMA TakeOrderLockKeeps ==
  ASSUME Inv, NEW c \in Cancellers, TakeOrderLock(c), AheadTyped'
  PROVE  Inv'
<1>. DEFINE k == [task[c] EXCEPT !.pc = "request"]
<1>1. c \in Tasks /\ task[c].pc = "order lock"
  BY DEF TakeOrderLock, Tasks
<1>2. /\ UNCHANGED <<exchange, status, states, outcome, settlements, reincluded, failures>>
      /\ failures' \in 0 .. MaxFailures /\ orderLock' \in Cancellers \cup {NoTask}
      /\ portfolioLock' = portfolioLock /\ task' = [task EXCEPT ![c] = k]
  BY Facts DEF TakeOrderLock, Inv, TypeOK
<1>3. task[c] \in Task /\ Told(task[c].reply)
  BY <1>1, TaskFacts
<1>4. k \in Task /\ k.pc = "request" /\ k.state = task[c].state /\ k.reply = task[c].reply
  BY <1>3 DEF Task, Pcs
<1>. HIDE DEF k
<1>5. TaskFits(k, states)
  BY <1>1, <1>3, <1>4, QuietFits
<1>6. k \in Task /\ k.pc # "settling"
  BY <1>4
<1>. QED
  BY <1>1, <1>2, <1>5, <1>6, TaskGoes

(* An answer to the request.                                               *)
LEMMA ReplyKeeps ==
  ASSUME Inv, NEW c \in Cancellers, NEW x \in {"REJECTED", "FAILED", "PENDING_CANCEL", "CANCELED"},
         Told(x), Reply(c, x), task[c].pc # "settling",
         UNCHANGED <<exchange, status, states, outcome, orderLock, portfolioLock, settlements,
                     reincluded>>, failures' \in 0 .. MaxFailures, AheadTyped'
  PROVE  Inv'
<1>. DEFINE k == [task[c] EXCEPT !.pc = "answered", !.reply = x]
<1>1. c \in Tasks
  BY DEF Tasks
<1>2. /\ orderLock' \in Cancellers \cup {NoTask} /\ task' = [task EXCEPT ![c] = k]
      /\ portfolioLock' = portfolioLock
  BY Facts DEF Reply, Inv, TypeOK
<1>3. task[c] \in Task
  BY <1>1, TaskFacts
<1>4. k \in Task /\ k.pc = "answered" /\ k.state = task[c].state /\ k.reply = x
  BY <1>3 DEF Task, Pcs, Statuses
<1>. HIDE DEF k
<1>5. TaskFits(k, states)
  BY <1>1, <1>4, QuietFits
<1>6. k \in Task /\ k.pc # "settling"
  BY <1>4
<1>. QED
  BY <1>1, <1>2, <1>5, <1>6, TaskGoes

LEMMA AnswersKeep ==
  ASSUME Inv, NEW c \in Cancellers, RefuseCancel(c) \/ FailCancel(c) \/ VerifyCancel(c), AheadTyped'
  PROVE  Inv'
<1>1. failures \in 0 .. MaxFailures /\ c \in Tasks
  BY DEF Inv, TypeOK, Tasks
<1>2. Told("REJECTED") /\ Told("FAILED")
  BY DEF Told, Fill
<1>3. CASE RefuseCancel(c)
  BY <1>1, <1>2, <1>3, ReplyKeeps DEF RefuseCancel
<1>4. CASE FailCancel(c)
  <2>1. failures' \in 0 .. MaxFailures
    BY <1>1, <1>4, BoundsAssumption DEF FailCancel
  <2>. QED
    BY <1>2, <1>4, <2>1, ReplyKeeps DEF FailCancel
<1>5. CASE VerifyCancel(c)
  <2>. DEFINE x == IF exchange = "canceling" THEN "PENDING_CANCEL" ELSE "CANCELED"
  <2>1. ~AsyncCancel => exchange = "canceled"
    BY <1>1, <1>5, TaskFacts DEF VerifyCancel, TaskFits
  <2>2. Told(x)
    BY <2>1 DEF Told, Fill
  <2>3. Reply(c, x) /\ task[c].pc = "verify" /\ failures' \in 0 .. MaxFailures
        /\ UNCHANGED <<exchange, status, states, outcome, orderLock, portfolioLock, settlements,
                       reincluded>>
    BY <1>1, <1>5 DEF VerifyCancel
  <2>4. x \in {"REJECTED", "FAILED", "PENDING_CANCEL", "CANCELED"}
    OBVIOUS
  <2>. HIDE DEF x
  <2>. QED
    BY <2>2, <2>3, <2>4, ReplyKeeps
<1>. QED
  BY <1>3, <1>4, <1>5

LEMMA AcceptCancelKeeps ==
  ASSUME Inv, NEW c \in Cancellers, AcceptCancel(c), AheadTyped'
  PROVE  Inv'
<1>1. c \in Tasks /\ task[c].pc = "request" /\ exchange \in {"open", "canceling"}
      /\ exchange' \in {"canceling", "canceled"} /\ (exchange' = "canceling" => AsyncCancel)
  BY DEF AcceptCancel, Tasks
<1>2. PICK k : k = [task[c] EXCEPT !.pc = "verify"]
  OBVIOUS
<1>3. /\ UNCHANGED <<status, states, outcome, settlements, reincluded>>
      /\ failures' \in 0 .. MaxFailures /\ orderLock' \in Cancellers \cup {NoTask}
      /\ portfolioLock' = portfolioLock /\ task' = [task EXCEPT ![c] = k]
  BY <1>2, Facts DEF AcceptCancel, Inv, TypeOK
<1>4. task[c] \in Task /\ TaskFits(task[c], states) /\ Told(task[c].reply)
  BY <1>1, TaskFacts
<1>5. k \in Task /\ k.pc = "verify" /\ k.state = task[c].state /\ k.reply = task[c].reply
  BY <1>2, <1>4 DEF Task, Pcs
<1>6. k.state \in 0 .. Len(states) /\ Told(k.reply)
  BY <1>4, <1>5 DEF TaskFits
<1>7. GoesOn
  BY <1>1 DEF GoesOn
<1>8. Told(k.reply)'
  <2>1. \A s : Told(s) => Told(s)'
    BY <1>7, ToldStays
  <2>. QED
    BY <1>6, <2>1
<1>9. TaskFits(k, states)'
  BY <1>1, <1>3, <1>5, <1>6, <1>8 DEF TaskFits
<1>10. k \in Task /\ k.pc # "settling"
  BY <1>5
<1>11. exchange' \in {"open", "canceling", "canceled", "filled"}
  BY <1>1
<1>. QED
  BY <1>1, <1>3, <1>7, <1>9, <1>10, <1>11, TaskKeeps

LEMMA RetryCancelKeeps ==
  ASSUME Inv, NEW c \in Cancellers, RetryCancel(c), AheadTyped'
  PROVE  Inv'
<1>. DEFINE k == [At("request") EXCEPT !.retried = TRUE]
<1>1. c \in Tasks /\ task[c].pc = "answered"
  BY DEF RetryCancel, Tasks
<1>2. /\ UNCHANGED <<exchange, status, states, outcome, settlements, reincluded, failures>>
      /\ failures' \in 0 .. MaxFailures /\ orderLock' \in Cancellers \cup {NoTask}
      /\ portfolioLock' = portfolioLock /\ task' = [task EXCEPT ![c] = k]
  BY DEF RetryCancel, Inv, TypeOK
<1>3. k \in Task /\ k.pc = "request" /\ k.state = 0 /\ k.reply = "NONE"
  BY DEF At, Task, Pcs
<1>. HIDE DEF k
<1>4. Told("NONE")
  BY DEF Told, Fill
<1>5. TaskFits(k, states)
  BY <1>1, <1>3, <1>4, QuietFits
<1>6. k \in Task /\ k.pc # "settling"
  BY <1>3
<1>. QED
  BY <1>1, <1>2, <1>5, <1>6, TaskGoes

(* A step that ends at a world, and does nothing else but release the      *)
(* lock of the order.                                                      *)
LEMMA RunKeeps ==
  ASSUME Inv, NEW t \in Tasks, task[t].pc # "settling", NEW v, Reached(t, v), Becomes(t, v),
         UNCHANGED <<exchange, outcome, settlements, reincluded>>, orderLock' \in {orderLock, NoTask},
         failures' = failures \/ (failures < MaxFailures /\ failures' = failures + 1), AheadTyped'
  PROVE  Inv'
<1>1. failures \in 0 .. MaxFailures /\ reincluded \in BOOLEAN
      /\ orderLock \in Cancellers \cup {NoTask}
  BY DEF Inv, TypeOK
<1>2. failures' \in 0 .. MaxFailures
  BY <1>1, BoundsAssumption
<1>3. SavesCanceled /\ ~AsyncCancel => ~reincluded'
  BY DEF Inv, Truth
<1>4. orderLock' \in Cancellers \cup {NoTask} /\ reincluded' \in BOOLEAN
  BY <1>1
<1>. QED
  BY <1>2, <1>3, <1>4, BecomesKeeps

LEMMA CancelFailedKeeps ==
  ASSUME Inv, NEW c \in Cancellers, CancelFailed(c), AheadTyped'
  PROVE  Inv'
<1>1. c \in Tasks /\ task[c].pc # "settling" /\ Becomes(c, End(c, Here))
      /\ UNCHANGED <<exchange, outcome, settlements, reincluded, failures>> /\ orderLock' = NoTask
  BY DEF CancelFailed, Tasks
<1>2. Reached(c, End(c, Here))
  BY <1>1, HereReached, EndReached
<1>. QED
  BY <1>1, <1>2, RunKeeps

LEMMA HandleOrderCancelErrorKeeps ==
  ASSUME Inv, NEW c \in Cancellers, HandleOrderCancelError(c), AheadTyped'
  PROVE  Inv'
<1>. DEFINE v == IF closed THEN End(c, Here) ELSE StartRefresh(c, Len(states), Here)
<1>1. c \in Tasks /\ task[c].pc # "settling" /\ Becomes(c, v)
      /\ UNCHANGED <<exchange, outcome, settlements, reincluded, failures>> /\ orderLock' = NoTask
  BY DEF HandleOrderCancelError, Tasks
<1>2. Reached(c, Here) /\ Here.states = states
  BY <1>1, HereReached
<1>3. Len(states) \in Nat /\ Len(states) \in 1 .. Len(Here.states)
  BY <1>2, Facts
<1>4. Reached(c, v)
  BY <1>1, <1>2, <1>3, EndReached, StartRefreshReached
<1>. HIDE DEF v
<1>. QED
  BY <1>1, <1>4, RunKeeps

LEMMA CancelAnsweredKeeps ==
  ASSUME Inv, NEW c \in Cancellers, CancelAnswered(c), AheadTyped'
  PROVE  Inv'
<1>. DEFINE a == [Here EXCEPT !.status = task[c].reply]
            v == IF IsRefreshing THEN End(c, a) ELSE OnCancel(c, a)
<1>1. c \in Tasks /\ task[c].pc # "settling" /\ Becomes(c, v) /\ task[c].reply \in Cancel
      /\ UNCHANGED <<exchange, outcome, settlements, reincluded, failures>> /\ orderLock' = NoTask
  BY DEF CancelAnswered, Tasks
<1>2. Reached(c, Here)
  BY <1>1, HereReached
<1>3. Told(task[c].reply) /\ task[c].reply \in Statuses /\ task[c].reply # "OPEN"
  BY <1>1, TaskFacts DEF Cancel, Statuses
<1>4. Reached(c, a) /\ a.status \in Cancel
  BY <1>1, <1>2, <1>3, Learned
<1>. HIDE DEF a
<1>5. Reached(c, v)
  BY <1>1, <1>4, EndReached, OnCancelReached
<1>. HIDE DEF v
<1>. QED
  BY <1>1, <1>5, RunKeeps

-----------------------------------------------------------------------------
(* The steps of synchronize.                                               *)

\* A task that has a state: the state is one of the order's.
LEMMA AtAState ==
  ASSUME Inv, NEW t \in Tasks, task[t].state # 0
  PROVE  /\ task[t].state \in Nat /\ task[t].state \in 1 .. Len(states)
         /\ task[t].state \in 0 .. Len(states)
         /\ states[task[t].state] \in State /\ StateFits(task[t].state, states[task[t].state])
<1>1. TaskFits(task[t], states) /\ Len(states) \in Nat
  BY TaskFacts, Facts
<1>2. task[t].state \in 0 .. Len(states)
  BY <1>1 DEF TaskFits
<1>3. Len(states) \in Nat
  BY <1>1
<1>4. task[t].state \in Nat /\ task[t].state \in 1 .. Len(states)
  BY <1>2, <1>3
<1>. QED
  BY <1>2, <1>4, Facts

\* What a task that refreshes the state i remembers fits it.
LEMMA Remembers ==
  ASSUME Inv, NEW t \in Tasks, task[t].state # 0,
         task[t].pc \in {"refresh", "ask", "answer", "raw lock", "restore"}
  PROVE  Valued(states[task[t].state].kind, task[t].was)
BY TaskFacts DEF TaskFits

LEMMA TakeStateLockKeeps ==
  ASSUME Inv, NEW t \in Tasks, TakeStateLock(t), AheadTyped'
  PROVE  Inv'
<1>. DEFINE i == task[t].state
            a == [Here EXCEPT !.states[i].value = "REFRESHING"]
            v == AtState(t, "ask", i, a)
<1>1. task[t].pc = "refresh" /\ task[t].pc # "settling" /\ Becomes(t, v)
      /\ UNCHANGED <<exchange, outcome, orderLock, settlements, reincluded, failures>>
  BY DEF TakeStateLock
<1>2. Reached(t, Here) /\ Here.states = states /\ Here.task = task
  BY <1>1, HereReached
<1>3. i # 0
  BY <1>1, TaskFacts DEF TaskFits
<1>4. i \in Nat /\ i \in 1 .. Len(states) /\ i \in 0 .. Len(states)
      /\ Valued(states[i].kind, task[t].was)
  BY <1>1, <1>3, AtAState, Remembers
<1>5. "REFRESHING" \in Values /\ Valued(Here.states[i].kind, "REFRESHING")
  BY DEF Values, Valued
<1>. HIDE DEF i
<1>6. /\ Reached(t, a) /\ Len(a.states) = Len(states) /\ a.task = task
      /\ a.states[i].kind = states[i].kind
  BY <1>2, <1>4, <1>5, ValueReached
<1>. HIDE DEF a
<1>7. "ask" \in Pcs
  BY DEF Pcs
<1>8. Reached(t, v)
  BY <1>3, <1>4, <1>6, <1>7, AtStateReached
<1>. HIDE DEF v
<1>. QED
  BY <1>1, <1>8, RunKeeps

LEMMA ForceFinalStateKeeps ==
  ASSUME Inv, EnoughRefreshers, NEW t \in Tasks, ForceFinalState(t), AheadTyped'
  PROVE  Inv'
<1>. DEFINE i == task[t].state
            f == IF states[i].kind = "fill" THEN "FILLED" ELSE "CANCELED"
            a == [Here EXCEPT !.states[i].value = f]
            b == [a EXCEPT !.status = f]
            c == Spawn(i, b)
            v == Restore(t, i, c)
<1>1. task[t].pc = "ask" /\ states[i].kind # "open"
      /\ Becomes(t, Restore(t, i, Spawn(i, [Here EXCEPT !.states[i].value = f, !.status = f])))
      /\ UNCHANGED <<exchange, outcome, orderLock, settlements, reincluded, failures>>
  BY DEF ForceFinalState, IsMaxSynchronizationAttemptsReached
<1>2. task[t].pc # "settling" /\ task[t].pc # "none" /\ Reached(t, Here) /\ Here.states = states
      /\ Here.task = task
  BY <1>1, HereReached
<1>3. i # 0
  BY <1>1, TaskFacts DEF TaskFits
<1>4. i \in Nat /\ i \in 1 .. Len(states) /\ states[i] \in State /\ StateFits(i, states[i])
      /\ Valued(states[i].kind, task[t].was)
  BY <1>1, <1>3, AtAState, Remembers
<1>5. f \in Values /\ f \in Statuses /\ f # "OPEN"
  BY DEF Values, Statuses
<1>6. Valued(states[i].kind, f)
  BY <1>1, <1>4 DEF Valued
<1>7. Told(f)
  BY <1>1, <1>4 DEF Told, StateFits, State, Fill
<1>8. [Here EXCEPT !.states[i].value = f, !.status = f] = b
  OBVIOUS
<1>. HIDE DEF i, f
<1>9. /\ Reached(t, a) /\ Len(a.states) = Len(states) /\ a.task = task
      /\ a.states[i].kind = states[i].kind
  BY <1>2, <1>4, <1>5, <1>6, ValueReached
<1>. HIDE DEF a
<1>10. Reached(t, b) /\ b.states = a.states /\ b.task = task
  BY <1>5, <1>7, <1>9, Learned
<1>. HIDE DEF b
<1>11. Reached(t, c) /\ c.states = b.states /\ c.task[t] = task[t]
  BY <1>2, <1>4, <1>9, <1>10, SpawnReached
<1>. HIDE DEF c
<1>12. Reached(t, v)
  BY <1>4, <1>9, <1>10, <1>11, RestoreReached
<1>13. Becomes(t, v)
  BY <1>1, <1>8 DEF c
<1>. HIDE DEF v
<1>. QED
  BY <1>1, <1>2, <1>12, <1>13, RunKeeps

LEMMA SkipClosedKeeps ==
  ASSUME Inv, NEW t \in Tasks, SkipClosed(t), AheadTyped'
  PROVE  Inv'
<1>. DEFINE i == task[t].state
            v == Restore(t, i, Here)
<1>1. task[t].pc = "ask" /\ Becomes(t, v)
      /\ UNCHANGED <<exchange, outcome, orderLock, settlements, reincluded, failures>>
  BY DEF SkipClosed
<1>2. task[t].pc # "settling" /\ Reached(t, Here) /\ Here.states = states /\ Here.task = task
  BY <1>1, HereReached
<1>3. i # 0
  BY <1>1, TaskFacts DEF TaskFits
<1>4. i \in Nat /\ i \in 1 .. Len(states) /\ Valued(states[i].kind, task[t].was)
  BY <1>1, <1>3, AtAState, Remembers
<1>. HIDE DEF i
<1>5. Reached(t, v)
  BY <1>2, <1>4, RestoreReached
<1>. HIDE DEF v
<1>. QED
  BY <1>1, <1>2, <1>5, RunKeeps

LEMMA RestoreStateKeeps ==
  ASSUME Inv, NEW t \in Tasks, RestoreState(t), AheadTyped'
  PROVE  Inv'
<1>. DEFINE i == task[t].state
            v == Restore(t, i, Here)
<1>1. task[t].pc = "restore" /\ Becomes(t, v)
      /\ UNCHANGED <<exchange, outcome, orderLock, settlements, reincluded, failures>>
  BY DEF RestoreState
<1>2. task[t].pc # "settling" /\ Reached(t, Here) /\ Here.states = states /\ Here.task = task
  BY <1>1, HereReached
<1>3. i # 0
  BY <1>1, TaskFacts DEF TaskFits
<1>4. i \in Nat /\ i \in 1 .. Len(states) /\ Valued(states[i].kind, task[t].was)
  BY <1>1, <1>3, AtAState, Remembers
<1>. HIDE DEF i
<1>5. Reached(t, v)
  BY <1>2, <1>4, RestoreReached
<1>. HIDE DEF v
<1>. QED
  BY <1>1, <1>2, <1>5, RunKeeps

\* The attempt of a state that has a maximum is counted.
LEMMA AttemptedReached ==
  ASSUME Inv, NEW t \in Tasks, task[t].pc = "ask", NEW i, i = task[t].state,
         ~IsMaxSynchronizationAttemptsReached(i)
  PROVE  /\ Reached(t, Attempted(i)) /\ Attempted(i).task = task
         /\ i \in Nat /\ i \in 1 .. Len(Attempted(i).states) /\ i \in 0 .. Len(Attempted(i).states)
         /\ i # 0 /\ Valued(Attempted(i).states[i].kind, task[t].was)
<1>1. Reached(t, Here) /\ Here.states = states /\ Here.task = task
  BY HereReached
<1>2. i # 0
  BY TaskFacts DEF TaskFits
<1>3. i \in Nat /\ i \in 1 .. Len(states) /\ i \in 0 .. Len(states) /\ states[i] \in State
      /\ StateFits(i, states[i])
  BY <1>2, AtAState
<1>4. Valued(states[i].kind, task[t].was)
  BY <1>2, Remembers
<1>. DEFINE s == states[i]
            n == IF s.kind = "open" THEN s.attempts ELSE s.attempts + 1
            l == [s EXCEPT !.attempts = n]
            a == [Here EXCEPT !.states[i] = l]
<1>5. n \in 0 .. MaxSynchronizationAttempts
  BY <1>3, BoundsAssumption DEF State, IsMaxSynchronizationAttemptsReached
<1>6. l \in State /\ l.kind = s.kind /\ l.value = s.value
  <2>. HIDE DEF n
  <2>. QED
    BY <1>3, <1>5 DEF State
<1>7. Valued(l.kind, l.value)
  BY <1>3, <1>6 DEF StateFits
<1>8. Attempted(i) = a
  BY <1>1 DEF Attempted
<1>. HIDE DEF l
<1>9. a = [Here EXCEPT !.states[i] = l] /\ l.kind = Here.states[i].kind
  BY <1>1, <1>6
<1>. HIDE DEF a, s
<1>10. Reached(t, a)
  BY <1>1, <1>3, <1>6, <1>7, <1>9, Changed
<1>11. Len(a.states) = Len(states) /\ a.task = task /\ a.states[i] = l
  BY <1>1, <1>3, <1>6, <1>7, <1>9, Changed
<1>. QED
  BY <1>1, <1>2, <1>3, <1>4, <1>8, <1>9, <1>10, <1>11

LEMMA UpdateFailsKeeps ==
  ASSUME Inv, NEW t \in Tasks, UpdateFails(t), AheadTyped'
  PROVE  Inv'
<1>. DEFINE i == task[t].state
            v == Restore(t, i, Attempted(i))
<1>1. task[t].pc = "ask" /\ Becomes(t, v) /\ ~IsMaxSynchronizationAttemptsReached(i)
      /\ UNCHANGED <<exchange, outcome, orderLock, settlements, reincluded>>
      /\ failures < MaxFailures /\ failures' = failures + 1
  BY DEF UpdateFails
<1>2. /\ Reached(t, Attempted(i)) /\ Attempted(i).task = task
      /\ i \in Nat /\ i \in 1 .. Len(Attempted(i).states)
      /\ Valued(Attempted(i).states[i].kind, task[t].was)
  BY <1>1, AttemptedReached
<1>. HIDE DEF i
<1>3. Reached(t, v)
  BY <1>2, RestoreReached
<1>. HIDE DEF v
<1>. QED
  BY <1>1, <1>3, RunKeeps

\* What the exchange tells of the order when it is asked.
LEMMA RawTold ==
  ASSUME Inv
  PROVE  Raw \in {"OPEN", "CLOSED", "CANCELED"} /\ Told(Raw)
<1>1. exchange \in {"open", "canceling", "canceled", "filled"}
  BY DEF Inv, TypeOK
<1>2. Raw = IF exchange \in {"open", "canceling"} THEN "OPEN"
            ELSE IF exchange = "filled" THEN "CLOSED" ELSE "CANCELED"
  BY <1>1 DEF Raw
<1>. QED
  BY <1>1, <1>2 DEF Told, Fill

LEMMA UpdateOrderFromExchangeKeeps ==
  ASSUME Inv, NEW t \in Tasks, UpdateOrderFromExchange(t), AheadTyped'
  PROVE  Inv'
<1>. DEFINE i == task[t].state
            w == Attempted(i)
            a == [w EXCEPT !.task[t].reply = Raw]
            v == AtState(t, "answer", i, a)
<1>1. task[t].pc = "ask" /\ Becomes(t, v) /\ ~IsMaxSynchronizationAttemptsReached(i)
      /\ UNCHANGED <<exchange, outcome, orderLock, settlements, reincluded, failures>>
  BY DEF UpdateOrderFromExchange
<1>2. /\ Reached(t, w) /\ w.task = task /\ i \in Nat /\ i \in 0 .. Len(w.states)
      /\ i # 0 /\ Valued(w.states[i].kind, task[t].was)
  BY <1>1, AttemptedReached
<1>3. task[t] \in Task /\ TaskFits(task[t], w.states) /\ task \in [Tasks -> Task]
  BY <1>2, Typed
<1>4. Raw \in Statuses /\ Told(Raw)
  BY RawTold DEF Statuses
<1>. DEFINE k == [task[t] EXCEPT !.reply = Raw]
<1>5. k \in Task /\ k.pc = "ask" /\ k.state = i /\ k.was = task[t].was /\ k.reply = Raw
  BY <1>1, <1>3, <1>4 DEF Task
<1>6. w \in World
  BY <1>2, Typed
<1>7. a = [w EXCEPT !.task[t] = k]
  BY <1>2, <1>3, <1>6 DEF World
<1>. HIDE DEF k, w
<1>8. TaskFits(k, w.states)
  BY <1>2, <1>4, <1>5 DEF TaskFits
<1>. HIDE DEF a, i
<1>9. k \in Task /\ k.pc # "settling"
  BY <1>5
<1>10. Reached(t, w)
  BY <1>2
<1>11. Reached(t, a)
  BY <1>7, <1>8, <1>9, <1>10, Moved
<1>12. a.states = w.states
  BY <1>7, <1>8, <1>9, <1>10, Moved
<1>13. a.task[t] = k
  BY <1>6, <1>7 DEF World
<1>14. Reached(t, a) /\ a.states = w.states /\ a.task[t] = k
  BY <1>11, <1>12, <1>13
<1>15. "answer" \in Pcs
  BY DEF Pcs
<1>16. Reached(t, v)
  BY <1>2, <1>4, <1>5, <1>14, <1>15, AtStateReached
<1>. HIDE DEF v
<1>. QED
  BY <1>1, <1>16, RunKeeps

(* The steps of handle_order_update_from_raw.                              *)

\* An answer is about to be taken into account.
Answering(t) ==
  \/ task[t].pc \in {"answer", "raw lock"}
  \/ task[t].pc = "listed" /\ task[t].reply = "OPEN"

LEMMA Answer ==
  ASSUME Inv, NEW t \in Tasks, Answering(t)
  PROVE  /\ task[t].reply \in Statuses /\ Told(task[t].reply) /\ task[t] \in Task
         /\ task[t].pc \notin {"settling", "none"}
         /\ task[t].state \in Nat /\ task[t].state \in 0 .. Len(states)
         /\ task[t].state # 0 => /\ Valued(states[task[t].state].kind, task[t].was)
                                 /\ task[t].state \in 1 .. Len(states)
<1>1. TaskFits(task[t], states) /\ Told(task[t].reply) /\ task[t] \in Task
  BY TaskFacts
<1>2. task[t].reply \in Statuses
  BY <1>1 DEF TaskFits, Answering, Statuses
<1>3. task[t].state \in 0 .. Len(states)
  BY <1>1 DEF TaskFits
<1>4. task[t].state \in Nat
  BY <1>1 DEF Task
<1>5. ASSUME task[t].state # 0
      PROVE  /\ Valued(states[task[t].state].kind, task[t].was)
             /\ task[t].state \in 1 .. Len(states)
  <2>1. task[t].pc \in {"answer", "raw lock"}
    BY <1>1, <1>5 DEF TaskFits, Answering
  <2>. QED
    BY <1>5, <2>1, AtAState, Remembers
<1>. QED
  BY <1>1, <1>2, <1>3, <1>4, <1>5 DEF Answering

LEMMA AfterRawReached ==
  ASSUME Inv, NEW t \in Tasks, Answering(t), NEW w, Reached(t, w), w.states = states,
         w.task[t] = task[t]
  PROVE  Reached(t, AfterRaw(t, w))
<1>1. CASE task[t].state = 0
  BY <1>1, EndReached DEF AfterRaw
<1>2. CASE task[t].state # 0
  <2>1. PICK i : i = task[t].state
    OBVIOUS
  <2>2. i \in Nat /\ i \in 1 .. Len(w.states) /\ Valued(w.states[i].kind, w.task[t].was)
    BY <1>2, <2>1, Answer
  <2>3. AfterRaw(t, w) = Restore(t, i, w)
    BY <1>2, <2>1 DEF AfterRaw
  <2>. QED
    BY <2>2, <2>3, RestoreReached
<1>. QED
  BY <1>1, <1>2

LEMMA UpdateFromRawReached ==
  ASSUME Inv, EnoughRefreshers, NEW t \in Tasks, Answering(t)
  PROVE  Reached(t, UpdateFromRaw(t, task[t].reply))
<1>. DEFINE raw == task[t].reply
            n == Len(states)
            a == [Here EXCEPT !.status = raw]
            b == Spawn(n, a)
<1>1. raw \in Statuses /\ Told(raw) /\ task[t].pc \notin {"settling", "none"}
  BY Answer
<1>2. Reached(t, Here) /\ Here.states = states /\ Here.task = task
  BY <1>1, HereReached
<1>3. CASE closed \/ raw = status \/ ~AllowsNewStatus(Current, raw)
  <2>1. UpdateFromRaw(t, raw) = AfterRaw(t, Here)
    BY <1>3 DEF UpdateFromRaw
  <2>. QED
    BY <1>2, <2>1, AfterRawReached
<1>4. CASE ~closed /\ raw # status /\ AllowsNewStatus(Current, raw)
  <2>1. n \in Nat \ {0}
    BY Facts
  <2>2. n \in Nat /\ n \in 1 .. Len(states)
    BY <2>1
  <2>3. StateFits(n, states[n])
    BY <2>2, Facts
  <2>4. Len(Here.states) > 1 => raw # "OPEN"
    <3>1. raw = "OPEN" => states[n].kind = "open"
      BY <1>4 DEF AllowsNewStatus, Current, Fill, Cancel
    <3>2. states[n].kind = "open" => n = 1
      BY <2>3 DEF StateFits
    <3>. QED
      BY <1>2, <2>2, <3>1, <3>2
  <2>5. a = [Here EXCEPT !.status = raw]
    OBVIOUS
  <2>6. UpdateFromRaw(t, raw) = AfterRaw(t, b)
    BY <1>4 DEF UpdateFromRaw
  <2>. HIDE DEF a, raw
  <2>7. Reached(t, a) /\ a.states = states /\ a.task = task
    BY <1>1, <1>2, <2>4, <2>5, Learned
  <2>8. n \in 1 .. Len(a.states)
    BY <2>2, <2>7
  <2>. HIDE DEF n
  <2>9. Reached(t, b) /\ b.states = states /\ b.task[t] = task[t]
    BY <1>1, <2>2, <2>7, <2>8, SpawnReached
  <2>. HIDE DEF b
  <2>10. Reached(t, AfterRaw(t, b))
    BY <2>9, AfterRawReached
  <2>. QED
    BY <2>6, <2>10 DEF raw
<1>. QED
  BY <1>3, <1>4

LEMMA HandleOrderUpdateFromRawKeeps ==
  ASSUME Inv, EnoughRefreshers, NEW t \in Tasks, HandleOrderUpdateFromRaw(t), AheadTyped'
  PROVE  Inv'
<1>. DEFINE i == task[t].state
            waits == ~closed /\ orderLock # NoTask
            v == IF waits THEN AtState(t, "raw lock", i, Here)
                 ELSE UpdateFromRaw(t, task[t].reply)
<1>1. /\ Answering(t) /\ Becomes(t, v) /\ UNCHANGED <<exchange, outcome, orderLock, settlements, failures>>
      /\ reincluded' = (reincluded \/ (closed /\ ~IsOutOfSyncOrder))
  BY DEF HandleOrderUpdateFromRaw, Answering
<1>2. /\ task[t].reply \in Statuses /\ task[t].pc # "settling"
      /\ i \in Nat /\ i \in 0 .. Len(states)
      /\ i # 0 => Valued(states[i].kind, task[t].was)
  BY <1>1, Answer
<1>3. Reached(t, Here) /\ Here.states = states /\ Here.task = task
  BY <1>2, HereReached
<1>4. Reached(t, v)
  <2>1. CASE waits
    <3>1. "raw lock" \in Pcs
      BY DEF Pcs
    <3>. HIDE DEF i
    <3>2. Reached(t, AtState(t, "raw lock", i, Here))
      BY <1>2, <1>3, <3>1, AtStateReached
    <3>. QED
      BY <2>1, <3>2
  <2>2. CASE ~waits
    BY <1>1, <2>2, UpdateFromRawReached
  <2>. QED
    BY <2>1, <2>2
<1>5. SavesCanceled /\ ~AsyncCancel => ~reincluded'
  <2>1. closed => Told(outcome) /\ outcome # "OPEN" /\ outcome \in Statuses
    BY DEF Inv, Truth, TypeOK, closed
  <2>2. SavesCanceled /\ ~AsyncCancel /\ closed => IsOutOfSyncOrder
    BY <2>1 DEF Told, IsOutOfSyncOrder, Statuses, Fill
  <2>. QED
    BY <1>1, <2>2 DEF Inv, Truth
<1>6. reincluded' \in BOOLEAN
  BY <1>1
<1>7. orderLock' \in Cancellers \cup {NoTask} /\ failures' \in 0 .. MaxFailures
  BY <1>1 DEF Inv, TypeOK
<1>. HIDE DEF v
<1>. QED
  BY <1>1, <1>2, <1>4, <1>5, <1>6, <1>7, BecomesKeeps

LEMMA TakeOrderLockForRawKeeps ==
  ASSUME Inv, EnoughRefreshers, NEW t \in Tasks, TakeOrderLockForRaw(t), AheadTyped'
  PROVE  Inv'
<1>. DEFINE v == UpdateFromRaw(t, task[t].reply)
<1>1. /\ Answering(t) /\ Becomes(t, v) /\ task[t].pc # "settling"
      /\ UNCHANGED <<exchange, outcome, orderLock, settlements, reincluded, failures>>
  BY DEF TakeOrderLockForRaw, Answering
<1>2. Reached(t, v)
  BY <1>1, UpdateFromRawReached
<1>. HIDE DEF v
<1>. QED
  BY <1>1, <1>2, RunKeeps

-----------------------------------------------------------------------------
(* The steps of on_refresh_successful and terminate.                       *)

LEMMA OpenRefreshedReached ==
  ASSUME NEW r \in Tasks, Reached(r, Here), NEW i \in Nat, i \in 1 .. Len(Here.states),
         Here.states[i].kind = "open", Here.status = status
  PROVE  Reached(r, OpenRefreshed(r, i))
<1>. DEFINE a == [Here EXCEPT !.states[i].value = "OPEN"]
            b == [Here EXCEPT !.status = "FILLED"]
<1>1. status \in Statuses /\ Told(status)
  BY Typed
<1>2. CASE states[i].value # Current.value
  BY <1>2, EndReached DEF OpenRefreshed
<1>3. CASE states[i].value = Current.value /\ status = "OPEN"
  <2>1. "OPEN" \in Values /\ Valued(Here.states[i].kind, "OPEN")
    BY DEF Values, Valued
  <2>2. Reached(r, a)
    BY <2>1, ValueReached
  <2>3. OpenRefreshed(r, i) = End(r, a)
    BY <1>3 DEF OpenRefreshed
  <2>. HIDE DEF a
  <2>. QED
    BY <2>2, <2>3, EndReached
<1>4. CASE states[i].value = Current.value /\ status = "CLOSED"
  <2>1. "FILLED" \in Statuses /\ Told("FILLED") /\ "FILLED" # "OPEN"
    BY <1>1, <1>4 DEF Told, Fill, Statuses
  <2>2. b = [Here EXCEPT !.status = "FILLED"]
    OBVIOUS
  <2>3. OpenRefreshed(r, i) = OnFill(r, b)
    BY <1>4 DEF OpenRefreshed
  <2>. HIDE DEF b
  <2>4. Reached(r, b)
    BY <2>1, <2>2, Learned
  <2>5. b.status \in Fill
    BY <2>1, <2>2, Learned DEF Fill
  <2>. QED
    BY <2>3, <2>4, <2>5, OnFillReached
<1>5. CASE states[i].value = Current.value /\ status = "FILLED"
  <2>1. Here.status \in Fill
    BY <1>5 DEF Fill
  <2>. QED
    BY <1>5, <2>1, OnFillIfOpenReached DEF OpenRefreshed
<1>6. CASE states[i].value = Current.value /\ status \notin {"OPEN", "CLOSED", "FILLED"}
  <2>1. Here.status \in Cancel
    BY <1>1, <1>6 DEF Statuses, Cancel
  <2>2. OpenRefreshed(r, i) = OnCancel(r, Here)
    BY <1>6 DEF OpenRefreshed
  <2>. QED
    BY <2>1, <2>2, OnCancelReached
<1>. QED
  BY <1>2, <1>3, <1>4, <1>5, <1>6

LEMMA CancelRefreshedReached ==
  ASSUME NEW r \in Tasks, Reached(r, Here), NEW i \in Nat, i \in 2 .. Len(Here.states),
         i \in 1 .. Len(Here.states), StateFits(i, states[i]),
         states[i].kind = "cancel", Here.status = status, Here.states = states
  PROVE  Reached(r, CancelRefreshed(r, i))
<1>. DEFINE a == [Here EXCEPT !.states[i].value = "CANCELED"]
<1>1. status \in Statuses /\ states[i].value \in {"CANCELING", "CANCELED", "REFRESHING"}
  BY Typed DEF StateFits, Valued
<1>2. CASE status = "CANCELED"
  <2>1. "CANCELED" \in Values /\ Valued(Here.states[i].kind, "CANCELED")
    BY DEF Values, Valued
  <2>2. Reached(r, a) /\ Len(a.states) = Len(Here.states) /\ a.status = status
    BY <2>1, ValueReached
  <2>3. CancelRefreshed(r, i) = Terminate(r, i, a)
    BY <1>2 DEF CancelRefreshed, Fill
  <2>. HIDE DEF a
  <2>4. i \in 2 .. Len(a.states) /\ a.status # "OPEN"
    BY <1>2, <2>2
  <2>. QED
    BY <2>2, <2>3, <2>4, TerminateReached
<1>3. CASE status = "PENDING_CANCEL" /\ states[i].value = "REFRESHING"
  <2>1. CancelRefreshed(r, i) = End(r, Here)
    BY <1>3 DEF CancelRefreshed, Fill
  <2>. QED
    BY <2>1, EndReached
<1>4. CASE status = "PENDING_CANCEL" /\ states[i].value = "CANCELING"
  <2>1. CancelRefreshed(r, i) = StartRefresh(r, i, Here)
    BY <1>4 DEF CancelRefreshed, Fill
  <2>. QED
    BY <2>1, StartRefreshReached
<1>5. CASE status = "PENDING_CANCEL" /\ states[i].value = "CANCELED"
  <2>1. CancelRefreshed(r, i) = Terminate(r, i, Here)
    BY <1>5 DEF CancelRefreshed, Fill
  <2>. QED
    BY <1>5, <2>1, TerminateReached
<1>6. CASE status \in Fill
  <2>1. CancelRefreshed(r, i) = OnFillIfOpen(r, Here)
    BY <1>6 DEF CancelRefreshed, Fill
  <2>. QED
    BY <1>6, <2>1, OnFillIfOpenReached
<1>7. CASE status = "OPEN"
  <2>1. CancelRefreshed(r, i) = End(r, Here)
    BY <1>7 DEF CancelRefreshed, Fill
  <2>. QED
    BY <2>1, EndReached
<1>8. status \in {"CANCELED", "PENDING_CANCEL", "OPEN"} \cup Fill
  BY <1>1 DEF Statuses, Fill
<1>. QED
  BY <1>1, <1>2, <1>3, <1>4, <1>5, <1>6, <1>7, <1>8

LEMMA FillRefreshedReached ==
  ASSUME NEW r \in Tasks, Reached(r, Here), NEW i \in Nat, i \in 2 .. Len(Here.states),
         i \in 1 .. Len(Here.states),
         states[i].kind = "fill", Here.status = status, Here.states = states
  PROVE  Reached(r, FillRefreshed(r, i))
<1>. DEFINE a == [Here EXCEPT !.states[i].value = "FILLED"]
<1>1. status \in Statuses
  BY Typed
<1>2. CASE status \in Fill
  <2>1. "FILLED" \in Values /\ Valued(Here.states[i].kind, "FILLED")
    BY DEF Values, Valued
  <2>2. Reached(r, a) /\ Len(a.states) = Len(Here.states) /\ a.status = status
    BY <2>1, ValueReached
  <2>3. FillRefreshed(r, i) = Terminate(r, i, a)
    BY <1>2 DEF FillRefreshed, Fill, Cancel
  <2>. HIDE DEF a
  <2>4. i \in 2 .. Len(a.states) /\ a.status # "OPEN"
    BY <1>2, <2>2 DEF Fill
  <2>. QED
    BY <2>2, <2>3, <2>4, TerminateReached
<1>3. CASE status \in Cancel
  <2>1. FillRefreshed(r, i) = OnCancel(r, Here)
    BY <1>3 DEF FillRefreshed, Fill, Cancel
  <2>. QED
    BY <1>3, <2>1, OnCancelReached
<1>4. CASE status = "OPEN"
  <2>1. FillRefreshed(r, i) = End(r, Here)
    BY <1>4 DEF FillRefreshed, Fill, Cancel
  <2>. QED
    BY <2>1, EndReached
<1>. QED
  BY <1>1, <1>2, <1>3, <1>4 DEF Statuses, Fill, Cancel

LEMMA OnRefreshSuccessfulKeeps ==
  ASSUME Inv, NEW r \in Refreshers, OnRefreshSuccessful(r), AheadTyped'
  PROVE  Inv'
<1>. DEFINE i == task[r].state
            v == IF closed THEN End(r, Here)
                 ELSE CASE states[i].kind = "open"   -> OpenRefreshed(r, i)
                        [] states[i].kind = "cancel" -> CancelRefreshed(r, i)
                        [] states[i].kind = "fill"   -> FillRefreshed(r, i)
<1>1. r \in Tasks /\ task[r].pc = "ready" /\ task[r].pc # "settling" /\ Becomes(r, v)
      /\ UNCHANGED <<exchange, outcome, orderLock, settlements, reincluded, failures>>
  BY DEF OnRefreshSuccessful, Tasks
<1>2. Reached(r, Here) /\ Here.states = states /\ Here.status = status
  BY <1>1, HereReached
<1>3. i # 0
  BY <1>1, TaskFacts DEF TaskFits
<1>4. i \in Nat /\ i \in 1 .. Len(states) /\ states[i] \in State /\ StateFits(i, states[i])
  BY <1>1, <1>3, AtAState
<1>5. states[i].kind \in {"open", "cancel", "fill"} /\ (states[i].kind # "open" => i # 1)
  BY <1>4 DEF State, StateFits
<1>6. Len(states) \in Nat
  BY Facts
<1>. HIDE DEF i
<1>7. states[i].kind # "open" => i \in 2 .. Len(states)
  BY <1>4, <1>5, <1>6
<1>8. Reached(r, v)
  <2>1. closed => Reached(r, v)
    BY <1>1, <1>2, EndReached
  <2>2. ~closed /\ states[i].kind = "open" => Reached(r, v)
    BY <1>1, <1>2, <1>4, OpenRefreshedReached
  <2>3. ~closed /\ states[i].kind = "cancel" => Reached(r, v)
    BY <1>1, <1>2, <1>4, <1>7, CancelRefreshedReached
  <2>4. ~closed /\ states[i].kind = "fill" => Reached(r, v)
    BY <1>1, <1>2, <1>4, <1>7, FillRefreshedReached
  <2>. QED
    BY <1>5, <2>1, <2>2, <2>3, <2>4
<1>. HIDE DEF v
<1>. QED
  BY <1>1, <1>8, RunKeeps

LEMMA AtFinalState ==
  ASSUME Inv, NEW t \in Tasks, task[t].pc \in {"terminate", "settle", "settling"}
  PROVE  /\ task[t].state \in Nat /\ task[t].state \in 2 .. Len(states)
         /\ task[t].state \in 1 .. Len(states) /\ status # "OPEN"
<1>1. TaskFits(task[t], states) /\ Len(states) \in Nat /\ (Len(states) > 1 => status # "OPEN")
  BY TaskFacts, Facts
<1>2. task[t].state \in 0 .. Len(states) /\ task[t].state # 0 /\ task[t].state # 1
  BY <1>1 DEF TaskFits
<1>3. Len(states) \in Nat
  BY <1>1
<1>. QED
  BY <1>1, <1>2, <1>3

LEMMA TakeLockToTerminateKeeps ==
  ASSUME Inv, NEW t \in Tasks, TakeLockToTerminate(t), AheadTyped'
  PROVE  Inv'
<1>. DEFINE i == task[t].state
            v == Terminate(t, i, Here)
<1>1. task[t].pc = "terminate" /\ Becomes(t, v)
      /\ UNCHANGED <<exchange, outcome, orderLock, settlements, reincluded, failures>>
  BY DEF TakeLockToTerminate
<1>2. task[t].pc # "settling" /\ Reached(t, Here) /\ Here.states = states /\ Here.status = status
  BY <1>1, HereReached
<1>3. i \in Nat /\ i \in 2 .. Len(states) /\ status # "OPEN"
  BY <1>1, AtFinalState
<1>. HIDE DEF i
<1>4. Reached(t, v)
  BY <1>2, <1>3, TerminateReached
<1>. HIDE DEF v
<1>. QED
  BY <1>1, <1>2, <1>4, RunKeeps

LEMMA EnsureNotClearedKeeps ==
  ASSUME Inv, NEW t \in Tasks, EnsureNotCleared(t), AheadTyped'
  PROVE  Inv'
<1>. DEFINE i == task[t].state
            a == [Here EXCEPT !.states[i] = [Here.states[i] EXCEPT !.lock = NoTask]]
            v == End(t, a)
<1>1. task[t].pc = "settle" /\ Becomes(t, End(t, Unlocked(t, Here)))
      /\ UNCHANGED <<exchange, outcome, orderLock, settlements, reincluded, failures>>
  BY DEF EnsureNotCleared
<1>2. task[t].pc # "settling" /\ Reached(t, Here) /\ Here.states = states
  BY <1>1, HereReached
<1>3. i \in 1 .. Len(Here.states)
  BY <1>1, <1>2, AtFinalState
<1>4. Unlocked(t, Here) = a
  BY DEF Unlocked
<1>. HIDE DEF i
<1>5. Reached(t, a)
  BY <1>2, <1>3, LockedState
<1>6. Becomes(t, v)
  BY <1>1, <1>4
<1>. HIDE DEF a
<1>7. Reached(t, v)
  BY <1>5, EndReached
<1>. HIDE DEF v
<1>. QED
  BY <1>1, <1>2, <1>6, <1>7, RunKeeps

LEMMA CheckMissingOpenOrdersKeeps ==
  ASSUME Inv, CheckMissingOpenOrders, AheadTyped'
  PROVE  Inv'
<1>. DEFINE n == Len(states)
            v == IF ~closed /\ status \in {"OPEN", "PENDING_CANCEL"}
                 THEN StartRefresh(Updater, n, Here) ELSE End(Updater, Here)
<1>1. Updater \in Tasks /\ task[Updater].pc # "settling" /\ Becomes(Updater, v)
      /\ UNCHANGED <<exchange, outcome, orderLock, settlements, reincluded, failures>>
  BY DEF CheckMissingOpenOrders, Tasks
<1>2. Reached(Updater, Here) /\ Here.states = states
  BY <1>1, HereReached
<1>3. n \in Nat /\ n \in 1 .. Len(Here.states)
  BY <1>2, Facts
<1>. HIDE DEF n
<1>4. Reached(Updater, v)
  BY <1>1, <1>2, <1>3, EndReached, StartRefreshReached
<1>. HIDE DEF v
<1>. QED
  BY <1>1, <1>4, RunKeeps

LEMMA FetchOpenOrdersKeeps ==
  ASSUME Inv, FetchOpenOrders, AheadTyped'
  PROVE  Inv'
<1>. DEFINE x == IF Raw = "OPEN" THEN "OPEN" ELSE "ABSENT"
            k == [At("listed") EXCEPT !.reply = x]
<1>1. Updater \in Tasks /\ task[Updater].pc # "settling"
  BY DEF FetchOpenOrders, Tasks
<1>2. /\ UNCHANGED <<exchange, status, states, outcome, settlements, reincluded, failures>>
      /\ failures' \in 0 .. MaxFailures /\ orderLock' \in Cancellers \cup {NoTask}
      /\ portfolioLock' = portfolioLock /\ task' = [task EXCEPT ![Updater] = k]
  BY DEF FetchOpenOrders, Inv, TypeOK
<1>3. x \in Statuses \cup {"ABSENT"} /\ Told(x)
  BY DEF Told, Fill, Statuses
<1>. HIDE DEF x
<1>4. k \in Task /\ k.pc = "listed" /\ k.state = 0 /\ k.reply = x
  BY <1>3 DEF At, Task, Pcs
<1>. HIDE DEF k
<1>5. Len(states) \in Nat
  BY Facts
<1>6. 0 \in 0 .. Len(states)
  BY <1>5, ZeroFits
<1>7. TaskFits(k, states)
  BY <1>3, <1>4, <1>6 DEF TaskFits
<1>8. k \in Task /\ k.pc # "settling"
  BY <1>4
<1>. QED
  BY <1>1, <1>2, <1>7, <1>8, TaskGoes

(* Nothing happens, or the order ends on the exchange.                     *)
LEMMA ExchangeKeeps ==
  ASSUME Inv, GoesOn, exchange' \in {exchange, "filled", "canceled"},
         UNCHANGED <<status, states, outcome, orderLock, portfolioLock, task, settlements,
                     reincluded, failures, ahead>>
  PROVE  Inv'
<1>1. exchange' \in {"open", "canceling", "canceled", "filled"}
  BY DEF Inv, TypeOK
<1>2. GoesOn
  OBVIOUS
<1>3. PICK h : h = [states |-> states, status |-> status, task |-> task] /\ Fits(h)
  BY DEF Inv, Here
<1>4. Fits(h)'
  <2>1. \A w : Fits(w) => Fits(w)'
    BY <1>2, FitsStays
  <2>. QED
    BY <1>3, <2>1
<1>5. Here' = h
  BY <1>1, <1>3 DEF Here
<1>6. Fits(Here)'
  BY <1>4, <1>5
<1>7. TypeOK'
  BY <1>1 DEF Inv, TypeOK
<1>8. Settlement'
  BY <1>1 DEF Inv, Settlement, closed
<1>9. Truth'
  <2>1. closed => Told(outcome)'
    <3>1. \A s : Told(s) => Told(s)'
      BY <1>2, ToldStays
    <3>2. PICK s : s = outcome
      OBVIOUS
    <3>3. closed => Told(s)'
      BY <3>1, <3>2 DEF Inv, Truth
    <3>. QED
      BY <1>1, <3>2, <3>3
  <2>. QED
    BY <1>1, <2>1 DEF Inv, Truth, closed
<1>. QED
  BY <1>6, <1>7, <1>8, <1>9 DEF Inv

LEMMA UpdatePortfolioKeeps ==
  ASSUME Inv, NEW t \in Tasks, UpdatePortfolio(t), AheadTyped'
  PROVE  Inv' /\ settlements = 0 /\ settlements' = 1
<1>1. /\ task[t].pc = "settle" /\ portfolioLock \in {NoTask, t} /\ ~closed /\ portfolioLock' = t
      /\ settlements' = settlements + 1 /\ task' = [task EXCEPT ![t].pc = "settling"]
      /\ UNCHANGED <<exchange, status, states, outcome, orderLock, reincluded, failures>>
  BY DEF UpdatePortfolio
<1>2. PICK k : k = [task[t] EXCEPT !.pc = "settling"]
  OBVIOUS
<1>3. task[t] \in Task /\ TaskFits(task[t], states) /\ Told(task[t].reply)
      /\ task \in [Tasks -> Task]
  BY TaskFacts, Facts
<1>4. k \in Task /\ k.pc = "settling" /\ k.state = task[t].state /\ k.reply = task[t].reply
  BY <1>2, <1>3 DEF Task, Pcs
<1>5. /\ task' = [task EXCEPT ![t] = k] /\ task' \in [Tasks -> Task]
      /\ \A x \in Tasks : task'[x] = IF x = t THEN k ELSE task[x]
  BY <1>1, <1>2, <1>3, <1>4
<1>6. settlements = 0 /\ \A x \in Tasks : task[x].pc # "settling"
  <2>1. \A x \in Tasks : task[x].pc # "settling"
    BY <1>1, TasksAssumption DEF Inv, Settlement
  <2>. QED
    BY <1>1, <2>1 DEF Inv, Settlement
<1>7. TaskFits(k, states)
  <2>1. k.state \in 0 .. Len(states)
    BY <1>3, <1>4 DEF TaskFits
  <2>2. k.state \notin {0, 1}
    BY <1>1, <1>3, <1>4 DEF TaskFits
  <2>. QED
    BY <1>3, <1>4, <2>1, <2>2 DEF TaskFits
<1>8. PICK h : h = [states |-> states, status |-> status, task |-> [task EXCEPT ![t] = k]]
  OBVIOUS
<1>9. Fits(h)
  <2>1. Fits(Here) /\ Here = [states |-> states, status |-> status, task |-> task]
    BY DEF Inv, Here
  <2>2. /\ h.states = states /\ h.status = status /\ h.task \in [Tasks -> Task]
        /\ \A x \in Tasks : h.task[x] = IF x = t THEN k ELSE task[x]
    BY <1>1, <1>5, <1>8
  <2>3. h \in World
    BY <1>8, <2>1, <2>2 DEF Fits, World
  <2>4. /\ states # <<>> /\ Told(status) /\ (Len(states) > 1 => status # "OPEN")
        /\ \A i \in 1 .. Len(states) : StateFits(i, states[i])
        /\ \A x \in Tasks : TaskFits(task[x], states)
    BY Facts
  <2>5. \A x \in Tasks : TaskFits(h.task[x], states)
    BY <1>7, <2>2, <2>4
  <2>. QED
    BY <2>2, <2>3, <2>4, <2>5 DEF Fits
<1>10. Fits(h)' /\ Here' = h
  <2>1. Fits(h)'
    BY <1>1, <1>9, FitsStays DEF GoesOn
  <2>. QED
    BY <1>1, <1>5, <1>8, <2>1 DEF Here
<1>11. TypeOK'
  BY <1>1, <1>5, <1>6 DEF Inv, TypeOK, AheadTyped
<1>12. Settlement'
  BY <1>1, <1>4, <1>5, <1>6 DEF Settlement, closed
<1>13. Truth'
  BY <1>1 DEF Inv, Truth, closed, Told
<1>. QED
  BY <1>1, <1>6, <1>10, <1>11, <1>12, <1>13 DEF Inv

LEMMA OnCloseKeeps ==
  ASSUME Inv, NEW t \in Tasks, OnClose(t), AheadTyped'
  PROVE  Inv' /\ settlements = 1 /\ settlements' = 1 /\ ~closed /\ outcome' = status
         /\ UNCHANGED exchange /\ status # "OPEN"
<1>. DEFINE i == task[t].state
            k == Ended(t)
            l == [states[i] EXCEPT !.lock = NoTask]
            R == [states EXCEPT ![i] = l]
            v == [states |-> R, status |-> status, task |-> [task EXCEPT ![t] = k]]
<1>1. /\ task[t].pc = "settling" /\ outcome' = status /\ Becomes(t, End(t, Unlocked(t, Here)))
      /\ UNCHANGED <<exchange, orderLock, settlements, reincluded, failures>>
  BY DEF OnClose
<1>2. /\ states \in Seq(State) /\ states # <<>> /\ Len(states) \in Nat \ {0} /\ status \in Statuses
      /\ Told(status) /\ task \in [Tasks -> Task] /\ \A x \in Tasks : TaskFits(task[x], states)
      /\ \A j \in 1 .. Len(states) : StateFits(j, states[j])
  BY Facts
<1>3. i \in Nat /\ i \in 1 .. Len(states) /\ status # "OPEN"
  BY <1>1, AtFinalState
<1>4. End(t, Unlocked(t, Here)) = v
  <2>1. Here = [states |-> states, status |-> status, task |-> task] /\ Here.states = states
    BY DEF Here
  <2>2. Unlocked(t, Here) = [Here EXCEPT !.states =
                              [Here.states EXCEPT ![i] = [Here.states[i] EXCEPT !.lock = NoTask]]]
    BY DEF Unlocked
  <2>3. Unlocked(t, Here) = [Here EXCEPT !.states = R]
    BY <2>1, <2>2
  <2>. HIDE DEF R
  <2>4. Unlocked(t, Here) = [states |-> R, status |-> status, task |-> task]
    BY <2>1, <2>3
  <2>. QED
    BY <2>4 DEF End
<1>5. \A S \in Seq(State) : TaskFits(k, S)
  BY EndedFits
<1>6. k \in Task /\ k.pc # "settling"
  BY <1>2, EndedFits
<1>7. states[i] \in State
  BY <1>2, <1>3
<1>. HIDE DEF i
<1>8. l \in State /\ l.kind = states[i].kind /\ l.value = states[i].value
  BY <1>7 DEF State
<1>. HIDE DEF k, l
<1>9. /\ R \in Seq(State) /\ Len(R) = Len(states)
      /\ \A j \in 1 .. Len(states) : R[j] = IF j = i THEN l ELSE states[j]
  BY <1>2, <1>3, <1>8
<1>10. v.states = R /\ v.status = status /\ v.task = [task EXCEPT ![t] = k] /\ v \in World
  BY <1>2, <1>6, <1>9 DEF World
<1>. HIDE DEF R, v
<1>11. Extends(states, R) /\ R # <<>>
  BY <1>2, <1>9, <1>8 DEF Extends
<1>12. \A x \in Tasks : TaskFits(v.task[x], R)
  <2>1. \A x \in Tasks : TaskFits(task[x], R)
    BY <1>2, <1>9, <1>11, FitsLater
  <2>2. \A x \in Tasks : v.task[x] = IF x = t THEN k ELSE task[x]
    BY <1>2, <1>10
  <2>. QED
    BY <1>5, <1>9, <2>1, <2>2
<1>13. \A j \in 1 .. Len(R) : StateFits(j, R[j])
  BY <1>2, <1>9, <1>8 DEF StateFits
<1>14. Fits(v)
  BY <1>2, <1>3, <1>10, <1>11, <1>12, <1>13 DEF Fits
<1>15. states' = v.states /\ status' = v.status /\ task' = v.task
  BY <1>1, <1>4 DEF Becomes
<1>16. Here' = v
  BY <1>10, <1>15 DEF Here, World
<1>17. Fits(Here)'
  <2>1. PICK h : h = v /\ Fits(h)
    BY <1>14
  <2>2. Fits(h)'
    BY <1>1, <2>1, FitsStays DEF GoesOn
  <2>. QED
    BY <1>16, <2>1, <2>2
<1>18. settlements = 1 /\ portfolioLock = t /\ ~closed
       /\ \A x \in Tasks \ {t} : task[x].pc # "settling"
  BY <1>1 DEF Inv, Settlement
<1>19. \A x \in Tasks : task'[x].pc # "settling"
  <2>1. \A x \in Tasks : task'[x] = IF x = t THEN k ELSE task[x]
    BY <1>2, <1>10, <1>15
  <2>. QED
    BY <1>6, <1>18, <2>1
<1>20. closed' /\ Told(outcome)' /\ outcome' \in Statuses /\ outcome' # "OPEN"
  BY <1>1, <1>2, <1>3 DEF closed, Statuses, Told
<1>21. portfolioLock' \in Tasks \cup {NoTask}
  BY <1>18, <1>1 DEF Becomes
<1>22. TypeOK'
  BY <1>1, <1>10, <1>11, <1>9, <1>14, <1>15, <1>20, <1>21 DEF Inv, TypeOK, World, AheadTyped
<1>23. Settlement'
  BY <1>1, <1>18, <1>19, <1>20 DEF Settlement
<1>24. Truth'
  BY <1>1, <1>20 DEF Inv, Truth
<1>. QED
  BY <1>1, <1>3, <1>17, <1>18, <1>22, <1>23, <1>24 DEF Inv

-----------------------------------------------------------------------------
(* The whole specification.                                                *)

LEMMA InitInv == Init => Inv
<1>. SUFFICES ASSUME Init
              PROVE  Inv
  OBVIOUS
<1>. DEFINE s == NewState("open", "OPEN")
<1>1. s \in State /\ s.kind = "open" /\ s.value = "OPEN"
  <2>1. 0 \in 0 .. MaxSynchronizationAttempts
    BY BoundsAssumption
  <2>. QED
    BY <2>1 DEF NewState, State, Values
<1>. HIDE DEF s
<1>2. states = <<s>> /\ status = "OPEN" /\ exchange = "open" /\ outcome = "NONE"
      /\ settlements = 0 /\ reincluded = FALSE
  BY DEF Init, s
<1>3. states \in Seq(State) /\ states # <<>> /\ Len(states) = 1 /\ states[1] = s
  BY <1>1, <1>2
<1>4. ASSUME NEW t \in Tasks
      PROVE  /\ task[t] \in Task /\ TaskFits(task[t], states) /\ task[t].pc # "settling"
  <2>. DEFINE k == At("start")
  <2>1. task[t] = IF t \in Cancellers THEN k ELSE Ended(t)
    BY DEF Init
  <2>2. k \in Task /\ k.pc = "start" /\ k.state = 0 /\ k.reply = "NONE"
    BY DEF At, Task, Pcs
  <2>. HIDE DEF k
  <2>3. Told("NONE")
    BY DEF Told, Fill
  <2>4. 0 \in 0 .. Len(states)
    BY <1>3, ZeroFits
  <2>5. TaskFits(k, states)
    BY <2>2, <2>3, <2>4 DEF TaskFits
  <2>6. Ended(t) \in Task /\ TaskFits(Ended(t), states) /\ Ended(t).pc # "settling"
    BY <1>3, EndedFits
  <2>. QED
    BY <2>1, <2>2, <2>5, <2>6
<1>5. task \in [Tasks -> Task]
  <2>1. task = [t \in Tasks |-> task[t]]
    BY DEF Init
  <2>. QED
    BY <1>4, <2>1
<1>6. Told(status) /\ status \in Statuses
  BY <1>2 DEF Told, Fill, Statuses
<1>7. \A i \in 1 .. Len(states) : StateFits(i, states[i])
  <2>1. StateFits(1, s)
    BY <1>1 DEF StateFits, Valued
  <2>2. \A i \in 1 .. Len(states) : i = 1
    BY <1>3
  <2>. QED
    BY <1>3, <2>1, <2>2
<1>8. Fits(Here)
  <2>1. Here \in World /\ Here.states = states /\ Here.status = status /\ Here.task = task
    BY <1>3, <1>5, <1>6 DEF Here, World
  <2>2. ~(Len(states) > 1)
    BY <1>3
  <2>. HIDE DEF Here
  <2>. QED
    BY <1>3, <1>4, <1>6, <1>7, <2>1, <2>2 DEF Fits
<1>9. TypeOK
  <2>1. failures \in 0 .. MaxFailures
    BY BoundsAssumption DEF Init
  <2>2. ahead \in [Refreshers -> SUBSET Tasks]
    BY DEF Init
  <2>3. orderLock = NoTask /\ portfolioLock = NoTask
    BY DEF Init
  <2>. QED
    BY <1>2, <1>3, <1>5, <1>6, <2>1, <2>2, <2>3 DEF TypeOK
<1>10. Settlement
  BY <1>2, <1>4 DEF Settlement
<1>11. Truth
  BY <1>2 DEF Truth, closed
<1>. QED
  BY <1>8, <1>9, <1>10, <1>11 DEF Inv

LEMMA ScheduleAhead ==
  ASSUME Inv, NEW t \in Tasks, Schedule(t)
  PROVE  AheadTyped'
<1>1. ahead \in [Refreshers -> SUBSET Tasks]
  BY DEF Inv, TypeOK
<1>2. ahead' = [r \in Refreshers |->
                 CASE ~Ready(r)' -> {}
                   [] Ready(r)' /\ Ready(r) ->
                        ahead[r] \ ({t} \cup {n \in Refreshers : Ready(n)' /\ ~Ready(n)})
                   [] Ready(r)' /\ ~Ready(r) ->
                        {n \in Tasks \ {t, r} : task[n].pc # "none"}]
  BY DEF Schedule
<1>3. ASSUME NEW r \in Refreshers
      PROVE  (CASE ~Ready(r)' -> {}
                [] Ready(r)' /\ Ready(r) ->
                     ahead[r] \ ({t} \cup {n \in Refreshers : Ready(n)' /\ ~Ready(n)})
                [] Ready(r)' /\ ~Ready(r) ->
                     {n \in Tasks \ {t, r} : task[n].pc # "none"}) \in SUBSET Tasks
  BY <1>1
<1>. QED
  BY <1>2, <1>3 DEF AheadTyped

LEMMA ScheduleKeeps ==
  ASSUME Inv, EnoughRefreshers, NEW t \in Tasks, Schedule(t)
  PROVE  Inv'
<1>1. AheadTyped'
  BY ScheduleAhead
<1>2. CASE t \in Cancellers /\ CancelOrder(t)
  BY <1>1, <1>2, CancelOrderKeeps
<1>3. CASE t \in Cancellers /\ CancelStep(t)
  BY <1>1, <1>3, TakeOrderLockKeeps, RetryCancelKeeps, CancelFailedKeeps,
     HandleOrderCancelErrorKeeps, CancelAnsweredKeeps DEF CancelStep
<1>4. CASE t \in Refreshers /\ OnRefreshSuccessful(t)
  BY <1>1, <1>4, OnRefreshSuccessfulKeeps
<1>5. CASE FetchOpenOrders \/ CheckMissingOpenOrders
  BY <1>1, <1>5, FetchOpenOrdersKeeps, CheckMissingOpenOrdersKeeps
<1>6. CASE StateStep(t)
  BY <1>1, <1>6, TakeStateLockKeeps, ForceFinalStateKeeps, SkipClosedKeeps,
     UpdateOrderFromExchangeKeeps, UpdateFailsKeeps, HandleOrderUpdateFromRawKeeps,
     TakeOrderLockForRawKeeps, RestoreStateKeeps, TakeLockToTerminateKeeps,
     UpdatePortfolioKeeps, EnsureNotClearedKeeps, OnCloseKeeps DEF StateStep
<1>. QED
  BY <1>2, <1>3, <1>4, <1>5, <1>6 DEF Schedule, Begins, Run

LEMMA NextKeeps ==
  ASSUME Inv, EnoughRefreshers, [Next]_vars
  PROVE  Inv'
<1>1. CASE \E t \in Tasks : Schedule(t)
  BY <1>1, ScheduleKeeps
<1>2. CASE Exchange
  <2>1. AheadTyped'
    BY <1>2 DEF Exchange, Inv, TypeOK, AheadTyped
  <2>2. CASE ExchangeFills \/ ExchangeCancels
    BY <1>2, <2>2, ExchangeKeeps DEF Exchange, ExchangeFills, ExchangeCancels, GoesOn
  <2>3. CASE \E c \in Cancellers : AtExchange(c)
    BY <2>1, <2>3, AcceptCancelKeeps, AnswersKeep DEF AtExchange
  <2>. QED
    BY <1>2, <2>2, <2>3 DEF Exchange
<1>3. CASE UNCHANGED vars
  BY <1>3, ExchangeKeeps DEF vars, GoesOn
<1>. QED
  BY <1>1, <1>2, <1>3 DEF Next

(* The states and the tasks always fit each other and what the exchange    *)
(* told, and the portfolio is being updated by one task at most.           *)
THEOREM Invariance == Spec /\ []EnoughRefreshers => []Inv
<1>1. Init => Inv
  BY InitInv
<1>2. Inv /\ EnoughRefreshers /\ [Next]_vars => Inv'
  BY NextKeeps
<1>. QED
  BY <1>1, <1>2, PTL DEF Spec

(* Each task, state and lock keeps the values the code gives it.           *)
THEOREM TypeCorrect == Spec /\ []EnoughRefreshers => []TypeOK
<1>1. Inv => TypeOK
  BY DEF Inv
<1>. QED
  BY <1>1, Invariance, PTL

(* The effect of the order on the portfolio is applied once, however many  *)
(* tasks terminate a state of it.                                          *)
THEOREM SettledAtMostOnce == Spec /\ []EnoughRefreshers => []SettledOnce
<1>1. Inv => SettledOnce
  BY DEF Inv, Settlement, SettledOnce
<1>. QED
  BY <1>1, Invariance, PTL

(* A filled trade is that of an order the exchange filled, even when the   *)
(* exchange acknowledges cancels early.                                    *)
THEOREM FilledIsTrue == Spec /\ []EnoughRefreshers => []FilledMeansFilled
<1>1. Inv => FilledMeansFilled
  BY DEF Inv, Truth, FilledMeansFilled, closed, Told, Fill
<1>. QED
  BY <1>1, Invariance, PTL

(* A canceled trade is that of an order the exchange canceled, if it only  *)
(* acknowledges a cancel that is effective.                                *)
THEOREM CanceledIsTrue ==
  ~AsyncCancel => (Spec /\ []EnoughRefreshers => []CanceledMeansCanceled)
<1>. SUFFICES ASSUME ~AsyncCancel
              PROVE  Spec /\ []EnoughRefreshers => []CanceledMeansCanceled
  OBVIOUS
<1>1. Inv => CanceledMeansCanceled
  BY DEF Inv, Truth, CanceledMeansCanceled, closed, Told
<1>. QED
  BY <1>1, Invariance, PTL

(* A late answer never makes a closed order a new open one, if canceled    *)
(* orders are saved as trades and cancels are effective when acknowledged. *)
THEOREM NeverReincluded ==
  ~AsyncCancel /\ SavesCanceled => (Spec /\ []EnoughRefreshers => []NoReinclusion)
<1>. SUFFICES ASSUME ~AsyncCancel, SavesCanceled
              PROVE  Spec /\ []EnoughRefreshers => []NoReinclusion
  OBVIOUS
<1>1. Inv => NoReinclusion
  BY DEF Inv, Truth, NoReinclusion
<1>. QED
  BY <1>1, Invariance, PTL

-----------------------------------------------------------------------------
(* The promise made about the order.                                       *)

LEMMA OtherSteps ==
  ASSUME NEW t \in Tasks, Schedule(t), ~UpdatePortfolio(t), ~OnClose(t)
  PROVE  UNCHANGED <<exchange, outcome, settlements>>
<1>1. CASE CancelOrder(t) \/ CancelStep(t)
  BY <1>1 DEF CancelOrder, CancelStep, TakeOrderLock, RetryCancel, CancelFailed,
     HandleOrderCancelError, CancelAnswered
<1>2. CASE OnRefreshSuccessful(t) \/ FetchOpenOrders \/ CheckMissingOpenOrders
  BY <1>2 DEF OnRefreshSuccessful, FetchOpenOrders, CheckMissingOpenOrders
<1>3. CASE StateStep(t)
  BY <1>3 DEF StateStep, TakeStateLock, ForceFinalState, SkipClosed, UpdateOrderFromExchange,
     UpdateFails, HandleOrderUpdateFromRaw, TakeOrderLockForRaw, RestoreState,
     TakeLockToTerminate, EnsureNotCleared
<1>. QED
  BY <1>1, <1>2, <1>3 DEF Schedule, Begins, Run

LEMMA ExchangeSteps ==
  ASSUME ~AsyncCancel, Exchange
  PROVE  /\ UNCHANGED <<outcome, settlements>>
         /\ \/ UNCHANGED exchange
            \/ exchange \in {"open", "canceling"} /\ exchange' \in {"filled", "canceled"}
BY DEF Exchange, AtExchange, AcceptCancel, RefuseCancel, FailCancel, VerifyCancel,
   ExchangeFills, ExchangeCancels

LEMMA PromisedStep ==
  ASSUME ~AsyncCancel, Inv, EnoughRefreshers, [Next]_vars
  PROVE  [Promise!Next]_(Promise!vars)
<1>. DEFINE ending == IF exchange \in {"filled", "canceled"} THEN exchange ELSE "none"
            settled == settlements = 1
            trade == CASE outcome = "NONE" -> "none" [] outcome \in Fill -> "filled"
                       [] outcome = "CANCELED" -> "canceled" [] OTHER -> outcome
<1>1. ASSUME UNCHANGED <<exchange, outcome, settlements>>
      PROVE  UNCHANGED (Promise!vars)
  BY <1>1 DEF Promise!vars
<1>2. ASSUME UNCHANGED <<outcome, settlements>>, exchange \in {"open", "canceling"},
             exchange' \in {"filled", "canceled"}
      PROVE  Promise!EndOnExchange
  <2>1. ending = "none" /\ ending' \in {"filled", "canceled"} /\ UNCHANGED <<settled, trade>>
    BY <1>2
  <2>. QED
    BY <2>1 DEF Promise!EndOnExchange, Promise!Endings
<1>3. ASSUME NEW t \in Tasks, Schedule(t), UpdatePortfolio(t)
      PROVE  Promise!Settle
  <2>1. Inv' /\ settlements = 0 /\ settlements' = 1
    BY <1>3, ScheduleAhead, UpdatePortfolioKeeps
  <2>2. UNCHANGED <<exchange, outcome>> /\ task[t].pc = "settle"
    BY <1>3 DEF UpdatePortfolio
  <2>3. exchange \in {"filled", "canceled"}
    <3>1. PICK i : i = task[t].state
      OBVIOUS
    <3>2. i \in 2 .. Len(states) /\ i \in 1 .. Len(states) /\ i \in Nat
      BY <2>2, <3>1, AtFinalState
    <3>3. i # 1
      BY <3>2, Facts
    <3>4. StateFits(i, states[i]) /\ states[i] \in State
      BY <3>2, Facts
    <3>. QED
      BY <3>3, <3>4 DEF StateFits, State
  <2>4. ending \in {"filled", "canceled"} /\ ~settled /\ settled' = TRUE
        /\ UNCHANGED <<ending, trade>>
    BY <2>1, <2>2, <2>3
  <2>. QED
    BY <2>4 DEF Promise!Settle, Promise!Endings
<1>4. ASSUME NEW t \in Tasks, Schedule(t), OnClose(t)
      PROVE  Promise!BecomeTrade
  <2>1. /\ settlements = 1 /\ settlements' = 1 /\ ~closed /\ outcome' = status
        /\ UNCHANGED exchange /\ status # "OPEN"
    BY <1>4, ScheduleAhead, OnCloseKeeps
  <2>2. status \in Statuses /\ Told(status)
    BY Facts
  <2>3. \/ status \in Fill /\ exchange = "filled"
        \/ status = "CANCELED" /\ exchange = "canceled"
    BY <2>1, <2>2 DEF Told, Statuses, Fill
  <2>4. settled /\ trade = "none" /\ trade' = ending /\ UNCHANGED <<ending, settled>>
    BY <2>1, <2>3 DEF closed, Fill
  <2>. QED
    BY <2>4 DEF Promise!BecomeTrade
<1>5. CASE \E t \in Tasks : Schedule(t)
  BY <1>1, <1>3, <1>4, <1>5, OtherSteps DEF Promise!Next
<1>6. CASE Exchange
  BY <1>1, <1>2, <1>6, ExchangeSteps DEF Promise!Next
<1>7. CASE UNCHANGED vars
  BY <1>1, <1>7 DEF vars
<1>. QED
  BY <1>5, <1>6, <1>7 DEF Next

(* The tasks that race on the order keep the promise made about it: it is  *)
(* settled once, after it ended on the exchange, and then becomes the      *)
(* trade of that end; for an exchange that only acknowledges a cancel that *)
(* is effective.                                                           *)
THEOREM PromiseKept == ~AsyncCancel => (Spec /\ []EnoughRefreshers => KeepsPromise)
<1>. SUFFICES ASSUME ~AsyncCancel
              PROVE  Spec /\ []EnoughRefreshers => KeepsPromise
  OBVIOUS
<1>1. Init => Promise!Init
  <2>1. Init => exchange = "open" /\ outcome = "NONE" /\ settlements = 0
    BY DEF Init
  <2>. QED
    BY <2>1 DEF Promise!Init, Fill
<1>2. Inv /\ EnoughRefreshers /\ [Next]_vars => [Promise!Next]_(Promise!vars)
  BY PromisedStep
<1>. QED
  BY <1>1, <1>2, Invariance, PTL DEF Spec, KeepsPromise, Promise!Spec
=============================================================================

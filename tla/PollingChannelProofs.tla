------------------------ MODULE PollingChannelProofs ------------------------
(***************************************************************************)
(* However many consumers register and leave, and however many update      *)
(* loops the pauses and resumes leave behind: a channel that somebody      *)
(* needs is polled, and is paused exactly when nobody needs it.            *)
(*                                                                         *)
(* Neither is inductive.  A resume that finds is_running set starts no     *)
(* loop, so what has to be known is that is_running is only set while a    *)
(* loop is alive that will find the channel resumed: one that has not      *)
(* begun yet, or any loop while the channel is not paused.                 *)
(***************************************************************************)
EXTENDS PollingChannel, TLAPS

Places == {"none", "created", "fetching", "sleeping"}

Types ==
  /\ consumers \subseteq Consumers
  /\ isPaused \in BOOLEAN /\ registered \in BOOLEAN
  /\ isRunning \in BOOLEAN /\ shouldStop \in BOOLEAN
  /\ produceTask \in Loops \cup {0}
  /\ loops \in [Loops -> Places]
  /\ unsupported \in BOOLEAN /\ breaks \in Nat

RunningHasLoop ==
  isRunning => /\ registered /\ ~shouldStop /\ produceTask \in Loops
               /\ \/ \E l \in Loops : loops[l] = "created"
                  \/ ~isPaused /\ \E l \in Loops : Alive(l)

ResumedIsRunning == registered /\ ~shouldStop /\ ~isPaused => isRunning

StoppedWasRegistered == shouldStop => registered

Inv ==
  /\ Types /\ PauseMatchesConsumers
  /\ RunningHasLoop /\ ResumedIsRunning /\ StoppedWasRegistered
-----------------------------------------------------------------------------
(* A new loop takes an identifier that no loop alive has.                  *)
LEMMA NewLoopIsFree ==
  ASSUME \E l \in Loops : ~Alive(l)
  PROVE  NewLoop \in Loops /\ ~Alive(NewLoop)
BY DEF NewLoop

(* A created loop is there after create_task, and is what stop cancels.    *)
LEMMA Created ==
  ASSUME Types, CreateTask
  PROVE  /\ loops' \in [Loops -> Places] /\ produceTask' \in Loops /\ isRunning' = TRUE
         /\ \E l \in Loops : loops'[l] = "created"
<1>1. NewLoop \in Loops
  BY NewLoopIsFree DEF CreateTask
<1>2. loops' = [loops EXCEPT ![NewLoop] = "created"] /\ produceTask' = NewLoop /\ isRunning' = TRUE
  BY DEF CreateTask
<1>. QED
  BY <1>1, <1>2 DEF Types, Places

(* Whatever consumers are left, _check_producers_state keeps the invariant. *)
LEMMA CheckKeepsInv ==
  ASSUME Inv, ~shouldStop, consumers' \subseteq Consumers,
         CheckProducersState(consumers'), UNCHANGED <<registered, shouldStop, breaks>>
  PROVE  Inv'
<1>. USE DEF Inv, StoppedWasRegistered
<1>1. CASE ShouldPauseProducers(consumers') /\ Pause
  BY <1>1 DEF ShouldPauseProducers, Pause, Types, PauseMatchesConsumers, RunningHasLoop,
              ResumedIsRunning, Mandatory
<1>2. CASE ShouldResumeProducers(consumers') /\ Resume
  <2>1. CASE registered /\ ~isRunning
    <3>1. CreateTask /\ isPaused' = FALSE /\ unsupported' = FALSE
      BY <1>2, <2>1 DEF Resume
    <3>2. QED
      BY <1>2, <2>1, <3>1, Created
         DEF ShouldResumeProducers, Types, PauseMatchesConsumers, RunningHasLoop, ResumedIsRunning
  <2>2. CASE ~(registered /\ ~isRunning)
    <3>1. /\ isPaused' = FALSE /\ unsupported' = FALSE
          /\ UNCHANGED <<isRunning, produceTask, loops>>
      BY <1>2, <2>2 DEF Resume
    <3>2. RunningHasLoop'
      BY <3>1 DEF RunningHasLoop, Alive, Types
    <3>3. QED
      BY <1>2, <2>2, <3>1, <3>2
         DEF ShouldResumeProducers, Types, PauseMatchesConsumers, ResumedIsRunning
  <2>3. QED
    BY <2>1, <2>2
<1>3. CASE /\ ~ShouldPauseProducers(consumers') /\ ~ShouldResumeProducers(consumers')
           /\ UNCHANGED <<isPaused, isRunning, produceTask, loops, unsupported>>
  BY <1>3 DEF ShouldPauseProducers, ShouldResumeProducers, Types, PauseMatchesConsumers,
              RunningHasLoop, ResumedIsRunning, Alive
<1>4. QED
  BY <1>1, <1>2, <1>3 DEF CheckProducersState

(* A loop that goes on with its round is no loss: only what its check of the *)
(* channel makes of it can end it.                                           *)
LEMMA LoopStepKeepsInv ==
  ASSUME NEW l \in Loops, Inv, LoopStep(l)
  PROVE  Inv'
<1>. USE DEF Inv, StoppedWasRegistered
<1>1. LoopCheck \in Places /\ (~shouldStop /\ ~isPaused => LoopCheck # "none")
  BY DEF LoopCheck, Places
<1>2. CASE Begin(l)
  <2>1. /\ loops' = [loops EXCEPT ![l] = LoopCheck] /\ isRunning' = (isRunning /\ ~isPaused)
        /\ UNCHANGED <<consumers, isPaused, registered, shouldStop, produceTask, unsupported, breaks>>
    BY <1>2 DEF Begin
  <2>2. Types' /\ PauseMatchesConsumers' /\ ResumedIsRunning' /\ StoppedWasRegistered'
    BY <1>1, <2>1 DEF Types, PauseMatchesConsumers, ResumedIsRunning
  <2>3. RunningHasLoop'
    <3>1. CASE isRunning'
      BY <1>1, <2>1, <3>1 DEF RunningHasLoop, Types, Alive, Places
    <3>2. QED
      BY <3>1 DEF RunningHasLoop
  <2>4. QED
    BY <2>2, <2>3
<1>3. ASSUME NEW x \in Places, ~shouldStop /\ ~isPaused => x # "none",
             loops[l] # "created", loops' = [loops EXCEPT ![l] = x], breaks' \in Nat,
             UNCHANGED <<consumers, isPaused, registered, isRunning, shouldStop, produceTask,
                         unsupported>>
      PROVE  Inv'
  <2>1. Types' /\ PauseMatchesConsumers' /\ ResumedIsRunning' /\ StoppedWasRegistered'
    BY <1>3 DEF Types, PauseMatchesConsumers, ResumedIsRunning
  <2>2. RunningHasLoop'
    <3>1. CASE isRunning /\ \E k \in Loops : loops[k] = "created"
      <4>1. PICK k \in Loops : loops[k] = "created"
        BY <3>1
      <4>2. loops'[k] = "created"
        BY <4>1, <1>3 DEF Types
      <4>3. QED
        BY <1>3, <3>1, <4>2 DEF RunningHasLoop
    <3>2. CASE isRunning /\ ~isPaused
      <4>1. loops'[l] # "none"
        BY <1>3, <3>2 DEF RunningHasLoop, Types
      <4>2. QED
        BY <1>3, <3>2, <4>1 DEF RunningHasLoop, Alive
    <3>3. QED
      BY <1>3, <3>1, <3>2 DEF RunningHasLoop
  <2>3. QED
    BY <2>1, <2>2
<1>4. CASE FetchSucceeds(l)
  BY <1>3, <1>4 DEF FetchSucceeds, Places, Types
<1>5. CASE FetchBreaks(l)
  <2>1. breaks' \in Nat
    BY <1>5 DEF FetchBreaks, Types
  <2>2. CASE loops' = [loops EXCEPT ![l] = "sleeping"]
    BY <1>3, <1>5, <2>1, <2>2 DEF FetchBreaks, Places
  <2>3. CASE loops' = [loops EXCEPT ![l] = LoopCheck]
    BY <1>1, <1>3, <1>5, <2>1, <2>3 DEF FetchBreaks
  <2>4. QED
    BY <1>5, <2>2, <2>3 DEF FetchBreaks
<1>6. CASE FetchNotSupported(l)
  BY <1>6 DEF FetchNotSupported, Types, Places, PauseMatchesConsumers, RunningHasLoop,
              ResumedIsRunning
<1>7. CASE Wake(l)
  BY <1>1, <1>3, <1>7 DEF Wake, Types
<1>8. QED
  BY <1>2, <1>4, <1>5, <1>6, <1>7 DEF LoopStep

LEMMA InitEstablishesInv == Init => Inv
<1>. SUFFICES ASSUME Init PROVE Inv
  OBVIOUS
<1>1. Types
  BY DEF Init, Types, Places
<1>2. Mandatory(consumers) = {}
  BY DEF Init, Mandatory
<1>. QED
  BY <1>1, <1>2 DEF Init, Inv, PauseMatchesConsumers, RunningHasLoop, ResumedIsRunning,
                    StoppedWasRegistered

LEMMA StepKeepsInv == Inv /\ [Next]_vars => Inv'
<1>. SUFFICES ASSUME Inv, [Next]_vars PROVE Inv'
  OBVIOUS
<1>1. CASE Run
  <2>1. CreateTask /\ ~registered /\ registered'
        /\ UNCHANGED <<consumers, isPaused, shouldStop, unsupported, breaks>>
    BY <1>1 DEF Run
  <2>2. QED
    BY <2>1, Created
       DEF Inv, Types, PauseMatchesConsumers, RunningHasLoop, ResumedIsRunning,
           StoppedWasRegistered
<1>2. CASE Stop
  BY <1>2 DEF Stop, Inv, Types, Places, PauseMatchesConsumers, RunningHasLoop,
              ResumedIsRunning, StoppedWasRegistered
<1>3. ASSUME NEW c \in Consumers, NewConsumer(c) PROVE Inv'
  BY <1>3, CheckKeepsInv DEF NewConsumer, Inv, Types
<1>4. ASSUME NEW c \in Consumers, RemoveConsumer(c) PROVE Inv'
  BY <1>4, CheckKeepsInv DEF RemoveConsumer, Inv, Types
<1>5. ASSUME NEW l \in Loops, LoopStep(l) PROVE Inv'
  BY <1>5, LoopStepKeepsInv
<1>6. CASE UNCHANGED vars
  BY <1>6 DEF vars, Inv, Types, PauseMatchesConsumers, RunningHasLoop, ResumedIsRunning,
              StoppedWasRegistered, Alive
<1>7. QED
  BY <1>1, <1>2, <1>3, <1>4, <1>5, <1>6 DEF Next

(* The strengthening that carries the theorems below holds in every state.   *)
THEOREM Invariance == Spec => []Inv
BY InitEstablishesInv, StepKeepsInv, PTL DEF Spec

(* Every variable keeps its type, and a running producer its task.           *)
THEOREM TypeCorrect == Spec => []TypeOK
<1>1. Inv => TypeOK
  BY DEF Inv, Types, Places, RunningHasLoop, TypeOK
<1>2. QED
  BY Invariance, <1>1, PTL

(* The channel is paused exactly while nobody needs it, or the exchange is   *)
(* unable to: whatever the order of registrations, removals and failures.    *)
THEOREM PauseAlwaysMatches == Spec => []PauseMatchesConsumers
<1>1. Inv => PauseMatchesConsumers
  BY DEF Inv
<1>2. QED
  BY Invariance, <1>1, PTL

(* A channel somebody needs is never left without a loop that polls for it.  *)
THEOREM AlwaysPolled == Spec => []PolledWhileWatched
<1>1. Inv => PolledWhileWatched
  BY DEF Inv, PauseMatchesConsumers, ResumedIsRunning, RunningHasLoop, PolledWhileWatched, Alive
<1>2. QED
  BY Invariance, <1>1, PTL
=============================================================================

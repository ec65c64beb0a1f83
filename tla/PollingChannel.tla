--------------------------- MODULE PollingChannel ---------------------------
(***************************************************************************)
(* A channel of the async_channel library and the updater that polls an    *)
(* exchange for it, as OrderBookUpdater does (those of tickers and recent  *)
(* trades are alike): consumers come and go, the channel pauses its        *)
(* producer when no consumer needs it and resumes it when one does.        *)
(*                                                                         *)
(* Registering, removing and stopping never suspend, so each is one        *)
(* action; an update loop suspends while it fetches and while it sleeps.   *)
(* A fetch stands for the pairs of one round.  What consumers do with the  *)
(* data is left out.                                                       *)
(***************************************************************************)
EXTENDS Integers

CONSTANTS
  Consumers, \* of whom the Optional ones have the OPTIONAL priority level
  Optional,
  MaxLoops,  \* bound: update loops alive at a time
  MaxBreaks  \* bound: rounds that fail

ASSUME ConsumersAssumption == Optional \subseteq Consumers
ASSUME BoundsAssumption == MaxLoops \in Nat \ {0} /\ MaxBreaks \in Nat

Loops == 1 .. MaxLoops

VARIABLES
  consumers,    \* Channel.consumers
  isPaused,     \* Channel.is_paused
  registered,   \* the updater is in Channel.producers
  isRunning,    \* Producer.is_running
  shouldStop,   \* Producer.should_stop
  produceTask,  \* Producer.produce_task, 0 for None
  loops,        \* where each start() task is
  unsupported,  \* history: the updater paused its channel since it last resumed
  breaks        \* history: rounds that failed

vars == <<consumers, isPaused, registered, isRunning, shouldStop, produceTask, loops,
          unsupported, breaks>>

Init ==
  /\ consumers = {} /\ isPaused = TRUE
  /\ registered = FALSE /\ isRunning = FALSE /\ shouldStop = FALSE
  /\ produceTask = 0 /\ loops = [l \in Loops |-> "none"]
  /\ unsupported = FALSE /\ breaks = 0

Mandatory(cs) == cs \ Optional
Alive(l) == loops[l] # "none"
-----------------------------------------------------------------------------
\* create_task: the new task becomes produce_task, whatever that was.
NewLoop == CHOOSE l \in Loops : ~Alive(l)

\* Mutant: the task is not kept.
CreateTaskUntracked ==
  /\ \E l \in Loops : ~Alive(l)
  /\ loops' = [loops EXCEPT ![NewLoop] = "created"]
  /\ produceTask' = produceTask
  /\ isRunning' = TRUE

CreateTask ==
  /\ \E l \in Loops : ~Alive(l)
  /\ loops' = [loops EXCEPT ![NewLoop] = "created"]
  /\ produceTask' = NewLoop
  /\ isRunning' = TRUE

\* Producer.run, when the exchange starts.
Run ==
  /\ ~registered /\ registered' = TRUE
  /\ CreateTask
  /\ UNCHANGED <<consumers, isPaused, shouldStop, unsupported, breaks>>

\* Mutant: is_running is left as it is.
PauseRunning ==
  /\ isPaused' = TRUE /\ isRunning' = isRunning
  /\ UNCHANGED <<produceTask, loops, unsupported>>

\* The channel pauses its producer, whose loops are not told.
Pause ==
  /\ isPaused' = TRUE /\ isRunning' = FALSE
  /\ UNCHANGED <<produceTask, loops, unsupported>>

\* The channel resumes its producer, which starts a loop unless it is running.
Resume ==
  /\ isPaused' = FALSE /\ unsupported' = FALSE
  /\ IF registered /\ ~isRunning THEN CreateTask
     ELSE UNCHANGED <<isRunning, produceTask, loops>>

\* Mutant: an optional consumer keeps the producer going.
ShouldPauseProducersIfAlone(cs) == ~isPaused /\ cs = {}

ShouldPauseProducers(cs) == ~isPaused /\ Mandatory(cs) = {}
ShouldResumeProducers(cs) == isPaused /\ Mandatory(cs) # {}

CheckProducersState(cs) ==
  \/ ShouldPauseProducers(cs) /\ Pause
  \/ ShouldResumeProducers(cs) /\ Resume
  \/ /\ ~ShouldPauseProducers(cs) /\ ~ShouldResumeProducers(cs)
     /\ UNCHANGED <<isPaused, isRunning, produceTask, loops, unsupported>>

NewConsumer(c) ==
  /\ ~shouldStop /\ c \notin consumers
  /\ consumers' = consumers \cup {c}
  /\ CheckProducersState(consumers')
  /\ UNCHANGED <<registered, shouldStop, breaks>>

RemoveConsumer(c) ==
  /\ ~shouldStop /\ c \in consumers
  /\ consumers' = consumers \ {c}
  /\ CheckProducersState(consumers')
  /\ UNCHANGED <<registered, shouldStop, breaks>>

\* Channel.stop and flush: produce_task is cancelled, other loops find out by
\* themselves.  A stopped channel is deleted: nobody registers on it any more.
Stop ==
  /\ registered /\ ~shouldStop /\ shouldStop' = TRUE
  /\ isRunning' = FALSE
  /\ loops' = [loops EXCEPT ![produceTask] = "none"]
  /\ UNCHANGED <<consumers, isPaused, registered, produceTask, unsupported, breaks>>
-----------------------------------------------------------------------------
\* Mutants: a paused channel is polled; stopping relies on cancelling the task.
LoopCheckUnlessStopped == IF shouldStop THEN "none" ELSE "fetching"
LoopCheckUnlessPaused == IF isPaused THEN "none" ELSE "fetching"

\* The condition of the loop of start_update_loop.
LoopCheck == IF shouldStop \/ isPaused THEN "none" ELSE "fetching"

\* start(): a paused channel is not polled, and the producer not running.
Begin(l) ==
  /\ loops[l] = "created"
  /\ loops' = [loops EXCEPT ![l] = LoopCheck]
  /\ isRunning' = (isRunning /\ ~isPaused)
  /\ UNCHANGED <<consumers, isPaused, registered, shouldStop, produceTask, unsupported, breaks>>

\* The data is pushed to the consumers.
FetchSucceeds(l) ==
  /\ loops[l] = "fetching"
  /\ loops' = [loops EXCEPT ![l] = "sleeping"]
  /\ UNCHANGED <<consumers, isPaused, registered, isRunning, shouldStop, produceTask,
                 unsupported, breaks>>

\* Mutant: an unexpected error ends the loop.
FetchBreaksLoop(l) ==
  /\ loops[l] = "fetching"
  /\ breaks < MaxBreaks /\ breaks' = breaks + 1
  /\ loops' = [loops EXCEPT ![l] = "none"]
  /\ UNCHANGED <<consumers, isPaused, registered, isRunning, shouldStop, produceTask, unsupported>>

\* A failed request is retried after a pause, after any other error at once.
FetchBreaks(l) ==
  /\ loops[l] = "fetching"
  /\ breaks < MaxBreaks /\ breaks' = breaks + 1
  /\ loops' \in {[loops EXCEPT ![l] = "sleeping"], [loops EXCEPT ![l] = LoopCheck]}
  /\ UNCHANGED <<consumers, isPaused, registered, isRunning, shouldStop, produceTask, unsupported>>

\* The exchange does not support the request: the updater pauses its own channel,
\* which a stopped one, flushed, is not able to.
FetchNotSupported(l) ==
  /\ loops[l] = "fetching" /\ ~shouldStop
  /\ isPaused' = TRUE /\ isRunning' = FALSE /\ unsupported' = TRUE
  /\ loops' = [loops EXCEPT ![l] = "none"]
  /\ UNCHANGED <<consumers, registered, shouldStop, produceTask, breaks>>

Wake(l) ==
  /\ loops[l] = "sleeping"
  /\ loops' = [loops EXCEPT ![l] = LoopCheck]
  /\ UNCHANGED <<consumers, isPaused, registered, isRunning, shouldStop, produceTask,
                 unsupported, breaks>>

LoopStep(l) ==
  Begin(l) \/ FetchSucceeds(l) \/ FetchBreaks(l) \/ FetchNotSupported(l) \/ Wake(l)

Next ==
  \/ Run \/ Stop
  \/ \E c \in Consumers : NewConsumer(c) \/ RemoveConsumer(c)
  \/ \E l \in Loops : LoopStep(l)

Spec == Init /\ [][Next]_vars

\* Requests are answered and sleeps end; nobody has to register or to stop.
FairSpec == Spec /\ \A l \in Loops : WF_vars(LoopStep(l))
-----------------------------------------------------------------------------
\* Each variable has the values the code gives it, and a running producer has a task
\* that stopping it can cancel.
TypeOK ==
  /\ consumers \subseteq Consumers
  /\ isPaused \in BOOLEAN /\ registered \in BOOLEAN
  /\ isRunning \in BOOLEAN /\ shouldStop \in BOOLEAN
  /\ produceTask \in Loops \cup {0} /\ (isRunning => produceTask \in Loops)
  /\ loops \in [Loops -> {"none", "created", "fetching", "sleeping"}]
  /\ unsupported \in BOOLEAN /\ breaks \in Nat

\* The channel is paused as long as, and only when, no consumer needs its data
\* (Channel._check_producers_state), or the updater found the exchange unable to.
PauseMatchesConsumers ==
  /\ ~isPaused => Mandatory(consumers) # {}
  /\ isPaused /\ Mandatory(consumers) # {} => unsupported

\* However consumers come and go while an updater starts, fetches or sleeps, a channel
\* that somebody needs has a loop that polls for it: a resume that finds is_running
\* set can rely on the loop that is there (OrderBookUpdater.resume).
PolledWhileWatched ==
  registered /\ ~shouldStop /\ Mandatory(consumers) # {} /\ ~unsupported =>
    \E l \in Loops : Alive(l)

\* A consumer that stays is fed again and again, whatever pauses came before it and
\* whatever rounds fail.
FedWhileWatched ==
  <>[](registered /\ ~shouldStop /\ Mandatory(consumers) # {} /\ ~unsupported)
    => []<><<\E l \in Loops : FetchSucceeds(l)>>_vars

\* Once no consumer needs the channel, polling ends, unless one comes back.
QuietWhenUnwatched ==
  Mandatory(consumers) = {} ~> (Mandatory(consumers) # {} \/ \A l \in Loops : ~Alive(l))

\* Stopping the channel ends all of its loops, also those that produce_task has
\* forgotten (Producer.stop).
StopEndsPolling == shouldStop ~> \A l \in Loops : ~Alive(l)

\* The producer is not started while it already is: one loop polls the exchange.
OneLoop == \A k, l \in Loops : Alive(k) /\ Alive(l) => k = l
=============================================================================

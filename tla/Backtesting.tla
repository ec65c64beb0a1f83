---------------------------- MODULE Backtesting ----------------------------
(***************************************************************************)
(* A backtesting: the clock that jumps from one timestamp to the next      *)
(* (TimeManager, TimeUpdater) and, between two jumps, the drain of the     *)
(* queues of the synchronized channels by priority level (ChannelsManager).*)
(*                                                                         *)
(* Consumers have no task here: their callbacks run inside of the drain    *)
(* and push to other channels, create tasks that push later, raise, or add *)
(* consumers.  A callback may be suspended, so tasks run between any two   *)
(* of its steps.  Every channel has one producer.                          *)
(***************************************************************************)
EXTENDS Naturals, Sequences, FiniteSets, SequencesExt

CONSTANTS
  Producers,      \* the channels in the order of the producers of the channels manager
  TimeChannel,
  Consumers,
  Late,           \* consumers that are added while the backtesting runs
  ChannelOf,
  PriorityOf,
  Forwards,       \* the channels the callback of a consumer pushes to
  Interval,       \* time between two timestamps
  Finish,         \* finishing_timestamp
  Whitelists,     \* the sets of timestamps that may be registered
  MaxPushes,      \* bound: pushes of callbacks between two jumps
  MaxErrors       \* bound: callbacks that raise

Channels == ToSet(Producers)
Levels == 0 .. 2       \* HIGH, MEDIUM, OPTIONAL

ASSUME ChannelsAssumption ==
  Producers \in Seq(Channels) /\ TimeChannel \in Channels /\ Late \subseteq Consumers
\* Importers listen to the time from the start: it is what makes them push their data.
ASSUME ConsumersAssumption ==
  /\ IsFiniteSet(Consumers) /\ \E c \in Consumers \ Late : ChannelOf[c] = TimeChannel
  /\ ChannelOf \in [Consumers -> Channels] /\ PriorityOf \in [Consumers -> Levels]
  /\ Forwards \in [Consumers -> SUBSET Channels]
ASSUME TimeAssumption ==
  /\ Interval \in Nat \ {0} /\ Finish \in Nat /\ Whitelists \subseteq SUBSET Nat
  /\ MaxPushes \in Nat /\ MaxErrors \in Nat

VARIABLES
  now,          \* current_timestamp
  whitelist,    \* the registered timestamps, {} if there are none
  ahead,        \* those still in the queue of the time manager
  consumers,    \* the consumers of each channel, in the order they were added
  queue,        \* the queue of each consumer
  kept,         \* the producers that are still served
  served,       \* producers_by_priority_levels
  loop,         \* where the drain is
  tasks,        \* pushes of tasks that did not run yet
  shouldStop,
  pushes,       \* bound: what callbacks pushed since the last jump
  errors,       \* bound: callbacks that raised
  triggered,    \* history: the timestamps that were pushed
  cut           \* history: those of which a level was given up

clock == <<now, whitelist, ahead, triggered>>
channels == <<consumers, kept, served>>
counters == <<pushes, errors, cut>>
vars == <<now, whitelist, ahead, consumers, queue, kept, served, loop, tasks, shouldStop,
          pushes, errors, triggered, cut>>

Message == [at : Nat, by : {"time", "callback", "task"}, level : Levels]
Task == [channel : Channels, at : Nat]
Loop == [pc : {"push", "level", "drain", "cycle", "ended"}, left : SUBSET Levels, level : Levels,
         next : Seq(Channels), todo : Seq(Consumers)]
At(pc, left, level) == [pc |-> pc, left |-> left, level |-> level, next |-> <<>>, todo |-> <<>>]

\* The elements of s that are in S, in their order.
Only(s, S) ==
  LET only[i \in 0 .. Len(s)] ==
        IF i = 0 THEN <<>>
        ELSE IF s[i] \in S THEN Append(only[i - 1], s[i]) ELSE only[i - 1]
  IN  only[Len(s)]

ConsumersOf(ch) == {c \in Consumers : ChannelOf[c] = ch}

Init ==
  /\ now = 0 /\ whitelist \in Whitelists /\ ahead = whitelist
  /\ consumers = [ch \in Channels |-> Only(SetToSeq(Consumers \ Late), ConsumersOf(ch))]
  /\ queue = [c \in Consumers |-> <<>>]
  /\ kept = Producers /\ served = [l \in Levels |-> Producers]
  /\ loop = At("push", {}, 0)
  /\ tasks = {} /\ shouldStop = FALSE
  /\ pushes = 0 /\ errors = 0 /\ triggered = {} /\ cut = {}

-----------------------------------------------------------------------------
(* Queues and priority levels.                                             *)

Registered == UNION {ToSet(consumers[ch]) : ch \in Channels}

Sent(q, ch, m) == [c \in Consumers |-> IF c \in ToSet(consumers[ch]) THEN Append(q[c], m) ELSE q[c]]

GetPrioritizedConsumers(ch, l) == Only(consumers[ch], {c \in Consumers : PriorityOf[c] <= l})

\* Mutant: the queues of lower priorities count as well.
CheckEmptinessOfAll(producers, l) ==
  \A ch \in ToSet(producers) : \A c \in ToSet(consumers[ch]) : queue[c] = <<>>

CheckEmptiness(producers, l) ==
  \A ch \in ToSet(producers) : \A c \in ToSet(GetPrioritizedConsumers(ch, l)) : queue[c] = <<>>

WithConsumers(producers, l) ==
  Only(producers, {ch \in Channels : GetPrioritizedConsumers(ch, l) # <<>>})

\* Mutant: levels are numbered from one.
UpdateProducersFromLevelOne(producers) ==
  [l \in {l \in 1 .. 3 : WithConsumers(producers, l) # <<>>} |-> WithConsumers(producers, l)]

UpdateProducersByPriorityLevels(producers) ==
  [l \in {l \in Levels : WithConsumers(producers, l) # <<>>} |-> WithConsumers(producers, l)]

-----------------------------------------------------------------------------
(* The drain between two timestamps.                                       *)

Push ==
  /\ loop.pc = "push" /\ ~shouldStop
  /\ queue' = Sent(queue, TimeChannel, [at |-> now, by |-> "time", level |-> 0])
  /\ triggered' = triggered \cup {now}
  /\ loop' = At("level", DOMAIN served, 0)
  /\ UNCHANGED <<now, whitelist, ahead, channels, tasks, shouldStop, counters>>

\* Mutant: the levels in the other order.
Highest(left) == CHOOSE l \in left : \A k \in left : l >= k

Lowest(left) == CHOOSE l \in left : \A k \in left : l <= k

SkipLevel ==
  /\ loop.pc = "level" /\ loop.left # {}
  /\ LET l == Lowest(loop.left) IN
       /\ CheckEmptiness(served[l], l)
       /\ loop' = At("level", loop.left \ {l}, l)
  /\ UNCHANGED <<clock, channels, queue, tasks, shouldStop, counters>>

StartLevel ==
  /\ loop.pc = "level" /\ loop.left # {}
  /\ LET l == Lowest(loop.left) IN
       /\ ~CheckEmptiness(served[l], l)
       /\ loop' = [At(IF shouldStop THEN "cycle" ELSE "drain", loop.left \ {l}, l)
                     EXCEPT !.next = served[l]]
  /\ UNCHANGED <<clock, channels, queue, tasks, shouldStop, counters>>

NextProducer ==
  /\ loop.pc = "drain" /\ loop.todo = <<>> /\ loop.next # <<>>
  /\ loop' = [loop EXCEPT !.todo = GetPrioritizedConsumers(Head(loop.next), loop.level),
                              !.next = Tail(@)]
  /\ UNCHANGED <<clock, channels, queue, tasks, shouldStop, counters>>

NextConsumer ==
  /\ loop.pc = "drain" /\ loop.todo # <<>> /\ queue[Head(loop.todo)] = <<>>
  /\ loop' = [loop EXCEPT !.todo = Tail(@)]
  /\ UNCHANGED <<clock, channels, queue, tasks, shouldStop, counters>>

\* Mutant: the producers are served once.
RecheckNothing ==
  /\ loop.pc = "drain" /\ loop.todo = <<>> /\ loop.next = <<>>
  /\ loop' = At("cycle", loop.left, loop.level)
  /\ UNCHANGED <<clock, channels, queue, tasks, shouldStop, counters>>

\* What is left is what the callbacks of this pass pushed to consumers it had served.
Recheck ==
  /\ loop.pc = "drain" /\ loop.todo = <<>> /\ loop.next = <<>>
  /\ loop' = IF shouldStop \/ CheckEmptiness(kept, loop.level)
             THEN At("cycle", loop.left, loop.level)
             ELSE [loop EXCEPT !.next = served[loop.level]]
  /\ UNCHANGED <<clock, channels, queue, tasks, shouldStop, counters>>

Current == Head(loop.todo)
HasMessage == loop.pc = "drain" /\ loop.todo # <<>> /\ queue[Current] # <<>>
Popped == [queue EXCEPT ![Current] = Tail(@)]

Returns ==
  /\ queue' = Popped
  /\ UNCHANGED <<tasks, pushes>>

Pushes ==
  /\ pushes < MaxPushes /\ pushes' = pushes + 1
  /\ \E ch \in Forwards[Current] :
       queue' = Sent(Popped, ch, [at |-> now, by |-> "callback", level |-> loop.level])
  /\ UNCHANGED tasks

CreatesTask ==
  /\ pushes < MaxPushes /\ pushes' = pushes + 1
  /\ \E ch \in Forwards[Current] : tasks' = tasks \cup {[channel |-> ch, at |-> now]}
  /\ queue' = Popped

Perform ==
  /\ HasMessage /\ (Returns \/ Pushes \/ CreatesTask)
  /\ UNCHANGED <<clock, channels, loop, shouldStop, errors, cut>>

\* Any error ends the iteration, which starts again at the same timestamp.
PerformRaises ==
  /\ HasMessage /\ errors < MaxErrors /\ errors' = errors + 1
  /\ queue' = Popped
  /\ loop' = At("push", {}, 0)
  /\ UNCHANGED <<clock, channels, tasks, shouldStop, pushes, cut>>

\* A TimeoutError, which a callback may also raise, ends the level.
PerformTimesOut ==
  /\ HasMessage /\ errors < MaxErrors /\ errors' = errors + 1
  /\ queue' = Popped
  /\ loop' = At("level", loop.left, loop.level) /\ cut' = cut \cup {now}
  /\ UNCHANGED <<clock, channels, tasks, shouldStop, pushes>>

RunTask(t) ==
  /\ loop.pc \in {"drain", "cycle"}
  /\ tasks' = tasks \ {t}
  /\ queue' = Sent(queue, t.channel, [at |-> now, by |-> "task", level |-> loop.level])
  /\ UNCHANGED <<clock, channels, loop, shouldStop, counters>>

NewConsumer(c) ==
  /\ loop.pc = "drain" /\ c \notin Registered
  /\ consumers' = [consumers EXCEPT ![ChannelOf[c]] = Append(@, c)]
  /\ UNCHANGED <<clock, queue, kept, served, loop, tasks, shouldStop, counters>>

\* Mutant: the event loop is not yielded to.
NextCycleAtOnce ==
  /\ loop.pc = "cycle"
  /\ loop' = At("level", loop.left, loop.level)
  /\ UNCHANGED <<clock, channels, queue, tasks, shouldStop, counters>>

\* The tasks that were created run before the next level or the next timestamp.
NextCycle ==
  /\ loop.pc = "cycle" /\ tasks = {}
  /\ loop' = At("level", loop.left, loop.level)
  /\ UNCHANGED <<clock, channels, queue, tasks, shouldStop, counters>>

-----------------------------------------------------------------------------
(* The clock.                                                              *)

Earliest(q) == CHOOSE w \in q : \A v \in q : w <= v

\* The entries before t are popped, and the next one with them.
Pop(t, q) ==
  IF q = {} \/ Earliest(q) >= t THEN q
  ELSE LET from == {w \in q : w >= t} IN {w \in from : \E v \in from : v < w}

\* Mutant: the interval is added once more before the first look.
NextTimestampAfterSkip(accepted) ==
  LET jump[t \in Nat] == [q \in SUBSET whitelist |->
        IF t \in accepted \/ t \in q \/ t > Finish THEN [now |-> t, ahead |-> Pop(t, q)]
        ELSE jump[t + Interval][Pop(t, q)]]
  IN  IF whitelist = {} THEN [now |-> now + Interval, ahead |-> {}]
      ELSE jump[now + Interval + Interval][ahead]

\* next_timestamp, when the callback accepts these timestamps.
NextTimestamp(accepted) ==
  LET jump[t \in Nat] == [q \in SUBSET whitelist |->
        IF t \in accepted THEN [now |-> t, ahead |-> q]
        ELSE IF t \in q \/ t > Finish THEN [now |-> t, ahead |-> Pop(t, q)]
        ELSE jump[t + Interval][Pop(t, q)]]
  IN  IF whitelist = {} THEN [now |-> now + Interval, ahead |-> {}]
      ELSE jump[now + Interval][ahead]

HasFinished == (whitelist # {} /\ ahead = {}) \/ now >= Finish

ClearEmptyChannelsProducers == Only(Producers, {ch \in Channels : consumers[ch] # <<>>})

Advance ==
  /\ loop.pc = "level" /\ loop.left = {} /\ ~HasFinished
  /\ \E accepted \in SUBSET (1 .. Finish) :
       /\ now' = NextTimestamp(accepted).now /\ ahead' = NextTimestamp(accepted).ahead
  /\ IF now = 0
     THEN /\ kept' = ClearEmptyChannelsProducers
          /\ served' = UpdateProducersByPriorityLevels(kept')
     ELSE UNCHANGED <<kept, served>>
  /\ loop' = At("push", {}, 0) /\ pushes' = 0
  /\ UNCHANGED <<whitelist, triggered, consumers, queue, tasks, shouldStop, errors, cut>>

Finishes ==
  /\ loop.pc = "level" /\ loop.left = {} /\ HasFinished
  /\ loop' = At("push", {}, 0) /\ shouldStop' = TRUE
  /\ UNCHANGED <<clock, channels, queue, tasks, counters>>

End ==
  /\ loop.pc = "push" /\ shouldStop
  /\ loop' = At("ended", {}, 0)
  /\ UNCHANGED <<clock, channels, queue, tasks, shouldStop, counters>>

Stop ==
  /\ loop.pc # "ended" /\ shouldStop' = TRUE
  /\ UNCHANGED <<clock, channels, queue, loop, tasks, counters>>

-----------------------------------------------------------------------------
Iterate ==
  \/ Push \/ SkipLevel \/ StartLevel \/ NextProducer \/ NextConsumer \/ Recheck
  \/ Perform \/ NextCycle \/ Advance \/ Finishes \/ End

Run == \E t \in tasks : RunTask(t)

Next ==
  \/ Iterate \/ Run \/ PerformRaises \/ PerformTimesOut \/ Stop
  \/ \E c \in Late : NewConsumer(c)

Spec == Init /\ [][Next]_vars

(***************************************************************************)
(* The loop of the backtesting is a task like those of the callbacks: the  *)
(* event loop runs each of them.                                           *)
(***************************************************************************)
FairSpec == Spec /\ WF_vars(Iterate) /\ WF_vars(Run)

-----------------------------------------------------------------------------
TypeOK ==
  /\ now \in Nat /\ whitelist \in SUBSET Nat /\ ahead \in SUBSET whitelist
  /\ consumers \in [Channels -> Seq(Consumers)]
  /\ queue \in [Consumers -> Seq(Message)]
  /\ kept \in Seq(Channels)
  /\ DOMAIN served \subseteq Levels /\ \A l \in DOMAIN served : served[l] \in Seq(Channels)
  /\ loop \in Loop /\ tasks \subseteq Task /\ shouldStop \in BOOLEAN
  /\ pushes \in 0 .. MaxPushes /\ errors \in 0 .. MaxErrors
  /\ triggered \subseteq Nat /\ cut \subseteq Nat

Queued(c) == ToSet(queue[c])

\* The drain of the level of c serves its channel.  A consumer is stranded that
\* joined a channel after the producers were sorted by level, at a level at which
\* that channel had nobody: update_producers_by_priority_levels runs only once.
Served(c) ==
  PriorityOf[c] \in DOMAIN served /\ ChannelOf[c] \in ToSet(served[PriorityOf[c]])
Stranded(c) == c \in Registered /\ ~Served(c)

(* What the callbacks of a timestamp push is processed at that timestamp,  *)
(* through callbacks that push to channels that were already drained,      *)
(* callbacks that raise and consumers that come meanwhile, unless a level  *)
(* was given up or the consumer is stranded.  What tasks push may wait for *)
(* the next timestamp.                                                     *)
NothingLeftBehind ==
  \A c \in Consumers : \A m \in Queued(c) :
    m.at = now \/ m.by = "task" \/ m.at \in cut \/ shouldStop \/ Stranded(c)

(* A task that a callback creates, and that pushes in one step, runs at    *)
(* the simulated time of its callback: "ensuring any triggered coroutines  *)
(* run at the correct simulated moment"                                    *)
(* (docs/content/developers/packages/backtesting.md:13).                   *)
TasksRunInTime == \A t \in tasks : t.at = now \/ t.at \in cut \/ shouldStop

(* When a consumer gets a message, those of a higher priority that are not *)
(* stranded only have messages that came since its own level began: data   *)
(* reach the consumers in the order of their priorities, unless they       *)
(* answer to lower ones.                                                   *)
HigherFirst ==
  [][Perform => \A c \in Registered : PriorityOf[c] < PriorityOf[Current] =>
       \A m \in Queued(c) : \/ m.at = now /\ m.level = loop.level
                           \/ m.by = "task" \/ m.at \in cut \/ Stranded(c)]_vars

(* No timestamp of the whitelist is jumped over: next_timestamp "skips any *)
(* timestamp not present in the sorted whitelist deque"                    *)
(* (docs/content/developers/packages/backtesting.md:21).                   *)
WhitelistedAreTriggered ==
  \A w \in whitelist : w % Interval = 0 /\ w < now => w \in triggered

(* The backtesting comes to its end, or a drain waits for ever for the     *)
(* messages of a stranded consumer: channels_manager.py:99 looks at every  *)
(* channel that is left, the loop it guards only serves those of the       *)
(* level, and the time limit of the drain is commented out                 *)
(* (channels_manager.py:92-94).  Nothing else keeps a drain going once the *)
(* callbacks push no more.                                                 *)
BacktestingEnds ==
  \/ <>(loop.pc = "ended")
  \/ <>[](loop.pc = "drain" /\ \E c \in Consumers : /\ Stranded(c) /\ queue[c] # <<>>
                                                    /\ ChannelOf[c] \in ToSet(kept))
=============================================================================

------------------------- MODULE AutomationPromise -------------------------
(***************************************************************************)
(* What a node promises of an automation, however its iterations are cut   *)
(* into workflows: one iteration at a time, which executes a user action   *)
(* that it does not know of and then remembers it or loses it; once it has *)
(* ended nothing happens but a restart, and nothing else takes its stop    *)
(* from it.  What was stopped hands over to another iteration only when    *)
(* its latest one was postponed.                                           *)
(***************************************************************************)
EXTENDS Naturals

CONSTANT UserActions

VARIABLES
  iteration,  \* how often an iteration handed over or was restarted
  working,    \* the automation runs
  stopped,    \* it was told to stop, or stopped itself
  postponed,  \* what it did last was put off
  done,       \* the user actions that it remembers to have executed
  pending,    \* the one that was executed and is not remembered yet
  executed,   \* how often each was executed
  lost        \* how many of these executions are not remembered

vars == <<iteration, working, stopped, postponed, done, pending, executed, lost>>

Init ==
  /\ iteration = 0 /\ working = TRUE /\ stopped = FALSE /\ postponed = FALSE
  /\ done = {} /\ pending = {}
  /\ executed = [u \in UserActions |-> 0] /\ lost = [u \in UserActions |-> 0]

OneMore(f, S) == [u \in UserActions |-> IF u \in S THEN f[u] + 1 ELSE f[u]]

New == {{}} \cup {{u} : u \in UserActions \ done}

Execute ==
  /\ working /\ pending = {} /\ pending' \in New
  /\ executed' = OneMore(executed, pending')
  /\ UNCHANGED <<iteration, working, stopped, postponed, done, lost>>

Remember ==
  /\ working /\ pending' = {} /\ done' = done \cup pending /\ postponed' = FALSE
  /\ working' \in BOOLEAN /\ stopped' \in {stopped, TRUE}
  /\ UNCHANGED <<iteration, executed, lost>>

Lose ==
  /\ pending' = {} /\ lost' = OneMore(lost, pending)
  /\ postponed' \in {postponed, working}
  /\ UNCHANGED <<iteration, working, stopped, done, executed>>

\* What was executed is lost with the error that it raised.
Fail ==
  /\ working /\ pending = {}
  /\ \E failed \in New : executed' = OneMore(executed, failed) /\ lost' = OneMore(lost, failed)
  /\ UNCHANGED <<iteration, working, stopped, postponed, done, pending>>

\* An error may also end the automation, with what it remembered earlier.
Break ==
  /\ working /\ working' = FALSE /\ postponed' = FALSE /\ done' \subseteq done /\ pending' = {}
  /\ \E failed \in New :
       /\ pending = {} \/ failed = {}
       /\ executed' = OneMore(executed, failed)
       /\ lost' = OneMore(lost, failed \cup pending \cup (done \ done'))
  /\ UNCHANGED <<iteration, stopped>>

HandOver ==
  /\ working /\ (stopped => postponed) /\ pending = {}
  /\ iteration' = iteration + 1 /\ postponed' = FALSE
  /\ UNCHANGED <<working, stopped, done, pending, executed, lost>>

Restart ==
  /\ ~working /\ working' = TRUE /\ stopped' = FALSE /\ postponed' = FALSE
  /\ iteration' = iteration + 1
  /\ UNCHANGED <<done, pending, executed, lost>>

Next == Execute \/ Remember \/ Lose \/ Fail \/ Break \/ HandOver \/ Restart

Spec == Init /\ [][Next]_vars
=============================================================================

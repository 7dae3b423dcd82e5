----------------------------- MODULE Scheduler -----------------------------
(***************************************************************************)
(* Delayed tasks, src/src/scheduler.cpp.  addEvent and stopEvent run on    *)
(* the caller's thread and only post a handler to the scheduler's          *)
(* io_context; one thread (threadMain) runs the handlers in the order in   *)
(* which they were posted, and with them the completion handlers of the    *)
(* timers.  A timer that expired cannot be cancelled any more: its         *)
(* completion is in the queue, and so may be the task in the dispatcher.   *)
(***************************************************************************)
EXTENDS Integers, Sequences, FiniteSets

CONSTANTS
    Events,     \* the SchedulerTasks callers create, each passed to addEvent once
    IdCount,    \* how many values an event id has: 2^32 in the code
    NoEvent     \* no wait pending on a timer

ASSUME IdCountAssumption == IdCount \in Nat \ {0}
ASSUME NoEventAssumption == NoEvent \notin Events

Ids == 0..(IdCount - 1)
NoId == -1

VARIABLES
    schedulerState, \* ThreadHolder::threadState
    running,        \* io_context::run has not returned
    lastEventId,    \* Scheduler::lastEventId
    idOf,           \* the id addEvent returned for an event
    ops,            \* the io_context's queue of handlers
    timers,         \* eventIdTimerMap: the event each timer waits for, or NoEvent
    dispatched,     \* how often each event was handed to g_dispatcher.addTask
    deleted,        \* how often each event was deleted unrun
    stopCalled      \* history: events whose caller called stopEvent

schedulerVars == <<schedulerState, running, lastEventId, idOf, ops, timers,
                   dispatched, deleted, stopCalled>>

\* The handlers: of addEvent, of stopEvent, of shutdown, and of a timer wait
\* that completed, by expiry or (aborted) by cancellation.
Handler ==
    [kind : {"arm"}, event : Events]
    \cup [kind : {"cancel"}, id : Ids]
    \cup [kind : {"halt"}]
    \cup [kind : {"done"}, event : Events, aborted : BOOLEAN]

SchedulerTypeOK ==
    /\ schedulerState \in {"RUNNING", "CLOSING", "TERMINATED"}
    /\ running \in BOOLEAN
    /\ lastEventId \in Ids
    /\ idOf \in [Events -> Ids \cup {NoId}]
    /\ ops \in Seq(Handler)
    /\ DOMAIN timers \subseteq Ids
    /\ \A id \in DOMAIN timers : timers[id] \in Events \cup {NoEvent}
    /\ dispatched \in [Events -> Nat]
    /\ deleted \in [Events -> Nat]
    /\ stopCalled \in SUBSET Events

SchedulerInit ==
    /\ schedulerState = "RUNNING"
    /\ running = TRUE
    /\ lastEventId = 0
    /\ idOf = [e \in Events |-> NoId]
    /\ ops = <<>>
    /\ timers = [id \in {} |-> NoEvent]
    /\ dispatched = [e \in Events |-> 0]
    /\ deleted = [e \in Events |-> 0]
    /\ stopCalled = {}

-----------------------------------------------------------------------------
(* The callers.                                                            *)

\* Mutant: the id is not incremented.
NextIdStuck(id) == id

\* ++lastEventId of a uint32_t: it wraps, and 0 is what it wraps to.
NextId(id) == (id + 1) % IdCount

AddEvent(e) ==
    /\ idOf[e] = NoId
    /\ lastEventId' = NextId(lastEventId)
    /\ idOf' = [idOf EXCEPT ![e] = lastEventId']
    /\ ops' = Append(ops, [kind |-> "arm", event |-> e])
    /\ UNCHANGED <<schedulerState, running, timers, dispatched, deleted, stopCalled>>

\* The holder of e's id stops it, at any time: also when e fired already and
\* its task, which would reset the id, has not run yet.  Id 0 means "none".
StopEvent(e) ==
    /\ idOf[e] # NoId
    /\ e \notin stopCalled
    /\ stopCalled' = stopCalled \cup {e}
    /\ ops' = IF idOf[e] = 0 THEN ops ELSE Append(ops, [kind |-> "cancel", id |-> idOf[e]])
    /\ UNCHANGED <<schedulerState, running, lastEventId, idOf, timers, dispatched, deleted>>

\* ThreadHolder::stop: nothing in the scheduler looks at CLOSING.
SchedulerStop ==
    /\ schedulerState = "RUNNING"
    /\ schedulerState' = "CLOSING"
    /\ UNCHANGED <<running, lastEventId, idOf, ops, timers, dispatched, deleted, stopCalled>>

SchedulerShutdown ==
    /\ schedulerState # "TERMINATED"
    /\ schedulerState' = "TERMINATED"
    /\ ops' = Append(ops, [kind |-> "halt"])
    /\ UNCHANGED <<running, lastEventId, idOf, timers, dispatched, deleted, stopCalled>>

-----------------------------------------------------------------------------
(* The scheduler thread.                                                   *)

Done(e, a) == [kind |-> "done", event |-> e, aborted |-> a]

\* Cancelling the wait of a timer queues its completion, if a wait is pending.
Abort(id, queue) ==
    IF id \in DOMAIN timers /\ timers[id] # NoEvent
    THEN Append(queue, Done(timers[id], TRUE))
    ELSE queue

Without(id) == [other \in DOMAIN timers \ {id} |-> timers[other]]

\* Mutant: the timer is set, but nothing waits for it.
RunArmNoWait(op) ==
    /\ op.kind = "arm"
    /\ LET id == idOf[op.event] IN
       /\ ops' = Abort(id, Tail(ops))
       /\ timers' = [other \in DOMAIN timers \cup {id} |->
                        IF other = id THEN NoEvent ELSE timers[other]]
    /\ UNCHANGED <<running, dispatched, deleted>>

\* addEvent's handler: emplace finds or makes the entry of the id, expires_after
\* cancels the wait an entry already there had pending, and async_wait starts one.
RunArm(op) ==
    /\ op.kind = "arm"
    /\ LET id == idOf[op.event] IN
       /\ ops' = Abort(id, Tail(ops))
       /\ timers' = [other \in DOMAIN timers \cup {id} |->
                        IF other = id THEN op.event ELSE timers[other]]
    /\ UNCHANGED <<running, dispatched, deleted>>

\* stopEvent's handler: nothing if the id is not, or no longer, in the map.
RunCancel(op) ==
    /\ op.kind = "cancel"
    /\ ops' = Abort(op.id, Tail(ops))
    /\ IF op.id \in DOMAIN timers /\ timers[op.id] # NoEvent
       THEN /\ timers' = [timers EXCEPT ![op.id] = NoEvent]
       ELSE UNCHANGED timers
    /\ UNCHANGED <<running, dispatched, deleted>>

\* Mutant: no return after the delete.
RunDoneFallsThrough(op) ==
    /\ op.kind = "done"
    /\ LET id == idOf[op.event] IN
       /\ timers' = Without(id)
       /\ ops' = Abort(id, Tail(ops))
    /\ deleted' = IF op.aborted THEN [deleted EXCEPT ![op.event] = @ + 1] ELSE deleted
    /\ dispatched' = [dispatched EXCEPT ![op.event] = @ + 1]
    /\ UNCHANGED <<running>>

\* A timer's completion: the entry is erased (with it the timer, whose pending
\* wait, if it has one, is cancelled), and the task is deleted or dispatched.
RunDone(op) ==
    /\ op.kind = "done"
    /\ LET id == idOf[op.event] IN
       /\ timers' = Without(id)
       /\ ops' = Abort(id, Tail(ops))
    /\ IF op.aborted \/ schedulerState = "TERMINATED"
       THEN deleted' = [deleted EXCEPT ![op.event] = @ + 1] /\ UNCHANGED dispatched
       ELSE dispatched' = [dispatched EXCEPT ![op.event] = @ + 1] /\ UNCHANGED deleted
    /\ UNCHANGED <<running>>

\* shutdown's handler: the completions of the waits it cancels are never run,
\* for it stops the io_context before it returns.
RunHalt(op) ==
    /\ op.kind = "halt"
    /\ running' = FALSE
    /\ ops' = Tail(ops)
    /\ UNCHANGED <<timers, dispatched, deleted>>

RunHandler ==
    /\ running
    /\ ops # <<>>
    /\ LET op == Head(ops) IN RunArm(op) \/ RunCancel(op) \/ RunDone(op) \/ RunHalt(op)
    /\ UNCHANGED <<schedulerState, lastEventId, idOf, stopCalled>>

\* Time passes: a pending wait completes without error.
Expire(id) ==
    /\ running
    /\ id \in DOMAIN timers
    /\ timers[id] # NoEvent
    /\ ops' = Append(ops, Done(timers[id], FALSE))
    /\ timers' = [timers EXCEPT ![id] = NoEvent]
    /\ UNCHANGED <<schedulerState, running, lastEventId, idOf, dispatched, deleted, stopCalled>>

SchedulerNext ==
    \/ \E e \in Events : AddEvent(e) \/ StopEvent(e)
    \/ SchedulerStop
    \/ SchedulerShutdown
    \/ RunHandler
    \/ \E id \in Ids : Expire(id)

\* The thread runs its handlers, and every delay ends.
SchedulerFairness ==
    /\ WF_schedulerVars(RunHandler)
    /\ \A id \in Ids : WF_schedulerVars(Expire(id))

SchedulerSpec == SchedulerInit /\ [][SchedulerNext]_schedulerVars /\ SchedulerFairness

-----------------------------------------------------------------------------
(* Properties.                                                             *)

\* Where an event's task object is: in a posted handler, with a timer, with a
\* dispatched task, or deleted.
Whereabouts(e) ==
    Cardinality({i \in 1..Len(ops) : ops[i].kind \in {"arm", "done"} /\ ops[i].event = e})
    + Cardinality({id \in DOMAIN timers : timers[id] = e})
    + dispatched[e] + deleted[e]

\* The raw SchedulerTask pointer has one owner at every moment: it is neither
\* deleted twice, nor dispatched and deleted, nor lost, even if ids wrap around.
OneOwner == \A e \in Events : Whereabouts(e) = IF idOf[e] = NoId THEN 0 ELSE 1

\* While at most IdCount events were made, ids are unique and a stopEvent
\* reaches the event of its caller only: an event is deleted unrun only if it
\* was stopped or the scheduler shut down.
NoForeignStop ==
    Cardinality({e \in Events : idOf[e] # NoId}) <= IdCount /\ schedulerState # "TERMINATED" =>
        \A e \in Events : deleted[e] > 0 => e \in stopCalled

\* Every event is dispatched or deleted in the end, unless the scheduler ends.
EveryEventEnds ==
    \A e \in Events :
        idOf[e] # NoId ~> dispatched[e] > 0 \/ deleted[e] > 0 \/ ~running

=============================================================================

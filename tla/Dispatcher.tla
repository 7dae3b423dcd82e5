----------------------------- MODULE Dispatcher -----------------------------
(***************************************************************************)
(* The task queue of src/src/tasks.cpp: any thread hands a task to         *)
(* Dispatcher::addTask, one thread (threadMain) runs them.  Every piece of *)
(* game logic of the server runs as such a task, so the order and the fate *)
(* of tasks decide what "single-threaded game state" means.                *)
(*                                                                         *)
(* The mutex taskLock is modelled by making each critical section one      *)
(* action.  What the code does OUTSIDE the lock is a step of its own: the  *)
(* state test of the while loop, the run of each task, and the notify_one  *)
(* that follows the unlock in addTask.                                     *)
(***************************************************************************)
EXTENDS Integers, Sequences, FiniteSets

CONSTANTS
    Producers,  \* the threads that submit tasks (network, timers, database, the dispatcher itself)
    MaxTasks,   \* bound: addTask calls per producer
    StopTask    \* the task that Dispatcher::shutdown queues

ASSUME MaxTasksAssumption == MaxTasks \in Nat \ {0}

\* The n-th task of producer "by"; "expires" is the createTask overload with
\* an expiration time (DISPATCHER_TASK_EXPIRATION).
Task == [by : Producers, n : 1..MaxTasks, expires : BOOLEAN]

ASSUME StopTaskAssumption == StopTask \notin Task

AnyTask == Task \cup {StopTask}

VARIABLES
    threadState,    \* ThreadHolder::threadState
    taskList,       \* Dispatcher::taskList
    tmpTaskList,    \* threadMain's local batch
    worker,         \* where threadMain stands
    signalling,     \* producers between their unlock and their notify_one
    submitted,      \* submitted[p]: addTask calls p has made
    lifecycle,      \* which of stop() and shutdown() have been called
    accepted,       \* history: the tasks pushed on taskList
    handled,        \* history: the tasks taken off the batch and deleted
    executed        \* history: those of them whose function ran

vars == <<threadState, taskList, tmpTaskList, worker, signalling, submitted,
          lifecycle, accepted, handled, executed>>

queueVars == <<taskList, tmpTaskList, accepted, handled, executed>>

TypeOK ==
    /\ threadState \in {"RUNNING", "CLOSING", "TERMINATED"}
    /\ taskList \in Seq(AnyTask)
    /\ tmpTaskList \in Seq(AnyTask)
    /\ worker \in {"checking", "locking", "waiting", "woken", "running", "exited"}
    /\ signalling \in SUBSET Producers
    /\ submitted \in [Producers -> 0..MaxTasks]
    /\ lifecycle \in SUBSET {"stop", "shutdown"}
    /\ accepted \in Seq(AnyTask)
    /\ handled \in Seq(AnyTask)
    /\ executed \in Seq(AnyTask)

\* The state ThreadHolder::start leaves: RUNNING, the thread about to enter its loop.
Init ==
    /\ threadState = "RUNNING"
    /\ taskList = <<>>
    /\ tmpTaskList = <<>>
    /\ worker = "checking"
    /\ signalling = {}
    /\ submitted = [p \in Producers |-> 0]
    /\ lifecycle = {}
    /\ accepted = <<>>
    /\ handled = <<>>
    /\ executed = <<>>

-----------------------------------------------------------------------------
(* The callers.                                                            *)

\* notify_one: it wakes the thread if it is waiting and is lost otherwise.
Notified(w) == IF w = "waiting" THEN "woken" ELSE w


\* Mutant: the caller signals when the list was NOT empty.
PushSignalsLate(p, t) ==
    /\ threadState = "RUNNING"
    /\ taskList' = Append(taskList, t)
    /\ accepted' = Append(accepted, t)
    /\ signalling' = IF taskList # <<>> THEN signalling \cup {p} ELSE signalling

\* Mutant: the state is not tested under the lock.
PushAlways(p, t) ==
    /\ taskList' = Append(taskList, t)
    /\ accepted' = Append(accepted, t)
    /\ signalling' = IF taskList = <<>> THEN signalling \cup {p} ELSE signalling

\* addTask, the locked part, with the thread RUNNING: the task is queued, and
\* the caller will signal only if the list was empty.
Push(p, t) ==
    /\ threadState = "RUNNING"
    /\ taskList' = Append(taskList, t)
    /\ accepted' = Append(accepted, t)
    /\ signalling' = IF taskList = <<>> THEN signalling \cup {p} ELSE signalling

\* addTask, the locked part, otherwise: the task is deleted, unrun.
Refuse ==
    /\ threadState # "RUNNING"
    /\ UNCHANGED <<taskList, accepted, signalling>>

AddTask(p, e) ==
    /\ p \notin signalling
    /\ submitted[p] < MaxTasks
    /\ submitted' = [submitted EXCEPT ![p] = @ + 1]
    /\ \/ Push(p, [by |-> p, n |-> submitted[p] + 1, expires |-> e])
       \/ Refuse
    /\ UNCHANGED <<threadState, tmpTaskList, worker, lifecycle, handled, executed>>

\* addTask, the notify_one after the unlock.
Signal(p) ==
    /\ p \in signalling
    /\ signalling' = signalling \ {p}
    /\ worker' = Notified(worker)
    /\ UNCHANGED <<threadState, queueVars, submitted, lifecycle>>


\* Mutant: stop() leaves the thread accepting.
StopKeepsRunning ==
    /\ lifecycle = {}
    /\ lifecycle' = {"stop"}
    /\ UNCHANGED <<threadState, queueVars, worker, signalling, submitted>>

\* ThreadHolder::stop, from Game::setGameState(GAME_STATE_SHUTDOWN), which
\* runs once and before the task that calls shutdown().
Stop ==
    /\ lifecycle = {}
    /\ lifecycle' = {"stop"}
    /\ threadState' = "CLOSING"
    /\ UNCHANGED <<queueVars, worker, signalling, submitted>>


\* Dispatcher::shutdown, from Game::shutdown after stop(), or from main()
\* without it when no service came up.  It pushes and signals under the lock,
\* whatever the thread's state.
Shutdown ==
    /\ "shutdown" \notin lifecycle
    /\ lifecycle' = lifecycle \cup {"shutdown"}
    /\ taskList' = Append(taskList, StopTask)
    /\ accepted' = Append(accepted, StopTask)
    /\ worker' = Notified(worker)
    /\ UNCHANGED <<threadState, tmpTaskList, signalling, submitted, handled, executed>>

-----------------------------------------------------------------------------
(* The dispatcher thread, Dispatcher::threadMain.                          *)

CheckState ==
    /\ worker = "checking"
    /\ worker' = IF threadState = "TERMINATED" THEN "exited" ELSE "locking"
    /\ UNCHANGED <<threadState, queueVars, signalling, submitted, lifecycle>>

\* The list is empty: the thread releases the lock and waits, atomically.
Wait ==
    /\ worker = "locking"
    /\ taskList = <<>>
    /\ worker' = "waiting"
    /\ UNCHANGED <<threadState, queueVars, signalling, submitted, lifecycle>>

\* A condition variable may also wake its waiter for no reason.
SpuriousWake ==
    /\ worker = "waiting"
    /\ worker' = "woken"
    /\ UNCHANGED <<threadState, queueVars, signalling, submitted, lifecycle>>


\* tmpTaskList.swap(taskList), under the lock.  After a wait the list is not
\* tested again: a spurious wake swaps in an empty batch.
TakeBatch ==
    /\ \/ worker = "locking" /\ taskList # <<>>
       \/ worker = "woken"
    /\ worker' = "running"
    /\ tmpTaskList' = taskList
    /\ taskList' = <<>>
    /\ UNCHANGED <<threadState, signalling, submitted, lifecycle, accepted, handled, executed>>

\* A task is dropped unrun only if it carries an expiration time; by the time
\* its turn comes that time may have passed or not.
MayExpire(t) == t # StopTask /\ t.expires

RunTask ==
    /\ worker = "running"
    /\ tmpTaskList # <<>>
    /\ LET t == Head(tmpTaskList) IN
       /\ \/ /\ executed' = Append(executed, t)
             /\ threadState' = IF t = StopTask THEN "TERMINATED" ELSE threadState
          \/ /\ MayExpire(t)
             /\ UNCHANGED <<executed, threadState>>
       /\ handled' = Append(handled, t)
    /\ tmpTaskList' = Tail(tmpTaskList)
    /\ UNCHANGED <<taskList, worker, signalling, submitted, lifecycle, accepted>>

EndBatch ==
    /\ worker = "running"
    /\ tmpTaskList = <<>>
    /\ worker' = "checking"
    /\ UNCHANGED <<threadState, queueVars, signalling, submitted, lifecycle>>

Worker == CheckState \/ Wait \/ TakeBatch \/ RunTask \/ EndBatch

\* The thread has returned from threadMain, nothing is left for it to do.
Finished ==
    /\ worker = "exited"
    /\ signalling = {}
    /\ UNCHANGED vars

Next ==
    \/ \E p \in Producers, e \in BOOLEAN : AddTask(p, e)
    \/ \E p \in Producers : Signal(p)
    \/ Stop
    \/ Shutdown
    \/ Worker
    \/ SpuriousWake
    \/ Finished

\* The operating system schedules the dispatcher thread and lets a thread that
\* has left the lock reach its notify_one.  Nothing forces a caller to call.
Fairness ==
    /\ WF_vars(Worker)
    /\ \A p \in Producers : WF_vars(Signal(p))

Spec == Init /\ [][Next]_vars /\ Fairness

-----------------------------------------------------------------------------
(* Properties.                                                             *)

\* addTask signals only on the empty-to-nonempty transition, and after the
\* unlock.  That is enough: the thread never sleeps on a non-empty list unless
\* the signal that will wake it is still on its way.
NoLostWakeup ==
    worker = "waiting" /\ taskList # <<>> => signalling # {}

\* Swapping batches loses, repeats and reorders nothing: at every moment the
\* accepted tasks are the handled ones, then the batch, then the list.
NothingLost == accepted = handled \o tmpTaskList \o taskList

\* stop() before shutdown(), as Game does it, makes the stop task the last one
\* of all: when the thread has returned, every accepted task was handled.
DrainedOnExit ==
    worker = "exited" /\ lifecycle = {"stop", "shutdown"} => handled = accepted

\* Every accepted task is handled, unless the thread was told to end first.
EveryTaskHandled ==
    \A k \in 1..(Cardinality(Producers) * MaxTasks + 1) :
        Len(accepted) >= k ~> (Len(handled) >= k \/ worker = "exited")

\* The dispatcher implements the ordered queue of TaskQueue.
Queue == INSTANCE TaskQueue WITH open <- threadState = "RUNNING"
ImplementsQueue == Queue!Spec

=============================================================================

--------------------------- MODULE DatabaseTasks ---------------------------
(***************************************************************************)
(* The asynchronous query queue of src/src/databasetasks.cpp: queries are  *)
(* handed to DatabaseTasks::addTask, one database thread (threadMain)      *)
(* executes them, and the callback of each is posted to the dispatcher.    *)
(* The dispatcher thread ("Game" below) may also drain the queue itself:   *)
(* Game::saveGameState calls flush(), Game::shutdown calls shutdown().     *)
(*                                                                         *)
(* A critical section of taskLock is one action.  The state test of the    *)
(* while loop, the query, the post of its callback and a notify_one after  *)
(* the unlock are outside the lock and are steps of their own.             *)
(***************************************************************************)
EXTENDS Integers, Sequences, FiniteSets

CONSTANTS
    Callers,    \* the threads that call addTask
    Game,       \* the one of them that also calls flush, stop and shutdown
    MaxTasks,   \* bound: addTask calls per caller
    NoTask      \* no query in hand

ASSUME GameAssumption == Game \in Callers
ASSUME MaxTasksAssumption == MaxTasks \in Nat \ {0}

\* The n-th query of a caller.  Every query has a callback here: one without
\* posts nothing, which the properties below cannot tell from a slow post.
Task == [by : Callers, n : 1..MaxTasks]

ASSUME NoTaskAssumption == NoTask \notin Task

VARIABLES
    threadState,    \* ThreadHolder::threadState
    tasks,          \* DatabaseTasks::tasks
    worker,         \* where threadMain stands
    flusher,        \* where the dispatcher thread stands in flush/shutdown
    inHand,         \* the query each of the two threads took off the list
    signalling,     \* callers between their unlock and their notify_one
    submitted,      \* submitted[p]: addTask calls p has made
    mustSave,       \* history: how many queries the last flush found accepted
    accepted,       \* history: the queries put on the list, oldest first
    queried,        \* history: the queries executed, oldest first
    posted          \* history: the queries whose callback was posted

queueVars == <<threadState, tasks, worker, flusher, inHand, signalling, submitted,
               mustSave, accepted, queried, posted>>

Threads == {"worker", "game"}
Queries(seq) == {seq[i] : i \in 1..Len(seq)}

QueueTypeOK ==
    /\ threadState \in {"RUNNING", "CLOSING", "TERMINATED"}
    /\ tasks \in Seq(Task)
    /\ worker \in {"checking", "locking", "waiting", "woken", "querying", "posting", "exited"}
    /\ flusher \in {"idle", "flushing", "querying", "posting", "down"}
    /\ inHand \in [Threads -> Task \cup {NoTask}]
    /\ signalling \in SUBSET Callers
    /\ submitted \in [Callers -> 0..MaxTasks]
    /\ mustSave \in Nat
    /\ accepted \in Seq(Task)
    /\ queried \in Seq(Task)
    /\ posted \in Seq(Task)

\* The state DatabaseTasks::start leaves.
QueueInit ==
    /\ threadState = "RUNNING"
    /\ tasks = <<>>
    /\ worker = "checking"
    /\ flusher = "idle"
    /\ inHand = [t \in Threads |-> NoTask]
    /\ signalling = {}
    /\ submitted = [p \in Callers |-> 0]
    /\ mustSave = 0
    /\ accepted = <<>>
    /\ queried = <<>>
    /\ posted = <<>>

-----------------------------------------------------------------------------
(* addTask.  The dispatcher thread submits only between its other calls.   *)

\* The locked part, with the thread RUNNING.
Push(p, t) ==
    /\ threadState = "RUNNING"
    /\ tasks' = Append(tasks, t)
    /\ accepted' = Append(accepted, t)
    /\ signalling' = IF tasks = <<>> THEN signalling \cup {p} ELSE signalling

\* The locked part, otherwise: the query is dropped without a word.
Refuse ==
    /\ threadState # "RUNNING"
    /\ UNCHANGED <<tasks, accepted, signalling>>

AddTask(p) ==
    /\ p \notin signalling
    /\ p = Game => flusher = "idle"
    /\ submitted[p] < MaxTasks
    /\ submitted' = [submitted EXCEPT ![p] = @ + 1]
    /\ \/ Push(p, [by |-> p, n |-> submitted[p] + 1])
       \/ Refuse
    /\ UNCHANGED <<threadState, worker, flusher, inHand, mustSave, queried, posted>>

Notified(w) == IF w = "waiting" THEN "woken" ELSE w

Signal(p) ==
    /\ p \in signalling
    /\ signalling' = signalling \ {p}
    /\ worker' = Notified(worker)
    /\ UNCHANGED <<threadState, tasks, flusher, inHand, submitted, mustSave, accepted, queried, posted>>

-----------------------------------------------------------------------------
(* runTask, by whichever thread took the query.                            *)

\* Mutant: the query is copied and left on the list.
TakeCopy(t) ==
    /\ tasks # <<>>
    /\ inHand' = [inHand EXCEPT ![t] = Head(tasks)]
    /\ UNCHANGED tasks

Take(t) ==
    /\ tasks # <<>>
    /\ inHand' = [inHand EXCEPT ![t] = Head(tasks)]
    /\ tasks' = Tail(tasks)

\* db.storeQuery or db.executeQuery, under the lock of the connection.
Query(t) == queried' = Append(queried, inHand[t])

\* g_dispatcher.addTask of the callback, after the query and outside any lock.
Post(t) ==
    /\ posted' = Append(posted, inHand[t])
    /\ inHand' = [inHand EXCEPT ![t] = NoTask]

-----------------------------------------------------------------------------
(* The database thread, DatabaseTasks::threadMain.                         *)

unchangedByWorker == <<threadState, flusher, signalling, submitted, mustSave, accepted>>

\* The loop tests the state before it takes the lock.
CheckState ==
    /\ worker = "checking"
    /\ worker' = IF threadState = "TERMINATED" THEN "exited" ELSE "locking"
    /\ UNCHANGED <<unchangedByWorker, tasks, inHand, queried, posted>>

Wait ==
    /\ worker = "locking"
    /\ tasks = <<>>
    /\ worker' = "waiting"
    /\ UNCHANGED <<unchangedByWorker, tasks, inHand, queried, posted>>

\* A condition variable may wake its waiter for no reason.
SpuriousWake ==
    /\ worker = "waiting"
    /\ worker' = "woken"
    /\ UNCHANGED <<unchangedByWorker, tasks, inHand, queried, posted>>

\* One query is popped per turn.
WorkerTake ==
    /\ worker \in {"locking", "woken"}
    /\ Take("worker")
    /\ worker' = "querying"
    /\ UNCHANGED <<unchangedByWorker, queried, posted>>

\* Woken and the list is empty: the loop starts over.
FalseAlarm ==
    /\ worker = "woken"
    /\ tasks = <<>>
    /\ worker' = "checking"
    /\ UNCHANGED <<unchangedByWorker, tasks, inHand, queried, posted>>

WorkerQuery ==
    /\ worker = "querying"
    /\ Query("worker")
    /\ worker' = "posting"
    /\ UNCHANGED <<unchangedByWorker, tasks, inHand, posted>>

WorkerPost ==
    /\ worker = "posting"
    /\ Post("worker")
    /\ worker' = "checking"
    /\ UNCHANGED <<unchangedByWorker, tasks, queried>>

Worker == CheckState \/ Wait \/ WorkerTake \/ FalseAlarm \/ WorkerQuery \/ WorkerPost

-----------------------------------------------------------------------------
(* The dispatcher thread in flush() and shutdown().                        *)

unchangedByGame == <<signalling, submitted, accepted>>

\* Game::saveGameState calls flush().
BeginFlush ==
    /\ flusher = "idle"
    /\ Game \notin signalling
    /\ threadState # "TERMINATED"
    /\ flusher' = "flushing"
    /\ mustSave' = Len(accepted)
    /\ UNCHANGED <<unchangedByGame, threadState, tasks, worker, inHand, queried, posted>>

FlushTake ==
    /\ flusher = "flushing"
    /\ Take("game")
    /\ flusher' = "querying"
    /\ UNCHANGED <<unchangedByGame, threadState, worker, mustSave, queried, posted>>

FlushQuery ==
    /\ flusher = "querying"
    /\ Query("game")
    /\ flusher' = "posting"
    /\ UNCHANGED <<unchangedByGame, threadState, tasks, worker, inHand, mustSave, posted>>

FlushPost ==
    /\ flusher = "posting"
    /\ Post("game")
    /\ flusher' = "flushing"
    /\ UNCHANGED <<unchangedByGame, threadState, tasks, worker, mustSave, queried>>

EndFlush ==
    /\ flusher = "flushing"
    /\ threadState # "TERMINATED"
    /\ tasks = <<>>
    /\ flusher' = "idle"
    /\ UNCHANGED <<unchangedByGame, threadState, tasks, worker, inHand, mustSave, queried, posted>>

\* ThreadHolder::stop, once, from Game::setGameState(GAME_STATE_SHUTDOWN).
Stop ==
    /\ flusher = "idle"
    /\ threadState = "RUNNING"
    /\ threadState' = "CLOSING"
    /\ UNCHANGED <<unchangedByGame, tasks, worker, flusher, inHand, mustSave, queried, posted>>

\* shutdown(): the state is set under the lock, the list is flushed, and the
\* database thread is signalled last.
BeginShutdown ==
    /\ flusher = "idle"
    /\ Game \notin signalling
    /\ threadState # "TERMINATED"
    /\ threadState' = "TERMINATED"
    /\ flusher' = "flushing"
    /\ mustSave' = Len(accepted)
    /\ UNCHANGED <<unchangedByGame, tasks, worker, inHand, queried, posted>>

\* Mutant: shutdown() ends after one pass, whatever is on the list by then.
EndShutdownEarly ==
    /\ flusher = "flushing"
    /\ threadState = "TERMINATED"
    /\ flusher' = "down"
    /\ worker' = Notified(worker)
    /\ UNCHANGED <<unchangedByGame, threadState, tasks, inHand, mustSave, queried, posted>>

EndShutdown ==
    /\ flusher = "flushing"
    /\ threadState = "TERMINATED"
    /\ tasks = <<>>
    /\ flusher' = "down"
    /\ worker' = Notified(worker)
    /\ UNCHANGED <<unchangedByGame, threadState, tasks, inHand, mustSave, queried, posted>>

\* What the dispatcher thread does once it is inside flush() or shutdown().
Draining == FlushTake \/ FlushQuery \/ FlushPost \/ EndFlush \/ EndShutdown

QueueNext ==
    \/ \E p \in Callers : AddTask(p)
    \/ \E p \in Callers : Signal(p)
    \/ Worker
    \/ SpuriousWake
    \/ BeginFlush
    \/ Stop
    \/ BeginShutdown
    \/ Draining

\* Threads are scheduled and the database answers; nobody has to call.
QueueFairness ==
    /\ WF_queueVars(Worker)
    /\ WF_queueVars(Draining)
    /\ \A p \in Callers : WF_queueVars(Signal(p))

QueueSpec == QueueInit /\ [][QueueNext]_queueVars /\ QueueFairness

-----------------------------------------------------------------------------
(* Properties.                                                             *)

\* The queries a thread took off the list and has not executed yet.
Unexecuted ==
    (IF worker = "querying" THEN {inHand["worker"]} ELSE {}) \cup
    (IF flusher = "querying" THEN {inHand["game"]} ELSE {})

\* flush() breaks the order of the queue in one way only: a query can be
\* executed, or its callback posted, before an older one only while a thread
\* has the older one in hand.
OvertakenOnlyInHand ==
    \A i, j \in 1..Len(accepted) : i < j =>
        /\ accepted[j] \in Queries(queried) =>
              accepted[i] \in Queries(queried) \cup Unexecuted
        /\ accepted[j] \in Queries(posted) =>
              accepted[i] \in Queries(posted) \cup {inHand[t] : t \in Threads}

\* Two threads drain the list: each accepted query is executed exactly once all
\* the same, or is still on the list or in the hand of one of them, and none is
\* overtaken but so.
ExecutedOnce ==
    /\ Queries(accepted) = Queries(queried) \cup Queries(tasks) \cup Unexecuted
    /\ Len(accepted) = Len(queried) + Len(tasks) + Cardinality(Unexecuted)
    /\ OvertakenOnlyInHand

\* Every accepted query is executed in the end, shutdown or not.
EveryQueryRuns ==
    \A k \in 1..(Cardinality(Callers) * MaxTasks) :
        Len(accepted) >= k ~> Len(queried) >= k

=============================================================================

------------------------------ MODULE Database ------------------------------
(***************************************************************************)
(* The database connection of the game, src/src/database.cpp, shared by    *)
(* the dispatcher thread ("game"), which saves in transactions, and the    *)
(* network thread ("net"), which queries accounts and bans during login.   *)
(* A save is what IOLoginData::savePlayer, Game::saveAccountStorageValues  *)
(* and IOMapSerialize do: a DBTransaction around several statements.       *)
(*                                                                         *)
(* The MySQL session is external: autocommit outside a transaction, the    *)
(* open transaction undone when the connection is lost, and                *)
(* MYSQL_OPT_RECONNECT, which gives up once in the midst of a transaction  *)
(* and reconnects at the next attempt.                                     *)
(***************************************************************************)
EXTENDS Integers, FiniteSets

CONSTANTS
    Statements,     \* how many statements a save has
    Ignored,        \* those whose failure savePlayer does not look at
    MaxSaves,       \* bound: saves of the dispatcher thread
    MaxQueries,     \* bound: queries of the network thread
    MaxLosses       \* bound: how often the connection is lost

ASSUME StatementsAssumption == Statements \in Nat \ {0} /\ Ignored \subseteq 1..Statements
ASSUME BoundsAssumption == MaxSaves \in Nat /\ MaxQueries \in Nat /\ MaxLosses \in Nat

Thread == {"game", "net"}
Save == 1..MaxSaves
Write == Save \X (1..Statements)

VARIABLES
    lock,       \* Database::databaseLock: its owner and how often it locked
    game,       \* where the dispatcher thread stands in its save
    save,       \* the save it works on
    statement,  \* the statement of the save that is next
    result,     \* what each save returned
    net,        \* where the network thread stands in its query
    queries,    \* how many queries it made
    open,       \* server: a transaction is open
    inTrans,    \* client library: it believes so
    lost,       \* the connection is lost, and nobody has noticed
    losses,     \* how often it was
    disturbed,  \* history: the saves during which it was
    pending,    \* server: writes of the open transaction
    stored      \* server: writes that are committed

server == <<open, inTrans, lost, losses, disturbed, pending, stored>>
vars == <<lock, game, save, statement, result, net, queries, server>>

TypeOK ==
    /\ lock \in [owner : Thread \cup {"nobody"}, depth : 0..2]
    /\ lock.owner = "nobody" <=> lock.depth = 0
    /\ game \in {"idle", "beginning", "refused", "locking", "writing", "rollingback"}
    /\ save \in 0..MaxSaves
    /\ statement \in 1..Statements + 1
    /\ result \in [Save -> {"none", "saved", "failed"}]
    /\ net \in {"idle", "querying"}
    /\ queries \in 0..MaxQueries
    /\ open \in BOOLEAN /\ inTrans \in BOOLEAN /\ lost \in BOOLEAN
    /\ losses \in 0..MaxLosses
    /\ disturbed \in SUBSET Save
    /\ pending \in SUBSET Write
    /\ stored \in SUBSET Write

Init ==
    /\ lock = [owner |-> "nobody", depth |-> 0]
    /\ game = "idle" /\ save = 0 /\ statement = 1
    /\ result = [s \in Save |-> "none"]
    /\ net = "idle" /\ queries = 0
    /\ open = FALSE /\ inTrans = FALSE /\ lost = FALSE /\ losses = 0 /\ disturbed = {}
    /\ pending = {} /\ stored = {}

-----------------------------------------------------------------------------
(* The recursive mutex.                                                    *)

CanLock(t) == lock.owner \in {t, "nobody"}
Lock(t) == lock' = [owner |-> t, depth |-> lock.depth + 1]

\* Unlocking a mutex that another thread owns, or nobody, is undefined: glibc
\* refuses it, and the code does not look at the answer.
Unlock(t) ==
    IF lock.owner # t THEN UNCHANGED lock
    ELSE lock' = IF lock.depth = 1 THEN [owner |-> "nobody", depth |-> 0]
                 ELSE [lock EXCEPT !.depth = @ - 1]

-----------------------------------------------------------------------------
(* The MySQL session.                                                      *)

\* A statement on a lost connection is repeated until it is sent anew, outside
\* any transaction: executeQuery's loop.
Reconnected == open' = FALSE /\ inTrans' = FALSE /\ lost' = FALSE

Lose ==
    /\ losses' = losses + 1
    /\ disturbed' = IF game = "idle" THEN disturbed ELSE disturbed \cup {save}

LoseConnection ==
    /\ losses < MaxLosses
    /\ Lose
    /\ lost' = TRUE
    /\ open' = FALSE
    /\ pending' = {}
    /\ UNCHANGED <<lock, game, save, statement, result, net, queries, inTrans, stored>>

\* BEGIN commits a transaction left open.
StartTransaction ==
    /\ open' = TRUE /\ inTrans' = TRUE /\ lost' = FALSE
    /\ stored' = stored \cup pending
    /\ pending' = {}
    /\ UNCHANGED <<losses, disturbed>>

Store(w) ==
    /\ IF lost THEN Reconnected ELSE UNCHANGED <<open, inTrans, lost>>
    /\ IF open THEN pending' = pending \cup {w} /\ UNCHANGED stored
       ELSE stored' = stored \cup {w} /\ UNCHANGED pending
    /\ UNCHANGED <<losses, disturbed>>

\* mysql_commit fails if the client believes a lost transaction open, or if the
\* connection is lost after the server has committed.
CommitTransaction(ok) ==
    /\ stored' = stored \cup pending
    /\ pending' = {}
    /\ open' = FALSE /\ inTrans' = FALSE
    /\ \/ (ok <=> ~(lost /\ inTrans)) /\ lost' = FALSE /\ UNCHANGED <<losses, disturbed>>
       \/ ~ok /\ losses < MaxLosses /\ lost' = TRUE /\ Lose

RollbackTransaction ==
    /\ pending' = {}
    /\ open' = FALSE /\ inTrans' = FALSE
    /\ lost' = FALSE
    /\ UNCHANGED <<losses, disturbed, stored>>

-----------------------------------------------------------------------------
(* The dispatcher thread: a save.                                          *)

\* DBTransaction::begin, beginTransaction: BEGIN runs under a lock of its own,
Begin ==
    /\ game = "idle" /\ save < MaxSaves
    /\ CanLock("game") /\ Lock("game")
    /\ game' = "beginning"
    /\ save' = save + 1
    /\ statement' = 1
    /\ UNCHANGED <<result, net, queries, server>>

\* ... which is given back before the lock of the transaction is taken.  The
\* server may refuse it.
Began ==
    /\ game = "beginning"
    /\ Unlock("game")
    /\ \/ game' = "locking" /\ StartTransaction
       \/ game' = "refused" /\ UNCHANGED server
    /\ UNCHANGED <<save, statement, result, net, queries>>

\* Mutant: the transaction does not hold the lock.
NoLockForTransaction ==
    /\ game = "locking"
    /\ game' = "writing"
    /\ UNCHANGED <<lock, save, statement, result, net, queries, server>>
LockTransaction ==
    /\ game = "locking"
    /\ CanLock("game") /\ Lock("game")
    /\ game' = "writing"
    /\ UNCHANGED <<save, statement, result, net, queries, server>>

\* Mutant: a statement that fails does not end the save.
NeverFatal(i) == FALSE
\* Whether a statement that fails makes the save return.
Fatal(i) == i \notin Ignored

\* executeQuery of the next statement, with the lock taken once more meanwhile.
ExecuteQuery ==
    /\ game = "writing" /\ statement <= Statements
    /\ CanLock("game")
    /\ \/ /\ Store(<<save, statement>>)
          /\ statement' = statement + 1
          /\ UNCHANGED game
       \/ /\ statement' = statement + 1
          /\ game' = IF Fatal(statement) THEN "rollingback" ELSE "writing"
          /\ IF lost THEN Reconnected ELSE UNCHANGED <<open, inTrans, lost>>
          /\ UNCHANGED <<losses, disturbed, pending, stored>>
    /\ UNCHANGED <<lock, save, result, net, queries>>

\* Mutant: a commit that fails keeps the lock.
CommitKeepsLock ==
    /\ game = "writing" /\ statement > Statements
    /\ game' = "idle"
    /\ \E ok \in BOOLEAN :
        /\ CommitTransaction(ok)
        /\ IF ok THEN Unlock("game") ELSE UNCHANGED lock
        /\ result' = [result EXCEPT ![save] = IF ok THEN "saved" ELSE "failed"]
    /\ UNCHANGED <<save, statement, net, queries>>
\* DBTransaction::commit: the lock is given back whatever the outcome.
Commit ==
    /\ game = "writing" /\ statement > Statements
    /\ game' = "idle"
    /\ \E ok \in BOOLEAN :
        /\ CommitTransaction(ok)
        /\ result' = [result EXCEPT ![save] = IF ok THEN "saved" ELSE "failed"]
    /\ Unlock("game")
    /\ UNCHANGED <<save, statement, net, queries>>

\* Mutant: the destructor only gives the lock back.
DestructorUnlocks ==
    /\ game \in {"refused", "rollingback"}
    /\ game' = "idle"
    /\ Unlock("game")
    /\ result' = [result EXCEPT ![save] = "failed"]
    /\ UNCHANGED <<save, statement, net, queries, server>>
\* ~DBTransaction: rollback, also after a refused BEGIN, when nothing is locked.
Rollback ==
    /\ game \in {"refused", "rollingback"}
    /\ game' = "idle"
    /\ RollbackTransaction
    /\ Unlock("game")
    /\ result' = [result EXCEPT ![save] = "failed"]
    /\ UNCHANGED <<save, statement, net, queries>>

-----------------------------------------------------------------------------
(* The network thread: storeQuery.                                         *)

NetQuery ==
    /\ net = "idle" /\ queries < MaxQueries
    /\ CanLock("net") /\ Lock("net")
    /\ net' = "querying"
    /\ queries' = queries + 1
    /\ UNCHANGED <<game, save, statement, result, server>>

NetAnswer ==
    /\ net = "querying"
    /\ net' = "idle"
    /\ IF lost THEN Reconnected ELSE UNCHANGED <<open, inTrans, lost>>
    /\ Unlock("net")
    /\ UNCHANGED <<game, save, statement, result, queries, losses, disturbed, pending, stored>>

Next ==
    \/ Begin \/ Began \/ LockTransaction \/ ExecuteQuery \/ Commit \/ Rollback
    \/ NetQuery \/ NetAnswer \/ LoseConnection

\* Both threads go on, and the mutex is fair to a thread that waits for it.
Fairness ==
    /\ WF_vars(Began) /\ WF_vars(ExecuteQuery) /\ WF_vars(Commit) /\ WF_vars(Rollback)
    /\ SF_vars(LockTransaction)
    /\ SF_vars(NetQuery) /\ WF_vars(NetAnswer)

Spec == Init /\ [][Next]_vars /\ Fairness

-----------------------------------------------------------------------------
(* Properties.                                                             *)

\* No query of another thread falls between the writes of a save, and none sees
\* a save half done (one may fall between BEGIN and the first write).
WritesTogether == pending # {} => net # "querying"

\* A save that returned false left nothing in the database, and nothing there
\* that a later save commits; unless the connection was lost during the save.
FailedLeavesNothing ==
    \A w \in stored : result[w[1]] = "failed" => w[1] \in disturbed

\* A save that returned true stored every statement but those whose failure it
\* ignores (database.h:115: commit returns "true on success, false on error");
\* unless the connection was lost during the save.  What is lost before or
\* after does no harm.
SavedIsStored ==
    \A s \in Save \ disturbed : result[s] = "saved" =>
        \A i \in (1..Statements) \ Ignored : <<s, i>> \in stored

\* Every query of the network thread is made: no save keeps the lock for ever.
QueriesMade == <>(queries = MaxQueries)

=============================================================================

--------------------------- MODULE DatabaseProofs ---------------------------
(***************************************************************************)
(* Proofs about Database, for any number of statements, saves, queries and *)
(* losses.  Inv says, beside the types, which thread has the mutex at each *)
(* place, and where the writes of a save are until it returns: in the open *)
(* transaction, unless the connection was lost.                            *)
(*                                                                         *)
(* The second half is about DatabaseTasks, for any set of callers and any  *)
(* number of queries; its specification and invariant are QueueSpec and    *)
(* QueueInv.                                                               *)
(***************************************************************************)
EXTENDS Database, DatabaseTasks, SequenceTheorems, FiniteSetTheorems, TLAPS

\* The mutex is held where the code believes so, but for a rollback after a
\* refused BEGIN, and never twice between the steps.
LockHeld ==
    /\ lock.depth < 2
    /\ lock.owner = "game" <=> game \in {"beginning", "writing", "rollingback"}
    /\ lock.owner = "net" <=> net = "querying"

\* The open transaction has writes of the save under way only.
PendingIsSave ==
    \A w \in pending : w[1] = save /\ game \in {"writing", "rollingback"}

\* The saves to come have written nothing and returned nothing.
FutureUntouched ==
    /\ \A w \in stored : w[1] <= save
    /\ \A s \in Save : s > save => s \notin disturbed /\ result[s] = "none"
    /\ game # "idle" => save \in Save /\ result[save] = "none"

\* A save begins with its first statement.
FirstStatement == game \in {"beginning", "locking"} => statement = 1

\* As long as the connection holds, a save has its writes in the transaction.
SaveInTransaction ==
    game # "idle" /\ save \notin disturbed =>
        /\ game \in {"locking", "writing", "rollingback"} => open /\ inTrans /\ ~lost
        /\ \A w \in stored : w[1] # save
        /\ game = "writing" =>
            \A i \in (1..Statements) \ Ignored : i < statement => <<save, i>> \in pending

Inv ==
    /\ TypeOK
    /\ LockHeld
    /\ PendingIsSave
    /\ FutureUntouched
    /\ FirstStatement
    /\ SaveInTransaction
    /\ FailedLeavesNothing
    /\ SavedIsStored

-----------------------------------------------------------------------------

LEMMA InitInv == Init => Inv
<1>. SUFFICES ASSUME Init PROVE Inv
  OBVIOUS
<1>1. TypeOK
  <2>1. lock \in [owner : Thread \cup {"nobody"}, depth : 0..2] /\ lock.owner = "nobody" /\ lock.depth = 0
    BY DEF Init
  <2>2. result \in [Save -> {"none", "saved", "failed"}]
    BY DEF Init
  <2>3. statement \in 1..Statements + 1 /\ save \in 0..MaxSaves
    BY StatementsAssumption, BoundsAssumption DEF Init
  <2>4. queries \in 0..MaxQueries /\ losses \in 0..MaxLosses
    BY BoundsAssumption DEF Init
  <2>. QED
    BY <2>1, <2>2, <2>3, <2>4 DEF Init, TypeOK
<1>2. LockHeld
  BY DEF Init, LockHeld
<1>3. PendingIsSave /\ FutureUntouched /\ FirstStatement /\ SaveInTransaction
  BY DEF Init, PendingIsSave, FutureUntouched, FirstStatement, SaveInTransaction
<1>4. FailedLeavesNothing /\ SavedIsStored
  BY DEF Init, FailedLeavesNothing, SavedIsStored
<1>. QED
  BY <1>1, <1>2, <1>3, <1>4 DEF Inv

(* The mutex.                                                              *)

\* Unlocking gives back what the thread holds, and does nothing otherwise.
LEMMA UnlockOwn ==
    ASSUME NEW t \in Thread, Unlock(t),
           lock \in [owner : Thread \cup {"nobody"}, depth : 0..2],
           lock.owner = t, lock.owner = "nobody" <=> lock.depth = 0, lock.depth < 2
    PROVE  lock' = [owner |-> "nobody", depth |-> 0]
<1>1. lock.depth = 1
  BY DEF Thread
<1>. QED
  BY <1>1 DEF Unlock

LEMMA UnlockOther ==
    ASSUME NEW t \in Thread, Unlock(t), lock.owner # t
    PROVE  lock' = lock
BY DEF Unlock

\* Locking a free mutex.
LEMMA LockFree ==
    ASSUME NEW t \in Thread, CanLock(t), Lock(t), lock.owner # t,
           lock \in [owner : Thread \cup {"nobody"}, depth : 0..2],
           lock.owner = "nobody" <=> lock.depth = 0
    PROVE  lock' = [owner |-> t, depth |-> 1]
BY DEF CanLock, Lock

LockInv ==
    /\ lock \in [owner : Thread \cup {"nobody"}, depth : 0..2]
    /\ lock.owner = "nobody" <=> lock.depth = 0
    /\ LockHeld

\* Whoever holds the mutex is at a place where it should.
LEMMA LockStep == TypeOK /\ LockHeld /\ [Next]_vars => LockInv'
<1>. SUFFICES ASSUME TypeOK, LockHeld, [Next]_vars PROVE LockInv'
  OBVIOUS
<1>0. LockInv /\ "game" \in Thread /\ "net" \in Thread
  BY DEF LockInv, TypeOK, Thread
<1>1. CASE Begin
  <2>1. lock' = [owner |-> "game", depth |-> 1]
    BY <1>0, <1>1, LockFree DEF Begin, LockInv, LockHeld
  <2>. QED
    BY <1>0, <1>1, <2>1 DEF Begin, LockInv, LockHeld, CanLock, Thread
<1>2. CASE Began
  <2>1. lock' = [owner |-> "nobody", depth |-> 0]
    BY <1>0, <1>2, UnlockOwn DEF Began, LockInv, LockHeld
  <2>. QED
    BY <1>0, <1>2, <2>1 DEF Began, LockInv, LockHeld, Thread
<1>3. CASE LockTransaction
  <2>1. lock' = [owner |-> "game", depth |-> 1]
    BY <1>0, <1>3, LockFree DEF LockTransaction, LockInv, LockHeld
  <2>. QED
    BY <1>0, <1>3, <2>1 DEF LockTransaction, LockInv, LockHeld, CanLock, Thread
<1>4. CASE ExecuteQuery
  BY <1>0, <1>4 DEF ExecuteQuery, LockInv, LockHeld
<1>5. CASE Commit
  <2>1. lock' = [owner |-> "nobody", depth |-> 0]
    BY <1>0, <1>5, UnlockOwn DEF Commit, LockInv, LockHeld
  <2>. QED
    BY <1>0, <1>5, <2>1 DEF Commit, LockInv, LockHeld, Thread
<1>6. CASE Rollback
  <2>1. CASE game = "rollingback"
    <3>1. lock' = [owner |-> "nobody", depth |-> 0]
      BY <1>0, <1>6, <2>1, UnlockOwn DEF Rollback, LockInv, LockHeld
    <3>. QED
      BY <1>0, <1>6, <2>1, <3>1 DEF Rollback, LockInv, LockHeld, Thread
  <2>2. CASE game = "refused"
    <3>1. lock' = lock
      BY <1>0, <1>6, <2>2, UnlockOther DEF Rollback, LockInv, LockHeld
    <3>. QED
      BY <1>0, <1>6, <2>2, <3>1 DEF Rollback, LockInv, LockHeld
  <2>. QED
    BY <1>6, <2>1, <2>2 DEF Rollback
<1>7. CASE NetQuery
  <2>1. lock' = [owner |-> "net", depth |-> 1]
    BY <1>0, <1>7, LockFree DEF NetQuery, LockInv, LockHeld
  <2>. QED
    BY <1>0, <1>7, <2>1 DEF NetQuery, LockInv, LockHeld, CanLock, Thread
<1>8. CASE NetAnswer
  <2>1. lock' = [owner |-> "nobody", depth |-> 0]
    BY <1>0, <1>8, UnlockOwn DEF NetAnswer, LockInv, LockHeld
  <2>. QED
    BY <1>0, <1>8, <2>1 DEF NetAnswer, LockInv, LockHeld, Thread
<1>9. CASE LoseConnection
  BY <1>0, <1>9 DEF LoseConnection, LockInv, LockHeld
<1>10. CASE UNCHANGED vars
  BY <1>0, <1>10 DEF vars, LockInv, LockHeld
<1>. QED
  BY <1>1, <1>2, <1>3, <1>4, <1>5, <1>6, <1>7, <1>8, <1>9, <1>10 DEF Next

-----------------------------------------------------------------------------
(* The types of everything else.                                           *)

SaveUnderWay == game # "idle" => save \in Save

LEMMA SaveUnderWayStep == TypeOK /\ SaveUnderWay /\ [Next]_vars => SaveUnderWay'
BY BoundsAssumption
DEF TypeOK, SaveUnderWay, Save, Next, vars, Begin, Began, LockTransaction, ExecuteQuery, Commit,
    Rollback, NetQuery, NetAnswer, LoseConnection

LEMMA TypeStep == TypeOK /\ LockHeld /\ SaveUnderWay /\ [Next]_vars => TypeOK'
<1>. SUFFICES ASSUME TypeOK, LockHeld, SaveUnderWay, [Next]_vars PROVE TypeOK'
  OBVIOUS
<1>0. LockInv'
  BY LockStep
<1>. USE StatementsAssumption, BoundsAssumption, <1>0 DEF TypeOK, LockInv
<1>1. CASE Begin
  BY <1>1 DEF Begin, server
<1>2. CASE Began
  BY <1>2 DEF Began, StartTransaction, server
<1>3. CASE LockTransaction
  BY <1>3 DEF LockTransaction, server
<1>4. CASE ExecuteQuery
  <2>1. game' \in {"writing", "rollingback"} /\ statement' \in 1..Statements + 1
    BY <1>4 DEF ExecuteQuery
  <2>2. <<save, statement>> \in Write
    BY <1>4 DEF ExecuteQuery, SaveUnderWay, Write
  <2>3. pending' \in SUBSET Write /\ stored' \in SUBSET Write
    BY <1>4, <2>2 DEF ExecuteQuery, Store
  <2>4. open' \in BOOLEAN /\ inTrans' \in BOOLEAN /\ lost' \in BOOLEAN
    BY <1>4 DEF ExecuteQuery, Store, Reconnected
  <2>. QED
    BY <1>4, <2>1, <2>3, <2>4 DEF ExecuteQuery, Store
<1>5. CASE Commit
  <2>1. PICK ok \in BOOLEAN :
            /\ CommitTransaction(ok)
            /\ result' = [result EXCEPT ![save] = IF ok THEN "saved" ELSE "failed"]
    BY <1>5 DEF Commit
  <2>2. result' \in [Save -> {"none", "saved", "failed"}]
    BY <2>1
  <2>3. losses' \in 0..MaxLosses /\ disturbed' \in SUBSET Save
    BY <1>5, <2>1 DEF Commit, CommitTransaction, Lose, SaveUnderWay
  <2>4. pending' \in SUBSET Write /\ stored' \in SUBSET Write
    BY <2>1 DEF CommitTransaction
  <2>5. open' \in BOOLEAN /\ inTrans' \in BOOLEAN /\ lost' \in BOOLEAN
    BY <2>1 DEF CommitTransaction
  <2>. QED
    BY <1>5, <2>2, <2>3, <2>4, <2>5 DEF Commit
<1>6. CASE Rollback
  BY <1>6 DEF Rollback, RollbackTransaction
<1>7. CASE NetQuery
  BY <1>7 DEF NetQuery, server
<1>8. CASE NetAnswer
  BY <1>8 DEF NetAnswer, Reconnected
<1>9. CASE LoseConnection
  <2>1. losses' \in 0..MaxLosses
    BY <1>9 DEF LoseConnection, Lose
  <2>2. disturbed' \in SUBSET Save
    BY <1>9 DEF LoseConnection, Lose, SaveUnderWay
  <2>. QED
    BY <1>9, <2>1, <2>2 DEF LoseConnection
<1>10. CASE UNCHANGED vars
  BY <1>10 DEF vars, server
<1>. QED
  BY <1>1, <1>2, <1>3, <1>4, <1>5, <1>6, <1>7, <1>8, <1>9, <1>10 DEF Next

-----------------------------------------------------------------------------
(* The writes of a save.                                                   *)

\* Only a save that writes has something in the transaction.
LEMMA PendingStep == Inv /\ [Next]_vars => PendingIsSave'
<1>. SUFFICES ASSUME Inv, [Next]_vars PROVE PendingIsSave'
  OBVIOUS
<1>. USE DEF Inv, PendingIsSave
<1>1. CASE Begin
  <2>1. pending = {} /\ pending' = pending
    BY <1>1 DEF Begin, server
  <2>. QED
    BY <2>1
<1>2. CASE Began
  <2>1. pending = {}
    BY <1>2 DEF Began
  <2>2. pending' = {}
    BY <1>2, <2>1 DEF Began, StartTransaction, server
  <2>. QED
    BY <2>2
<1>3. CASE LockTransaction
  BY <1>3 DEF LockTransaction, server
<1>4. CASE ExecuteQuery
  <2>1. game' \in {"writing", "rollingback"} /\ save' = save
    BY <1>4 DEF ExecuteQuery
  <2>2. pending' \subseteq pending \cup {<<save, statement>>}
    BY <1>4 DEF ExecuteQuery, Store
  <2>. QED
    BY <2>1, <2>2
<1>5. CASE Commit
  BY <1>5 DEF Commit, CommitTransaction
<1>6. CASE Rollback
  BY <1>6 DEF Rollback, RollbackTransaction
<1>7. CASE NetQuery
  BY <1>7 DEF NetQuery, server
<1>8. CASE NetAnswer
  BY <1>8 DEF NetAnswer
<1>9. CASE LoseConnection
  BY <1>9 DEF LoseConnection
<1>10. CASE UNCHANGED vars
  BY <1>10 DEF vars, server
<1>. QED
  BY <1>1, <1>2, <1>3, <1>4, <1>5, <1>6, <1>7, <1>8, <1>9, <1>10 DEF Next

\* A save that has not begun leaves no trace.
LEMMA FutureStep == Inv /\ [Next]_vars => FutureUntouched'
<1>. SUFFICES ASSUME Inv, [Next]_vars PROVE FutureUntouched'
  OBVIOUS
<1>. USE BoundsAssumption DEF Inv, FutureUntouched, Save
<1>0. save \in 0..MaxSaves /\ (\A w \in stored : w[1] \in Save) /\ (\A w \in pending : w[1] = save)
      /\ result \in [Save -> {"none", "saved", "failed"}]
  BY DEF TypeOK, Write, PendingIsSave
<1>1. CASE Begin
  <2>1. save' = save + 1 /\ save' \in Save
    BY <1>0, <1>1 DEF Begin
  <2>2. stored' = stored /\ disturbed' = disturbed /\ result' = result
    BY <1>1 DEF Begin, server
  <2>. QED
    BY <1>0, <2>1, <2>2
<1>2. CASE Began
  <2>1. game # "idle" /\ save' = save /\ result' = result /\ disturbed' = disturbed
    BY <1>2 DEF Began, StartTransaction, server
  <2>2. stored' \subseteq stored \cup pending
    BY <1>2 DEF Began, StartTransaction, server
  <2>. QED
    BY <1>0, <2>1, <2>2
<1>3. CASE LockTransaction
  BY <1>3 DEF LockTransaction, server
<1>4. CASE ExecuteQuery
  <2>1. game # "idle" /\ save' = save /\ result' = result /\ disturbed' = disturbed
    BY <1>4 DEF ExecuteQuery, Store
  <2>2. stored' \subseteq stored \cup {<<save, statement>>}
    BY <1>4 DEF ExecuteQuery, Store
  <2>3. \A w \in stored' : w[1] <= save
    BY <1>0, <2>2
  <2>. QED
    BY <2>1, <2>3
<1>5. CASE Commit
  <2>1. game # "idle" /\ game' = "idle" /\ save' = save
    BY <1>5 DEF Commit
  <2>2. stored' = stored \cup pending
    BY <1>5 DEF Commit, CommitTransaction
  <2>3. disturbed' \subseteq disturbed \cup {save}
    BY <1>5 DEF Commit, CommitTransaction, Lose
  <2>4. \A s \in Save : s # save => result'[s] = result[s]
    BY <1>0, <1>5 DEF Commit
  <2>. QED
    BY <1>0, <2>1, <2>2, <2>3, <2>4
<1>6. CASE Rollback
  <2>1. game # "idle" /\ game' = "idle" /\ save' = save
    BY <1>6 DEF Rollback
  <2>2. stored' = stored /\ disturbed' = disturbed
    BY <1>6 DEF Rollback, RollbackTransaction
  <2>3. \A s \in Save : s # save => result'[s] = result[s]
    BY <1>0, <1>6 DEF Rollback
  <2>. QED
    BY <1>0, <2>1, <2>2, <2>3
<1>7. CASE NetQuery
  BY <1>7 DEF NetQuery, server
<1>8. CASE NetAnswer
  BY <1>8 DEF NetAnswer
<1>9. CASE LoseConnection
  <2>1. game' = game /\ save' = save /\ result' = result /\ stored' = stored
    BY <1>9 DEF LoseConnection
  <2>2. disturbed' \subseteq disturbed \cup {save}
    BY <1>9 DEF LoseConnection, Lose
  <2>. QED
    BY <1>0, <2>1, <2>2
<1>10. CASE UNCHANGED vars
  BY <1>10 DEF vars, server
<1>. QED
  BY <1>1, <1>2, <1>3, <1>4, <1>5, <1>6, <1>7, <1>8, <1>9, <1>10 DEF Next

LEMMA FirstStep == FirstStatement /\ [Next]_vars => FirstStatement'
BY DEF FirstStatement, Next, vars, Begin, Began, LockTransaction, ExecuteQuery, Commit, Rollback,
   NetQuery, NetAnswer, LoseConnection

\* While the connection holds, a save writes into its transaction.
LEMMA TransactionStep == Inv /\ [Next]_vars => SaveInTransaction'
<1>. SUFFICES ASSUME Inv, [Next]_vars PROVE SaveInTransaction'
  OBVIOUS
<1>. USE DEF Inv, SaveInTransaction
<1>0. /\ save \in Nat /\ statement \in 1..Statements + 1
      /\ \A w \in stored : w[1] \in Nat /\ w[1] <= save
      /\ \A w \in pending : w[1] = save /\ game \in {"writing", "rollingback"}
  BY BoundsAssumption DEF TypeOK, Write, Save, FutureUntouched, PendingIsSave
<1>1. CASE Begin
  <2>1. save' = save + 1 /\ stored' = stored /\ game' = "beginning"
    BY <1>1 DEF Begin, server
  <2>2. \A w \in stored' : w[1] # save'
    BY <1>0, <2>1
  <2>. QED
    BY <2>1, <2>2
<1>2. CASE Began
  <2>1. game = "beginning" /\ save' = save /\ disturbed' = disturbed
    BY <1>2 DEF Began, StartTransaction, server
  <2>2. pending = {} /\ stored' = stored
    BY <1>0, <1>2, <2>1 DEF Began, StartTransaction, server
  <2>3. (game' = "locking" /\ open' = TRUE /\ inTrans' = TRUE /\ lost' = FALSE) \/ game' = "refused"
    BY <1>2 DEF Began, StartTransaction
  <2>. QED
    BY <2>1, <2>2, <2>3
<1>3. CASE LockTransaction
  <2>1. statement = 1
    BY <1>3 DEF LockTransaction, FirstStatement
  <2>. QED
    BY <1>3, <2>1 DEF LockTransaction, server
<1>4. CASE ExecuteQuery
  <2>. SUFFICES ASSUME save \notin disturbed PROVE SaveInTransaction'
    BY <1>4 DEF ExecuteQuery, Store
  <2>1. open = TRUE /\ inTrans = TRUE /\ lost = FALSE /\ game = "writing"
    BY <1>4 DEF ExecuteQuery, TypeOK
  <2>2. UNCHANGED <<open, inTrans, lost, stored, save>> /\ statement' = statement + 1
    BY <1>4, <2>1 DEF ExecuteQuery, Store
  <2>3. CASE Store(<<save, statement>>)
    <3>1. pending' = pending \cup {<<save, statement>>}
      BY <2>1, <2>3 DEF Store
    <3>2. \A i \in (1..Statements) \ Ignored : i < statement' => <<save, i>> \in pending'
      BY <1>0, <1>4, <2>1, <2>2, <3>1
    <3>. QED
      BY <1>4, <2>1, <2>2, <3>2
  <2>4. CASE ~ Store(<<save, statement>>)
    <3>1. pending' = pending /\ game' = IF Fatal(statement) THEN "rollingback" ELSE "writing"
      BY <1>4, <2>4 DEF ExecuteQuery
    <3>2. game' = "writing" => statement \in Ignored
      BY <3>1 DEF Fatal
    <3>3. game' = "writing" =>
            \A i \in (1..Statements) \ Ignored : i < statement' => <<save, i>> \in pending'
      BY <1>0, <2>1, <2>2, <3>1, <3>2
    <3>. QED
      BY <2>1, <2>2, <3>1, <3>3
  <2>. QED
    BY <2>3, <2>4
<1>5. CASE Commit
  BY <1>5 DEF Commit
<1>6. CASE Rollback
  BY <1>6 DEF Rollback
<1>7. CASE NetQuery
  BY <1>7 DEF NetQuery, server
<1>8. CASE NetAnswer
  BY <1>8 DEF NetAnswer, Reconnected
<1>9. CASE LoseConnection
  <2>1. game' = game /\ save' = save
    BY <1>9 DEF LoseConnection
  <2>2. game # "idle" => save \in disturbed'
    BY <1>9 DEF LoseConnection, Lose
  <2>. QED
    BY <2>1, <2>2
<1>10. CASE UNCHANGED vars
  BY <1>10 DEF vars, server
<1>. QED
  BY <1>1, <1>2, <1>3, <1>4, <1>5, <1>6, <1>7, <1>8, <1>9, <1>10 DEF Next

\* Nothing is stored by the steps of a save that will fail.
LEMMA FailedStep == Inv /\ [Next]_vars => FailedLeavesNothing'
<1>. SUFFICES ASSUME Inv, [Next]_vars PROVE FailedLeavesNothing'
  OBVIOUS
<1>. USE DEF Inv, FailedLeavesNothing
<1>0. /\ result \in [Save -> {"none", "saved", "failed"}]
      /\ \A w \in stored : w[1] \in Save
      /\ \A w \in pending : w[1] = save /\ game \in {"writing", "rollingback"}
      /\ game # "idle" => save \in Save /\ result[save] = "none"
  BY DEF TypeOK, Write, FutureUntouched, PendingIsSave
<1>1. CASE Begin
  BY <1>1 DEF Begin, server
<1>2. CASE Began
  <2>1. game = "beginning" /\ result' = result /\ disturbed' = disturbed
    BY <1>2 DEF Began, StartTransaction, server
  <2>2. pending = {} /\ stored' = stored
    BY <1>0, <1>2, <2>1 DEF Began, StartTransaction, server
  <2>. QED
    BY <2>1, <2>2
<1>3. CASE LockTransaction
  BY <1>3 DEF LockTransaction, server
<1>4. CASE ExecuteQuery
  <2>1. result' = result /\ disturbed' = disturbed /\ game # "idle"
    BY <1>4 DEF ExecuteQuery, Store
  <2>2. stored' \subseteq stored \cup {<<save, statement>>}
    BY <1>4 DEF ExecuteQuery, Store
  <2>3. result[save] = "none"
    BY <1>0, <2>1
  <2>. QED
    BY <2>1, <2>2, <2>3
<1>5. CASE Commit
  <2>1. PICK ok \in BOOLEAN :
            /\ CommitTransaction(ok)
            /\ result' = [result EXCEPT ![save] = IF ok THEN "saved" ELSE "failed"]
    BY <1>5 DEF Commit
  <2>2. stored' = stored \cup pending /\ disturbed \subseteq disturbed'
    BY <2>1 DEF CommitTransaction, Lose
  <2>3. game = "writing"
    BY <1>5 DEF Commit
  <2>4. ~ok => save \in disturbed'
    BY <2>1, <2>3 DEF CommitTransaction, Lose, SaveInTransaction
  <2>5. \A s \in Save : result'[s] = IF s = save THEN (IF ok THEN "saved" ELSE "failed") ELSE result[s]
    BY <1>0, <2>1
  <2>6. ASSUME NEW w \in stored', result'[w[1]] = "failed" PROVE w[1] \in disturbed'
    <3>1. CASE w[1] = save
      BY <1>0, <2>3, <2>4, <2>5, <2>6, <3>1
    <3>2. CASE w[1] # save
      BY <1>0, <2>2, <2>3, <2>5, <2>6, <3>2
    <3>. QED
      BY <3>1, <3>2
  <2>. QED
    BY <2>6
<1>6. CASE Rollback
  <2>1. game # "idle" /\ stored' = stored /\ disturbed' = disturbed
    BY <1>6 DEF Rollback, RollbackTransaction
  <2>2. \A s \in Save : s # save => result'[s] = result[s]
    BY <1>0, <1>6 DEF Rollback
  <2>3. save \notin disturbed => \A w \in stored : w[1] # save
    BY <2>1 DEF SaveInTransaction
  <2>. QED
    BY <1>0, <2>1, <2>2, <2>3
<1>7. CASE NetQuery
  BY <1>7 DEF NetQuery, server
<1>8. CASE NetAnswer
  BY <1>8 DEF NetAnswer
<1>9. CASE LoseConnection
  BY <1>9 DEF LoseConnection, Lose
<1>10. CASE UNCHANGED vars
  BY <1>10 DEF vars, server
<1>. QED
  BY <1>1, <1>2, <1>3, <1>4, <1>5, <1>6, <1>7, <1>8, <1>9, <1>10 DEF Next

\* A commit stores all that the save wrote.
LEMMA SavedStep == Inv /\ [Next]_vars => SavedIsStored'
<1>. SUFFICES ASSUME Inv, [Next]_vars PROVE SavedIsStored'
  OBVIOUS
<1>. USE DEF Inv, SavedIsStored
<1>0. result \in [Save -> {"none", "saved", "failed"}] /\ statement \in 1..Statements + 1
  BY DEF TypeOK
<1>1. CASE Commit
  <2>1. PICK ok \in BOOLEAN :
            /\ CommitTransaction(ok)
            /\ result' = [result EXCEPT ![save] = IF ok THEN "saved" ELSE "failed"]
    BY <1>1 DEF Commit
  <2>2. stored' = stored \cup pending /\ disturbed \subseteq disturbed'
    BY <2>1 DEF CommitTransaction, Lose
  <2>3. game = "writing" /\ statement > Statements
    BY <1>1 DEF Commit
  <2>4. save \notin disturbed => \A i \in (1..Statements) \ Ignored : <<save, i>> \in pending
    BY <1>0, <2>3, StatementsAssumption DEF SaveInTransaction
  <2>5. \A s \in Save : s # save => result'[s] = result[s]
    BY <1>0, <2>1
  <2>. QED
    BY <2>2, <2>4, <2>5
<1>2. CASE Rollback
  <2>1. \A s \in Save : result'[s] = IF s = save THEN "failed" ELSE result[s]
    BY <1>0, <1>2 DEF Rollback
  <2>. QED
    BY <1>2, <2>1 DEF Rollback, RollbackTransaction
<1>3. CASE ~ Commit /\ ~ Rollback
  <2>1. result' = result /\ stored \subseteq stored' /\ disturbed \subseteq disturbed'
    BY <1>3 DEF Next, vars, server, Begin, Began, LockTransaction, ExecuteQuery, NetQuery, NetAnswer,
       LoseConnection, StartTransaction, Store, Lose
  <2>. QED
    BY <2>1
<1>. QED
  BY <1>1, <1>2, <1>3

-----------------------------------------------------------------------------

LEMMA InvStep == Inv /\ [Next]_vars => Inv'
<1>. SUFFICES ASSUME Inv, [Next]_vars PROVE Inv'
  OBVIOUS
<1>1. TypeOK' /\ LockHeld'
  BY LockStep, TypeStep DEF Inv, LockInv, SaveUnderWay, FutureUntouched
<1>. QED
  BY <1>1, PendingStep, FutureStep, FirstStep, TransactionStep, FailedStep, SavedStep DEF Inv

LEMMA InvAlways == Spec => []Inv
BY InitInv, InvStep, PTL DEF Spec

\* The variables only ever hold values of their types; the recursive mutex has an
\* owner exactly while it is locked.
THEOREM TypeCorrect == Spec => []TypeOK
BY InvAlways, PTL DEF Inv

\* Whatever fails, a query of the network thread never falls between the writes
\* of a transaction.
THEOREM SavesAreAlone == Spec => []WritesTogether
<1>1. Inv => WritesTogether
  BY DEF Inv, WritesTogether, PendingIsSave, LockHeld
<1>. QED
  BY <1>1, InvAlways, PTL

\* A save that failed leaves nothing behind, unless the connection was lost
\* while it was under way.
THEOREM FailedSavesLeaveNothing == Spec => []FailedLeavesNothing
BY InvAlways, PTL DEF Inv

\* A save that reports success has stored all it had to, with the same exception.
THEOREM SavesAreStored == Spec => []SavedIsStored
BY InvAlways, PTL DEF Inv

-----------------------------------------------------------------------------
(* The queue of DatabaseTasks.  The list is the end of the accepted        *)
(* queries; those before it have been taken, and each of them was executed *)
(* or is in a hand.  That no two queries are the same, and that a hand is  *)
(* empty unless its thread is at the place for it, makes this inductive.   *)

\* How many queries have been taken off the list.
Taken == Len(accepted) - Len(tasks)

\* Callers number their queries, so no query is accepted twice.
Different ==
    /\ \A i \in 1..Len(accepted) : accepted[i].n <= submitted[accepted[i].by]
    /\ \A i, j \in 1..Len(accepted) : accepted[i] = accepted[j] => i = j

\* The list is what follows the queries taken.
ListIsRest ==
    /\ Len(tasks) <= Len(accepted)
    /\ \A i \in 1..Len(tasks) : tasks[i] = accepted[Taken + i]

\* A thread has a query in hand from the list to the post of its callback.
At(t) == IF t = "worker" THEN worker ELSE flusher
HandsAgree ==
    /\ \A t \in Threads : inHand[t] # NoTask <=> At(t) \in {"querying", "posting"}
    /\ \A t \in Threads : inHand[t] # NoTask => \E i \in 1..Taken : accepted[i] = inHand[t]
    /\ inHand["worker"] # NoTask => inHand["worker"] # inHand["game"]

\* A query taken is executed, or about to be; a query executed is posted, or about to be.
TakenAreExecuted ==
    /\ \A i \in 1..Taken : accepted[i] \in Queries(queried) \cup Unexecuted
    /\ \A q \in Queries(queried) : \E i \in 1..Taken : accepted[i] = q
    /\ \A q \in Queries(queried) : q \notin Unexecuted
    /\ Queries(posted) \subseteq Queries(queried)
    /\ Queries(queried) \subseteq Queries(posted) \cup {inHand[t] : t \in Threads}
    /\ \A t \in Threads : At(t) = "posting" => inHand[t] \in Queries(queried)

Querying(place) == IF place = "querying" THEN 1 ELSE 0
CountsAgree == Len(queried) + Querying(worker) + Querying(flusher) = Taken

QueueInv ==
    /\ QueueTypeOK
    /\ Different
    /\ ListIsRest
    /\ HandsAgree
    /\ TakenAreExecuted
    /\ CountsAgree
    /\ mustSave <= Len(accepted)

-----------------------------------------------------------------------------
(* The sequences.                                                          *)

LEMMA QueriesAppend ==
    ASSUME NEW s \in Seq(Task), NEW q \in Task
    PROVE  /\ Append(s, q) \in Seq(Task) /\ Len(Append(s, q)) = Len(s) + 1
           /\ Len(s) \in Nat
           /\ Append(s, q)[Len(s) + 1] = q
           /\ \A i \in 1..Len(s) : Append(s, q)[i] = s[i]
           /\ Queries(Append(s, q)) = Queries(s) \cup {q}
<1>1. /\ Append(s, q) \in Seq(Task) /\ Len(Append(s, q)) = Len(s) + 1
      /\ Len(s) \in Nat
      /\ Append(s, q)[Len(s) + 1] = q
      /\ \A i \in 1..Len(s) : Append(s, q)[i] = s[i]
  BY LenProperties, AppendProperties
<1>2. Queries(Append(s, q)) = Queries(s) \cup {q}
  BY <1>1 DEF Queries
<1>. QED
  BY <1>1, <1>2

LEMMA TaskListTail ==
    ASSUME QueueTypeOK, tasks # <<>>
    PROVE  /\ Head(tasks) \in Task /\ Head(tasks) = tasks[1]
           /\ Tail(tasks) \in Seq(Task) /\ Len(Tail(tasks)) = Len(tasks) - 1
           /\ Len(tasks) \in Nat \ {0} /\ Len(accepted) \in Nat
           /\ \A i \in 1..Len(Tail(tasks)) : Tail(tasks)[i] = tasks[i + 1]
BY EmptySeq, LenProperties, HeadTailProperties DEF QueueTypeOK

LEMMA AcceptedAreTasks ==
    ASSUME QueueTypeOK, NEW i \in 1..Len(accepted)
    PROVE  accepted[i] \in Task /\ accepted[i].by \in Callers /\ accepted[i].n \in Nat
<1>1. accepted[i] \in Task
  BY ElementOfSeq DEF QueueTypeOK
<1>. QED
  BY <1>1, MaxTasksAssumption DEF Task

LEMMA QueueInitInv == QueueInit => QueueInv
<1>. SUFFICES ASSUME QueueInit PROVE QueueInv
  OBVIOUS
<1>1. QueueTypeOK
  BY EmptySeq, MaxTasksAssumption DEF QueueInit, QueueTypeOK, Threads
<1>2. Len(accepted) = 0 /\ Len(tasks) = 0 /\ Len(queried) = 0 /\ Len(posted) = 0
  BY EmptySeq DEF QueueInit
<1>3. \A t \in Threads : inHand[t] = NoTask /\ At(t) \in {"checking", "idle"}
  BY DEF QueueInit, At, Threads
<1>4. inHand["worker"] = NoTask
  BY <1>3 DEF Threads
<1>. QED
  BY <1>1, <1>2, <1>3, <1>4
     DEF QueueInit, QueueInv, Different, ListIsRest, HandsAgree, TakenAreExecuted, CountsAgree, Taken,
         Queries, Querying, Unexecuted

-----------------------------------------------------------------------------
(* Steps that move no query.                                               *)

LEMMA NothingMoves ==
    ASSUME QueueInv, QueueTypeOK',
           UNCHANGED <<tasks, inHand, accepted, queried, posted>>,
           \A p \in Callers : submitted[p] <= submitted'[p],
           worker' = worker \/ {worker, worker'} \cap {"querying", "posting"} = {},
           flusher' = flusher \/ {flusher, flusher'} \cap {"querying", "posting"} = {},
           mustSave' \in {mustSave, Len(accepted)}
    PROVE  QueueInv'
<1>1. Different'
  <2>1. ASSUME NEW i \in 1..Len(accepted) PROVE accepted[i].n <= submitted'[accepted[i].by]
    <3>1. accepted[i].by \in Callers /\ accepted[i].n \in Nat
      BY AcceptedAreTasks DEF QueueInv
    <3>2. submitted[accepted[i].by] \in Nat /\ submitted'[accepted[i].by] \in Nat
      BY <3>1, MaxTasksAssumption DEF QueueInv, QueueTypeOK
    <3>. QED
      BY <3>1, <3>2 DEF QueueInv, Different
  <2>. QED
    BY <2>1 DEF QueueInv, Different
<1>2. \A t \in Threads : At(t)' = At(t) \/ {At(t), At(t)'} \cap {"querying", "posting"} = {}
  BY DEF At
<1>3. Unexecuted' = Unexecuted /\ Querying(worker)' = Querying(worker) /\ Querying(flusher)' = Querying(flusher)
  BY DEF Unexecuted, Querying
<1>4. Taken' = Taken
  BY DEF Taken
<1>5. ListIsRest' /\ CountsAgree'
  BY <1>3, <1>4 DEF QueueInv, ListIsRest, CountsAgree
<1>6. HandsAgree'
  BY <1>2, <1>4 DEF QueueInv, HandsAgree
<1>7. TakenAreExecuted'
  <2>1. Queries(queried)' = Queries(queried) /\ Queries(posted)' = Queries(posted)
    BY DEF Queries
  <2>2. \A t \in Threads : At(t)' = "posting" => At(t) = "posting"
    BY <1>2
  <2>. QED
    BY <1>3, <1>4, <2>1, <2>2 DEF QueueInv, TakenAreExecuted
<1>8. mustSave' <= Len(accepted)
  BY LenProperties DEF QueueInv, QueueTypeOK
<1>. QED
  BY <1>1, <1>5, <1>6, <1>7, <1>8 DEF QueueInv

-----------------------------------------------------------------------------
(* addTask.                                                                *)

LEMMA AddTaskInv ==
    ASSUME QueueInv, NEW p \in Callers, AddTask(p)
    PROVE  QueueInv'
<1>. DEFINE t == [by |-> p, n |-> submitted[p] + 1]
<1>1. /\ submitted \in [Callers -> 0..MaxTasks] /\ submitted[p] \in Nat
      /\ submitted' = [submitted EXCEPT ![p] = submitted[p] + 1]
      /\ submitted[p] + 1 \in 1..MaxTasks /\ t \in Task
  BY MaxTasksAssumption DEF AddTask, QueueInv, QueueTypeOK, Task
<1>2. submitted' \in [Callers -> 0..MaxTasks] /\ \A c \in Callers : submitted[c] <= submitted'[c]
  BY <1>1, MaxTasksAssumption
<1>3. accepted \in Seq(Task) /\ tasks \in Seq(Task) /\ Len(accepted) \in Nat /\ Len(tasks) \in Nat
  BY LenProperties DEF QueueInv, QueueTypeOK
<1>4. CASE Refuse
  <2>1. QueueTypeOK'
    BY <1>2, <1>4 DEF AddTask, Refuse, QueueInv, QueueTypeOK
  <2>. QED
    BY <1>2, <1>4, <2>1, NothingMoves DEF AddTask, Refuse
<1>5. CASE Push(p, t)
  <2>1. /\ accepted' = Append(accepted, t) /\ tasks' = Append(tasks, t)
        /\ UNCHANGED <<threadState, worker, flusher, inHand, mustSave, queried, posted>>
    BY <1>5 DEF AddTask, Push
  <2>2. /\ accepted' \in Seq(Task) /\ Len(accepted') = Len(accepted) + 1
        /\ accepted'[Len(accepted) + 1] = t /\ \A i \in 1..Len(accepted) : accepted'[i] = accepted[i]
        /\ tasks' \in Seq(Task) /\ Len(tasks') = Len(tasks) + 1
        /\ tasks'[Len(tasks) + 1] = t /\ \A i \in 1..Len(tasks) : tasks'[i] = tasks[i]
    BY <1>1, <1>3, <2>1, QueriesAppend
  <2>3. QueueTypeOK'
    BY <1>2, <1>5, <2>1, <2>2 DEF Push, QueueInv, QueueTypeOK
  <2>4. Taken' = Taken /\ Taken \in Nat
    BY <1>3, <2>2 DEF Taken, QueueInv, ListIsRest
  <2>5. Different'
    <3>1. \A i \in 1..Len(accepted) : /\ accepted[i].by \in Callers /\ accepted[i].n \in Nat
                                       /\ accepted[i].n <= submitted[accepted[i].by]
      BY AcceptedAreTasks DEF QueueInv, Different
    <3>2. \A i \in 1..Len(accepted) : accepted[i] # t
      <4>1. ASSUME NEW i \in 1..Len(accepted), accepted[i] = t PROVE FALSE
        <5>1. accepted[i].by = p /\ accepted[i].n = submitted[p] + 1
          BY <4>1
        <5>. QED
          BY <1>1, <3>1, <5>1
      <4>. QED
        BY <4>1
    <3>3. \A i \in 1..Len(accepted) : accepted[i].n <= submitted'[accepted[i].by]
      <4>1. ASSUME NEW i \in 1..Len(accepted) PROVE accepted[i].n <= submitted'[accepted[i].by]
        <5>1. /\ accepted[i].n \in Nat /\ submitted[accepted[i].by] \in Nat
              /\ submitted'[accepted[i].by] \in Nat
              /\ submitted[accepted[i].by] <= submitted'[accepted[i].by]
          BY <1>1, <1>2, <3>1
        <5>. QED
          BY <3>1, <5>1
      <4>. QED
        BY <4>1
    <3>4. t.n <= submitted'[t.by]
      BY <1>1
    <3>5. \A i \in 1..Len(accepted') : i \in 1..Len(accepted) \/ i = Len(accepted) + 1
      BY <1>3, <2>2
    <3>6. \A i \in 1..Len(accepted') : accepted'[i].n <= submitted'[accepted'[i].by]
      BY <2>2, <3>3, <3>4, <3>5
    <3>7. \A i, j \in 1..Len(accepted') : accepted'[i] = accepted'[j] => i = j
      <4>. HIDE DEF t
      <4>. QED
        BY <2>2, <3>2, <3>5 DEF QueueInv, Different
    <3>. QED
      BY <3>6, <3>7 DEF Different
  <2>6. ListIsRest'
    <3>1. \A i \in 1..Len(tasks') : i \in 1..Len(tasks) \/ i = Len(tasks) + 1
      BY <1>3, <2>2
    <3>2. \A i \in 1..Len(tasks) : Taken + i \in 1..Len(accepted)
      BY <1>3, <2>4 DEF Taken, QueueInv, ListIsRest
    <3>3. Taken + (Len(tasks) + 1) = Len(accepted) + 1
      BY <1>3 DEF Taken
    <3>4. \A i \in 1..Len(tasks') : tasks'[i] = accepted'[Taken + i]
      <4>. HIDE DEF t
      <4>. QED
        BY <2>2, <3>1, <3>2, <3>3 DEF QueueInv, ListIsRest
    <3>. QED
      BY <1>3, <2>2, <2>4, <3>4 DEF QueueInv, ListIsRest
  <2>7. \A i \in 1..Taken : i \in 1..Len(accepted) /\ accepted'[i] = accepted[i]
    BY <1>3, <2>2, <2>4 DEF Taken, QueueInv, ListIsRest
  <2>8. HandsAgree'
    BY <2>1, <2>4, <2>7 DEF QueueInv, HandsAgree, At
  <2>9. TakenAreExecuted'
    <3>1. Unexecuted' = Unexecuted /\ Queries(queried)' = Queries(queried) /\ Queries(posted)' = Queries(posted)
      BY <2>1 DEF Unexecuted, Queries
    <3>. QED
      BY <2>1, <2>4, <2>7, <3>1 DEF QueueInv, TakenAreExecuted, At
  <2>10. CountsAgree'
    BY <2>1, <2>4 DEF QueueInv, CountsAgree, Querying
  <2>11. mustSave' <= Len(accepted')
    BY <1>3, <2>1, <2>2 DEF QueueInv, QueueTypeOK
  <2>. QED
    BY <2>3, <2>5, <2>6, <2>8, <2>9, <2>10, <2>11 DEF QueueInv
<1>. QED
  BY <1>4, <1>5 DEF AddTask

-----------------------------------------------------------------------------
(* runTask: a query goes from the list into a hand, is executed, is posted. *)

\* The effect of taking, whichever thread does it.
LEMMA TakeInv ==
    ASSUME QueueInv, QueueTypeOK', NEW t \in Threads, Take(t),
           At(t) \notin {"querying", "posting"}, At(t)' = "querying",
           \A u \in Threads \ {t} : At(u)' = At(u),
           UNCHANGED <<submitted, mustSave, accepted, queried, posted>>
    PROVE  QueueInv'
<1>. DEFINE q == Head(tasks)
<1>1. /\ tasks # <<>> /\ tasks' = Tail(tasks) /\ q \in Task /\ q = tasks[1] /\ q # NoTask
      /\ Len(tasks') = Len(tasks) - 1 /\ Len(tasks) \in Nat \ {0} /\ Len(accepted) \in Nat
      /\ \A i \in 1..Len(tasks') : tasks'[i] = tasks[i + 1]
      /\ inHand' = [inHand EXCEPT ![t] = q] /\ inHand \in [Threads -> Task \cup {NoTask}]
  BY TaskListTail, NoTaskAssumption DEF Take, QueueInv, QueueTypeOK
<1>2. Taken \in Nat /\ Taken' = Taken + 1 /\ Taken + 1 \in 1..Len(accepted)
  BY <1>1 DEF Taken, QueueInv, ListIsRest
<1>3. accepted[Taken + 1] = q
  BY <1>1 DEF QueueInv, ListIsRest
<1>4. \A i \in 1..Taken : i \in 1..Len(accepted) /\ accepted[i] # q
  BY <1>2, <1>3 DEF QueueInv, Different
<1>5. Different'
  BY DEF QueueInv, Different
<1>6. ListIsRest'
  <2>1. ASSUME NEW i \in 1..Len(tasks') PROVE tasks'[i] = accepted'[Taken' + i]
    <3>1. i + 1 \in 1..Len(tasks) /\ Taken + (i + 1) = Taken' + i
      BY <1>1, <1>2
    <3>. QED
      BY <1>1, <3>1 DEF QueueInv, ListIsRest
  <2>. QED
    BY <1>1, <2>1 DEF QueueInv, ListIsRest
<1>7. inHand[t] = NoTask /\ \A u \in Threads \ {t} : inHand'[u] = inHand[u]
  BY <1>1 DEF QueueInv, HandsAgree
<1>8. q \notin Queries(queried) /\ \A u \in Threads : inHand[u] # q
  BY <1>1, <1>4 DEF QueueInv, TakenAreExecuted, HandsAgree
<1>9. Unexecuted' = Unexecuted \cup {q}
  <2>1. inHand'[t] = q
    BY <1>1
  <2>2. CASE t = "worker"
    <3>1. worker # "querying" /\ worker' = "querying" /\ flusher' = flusher /\ inHand'["game"] = inHand["game"]
      BY <1>7, <2>2 DEF At, Threads
    <3>. QED
      BY <2>1, <2>2, <3>1 DEF Unexecuted
  <2>3. CASE t = "game"
    <3>1. flusher # "querying" /\ flusher' = "querying" /\ worker' = worker /\ inHand'["worker"] = inHand["worker"]
      BY <1>7, <2>3 DEF At, Threads
    <3>. QED
      BY <2>1, <2>3, <3>1 DEF Unexecuted
  <2>. QED
    BY <2>2, <2>3 DEF Threads
<1>10. HandsAgree'
  <2>1. \A u \in Threads : inHand'[u] # NoTask <=> At(u)' \in {"querying", "posting"}
    BY <1>1, <1>7 DEF QueueInv, HandsAgree
  <2>2. \A u \in Threads : inHand'[u] # NoTask => \E i \in 1..Taken' : accepted'[i] = inHand'[u]
    BY <1>1, <1>2, <1>3, <1>7 DEF QueueInv, HandsAgree
  <2>3. inHand'["worker"] # inHand'["game"]
    BY <1>1, <1>7, <1>8 DEF Threads
  <2>. QED
    BY <2>1, <2>2, <2>3 DEF HandsAgree
<1>11. TakenAreExecuted'
  <2>0. Queries(queried)' = Queries(queried) /\ Queries(posted)' = Queries(posted)
    BY DEF Queries
  <2>1. \A i \in 1..Taken' : accepted'[i] \in Queries(queried)' \cup Unexecuted'
    BY <1>2, <1>3, <1>9, <2>0 DEF QueueInv, TakenAreExecuted
  <2>2. \A x \in Queries(queried)' : x \notin Unexecuted' /\ \E i \in 1..Taken' : accepted'[i] = x
    BY <1>2, <1>8, <1>9, <2>0 DEF QueueInv, TakenAreExecuted
  <2>3. Queries(queried) \subseteq Queries(posted) \cup {inHand'[u] : u \in Threads}
    <3>1. ASSUME NEW x \in Queries(queried), x \notin Queries(posted)
          PROVE  x \in {inHand'[u] : u \in Threads}
      <4>1. PICK u \in Threads : x = inHand[u]
        BY <3>1 DEF QueueInv, TakenAreExecuted
      <4>2. x # NoTask
        BY <4>1, NoTaskAssumption, ElementOfSeq DEF QueueInv, QueueTypeOK, Queries
      <4>. QED
        BY <1>7, <4>1, <4>2
    <3>. QED
      BY <3>1
  <2>4. \A u \in Threads : At(u)' = "posting" => inHand'[u] \in Queries(queried)'
    BY <1>7, <2>0 DEF QueueInv, TakenAreExecuted
  <2>. QED
    BY <2>0, <2>1, <2>2, <2>3, <2>4 DEF QueueInv, TakenAreExecuted
<1>12. CountsAgree'
  <2>1. Querying(worker)' + Querying(flusher)' = Querying(worker) + Querying(flusher) + 1
    BY DEF Querying, At, Threads
  <2>2. Len(queried) \in Nat
    BY LenProperties DEF QueueInv, QueueTypeOK
  <2>3. {Querying(worker), Querying(flusher), Querying(worker)', Querying(flusher)'} \subseteq Nat
    BY DEF Querying
  <2>. QED
    BY <1>2, <2>1, <2>2, <2>3 DEF QueueInv, CountsAgree
<1>. QED
  BY <1>5, <1>6, <1>10, <1>11, <1>12 DEF QueueInv

\* The effect of executing.
LEMMA QueryInv ==
    ASSUME QueueInv, QueueTypeOK', NEW t \in Threads, Query(t),
           At(t) = "querying", At(t)' = "posting",
           \A u \in Threads \ {t} : At(u)' = At(u),
           UNCHANGED <<tasks, inHand, submitted, mustSave, accepted, posted>>
    PROVE  QueueInv'
<1>. DEFINE q == inHand[t]
<1>1. q \in Task /\ q # NoTask /\ queried \in Seq(Task)
  BY DEF QueueInv, QueueTypeOK, HandsAgree
<1>2. /\ Queries(queried') = Queries(queried) \cup {q} /\ Len(queried') = Len(queried) + 1
      /\ Len(queried) \in Nat
  BY <1>1, QueriesAppend DEF Query
<1>3. Taken' = Taken
  BY DEF Taken
<1>4. Unexecuted' = Unexecuted \ {q}
  BY <1>1 DEF Unexecuted, At, Threads, QueueInv, HandsAgree
<1>5. Different' /\ ListIsRest'
  BY <1>3 DEF QueueInv, Different, ListIsRest
<1>6. HandsAgree'
  BY <1>3 DEF QueueInv, HandsAgree
<1>7. TakenAreExecuted'
  <2>1. Queries(queried)' = Queries(queried) \cup {q} /\ Queries(posted)' = Queries(posted)
    BY <1>2 DEF Queries
  <2>2. \A i \in 1..Taken : accepted[i] \in Queries(queried)' \cup Unexecuted'
    BY <1>4, <2>1 DEF QueueInv, TakenAreExecuted
  <2>3. \A x \in Queries(queried)' : x \notin Unexecuted' /\ \E i \in 1..Taken : accepted[i] = x
    BY <1>1, <1>4, <2>1 DEF QueueInv, TakenAreExecuted, HandsAgree
  <2>4. Queries(queried)' \subseteq Queries(posted) \cup {inHand[u] : u \in Threads}
    BY <2>1 DEF QueueInv, TakenAreExecuted
  <2>5. \A u \in Threads : At(u)' = "posting" => inHand[u] \in Queries(queried)'
    BY <2>1 DEF QueueInv, TakenAreExecuted
  <2>6. Queries(posted)' \subseteq Queries(queried)'
    BY <2>1 DEF QueueInv, TakenAreExecuted
  <2>. QED
    BY <1>3, <2>1, <2>2, <2>3, <2>4, <2>5, <2>6 DEF TakenAreExecuted
<1>8. CountsAgree'
  <2>1. Querying(worker)' + Querying(flusher)' + 1 = Querying(worker) + Querying(flusher)
    BY DEF Querying, At, Threads
  <2>2. {Querying(worker), Querying(flusher), Querying(worker)', Querying(flusher)'} \subseteq Nat
    BY DEF Querying
  <2>. QED
    BY <1>2, <1>3, <2>1, <2>2 DEF QueueInv, CountsAgree
<1>. QED
  BY <1>5, <1>6, <1>7, <1>8 DEF QueueInv

\* The effect of posting the callback.
LEMMA PostInv ==
    ASSUME QueueInv, QueueTypeOK', NEW t \in Threads, Post(t),
           At(t) = "posting", At(t)' \notin {"querying", "posting"},
           \A u \in Threads \ {t} : At(u)' = At(u),
           UNCHANGED <<tasks, submitted, mustSave, accepted, queried>>
    PROVE  QueueInv'
<1>. DEFINE q == inHand[t]
<1>1. q \in Task /\ q # NoTask /\ posted \in Seq(Task) /\ q \in Queries(queried)
  BY DEF QueueInv, QueueTypeOK, HandsAgree, TakenAreExecuted
<1>2. Queries(posted)' = Queries(posted) \cup {q} /\ Queries(queried)' = Queries(queried)
  BY <1>1, QueriesAppend DEF Post, Queries
<1>3. Taken' = Taken
  BY DEF Taken
<1>4. inHand'[t] = NoTask /\ \A u \in Threads \ {t} : inHand'[u] = inHand[u]
  BY DEF Post, QueueInv, QueueTypeOK
<1>5. Unexecuted' = Unexecuted
  BY <1>4 DEF Unexecuted, At, Threads
<1>6. Different' /\ ListIsRest'
  BY <1>3 DEF QueueInv, Different, ListIsRest
<1>7. HandsAgree'
  <2>1. \A u \in Threads : inHand'[u] # NoTask <=> At(u)' \in {"querying", "posting"}
    BY <1>4 DEF QueueInv, HandsAgree
  <2>2. \A u \in Threads : inHand'[u] # NoTask => \E i \in 1..Taken' : accepted'[i] = inHand'[u]
    BY <1>3, <1>4 DEF QueueInv, HandsAgree
  <2>3. inHand'["worker"] # NoTask => inHand'["worker"] # inHand'["game"]
    BY <1>4 DEF Threads, QueueInv, HandsAgree
  <2>. QED
    BY <2>1, <2>2, <2>3 DEF HandsAgree
<1>8. TakenAreExecuted'
  <2>1. Queries(queried) \subseteq Queries(posted)' \cup {inHand'[u] : u \in Threads}
    <3>1. ASSUME NEW x \in Queries(queried), x \notin Queries(posted)'
          PROVE  x \in {inHand'[u] : u \in Threads}
      <4>1. PICK u \in Threads : x = inHand[u]
        BY <1>2, <3>1 DEF QueueInv, TakenAreExecuted
      <4>. QED
        BY <1>2, <1>4, <3>1, <4>1
    <3>. QED
      BY <3>1
  <2>2. \A u \in Threads : At(u)' = "posting" => inHand'[u] \in Queries(queried)'
    BY <1>2, <1>4 DEF QueueInv, TakenAreExecuted
  <2>. QED
    BY <1>1, <1>2, <1>3, <1>5, <2>1, <2>2 DEF QueueInv, TakenAreExecuted
<1>9. CountsAgree'
  <2>1. Querying(worker)' = Querying(worker) /\ Querying(flusher)' = Querying(flusher)
    BY DEF Querying, At, Threads
  <2>. QED
    BY <1>3, <2>1 DEF QueueInv, CountsAgree
<1>. QED
  BY <1>6, <1>7, <1>8, <1>9 DEF QueueInv

-----------------------------------------------------------------------------
(* All steps.                                                              *)

LEMMA QueueTypeStep == QueueInv /\ [QueueNext]_queueVars => QueueTypeOK'
<1>. SUFFICES ASSUME QueueInv, QueueTypeOK, [QueueNext]_queueVars PROVE QueueTypeOK'
  BY DEF QueueInv
<1>. USE DEF QueueTypeOK
<1>1. ASSUME NEW p \in Callers, AddTask(p) PROVE QueueTypeOK'
  <2>. DEFINE t == [by |-> p, n |-> submitted[p] + 1]
  <2>1. submitted[p] + 1 \in 1..MaxTasks
    BY <1>1, MaxTasksAssumption DEF AddTask
  <2>2. t \in Task
    BY <2>1 DEF Task
  <2>3. submitted' \in [Callers -> 0..MaxTasks]
    BY <1>1, <2>1 DEF AddTask
  <2>4. tasks' \in Seq(Task) /\ accepted' \in Seq(Task) /\ signalling' \in SUBSET Callers
    <3>1. CASE Push(p, t)
      <4>1. tasks' = Append(tasks, t) /\ accepted' = Append(accepted, t)
            /\ signalling' \subseteq signalling \cup {p}
        BY <3>1 DEF Push
      <4>. HIDE DEF t
      <4>. QED
        BY <2>2, <4>1, AppendProperties
    <3>2. CASE Refuse
      BY <3>2 DEF Refuse
    <3>. QED
      BY <1>1, <3>1, <3>2 DEF AddTask
  <2>. QED
    BY <1>1, <2>3, <2>4 DEF AddTask, Push, Refuse
<1>2. ASSUME NEW p \in Callers, Signal(p) PROVE QueueTypeOK'
  BY <1>2 DEF Signal, Notified
<1>3. ASSUME CheckState \/ Wait \/ SpuriousWake \/ FalseAlarm \/ EndFlush \/ Stop \/ EndShutdown
      PROVE  QueueTypeOK'
  BY <1>3 DEF CheckState, Wait, SpuriousWake, FalseAlarm, EndFlush, Stop, EndShutdown,
              Notified, unchangedByWorker, unchangedByGame
<1>4. ASSUME BeginFlush \/ BeginShutdown PROVE QueueTypeOK'
  BY <1>4, LenProperties DEF BeginFlush, BeginShutdown, unchangedByGame
<1>5. ASSUME WorkerTake \/ FlushTake PROVE QueueTypeOK'
  <2>1. ASSUME NEW t \in Threads, Take(t)
        PROVE  tasks' \in Seq(Task) /\ inHand' \in [Threads -> Task \cup {NoTask}]
    BY <2>1, HeadTailProperties DEF Take
  <2>. QED
    BY <1>5, <2>1 DEF WorkerTake, FlushTake, unchangedByWorker, unchangedByGame, Threads
<1>6. ASSUME NEW t \in Threads, At(t) \in {"querying", "posting"}
      PROVE  /\ Query(t) => queried' \in Seq(Task)
             /\ Post(t) => posted' \in Seq(Task) /\ inHand' \in [Threads -> Task \cup {NoTask}]
  <2>1. inHand[t] \in Task
    BY <1>6 DEF QueueInv, HandsAgree
  <2>2. Append(queried, inHand[t]) \in Seq(Task) /\ Append(posted, inHand[t]) \in Seq(Task)
    BY <2>1, AppendProperties
  <2>. QED
    BY <2>2 DEF Query, Post
<1>7. ASSUME WorkerQuery \/ WorkerPost PROVE QueueTypeOK'
  <2>1. "worker" \in Threads /\ At("worker") \in {"querying", "posting"}
    BY <1>7 DEF WorkerQuery, WorkerPost, At, Threads
  <2>. QED
    BY <1>6, <1>7, <2>1 DEF WorkerQuery, WorkerPost, Query, Post, unchangedByWorker
<1>8. ASSUME FlushQuery \/ FlushPost PROVE QueueTypeOK'
  <2>1. "game" \in Threads /\ At("game") \in {"querying", "posting"}
    BY <1>8 DEF FlushQuery, FlushPost, At, Threads
  <2>. QED
    BY <1>6, <1>8, <2>1 DEF FlushQuery, FlushPost, Query, Post, unchangedByGame
<1>9. CASE UNCHANGED queueVars
  BY <1>9 DEF queueVars
<1>. QED
  BY <1>1, <1>2, <1>3, <1>4, <1>5, <1>7, <1>8, <1>9 DEF QueueNext, Worker, Draining

LEMMA QueueInvStep == QueueInv /\ [QueueNext]_queueVars => QueueInv'
<1>. SUFFICES ASSUME QueueInv, [QueueNext]_queueVars PROVE QueueInv'
  OBVIOUS
<1>1. QueueTypeOK' /\ "worker" \in Threads /\ "game" \in Threads
  BY QueueTypeStep DEF Threads
<1>2. \A p \in Callers : submitted[p] <= submitted[p]
  BY MaxTasksAssumption DEF QueueInv, QueueTypeOK
<1>3. ASSUME NEW p \in Callers, AddTask(p) PROVE QueueInv'
  BY <1>3, AddTaskInv
<1>4. CASE \/ \E p \in Callers : Signal(p)
           \/ CheckState \/ Wait \/ SpuriousWake \/ FalseAlarm
           \/ BeginFlush \/ EndFlush \/ Stop \/ BeginShutdown \/ EndShutdown
  <2>1. /\ UNCHANGED <<tasks, inHand, accepted, queried, posted, submitted>>
        /\ mustSave' \in {mustSave, Len(accepted)}
    BY <1>4 DEF Signal, CheckState, Wait, SpuriousWake, FalseAlarm, BeginFlush, EndFlush,
                Stop, BeginShutdown, EndShutdown, unchangedByWorker, unchangedByGame
  <2>2. /\ worker' = worker \/ {worker, worker'} \cap {"querying", "posting"} = {}
        /\ flusher' = flusher \/ {flusher, flusher'} \cap {"querying", "posting"} = {}
    BY <1>4 DEF Signal, CheckState, Wait, SpuriousWake, FalseAlarm, BeginFlush, EndFlush,
                Stop, BeginShutdown, EndShutdown, unchangedByWorker, unchangedByGame, Notified
  <2>. QED
    BY <1>1, <1>2, <2>1, <2>2, NothingMoves
<1>5. CASE WorkerTake
  <2>1. /\ Take("worker") /\ At("worker") \notin {"querying", "posting"} /\ At("worker")' = "querying"
        /\ \A u \in Threads \ {"worker"} : At(u)' = At(u)
        /\ UNCHANGED <<submitted, mustSave, accepted, queried, posted>>
    BY <1>5 DEF WorkerTake, At, Threads, unchangedByWorker
  <2>. QED
    BY <1>1, <2>1, TakeInv
<1>6. CASE FlushTake
  <2>1. /\ Take("game") /\ At("game") \notin {"querying", "posting"} /\ At("game")' = "querying"
        /\ \A u \in Threads \ {"game"} : At(u)' = At(u)
        /\ UNCHANGED <<submitted, mustSave, accepted, queried, posted>>
    BY <1>6 DEF FlushTake, At, Threads, unchangedByGame
  <2>. QED
    BY <1>1, <2>1, TakeInv
<1>7. CASE WorkerQuery
  <2>1. /\ Query("worker") /\ At("worker") = "querying" /\ At("worker")' = "posting"
        /\ \A u \in Threads \ {"worker"} : At(u)' = At(u)
        /\ UNCHANGED <<tasks, inHand, submitted, mustSave, accepted, posted>>
    BY <1>7 DEF WorkerQuery, At, Threads, unchangedByWorker
  <2>. QED
    BY <1>1, <2>1, QueryInv
<1>8. CASE FlushQuery
  <2>1. /\ Query("game") /\ At("game") = "querying" /\ At("game")' = "posting"
        /\ \A u \in Threads \ {"game"} : At(u)' = At(u)
        /\ UNCHANGED <<tasks, inHand, submitted, mustSave, accepted, posted>>
    BY <1>8 DEF FlushQuery, At, Threads, unchangedByGame
  <2>. QED
    BY <1>1, <2>1, QueryInv
<1>9. CASE WorkerPost
  <2>1. /\ Post("worker") /\ At("worker") = "posting" /\ At("worker")' \notin {"querying", "posting"}
        /\ \A u \in Threads \ {"worker"} : At(u)' = At(u)
        /\ UNCHANGED <<tasks, submitted, mustSave, accepted, queried>>
    BY <1>9 DEF WorkerPost, At, Threads, unchangedByWorker
  <2>. QED
    BY <1>1, <2>1, PostInv
<1>10. CASE FlushPost
  <2>1. /\ Post("game") /\ At("game") = "posting" /\ At("game")' \notin {"querying", "posting"}
        /\ \A u \in Threads \ {"game"} : At(u)' = At(u)
        /\ UNCHANGED <<tasks, submitted, mustSave, accepted, queried>>
    BY <1>10 DEF FlushPost, At, Threads, unchangedByGame
  <2>. QED
    BY <1>1, <2>1, PostInv
<1>11. CASE UNCHANGED queueVars
  <2>1. UNCHANGED <<tasks, inHand, accepted, queried, posted, submitted, worker, flusher, mustSave>>
    BY <1>11 DEF queueVars
  <2>. QED
    BY <1>1, <1>2, <2>1, NothingMoves
<1>. QED
  BY <1>3, <1>4, <1>5, <1>6, <1>7, <1>8, <1>9, <1>10, <1>11 DEF QueueNext, Worker, Draining

-----------------------------------------------------------------------------
(* What the invariant says of the queue.                                   *)

LEMMA UnexecutedCount ==
    ASSUME QueueInv
    PROVE  Cardinality(Unexecuted) = Querying(worker) + Querying(flusher)
<1>1. worker = "querying" /\ flusher = "querying" => inHand["worker"] # inHand["game"]
  BY DEF QueueInv, HandsAgree, At, Threads
<1>2. \A x : IsFiniteSet({x}) /\ Cardinality({x}) = 1
  BY FS_Singleton
<1>3. \A x, y : x # y => Cardinality({x} \cup {y}) = 2
  <2>1. ASSUME NEW x, NEW y, x # y PROVE Cardinality({x} \cup {y}) = 2
    <3>1. y \notin {x}
      BY <2>1
    <3>2. Cardinality({x} \cup {y}) = Cardinality({x}) + 1
      BY <1>2, <3>1, FS_AddElement
    <3>3. Cardinality({x}) = 1
      BY <1>2, Zenon
    <3>4. 1 + 1 = 2
      OBVIOUS
    <3>. QED
      BY <3>2, <3>3, <3>4, Zenon
  <2>. QED
    BY <2>1
<1>4. CASE worker = "querying" /\ flusher = "querying"
  <2>1. Unexecuted = {inHand["worker"]} \cup {inHand["game"]}
    BY <1>4 DEF Unexecuted
  <2>2. Cardinality(Unexecuted) = 2
    BY <1>1, <1>3, <1>4, <2>1, Zenon
  <2>. QED
    BY <1>4, <2>2 DEF Querying
<1>5. CASE worker = "querying" /\ flusher # "querying"
  <2>1. Unexecuted = {inHand["worker"]}
    BY <1>5 DEF Unexecuted
  <2>2. Cardinality(Unexecuted) = 1
    BY <1>2, <2>1, Zenon
  <2>. QED
    BY <1>5, <2>2 DEF Querying
<1>6. CASE worker # "querying" /\ flusher = "querying"
  <2>1. Unexecuted = {inHand["game"]}
    BY <1>6 DEF Unexecuted
  <2>2. Cardinality(Unexecuted) = 1
    BY <1>2, <2>1, Zenon
  <2>. QED
    BY <1>6, <2>2 DEF Querying
<1>7. CASE worker # "querying" /\ flusher # "querying"
  <2>1. Unexecuted = {}
    BY <1>7 DEF Unexecuted
  <2>2. Cardinality(Unexecuted) = 0
    BY <2>1, FS_EmptySet
  <2>. QED
    BY <1>7, <2>2 DEF Querying
<1>. QED
  BY <1>4, <1>5, <1>6, <1>7

LEMMA InvExecutedOnce == QueueInv => ExecutedOnce
<1>. SUFFICES ASSUME QueueInv PROVE ExecutedOnce
  OBVIOUS
<1>1. Len(accepted) \in Nat /\ Len(tasks) \in Nat /\ Len(queried) \in Nat /\ Taken \in Nat
  BY LenProperties DEF QueueInv, QueueTypeOK, ListIsRest, Taken
<1>2. ASSUME NEW i \in 1..Len(accepted), accepted[i] \in Queries(queried) PROVE i \in 1..Taken
  <2>1. PICK k \in 1..Taken : accepted[k] = accepted[i]
    BY <1>2 DEF QueueInv, TakenAreExecuted
  <2>2. k \in 1..Len(accepted)
    BY <1>1 DEF Taken
  <2>. QED
    BY <2>1, <2>2 DEF QueueInv, Different
<1>3. Queries(accepted) = Queries(queried) \cup Queries(tasks) \cup Unexecuted
  <2>1. ASSUME NEW i \in 1..Len(accepted)
        PROVE  accepted[i] \in Queries(queried) \cup Queries(tasks) \cup Unexecuted
    <3>1. CASE i \in 1..Taken
      BY <3>1 DEF QueueInv, TakenAreExecuted
    <3>2. CASE i \notin 1..Taken
      <4>1. i - Taken \in 1..Len(tasks) /\ Taken + (i - Taken) = i
        BY <1>1, <3>2 DEF Taken
      <4>. QED
        BY <4>1 DEF QueueInv, ListIsRest, Queries
    <3>. QED
      BY <3>1, <3>2
  <2>2. \A q \in Queries(queried) : q \in Queries(accepted)
    <3>1. 1..Taken \subseteq 1..Len(accepted)
      BY <1>1 DEF Taken
    <3>2. \A q \in Queries(queried) : \E i \in 1..Taken : accepted[i] = q
      BY DEF QueueInv, TakenAreExecuted
    <3>. QED
      BY <3>1, <3>2, Zenon DEF Queries
  <2>3. \A q \in Queries(tasks) : q \in Queries(accepted)
    <3>1. ASSUME NEW i \in 1..Len(tasks) PROVE Taken + i \in 1..Len(accepted)
      BY <1>1 DEF Taken
    <3>. QED
      BY <3>1 DEF QueueInv, ListIsRest, Queries
  <2>4. \A q \in Unexecuted : q \in Queries(accepted)
    <3>1. ASSUME NEW t \in Threads, At(t) = "querying" PROVE inHand[t] \in Queries(accepted)
      BY <1>1, <3>1 DEF QueueInv, HandsAgree, Queries, Taken
    <3>. QED
      BY <3>1 DEF Unexecuted, At, Threads
  <2>. QED
    BY <2>1, <2>2, <2>3, <2>4 DEF Queries
<1>4. Len(accepted) = Len(queried) + Len(tasks) + Cardinality(Unexecuted)
  <2>1. Querying(worker) \in Nat /\ Querying(flusher) \in Nat
    BY DEF Querying
  <2>. QED
    BY <1>1, <2>1, UnexecutedCount DEF QueueInv, CountsAgree, Taken
<1>5. OvertakenOnlyInHand
  <2>1. SUFFICES ASSUME NEW i \in 1..Len(accepted), NEW j \in 1..Len(accepted), i < j,
                        accepted[j] \in Queries(queried)
                 PROVE  /\ accepted[i] \in Queries(queried) \cup Unexecuted
                        /\ accepted[i] \in Queries(posted) \cup {inHand[t] : t \in Threads}
    BY DEF OvertakenOnlyInHand, QueueInv, TakenAreExecuted
  <2>2. i \in 1..Taken
    BY <1>1, <1>2, <2>1
  <2>3. accepted[i] \in Queries(queried) \cup Unexecuted
    BY <2>2 DEF QueueInv, TakenAreExecuted
  <2>4. Unexecuted \subseteq {inHand[t] : t \in Threads}
    BY DEF Unexecuted, Threads
  <2>. QED
    BY <2>3, <2>4 DEF QueueInv, TakenAreExecuted
<1>. QED
  BY <1>3, <1>4, <1>5 DEF ExecutedOnce

\* The types of the queue's state.
THEOREM QueueTypeCorrect == QueueSpec => []QueueTypeOK
<1>1. QueueInv => QueueTypeOK
  BY DEF QueueInv
<1>. QED
  BY <1>1, QueueInitInv, QueueInvStep, PTL DEF QueueSpec

\* Every query that addTask accepted is on the list, in the hand of one of the two
\* threads that drain it (threadMain and flush, src/src/databasetasks.cpp), or was
\* executed once; and a query is overtaken only while it is in a hand.
THEOREM QueriesExecutedOnce == QueueSpec => []ExecutedOnce
BY QueueInitInv, QueueInvStep, InvExecutedOnce, PTL DEF QueueSpec

\* When flush() or the drain of shutdown() returns (src/src/databasetasks.cpp), every
\* query accepted before the call is executed but for one, which the database thread
\* has in hand.
FlushSaves ==
    [][EndFlush \/ EndShutdown =>
          \A i \in 1..mustSave : accepted[i] \in Queries(queried) \cup {inHand["worker"]}]_queueVars

\* What Game::saveGameState may rely on when flush() returns (src/src/game.cpp).
THEOREM FlushLeavesOne == QueueSpec => FlushSaves
<1>1. ASSUME QueueInv, EndFlush \/ EndShutdown, NEW i \in 1..mustSave
      PROVE  accepted[i] \in Queries(queried) \cup {inHand["worker"]}
  <2>1. tasks = <<>> /\ flusher # "querying"
    BY <1>1 DEF EndFlush, EndShutdown
  <2>2. i \in 1..Taken
    BY <1>1, <2>1, EmptySeq, LenProperties DEF Taken, QueueInv, QueueTypeOK
  <2>. QED
    BY <1>1, <2>1, <2>2 DEF QueueInv, TakenAreExecuted, Unexecuted
<1>2. QueueInv /\ [QueueNext]_queueVars =>
        [EndFlush \/ EndShutdown =>
          \A i \in 1..mustSave : accepted[i] \in Queries(queried) \cup {inHand["worker"]}]_queueVars
  BY <1>1
<1>. QED
  BY <1>2, QueueInitInv, QueueInvStep, PTL DEF QueueSpec, FlushSaves
=============================================================================

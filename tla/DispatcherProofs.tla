-------------------------- MODULE DispatcherProofs --------------------------
(***************************************************************************)
(* Proofs about Dispatcher, and behind them those about Scheduler, which   *)
(* hands the dispatcher the tasks whose delay is over.                     *)
(*                                                                         *)
(* Dispatcher, for any set of producers and any number of tasks: the       *)
(* inductive invariant Inv collects, beside the types, what each property  *)
(* needs of the steps in between: the batch is empty unless the thread is  *)
(* running it, and the stop task is the last one accepted once the         *)
(* dispatcher stopped accepting.                                           *)
(*                                                                         *)
(* Scheduler, for any set of events and any number of ids: OneOwner is     *)
(* inductive with the types, which is shown by counting, for each step,    *)
(* what it takes from and gives to the handlers, the timers and the        *)
(* outcomes.  NoForeignStop needs to know whose ids are in the map and in  *)
(* the stop handlers, and that the ids given so far are different ones.    *)
(***************************************************************************)
EXTENDS Dispatcher, Scheduler, SequenceTheorems, FunctionTheorems,
        FiniteSetTheorems, TLAPS

BatchOnlyWhileRunning == worker # "running" => tmpTaskList = <<>>

Inv ==
    /\ TypeOK
    /\ NoLostWakeup
    /\ BatchOnlyWhileRunning
    /\ NothingLost

-----------------------------------------------------------------------------
(* How the three sequences fit together when one of them moves.            *)

\* A task appended to the list is appended to the whole.
LEMMA AppendLast ==
    ASSUME NEW S, NEW a \in Seq(S), NEW b \in Seq(S), NEW c \in Seq(S), NEW t \in S
    PROVE  a \o b \o Append(c, t) = Append(a \o b \o c, t)
<1>1. a \o b \in Seq(S) /\ <<t>> \in Seq(S) /\ (a \o b) \o c \in Seq(S)
  BY ConcatProperties
<1>2. Append(c, t) = c \o <<t>> /\ Append(a \o b \o c, t) = (a \o b \o c) \o <<t>>
  BY <1>1, AppendIsConcat
<1>3. (a \o b) \o (c \o <<t>>) = ((a \o b) \o c) \o <<t>>
  BY <1>1, ConcatAssociative
<1>. QED
  BY <1>2, <1>3

\* The list moved into the empty batch leaves the whole unchanged.
LEMMA SwapBatch ==
    ASSUME NEW S, NEW a \in Seq(S), NEW c \in Seq(S)
    PROVE  a \o <<>> \o c = a \o c \o <<>>
<1>1. a \o c \in Seq(S)
  BY ConcatProperties
<1>. QED
  BY <1>1, ConcatEmptySeq

\* The head of the batch moved to the handled tasks leaves the whole unchanged.
LEMMA MoveHead ==
    ASSUME NEW S, NEW a \in Seq(S), NEW b \in Seq(S), NEW c \in Seq(S), b # <<>>
    PROVE  a \o b \o c = Append(a, Head(b)) \o Tail(b) \o c
<1>1. Head(b) \in S /\ Tail(b) \in Seq(S) /\ <<Head(b)>> \in Seq(S)
  BY HeadTailProperties
<1>2. b = <<Head(b)>> \o Tail(b)
  <2>1. Len(b) \in Nat /\ Len(b) > 0
    BY EmptySeq, LenProperties
  <2>2. SubSeq(b, 1, Len(b)) = <<b[1]>> \o SubSeq(b, 2, Len(b))
    BY <2>1, SubSeqRecursiveFirst
  <2>3. SubSeq(b, 1, Len(b)) = b /\ SubSeq(b, 2, Len(b)) = Tail(b) /\ Head(b) = b[1]
    BY SubSeqFull, TailIsSubSeq
  <2>. QED
    BY <2>2, <2>3
<1>3. Append(a, Head(b)) = a \o <<Head(b)>>
  BY <1>1, AppendIsConcat
<1>4. (a \o <<Head(b)>>) \o Tail(b) = a \o (<<Head(b)>> \o Tail(b))
  BY <1>1, ConcatAssociative
<1>. QED
  BY <1>2, <1>3, <1>4

\* Where the first task of the batch stands in the whole.
LEMMA HeadOfBatch ==
    ASSUME NEW S, NEW a \in Seq(S), NEW b \in Seq(S), NEW c \in Seq(S), b # <<>>
    PROVE  /\ Len(a) < Len(a \o b \o c)
           /\ (a \o b \o c)[Len(a) + 1] = Head(b)
<1>1. Len(a) \in Nat /\ Len(b) \in Nat \ {0} /\ Len(c) \in Nat
  BY EmptySeq, LenProperties
<1>2. /\ a \o b \in Seq(S)
      /\ Len(a \o b) = Len(a) + Len(b)
      /\ (a \o b)[Len(a) + 1] = b[1]
  <2>1. Len(a) + 1 \in 1..(Len(a) + Len(b)) /\ ~(Len(a) + 1 <= Len(a)) /\ Len(a) + 1 - Len(a) = 1
    BY <1>1
  <2>. QED
    BY <2>1, ConcatProperties
<1>3. /\ Len((a \o b) \o c) = Len(a) + Len(b) + Len(c)
      /\ ((a \o b) \o c)[Len(a) + 1] = (a \o b)[Len(a) + 1]
  <2>1. Len(a) + 1 \in 1..(Len(a \o b) + Len(c)) /\ Len(a) + 1 <= Len(a \o b)
    BY <1>1, <1>2
  <2>. QED
    BY <1>2, <2>1, ConcatProperties
<1>. QED
  BY <1>1, <1>2, <1>3

-----------------------------------------------------------------------------

LEMMA InitInv == Init => Inv
<1>. SUFFICES ASSUME Init PROVE Inv
  OBVIOUS
<1>1. TypeOK
  <2>1. [p \in Producers |-> 0] \in [Producers -> 0..MaxTasks]
    BY MaxTasksAssumption
  <2>. QED
    BY <2>1, EmptySeq DEF Init, TypeOK
<1>2. NothingLost
  BY EmptySeq, ConcatEmptySeq DEF Init, NothingLost
<1>. QED
  BY <1>1, <1>2 DEF Init, Inv, NoLostWakeup, BatchOnlyWhileRunning

\* Every step keeps the types.
LEMMA TypeStep == TypeOK /\ [Next]_vars => TypeOK'
<1>. SUFFICES ASSUME TypeOK, [Next]_vars PROVE TypeOK'
  OBVIOUS
<1>. USE DEF TypeOK
<1>1. ASSUME NEW p \in Producers, NEW e \in BOOLEAN, AddTask(p, e) PROVE TypeOK'
  <2>. DEFINE t == [by |-> p, n |-> submitted[p] + 1, expires |-> e]
  <2>1. submitted[p] \in 0..MaxTasks /\ submitted[p] < MaxTasks
    BY <1>1 DEF AddTask
  <2>2. submitted[p] + 1 \in 1..MaxTasks
    BY <2>1, MaxTasksAssumption
  <2>3. t \in AnyTask
    BY <2>2 DEF Task, AnyTask
  <2>4. submitted' \in [Producers -> 0..MaxTasks]
    BY <1>1, <2>2 DEF AddTask
  <2>5. taskList' \in Seq(AnyTask) /\ accepted' \in Seq(AnyTask) /\ signalling' \in SUBSET Producers
    <3>1. CASE Push(p, t)
      BY <2>3, <3>1, AppendProperties DEF Push
    <3>2. CASE Refuse
      BY <3>2 DEF Refuse
    <3>. QED
      BY <1>1, <3>1, <3>2 DEF AddTask
  <2>. QED
    BY <1>1, <2>4, <2>5 DEF AddTask
<1>2. ASSUME NEW p \in Producers, Signal(p) PROVE TypeOK'
  BY <1>2 DEF Signal, Notified, queueVars
<1>3. ASSUME Stop PROVE TypeOK'
  BY <1>3 DEF Stop, queueVars
<1>4. ASSUME Shutdown PROVE TypeOK'
  <2>1. taskList' \in Seq(AnyTask) /\ accepted' \in Seq(AnyTask)
    BY <1>4, AppendProperties DEF Shutdown, AnyTask
  <2>. QED
    BY <1>4, <2>1 DEF Shutdown, Notified
<1>5. ASSUME CheckState \/ Wait \/ SpuriousWake \/ EndBatch PROVE TypeOK'
  BY <1>5 DEF CheckState, Wait, SpuriousWake, EndBatch, queueVars
<1>6. ASSUME TakeBatch PROVE TypeOK'
  BY <1>6, EmptySeq DEF TakeBatch
<1>7. ASSUME RunTask PROVE TypeOK'
  <2>1. Head(tmpTaskList) \in AnyTask /\ Tail(tmpTaskList) \in Seq(AnyTask)
    BY <1>7, HeadTailProperties DEF RunTask
  <2>2. handled' \in Seq(AnyTask)
    BY <1>7, <2>1, AppendProperties DEF RunTask
  <2>3. \/ executed' = Append(executed, Head(tmpTaskList))
        \/ executed' = executed
    BY <1>7 DEF RunTask
  <2>4. executed' \in Seq(AnyTask)
    <3>1. Append(executed, Head(tmpTaskList)) \in Seq(AnyTask)
      BY <2>1, AppendProperties
    <3>. QED
      BY <2>3, <3>1
  <2>5. threadState' \in {"RUNNING", "CLOSING", "TERMINATED"}
    BY <1>7 DEF RunTask
  <2>. QED
    BY <1>7, <2>1, <2>2, <2>4, <2>5 DEF RunTask
<1>8. ASSUME Finished \/ UNCHANGED vars PROVE TypeOK'
  BY <1>8 DEF Finished, vars
<1>. QED
  BY <1>1, <1>2, <1>3, <1>4, <1>5, <1>6, <1>7, <1>8 DEF Next, Worker

\* The signal of the caller that found the list empty is still on its way, or
\* the thread is not waiting.
LEMMA WakeupStep == TypeOK /\ NoLostWakeup /\ [Next]_vars => NoLostWakeup'
<1>. SUFFICES ASSUME TypeOK, NoLostWakeup, [Next]_vars PROVE NoLostWakeup'
  OBVIOUS
<1>. USE DEF NoLostWakeup
<1>1. ASSUME NEW p \in Producers, NEW e \in BOOLEAN, AddTask(p, e) PROVE NoLostWakeup'
  BY <1>1 DEF AddTask, Push, Refuse
<1>2. ASSUME NEW p \in Producers, Signal(p) PROVE NoLostWakeup'
  BY <1>2 DEF Signal, Notified
<1>3. ASSUME Stop PROVE NoLostWakeup'
  BY <1>3 DEF Stop, queueVars
<1>4. ASSUME Shutdown PROVE NoLostWakeup'
  BY <1>4 DEF Shutdown, Notified
<1>5. ASSUME Worker \/ SpuriousWake PROVE NoLostWakeup'
  BY <1>5 DEF Worker, CheckState, Wait, SpuriousWake, EndBatch, TakeBatch, RunTask, queueVars
<1>6. ASSUME Finished \/ UNCHANGED vars PROVE NoLostWakeup'
  BY <1>6 DEF Finished, vars
<1>. QED
  BY <1>1, <1>2, <1>3, <1>4, <1>5, <1>6 DEF Next

LEMMA BatchStep == BatchOnlyWhileRunning /\ [Next]_vars => BatchOnlyWhileRunning'
<1>. SUFFICES ASSUME BatchOnlyWhileRunning, [Next]_vars PROVE BatchOnlyWhileRunning'
  OBVIOUS
<1>. USE DEF BatchOnlyWhileRunning
<1>1. ASSUME NEW p \in Producers, Signal(p) PROVE BatchOnlyWhileRunning'
  BY <1>1 DEF Signal, Notified, queueVars
<1>2. ASSUME Shutdown PROVE BatchOnlyWhileRunning'
  BY <1>2 DEF Shutdown, Notified
<1>3. ASSUME Worker \/ SpuriousWake PROVE BatchOnlyWhileRunning'
  BY <1>3 DEF Worker, CheckState, Wait, SpuriousWake, EndBatch, TakeBatch, RunTask, queueVars
<1>. QED
  BY <1>1, <1>2, <1>3 DEF Next, AddTask, Stop, Finished, vars, queueVars

LEMMA NothingLostStep == Inv /\ [Next]_vars => NothingLost'
<1>. SUFFICES ASSUME Inv, [Next]_vars PROVE NothingLost'
  OBVIOUS
<1>. USE DEF NothingLost
<1>0. /\ accepted \in Seq(AnyTask) /\ handled \in Seq(AnyTask)
      /\ tmpTaskList \in Seq(AnyTask) /\ taskList \in Seq(AnyTask)
      /\ accepted = handled \o tmpTaskList \o taskList
      /\ worker # "running" => tmpTaskList = <<>>
  BY DEF Inv, TypeOK, BatchOnlyWhileRunning
<1>1. ASSUME NEW p \in Producers, NEW e \in BOOLEAN, AddTask(p, e) PROVE NothingLost'
  <2>. DEFINE t == [by |-> p, n |-> submitted[p] + 1, expires |-> e]
  <2>1. t \in AnyTask
    <3>1. submitted[p] \in 0..MaxTasks /\ submitted[p] < MaxTasks
      BY <1>1 DEF AddTask, Inv, TypeOK
    <3>2. submitted[p] + 1 \in 1..MaxTasks
      BY <3>1, MaxTasksAssumption
    <3>. QED
      BY <3>2 DEF Task, AnyTask
  <2>4. handled \o tmpTaskList \o Append(taskList, t) = Append(accepted, t)
    BY <1>0, <2>1, AppendLast
  <2>2. CASE Push(p, t)
    BY <1>1, <2>2, <2>4 DEF AddTask, Push
  <2>3. CASE Refuse
    BY <1>0, <1>1, <2>3 DEF AddTask, Refuse
  <2>. QED
    BY <1>1, <2>2, <2>3 DEF AddTask
<1>2. ASSUME Shutdown PROVE NothingLost'
  <2>1. StopTask \in AnyTask
    BY DEF AnyTask
  <2>2. handled \o tmpTaskList \o Append(taskList, StopTask) = Append(accepted, StopTask)
    BY <1>0, <2>1, AppendLast
  <2>. QED
    BY <1>2, <2>2 DEF Shutdown
<1>3. ASSUME TakeBatch PROVE NothingLost'
  <2>1. tmpTaskList = <<>>
    BY <1>0, <1>3 DEF TakeBatch
  <2>. QED
    BY <1>0, <1>3, <2>1, SwapBatch DEF TakeBatch
<1>4. ASSUME RunTask PROVE NothingLost'
  BY <1>0, <1>4, MoveHead DEF RunTask
<1>5. ASSUME UNCHANGED queueVars PROVE NothingLost'
  BY <1>0, <1>5 DEF queueVars
<1>. QED
  BY <1>1, <1>2, <1>3, <1>4, <1>5
  DEF Next, Signal, Stop, Worker, CheckState, Wait, SpuriousWake, EndBatch, Finished, vars, queueVars

LEMMA InvStep == Inv /\ [Next]_vars => Inv'
BY TypeStep, WakeupStep, BatchStep, NothingLostStep DEF Inv

LEMMA InvAlways == Spec => []Inv
BY InitInv, InvStep, PTL DEF Spec

\* The variables of the dispatcher only ever hold values of their types.
THEOREM TypeCorrect == Spec => []TypeOK
BY InvAlways, PTL DEF Inv

\* addTask's signal rule (signal after the unlock, only when the list was
\* empty) never leaves the thread asleep with work queued and no signal due.
THEOREM WakeupNeverLost == Spec => []NoLostWakeup
BY InvAlways, PTL DEF Inv

\* Every task that was accepted is handled once, in the order of acceptance.
THEOREM NothingEverLost == Spec => []NothingLost
BY InvAlways, PTL DEF Inv

-----------------------------------------------------------------------------
(* What is left when the thread has returned.                              *)

StopTaskIn(s) == \E i \in 1..Len(s) : s[i] = StopTask

\* The stop task is accepted by shutdown() alone, ends the thread when it is
\* handled, and is the last task accepted if stop() came first.
StopInv ==
    /\ "stop" \in lifecycle => threadState # "RUNNING"
    /\ "shutdown" \notin lifecycle => ~StopTaskIn(accepted)
    /\ lifecycle = {"stop", "shutdown"} =>
          \A i \in 1..Len(accepted) : accepted[i] = StopTask => i = Len(accepted)
    /\ threadState = "TERMINATED" => StopTaskIn(handled)
    /\ worker = "exited" => threadState = "TERMINATED"

FullInv == Inv /\ StopInv

\* Membership in a sequence that gained a last element.
LEMMA StopTaskInAppend ==
    ASSUME NEW s \in Seq(AnyTask), NEW t \in AnyTask
    PROVE  StopTaskIn(Append(s, t)) <=> StopTaskIn(s) \/ t = StopTask
<1>1. /\ Len(s) \in Nat /\ Len(Append(s, t)) = Len(s) + 1
      /\ \A i \in 1..Len(s) : Append(s, t)[i] = s[i]
      /\ Append(s, t)[Len(s) + 1] = t
  BY AppendProperties, LenProperties
<1>2. \A i \in 1..(Len(s) + 1) : i \in 1..Len(s) \/ i = Len(s) + 1
  BY <1>1
<1>3. \A i \in 1..Len(s) : i \in 1..(Len(s) + 1)
  BY <1>1
<1>4. Len(s) + 1 \in 1..(Len(s) + 1)
  BY <1>1
<1>. QED
  BY <1>1, <1>2, <1>3, <1>4 DEF StopTaskIn

\* A task of a producer is not the stop task.
LEMMA TaskOfProducer ==
    ASSUME TypeOK, NEW p \in Producers, NEW e \in BOOLEAN, submitted[p] < MaxTasks
    PROVE  /\ [by |-> p, n |-> submitted[p] + 1, expires |-> e] \in AnyTask
           /\ [by |-> p, n |-> submitted[p] + 1, expires |-> e] # StopTask
<1>1. submitted[p] \in 0..MaxTasks
  BY DEF TypeOK
<1>2. submitted[p] + 1 \in 1..MaxTasks
  BY <1>1, MaxTasksAssumption
<1>3. [by |-> p, n |-> submitted[p] + 1, expires |-> e] \in Task
  BY <1>2 DEF Task
<1>. QED
  BY <1>3, StopTaskAssumption DEF AnyTask

\* What was handled is how the accepted sequence begins.
LEMMA HandledFirst ==
    ASSUME Inv
    PROVE  /\ Len(handled) \in Nat /\ Len(accepted) \in Nat
           /\ Len(handled) <= Len(accepted)
           /\ \A i \in 1..Len(handled) : accepted[i] = handled[i]
           /\ Len(handled) = Len(accepted) => handled = accepted
<1>. DEFINE rest == tmpTaskList \o taskList
<1>1. /\ accepted \in Seq(AnyTask) /\ handled \in Seq(AnyTask)
      /\ tmpTaskList \in Seq(AnyTask) /\ taskList \in Seq(AnyTask)
      /\ accepted = handled \o tmpTaskList \o taskList
  BY DEF Inv, TypeOK, NothingLost
<1>2. rest \in Seq(AnyTask) /\ accepted = handled \o rest
  BY <1>1, ConcatProperties, ConcatAssociative
<1>. HIDE DEF rest
<1>3. Len(handled) \in Nat /\ Len(rest) \in Nat
  BY <1>1, <1>2, LenProperties
<1>4. /\ Len(accepted) = Len(handled) + Len(rest)
      /\ \A i \in 1..(Len(handled) + Len(rest)) :
            accepted[i] = IF i <= Len(handled) THEN handled[i] ELSE rest[i - Len(handled)]
  BY <1>1, <1>2, ConcatProperties
<1>5. \A i \in 1..Len(handled) : i \in 1..(Len(handled) + Len(rest)) /\ i <= Len(handled)
  BY <1>3
<1>6. \A i \in 1..Len(handled) : accepted[i] = handled[i]
  BY <1>4, <1>5
<1>7. Len(handled) = Len(accepted) => handled = accepted
  BY <1>1, <1>6, SeqEqual
<1>. QED
  BY <1>3, <1>4, <1>6, <1>7

LEMMA InitStopInv == Init => StopInv
<1>1. ~StopTaskIn(<<>>)
  BY EmptySeq DEF StopTaskIn
<1>. QED
  BY <1>1 DEF Init, StopInv

LEMMA StopStep == FullInv /\ [Next]_vars => StopInv'
<1>. SUFFICES ASSUME Inv, StopInv, [Next]_vars PROVE StopInv'
  BY DEF FullInv
<1>0. TypeOK /\ accepted \in Seq(AnyTask) /\ handled \in Seq(AnyTask)
  BY DEF Inv, TypeOK
<1>1. ASSUME NEW p \in Producers, NEW e \in BOOLEAN, AddTask(p, e) PROVE StopInv'
  <2>. DEFINE t == [by |-> p, n |-> submitted[p] + 1, expires |-> e]
  <2>1. t \in AnyTask /\ t # StopTask
    BY <1>0, <1>1, TaskOfProducer DEF AddTask
  <2>. HIDE DEF t
  <2>2. CASE threadState = "RUNNING" /\ accepted' = Append(accepted, t)
    <3>1. StopTaskIn(accepted') <=> StopTaskIn(accepted)
      BY <1>0, <2>1, <2>2, StopTaskInAppend
    <3>. QED
      BY <1>1, <2>2, <3>1 DEF AddTask, StopInv, StopTaskIn
  <2>3. CASE accepted' = accepted
    BY <1>1, <2>3 DEF AddTask, StopInv, StopTaskIn
  <2>. QED
    BY <1>1, <2>2, <2>3 DEF AddTask, Push, Refuse, t
<1>2. ASSUME Shutdown PROVE StopInv'
  <2>1. ~StopTaskIn(accepted) /\ accepted' = Append(accepted, StopTask)
    BY <1>2 DEF Shutdown, StopInv
  <2>2. \A i \in 1..Len(accepted') : accepted'[i] = StopTask => i = Len(accepted')
    <3>1. StopTask \in AnyTask
      BY DEF AnyTask
    <3>2. /\ Len(accepted) \in Nat /\ Len(accepted') = Len(accepted) + 1
          /\ \A i \in 1..Len(accepted) : accepted'[i] = accepted[i]
      BY <1>0, <2>1, <3>1, AppendProperties, LenProperties
    <3>3. \A i \in 1..(Len(accepted) + 1) : i \in 1..Len(accepted) \/ i = Len(accepted) + 1
      BY <3>2
    <3>. QED
      BY <2>1, <3>2, <3>3 DEF StopTaskIn
  <2>. QED
    BY <1>2, <2>2 DEF Shutdown, StopInv, Notified, StopTaskIn
<1>3. ASSUME RunTask PROVE StopInv'
  <2>1. Head(tmpTaskList) \in AnyTask /\ handled' = Append(handled, Head(tmpTaskList))
    BY <1>3, HeadTailProperties DEF RunTask, Inv, TypeOK
  <2>2. StopTaskIn(handled') <=> StopTaskIn(handled) \/ Head(tmpTaskList) = StopTask
    BY <1>0, <2>1, StopTaskInAppend
  <2>3. \/ threadState' = threadState
        \/ threadState' = "TERMINATED" /\ Head(tmpTaskList) = StopTask
    BY <1>3 DEF RunTask
  <2>. QED
    BY <1>3, <2>2, <2>3 DEF RunTask, StopInv, StopTaskIn
<1>4. ASSUME CheckState PROVE StopInv'
  BY <1>4 DEF CheckState, StopInv, StopTaskIn, queueVars
<1>5. ASSUME Stop PROVE StopInv'
  <2>1. ~StopTaskIn(accepted)
    BY <1>5 DEF Stop, StopInv
  <2>2. ~StopTaskIn(handled)
    <3>1. \A i \in 1..Len(handled) : i \in 1..Len(accepted) /\ accepted[i] = handled[i]
      BY HandledFirst
    <3>. QED
      BY <2>1, <3>1 DEF StopTaskIn
  <2>3. threadState # "TERMINATED" /\ worker # "exited"
    BY <2>2 DEF StopInv
  <2>. QED
    BY <1>5, <2>1, <2>3 DEF Stop, StopInv, StopTaskIn, queueVars
<1>6. ASSUME NEW p \in Producers, Signal(p) PROVE StopInv'
  BY <1>6 DEF Signal, Notified, StopInv, StopTaskIn, queueVars
<1>7. ASSUME Wait \/ SpuriousWake \/ TakeBatch \/ EndBatch \/ Finished \/ UNCHANGED vars PROVE StopInv'
  BY <1>7 DEF Wait, SpuriousWake, TakeBatch, EndBatch, Finished, vars, queueVars, StopInv, StopTaskIn
<1>. QED
  BY <1>1, <1>2, <1>3, <1>4, <1>5, <1>6, <1>7 DEF Next, Worker

LEMMA FullInvAlways == Spec => []FullInv
<1>1. Init => FullInv
  BY InitInv, InitStopInv DEF FullInv
<1>2. FullInv /\ [Next]_vars => FullInv'
  BY InvStep, StopStep DEF FullInv
<1>. QED
  BY <1>1, <1>2, PTL DEF Spec

\* After stop() and then shutdown(), the order Game uses, no accepted task is
\* left unhandled when the thread has returned.
THEOREM ExitDrained == Spec => []DrainedOnExit
<1>1. FullInv => DrainedOnExit
  <2>. SUFFICES ASSUME FullInv, worker = "exited", lifecycle = {"stop", "shutdown"}
                PROVE  handled = accepted
    BY DEF DrainedOnExit
  <2>1. Inv /\ StopInv
    BY DEF FullInv
  <2>2. PICK i \in 1..Len(handled) : handled[i] = StopTask
    BY <2>1 DEF StopInv, StopTaskIn
  <2>3. i \in 1..Len(accepted) /\ accepted[i] = StopTask
    BY <2>1, <2>2, HandledFirst
  <2>4. i = Len(accepted)
    BY <2>1, <2>3 DEF StopInv
  <2>5. Len(handled) = Len(accepted)
    BY <2>1, <2>4, HandledFirst
  <2>. QED
    BY <2>1, <2>5, HandledFirst
<1>. QED
  BY <1>1, FullInvAlways, PTL

-----------------------------------------------------------------------------
(* The dispatcher implements TaskQueue: every step is one of the queue's   *)
(* or leaves its variables alone.                                          *)

LEMMA QueueInit == Init => Queue!Init
BY DEF Init, Queue!Init

LEMMA QueueStep == Inv /\ [Next]_vars => [Queue!Next]_(Queue!vars)
<1>. SUFFICES ASSUME Inv, [Next]_vars PROVE [Queue!Next]_(Queue!vars)
  OBVIOUS
<1>0. /\ TypeOK /\ accepted \in Seq(AnyTask) /\ handled \in Seq(AnyTask)
      /\ tmpTaskList \in Seq(AnyTask) /\ taskList \in Seq(AnyTask)
      /\ accepted = handled \o tmpTaskList \o taskList
  BY DEF Inv, TypeOK, NothingLost
<1>. USE DEF Queue!vars
<1>1. ASSUME NEW p \in Producers, NEW e \in BOOLEAN, AddTask(p, e)
      PROVE  [Queue!Next]_(Queue!vars)
  <2>. DEFINE t == [by |-> p, n |-> submitted[p] + 1, expires |-> e]
  <2>1. t \in AnyTask
    BY <1>0, <1>1, TaskOfProducer DEF AddTask
  <2>. HIDE DEF t
  <2>2. CASE Push(p, t)
    <3>1. Queue!Accept(t)
      BY <1>1, <2>2 DEF AddTask, Push, Queue!Accept
    <3>. QED
      BY <2>1, <3>1 DEF Queue!Next, AnyTask, Queue!AnyTask
  <2>3. CASE Refuse
    BY <1>1, <2>3 DEF AddTask, Refuse
  <2>. QED
    BY <1>1, <2>2, <2>3 DEF AddTask, t
<1>2. ASSUME Stop PROVE [Queue!Next]_(Queue!vars)
  <2>1. Queue!Close
    BY <1>2 DEF Stop, queueVars, Queue!Close
  <2>. QED
    BY <2>1 DEF Queue!Next
<1>3. ASSUME Shutdown PROVE [Queue!Next]_(Queue!vars)
  <2>1. Queue!Accept(StopTask)
    BY <1>3 DEF Shutdown, Queue!Accept
  <2>. QED
    BY <2>1 DEF Queue!Next, Queue!AnyTask
<1>4. ASSUME RunTask PROVE [Queue!Next]_(Queue!vars)
  <2>1. /\ Len(handled) < Len(accepted)
        /\ accepted[Len(handled) + 1] = Head(tmpTaskList)
    BY <1>0, <1>4, HeadOfBatch DEF RunTask
  <2>2. /\ handled' = Append(handled, Head(tmpTaskList))
        /\ accepted' = accepted
        /\ threadState' = "TERMINATED" \/ threadState' = threadState
    BY <1>4 DEF RunTask
  <2>3. Queue!Handle
    BY <2>1, <2>2 DEF Queue!Handle
  <2>. QED
    BY <2>3 DEF Queue!Next
<1>5. ASSUME UNCHANGED <<accepted, handled, threadState>> PROVE [Queue!Next]_(Queue!vars)
  BY <1>5
<1>. QED
  BY <1>1, <1>2, <1>3, <1>4, <1>5
  DEF Next, Signal, Worker, CheckState, Wait, SpuriousWake, TakeBatch, EndBatch, Finished, vars, queueVars

\* Behind its lock and condition variable the dispatcher is an ordered queue
\* that handles each accepted task once and accepts nothing after stop().
THEOREM DispatcherImplementsQueue == Spec => ImplementsQueue
BY QueueInit, QueueStep, InvAlways, PTL DEF Spec, ImplementsQueue, Queue!Spec

-----------------------------------------------------------------------------
(* The scheduler.                                                          *)

\* The two places of Whereabouts that are counted.
Held(e, queue) ==
    {i \in 1..Len(queue) : queue[i].kind \in {"arm", "done"} /\ queue[i].event = e}
Waiting(e, map) == {id \in DOMAIN map : map[id] = e}

\* What one handler, one timer adds to the count.
Carries(handler, e) ==
    IF handler.kind \in {"arm", "done"} /\ handler.event = e THEN 1 ELSE 0
Waits(id, e) == IF id \in DOMAIN timers /\ timers[id] = e THEN 1 ELSE 0

-----------------------------------------------------------------------------
(* Counting.                                                               *)

LEMMA OneMore ==
    ASSUME NEW S, IsFiniteSet(S), NEW x, x \notin S
    PROVE  Cardinality(S) \in Nat /\ Cardinality(S \cup {x}) = Cardinality(S) + 1
BY FS_CardinalityType, FS_AddElement

LEMMA OneLess ==
    ASSUME NEW S, IsFiniteSet(S), NEW x
    PROVE  /\ Cardinality(S) \in Nat /\ Cardinality(S \ {x}) \in Nat /\ IsFiniteSet(S \ {x})
           /\ x \in S => Cardinality(S) = Cardinality(S \ {x}) + 1
           /\ x \notin S => Cardinality(S) = Cardinality(S \ {x})
<1>1. IsFiniteSet(S \ {x})
  BY FS_RemoveElement
<1>2. Cardinality(S) \in Nat /\ Cardinality(S \ {x}) \in Nat
  BY <1>1, FS_CardinalityType
<1>. QED
  BY <1>1, <1>2, FS_RemoveElement

LEMMA HeldFinite ==
    ASSUME NEW e, NEW queue \in Seq(Handler)
    PROVE  IsFiniteSet(Held(e, queue)) /\ Cardinality(Held(e, queue)) \in Nat
<1>1. Len(queue) \in Nat
  BY LenProperties
<1>2. IsFiniteSet(1..Len(queue))
  BY <1>1, FS_Interval
<1>3. Held(e, queue) \in SUBSET (1..Len(queue))
  BY DEF Held
<1>. QED
  BY <1>2, <1>3, FS_Subset, FS_CardinalityType

\* A handler posted.
LEMMA HeldAppend ==
    ASSUME NEW e, NEW queue \in Seq(Handler), NEW h \in Handler
    PROVE  /\ Append(queue, h) \in Seq(Handler)
           /\ Cardinality(Held(e, Append(queue, h))) = Cardinality(Held(e, queue)) + Carries(h, e)
<1>. DEFINE n == Len(queue)
            after == Append(queue, h)
<1>1. /\ n \in Nat /\ after \in Seq(Handler) /\ Len(after) = n + 1
      /\ \A i \in 1..n : after[i] = queue[i]
      /\ after[n + 1] = h
  BY LenProperties, AppendProperties
<1>2. n + 1 \notin Held(e, queue)
  BY <1>1 DEF Held
<1>3. CASE h.kind \in {"arm", "done"} /\ h.event = e
  <2>1. Held(e, after) = Held(e, queue) \cup {n + 1}
    BY <1>1, <1>3 DEF Held
  <2>. QED
    BY <1>1, <1>2, <1>3, <2>1, HeldFinite, OneMore DEF Carries
<1>4. CASE ~(h.kind \in {"arm", "done"} /\ h.event = e)
  <2>1. Held(e, after) = Held(e, queue)
    BY <1>1, <1>4 DEF Held
  <2>. QED
    BY <1>1, <1>4, <2>1, HeldFinite DEF Carries
<1>. QED
  BY <1>3, <1>4

\* A handler taken off the queue.
LEMMA HeldTail ==
    ASSUME NEW e, NEW queue \in Seq(Handler), queue # <<>>
    PROVE  /\ Head(queue) \in Handler
           /\ Tail(queue) \in Seq(Handler)
           /\ Cardinality(Held(e, queue)) = Cardinality(Held(e, Tail(queue))) + Carries(Head(queue), e)
<1>. DEFINE n == Len(queue)
            rest == Tail(queue)
            later == Held(e, queue) \ {1}
            shift == [i \in Held(e, rest) |-> i + 1]
<1>1. /\ n \in Nat \ {0} /\ rest \in Seq(Handler) /\ Len(rest) = n - 1
      /\ \A i \in 1..(n - 1) : rest[i] = queue[i + 1]
      /\ Head(queue) \in Handler /\ Head(queue) = queue[1]
  BY EmptySeq, LenProperties, HeadTailProperties
<1>2. shift \in Bijection(Held(e, rest), later)
  <2>1. \A i \in Held(e, rest) : i + 1 \in later
    BY <1>1 DEF Held
  <2>2. \A j \in later : j - 1 \in Held(e, rest) /\ (j - 1) + 1 = j
    BY <1>1 DEF Held
  <2>3. Held(e, rest) \subseteq Int
    BY DEF Held
  <2>4. shift \in [Held(e, rest) -> later] /\ \A j \in later : \E i \in Held(e, rest) : shift[i] = j
    BY <2>1, <2>2
  <2>5. \A i, k \in Held(e, rest) : shift[i] = shift[k] => i = k
    BY <2>3
  <2>. QED
    BY <2>4, <2>5, Fun_IsBij
<1>3. Cardinality(later) = Cardinality(Held(e, rest))
  <2>1. ExistsBijection(Held(e, rest), later)
    BY <1>2, Fun_ExistsBij
  <2>2. IsFiniteSet(Held(e, rest))
    BY <1>1, HeldFinite
  <2>. QED
    BY <2>1, <2>2, FS_Bijection
<1>4. IsFiniteSet(Held(e, queue))
  BY HeldFinite
<1>5. CASE 1 \in Held(e, queue)
  <2>1. Carries(Head(queue), e) = 1
    BY <1>1, <1>5 DEF Held, Carries
  <2>. QED
    BY <1>1, <1>3, <1>4, <1>5, <2>1, OneLess
<1>6. CASE 1 \notin Held(e, queue)
  <2>1. Carries(Head(queue), e) = 0
    BY <1>1, <1>6 DEF Held, Carries
  <2>. QED
    BY <1>1, <1>3, <1>4, <1>6, <2>1, OneLess
<1>. QED
  BY <1>5, <1>6

LEMMA WaitingFinite ==
    ASSUME NEW e, NEW map, DOMAIN map \subseteq Ids
    PROVE  IsFiniteSet(Waiting(e, map)) /\ Cardinality(Waiting(e, map)) \in Nat
<1>1. IsFiniteSet(Ids)
  BY IdCountAssumption, FS_Interval DEF Ids
<1>2. Waiting(e, map) \in SUBSET Ids
  BY DEF Waiting
<1>. QED
  BY <1>1, <1>2, FS_Subset, FS_CardinalityType

\* The timer of an id that waits no more, whether its entry stays or goes.
LEMMA WaitingLess ==
    ASSUME SchedulerTypeOK, NEW id, NEW e \in Events, NEW map,
           \/ map = Without(id)
           \/ id \in DOMAIN timers /\ map = [timers EXCEPT ![id] = NoEvent]
    PROVE  Cardinality(Waiting(e, map)) + Waits(id, e) = Cardinality(Waiting(e, timers))
<1>1. Waiting(e, map) = Waiting(e, timers) \ {id}
  BY NoEventAssumption DEF Waiting, Without
<1>2. Waits(id, e) = IF id \in Waiting(e, timers) THEN 1 ELSE 0
  BY DEF Waiting, Waits
<1>3. IsFiniteSet(Waiting(e, timers))
  BY WaitingFinite DEF SchedulerTypeOK
<1>. QED
  BY <1>1, <1>2, <1>3, OneLess

\* The timer of an id set to wait for an event.
Armed(id, f) == [other \in DOMAIN timers \cup {id} |-> IF other = id THEN f ELSE timers[other]]

LEMMA WaitingMore ==
    ASSUME SchedulerTypeOK, NEW id \in Ids, NEW f \in Events, NEW e \in Events
    PROVE  Cardinality(Waiting(e, Armed(id, f))) + Waits(id, e)
               = Cardinality(Waiting(e, timers)) + (IF e = f THEN 1 ELSE 0)
<1>. DEFINE less == Waiting(e, timers) \ {id}
<1>1. IsFiniteSet(Waiting(e, timers)) /\ Cardinality(Waiting(e, timers)) \in Nat
  BY WaitingFinite DEF SchedulerTypeOK
<1>2. Waits(id, e) = (IF id \in Waiting(e, timers) THEN 1 ELSE 0) /\ Waits(id, e) \in Nat
  BY DEF Waiting, Waits
<1>3. IsFiniteSet(less) /\ Cardinality(less) \in Nat
      /\ Cardinality(less) + Waits(id, e) = Cardinality(Waiting(e, timers))
  BY <1>1, <1>2, OneLess
<1>4. CASE e = f
  <2>1. Waiting(e, Armed(id, f)) = less \cup {id}
    BY <1>4 DEF Waiting, Armed
  <2>2. Cardinality(Waiting(e, Armed(id, f))) = Cardinality(less) + 1
    BY <1>3, <2>1, OneMore
  <2>. QED
    BY <1>1, <1>2, <1>3, <1>4, <2>2
<1>5. CASE e # f
  <2>1. Waiting(e, Armed(id, f)) = less
    BY <1>5 DEF Waiting, Armed
  <2>2. Cardinality(Waiting(e, Armed(id, f))) = Cardinality(less)
    BY <2>1, Zenon
  <2>. QED
    BY <1>1, <1>2, <1>3, <1>5, <2>2
<1>. QED
  BY <1>4, <1>5

LEMMA AbortType ==
    ASSUME SchedulerTypeOK, NEW id, NEW queue \in Seq(Handler)
    PROVE  Abort(id, queue) \in Seq(Handler)
BY AppendProperties DEF Abort, Done, Handler, SchedulerTypeOK

\* The wait that Abort cancels becomes a handler.
LEMMA HeldAbort ==
    ASSUME SchedulerTypeOK, NEW id, NEW e \in Events, NEW queue \in Seq(Handler)
    PROVE  Cardinality(Held(e, Abort(id, queue))) = Cardinality(Held(e, queue)) + Waits(id, e)
<1>1. CASE id \in DOMAIN timers /\ timers[id] # NoEvent
  <2>1. timers[id] \in Events
    BY <1>1 DEF SchedulerTypeOK
  <2>2. Done(timers[id], TRUE) \in Handler
    BY <2>1 DEF Done, Handler
  <2>3. Carries(Done(timers[id], TRUE), e) = Waits(id, e)
    BY <1>1 DEF Carries, Done, Waits
  <2>. QED
    BY <1>1, <2>2, <2>3, HeldAppend DEF Abort
<1>2. CASE ~(id \in DOMAIN timers /\ timers[id] # NoEvent)
  <2>1. Abort(id, queue) = queue /\ Waits(id, e) = 0
    BY <1>2, NoEventAssumption DEF Abort, Waits
  <2>. QED
    BY <2>1, HeldFinite
<1>. QED
  BY <1>1, <1>2
-----------------------------------------------------------------------------
(* Every step moves each event from one place to another.                  *)

Safe == SchedulerTypeOK /\ OneOwner

\* Who is posted or waited for has been added, and so has an id.
LEMMA OwnedHasId ==
    ASSUME Safe, NEW e \in Events,
           \/ \E i \in 1..Len(ops) : ops[i].kind \in {"arm", "done"} /\ ops[i].event = e
           \/ \E id \in DOMAIN timers : timers[id] = e
    PROVE  idOf[e] \in Ids
<1>1. /\ IsFiniteSet(Held(e, ops)) /\ Cardinality(Held(e, ops)) \in Nat
      /\ IsFiniteSet(Waiting(e, timers)) /\ Cardinality(Waiting(e, timers)) \in Nat
  BY HeldFinite, WaitingFinite DEF Safe, SchedulerTypeOK
<1>2. Held(e, ops) # {} \/ Waiting(e, timers) # {}
  BY DEF Held, Waiting
<1>3. Cardinality(Held(e, ops)) # 0 \/ Cardinality(Waiting(e, timers)) # 0
  BY <1>1, <1>2, FS_EmptySet
<1>4. dispatched[e] \in Nat /\ deleted[e] \in Nat
  BY DEF Safe, SchedulerTypeOK
<1>5. Whereabouts(e) # 0
  BY <1>1, <1>3, <1>4 DEF Whereabouts, Held, Waiting
<1>. QED
  BY <1>5 DEF Safe, OneOwner, SchedulerTypeOK

\* The count, in the terms of the lemmas above.
LEMMA WhereaboutsSum ==
    \A e : Whereabouts(e) = Cardinality(Held(e, ops)) + Cardinality(Waiting(e, timers))
                               + dispatched[e] + deleted[e]
BY DEF Whereabouts, Held, Waiting

\* What a handler does with what is counted: it gives `dispatches' and `deletes'
\* more of e to the outcomes, and takes as many from the queue and the timers.
Counts(e) ==
    /\ Cardinality(Held(e, ops)) \in Nat /\ Cardinality(Waiting(e, timers)) \in Nat
    /\ dispatched[e] \in Nat /\ deleted[e] \in Nat

LEMMA CountsNat == SchedulerTypeOK => \A e \in Events : Counts(e)
BY HeldFinite, WaitingFinite DEF SchedulerTypeOK, Counts

LEMMA InitSafe == SchedulerInit => Safe
<1>. SUFFICES ASSUME SchedulerInit PROVE Safe
  OBVIOUS
<1>1. SchedulerTypeOK
  BY IdCountAssumption, EmptySeq DEF SchedulerInit, SchedulerTypeOK, Ids
<1>2. ASSUME NEW e \in Events PROVE Whereabouts(e) = 0
  <2>1. Held(e, ops) = {} /\ Waiting(e, timers) = {} /\ dispatched[e] = 0 /\ deleted[e] = 0
    BY EmptySeq DEF SchedulerInit, Held, Waiting
  <2>. QED
    BY <2>1, WhereaboutsSum, FS_EmptySet
<1>. QED
  BY <1>1, <1>2 DEF Safe, OneOwner, SchedulerInit

LEMMA AddEventSafe ==
    ASSUME Safe, NEW e \in Events, AddEvent(e)
    PROVE  Safe'
<1>. DEFINE h == [kind |-> "arm", event |-> e]
<1>1. h \in Handler /\ NextId(lastEventId) \in Ids
  BY IdCountAssumption DEF Handler, NextId, Ids, Safe, SchedulerTypeOK
<1>2. SchedulerTypeOK'
  <2>1. idOf' \in [Events -> Ids \cup {NoId}]
    BY <1>1 DEF AddEvent, Safe, SchedulerTypeOK
  <2>. QED
    BY <1>1, <2>1, AppendProperties DEF AddEvent, Safe, SchedulerTypeOK
<1>3. ASSUME NEW f \in Events PROVE Whereabouts(f)' = IF idOf'[f] = NoId THEN 0 ELSE 1
  <2>1. Cardinality(Held(f, ops')) = Cardinality(Held(f, ops)) + Carries(h, f)
    BY <1>1, HeldAppend DEF AddEvent, Safe, SchedulerTypeOK
  <2>2. Carries(h, f) = IF f = e THEN 1 ELSE 0
    BY DEF Carries
  <2>3. Whereabouts(f)' = Whereabouts(f) + Carries(h, f)
    <3>1. Whereabouts(f)' = Cardinality(Held(f, ops')) + Cardinality(Waiting(f, timers))
                              + dispatched[f] + deleted[f]
      BY DEF AddEvent, Whereabouts, Held, Waiting
    <3>2. Counts(f)
      BY CountsNat DEF Safe
    <3>. QED
      BY <2>1, <2>2, <3>1, <3>2, WhereaboutsSum DEF Counts
  <2>4. idOf'[f] = IF f = e THEN NextId(lastEventId) ELSE idOf[f]
    BY DEF AddEvent, Safe, SchedulerTypeOK
  <2>5. NextId(lastEventId) # NoId
    BY <1>1, IdCountAssumption DEF Ids, NoId
  <2>. QED
    BY <2>2, <2>3, <2>4, <2>5 DEF AddEvent, Safe, OneOwner
<1>. QED
  BY <1>2, <1>3 DEF Safe, OneOwner

\* What is left of a step to show for the count, once it keeps the types.
LEMMA WhereaboutsKept ==
    ASSUME Safe, SchedulerTypeOK', idOf' = idOf,
           \A f \in Events :
               Cardinality(Held(f, ops')) + Cardinality(Waiting(f, timers'))
                   + dispatched'[f] + deleted'[f] = Whereabouts(f)
    PROVE  Safe'
<1>1. ASSUME NEW f \in Events PROVE Whereabouts(f)' = Whereabouts(f)
  BY DEF Whereabouts, Held, Waiting
<1>. QED
  BY <1>1 DEF Safe, OneOwner

LEMMA StopEventSafe ==
    ASSUME Safe, NEW e \in Events, StopEvent(e)
    PROVE  Safe'
<1>. DEFINE h == [kind |-> "cancel", id |-> idOf[e]]
<1>1. h \in Handler
  BY DEF StopEvent, Handler, Safe, SchedulerTypeOK
<1>2. ops' = ops \/ ops' = Append(ops, h)
  BY DEF StopEvent
<1>3. SchedulerTypeOK'
  BY <1>1, <1>2, AppendProperties DEF StopEvent, Safe, SchedulerTypeOK
<1>4. ASSUME NEW f \in Events
      PROVE  Cardinality(Held(f, ops')) + Cardinality(Waiting(f, timers'))
                   + dispatched'[f] + deleted'[f] = Whereabouts(f)
  <2>1. Carries(h, f) = 0
    BY DEF Carries
  <2>2. Cardinality(Held(f, ops')) = Cardinality(Held(f, ops))
    <3>1. ops \in Seq(Handler) /\ Cardinality(Held(f, ops)) \in Nat
      BY HeldFinite DEF Safe, SchedulerTypeOK
    <3>2. Cardinality(Held(f, Append(ops, h))) = Cardinality(Held(f, ops))
      BY <1>1, <2>1, <3>1, HeldAppend
    <3>. QED
      BY <1>2, <3>2
  <2>. QED
    BY <2>2, WhereaboutsSum DEF StopEvent
<1>. QED
  BY <1>3, <1>4, WhereaboutsKept DEF StopEvent

LEMMA ShutdownSafe ==
    ASSUME Safe, SchedulerShutdown
    PROVE  Safe'
<1>. DEFINE h == [kind |-> "halt"]
<1>1. h \in Handler
  BY DEF Handler
<1>2. SchedulerTypeOK'
  BY <1>1, AppendProperties DEF SchedulerShutdown, Safe, SchedulerTypeOK
<1>3. ASSUME NEW f \in Events
      PROVE  Cardinality(Held(f, ops')) + Cardinality(Waiting(f, timers'))
                   + dispatched'[f] + deleted'[f] = Whereabouts(f)
  <2>1. Carries(h, f) = 0
    BY DEF Carries
  <2>2. Cardinality(Held(f, ops')) = Cardinality(Held(f, ops))
    BY <1>1, <2>1, HeldAppend, HeldFinite DEF SchedulerShutdown, Safe, SchedulerTypeOK
  <2>. QED
    BY <2>2, WhereaboutsSum DEF SchedulerShutdown
<1>. QED
  BY <1>2, <1>3, WhereaboutsKept DEF SchedulerShutdown

LEMMA ExpireSafe ==
    ASSUME Safe, NEW id \in Ids, Expire(id)
    PROVE  Safe'
<1>. DEFINE h == Done(timers[id], FALSE)
<1>1. h \in Handler
  BY DEF Expire, Done, Handler, Safe, SchedulerTypeOK
<1>2. SchedulerTypeOK'
  BY <1>1, AppendProperties DEF Expire, Safe, SchedulerTypeOK
<1>3. ASSUME NEW f \in Events
      PROVE  Cardinality(Held(f, ops')) + Cardinality(Waiting(f, timers'))
                   + dispatched'[f] + deleted'[f] = Whereabouts(f)
  <2>1. Carries(h, f) = Waits(id, f) /\ Waits(id, f) \in Nat
    BY DEF Carries, Done, Waits, Expire
  <2>2. Cardinality(Held(f, ops')) = Cardinality(Held(f, ops)) + Waits(id, f)
    BY <1>1, <2>1, HeldAppend DEF Expire, Safe, SchedulerTypeOK
  <2>3. Cardinality(Waiting(f, timers')) + Waits(id, f) = Cardinality(Waiting(f, timers))
    BY WaitingLess DEF Expire, Safe
  <2>4. Counts(f) /\ Cardinality(Waiting(f, timers')) \in Nat
    BY <1>2, CountsNat, WaitingFinite DEF Safe, SchedulerTypeOK
  <2>5. dispatched' = dispatched /\ deleted' = deleted
    BY DEF Expire
  <2>. QED
    BY <2>1, <2>2, <2>3, <2>4, <2>5, WhereaboutsSum DEF Counts
<1>. QED
  BY <1>2, <1>3, WhereaboutsKept DEF Expire

\* The event whose handler is at the head of the queue.
LEMMA HeadHasId ==
    ASSUME Safe, ops # <<>>, Head(ops).kind \in {"arm", "done"}
    PROVE  Head(ops).event \in Events /\ idOf[Head(ops).event] \in Ids
<1>1. Head(ops) \in Handler /\ Head(ops) = ops[1] /\ 1 \in 1..Len(ops)
  BY HeadTailProperties, EmptySeq DEF Safe, SchedulerTypeOK
<1>2. Head(ops).event \in Events
  BY <1>1 DEF Handler
<1>. QED
  BY <1>1, <1>2, OwnedHasId

LEMMA RunArmSafe ==
    ASSUME Safe, RunHandler, RunArm(Head(ops))
    PROVE  Safe'
<1>. DEFINE op == Head(ops)
            id == idOf[op.event]
<1>1. /\ ops # <<>> /\ op \in Handler /\ Tail(ops) \in Seq(Handler)
      /\ op.event \in Events /\ id \in Ids
  BY HeadTailProperties, HeadHasId DEF RunHandler, RunArm, Safe, SchedulerTypeOK
<1>2. SchedulerTypeOK'
  <2>1. ops' \in Seq(Handler)
    BY <1>1, AbortType DEF RunArm, Safe
  <2>2. DOMAIN timers' \subseteq Ids /\ \A other \in DOMAIN timers' : timers'[other] \in Events \cup {NoEvent}
    BY <1>1 DEF RunArm, Safe, SchedulerTypeOK
  <2>. QED
    BY <2>1, <2>2 DEF RunHandler, RunArm, Safe, SchedulerTypeOK
<1>3. ASSUME NEW f \in Events
      PROVE  Cardinality(Held(f, ops')) + Cardinality(Waiting(f, timers'))
                   + dispatched'[f] + deleted'[f] = Whereabouts(f)
  <2>1. Carries(op, f) = (IF f = op.event THEN 1 ELSE 0) /\ Waits(id, f) \in Nat
    BY DEF Carries, Waits, RunArm
  <2>2. Cardinality(Held(f, ops)) = Cardinality(Held(f, Tail(ops))) + Carries(op, f)
    BY <1>1, HeldTail DEF Safe, SchedulerTypeOK
  <2>3. Cardinality(Held(f, ops')) = Cardinality(Held(f, Tail(ops))) + Waits(id, f)
    BY <1>1, HeldAbort DEF RunArm, Safe
  <2>4. Cardinality(Waiting(f, timers')) + Waits(id, f)
            = Cardinality(Waiting(f, timers)) + (IF f = op.event THEN 1 ELSE 0)
    <3>1. timers' = Armed(id, op.event)
      BY DEF RunArm, Armed
    <3>2. SchedulerTypeOK
      BY DEF Safe
    <3>. HIDE DEF op, id
    <3>. QED
      BY <1>1, <3>1, <3>2, WaitingMore, Zenon
  <2>5. Counts(f) /\ Cardinality(Waiting(f, timers')) \in Nat /\ Cardinality(Held(f, Tail(ops))) \in Nat
    BY <1>1, <1>2, CountsNat, WaitingFinite, HeldFinite DEF Safe, SchedulerTypeOK
  <2>6. dispatched' = dispatched /\ deleted' = deleted
    BY DEF RunArm
  <2>. QED
    BY <2>1, <2>2, <2>3, <2>4, <2>5, <2>6, WhereaboutsSum DEF Counts
<1>. QED
  BY <1>2, <1>3, WhereaboutsKept DEF RunHandler

LEMMA RunCancelSafe ==
    ASSUME Safe, RunHandler, RunCancel(Head(ops))
    PROVE  Safe'
<1>. DEFINE op == Head(ops)
            id == op.id
<1>1. ops # <<>> /\ op \in Handler /\ Tail(ops) \in Seq(Handler)
  BY HeadTailProperties DEF RunHandler, Safe, SchedulerTypeOK
<1>2. \/ id \in DOMAIN timers /\ timers' = [timers EXCEPT ![id] = NoEvent]
      \/ ~(id \in DOMAIN timers /\ timers[id] # NoEvent) /\ timers' = timers
  BY DEF RunCancel
<1>3. SchedulerTypeOK'
  <2>1. ops' \in Seq(Handler)
    BY <1>1, AbortType DEF RunCancel, Safe
  <2>. QED
    BY <1>2, <2>1 DEF RunHandler, RunCancel, Safe, SchedulerTypeOK
<1>4. ASSUME NEW f \in Events
      PROVE  Cardinality(Held(f, ops')) + Cardinality(Waiting(f, timers'))
                   + dispatched'[f] + deleted'[f] = Whereabouts(f)
  <2>1. Carries(op, f) = 0 /\ Waits(id, f) \in Nat
    BY DEF Carries, Waits, RunCancel
  <2>2. Cardinality(Held(f, ops)) = Cardinality(Held(f, Tail(ops))) + Carries(op, f)
    BY <1>1, HeldTail DEF Safe, SchedulerTypeOK
  <2>3. Cardinality(Held(f, ops')) = Cardinality(Held(f, Tail(ops))) + Waits(id, f)
    BY <1>1, HeldAbort DEF RunCancel, Safe
  <2>4. Counts(f) /\ Cardinality(Waiting(f, timers')) \in Nat /\ Cardinality(Held(f, Tail(ops))) \in Nat
    BY <1>1, <1>3, CountsNat, WaitingFinite, HeldFinite DEF Safe, SchedulerTypeOK
  <2>5. Cardinality(Waiting(f, timers')) + Waits(id, f) = Cardinality(Waiting(f, timers))
    <3>1. CASE id \in DOMAIN timers /\ timers' = [timers EXCEPT ![id] = NoEvent]
      BY <3>1, WaitingLess DEF Safe
    <3>2. CASE ~(id \in DOMAIN timers /\ timers[id] # NoEvent) /\ timers' = timers
      BY <2>4, <3>2, NoEventAssumption DEF Waits, Counts
    <3>. QED
      BY <1>2, <3>1, <3>2
  <2>6. dispatched' = dispatched /\ deleted' = deleted
    BY DEF RunCancel
  <2>. QED
    BY <2>1, <2>2, <2>3, <2>4, <2>5, <2>6, WhereaboutsSum DEF Counts
<1>. QED
  BY <1>3, <1>4, WhereaboutsKept DEF RunHandler

LEMMA RunDoneSafe ==
    ASSUME Safe, RunHandler, RunDone(Head(ops))
    PROVE  Safe'
<1>. DEFINE op == Head(ops)
            id == idOf[op.event]
<1>1. /\ ops # <<>> /\ op \in Handler /\ Tail(ops) \in Seq(Handler)
      /\ op.event \in Events /\ id \in Ids
  BY HeadTailProperties, HeadHasId DEF RunHandler, RunDone, Safe, SchedulerTypeOK
<1>2. \/ dispatched' = [dispatched EXCEPT ![op.event] = @ + 1] /\ deleted' = deleted
      \/ deleted' = [deleted EXCEPT ![op.event] = @ + 1] /\ dispatched' = dispatched
  BY DEF RunDone
<1>3. SchedulerTypeOK'
  <2>1. ops' \in Seq(Handler)
    BY <1>1, AbortType DEF RunDone, Safe
  <2>2. DOMAIN timers' \subseteq Ids /\ \A other \in DOMAIN timers' : timers'[other] \in Events \cup {NoEvent}
    BY DEF RunDone, Without, Safe, SchedulerTypeOK
  <2>3. dispatched' \in [Events -> Nat] /\ deleted' \in [Events -> Nat]
    <3>1. dispatched \in [Events -> Nat] /\ deleted \in [Events -> Nat]
      BY DEF Safe, SchedulerTypeOK
    <3>2. ASSUME NEW g \in [Events -> Nat]
          PROVE  [g EXCEPT ![op.event] = @ + 1] \in [Events -> Nat]
      <4>. HIDE DEF op
      <4>. QED
        BY <1>1
    <3>. QED
      BY <1>2, <3>1, <3>2, Zenon
  <2>. QED
    BY <2>1, <2>2, <2>3 DEF RunHandler, RunDone, Safe, SchedulerTypeOK
<1>4. ASSUME NEW f \in Events
      PROVE  Cardinality(Held(f, ops')) + Cardinality(Waiting(f, timers'))
                   + dispatched'[f] + deleted'[f] = Whereabouts(f)
  <2>1. Carries(op, f) = (IF f = op.event THEN 1 ELSE 0)
    BY DEF Carries, RunDone
  <2>2. Carries(op, f) \in Nat /\ Waits(id, f) \in Nat
    BY DEF Carries, Waits, RunDone
  <2>3. Cardinality(Held(f, ops)) = Cardinality(Held(f, Tail(ops))) + Carries(op, f)
    BY <1>1, HeldTail DEF Safe, SchedulerTypeOK
  <2>4. Cardinality(Held(f, ops')) = Cardinality(Held(f, Tail(ops))) + Waits(id, f)
    BY <1>1, HeldAbort DEF RunDone, Safe
  <2>5. Cardinality(Waiting(f, timers')) + Waits(id, f) = Cardinality(Waiting(f, timers))
    <3>1. timers' = Without(id) /\ SchedulerTypeOK
      BY DEF RunDone, Safe
    <3>. QED
      BY <3>1, WaitingLess, Zenon
  <2>6. Counts(f) /\ Cardinality(Waiting(f, timers')) \in Nat /\ Cardinality(Held(f, Tail(ops))) \in Nat
    BY <1>1, <1>3, CountsNat, WaitingFinite, HeldFinite DEF Safe, SchedulerTypeOK
  <2>7. dispatched'[f] + deleted'[f] = dispatched[f] + deleted[f] + Carries(op, f)
    <3>1. dispatched \in [Events -> Nat] /\ deleted \in [Events -> Nat]
      BY DEF Safe, SchedulerTypeOK
    <3>. QED
      BY <1>2, <1>1, <2>1, <3>1
  <2>8. dispatched'[f] \in Nat /\ deleted'[f] \in Nat
    BY <1>3 DEF SchedulerTypeOK
  <2>9. Whereabouts(f) = Cardinality(Held(f, ops)) + Cardinality(Waiting(f, timers))
                           + dispatched[f] + deleted[f]
    BY WhereaboutsSum
  <2>. HIDE DEF op, id
  <2>. QED
    BY <2>2, <2>3, <2>4, <2>5, <2>6, <2>7, <2>8, <2>9 DEF Counts
<1>. QED
  BY <1>3, <1>4, WhereaboutsKept DEF RunHandler

LEMMA RunHaltSafe ==
    ASSUME Safe, RunHandler, RunHalt(Head(ops))
    PROVE  Safe'
<1>1. ops # <<>> /\ Head(ops) \in Handler /\ Tail(ops) \in Seq(Handler)
  BY HeadTailProperties DEF RunHandler, Safe, SchedulerTypeOK
<1>2. SchedulerTypeOK'
  BY <1>1 DEF RunHandler, RunHalt, Safe, SchedulerTypeOK
<1>3. ASSUME NEW f \in Events
      PROVE  Cardinality(Held(f, ops')) + Cardinality(Waiting(f, timers'))
                   + dispatched'[f] + deleted'[f] = Whereabouts(f)
  <2>1. Carries(Head(ops), f) = 0
    BY DEF Carries, RunHalt
  <2>2. Cardinality(Held(f, ops)) = Cardinality(Held(f, Tail(ops)))
    <3>1. ops \in Seq(Handler) /\ Cardinality(Held(f, Tail(ops))) \in Nat
      BY <1>1, HeldFinite DEF Safe, SchedulerTypeOK
    <3>2. Cardinality(Held(f, ops)) = Cardinality(Held(f, Tail(ops))) + Carries(Head(ops), f)
      BY <1>1, <3>1, HeldTail
    <3>. QED
      BY <2>1, <3>1, <3>2
  <2>. QED
    BY <2>2, WhereaboutsSum DEF RunHalt
<1>. QED
  BY <1>2, <1>3, WhereaboutsKept DEF RunHandler

LEMMA SafeStep == Safe /\ [SchedulerNext]_schedulerVars => Safe'
<1>. SUFFICES ASSUME Safe, [SchedulerNext]_schedulerVars PROVE Safe'
  OBVIOUS
<1>1. ASSUME NEW e \in Events, AddEvent(e) \/ StopEvent(e) PROVE Safe'
  BY <1>1, AddEventSafe, StopEventSafe
<1>2. CASE SchedulerStop
  BY <1>2 DEF SchedulerStop, Safe, SchedulerTypeOK, OneOwner, Whereabouts
<1>3. CASE SchedulerShutdown
  BY <1>3, ShutdownSafe
<1>4. CASE RunHandler
  BY <1>4, RunArmSafe, RunCancelSafe, RunDoneSafe, RunHaltSafe DEF RunHandler
<1>5. ASSUME NEW id \in Ids, Expire(id) PROVE Safe'
  BY <1>5, ExpireSafe
<1>6. CASE UNCHANGED schedulerVars
  BY <1>6 DEF schedulerVars, Safe, SchedulerTypeOK, OneOwner, Whereabouts
<1>. QED
  BY <1>1, <1>2, <1>3, <1>4, <1>5, <1>6 DEF SchedulerNext

\* The types of the scheduler's state, whatever ids collide.
THEOREM SchedulerTypeCorrect == SchedulerSpec => []SchedulerTypeOK
<1>1. Safe => SchedulerTypeOK
  BY DEF Safe
<1>. QED
  BY <1>1, InitSafe, SafeStep, PTL DEF SchedulerSpec

\* The task of an event has one owner at every moment: a posted handler, a timer,
\* the dispatcher, or nobody once it is deleted (addEvent, stopEvent, shutdown and
\* the completion handlers of src/src/scheduler.cpp).  It holds for any number of
\* events and ids, also after the ids have wrapped around.
THEOREM TasksHaveOneOwner == SchedulerSpec => []OneOwner
<1>1. Safe => OneOwner
  BY DEF Safe
<1>. QED
  BY <1>1, InitSafe, SafeStep, PTL DEF SchedulerSpec

-----------------------------------------------------------------------------
(* Whom a stop reaches.                                                    *)

Made == {e \in Events : idOf[e] # NoId}

\* Until the ids wrap around they count the events, and are different ones.
IdsDiffer ==
    /\ IsFiniteSet(Made)
    /\ Cardinality(Made) < IdCount =>
          lastEventId = Cardinality(Made) /\ \A e \in Made : idOf[e] \in 1..Cardinality(Made)
    /\ Cardinality(Made) <= IdCount => \A e, f \in Made : idOf[e] = idOf[f] => e = f

\* A timer waits for an event of its id.
TimersOwn == \A id \in DOMAIN timers : timers[id] # NoEvent => idOf[timers[id]] = id

\* A stop under way has the id of an event that was stopped.
StopsAsked ==
    /\ stopCalled \subseteq Made
    /\ \A i \in 1..Len(ops) :
          ops[i].kind = "cancel" => \E e \in stopCalled : idOf[e] = ops[i].id

\* A wait is cancelled only for an event that was stopped.
AbortsAsked ==
    Cardinality(Made) <= IdCount =>
        \A i \in 1..Len(ops) :
            ops[i].kind = "done" /\ ops[i].aborted => ops[i].event \in stopCalled

IInv == Safe /\ IdsDiffer /\ TimersOwn /\ StopsAsked /\ AbortsAsked /\ NoForeignStop

\* An event whose handler is posted waits for no timer.
LEMMA NotBoth ==
    ASSUME Safe, NEW i \in 1..Len(ops), ops[i].kind \in {"arm", "done"}, ops[i].event \in Events
    PROVE  \A id \in DOMAIN timers : timers[id] # ops[i].event
<1>. SUFFICES ASSUME NEW id \in DOMAIN timers, timers[id] = ops[i].event PROVE FALSE
  OBVIOUS
<1>. DEFINE e == ops[i].event
<1>1. /\ IsFiniteSet(Held(e, ops)) /\ IsFiniteSet(Waiting(e, timers)) /\ Counts(e)
  BY CountsNat, HeldFinite, WaitingFinite DEF Safe, SchedulerTypeOK
<1>2. Held(e, ops) # {} /\ Waiting(e, timers) # {}
  BY DEF Held, Waiting
<1>3. Cardinality(Held(e, ops)) # 0 /\ Cardinality(Waiting(e, timers)) # 0
  BY <1>1, <1>2, FS_EmptySet
<1>4. Whereabouts(e) >= 2
  BY <1>1, <1>3, WhereaboutsSum DEF Counts
<1>5. Whereabouts(e) \in {0, 1}
  BY DEF Safe, OneOwner
<1>. QED
  BY <1>4, <1>5

\* So arming a timer, or erasing it, cancels no wait while ids are different.
LEMMA AbortsNothing ==
    ASSUME Safe, IdsDiffer, TimersOwn, Cardinality(Made) <= IdCount,
           ops # <<>>, Head(ops).kind \in {"arm", "done"}, NEW queue
    PROVE  Abort(idOf[Head(ops).event], queue) = queue
<1>. DEFINE e == Head(ops).event
<1>1. e \in Events /\ idOf[e] \in Ids
  BY HeadHasId
<1>2. Head(ops) = ops[1] /\ 1 \in 1..Len(ops)
  BY EmptySeq DEF Safe, SchedulerTypeOK
<1>3. \A id \in DOMAIN timers : timers[id] # e
  BY <1>1, <1>2, NotBoth
<1>4. SUFFICES ASSUME idOf[e] \in DOMAIN timers, timers[idOf[e]] # NoEvent PROVE FALSE
  BY DEF Abort
<1>5. timers[idOf[e]] \in Events /\ idOf[timers[idOf[e]]] = idOf[e]
  BY <1>4 DEF TimersOwn, Safe, SchedulerTypeOK
<1>6. e \in Made /\ timers[idOf[e]] \in Made
  BY <1>1, <1>5 DEF Made, Ids, NoId
<1>7. timers[idOf[e]] = e
  BY <1>5, <1>6 DEF IdsDiffer
<1>. QED
  BY <1>3, <1>4, <1>7

LEMMA InitIInv == SchedulerInit => IInv
<1>. SUFFICES ASSUME SchedulerInit PROVE IInv
  OBVIOUS
<1>1. Made = {}
  BY DEF SchedulerInit, Made
<1>2. IsFiniteSet(Made) /\ Cardinality(Made) = 0
  BY <1>1, FS_EmptySet
<1>3. Len(ops) = 0 /\ DOMAIN timers = {} /\ stopCalled = {}
  BY EmptySeq DEF SchedulerInit
<1>. QED
  BY <1>1, <1>2, <1>3, InitSafe
     DEF SchedulerInit, IInv, IdsDiffer, TimersOwn, StopsAsked, AbortsAsked, NoForeignStop

\* The next id is a new one until IdCount events were made.
LEMMA IdsDifferAdd ==
    ASSUME IInv, NEW e \in Events, AddEvent(e)
    PROVE  /\ IdsDiffer'
           /\ Made' = Made \cup {e} /\ e \notin Made
           /\ Cardinality(Made) \in Nat /\ Cardinality(Made') = Cardinality(Made) + 1
<1>. DEFINE n == Cardinality(Made)
            id == NextId(lastEventId)
<1>1. /\ idOf \in [Events -> Ids \cup {NoId}] /\ lastEventId \in Ids
      /\ idOf' = [idOf EXCEPT ![e] = id] /\ lastEventId' = id
      /\ e \notin Made
  BY DEF AddEvent, IInv, Safe, SchedulerTypeOK, Made
<1>2. id \in Ids /\ id # NoId
  BY <1>1, IdCountAssumption DEF NextId, Ids, NoId
<1>3. Made' = Made \cup {e}
  BY <1>1, <1>2 DEF Made
<1>4. n \in Nat /\ IsFiniteSet(Made') /\ Cardinality(Made') = n + 1
  BY <1>1, <1>3, OneMore, FS_AddElement DEF IInv, IdsDiffer
<1>5. n < IdCount => /\ lastEventId = n /\ \A f \in Made : idOf[f] \in 1..n
                     /\ id = IF n + 1 = IdCount THEN 0 ELSE n + 1
  BY <1>4, IdCountAssumption DEF IInv, IdsDiffer, NextId
<1>6. \A f \in Made : idOf'[f] = idOf[f] /\ f # e
  BY <1>1 DEF Made
<1>7. idOf'[e] = id
  BY <1>1
<1>8. ASSUME n + 1 < IdCount
      PROVE  lastEventId' = n + 1 /\ \A f \in Made' : idOf'[f] \in 1..(n + 1)
  <2>1. n < IdCount /\ id = n + 1
    BY <1>4, <1>5, <1>8, IdCountAssumption
  <2>2. ASSUME NEW f \in Made PROVE idOf'[f] \in 1..(n + 1)
    BY <1>4, <1>5, <1>6, <2>1
  <2>. QED
    BY <1>1, <1>3, <1>4, <1>7, <2>1, <2>2
<1>9. ASSUME n + 1 <= IdCount, NEW f \in Made', NEW g \in Made', idOf'[f] = idOf'[g]
      PROVE  f = g
  <2>1. n < IdCount /\ n <= IdCount
    BY <1>4, <1>9, IdCountAssumption
  <2>2. \A h \in Made : idOf'[h] # id
    BY <1>4, <1>5, <1>6, <2>1, IdCountAssumption
  <2>3. \A h, k \in Made : idOf'[h] = idOf'[k] => h = k
    BY <1>6, <2>1 DEF IInv, IdsDiffer
  <2>. QED
    BY <1>3, <1>7, <1>9, <2>2, <2>3
<1>. QED
  BY <1>1, <1>3, <1>4, <1>8, <1>9 DEF IdsDiffer

LEMMA AddEventIInv ==
    ASSUME IInv, NEW e \in Events, AddEvent(e)
    PROVE  IInv'
<1>. DEFINE h == [kind |-> "arm", event |-> e]
<1>1. /\ Safe' /\ IdsDiffer' /\ Made' = Made \cup {e}
      /\ Cardinality(Made') <= IdCount => Cardinality(Made) <= IdCount
  BY AddEventSafe, IdsDifferAdd, IdCountAssumption DEF IInv
<1>2. /\ idOf \in [Events -> Ids \cup {NoId}] /\ idOf[e] = NoId /\ idOf' = [idOf EXCEPT ![e] = lastEventId']
      /\ ops \in Seq(Handler) /\ ops' = Append(ops, h) /\ h \in Handler
      /\ UNCHANGED <<schedulerState, timers, deleted, stopCalled>>
  BY DEF AddEvent, IInv, Safe, SchedulerTypeOK, Handler
<1>3. Len(ops) \in Nat /\ Len(ops') = Len(ops) + 1 /\ ops'[Len(ops) + 1] = h
      /\ \A i \in 1..Len(ops) : ops'[i] = ops[i]
  BY <1>2, LenProperties, AppendProperties
<1>4. TimersOwn'
  <2>1. \A id \in DOMAIN timers : timers[id] # NoEvent => timers[id] \in Events /\ id # NoId
    BY DEF IInv, Safe, SchedulerTypeOK, Ids, NoId
  <2>. QED
    BY <1>2, <2>1 DEF TimersOwn, IInv
<1>5. StopsAsked'
  <2>1. \A f \in stopCalled : idOf'[f] = idOf[f]
    BY <1>2 DEF IInv, StopsAsked, Made
  <2>. QED
    BY <1>1, <1>2, <1>3, <2>1 DEF IInv, StopsAsked
<1>6. AbortsAsked'
  BY <1>1, <1>2, <1>3 DEF IInv, AbortsAsked
<1>7. NoForeignStop'
  BY <1>1, <1>2 DEF IInv, NoForeignStop, Made
<1>. QED
  BY <1>1, <1>4, <1>5, <1>6, <1>7 DEF IInv

LEMMA StopEventIInv ==
    ASSUME IInv, NEW e \in Events, StopEvent(e)
    PROVE  IInv'
<1>. DEFINE h == [kind |-> "cancel", id |-> idOf[e]]
<1>1. Safe' /\ IdsDiffer' /\ TimersOwn' /\ Made' = Made
  BY StopEventSafe DEF StopEvent, IInv, IdsDiffer, TimersOwn, Made
<1>2. /\ ops \in Seq(Handler) /\ (ops' = ops \/ ops' = Append(ops, h)) /\ h \in Handler
      /\ stopCalled' = stopCalled \cup {e} /\ e \in Made
      /\ UNCHANGED <<schedulerState, deleted, idOf>>
  BY DEF StopEvent, IInv, Safe, SchedulerTypeOK, Handler, Made
<1>3. \A i \in 1..Len(ops') : (i \in 1..Len(ops) /\ ops'[i] = ops[i]) \/ ops'[i] = h
  BY <1>2, LenProperties, AppendProperties
<1>4. StopsAsked'
  <2>1. \A i \in 1..Len(ops') : ops'[i].kind = "cancel" =>
            \E f \in stopCalled' : idOf'[f] = ops'[i].id
    BY <1>2, <1>3 DEF IInv, StopsAsked
  <2>. QED
    BY <1>1, <1>2, <2>1 DEF IInv, StopsAsked
<1>5. AbortsAsked'
  BY <1>1, <1>2, <1>3 DEF IInv, AbortsAsked
<1>6. NoForeignStop'
  BY <1>1, <1>2 DEF IInv, NoForeignStop, Made
<1>. QED
  BY <1>1, <1>4, <1>5, <1>6 DEF IInv

LEMMA ShutdownIInv ==
    ASSUME IInv, SchedulerShutdown
    PROVE  IInv'
<1>. DEFINE h == [kind |-> "halt"]
<1>1. Safe' /\ IdsDiffer' /\ TimersOwn' /\ Made' = Made
  BY ShutdownSafe DEF SchedulerShutdown, IInv, IdsDiffer, TimersOwn, Made
<1>2. /\ ops \in Seq(Handler) /\ ops' = Append(ops, h) /\ h \in Handler /\ schedulerState' = "TERMINATED"
      /\ UNCHANGED <<stopCalled, idOf>>
  BY DEF SchedulerShutdown, IInv, Safe, SchedulerTypeOK, Handler
<1>3. \A i \in 1..Len(ops') : (i \in 1..Len(ops) /\ ops'[i] = ops[i]) \/ ops'[i] = h
  BY <1>2, LenProperties, AppendProperties
<1>4. StopsAsked' /\ AbortsAsked' /\ NoForeignStop'
  BY <1>1, <1>2, <1>3 DEF IInv, StopsAsked, AbortsAsked, NoForeignStop
<1>. QED
  BY <1>1, <1>4 DEF IInv

LEMMA ExpireIInv ==
    ASSUME IInv, NEW id \in Ids, Expire(id)
    PROVE  IInv'
<1>. DEFINE h == Done(timers[id], FALSE)
<1>1. Safe' /\ IdsDiffer' /\ Made' = Made
  BY ExpireSafe DEF Expire, IInv, IdsDiffer, Made
<1>2. TimersOwn'
  BY DEF Expire, IInv, TimersOwn
<1>3. /\ ops \in Seq(Handler) /\ ops' = Append(ops, h) /\ h \in Handler
      /\ UNCHANGED <<stopCalled, idOf, deleted, schedulerState>>
  BY DEF Expire, IInv, Safe, SchedulerTypeOK, Handler, Done
<1>4. \A i \in 1..Len(ops') : (i \in 1..Len(ops) /\ ops'[i] = ops[i]) \/ ops'[i] = h
  <2>. HIDE DEF h
  <2>. QED
    BY <1>3, LenProperties, AppendProperties
<1>5. h.kind # "cancel" /\ ~h.aborted
  BY DEF Done
<1>6. StopsAsked' /\ AbortsAsked'
  <2>. HIDE DEF h
  <2>. QED
    BY <1>1, <1>3, <1>4, <1>5 DEF IInv, StopsAsked, AbortsAsked
<1>7. NoForeignStop'
  BY <1>1, <1>3 DEF IInv, NoForeignStop, Made
<1>. QED
  BY <1>1, <1>2, <1>6, <1>7 DEF IInv

\* The handlers after the one at the head.
LEMMA TailHandlers ==
    ASSUME Safe, ops # <<>>
    PROVE  /\ Tail(ops) \in Seq(Handler) /\ Head(ops) = ops[1] /\ 1 \in 1..Len(ops)
           /\ \A i \in 1..Len(Tail(ops)) : i + 1 \in 1..Len(ops) /\ Tail(ops)[i] = ops[i + 1]
BY EmptySeq, LenProperties, HeadTailProperties DEF Safe, SchedulerTypeOK

\* An arm and a completion, which cancel nothing as long as it matters.
LEMMA RunOwnIInv ==
    ASSUME IInv, RunHandler, RunArm(Head(ops)) \/ RunDone(Head(ops))
    PROVE  IInv'
<1>. DEFINE op == Head(ops)
            id == idOf[op.event]
<1>1. /\ Safe' /\ IdsDiffer' /\ Made' = Made
      /\ UNCHANGED <<stopCalled, idOf, schedulerState>>
  BY RunArmSafe, RunDoneSafe DEF RunHandler, IInv, IdsDiffer, Made
<1>2. TimersOwn'
  BY <1>1 DEF RunArm, RunDone, Without, IInv, TimersOwn
<1>3. Safe /\ ops # <<>> /\ ops' = Abort(id, Tail(ops)) /\ op.kind \in {"arm", "done"}
  BY DEF RunHandler, RunArm, RunDone, IInv
<1>4. \A i \in 1..Len(ops') : \/ i + 1 \in 1..Len(ops) /\ ops'[i] = ops[i + 1]
                              \/ ops'[i].kind = "done"
  BY <1>3, TailHandlers, AppendProperties DEF Abort, Done, Handler, IInv, Safe, SchedulerTypeOK
<1>5. StopsAsked'
  BY <1>1, <1>4 DEF IInv, StopsAsked
<1>6. AbortsAsked'
  <2>1. SUFFICES ASSUME Cardinality(Made) <= IdCount PROVE AbortsAsked'
    BY <1>1 DEF AbortsAsked
  <2>2. ops' = Tail(ops)
    BY <1>3, <2>1, AbortsNothing DEF IInv
  <2>. QED
    BY <1>1, <1>3, <2>1, <2>2, TailHandlers DEF IInv, AbortsAsked
<1>7. NoForeignStop'
  <2>1. SUFFICES ASSUME Cardinality(Made) <= IdCount, schedulerState # "TERMINATED",
                        NEW e \in Events, deleted'[e] > 0
                 PROVE  e \in stopCalled
    BY <1>1 DEF NoForeignStop, Made
  <2>2. CASE deleted[e] > 0
    BY <2>1, <2>2 DEF IInv, NoForeignStop, Made
  <2>3. CASE ~(deleted[e] > 0)
    <3>1. op.kind = "done" /\ op.aborted /\ e = op.event
      BY <2>1, <2>3 DEF RunArm, RunDone, IInv, Safe, SchedulerTypeOK
    <3>. QED
      BY <1>3, <2>1, <3>1, TailHandlers DEF IInv, AbortsAsked
  <2>. QED
    BY <2>2, <2>3
<1>. QED
  BY <1>1, <1>2, <1>5, <1>6, <1>7 DEF IInv

\* A stop: the wait it cancels is that of the event which was stopped.
LEMMA RunCancelIInv ==
    ASSUME IInv, RunHandler, RunCancel(Head(ops))
    PROVE  IInv'
<1>. DEFINE id == Head(ops).id
<1>1. /\ Safe' /\ IdsDiffer' /\ Made' = Made
      /\ UNCHANGED <<stopCalled, idOf, schedulerState, deleted>>
  BY RunCancelSafe DEF RunHandler, RunCancel, IInv, IdsDiffer, Made
<1>2. TimersOwn'
  BY <1>1 DEF RunCancel, IInv, TimersOwn
<1>3. Safe /\ ops # <<>> /\ ops' = Abort(id, Tail(ops)) /\ Head(ops).kind = "cancel"
  BY DEF RunHandler, RunCancel, IInv
<1>4. \A i \in 1..Len(ops') :
          \/ i + 1 \in 1..Len(ops) /\ ops'[i] = ops[i + 1]
          \/ /\ id \in DOMAIN timers /\ timers[id] # NoEvent
             /\ ops'[i].kind = "done" /\ ops'[i].event = timers[id]
  BY <1>3, TailHandlers, AppendProperties DEF Abort, Done, Handler, IInv, Safe, SchedulerTypeOK
<1>5. StopsAsked'
  BY <1>1, <1>4 DEF IInv, StopsAsked
<1>6. AbortsAsked'
  <2>1. SUFFICES ASSUME Cardinality(Made) <= IdCount PROVE AbortsAsked'
    BY <1>1 DEF AbortsAsked
  <2>2. ASSUME id \in DOMAIN timers, timers[id] # NoEvent PROVE timers[id] \in stopCalled
    <3>1. PICK e \in stopCalled : idOf[e] = id
      BY <1>3, TailHandlers DEF IInv, StopsAsked
    <3>2. e \in Made /\ idOf[timers[id]] = id /\ timers[id] \in Events
      BY <2>2 DEF IInv, StopsAsked, TimersOwn, Safe, SchedulerTypeOK
    <3>3. timers[id] \in Made
      BY <3>1, <3>2 DEF Made
    <3>. QED
      BY <2>1, <3>1, <3>2, <3>3 DEF IInv, IdsDiffer
  <2>. QED
    BY <1>1, <1>4, <2>1, <2>2 DEF IInv, AbortsAsked
<1>7. NoForeignStop'
  BY <1>1 DEF IInv, NoForeignStop, Made
<1>. QED
  BY <1>1, <1>2, <1>5, <1>6, <1>7 DEF IInv

LEMMA RunHaltIInv ==
    ASSUME IInv, RunHandler, RunHalt(Head(ops))
    PROVE  IInv'
<1>1. /\ Safe' /\ Made' = Made /\ ops # <<>> /\ Safe /\ ops' = Tail(ops)
      /\ UNCHANGED <<stopCalled, idOf, schedulerState, deleted, timers, lastEventId>>
  BY RunHaltSafe DEF RunHandler, RunHalt, IInv, Made
<1>2. IdsDiffer' /\ TimersOwn' /\ NoForeignStop'
  BY <1>1 DEF IInv, IdsDiffer, TimersOwn, NoForeignStop, Made
<1>3. StopsAsked' /\ AbortsAsked'
  BY <1>1, TailHandlers DEF IInv, StopsAsked, AbortsAsked
<1>. QED
  BY <1>1, <1>2, <1>3 DEF IInv

LEMMA IInvStep == IInv /\ [SchedulerNext]_schedulerVars => IInv'
<1>. SUFFICES ASSUME IInv, [SchedulerNext]_schedulerVars PROVE IInv'
  OBVIOUS
<1>1. ASSUME NEW e \in Events, AddEvent(e) \/ StopEvent(e) PROVE IInv'
  BY <1>1, AddEventIInv, StopEventIInv
<1>2. CASE SchedulerStop
  <2>1. Safe'
    BY <1>2, SafeStep DEF SchedulerNext, IInv
  <2>. QED
    BY <1>2, <2>1 DEF SchedulerStop, IInv, IdsDiffer, TimersOwn, StopsAsked, AbortsAsked, NoForeignStop, Made
<1>3. CASE SchedulerShutdown
  BY <1>3, ShutdownIInv
<1>4. CASE RunHandler
  BY <1>4, RunOwnIInv, RunCancelIInv, RunHaltIInv DEF RunHandler
<1>5. ASSUME NEW id \in Ids, Expire(id) PROVE IInv'
  BY <1>5, ExpireIInv
<1>6. CASE UNCHANGED schedulerVars
  <2>1. Safe'
    BY <1>6, SafeStep DEF IInv
  <2>. QED
    BY <1>6, <2>1 DEF schedulerVars, IInv, IdsDiffer, TimersOwn, StopsAsked, AbortsAsked, NoForeignStop, Made
<1>. QED
  BY <1>1, <1>2, <1>3, <1>4, <1>5, <1>6 DEF SchedulerNext

\* Until as many events were made as there are ids, and before the shutdown, an
\* event is deleted unrun only if its own holder stopped it: no stopEvent
\* (src/src/scheduler.cpp) reaches the timer of another event.
THEOREM StopsReachTheirOwn == SchedulerSpec => []NoForeignStop
<1>1. IInv => NoForeignStop
  BY DEF IInv
<1>. QED
  BY <1>1, InitIInv, IInvStep, PTL DEF SchedulerSpec

=============================================================================

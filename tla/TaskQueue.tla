----------------------------- MODULE TaskQueue -----------------------------
(***************************************************************************)
(* What a caller of Dispatcher::addTask may rely on, with no thread, lock  *)
(* or condition variable in sight: tasks are accepted one after the other, *)
(* each is handled (run, or dropped because it expired) exactly once, and  *)
(* they are handled in the order in which they were accepted.  A closed    *)
(* queue accepts nothing but the stop task that ends it.                   *)
(***************************************************************************)
EXTENDS Integers, Sequences

CONSTANTS
    Task,       \* the tasks callers submit
    StopTask    \* the task Dispatcher::shutdown submits

VARIABLES
    accepted,   \* every task accepted so far, oldest first
    handled,    \* every task run or dropped so far, oldest first
    open        \* FALSE once the holder was told to stop

vars == <<accepted, handled, open>>

AnyTask == Task \cup {StopTask}

TypeOK ==
    /\ accepted \in Seq(AnyTask)
    /\ handled \in Seq(AnyTask)
    /\ open \in BOOLEAN

Init ==
    /\ accepted = <<>>
    /\ handled = <<>>
    /\ open = TRUE

Accept(t) ==
    /\ open \/ t = StopTask
    /\ accepted' = Append(accepted, t)
    /\ UNCHANGED <<handled, open>>

\* The oldest task not handled yet is the only one that may be handled.
Handle ==
    /\ Len(handled) < Len(accepted)
    /\ handled' = Append(handled, accepted[Len(handled) + 1])
    /\ open' \in {open, FALSE}
    /\ UNCHANGED accepted

Close ==
    /\ open' = FALSE
    /\ UNCHANGED <<accepted, handled>>

Next ==
    \/ \E t \in AnyTask : Accept(t)
    \/ Handle
    \/ Close

Spec == Init /\ [][Next]_vars

=============================================================================

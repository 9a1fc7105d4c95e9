------------------------------ MODULE TaskFifo ------------------------------
(***************************************************************************)
(* What a thread's task queue promises to the threads that use it: every   *)
(* pushed task is handed to exactly one thread, in the order of the        *)
(* pushes, and is not available to anybody from then on.                   *)
(***************************************************************************)
EXTENDS Sequences

CONSTANTS
    Tasks,      \* what can be queued
    Threads,    \* who takes tasks
    NoTask      \* a thread that has taken none

VARIABLES
    queue,      \* pushed and not yet taken, oldest first
    taken       \* the task each thread has taken and not yet executed

Init ==
    /\ queue = <<>>
    /\ taken = [th \in Threads |-> NoTask]

Push(t) ==
    /\ queue' = Append(queue, t)
    /\ UNCHANGED taken

Take(th) ==
    /\ queue # <<>>
    /\ taken[th] = NoTask
    /\ taken' = [taken EXCEPT ![th] = Head(queue)]
    /\ queue' = Tail(queue)

Finish(th) ==
    /\ taken[th] # NoTask
    /\ taken' = [taken EXCEPT ![th] = NoTask]
    /\ UNCHANGED queue

Next ==
    \/ \E t \in Tasks : Push(t)
    \/ \E th \in Threads : Take(th) \/ Finish(th)

Spec == Init /\ [][Next]_<<queue, taken>>
=============================================================================

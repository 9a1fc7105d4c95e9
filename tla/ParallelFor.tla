----------------------------- MODULE ParallelFor -----------------------------
(***************************************************************************)
(* ParallelFor.hpp on top of TaskTree: xr_parallel_for(range, true, f).    *)
(* The task of a range that is longer than the grain splits it and adds    *)
(* two child tasks, one for each half; the task of a short range calls f   *)
(* on it.  The caller waits for the first task only.                       *)
(*                                                                         *)
(* Every step of the task system is a step of TaskTree; this module adds   *)
(* the functor each task carries.  A task is a number and they are used in *)
(* order: which slot a thread's allocator returns does not matter.         *)
(***************************************************************************)
EXTENDS TaskTree

CONSTANTS
    Last,       \* the range is 0 .. Last - 1
    Grain       \* m_grain

ASSUME ParallelForAssumption ==
    /\ Last \in Nat
    /\ Grain \in Nat \ {0}
    /\ Tasks \subseteq Nat

VARIABLES
    range,      \* Functor::range of every task, as <<m_begin, m_end>>
    step,       \* how far the functor of a running task has come
    calls       \* history: how often f was called for an index

pvars == <<vars, range, step, calls>>

Empty == <<0, 0>>
Indices(r) == r[1] .. r[2] - 1
size(r) == r[2] - r[1]
is_splittable(r) == Grain < size(r)

\* Mutants of SplitRange: the middle is in neither half; in both; or the first
\* half is always empty.
SplitSkips(r) == LET middle == r[1] + size(r) \div 2
                 IN [left |-> <<r[1], middle>>, rest |-> <<middle + 1, r[2]>>]
SplitOverlaps(r) == LET middle == r[1] + size(r) \div 2
                    IN [left |-> <<r[1], middle + 1>>, rest |-> <<middle, r[2]>>]
SplitNothing(r) == [left |-> <<r[1], r[1]>>, rest |-> r]

\* TaskRange(range, SplitTaskRange()): the new range, and what stays of the old.
SplitRange(r) == LET middle == r[1] + size(r) \div 2
                 IN [left |-> <<r[1], middle>>, rest |-> <<middle, r[2]>>]

PTypeOK ==
    /\ range \in [Tasks -> Nat \X Nat]
    /\ step \in [Frames -> {"start", "left", "half", "rest", "over"}]
    /\ calls \in [0 .. Last - 1 -> Nat]

PInit ==
    /\ Init
    /\ range = [t \in Tasks |-> Empty]
    /\ step = [f \in Frames |-> "start"]
    /\ calls = [x \in 0 .. Last - 1 |-> 0]

NextTask(t) == at[t] = "unborn" /\ \A u \in Tasks : u < t => at[u] # "unborn"

Running(w, s) == at[top[w]] = "body" /\ step[top[w]] = s

StepTo(w, s) == step' = [step EXCEPT ![top[w]] = s]

-----------------------------------------------------------------------------
(* The caller: Run(range, true, function).                                 *)

AddRoot(t) ==
    /\ top[Main] = Main /\ Running(Main, "start")
    /\ NextTask(t) /\ CreateTask(Main, t)
    /\ range' = [range EXCEPT ![t] = <<0, Last>>]
    /\ StepTo(Main, "left")
    /\ UNCHANGED calls

PushRoot(t) ==
    /\ top[Main] = Main /\ Running(Main, "left")
    /\ PushTask(Main, t)
    /\ StepTo(Main, "rest")
    /\ UNCHANGED <<range, calls>>

WaitRoot(t) ==
    /\ top[Main] = Main /\ Running(Main, "rest")
    /\ Wait(Main, t)
    /\ StepTo(Main, "over")
    /\ UNCHANGED <<range, calls>>

-----------------------------------------------------------------------------
(* Functor::operator() of the task on top of thread w's stack.             *)

AddLeft(w, t) ==
    LET f == top[w]
        halves == SplitRange(range[f])
    IN
    /\ f \in Tasks /\ Running(w, "start")
    /\ is_splittable(range[f])
    /\ NextTask(t) /\ CreateChild(w, t)
    /\ range' = [range EXCEPT ![t] = halves.left, ![f] = halves.rest]
    /\ StepTo(w, "left")
    /\ UNCHANGED calls

\* The second child gets a copy of the functor, with the range that is left.
AddRest(w, t) ==
    LET f == top[w] IN
    /\ f \in Tasks /\ Running(w, "half")
    /\ NextTask(t) /\ CreateChild(w, t)
    /\ range' = [range EXCEPT ![t] = range[f]]
    /\ StepTo(w, "rest")
    /\ UNCHANGED calls

PushChild(w, t) ==
    /\ top[w] \in Tasks
    /\ \/ Running(w, "left") /\ StepTo(w, "half")
       \/ Running(w, "rest") /\ StepTo(w, "over")
    /\ PushTask(w, t)
    /\ UNCHANGED <<range, calls>>

CallFunction(w) ==
    LET f == top[w] IN
    /\ f \in Tasks /\ Running(w, "start")
    /\ ~is_splittable(range[f])
    /\ calls' = [x \in DOMAIN calls |->
                    IF x \in Indices(range[f]) THEN calls[x] + 1 ELSE calls[x]]
    /\ StepTo(w, "over")
    /\ UNCHANGED <<vars, range>>

FunctorReturns(w) ==
    /\ top[w] \in Tasks /\ Running(w, "over")
    /\ BodyReturns(w)
    /\ UNCHANGED <<range, step, calls>>

\* What the task system does on its own.
Schedule(w) ==
    /\ WaitCheck(w) \/ ExecuteOneTask(w) \/ ExecuteNothing(w) \/ CountDown(w)
    /\ UNCHANGED <<range, step, calls>>

PNext ==
    \/ \E t \in Tasks :
          \/ AddRoot(t) \/ PushRoot(t) \/ WaitRoot(t)
          \/ \E w \in Workers : AddLeft(w, t) \/ AddRest(w, t) \/ PushChild(w, t)
    \/ \E w \in Workers : CallFunction(w) \/ FunctorReturns(w) \/ Schedule(w)

PSpec == PInit /\ [][PNext]_pvars

\* As for TaskTree: threads go on, and who looks for work finds it at last.
PFairness ==
    \A w \in Workers :
        /\ WF_pvars(\E t \in Tasks : AddRoot(t) \/ PushRoot(t) \/ WaitRoot(t))
        /\ WF_pvars(\E t \in Tasks : AddLeft(w, t) \/ AddRest(w, t) \/ PushChild(w, t))
        /\ WF_pvars(CallFunction(w) \/ FunctorReturns(w))
        /\ WF_pvars(Schedule(w))
        /\ SF_pvars(ExecuteOneTask(w) /\ UNCHANGED <<range, step, calls>>)

PFairSpec == PSpec /\ PFairness

-----------------------------------------------------------------------------

\* The tasks whose range is still to be worked on.
Outstanding ==
    {t \in Tasks : at[t] # "unborn" /\ step[t] \in {"start", "left", "half"}}

\* Those of them that are to handle index x.
Owners(x) == {t \in Outstanding : x \in Indices(range[t])}

\* At every moment each index of the range has been handled by exactly one call
\* of f, or lies in the range of exactly one task that is still to handle it.
EveryIndexOnce ==
    top[Main] # Main \/ step[Main] # "start" =>
        \A x \in 0 .. Last - 1 : calls[x] + Cardinality(Owners(x)) = 1

\* xr_parallel_for(range, true, f) returns to its caller only when f has been
\* called for every index.
ReturnsWhenAllCalled ==
    step[Main] = "over" /\ at[Main] = "body" => \A x \in 0 .. Last - 1 : calls[x] = 1

\* The call does return, and f has been called.
ParallelForReturns == <>(step[Main] = "over" /\ at[Main] = "body")

-----------------------------------------------------------------------------
(* The inductive invariant behind the two safety properties.               *)

\* A task's functor starts with its first statement, and a task whose body has
\* returned has come to the functor's end.
StepsFollowStages ==
    \A t \in Tasks :
        /\ at[t] = "unborn" => step[t] = "start"
        /\ BodyDone(t) => step[t] = "over"

\* Before the call there is nothing; from then on all tasks descend from the
\* one task the caller created, which is the one the caller waits for.
OneTree ==
    /\ step[Main] = "start" =>
          /\ top[Main] = Main
          /\ \A t \in Tasks : at[t] = "unborn"
          /\ \A x \in 0 .. Last - 1 : calls[x] = 0
    /\ step[Main] # "start" =>
          \E root \in Tasks : \A t \in Tasks : at[t] # "unborn" =>
              /\ t = root \/ root \in lineage[t]
              /\ maker[t] = Main => t = root
    /\ at[Main] \in {"wait", "help"} => maker[target[Main]] = Main

\* When the caller goes on, no body is still to run.
ReturnedMeansDone ==
    step[Main] = "over" /\ at[Main] = "body" =>
        \A t \in Tasks : at[t] = "unborn" \/ BodyDone(t)

PInv ==
    /\ IInv /\ PTypeOK
    /\ StepsFollowStages /\ OneTree /\ EveryIndexOnce /\ ReturnedMeansDone
=============================================================================

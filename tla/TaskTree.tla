------------------------------ MODULE TaskTree ------------------------------
(***************************************************************************)
(* Task.hpp and the task half of TaskManager: a task carries a counter     *)
(* `jobs` that starts at 1 and is raised by every child; a thread that     *)
(* finishes a body gives one unit back and, when that was the last one,    *)
(* climbs to the parent and gives back the unit the child held there.      *)
(* Wait(task) executes other tasks until the counter of `task` reads zero, *)
(* so the frames of several tasks lie on one thread's call stack.          *)
(*                                                                         *)
(* Where a pushed task is taken from (own ring, ring of worker 0, a random *)
(* victim) is TaskQueue's and TaskWorkers' subject; here any thread that   *)
(* looks for work may take any pushed task.                                *)
(***************************************************************************)
EXTENDS Integers, FiniteSets

CONSTANTS
    Tasks,      \* the slots of the thread-local task rings, each used once
    Workers,    \* the threads that execute tasks
    Main,       \* the thread that runs the frame loop
    NoTask      \* the null pointer

ASSUME TaskTreeAssumption ==
    /\ IsFiniteSet(Tasks)
    /\ Main \in Workers
    /\ NoTask \notin Tasks
    /\ NoTask \notin Workers
    /\ Tasks \cap Workers = {}

VARIABLES
    jobs,       \* m_data.jobs of every task
    parent,     \* m_data.parent
    maker,      \* the frame whose code created the task and holds its handle
    at,         \* where the code of a frame is
    target,     \* the task a frame waits for, or the `it` of the count-down loop
    top,        \* the frame a thread executes now
    below,      \* the frame under a task's frame on its thread's stack
    lineage     \* history: all ancestors of a task

vars == <<jobs, parent, maker, at, target, top, below, lineage>>

\* A frame is a task being executed, or the bottom of a thread's stack.
Frames == Tasks \cup Workers

TaskStages == {"unborn", "created", "pushed", "body", "wait", "help", "count", "done"}

TypeOK ==
    /\ jobs \in [Tasks -> Int]
    /\ parent \in [Tasks -> Tasks \cup {NoTask}]
    /\ maker \in [Tasks -> Frames \cup {NoTask}]
    /\ at \in [Frames -> TaskStages \cup {"loop"}]
    /\ \A t \in Tasks : at[t] \in TaskStages
    /\ target \in [Frames -> Tasks \cup {NoTask}]
    /\ top \in [Workers -> Frames]
    /\ below \in [Tasks -> Frames \cup {NoTask}]
    /\ lineage \in [Tasks -> SUBSET Tasks]

Init ==
    /\ jobs = [t \in Tasks |-> 0]
    /\ parent = [t \in Tasks |-> NoTask]
    /\ maker = [t \in Tasks |-> NoTask]
    /\ at = [f \in Frames |-> IF f \in Tasks THEN "unborn"
                              ELSE IF f = Main THEN "body" ELSE "loop"]
    /\ target = [f \in Frames |-> NoTask]
    /\ top = [w \in Workers |-> w]
    /\ below = [t \in Tasks |-> NoTask]
    /\ lineage = [t \in Tasks |-> {}]

-----------------------------------------------------------------------------
(* The TaskManager calls a body (or the frame loop) makes.                 *)

\* CreateTask(func)
CreateTask(w, t) ==
    /\ at[top[w]] = "body"
    /\ at[t] = "unborn"
    /\ jobs' = [jobs EXCEPT ![t] = 1]
    /\ maker' = [maker EXCEPT ![t] = top[w]]
    /\ at' = [at EXCEPT ![t] = "created"]
    /\ UNCHANGED <<parent, target, top, below, lineage>>

\* Mutant of CreateChild: the parent's counter is not raised.
CreateChildUncounted(w, t) ==
    LET p == top[w] IN
    /\ p \in Tasks
    /\ at[p] = "body"
    /\ at[t] = "unborn"
    /\ jobs' = [jobs EXCEPT ![t] = 1]
    /\ parent' = [parent EXCEPT ![t] = p]
    /\ maker' = [maker EXCEPT ![t] = p]
    /\ at' = [at EXCEPT ![t] = "created"]
    /\ lineage' = [lineage EXCEPT ![t] = {p} \cup lineage[p]]
    /\ UNCHANGED <<target, top, below>>

\* CreateTask(parent, func): every caller passes the task it is the body of.
CreateChild(w, t) ==
    LET p == top[w] IN
    /\ p \in Tasks
    /\ at[p] = "body"
    /\ at[t] = "unborn"
    /\ jobs' = [jobs EXCEPT ![t] = 1, ![p] = @ + 1]
    /\ parent' = [parent EXCEPT ![t] = p]
    /\ maker' = [maker EXCEPT ![t] = p]
    /\ at' = [at EXCEPT ![t] = "created"]
    /\ lineage' = [lineage EXCEPT ![t] = {p} \cup lineage[p]]
    /\ UNCHANGED <<target, top, below>>

\* PushTask(task): from here on any thread may take it.
PushTask(w, t) ==
    /\ at[top[w]] = "body"
    /\ maker[t] = top[w]
    /\ at[t] = "created"
    /\ at' = [at EXCEPT ![t] = "pushed"]
    /\ UNCHANGED <<jobs, parent, maker, target, top, below, lineage>>

\* A thread starts task t: its frame goes on top of the thread's stack, and
\* the frame under it continues in stage `resume`.
Enter(w, t, resume) ==
    /\ at' = [at EXCEPT ![t] = "body", ![top[w]] = resume]
    /\ below' = [below EXCEPT ![t] = top[w]]
    /\ top' = [top EXCEPT ![w] = t]
    /\ UNCHANGED <<jobs, parent, maker, target, lineage>>

\* RunTask(task): execute it here and now.
RunTask(w, t) ==
    /\ at[top[w]] = "body"
    /\ maker[t] = top[w]
    /\ at[t] = "created"
    /\ Enter(w, t, "body")

\* Mutant of Wait: a body may wait for any task, the one it runs in included.
WaitAny(w, t) ==
    LET f == top[w] IN
    /\ at[f] = "body"
    /\ at[t] \notin {"unborn", "created"}
    /\ at' = [at EXCEPT ![f] = "wait"]
    /\ target' = [target EXCEPT ![f] = t]
    /\ UNCHANGED <<jobs, parent, maker, top, below, lineage>>

\* Wait(task) is entered; a frame waits for tasks its own code created.
Wait(w, t) ==
    LET f == top[w] IN
    /\ at[f] = "body"
    /\ maker[t] = f
    /\ at[t] \notin {"unborn", "created"}
    /\ at' = [at EXCEPT ![f] = "wait"]
    /\ target' = [target EXCEPT ![f] = t]
    /\ UNCHANGED <<jobs, parent, maker, top, below, lineage>>

\* The condition of Wait's loop: leave when the counter reads zero.
WaitCheck(w) ==
    LET f == top[w] IN
    /\ at[f] = "wait"
    /\ \/ /\ jobs[target[f]] = 0
          /\ at' = [at EXCEPT ![f] = "body"]
          /\ target' = [target EXCEPT ![f] = NoTask]
       \/ /\ jobs[target[f]] # 0
          /\ at' = [at EXCEPT ![f] = "help"]
          /\ UNCHANGED target
    /\ UNCHANGED <<jobs, parent, maker, top, below, lineage>>

\* The body of Wait's loop, and the pool thread's own loop: ExecuteOneTask
\* finds a pushed task and runs it.
ExecuteOneTask(w) ==
    /\ at[top[w]] \in {"help", "loop"}
    /\ \E t \in Tasks :
          /\ at[t] = "pushed"
          /\ Enter(w, t, IF at[top[w]] = "help" THEN "wait" ELSE "loop")

\* ExecuteOneTask finds nothing: the queues are empty, a compare-exchange was
\* lost, or the random victims had no task.
ExecuteNothing(w) ==
    /\ at[top[w]] = "help"
    /\ at' = [at EXCEPT ![top[w]] = "wait"]
    /\ UNCHANGED <<jobs, parent, maker, target, top, below, lineage>>

\* m_data.call(*this) returns; whatever the body created it pushed or ran.
BodyReturns(w) ==
    LET f == top[w] IN
    /\ f \in Tasks
    /\ at[f] = "body"
    /\ \A t \in Tasks : maker[t] = f => at[t] # "created"
    /\ at' = [at EXCEPT ![f] = "count"]
    /\ target' = [target EXCEPT ![f] = f]
    /\ UNCHANGED <<jobs, parent, maker, top, below, lineage>>

\* Mutant of CountDown: the loop ends at the task itself and never climbs.
CountDownStops(w) ==
    LET f  == top[w]
        it == target[f]
    IN
    /\ at[f] = "count"
    /\ jobs' = [jobs EXCEPT ![it] = @ - 1]
    /\ at' = [at EXCEPT ![f] = "done"]
    /\ top' = [top EXCEPT ![w] = below[f]]
    /\ below' = [below EXCEPT ![f] = NoTask]
    /\ target' = [target EXCEPT ![f] = NoTask]
    /\ UNCHANGED <<parent, maker, lineage>>

\* One turn of the loop `for (Task* it = this; ; it = it->m_data.parent)`.
CountDown(w) ==
    LET f  == top[w]
        it == target[f]
        unfinishedJobs == jobs[it] - 1
    IN
    /\ at[f] = "count"
    /\ jobs' = [jobs EXCEPT ![it] = unfinishedJobs]
    /\ \/ /\ unfinishedJobs # 0 \/ parent[it] = NoTask
          /\ at' = [at EXCEPT ![f] = "done"]
          /\ top' = [top EXCEPT ![w] = below[f]]
          /\ below' = [below EXCEPT ![f] = NoTask]
          /\ target' = [target EXCEPT ![f] = NoTask]
       \/ /\ unfinishedJobs = 0 /\ parent[it] # NoTask
          /\ target' = [target EXCEPT ![f] = parent[it]]
          /\ UNCHANGED <<at, top, below>>
    /\ UNCHANGED <<parent, maker, lineage>>

-----------------------------------------------------------------------------

Next ==
    \E w \in Workers :
        \/ \E t \in Tasks :
              \/ CreateTask(w, t)
              \/ CreateChild(w, t)
              \/ PushTask(w, t)
              \/ RunTask(w, t)
              \/ Wait(w, t)
        \/ WaitCheck(w)
        \/ ExecuteOneTask(w)
        \/ ExecuteNothing(w)
        \/ BodyReturns(w)
        \/ CountDown(w)

Spec == Init /\ [][Next]_vars

(***************************************************************************)
(* Fairness.  A thread that can go on goes on; task bodies terminate and   *)
(* push what they create; and a thread that looks for work again and again *)
(* while tasks are pushed again and again finds one (it looks into its own *)
(* ring and into ring 0 first, and then draws its victims uniformly).      *)
(***************************************************************************)
Fairness ==
    \A w \in Workers :
        /\ WF_vars(WaitCheck(w))
        /\ WF_vars(ExecuteNothing(w))
        /\ WF_vars(CountDown(w))
        /\ SF_vars(\E t \in Tasks : PushTask(w, t))
        /\ SF_vars(ExecuteOneTask(w))
        /\ SF_vars(BodyReturns(w))

FairSpec == Spec /\ Fairness

-----------------------------------------------------------------------------

\* The tasks that hold a unit of p's counter: p itself until its body has
\* given its unit back, every unfinished child, and every task whose thread
\* is on its way to give a finished child's unit back.
Holders(p) ==
    {t \in Tasks :
        \/ t = p /\ at[t] \in {"created", "pushed", "body", "wait", "help"}
        \/ parent[t] = p /\ jobs[t] # 0
        \/ at[t] = "count" /\ target[t] = p}

\* The counter is exactly the number of units outstanding: no unit is given
\* back twice and none is forgotten, whatever the interleaving of threads.
JobsCount == \A p \in Tasks : jobs[p] = Cardinality(Holders(p))

BodyDone(t) == at[t] \in {"count", "done"}

\* Everything that was spawned under t, directly or not, has returned.
TreeDone(t) == \A d \in Tasks : d = t \/ t \in lineage[d] => BodyDone(d)

\* IsFinished() of a task that was created speaks for its whole subtree: the
\* zero of one counter means that no descendant's body is still to run.
FinishedMeansTreeDone ==
    \A t \in Tasks : at[t] # "unborn" /\ jobs[t] = 0 => TreeDone(t)

\* The VERIFYs of operator() and of the child constructor: no counter goes
\* below zero, and a task that is still on a stack has not finished, so that
\* a child is never added to a parent that has already finished.
RunningIsUnfinished ==
    \A t \in Tasks :
        /\ jobs[t] >= 0
        /\ at[t] \in {"created", "pushed", "body", "wait", "help"} => jobs[t] > 0

\* Wait(task) gives control back to its caller only when the task and all of
\* its descendants have run to completion.
WaitReturnsAfterTree ==
    [][\A f \in Frames :
          at[f] = "wait" /\ at'[f] = "body" => TreeDone(target[f])]_vars

\* A finished task never becomes unfinished again: no late child, no second
\* execution.
FinishedIsFinal ==
    [][\A t \in Tasks : at[t] # "unborn" /\ jobs[t] = 0 => jobs'[t] = 0]_vars

-----------------------------------------------------------------------------
(* The inductive invariant behind the safety properties above.             *)

\* What parent pointers, targets and stages have to do with each other.
WellFormed ==
    /\ \A t \in Tasks :
          /\ at[t] = "unborn" => jobs[t] = 0 /\ parent[t] = NoTask /\ lineage[t] = {}
          /\ at[t] \in {"body", "wait", "help", "count"} => below[t] # NoTask
          /\ parent[t] # NoTask => parent[t] # t /\ at[parent[t]] # "unborn"
          /\ at[t] = "count" =>
                /\ target[t] # NoTask
                /\ at[target[t]] # "unborn"
                /\ target[t] # t => jobs[t] = 0
    /\ \A w \in Workers : at[w] \in {"body", "wait", "help", "loop"}
    /\ \A f \in Frames : at[f] \in {"wait", "help"} =>
          /\ target[f] # NoTask
          /\ at[target[f]] \notin {"unborn", "created"}

\* An ancestor is reached through one of its children, and as long as a task
\* is unfinished all of its ancestors are.
LineageUnfinished ==
    \A d \in Tasks : \A a \in lineage[d] :
        /\ \E c \in Tasks : parent[c] = a /\ (c = d \/ c \in lineage[d])
        /\ jobs[d] # 0 => jobs[a] # 0

IInv == TypeOK /\ WellFormed /\ JobsCount /\ LineageUnfinished

-----------------------------------------------------------------------------
(* Progress.                                                               *)

\* Helping threads stack foreign tasks on top of a waiting frame, so a frame
\* may be buried under a task that waits in its turn.  Still the threads never
\* wait for each other in a circle: as long as somebody waits for an unfinished
\* task, a task can be taken, a body or a count-down is going on, or a Wait on
\* top of a stack is about to return.
NoCircularWait ==
    (\E f \in Frames : at[f] \in {"wait", "help"} /\ jobs[target[f]] # 0) =>
        \/ \E t \in Tasks : at[t] = "pushed"
        \/ \E w \in Workers : at[top[w]] \in {"body", "count"}
        \/ \E w \in Workers :
               at[top[w]] \in {"wait", "help"} /\ jobs[target[top[w]]] = 0

\* Every Wait comes to an end, however many foreign tasks the waiting thread
\* has taken on top of the waiting frame.
EveryWaitEnds ==
    \A f \in Frames : (at[f] \in {"wait", "help"}) ~> (at[f] = "body")

\* Every pushed task is finished at last, also when nobody waits for it.
EveryTaskFinishes ==
    \A t \in Tasks : (at[t] = "pushed") ~> (at[t] = "done" /\ jobs[t] = 0)
=============================================================================

---------------------------- MODULE TaskWorkers -----------------------------
(***************************************************************************)
(* TaskManager.cpp: the life of the pool threads and of the manager.  Pool *)
(* threads register, look for tasks, sleep on the auto-reset event         *)
(* newWorkArrived, and leave when the manager is destroyed; whoever leaves *)
(* removes itself from the `workers` vector, which the others read without *)
(* a lock, so it first makes them pause.                                   *)
(*                                                                         *)
(* A task is named by its position in the ring of the thread that pushed   *)
(* it, <<thread, position>>.  A task's body may push tasks and wait for    *)
(* them, and Wait executes further tasks on top of it, so every thread has *)
(* a stack of the calls of ExecuteTask and Wait it is in.  A pop is two    *)
(* steps here, the reads and the compare-exchange; TaskQueue has the finer *)
(* grain.  Memory is sequentially consistent.                              *)
(***************************************************************************)
EXTENDS Integers, Sequences, FiniteSets, SequencesExt

CONSTANTS
    Main,           \* the thread that owns the TaskManager
    Pool,           \* the threads of workerThreads
    NoThread,       \* workersLock is free
    StealAttempts,  \* attempts of TryToSteal (5 in the code)
    MaxPushed,      \* bound: tasks pushed by all threads together
    CanPause,       \* whether the window gets and loses the focus
    WeakCasFails,   \* whether compare_exchange_weak fails spuriously
    DrainedBodiesWait   \* whether a body that runs in a drain loop may Wait

ASSUME TaskWorkersAssumption ==
    /\ Main \notin Pool /\ IsFiniteSet(Pool)
    /\ NoThread \notin Pool \cup {Main}
    /\ StealAttempts \in Nat \ {0}
    /\ MaxPushed \in Nat
    /\ CanPause \in BOOLEAN
    /\ WeakCasFails \in BOOLEAN
    /\ DrainedBodiesWait \in BOOLEAN

Threads == Pool \cup {Main}

VARIABLES
    workers,            \* the vector of registered threads
    id,                 \* s_tl_worker.id of every thread, -1 when not registered
    workersLock,        \* who holds the mutex
    activeWorkersCount,
    shouldPause,
    shouldStop,
    newWorkArrived,     \* the event is signaled
    head, tail,         \* positions of every thread's ring
    pc,                 \* where a thread is
    draining,           \* it is in the loop that finishes its pending tasks
    stack,              \* the calls of ExecuteTask and Wait it is in, innermost first
    victim, seen,       \* the ring a pop reads and the head position it read
    span, attempts,     \* TryToSteal: workers.size() at entry, attempts left
    sets,               \* Set() calls left in the destructor's first loop
    finished            \* the tasks that ran

pool == <<workers, id, workersLock, activeWorkersCount, shouldPause, shouldStop>>
rings == <<head, tail, finished>>
popping == <<victim, seen, span, attempts>>
calls == <<draining, stack>>
vars == <<pool, newWorkArrived, rings, pc, calls, popping, sets>>

NotSeen == -1

\* A call of ExecuteTask or Wait and the task it is about.  `from` is where the
\* tasks begin, in the ring of the thread, that a body may still wait for.
Frame(kind, task, from) == [kind |-> kind, task |-> task, from |-> from]
Frames == [kind : {"ExecuteTask", "Wait"}, task : Threads \X Nat, from : Nat]

PopStages == {"own", "first", "random", "drain"}

TypeOK ==
    /\ workers \in Seq(Threads)
    /\ id \in [Threads -> Int]
    /\ workersLock \in Threads \cup {NoThread}
    /\ activeWorkersCount \in Nat
    /\ shouldPause \in BOOLEAN /\ shouldStop \in BOOLEAN /\ newWorkArrived \in BOOLEAN
    /\ head \in [Threads -> Nat] /\ tail \in [Threads -> Nat]
    /\ pc \in [Threads -> PopStages \cup
          {"start", "activate", "loop", "checkpause", "rest", "sleep", "woken", "leave",
           "app", "appset", "waitcheck", "stopset", "none", "hint", "run", "runset",
           "unregister", "spin", "erase", "empty", "join", "exited"}]
    /\ draining \in [Threads -> BOOLEAN]
    /\ stack \in [Threads -> Seq(Frames)]
    /\ victim \in [Threads -> Threads \cup {NoThread}]
    /\ seen \in [Threads -> Nat \cup {NotSeen}]
    /\ span \in [Threads -> Nat] /\ attempts \in [Threads -> 0 .. StealAttempts]
    /\ sets \in 0 .. Cardinality(Pool)
    /\ finished \subseteq Threads \X Nat

\* The constructor has registered the main thread and SpawnThreads() has
\* started the pool threads.
Init ==
    /\ workers = <<Main>>
    /\ id = [th \in Threads |-> IF th = Main THEN 0 ELSE -1]
    /\ workersLock = NoThread
    /\ activeWorkersCount = 0
    /\ shouldPause = FALSE
    /\ shouldStop = FALSE
    /\ newWorkArrived = FALSE
    /\ head = [th \in Threads |-> 0]
    /\ tail = [th \in Threads |-> 0]
    /\ pc = [th \in Threads |-> IF th = Main THEN "app" ELSE "start"]
    /\ draining = [th \in Threads |-> FALSE]
    /\ stack = [th \in Threads |-> <<>>]
    /\ victim = [th \in Threads |-> NoThread]
    /\ seen = [th \in Threads |-> NotSeen]
    /\ span = [th \in Threads |-> 0]
    /\ attempts = [th \in Threads |-> 0]
    /\ sets = 0
    /\ finished = {}

Goto(th, from, to) == pc[th] = from /\ pc' = [pc EXCEPT ![th] = to]

Empty(th) == head[th] = tail[th]

-----------------------------------------------------------------------------
(* A pool thread: TaskWorkerStart.                                         *)

\* Mutant of RegisterThisThreadAsWorker: the id is read after the emplace.
RegisterEmplacesFirst(th) ==
    /\ Goto(th, "start", "activate")
    /\ workersLock = NoThread
    /\ workers' = Append(workers, th)
    /\ id' = [id EXCEPT ![th] = Len(workers')]
    /\ UNCHANGED <<workersLock, activeWorkersCount, shouldPause, shouldStop,
                   newWorkArrived, rings, calls, popping, sets>>

RegisterThisThreadAsWorker(th) ==
    /\ Goto(th, "start", "activate")
    /\ workersLock = NoThread
    /\ id' = [id EXCEPT ![th] = Len(workers)]
    /\ workers' = Append(workers, th)
    /\ UNCHANGED <<workersLock, activeWorkersCount, shouldPause, shouldStop,
                   newWorkArrived, rings, calls, popping, sets>>

\* Mutant of Activate: the thread starts looking for work without being counted.
ActivateUncounted(th) ==
    /\ Goto(th, "activate", "loop")
    /\ UNCHANGED <<pool, newWorkArrived, rings, calls, popping, sets>>

\* SetThreadStatus(true)
Activate(th) ==
    /\ Goto(th, "activate", "loop")
    /\ activeWorkersCount' = activeWorkersCount + 1
    /\ UNCHANGED <<workers, id, workersLock, shouldPause, shouldStop,
                   newWorkArrived, rings, calls, popping, sets>>

CheckStop(th) ==
    /\ Goto(th, "loop", IF shouldStop THEN "leave" ELSE "checkpause")
    /\ UNCHANGED <<pool, newWorkArrived, rings, calls, popping, sets>>

CheckPause(th) ==
    /\ Goto(th, "checkpause", IF shouldPause THEN "rest" ELSE "own")
    /\ UNCHANGED <<pool, newWorkArrived, rings, calls, popping, sets>>

\* SetThreadStatus(false), before sleeping or before leaving for good
Deactivate(th) ==
    /\ \/ Goto(th, "rest", "sleep") /\ UNCHANGED draining
       \/ Goto(th, "leave", "drain") /\ draining' = [draining EXCEPT ![th] = TRUE]
    /\ activeWorkersCount' = activeWorkersCount - 1
    /\ UNCHANGED <<workers, id, workersLock, shouldPause, shouldStop,
                   newWorkArrived, rings, stack, popping, sets>>

\* newWorkArrived.Wait() returns and resets the event.
EventWait(th) ==
    /\ Goto(th, "sleep", "woken")
    /\ newWorkArrived
    /\ newWorkArrived' = FALSE
    /\ UNCHANGED <<pool, rings, calls, popping, sets>>

CheckPauseAgain(th) ==
    /\ Goto(th, "woken", IF shouldPause THEN "sleep" ELSE "activate")
    /\ UNCHANGED <<pool, newWorkArrived, rings, calls, popping, sets>>

-----------------------------------------------------------------------------
(* ExecuteOneTask: own ring, ring of workers[0], TryToSteal.               *)

\* The pop of one stage gave nothing: the next stage, or nothing at all.
NextStage(th) ==
    /\ seen' = [seen EXCEPT ![th] = NotSeen]
    /\ victim' = [victim EXCEPT ![th] = NoThread]
    /\ \/ Goto(th, "own", "first") /\ UNCHANGED <<span, attempts>>
       \/ /\ Goto(th, "first", "random")
          /\ span' = [span EXCEPT ![th] = Len(workers)]
          /\ attempts' = [attempts EXCEPT ![th] = StealAttempts]
       \/ /\ Goto(th, "random", IF attempts[th] = 1 THEN "none" ELSE "random")
          /\ span' = [span EXCEPT ![th] = IF attempts[th] = 1 THEN 0 ELSE @]
          /\ attempts' = [attempts EXCEPT ![th] = @ - 1]
       \/ Goto(th, "drain", "unregister") /\ UNCHANGED <<span, attempts>>

\* The worker an index leads to.  Behind the end of the vector lies what an
\* erase left there: a pointer to some thread's worker.
WorkersAt(i) == IF i <= Len(workers) THEN {workers[i]} ELSE Threads

\* The rings a pop of this stage may read; a draw of the thread's own index in
\* TryToSteal is drawn again and does not count as an attempt.  A thread that
\* can only draw itself draws for ever.
Victims(th) ==
    CASE pc[th] \in {"own", "drain"} -> {th}
      [] pc[th] = "first"            -> WorkersAt(1)
      [] pc[th] = "random"           -> UNION {WorkersAt(i) : i \in 1 .. span[th]} \ {th}

PopRead(th) ==
    /\ pc[th] \in PopStages
    /\ seen[th] = NotSeen
    /\ \E v \in Victims(th) :
          \/ /\ Empty(v)
             /\ NextStage(th)
          \/ /\ ~Empty(v)
             /\ victim' = [victim EXCEPT ![th] = v]
             /\ seen' = [seen EXCEPT ![th] = head[v]]
             /\ UNCHANGED <<pc, span, attempts>>
    /\ UNCHANGED <<pool, newWorkArrived, rings, calls, sets>>

\* The compare-exchange succeeds: the task is this thread's.
PopClaim(th) ==
    LET v == victim[th] IN
    /\ seen[th] # NotSeen
    /\ head[v] = seen[th]
    /\ head' = [head EXCEPT ![v] = @ + 1]
    /\ stack' = [stack EXCEPT ![th] = <<Frame("ExecuteTask", <<v, seen[th]>>, tail[th])>> \o @]
    /\ seen' = [seen EXCEPT ![th] = NotSeen]
    /\ \/ Goto(th, "random", "hint") /\ UNCHANGED victim
       \/ /\ pc[th] # "random"
          /\ pc' = [pc EXCEPT ![th] = "run"]
          /\ victim' = [victim EXCEPT ![th] = NoThread]
    /\ span' = [span EXCEPT ![th] = 0]
    /\ attempts' = [attempts EXCEPT ![th] = 0]
    /\ UNCHANGED <<pool, newWorkArrived, tail, finished, draining, sets>>

PopLoses(th) ==
    /\ seen[th] # NotSeen
    /\ head[victim[th]] # seen[th] \/ WeakCasFails
    /\ NextStage(th)
    /\ UNCHANGED <<pool, newWorkArrived, rings, calls, sets>>

\* TryToSteal: `if (!other->empty()) newWorkArrived.Set();`
StealHint(th) ==
    /\ Goto(th, "hint", "run")
    /\ newWorkArrived' = (newWorkArrived \/ ~Empty(victim[th]))
    /\ victim' = [victim EXCEPT ![th] = NoThread]
    /\ UNCHANGED <<pool, rings, calls, seen, span, attempts, sets>>

\* ExecuteOneTask returns false, to Wait or to TaskWorkerStart.
FoundNothing(th) ==
    /\ Goto(th, "none", IF stack[th] = <<>> THEN "rest" ELSE "waitcheck")
    /\ UNCHANGED <<pool, newWorkArrived, rings, calls, popping, sets>>

-----------------------------------------------------------------------------
(* Executing a task.  Its body may push further tasks to the ring of the   *)
(* thread it runs on, and wait for them.                                   *)

Pushed == tail[Main] + FoldLeft(LAMBDA sum, th : sum + tail[th], 0, SetToSeq(Pool))

\* The pointer is stored; the thread goes on to newWorkArrived.Set().
Push(th) ==
    /\ Pushed < MaxPushed
    /\ tail' = [tail EXCEPT ![th] = @ + 1]
    /\ UNCHANGED <<pool, newWorkArrived, head, finished, calls, popping, sets>>

PushInBody(th) == Goto(th, "run", "runset") /\ Push(th)

\* Mutant of PushSets: nobody is woken.
PushSetsNothing(th) ==
    /\ Goto(th, "runset", "run") \/ Goto(th, "appset", "app")
    /\ UNCHANGED <<pool, newWorkArrived, rings, calls, popping, sets>>

PushSets(th) ==
    /\ Goto(th, "runset", "run") \/ Goto(th, "appset", "app")
    /\ newWorkArrived' = TRUE
    /\ UNCHANGED <<pool, rings, calls, popping, sets>>

\* ... and its caller goes on: Wait, a drain loop or TaskWorkerStart.
ExecuteTaskReturns(th) ==
    /\ Goto(th, "run", IF Len(stack[th]) > 1 THEN "waitcheck"
                       ELSE IF draining[th] THEN "drain" ELSE "loop")
    /\ finished' = finished \cup {Head(stack[th]).task}
    /\ stack' = [stack EXCEPT ![th] = Tail(@)]
    /\ UNCHANGED <<pool, newWorkArrived, head, tail, draining, popping, sets>>

-----------------------------------------------------------------------------
(* Wait, called by the main thread or by a task's body for a task of the   *)
(* ring of its thread.  A body waits for each of its tasks once, oldest    *)
(* first.                                                                  *)

MainWait(p) ==
    /\ Goto(Main, "app", "waitcheck")
    /\ p < tail[Main]
    /\ stack' = [stack EXCEPT ![Main] = <<Frame("Wait", <<Main, p>>, 0)>>]
    /\ UNCHANGED <<pool, newWorkArrived, rings, draining, popping, sets>>

WaitInBody(th, p) ==
    /\ Goto(th, "run", "waitcheck")
    /\ draining[th] => DrainedBodiesWait
    /\ Head(stack[th]).from <= p /\ p < tail[th]
    /\ stack' = [stack EXCEPT ![th] =
                    <<Frame("Wait", <<th, p>>, 0), [Head(@) EXCEPT !.from = p + 1]>> \o Tail(@)]
    /\ UNCHANGED <<pool, newWorkArrived, rings, draining, popping, sets>>

\* `while (!task.IsFinished()) ExecuteOneTask();`
WaitCheck(th) ==
    /\ pc[th] = "waitcheck"
    /\ \/ /\ Head(stack[th]).task \in finished
          /\ Goto(th, "waitcheck", IF Len(stack[th]) > 1 THEN "run" ELSE "app")
          /\ stack' = [stack EXCEPT ![th] = Tail(@)]
       \/ /\ Head(stack[th]).task \notin finished
          /\ Goto(th, "waitcheck", "own")
          /\ UNCHANGED stack
    /\ UNCHANGED <<pool, newWorkArrived, rings, draining, popping, sets>>

-----------------------------------------------------------------------------
(* The main thread's other calls.                                          *)

MainPushTask == Goto(Main, "app", "appset") /\ Push(Main)

\* CRenderDevice::OnWindowActivate calls Pause(true) and Pause(false) in turn.
Pause ==
    /\ CanPause
    /\ pc[Main] = "app"
    /\ shouldPause' = ~shouldPause
    /\ UNCHANGED <<workers, id, workersLock, activeWorkersCount, shouldStop,
                   newWorkArrived, rings, pc, calls, popping, sets>>

-----------------------------------------------------------------------------
(* ~TaskManager, and what every thread does on its way out.                *)

Destroy ==
    /\ Goto(Main, "app", "stopset")
    /\ shouldStop' = TRUE
    /\ sets' = Cardinality(Pool)
    /\ UNCHANGED <<workers, id, workersLock, activeWorkersCount, shouldPause,
                   newWorkArrived, rings, calls, popping>>

\* `for (i < count) newWorkArrived.Set();`, then the drain loop
StopSet ==
    /\ \/ /\ sets > 0
          /\ newWorkArrived' = TRUE
          /\ sets' = sets - 1
          /\ UNCHANGED <<pc, draining>>
       \/ /\ sets = 0
          /\ Goto(Main, "stopset", "drain")
          /\ draining' = [draining EXCEPT ![Main] = TRUE]
          /\ UNCHANGED <<newWorkArrived, sets>>
    /\ pc[Main] = "stopset"
    /\ UNCHANGED <<pool, rings, stack, popping>>

\* UnregisterThisThreadAsWorker: take the lock and ask the others to pause.
UnregisterLocks(th) ==
    /\ Goto(th, "unregister", "spin")
    /\ workersLock = NoThread
    /\ workersLock' = th
    /\ shouldPause' = TRUE
    /\ UNCHANGED <<workers, id, activeWorkersCount, shouldStop,
                   newWorkArrived, rings, calls, popping, sets>>

\* Mutant of UnregisterSpins: the vector is changed under the active threads.
UnregisterDoesNotSpin(th) ==
    /\ Goto(th, "spin", "erase")
    /\ UNCHANGED <<pool, newWorkArrived, rings, calls, popping, sets>>

\* `while (activeWorkersCount.load()) Sleep(2);`
UnregisterSpins(th) ==
    /\ Goto(th, "spin", "erase")
    /\ activeWorkersCount = 0
    /\ UNCHANGED <<pool, newWorkArrived, rings, calls, popping, sets>>

\* Mutant of UnregisterErases: shouldPause stays set.
UnregisterErasesPaused(th) ==
    /\ Goto(th, "erase", IF th = Main THEN "empty" ELSE "exited")
    /\ id' = [id EXCEPT ![th] = -1]
    /\ workers' = RemoveFirst(workers, th)
    /\ workersLock' = NoThread
    /\ UNCHANGED <<activeWorkersCount, shouldPause, shouldStop,
                   newWorkArrived, rings, calls, popping, sets>>

UnregisterErases(th) ==
    /\ Goto(th, "erase", IF th = Main THEN "empty" ELSE "exited")
    /\ id' = [id EXCEPT ![th] = -1]
    /\ workers' = RemoveFirst(workers, th)
    /\ shouldPause' = FALSE
    /\ workersLock' = NoThread
    /\ UNCHANGED <<activeWorkersCount, shouldStop,
                   newWorkArrived, rings, calls, popping, sets>>

\* `while (!workers.empty()) { newWorkArrived.Set(); Sleep(0); }`
SetUntilEmpty ==
    /\ \/ workers = <<>> /\ Goto(Main, "empty", "join") /\ UNCHANGED newWorkArrived
       \/ workers # <<>> /\ newWorkArrived' = TRUE /\ UNCHANGED pc
    /\ pc[Main] = "empty"
    /\ UNCHANGED <<pool, rings, calls, popping, sets>>

Join ==
    /\ Goto(Main, "join", "exited")
    /\ \A th \in Pool : pc[th] = "exited"
    /\ UNCHANGED <<pool, newWorkArrived, rings, calls, popping, sets>>

-----------------------------------------------------------------------------

\* The steps a thread takes on its own, once started.
Step(th) ==
    \/ RegisterThisThreadAsWorker(th) \/ Activate(th) \/ CheckStop(th) \/ CheckPause(th)
    \/ Deactivate(th) \/ EventWait(th) \/ CheckPauseAgain(th)
    \/ PopRead(th) \/ PopClaim(th) \/ PopLoses(th) \/ StealHint(th) \/ FoundNothing(th)
    \/ PushSets(th) \/ ExecuteTaskReturns(th) \/ WaitCheck(th)
    \/ UnregisterLocks(th) \/ UnregisterSpins(th) \/ UnregisterErases(th)

Next ==
    \/ \E th \in Threads : Step(th) \/ PushInBody(th)
    \/ MainPushTask
    \/ \E p \in 0 .. MaxPushed : MainWait(p) \/ \E th \in Threads : WaitInBody(th, p)
    \/ Pause \/ Destroy \/ StopSet \/ SetUntilEmpty \/ Join

Spec == Init /\ [][Next]_vars

(***************************************************************************)
(* Fairness.  Every thread is scheduled again and again and task bodies    *)
(* return.  No strong fairness is needed of the mutex, which every thread  *)
(* takes at most twice, nor of the event.  Nothing obliges a thread to     *)
(* push or to wait, or the main thread to destroy the manager.             *)
(***************************************************************************)
Fairness ==
    /\ \A th \in Pool : WF_vars(Step(th))
    /\ WF_vars(Step(Main) \/ StopSet \/ SetUntilEmpty \/ Join)

FairSpec == Spec /\ Fairness

-----------------------------------------------------------------------------

\* The count is exact: it is the number of threads between the two calls of
\* SetThreadStatus, whatever tasks and waits are on their stacks, also across
\* pauses and at the end.
ActiveCountExact ==
    activeWorkersCount = Cardinality(
        {th \in Pool : ~draining[th] /\ pc[th] \notin {"start", "activate", "sleep", "woken"}})

\* workers[0] and TryToSteal read the vector without the lock, from as deep in
\* nested waits as the tasks go.  Whenever a thread is about to index it, there
\* is a workers[0], and the indices TryToSteal draws from are still in range:
\* whoever erases an element has waited until nobody indexes.  The waiting
\* relies on the activity count, so the second half is promised only to threads
\* that are not in their drain loop; those run tasks without being counted.
IndexInRange ==
    \A th \in Threads :
        /\ pc[th] = "first" => workers # <<>>
        /\ pc[th] = "random" /\ ~draining[th] => span[th] \in 1 .. Len(workers)

\* Until the manager is destroyed, the ids tasks use to index per-worker data
\* (GetCurrentWorkerID) are all different and below GetWorkersCount().
IdsIndexWorkers ==
    ~shouldStop => \A i \in DOMAIN workers : id[workers[i]] = i - 1

\* `// Finish all pending tasks` (in the destructor and in TaskWorkerStart): a
\* thread that has drained its ring and left the vector, after which nobody looks
\* into the ring again, leaves no task in it.
DrainedIsEmpty ==
    \A th \in Threads : pc[th] \in {"empty", "join", "exited"} => Empty(th)

\* A task the main thread pushes is taken by a pool thread although Set calls
\* coalesce and threads are busy or fall asleep late, even if nobody waits for it:
\* provided the main thread does not call Wait, in which it may win the race for
\* another task against the very thread that the push has woken.
MainTasksTaken ==
    [](stack[Main] = <<>>) =>
        \A p \in 0 .. MaxPushed - 1 :
            (p < tail[Main]) ~> (p < head[Main] \/ shouldStop)

\* Destroying the manager comes to an end: no thread sleeps through it, and the
\* threads that leave do not block each other.
ShutdownCompletes == shouldStop ~> (\A th \in Threads : pc[th] = "exited")
=============================================================================

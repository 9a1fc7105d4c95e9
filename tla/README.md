# Models of the OpenXRay engine core

TLA+ modules for the concurrent and the re-entrant part of the engine in
`src/`: the task system all engine threads share, the object scheduler that
calls game code which calls the scheduler back, the list of game objects and
their destruction, and the sound emitters whose blocks are decoded by tasks.
Each module is translated from the code and checked with TLC on small instances; for
each of them, TLAPS proves the safety properties for any number of tasks, threads, objects,
emitters and voices.

Paths below are relative to `src/src/`.

## 1. The system

OpenXRay is a game engine: one frame loop on the main thread, a pool of worker
threads that run tasks, and some 2000 files of game rules on top. These are its
parts, the state each keeps and what makes it correct. The list in
`PROJECT.json` gives the status of each.

| Part | State | Operations | Interacts with | Hard behaviour | Correct when |
|---|---|---|---|---|---|
| **Task tree** `xrCore/Threading/Task.hpp`, `TaskManager` | per task: counter of unfinished jobs, parent | CreateTask, PushTask, RunTask, Wait | everything that runs in parallel | counters decremented by several threads, waits nested on one stack | a finished task has a finished subtree; Wait ends |
| **Task rings** `TaskManager.cpp` 68-145 | per thread: ring of slots, ring of pointers, head, tail | allocate, push, pop, steal | worker pool | lock-free, non-atomic entries, reused slots | every task is taken exactly once |
| **Worker pool** `TaskManager.cpp` 147-343 | vector of workers, activity count, pause and stop flags, event | register, unregister, sleep, steal, pause, destroy | frame loop, rings, `Event` | vector read without a lock, auto-reset event, shutdown | no bad index, no lost wake-up, shutdown ends |
| **ParallelFor, ParallelForEach** | a range per task | split, call | task tree | recursion over threads | each index once before it returns |
| **Object scheduler** `xrEngine/xrSheduler.cpp`, `ISheduled.cpp` | realtime list, heap, processed list, deferred calls | Register, Unregister, Update, Destroy | all game objects, by callback | containers change under the loops, objects are deleted | the containers agree with the callers, nothing dangles, nobody starves |
| **Object list** `xrEngine/xr_object_list.cpp`, `xrGame/GameObject.cpp` | active, sleeping, crow lists, destroy queue, relcase callbacks | spawn, attach, activate, MakeMeCrow, setDestroy, Update, Unload | scheduler, worker threads (crow lists), sound, HUD | crow lists written by worker threads, game code called from inside of the loops | an object is on one crow list or none; carriers before what they carry; no list holds a destroyed object |
| **Sound emitters** `xrSound/SoundRender_Emitter*.cpp`, `SoundRender_Core*.cpp` | state machine, ring of decoded blocks, pointer to the decoding task, voices | start, stop, rewind, update, render | task system, mixer | decoding runs while the state machine changes, the pointer may be stale, voices are taken away | blocks are played in order; the mixer and the decoder never work on one emitter together; waits end |
| **Message registries** `xrEngine/pure.h`, `EventAPI.cpp` | prioritised handlers | Add, Remove, Process | frame loop, all subsystems | handlers add, remove and process re-entrantly | a removed handler is not called, each handler once |
| **Shared strings, resources** `xrCore/xrstring.cpp`, `xr_resource.h` | reference counts, table of strings | dock, clean | all threads | counts change outside of the lock | a referenced string is not freed |
| **Frame loop** `xrEngine/device.cpp` | frame counter, focus, parallel sequence | ProcessFrame, OnWindowActivate | worker pool, registries | one task per frame races the renderer | the frame ends after its task |
| ALife, game objects, physics, path finding, spatial database, renderers, script engine, network, file system, UI, Android launcher | large data | - | - | mostly sequential, data-driven | not modelled, see section 7 |

## 2. Modules

```
TaskFifo <---- implements ---- TaskQueue          rings, access by access
TaskTree <---- EXTENDS ------- ParallelFor        counters and waits; ranges
TaskWorkers                                       threads, event, shutdown
SchedulerRegistry <- implements - Scheduler       containers and callbacks
ObjectList                                        game objects, crows, destruction
SoundEmitter                                      mixer, decoding tasks, voices
X_proofs        EXTENDS X     for X = TaskTree, TaskQueue, TaskWorkers, ParallelFor, Scheduler,
                              ObjectList, SoundEmitter
                              (ParallelFor_proofs EXTENDS TaskTree_proofs too)
MC*                           instances for TLC
```

The task system is cut in three because its parts fail for different reasons:
`TaskTree` treats the rings as one pool of pushed tasks from which any thread may
take any task, `TaskQueue` shows that one ring hands each task to one thread,
`TaskWorkers` that the threads are there to look. Memory is sequentially
consistent in all three: the code's relaxed and acquire/release orderings are
not told apart.

Definitions named `... Uncounted`, `... Keeps`, `Split...` and the like, with a
comment "Mutant of X", are deliberately wrong variants of the definition X that follows.
No specification uses them; put in place of X they show that a property notices.

### TaskTree

`jobs` and `parent` are `Task::Data`. A *frame* is a task whose body is on some
thread's stack, or the bottom of a thread's stack; `top` and `below` are the stacks. `at` is
where the code of a frame stands: `body` in the task's body, `wait` and `help` in
`TaskManager::Wait` (before the test and before `ExecuteOneTask`), `count` in the loop of
`Task::operator()`. One turn of that loop is one step, so threads that finish
siblings interleave between `fetch_sub` and the climb to the parent.
`lineage` is history: all ancestors of a task.

Each element of `Tasks` is used once: a counter names one task. `TaskQueue` models the reuse of
slots, which the release build does not test for (section 5).
Two facts about the callers are built in. `CreateTask(parent, f)` is called by
the body of `parent` (`Layers/xrRender_R2/r2.h`:55, `ParallelFor.hpp`:172). A frame waits for tasks
its own code made, which holds for every `Wait` in the tree but the one of
the sound emitters, whose task has a body that never waits itself (and whose pointer may name another task's slot; see
`SoundEmitter`). The second matters: a
body that waits for a task further down on its own stack never returns, and
`NoCircularWait` fails when `Wait` accepts any task.

### TaskFifo and TaskQueue

`TaskFifo` is the promise: a queue; each task is handed to one thread. `TaskQueue`
is the code: `m_head_pos`, `m_tail_pos` and `m_storage` of one ring, the
allocator of the thread that owns it, and a program counter per thread between any two
memory accesses: claim position, store; load head, read entry,
compare-exchange, clear, run. The compare-exchange may fail
spuriously (`PopLoses`), as a weak one may on ARM. A task enters the abstract queue with the
`fetch_add` of its push and leaves it with the successful compare-exchange.

The allocator waits for nobody. `VERIFY(task->IsFinished())` (`TaskManager.cpp`:80) and the overflow test of `push` (:97)
are empty in release builds; `Allocate` takes the next slot whatever is in it, and the history
variable `overwritten` records that the test of :80 would have failed. The properties of the ring
speak of the time before that.

`PromptClear` is an assumption about the scheduler of the operating system, see
the finding in section 5. The owner does not push while it runs a task body here
(`TaskWorkers` has `PushInBody`): between `fetch_add` and clear that would add
no new order of the accesses to the ring, since the owner's own pop has ended before.

### TaskWorkers

The states of `TaskWorkerStart`, `ExecuteOneTask`, `TryToSteal`,
`Register-`/`UnregisterThisThreadAsWorker`, `~TaskManager`, and what the frame
loop does: push a task, wait for it, pause when the window loses the focus. A body may push tasks and
wait for them, on whatever thread and in whatever loop it runs. `Wait` executes further tasks
on top of it, so each thread has a `stack` of the calls of `ExecuteTask` and `Wait` it is in, and `draining`
says that the outermost of them is in the loop that finishes the pending tasks of a leaving thread. A pop is
two steps, read and compare-exchange, and the latter may fail spuriously (`WeakCasFails`). An index behind the end of `workers`
finds what an erase left there, a pointer to some thread's ring (`WorkersAt`); a draw of the
thread's own index is drawn again, so a thread that can draw nothing else goes on for ever. `Event` is the boolean
`newWorkArrived`: `Set` sets it, `Wait` blocks until it is set and resets it.

### SchedulerRegistry and Scheduler

`SchedulerRegistry` is the promise: a set of registered objects, of which one at
a time is updated, each at most once per frame. `Scheduler` has the five places where an object can
be: `ItemsRT`, `Items` (the heap), `ItemsProcessed`, `m_current_step_obj` and the deferred
calls in `Registration`. `phase` is how far `Update` has come; `updating` is the
object whose `shedule_Update` runs. While it is not `None`, and between frames, game code may call
`Register`, `Unregister` and `setDestroy` on any object. `stale` holds what the
loop over `ItemsRT` still finds behind the vector's end after an erase. An object is its
address: registering one that was unregistered may be a new object in
reused memory. `client` (what callers did), `served` (updated in this frame) and
`waited` (steps that passed a due object over) are history.
`EnsureOrder` is not modelled: nothing calls it.

### ParallelFor

EXTENDS `TaskTree` and gives every task the range its functor carries; each action is an
action of `TaskTree` with an effect on ranges. `SplitRange` is the splitting
constructor, `Grain` the constant `m_grain` (which the code computes from the size and the number of workers, at least 1).

### ObjectList

The two lists, the primary crow list, one secondary list per worker, the destroy
queue, and of each object the fields of `Props` and its neighbours. `phase` is how far the
frame has come: `game` (calls from anywhere outside of `Update`), `merge` (the loop over the secondary lists),
`update` (the rest of `CObjectList::Update` up to the destroy loop), `descend` (there, `SingleUpdate` on
its way up to a parent), `destroy` (that loop), `render` (the
renderer's tasks call `renderable_Render`), `unload` (in `Unload`, which destroys one
object at a time, sleeping ones first, whoever carries it).
`workload` and `chain` are the locals of the update: the array it works through, and the
recursion of `SingleUpdate` to the parents, one `Descend` for each call of it. The lists are merged
one by one, in any order. On the main thread `MakeMeCrow` is one step, because
no other thread calls it then; on the worker threads it is cut at
every shared access: the test of `Props` (`Render`), the load and the compare-exchange of
`dwFrame_AsCrow`, `o_crow`, the store of the flag. Between frames game code
spawns, attaches, detaches and destroys objects (on events, which are handled before `Update`); then, and
from inside of `UpdateCL`, it nests `processing_activate` and `processing_deactivate` and asks for updates.

`due` observes whose update the frame owes. An object is its address; a new one in the same
memory keeps the `dwFrame_UpdateCL` it finds there, which the constructor does
not set. In `render` only the renderer's tasks touch objects. The engine runs the frame's
parallel sequence (`device.cpp`:795, ALife, visibility of monsters) at the same time; that
nothing in it writes the properties of an object that is being drawn is an assumption
about game code, and a strong one: the crow flag is one bit of a word it shares with the others
(`xr_object.h`:73). The order of the active and sleeping list is left open (nothing depends on
it); the order of the crow lists, which decides who is updated first, is kept.

### SoundEmitter

`em` holds an emitter's fields, `tg` the voices, `task` the decoding task of each emitter and
`prefill_task` what the pointer to it is worth: `none` for `nullptr`, `own` for
this emitter's last task, `foreign` when the slot of the finished task has been given
to another one (`TaskAllocator` reuses slots in turn), and `buried` when that other one
is, or lies under, the task in which the mixer's next call runs: the frame's parallel task
(`device.cpp`:794, :801), allocated by the same thread, or a body that waits and has picked that task
up. Such a task does not end before the call returns. The mixer is one thread at
a time; what a call still has to do is the sequence `prog`, cut where the decoding
thread can come in: `wait_prefill`, `AddTask` and the store of the pointer are three steps, so the
task may run and clear the pointer before it is stored. `Fsm` is the switch over
`m_current_state`, whose transitions replace the head of `prog` by the calls they make;
`IStart` takes a voice away from another emitter, whose cancel comes first in `prog`.

Volume, time, position and pause are data that choose among the branches of that switch, so
any branch they could take is allowed; looped and one-shot states are one
state each, since a looped sound is one that never ends. The cursor within the sound is
abstracted: `temp_buf` holds the age of each decoded block (how many were
decoded after it), which is what tells their order. The functions take part as they are
called: `update` before `render`, emitters that have a voice first, calls of the game
(`play`, `stop`, `stop_deferred`) before a frame and between update and render, the
deletion of stopped emitters.

## 3. Runs

| Run | Instance | Checks | States |
|---|---|---|---|
| `task_tree` | 3 tasks, 2 threads, fair | `IInv`, `FinishedMeansTreeDone`, `NoCircularWait`, `WaitReturnsAfterTree`, `FinishedIsFinal`, `EveryWaitEnds`, `EveryTaskFinishes` | 35 000 |
| `task_queue` | ring of 3, 3 threads, 7 allocations | `ExecutedOnce`, `RingSound`, `ImplementsFifo` | 1 374 000 |
| `task_queue_stall` | as above, 4 allocations, no `PromptClear` | `ExecutedOnce` is violated | - |
| `task_workers` | main + 2 threads, 3 tasks, waits everywhere, pauses, spurious failures | `ActiveCountExact`, `IndexInRange`, `IdsIndexWorkers` | 1 878 000 |
| `task_workers_live` | main + 2 threads, 2 tasks, fair; no pauses, no spurious failures, no waits in drain loops | `MainTasksTaken`, `ShutdownCompletes` | 209 000 |
| `task_workers_drain` | main + 2 threads, 2 tasks | `DrainedIsEmpty` is violated | - |
| `scheduler` | 3 objects, 5 calls, 3 ticks, periods 1 and 2, budget tested every 2 entries | `RegistryMatchesCallers`, `HeldOnce`, `NeverDangling`, `RTAllServed`, `NoStarvation`, `ImplementsRegistry` | 224 000 |
| `scheduler_rt` | 3 objects, realtime objects unregister in the loop | `OncePerFrame` is violated | - |
| `parallel_for` | 7 indices, grain 2, 7 tasks, 2 threads | `EveryIndexOnce`, `ReturnsWhenAllCalled`, `ParallelForReturns` | 38 000 |
| `object_list` | 3 objects, main thread and one worker, 2 frames, 4 calls | `CrowListed`, `ActiveIffCounted`, `QueueSound`, `NoDangling`, `CrowsServed`, `ParentFirst` | 1 346 000 |
| `object_list_unload` | as above | `QueueLeftEmpty` is violated | - |
| `sound_emitter` | 2 emitters, one voice, ring of 2 blocks, 1 submitted at once | `DecoderHandover`, `DecodesWhilePlaying`, `BlocksInOrder`, `TargetMatch`, `MixerReturns` | 1 115 000 |

The safety run of each module also checks its type invariant (in `task_tree` as a part of
`IInv`; `ParallelFor` adds a function from tasks to ranges, whose type its invariants need).

**Why the bounds are enough.** `Tasks` = 3 allows a chain of three, a
parent with two children, and a tree of two with a task beside it for waits to nest over it; the smallest
error of a counter needs a parent and two children, and the circle of buried waits that the mutant
`WaitAny` makes needs no more. Beyond that the theorems of section 6 take over, which hold for any number. A
ring of 3 with 7 allocations goes round more than twice; the first reuse of a
position is what every hazard of the ring is about; its tasks may also be left unfinished for a
turn, so that the allocator overwrites them. Two pool threads are needed for a
stealer and a leaver beside the main thread. With three tasks a body in a drain loop pushes and waits for one
while another thread leaves. The two tasks of the liveness run are the least with which `Set` calls coalesce and
a task is pushed while the woken thread is busy. Five calls of game code reach
register, unregister, register of one object in one frame with
another object destroyed meanwhile; three objects are one more than can
be in the current step and processed. `CheckEvery` is 2 instead of 3 so that
a step can run out of budget with three objects. Seven indices with grain 2 split unevenly
on two levels (3 and 4; 1, 2, 2, 2), and need exactly seven tasks. Three objects
in `object_list` can carry each other in a chain, or one two others; the main thread and one worker are
two that ask for an update of one object at once; in two frames a request of the first is
due in the second. Two emitters and one voice make every start of the second one
a takeover; a ring of two blocks has both a block that waits to be played and one that is being
decoded, and goes round with every second block.

Deadlock checking is off in the runs whose instance stops by itself, when the
tasks, calls, frames or positions are used up. `sound_emitter` has no bounded counter, but
a call of the mixer that waits for the task it runs in stops the system for good, as the code does; what
`MixerReturns` says is that nothing else does.

Symmetry is used in runs without liveness properties, over threads, tasks and objects
none of which a definition singles out. In `scheduler` and `task_queue` it is used together with the
refinement property, which is a safety property of steps.

**Bounds** are the constants `MaxAllocated`, `MaxPushed`, `MaxTime`, `MaxFrame` and
`MaxCalls`. The constants `CanPause`, `WeakCasFails` and `DrainedBodiesWait` switch behaviours of the code
off in the liveness run (section 5 says what happens with them), and the first two in `task_workers_drain`, whose
counterexample needs neither; `StealAttempts` is 1 where the code has 5, which
only shortens the search for work: a failed search may be followed by another.

## 4. Fairness

* `TaskTree`: a thread that can test, count down or find nothing does so (weak
  fairness: the operating system schedules it). Bodies end and push what they
  create (strong fairness, since a body may call other things in between). A
  thread that looks for work while tasks are pushed again and again finds one
  (strong fairness of `ExecuteOneTask`): it looks into its own ring and ring 0 first and draws
  victims uniformly from the others, so it misses a ring for ever with probability zero.
* `TaskWorkers`: each thread takes its steps (weak fairness, per thread) and bodies return. Neither the
  mutex nor the event needs more: nobody competes for the mutex again and again, and the destructor sets the event in a
  loop until `workers` is empty (`TaskManager.cpp`:185). Nothing
  obliges a thread to push or to wait, or the main thread to destroy the manager. Pauses are left out of this run: a pause
  that never ends stops the pool by intention.
* `ParallelFor`: as `TaskTree`, and the functor's own steps.
* `SoundEmitter`: the thread of the mixer goes on with its call (weak fairness of `Mixer`), every
  decoding task is taken and gets on (`Decoder`), and a foreign task in a reused slot
  finishes, but one the running call is buried in only after that call. `TaskTree` and `TaskWorkers` show that a pushed task is executed;
  the wait of the mixer executes tasks itself. Nothing obliges the game to play or stop a sound.

`TaskQueue`, `Scheduler` and `ObjectList` have no liveness properties under fairness. What
`ObjectList` owes a crow is due in the next frame (`CrowsServed`, an invariant at the end of the update). `NoStarvation` of
the scheduler is stated as a bound on the steps that pass an object over, which is stronger and
needs no fairness.

## 5. What the checks show

**Holds.**
* The counters of the task tree are exact: at any moment `jobs[p]` is the number
  of units outstanding (`JobsCount`, a part of `IInv`). Hence a zero speaks for the whole
  subtree, it is final, and `Wait` returns only then.
* Waiting threads that execute foreign tasks never wait in a circle, and every
  wait ends.
* The ring loses and duplicates nothing as long as no popper is delayed for a full
  turn and the allocator has constructed no task over an unfinished one. Of the two tests that are left out of the
  release build, the allocator's (`TaskManager.cpp`:80) finds every misuse that `push`'s (:97) would: the ring cannot
  overflow, or lose an entry, before it (`RingSound`). Nothing in the release build enforces either; that no thread has more
  than 4095 unfinished tasks is up to the users.
* The unlocked reads of the workers vector by threads that count as active are in range in every interleaving,
  including pauses, waits inside tasks, spurious failures and threads that register while others leave, and whoever reads
  `workers[0]` finds one. A task in a drain loop runs uncounted: when it waits, its thread may draw an index
  that was in range when it read the size and is not any more. An erase leaves the old pointer behind the
  vector's end, so the model lets it look into any thread's ring (in the code the memory of a thread that has ended is
  freed by then); the second half of `IndexInRange` is not promised to it.
* A task the main thread pushes is taken although `Set` calls coalesce, if the main thread does not
  call `Wait` (see below for why). Shutdown ends if no body waits in a drain loop.
* The scheduler's containers agree with the callers in all orders of calls
  from inside and outside of updates. The destructor's second Unregister is harmless. It
  follows no pointer to an unregistered object, and the realtime loop serves all - as long as no
  realtime object is unregistered from within that loop.
* A step over its budget passes an object over at most `Cardinality(Objects) - 1`
  times in the instance.
* `xr_parallel_for` calls its function exactly once for each index before it returns.
* However the tasks of a frame and game code ask for updates, an object is on
  exactly one crow list if it is flagged and on none otherwise; it is updated in
  the next frame, after the object that carries it. The destroy queue holds each
  flagged object once, carriers before what they carry, so that the loop from its back leaves
  no pointer behind. `Unload` keeps no such order: between two of its objects the lists, the loops and
  the threads point to living objects only, but what an object carries may be left with a `Parent` that is freed.
* The pointer to the decoding task may be stored after the task has ended, and may
  name a foreign task by the time it is waited on: the mixer then waits too long and
  never too little. No emitter is changed while it is being decoded, and only playing
  emitters are; blocks come out in the order they were decoded. Every call of the mixer returns, with
  one exception: the foreign task in the reused slot may be the one the call runs in (see below).

**Does not hold** (the four runs that expect a violation):
* `task_queue_stall`: `pop` clears the entry after the compare-exchange
  (`TaskManager.cpp`:108-111). A popper that stays between the two for
  `TASK_STORAGE_SIZE - 1` further positions lets a task be taken twice, which
  `Task.hpp`:205 asserts cannot happen. With 4096 entries it takes a long
  delay; the assumption `PromptClear` excludes exactly that.
* `task_workers_drain`: "Finish all pending tasks" (`TaskManager.cpp`:178, :260) stops when one
  compare-exchange is lost to a stealer, and leaves tasks in the ring.
* `scheduler_rt`: `Unregister` of a realtime object inside the realtime loop
  erases from the vector under a range-for: one object is skipped, another one
  updated twice in one frame (`xrSheduler.cpp`:459 asserts it is not). `configs_dumper.cpp`:57 does this on Windows.
* `object_list_unload`: `Unload` flags each object it destroys, which puts it into `destroy_queue`, and never
  takes it out (`xr_object_list.cpp`:475, :488). A level that is left with a leaked object stops the game at
  `R_ASSERT(destroy_queue.empty())` in the destructor (:53), and an `Update` in between would work through freed
  objects. `QueueSound` is therefore stated outside of `Unload`.

**Excluded by a stated condition**, because TLC finds the property to fail without it:
* `MainTasksTaken` when the main thread is in `Wait`. It pushes two tasks in a row, whose two `Set`s
  wake one pool thread; the main thread in its `Wait` wins the compare-exchange for the first against that thread, which takes
  the loss for an empty ring and goes to sleep. The second task stays in the ring until the next push or
  `Wait`. Every frame has both, so the task is late, not lost.
* `ShutdownCompletes` when bodies wait in drain loops, or with spurious failures. `TryToSteal` (`TaskManager.cpp`:272) draws
  among the workers and draws again, uncounted, when it has drawn itself. If the main thread runs a body in its drain
  loop that waits for a task which a pool thread took, and the pool threads have left meanwhile, it is the only worker left and draws for
  ever. The same happens at start-up when compare-exchanges of the main thread fail spuriously in `Wait` before any pool thread has
  registered: the range of the draw is fixed when it begins (:272), so a registration does not end it either.
* `MixerReturns` when the slot that a stale `prefill_task` names has gone to the task in which the mixer runs
  (`WaitsForItself`). `render` runs inside the frame's parallel task (`Engine.cpp`:76, `device.cpp`:801), whose slot comes from the
  main thread's allocator, as do those of the decoding tasks that `update` dispatches. `wait_prefill` then waits for the task it is in, and
  `device.cpp`:814 for both. It takes a turn of 4096 slots that ends at that slot and an emitter that has dispatched nothing
  meanwhile.

**Noticed while translating**, harmless in what is modelled:
* `Engine.cpp`:95 removes `g_sound_processor` from `seqFrameMT`, to which `g_sound_renderer` was
  added.
* An emitter that becomes audible again plays the blocks first that were decoded
  before it went quiet (`SoundRender_Emitter_FSM.cpp`:172 sets the cursor and keeps the blocks).
* The constructor of `CGameObject` leaves `dwFrame_UpdateCL` unset; if the memory holds the number
  of the present frame, the new object misses one update.

## 6. Proofs

Everything in the seven `_proofs` modules is checked to the last leaf; the only assumptions are the
named ones on constants, which TLC evaluates in every run. Only non-temporal facts and
PTL are used: each invariant is shown to hold initially, to be kept by every action, and to
imply the property.

### TaskTree_proofs: any finite `Tasks`, any `Workers`

| Theorem | States |
|---|---|
| `Invariance` | `Spec => []IInv` |
| `TypeCorrect` | `Spec => []TypeOK` |
| `JobsAreExact` | `Spec => []JobsCount` |
| `FinishedIsTreeDone` | `Spec => []FinishedMeansTreeDone` |
| `CountersGuarded` | `Spec => []RunningIsUnfinished` |
| `WaitIsSafe` | `Spec => WaitReturnsAfterTree` |
| `FinishedStays` | `Spec => FinishedIsFinal` |
| `DeadlockFree` | `Spec => []NoCircularWait` |

`JobsCount` says that a counter is the cardinality of the set
`Holders(p)`: the task itself until its body has given its unit back, its
unfinished children, and tasks whose thread is on the way to give a finished child's unit
back. Every step changes that set by at most one element exactly when it
changes the counter by one; the lemmas on adding and removing one element of a finite set carry
this. It is not inductive alone: `WellFormed` is needed to know that a target
of a count-down is a task that exists and whose child has finished, that an unborn
task has no children, and that no task is its own parent. A zero counter speaks only for direct children. `LineageUnfinished` closes the gap: an
ancestor is reached through a child, and while a task is unfinished all its
ancestors are. From `IInv`: if `jobs[t] = 0`, no descendant is unfinished, and a task
that is not unfinished has left its body, which is `FinishedMeansTreeDone`.

`NoCircularWait` needs a second invariant, `StackInv`. A waiting thread runs foreign tasks on top of the
waiting frame, which cannot go on before they return; so a thread may be kept from its own finished task by
another's wait, and a circle of such threads is what has to be excluded. The argument is about ages. `Stacks`:
every frame lies on one thread's stack, at a depth of its own, and only the frame on top counts
down or looks for work. `Makers`: a frame waits for a task it made itself, a task that has not
started has made none, and what is not published has a maker whose body still goes on. `Ages`: a task is
younger than its parent and than every frame *at or under* its maker's. Owners, depths
and dates of birth are quantified in the invariant, so the model needs no history variable for them.
Suppose nothing can be taken, no body and no count-down goes on and nobody on top can leave, but
somebody waits for an unfinished task. Among the unfinished tasks that were published or started
take the youngest, `x` (`Youngest`: from the well-foundedness of finite subsets). What keeps it unfinished can only
be its own frame, so it lies on a stack. The frame on top of that stack waits for an unfinished task it
made, which is younger than every frame under it, so younger than `x`: a contradiction. The assumption of the code this rests on is that
a body waits only for tasks it created; the mutant `WaitAny` drops it and the run finds the circle.

### TaskQueue_proofs: any ring size above one, any threads, any number of tasks

| Theorem | States |
|---|---|
| `Invariance` | `PromptClear => (Spec => [](TypeOK /\ (overwritten \/ IInv)))` |
| `TypeCorrect` | `Spec => []TypeOK` |
| `NeverTwice` | `PromptClear => (Spec => []ExecutedOnce)` |
| `RingIsSound` | `PromptClear => (Spec => []RingSound)` |
| `Refinement` | `PromptClear => (Spec => ImplementsFifo)` |

The code's ring has 4096 entries; that the theorem holds for every `Size > 1` is what a run with
three cannot say. (With one entry the claim fails: a position and the next share the entry.)
`ExecutedOnce`, `RingSound` and `ImplementsFifo` speak of runs in which the allocator has overwritten no unfinished task; `TypeOK`
holds without any condition. That the allocator's test implies the queue's is the content of `RingIsSound`: the two
rings advance apart. `RunTask` uses up slots and no entries, tasks leave the queue in order when they are taken and free their
slots in any order when they are finished. While the task at a position is unfinished and not overwritten, everything pushed
after it was allocated within one turn of the allocator's ring (`Kept`), and since positions grow no faster than
allocations (`Order`), it lies within one turn of the queue's ring. Hence no two positions that
matter share an entry, an entry that is not null belongs to a position that waits or
is being cleared (`Entries`), and threads hold different tasks (`Apart`). The
argument for a popper between compare-exchange and clear needs `PromptClear`, and the run
`task_queue_stall` shows that nothing weaker than it will do. For the refinement the
abstract queue is the sequence of slots at the positions from head to tail: a
`fetch_add` appends one, a successful compare-exchange takes the first, all else stutters.

### TaskWorkers_proofs: any finite `Pool`, any number of tasks, pauses, spurious failures

| Theorem | States |
|---|---|
| `Invariance` | `Spec => []IInv` |
| `TypeCorrect` | `Spec => []TypeOK` |
| `CountIsExact` | `Spec => []ActiveCountExact` |
| `IdsAreIndices` | `Spec => []IdsIndexWorkers` |
| `IndicesInRange` | `Spec => []IndexInRange` |

The vector `workers` is read without a lock. Nobody leaves before `shouldStop` is set, and from then
on the main thread is out of its own waits and runs tasks in its drain loop only (`Local`). What a thread is in the middle of is on
its stack: tasks and waits take turns there, and the outermost is a wait of the application on the main thread, a task a pool thread took in its
loop, or a task of a drain loop (`Nested`, with the lemmas `CallPushes`, `CallReturns` and `TwoCalls` on what entering and leaving a call do). So
whoever looks for work below a stack that does not drain is counted, as deep as the waits nest. A thread that leaves erases itself
only after it has seen `activeWorkersCount` at zero, which by `ActiveCountExact` means that no counted
thread is searching. The flag `shouldPause` does not keep others from becoming
active again after that moment, as one might read the code: what does is that they test
`shouldStop` before they look for work. `Erasing` says so: as long as anybody is about to
erase, or has left, nobody who is counted is on the way to an index. Hence the size that `TryToSteal` has read is still in range
(`Spans`), and a thread that is still registered always finds a `workers[0]` (`Registered`). `Pop` ties a pop under way to its ring. The
theorem does not say that the draw of `TryToSteal` finds somebody else: it may not (section 5).

### ParallelFor_proofs: any range, any grain, any finite `Tasks`, any `Workers`

| Theorem | States |
|---|---|
| `ImplementsTaskTree` | `PSpec => Spec` |
| `ParallelForInvariance` | `PSpec => []PInv` |
| `IndicesHandledOnce` | `PSpec => []EveryIndexOnce` |
| `ReturnIsComplete` | `PSpec => []ReturnsWhenAllCalled` |

Every step of `ParallelFor` is a step of `TaskTree` or leaves it alone, so that `TaskTree`'s theorems and
its invariant `IInv` carry over. That no index is lost comes from `SplitIsPartition`: for every
length above the grain, the two halves of `SplitRange` share no index and miss none. Each step then
passes an index from one owner to another, or takes its owner away when `f` is called
for it, and the number of calls plus the number of owners stays one. That the caller returns only
at the end needs `OneTree`: all tasks descend from the one the caller created and
waits for, whose counter at zero speaks for its whole tree (`FinishedTree` of `TaskTree_proofs`); and
`StepsFollowStages`: a body that has returned owns no index. As everywhere, a range that needs more tasks
than `Tasks` has stops in the model; the theorems speak of what was reached until then.

### Scheduler_proofs: any finite `Objects`, any number of calls, any ticks and periods

| Theorem | States |
|---|---|
| `Invariance` | `Spec => []IInv` |
| `TypeCorrect` | `Spec => []TypeOK` |
| `RegistryAgrees` | `Spec => []RegistryMatchesCallers` |
| `NoDoubleRegistration` | `Spec => []HeldOnce` |
| `NobodyStarves` | `Spec => []NoStarvation` |
| `RealtimeServed` | `~EraseInRTLoop => (Spec => []RTAllServed)` |
| `NothingDangles` | `~EraseInRTLoop => (Spec => []NeverDangling)` |
| `UpdatedOncePerFrame` | `~EraseInRTLoop => (Spec => OncePerFrame)` |
| `RegistryRefinement` | `~EraseInRTLoop => (Spec => ImplementsRegistry)` |

An object is in one of four containers or nowhere, and a log of deferred calls may say that this is
about to change, more than once. What makes the log safe to replay is what `IInv` says of it:
between two registrations of an object there is an unregistration (`Alternate`), the first
call of an object that is held unregisters it, from the container that has it
(`FirstUnregisters`), and the last one is what the callers believe (`LastDecides`); without a call in the
log the containers are (`HeldDecides`). `internal_Registration` takes calls from the front, and
drops a registration with the unregistration that follows it (`xrSheduler.cpp`:71): the
four conditions are exactly what survives both. `Settled` adds that while objects are updated none that the
scheduler can reach has a call in the log, so that an `Unregister` from inside an update acts at
once, wherever the object is.

What the code does not survive is an erase from the realtime vector under the range-for, the finding of the
run `scheduler_rt`. The constant `EraseInRTLoop` lets an update do that, and the
theorems about the loop have its absence as hypothesis, which every realtime object of the tree keeps
but the one named in section 5. Then `Loop` holds: what is behind the loop's position has been updated in this frame,
what is before it has not. The refinement maps the containers and the log to the set of
objects the callers have registered; replaying the log changes no object's membership, which is
where `Alternate` and `LastDecides` are needed.

`NobodyStarves` bounds the number of steps that pass a due object over by the number of objects, for any
budget: `Waiting` says that each step that did so served somebody whose next turn is later
than the due object's entry, and an object served once stays behind it.

### ObjectList_proofs: any finite `Objects`, any `Pool`, any number of frames and calls

| Theorem | States |
|---|---|
| `ListsFollowCounters` | `Spec => []ActiveIffCounted` |
| `TypeCorrect` | `Spec => []TypeOK` |
| `CrowOnOneList` | `Spec => []CrowListed` |
| `QueueInOrder` | `Spec => []QueueSound` |
| `PointersLive` | `Spec => []NoDangling` |
| `CrowsUpdated` | `Spec => []CrowsServed` |
| `ParentsUpdatedFirst` | `Spec => ParentFirst` |

The callers keep to the two assertions of `processing_activate` and `processing_deactivate` (no more
than 255 nested activations, none left to take back twice), which are guards of the model.
The only assumptions on constants are that `Objects` is finite, that `None` is neither an object nor
a worker id, and that the main thread's id is not one of the pool's. `IInv` has five parts, each with a lemma
that every step of a state in all of them keeps it:

* `AInv`, the counters: `ActiveIffCounted` and the types it needs. The worker threads' steps change neither.
* `TInv`, the threads. `Free`: memory without an object is as the constructor leaves it, so a spawn begins
  with no flag and no parent. `Claims`: whoever won the compare-exchange in `MakeMeCrow` is alone with
  the object until it has stored the flag. Three facts make that so and none of them is enough alone: the frame
  number a loser has read is not that of this frame; the winner has stored this one; and
  a flagged object that nobody claims bears it too, so that a thread which passed the first test
  before the flag was set does not push the object a second time.
* `LInv`, the crow lists. `Once`: the lists have no repetition and no common member, and on one
  of them is exactly what is flagged or about to be. `CrowListed` counts places; `OnePlace` derives that
  count from `Once`. `Claims` is what keeps two threads from appending one object to two lists.
* `QInv`, destruction. `Carrying` (a parent lives and is no parent of itself) and `FlaggedBelow` (whoever carries a
  flagged object is flagged): what an unflagged object carries is unflagged, which the set `Carried` needs
  to be closed downwards. `Queued` is `QueueSound` for the part of the
  queue that is still to come: since what an object carries lies behind it, the last of the queue carries
  nothing, and its memory can go. All three hold outside of `Unload`, in which the lemma `UnloadQueue` keeps the types only. That attaching makes no circle is a guard (section 7); with a circle no such order would exist.
* `UInv`, the update. `Working`: in `chain` each object is carried by the one before it, and when an `UpdateCL` is about
  to begin, what carries its object has been updated, is disabled, or is not there: this is `ParentFirst`. Its
  cause is the fresh look at the parent in each `Descend`. What game code does
  inside of an `UpdateCL` can disable a parent further in, but nobody is attached or destroyed then.
  `Owed`: whoever the frame owes an update is enabled, and in `workload`, in `chain` or updated; `CrowsServed` is its end.

`PointersLive` puts them together: lists hold flagged objects only, which live by `Free`; the threads'
objects live because nothing is destroyed while they draw, and `Unload` begins when they are idle; the loops'
objects live by `Working`, and parents, until `Unload`, by `Carrying`. For an object that `Unload` destroys the lemmas of the
destroy loop are used again, over the flags its `setDestroy` has set (`UnloadsOne`, `FlagsSet`). The lemmas on sequences say what appending, merging two lists and erasing the
first occurrence do to a list's members and to its having no repetition; the library has none for `RemoveFirst`.

The set of an object's carriers is defined as the intersection of all sets that are closed under parents
(`Carriers`), since nothing can be proved about a recursive function over data here; the proofs
use its closure (`CarriersOf`) and no induction.


### SoundEmitter_proofs: any finite `Emitters` and `Targets`, any `Submit > 0` and `Prefill >= Submit`

| Theorem | States |
|---|---|
| `Invariance` | `Spec => []IInv` |
| `TypeCorrect` | `Spec => []TypeOK` |
| `Handover` | `Spec => []DecoderHandover` |
| `OnlyPlayingDecodes` | `Spec => []DecodesWhilePlaying` |
| `OrderKept` | `Spec => []BlocksInOrder` |
| `VoicesAgree` | `Spec => []TargetMatch` |

Most of what a step of the mixer relies on was arranged by an earlier step of the same call, so the
invariant speaks of the sequence `prog`. `WellFormed` says which step may come before which
(`Before`) and which right before which (`Follows`): every step that touches what
the decoder uses comes right after a wait for the same emitter, and none of them
comes back behind a step that ends the playing. In the middle of a call the steps of another emitter are only those that
take its voice away. The other parts say what the steps still to come tell of their emitter:

* `Pointed`: a task that decodes is the one `prefill_task` names, or the store of its pointer is the
  very next step. So a wait that lets the mixer through proves that nothing decodes (`Quiet`), although the
  pointer may be null before the task has been stored or name a foreign one, or the mixer's own, after it has ended.
* `Lives`, `Voices`: who decodes or is about to plays; who plays has a voice, or is about
  to get one or to stop; a voice is released before the state changes.
* `Rendered`: a voice was rendered at least once before update can rewind it.
* `Ring`: the blocks are in order, and the next block of a running task is the one behind the
  last. That its arithmetic modulo `Prefill` never meets a block that still waits is proved from
  four small lemmas about `Slot`.
* `Enough` (`Stocked`): at most every second step up to a `take` is itself a take, so that a voice that
  takes `Submit` blocks finds them: the ring was full when it began, or the task that the
  first wait waits for fills it.

Every branch of the switch in `update` is one application of `CallPushes`, every call that
begins one of `CallOpens`; the lists of steps they push are checked once (`Lists`).

### Only model-checked

All liveness (it needs fairness and ENABLED, which this prover does not handle),
which here are the ends of the waits, `ShutdownCompletes`, `MainTasksTaken`, `ParallelForReturns` and
`MixerReturns`. Every safety property of the passing runs, invariant or action property, is
a theorem. What a recursive definition computes for all inputs cannot be proved with the installed
provers, since induction theorems take an operator as a parameter, and
modules that declare RECURSIVE operators cannot be proved about at all; no module here has one.

## 7. Not modelled

* Weak memory. `IsFinished` and `activeWorkersCount` are relaxed in the code (`Task.hpp`:187,
  `TaskManager.cpp`:215); a model of C++ memory orders is out of TLC's reach here.
* Results of tasks (`GetData`), statistics, `SDL_PumpEvents` in `Wait`, names and logging.
* Tasks after the allocator has overwritten an unfinished one: `TaskQueue` goes on, but promises nothing but types.
* The 16 bits of a task's counter (`Task.hpp`:153).
* The use of a slot by a new task while a count-down that has just finished the
  old one still reads its parent (`Task.hpp`:206).
* The adaptive size of the scheduler's budget and the arithmetic of an object's period
  (`xrSheduler.cpp`:363-367): any period from `Periods` may result, and a step may
  run out of budget at every test.
* Parts marked `not_modelled` in `PROJECT.json`: game rules, geometry, graphics,
  scripting and third-party code, where tests or proofs about data are called for instead of a model of control.

* Of the object list: the table of network ids (`xr_object_list.cpp`:362 clears an entry without
  looking whose it is), which the server's allocation of ids decides, and the relcase callbacks. That the server orders no
  attachment that closes a circle, or one to or from a destroyed object, is an assumption of `Take`.
* Of the sound emitters: attached tails (`fn_attached`), which the game thread changes while the
  decoder reads them (`SoundRender_Core.cpp`:145), sound events, what is sent to OpenAL.

## 8. Plan

Done so far: the task system, the scheduler, the object list, the sound emitters, and the
proofs of section 6. What is left, in the order it is worth doing:

1. `MessageRegistry`: Add, Remove and Process of `pure.h` with handlers that call all three.
   A removed handler is not called, each handler once per pass, in order of priority.
2. `SharedStrings`: `dock` and `clean` against reference counts that are raised outside
   of the lock (`xrstring.h`:74), and `xr_resource`.
3. Reuse of slots with a count-down in flight (`Task.hpp`:206), as an extension of `TaskTree`.
4. The relcase callbacks and the table of network ids in `ObjectList`; attached tails in `SoundEmitter`.

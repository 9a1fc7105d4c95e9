----------------------------- MODULE TaskQueue ------------------------------
(***************************************************************************)
(* TaskAllocator and TaskQueue of TaskManager.cpp: the ring of task slots a *)
(* thread allocates from, and the ring of task pointers it pushes to and   *)
(* that it and all other threads pop from.  Both rings have Size entries   *)
(* (TASK_STORAGE_SIZE, 4096 in the code) and both are indexed by a counter *)
(* that only grows, `pos & TASK_STORAGE_MASK`.                             *)
(*                                                                         *)
(* The queue is lock free.  A push claims a position, then stores the      *)
(* pointer; a pop loads the head, reads the pointer, claims the position   *)
(* by compare-exchange, then clears the entry.  Each of these memory       *)
(* accesses is an action, so threads interleave between any two of them.   *)
(* The memory is sequentially consistent.                                  *)
(***************************************************************************)
EXTENDS Integers, Sequences, FiniteSets

CONSTANTS
    Threads,        \* all threads that pop (the owner, and others that steal)
    Owner,          \* the thread whose s_tl_allocator and s_tl_worker these are
    Size,           \* TASK_STORAGE_SIZE
    NoTask,         \* nullptr
    MaxAllocated,   \* bound: how many tasks the owner allocates
    PromptClear     \* assumption on scheduling, see PopClaim

ASSUME TaskQueueAssumption ==
    /\ Owner \in Threads
    /\ Size \in Nat /\ Size > 1
    /\ MaxAllocated \in Nat
    /\ PromptClear \in BOOLEAN

\* A Task* points into the owner's s_tl_allocator.m_storage.
Slots == 0 .. Size - 1

ASSUME NoTaskAssumption == NoTask \notin Slots

\* pos & TASK_STORAGE_MASK
Slot(n) == n % Size

VARIABLES
    m_allocated,    \* s_tl_allocator.m_allocated
    unfinished,     \* the slots whose jobs counter is not zero
    overwritten,    \* history: a task was constructed in an unfinished slot
    m_head_pos,
    m_tail_pos,
    m_storage,      \* the ring of pointers
    pc,             \* the next memory access of each thread
    pos,            \* its local task_pos (push) or head_pos (pop)
    task,           \* its local task
    pushed          \* history: which allocation was pushed at each position

vars == <<m_allocated, unfinished, overwritten, m_head_pos, m_tail_pos, m_storage,
          pc, pos, task, pushed>>

TypeOK ==
    /\ m_allocated \in 0 .. MaxAllocated
    /\ unfinished \subseteq Slots
    /\ overwritten \in BOOLEAN
    /\ m_head_pos \in Nat
    /\ m_tail_pos \in Nat
    /\ m_storage \in [Slots -> Slots \cup {NoTask}]
    /\ pc \in [Threads -> {"idle", "store", "read", "cas", "clear", "run"}]
    /\ pos \in [Threads -> Nat]
    /\ task \in [Threads -> Slots \cup {NoTask}]
    /\ pushed \in Seq(Nat)

Init ==
    /\ m_allocated = 0
    /\ unfinished = {}
    /\ overwritten = FALSE
    /\ m_head_pos = 0
    /\ m_tail_pos = 0
    /\ m_storage = [s \in Slots |-> NoTask]
    /\ pc = [th \in Threads |-> "idle"]
    /\ pos = [th \in Threads |-> 0]
    /\ task = [th \in Threads |-> NoTask]
    /\ pushed = <<>>

-----------------------------------------------------------------------------

\* TaskAllocator::allocate.  Nothing waits for the slot: when the ring has come
\* round to a task that is not finished, the new one is constructed over it.
\* `overwritten` is what VERIFY(task->IsFinished()) reports in builds that
\* have it.
Allocate(s) ==
    /\ m_allocated < MaxAllocated
    /\ s = Slot(m_allocated)
    /\ m_allocated' = m_allocated + 1
    /\ overwritten' = (overwritten \/ s \in unfinished)

\* AddTask: CreateTask, then the fetch_add of push.  The queue is not looked
\* at: its VERIFY2 against overflow is NoOverflow below.
AddTask ==
    /\ pc[Owner] = "idle"
    /\ \E s \in Slots :
          /\ Allocate(s)
          /\ unfinished' = unfinished \cup {s}
          /\ task' = [task EXCEPT ![Owner] = s]
          /\ pushed' = Append(pushed, m_allocated)
    /\ pos' = [pos EXCEPT ![Owner] = m_tail_pos]
    /\ m_tail_pos' = m_tail_pos + 1
    /\ pc' = [pc EXCEPT ![Owner] = "store"]
    /\ UNCHANGED <<m_head_pos, m_storage>>

\* Mutant of PushStore: the position is not masked, the store leaves the ring.
PushStoreUnmasked ==
    /\ pc[Owner] = "store"
    /\ m_storage' = [p \in Slots \cup {pos[Owner]} |->
                       IF p = pos[Owner] THEN task[Owner] ELSE m_storage[p]]
    /\ pc' = [pc EXCEPT ![Owner] = "idle"]
    /\ task' = [task EXCEPT ![Owner] = NoTask]
    /\ pos' = [pos EXCEPT ![Owner] = 0]
    /\ UNCHANGED <<m_allocated, unfinished, overwritten, m_head_pos, m_tail_pos, pushed>>

\* The second half of push.
PushStore ==
    /\ pc[Owner] = "store"
    /\ m_storage' = [m_storage EXCEPT ![Slot(pos[Owner])] = task[Owner]]
    /\ pc' = [pc EXCEPT ![Owner] = "idle"]
    /\ task' = [task EXCEPT ![Owner] = NoTask]
    /\ pos' = [pos EXCEPT ![Owner] = 0]
    /\ UNCHANGED <<m_allocated, unfinished, overwritten, m_head_pos, m_tail_pos, pushed>>

\* Mutant of RunTask: its allocation does not look at the slot it takes.
RunTaskUnchecked ==
    /\ pc[Owner] = "idle"
    /\ m_allocated < MaxAllocated
    /\ m_allocated' = m_allocated + 1
    /\ unfinished' = unfinished \ {Slot(m_allocated)}
    /\ UNCHANGED <<overwritten, m_head_pos, m_tail_pos, m_storage, pc, pos, task, pushed>>

\* CreateTask and RunTask: a slot is used up and no entry of the queue.  The
\* slot is finished afterwards, whatever was in it.
RunTask ==
    /\ pc[Owner] = "idle"
    /\ \E s \in Slots :
          /\ Allocate(s)
          /\ unfinished' = unfinished \ {s}
    /\ UNCHANGED <<m_head_pos, m_tail_pos, m_storage, pc, pos, task, pushed>>

-----------------------------------------------------------------------------
(* pop(), by the owner or, as steal(), by any other thread.                *)

PopLoadHead(th) ==
    /\ pc[th] = "idle"
    /\ pos' = [pos EXCEPT ![th] = m_head_pos]
    /\ pc' = [pc EXCEPT ![th] = "read"]
    /\ UNCHANGED <<m_allocated, unfinished, overwritten, m_head_pos, m_tail_pos,
                   m_storage, task, pushed>>

PopReturnsNothing(th) ==
    /\ pc' = [pc EXCEPT ![th] = "idle"]
    /\ pos' = [pos EXCEPT ![th] = 0]
    /\ task' = [task EXCEPT ![th] = NoTask]
    /\ UNCHANGED <<m_allocated, unfinished, overwritten, m_head_pos, m_tail_pos,
                   m_storage, pushed>>

PopReadEntry(th) ==
    LET entry == m_storage[Slot(pos[th])] IN
    /\ pc[th] = "read"
    /\ \/ /\ entry = NoTask
          /\ PopReturnsNothing(th)
       \/ /\ entry # NoTask
          /\ task' = [task EXCEPT ![th] = entry]
          /\ pc' = [pc EXCEPT ![th] = "cas"]
          /\ UNCHANGED <<m_allocated, unfinished, overwritten, m_head_pos, m_tail_pos,
                         m_storage, pos, pushed>>

\* Some thread has claimed position p and not yet cleared its entry.
Clearing(p) == \E th \in Threads : pc[th] = "clear" /\ pos[th] = p

\* Mutant of PopClaim: the head is incremented whatever it is by now.
PopClaimAdds(th) ==
    /\ pc[th] = "cas"
    /\ PromptClear => ~Clearing(m_head_pos + 1 - Size)
    /\ m_head_pos' = m_head_pos + 1
    /\ pc' = [pc EXCEPT ![th] = "clear"]
    /\ UNCHANGED <<m_allocated, unfinished, overwritten, m_tail_pos, m_storage, pos, task, pushed>>

\* The compare-exchange succeeds.  PromptClear is an assumption on the
\* scheduler: no thread stays between its compare-exchange and its clear
\* for so long that Size - 1 further positions are claimed meanwhile.
PopClaim(th) ==
    /\ pc[th] = "cas"
    /\ m_head_pos = pos[th]
    /\ PromptClear => ~Clearing(m_head_pos + 1 - Size)
    /\ m_head_pos' = m_head_pos + 1
    /\ pc' = [pc EXCEPT ![th] = "clear"]
    /\ UNCHANGED <<m_allocated, unfinished, overwritten, m_tail_pos, m_storage, pos, task, pushed>>

\* compare_exchange_weak fails because another thread moved the head, or
\* spuriously, as it may on ARM.
PopLoses(th) ==
    /\ pc[th] = "cas"
    /\ PopReturnsNothing(th)

\* Mutant of PopClear: the entry at the present head is cleared, not the claimed one.
PopClearHead(th) ==
    /\ pc[th] = "clear"
    /\ m_storage' = [m_storage EXCEPT ![Slot(m_head_pos)] = NoTask]
    /\ pc' = [pc EXCEPT ![th] = "run"]
    /\ pos' = [pos EXCEPT ![th] = 0]
    /\ UNCHANGED <<m_allocated, unfinished, overwritten, m_head_pos, m_tail_pos, task, pushed>>

PopClear(th) ==
    /\ pc[th] = "clear"
    /\ m_storage' = [m_storage EXCEPT ![Slot(pos[th])] = NoTask]
    /\ pc' = [pc EXCEPT ![th] = "run"]
    /\ pos' = [pos EXCEPT ![th] = 0]
    /\ UNCHANGED <<m_allocated, unfinished, overwritten, m_head_pos, m_tail_pos, task, pushed>>

\* ExecuteTask(*task): when it is over, the slot may be allocated again.
ExecuteTask(th) ==
    /\ pc[th] = "run"
    /\ unfinished' = unfinished \ {task[th]}
    /\ task' = [task EXCEPT ![th] = NoTask]
    /\ pc' = [pc EXCEPT ![th] = "idle"]
    /\ UNCHANGED <<m_allocated, overwritten, m_head_pos, m_tail_pos, m_storage, pos, pushed>>

Next ==
    \/ AddTask
    \/ PushStore
    \/ RunTask
    \/ \E th \in Threads :
          \/ PopLoadHead(th)
          \/ PopReadEntry(th)
          \/ PopClaim(th)
          \/ PopLoses(th)
          \/ PopClear(th)
          \/ ExecuteTask(th)

Spec == Init /\ [][Next]_vars

-----------------------------------------------------------------------------

(* What follows is promised as long as the allocator has overwritten no    *)
(* unfinished task.  The release build tests neither this nor the length   *)
(* of the queue, so it is up to its users to keep fewer than Size tasks of *)
(* a thread on their way.                                                  *)

\* A task is executed once: two threads never have the same task, and a task
\* that a thread has taken is not finished yet.  (Task::operator() states this
\* as VERIFY2(unfinishedJobs >= 0, "The same task was executed two times.").)
ExecutedOnce ==
    ~overwritten =>
        \A th \in Threads :
            pc[th] \in {"clear", "run"} =>
                /\ task[th] \in unfinished
                /\ \A other \in Threads \ {th} :
                      pc[other] \in {"clear", "run"} => task[other] # task[th]

\* No task is lost and the queue never jams: every position between head and
\* tail holds the task that was pushed there, once the push has stored it, so a
\* pop that reads a null entry at the head is right to say "nothing there".
NoHole ==
    \A p \in m_head_pos .. m_tail_pos - 1 :
        \/ m_storage[Slot(p)] = Slot(pushed[p + 1])
        \/ pc[Owner] = "store" /\ pos[Owner] = p

\* push's VERIFY2 "Task queue overflow".
NoOverflow == m_tail_pos - m_head_pos <= Size

\* The allocator's test finds every misuse first: the queue overflows, or loses
\* an entry, in no run in which allocate's VERIFY held.  (Not so obvious, since
\* tasks leave the queue when they are taken and free their slots, in another
\* order, when they are finished, and since RunTask uses up slots only.)
RingSound == ~overwritten => NoOverflow /\ NoHole

queue == [k \in 1 .. m_tail_pos - m_head_pos |-> Slot(pushed[m_head_pos + k])]
taken == [th \in Threads |-> IF pc[th] \in {"clear", "run"} THEN task[th] ELSE NoTask]

Fifo == INSTANCE TaskFifo WITH Tasks <- Slots

\* The queue implements the abstract one as long as no task is overwritten: a
\* task enters it with the fetch_add of its push and leaves it with the
\* compare-exchange of one pop.
ImplementsFifo == Fifo!Init /\ [][~overwritten' => Fifo!Next]_<<queue, taken>>
=============================================================================

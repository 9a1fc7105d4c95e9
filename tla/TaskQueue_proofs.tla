-------------------------- MODULE TaskQueue_proofs --------------------------
(***************************************************************************)
(* Proofs of TaskQueue for every ring size above one, any set of threads   *)
(* and any number of tasks, under PromptClear.  The types hold always, the *)
(* rest of the invariant (IInv) until the allocator constructs a task over *)
(* an unfinished one.  The argument: the slots of the allocator's ring are *)
(* used in order, so while none was overwritten everything pushed since an *)
(* unfinished task was allocated within one turn of that ring (Kept), and  *)
(* hence lies within one turn of the queue's ring behind it.  So no two    *)
(* positions that matter share an entry, and an entry that is not null     *)
(* belongs to one of them (Entries).                                       *)
(***************************************************************************)
EXTENDS TaskQueue, TLAPS, SequenceTheorems

Storing(p) == pc[Owner] = "store" /\ pos[Owner] = p
Has(th) == pc[th] \in {"clear", "run"}
Waiting == m_head_pos .. m_tail_pos - 1

\* Allocations are pushed in order.
Order ==
    /\ Len(pushed) = m_tail_pos /\ m_head_pos <= m_tail_pos
    /\ \A i, j \in 1 .. m_tail_pos : i < j => pushed[j] - pushed[i] >= j - i
    /\ \A i \in 1 .. m_tail_pos : m_allocated - pushed[i] >= m_tail_pos + 1 - i

\* The task at position p is unfinished, so the allocator has not come round to it.
Kept(p) ==
    /\ Slot(pushed[p + 1]) \in unfinished
    /\ m_allocated <= pushed[p + 1] + Size

\* What a thread's position and task are worth at each step of a push or pop.
Local(th) ==
    /\ pc[th] = "store" => th = Owner
    /\ pc[th] \in {"read", "cas"} => pos[th] <= m_head_pos
    /\ pc[th] = "cas" /\ pos[th] = m_head_pos =>
          /\ m_head_pos < m_tail_pos /\ ~Storing(m_head_pos)
          /\ task[th] = Slot(pushed[m_head_pos + 1])
    /\ pc[th] = "clear" =>
          /\ m_head_pos - Size < pos[th] /\ pos[th] < m_head_pos
          /\ task[th] = Slot(pushed[pos[th] + 1]) /\ Kept(pos[th])
    /\ pc[th] = "run" => task[th] \in unfinished

Locals ==
    /\ pc[Owner] = "store" =>
          /\ m_head_pos < m_tail_pos /\ pos[Owner] = m_tail_pos - 1
          /\ task[Owner] = Slot(pushed[m_tail_pos])
    /\ \A th \in Threads : Local(th)

Apart ==
    /\ \A th, other \in Threads : th # other =>
          /\ Has(th) /\ Has(other) => task[th] # task[other]
          /\ pc[th] = "clear" /\ pc[other] = "clear" => pos[th] # pos[other]
    /\ \A th \in Threads, p \in Waiting : Has(th) => task[th] # Slot(pushed[p + 1])

Entries ==
    /\ \A p \in Waiting : Storing(p) \/ m_storage[Slot(p)] = Slot(pushed[p + 1])
    /\ \A s \in Slots : m_storage[s] # NoTask =>
          \E p \in 0 .. m_tail_pos - 1 :
              /\ Slot(p) = s
              /\ (p >= m_head_pos /\ ~Storing(p)) \/ Clearing(p)

IInv == TypeOK /\ Order /\ (\A p \in Waiting : Kept(p)) /\ Locals /\ Apart /\ Entries

-----------------------------------------------------------------------------
(* Indices of a ring.  The solver knows the division theorem; products of  *)
(* two unknowns need a lemma of their own.                                 *)

\* No multiple of the ring's size lies strictly between zero and the size.
LEMMA NoMultiple ==
  ASSUME NEW k \in Int
  PROVE  ~(0 < Size * k /\ Size * k < Size)
<1>1. k > 0 => Size * k >= Size
  BY TaskQueueAssumption, SMTT(30)
<1>2. k <= 0 => Size * k <= 0
  BY TaskQueueAssumption, SMTT(30)
<1> QED
  BY <1>1, <1>2, TaskQueueAssumption, SMT

\* A counter is whole turns of the ring and its index.
LEMMA Turns ==
  ASSUME NEW n \in Int
  PROVE  /\ Slot(n) \in Slots /\ Slot(n) \in Int
         /\ \E k \in Int : n = (Size * k) + Slot(n)
<1>1. n = (Size * (n \div Size)) + (n % Size) /\ n \div Size \in Int
  BY TaskQueueAssumption, SMTT(30)
<1>2. n % Size \in 0 .. Size - 1
  BY TaskQueueAssumption, Z3
<1>3. n % Size \in Int
  BY <1>2, TaskQueueAssumption, SMT
<1> QED
  BY <1>1, <1>2, <1>3 DEF Slot, Slots

\* Two counters less than one turn apart have different indices.
LEMMA SlotsDiffer ==
  ASSUME NEW a \in Int, NEW b \in Int, a < b, b < a + Size
  PROVE  Slot(a) # Slot(b)
<1> SUFFICES ASSUME Slot(a) = Slot(b) PROVE FALSE
  OBVIOUS
<1>1. PICK x \in Int : a = (Size * x) + Slot(a)
  BY Turns
<1>2. PICK y \in Int : b = (Size * y) + Slot(b)
  BY Turns
<1>3. Slot(a) \in Int
  BY Turns
<1>4. Size * (y - x) = b - a
  BY <1>1, <1>2, <1>3, TaskQueueAssumption, SMTT(30)
<1> QED
  BY <1>4, NoMultiple, TaskQueueAssumption

\* A counter and its successor of one turn have the same index.
LEMMA SlotRepeats ==
  ASSUME NEW a \in Int
  PROVE  Slot(a + Size) = Slot(a)
<1>1. PICK x \in Int : a = (Size * x) + Slot(a)
  BY Turns
<1>2. a + Size \in Int
  BY TaskQueueAssumption
<1>3. PICK y \in Int : a + Size = (Size * y) + Slot(a + Size)
  BY <1>2, Turns
<1>4. Slot(a) \in 0 .. Size - 1 /\ Slot(a + Size) \in 0 .. Size - 1
  BY <1>2, Turns DEF Slots
<1>5. Size * (y - x - 1) = Slot(a) - Slot(a + Size)
  BY <1>1, <1>3, <1>4, TaskQueueAssumption, SMTT(30)
<1>6. Size * (x + 1 - y) = Slot(a + Size) - Slot(a)
  BY <1>1, <1>3, <1>4, TaskQueueAssumption, SMTT(30)
<1>7. ~(0 < Size * (y - x - 1) /\ Size * (y - x - 1) < Size)
  BY NoMultiple
<1>8. ~(0 < Size * (x + 1 - y) /\ Size * (x + 1 - y) < Size)
  BY NoMultiple
<1> QED
  BY <1>4, <1>5, <1>6, <1>7, <1>8, TaskQueueAssumption

-----------------------------------------------------------------------------
(* What the invariant says about two positions.                            *)

\* Types of the counters a position is compared with.
LEMMA Counters ==
  ASSUME TypeOK, Order
  PROVE  /\ m_head_pos \in Nat /\ m_tail_pos \in Nat /\ m_allocated \in Nat
         /\ Size \in Nat /\ Size > 1
         /\ \A p \in 0 .. m_tail_pos - 1 : p \in Int /\ pushed[p + 1] \in Nat
         /\ \A th \in Threads : pos[th] \in Nat
<1>1. m_allocated \in Nat
  BY TaskQueueAssumption DEF TypeOK
<1>2. \A p \in 0 .. m_tail_pos - 1 : p \in Int /\ pushed[p + 1] \in Nat
  BY DEF TypeOK, Order
<1> QED
  BY <1>1, <1>2, TaskQueueAssumption DEF TypeOK

\* What is pushed behind an unfinished task is less than a turn behind it, in
\* the queue's ring and in the allocator's.
LEMMA Within ==
  ASSUME TypeOK, Order, NEW c \in Nat, NEW q \in Nat, c < q, q < m_tail_pos, Kept(c)
  PROVE  /\ q < c + Size
         /\ Slot(c) # Slot(q)
         /\ Slot(pushed[c + 1]) # Slot(pushed[q + 1])
<1>1. /\ m_tail_pos \in Nat /\ m_allocated \in Nat /\ Size \in Nat
      /\ pushed[c + 1] \in Nat /\ pushed[q + 1] \in Nat
  BY Counters
<1>2. pushed[q + 1] - pushed[c + 1] >= q - c
  BY <1>1 DEF Order
<1>3. m_allocated - pushed[q + 1] >= m_tail_pos - q
  BY <1>1 DEF Order
<1>4. m_allocated <= pushed[c + 1] + Size
  BY DEF Kept
<1>5. q < c + Size /\ pushed[c + 1] < pushed[q + 1] /\ pushed[q + 1] < pushed[c + 1] + Size
  BY <1>1, <1>2, <1>3, <1>4
<1> QED
  BY <1>1, <1>5, SlotsDiffer

\* The entry at the head is the task pushed there, or null.
LEMMA HeadEntry ==
  ASSUME IInv, m_storage[Slot(m_head_pos)] # NoTask
  PROVE  /\ m_head_pos < m_tail_pos /\ ~Storing(m_head_pos)
         /\ m_storage[Slot(m_head_pos)] = Slot(pushed[m_head_pos + 1])
<1> USE DEF IInv
<1>1. /\ m_head_pos \in Nat /\ m_tail_pos \in Nat /\ Size \in Nat /\ Size > 1
      /\ m_head_pos <= m_tail_pos /\ \A th \in Threads : pos[th] \in Nat
  BY Counters DEF Order
<1>2. Slot(m_head_pos) \in Slots
  BY <1>1, Turns
<1>3. PICK p \in 0 .. m_tail_pos - 1 :
        /\ Slot(p) = Slot(m_head_pos)
        /\ (p >= m_head_pos /\ ~Storing(p)) \/ Clearing(p)
  BY <1>2 DEF Entries
<1>4. ~Clearing(p)
  <2>1. SUFFICES ASSUME NEW th \in Threads, pc[th] = "clear", pos[th] = p PROVE FALSE
    BY DEF Clearing
  <2>2. p < m_head_pos /\ m_head_pos < p + Size
    BY <2>1, <1>1 DEF Locals, Local
  <2> QED
    BY <2>2, <1>1, <1>3, SlotsDiffer
<1>5. p >= m_head_pos /\ ~Storing(p)
  BY <1>3, <1>4
<1>6. p = m_head_pos
  <2>1. SUFFICES ASSUME m_head_pos < p PROVE FALSE
    BY <1>1, <1>3, <1>5
  <2>2. Kept(m_head_pos)
    BY <2>1, <1>1, <1>3 DEF Waiting
  <2> QED
    BY <2>1, <2>2, <1>1, <1>3, Within
<1>7. m_head_pos \in Waiting
  BY <1>1, <1>3, <1>6 DEF Waiting
<1> QED
  BY <1>1, <1>3, <1>5, <1>6, <1>7 DEF Entries

\* An allocation does not reach the slot of an unfinished task.
LEMMA AllocationKeeps ==
  ASSUME TypeOK, Order, NEW p \in 0 .. m_tail_pos - 1, Kept(p), Slot(m_allocated) \notin unfinished
  PROVE  m_allocated + 1 <= pushed[p + 1] + Size
<1>1. m_allocated \in Nat /\ pushed[p + 1] \in Nat /\ Size \in Nat
  BY Counters
<1>2. m_allocated # pushed[p + 1] + Size
  BY <1>1, SlotRepeats DEF Kept
<1> QED
  BY <1>1, <1>2 DEF Kept

-----------------------------------------------------------------------------
(* One lemma per action.                                                   *)

\* Initially both rings are empty.
LEMMA InitIInv == Init => IInv
<1> SUFFICES ASSUME Init PROVE IInv
  OBVIOUS
<1> USE TaskQueueAssumption, NoTaskAssumption DEF Init
<1>1. TypeOK
  <2>1. overwritten \in BOOLEAN
    BY ZenonT(20)
  <2> QED
    BY <2>1 DEF TypeOK
<1>2. Order /\ (\A p \in Waiting : Kept(p))
  BY DEF Order, Waiting
<1>3. Locals /\ Apart
  BY DEF Locals, Local, Apart, Has, Waiting
<1>4. Entries
  BY DEF Entries, Waiting
<1> QED
  BY <1>1, <1>2, <1>3, <1>4 DEF IInv

\* A step of one thread that touches neither ring and takes no task.
LEMMA QuietStep ==
  ASSUME IInv, NEW th \in Threads, pc[th] \in {"idle", "read", "cas"},
         NEW stage \in {"idle", "read", "cas"}, NEW n \in Nat, NEW t \in Slots \cup {NoTask},
         UNCHANGED <<m_allocated, unfinished, overwritten, m_head_pos, m_tail_pos, m_storage, pushed>>,
         pc' = [pc EXCEPT ![th] = stage], pos' = [pos EXCEPT ![th] = n],
         task' = [task EXCEPT ![th] = t],
         stage # "idle" => n <= m_head_pos,
         stage = "cas" /\ n = m_head_pos =>
            /\ m_head_pos < m_tail_pos /\ ~Storing(m_head_pos)
            /\ t = Slot(pushed[m_head_pos + 1])
  PROVE  IInv'
<1> USE DEF IInv
<1>1. TypeOK'
  BY DEF TypeOK
<1>2. Order' /\ (\A p \in Waiting' : Kept(p)')
  BY DEF Order, Waiting, Kept
<1>3. \A p : Storing(p)' <=> Storing(p)
  BY TaskQueueAssumption DEF TypeOK, Storing
<1>4. \A p : Clearing(p)' <=> Clearing(p)
  BY DEF TypeOK, Clearing
<1>5. \A x \in Threads \ {th} : pc'[x] = pc[x] /\ pos'[x] = pos[x] /\ task'[x] = task[x]
  BY DEF TypeOK
<1>6. pc'[th] = stage /\ pos'[th] = n /\ task'[th] = t
  BY DEF TypeOK
<1>7. Locals'
  <2>1. (pc[Owner] = "store" =>
          /\ m_head_pos < m_tail_pos /\ pos[Owner] = m_tail_pos - 1
          /\ task[Owner] = Slot(pushed[m_tail_pos]))'
    BY <1>5, <1>6, TaskQueueAssumption DEF Locals, Local
  <2>2. ASSUME NEW x \in Threads \ {th}
        PROVE  Local(x)'
    BY <1>3, <1>5, <2>2 DEF Locals, Local, Kept
  <2> QED
    BY <1>3, <1>6, <2>1, <2>2 DEF Locals, Local
<1>8. Apart'
  BY <1>5, <1>6 DEF Apart, Has, Waiting
<1>9. Entries'
  BY <1>3, <1>4 DEF Entries, Waiting
<1> QED
  BY <1>1, <1>2, <1>7, <1>8, <1>9

\* A pop loads the head.
LEMMA PopLoadHeadIInv ==
  ASSUME IInv, NEW th \in Threads, PopLoadHead(th)
  PROVE  IInv'
<1>1. m_head_pos \in Nat /\ task[th] \in Slots \cup {NoTask} /\ task' = [task EXCEPT ![th] = task[th]]
  BY DEF IInv, TypeOK, PopLoadHead
<1>2. m_head_pos <= m_head_pos
  BY <1>1
<1> DEFINE stage == "read"
           n == m_head_pos
           t == task[th]
<1>3. /\ pc[th] \in {"idle", "read", "cas"} /\ stage \in {"idle", "read", "cas"}
      /\ pc' = [pc EXCEPT ![th] = stage] /\ pos' = [pos EXCEPT ![th] = n]
      /\ UNCHANGED <<m_allocated, unfinished, overwritten, m_head_pos, m_tail_pos, m_storage, pushed>>
      /\ stage # "cas" /\ stage # "idle"
  BY DEF PopLoadHead
<1> HIDE DEF stage
<1> QED
  BY <1>1, <1>2, <1>3, QuietStep

\* A pop that ends without a task.
LEMMA PopReturnsNothingIInv ==
  ASSUME IInv, NEW th \in Threads, pc[th] \in {"read", "cas"}, PopReturnsNothing(th)
  PROVE  IInv'
<1> DEFINE stage == "idle"
<1>1. /\ stage \in {"idle", "read", "cas"} /\ stage # "cas" /\ stage = "idle" /\ 0 \in Nat
      /\ pc' = [pc EXCEPT ![th] = stage] /\ pos' = [pos EXCEPT ![th] = 0]
      /\ task' = [task EXCEPT ![th] = NoTask] /\ NoTask \in Slots \cup {NoTask}
      /\ UNCHANGED <<m_allocated, unfinished, overwritten, m_head_pos, m_tail_pos, m_storage, pushed>>
  BY DEF PopReturnsNothing
<1> HIDE DEF stage
<1> QED
  BY <1>1, QuietStep

\* A pop reads the entry of the position it has loaded.
LEMMA PopReadEntryIInv ==
  ASSUME IInv, NEW th \in Threads, PopReadEntry(th)
  PROVE  IInv'
<1> DEFINE entry == m_storage[Slot(pos[th])]
<1>1. CASE entry = NoTask
  BY <1>1, PopReturnsNothingIInv DEF PopReadEntry
<1>2. CASE entry # NoTask
  <2>1. /\ pos[th] \in Nat /\ pos' = [pos EXCEPT ![th] = pos[th]] /\ pos[th] <= m_head_pos
    BY <1>2 DEF PopReadEntry, IInv, TypeOK, Locals, Local
  <2>2. entry \in Slots \cup {NoTask}
    <3>1. pos[th] \in Int
      BY <2>1
    <3>2. Slot(pos[th]) \in Slots
      BY <3>1, Turns
    <3> QED
      BY <3>2 DEF IInv, TypeOK
  <2>3. pos[th] = m_head_pos =>
            /\ m_head_pos < m_tail_pos /\ ~Storing(m_head_pos)
            /\ entry = Slot(pushed[m_head_pos + 1])
    BY <1>2, HeadEntry
  <2>4. /\ pc[th] \in {"idle", "read", "cas"} /\ pc' = [pc EXCEPT ![th] = "cas"]
        /\ task' = [task EXCEPT ![th] = entry]
        /\ UNCHANGED <<m_allocated, unfinished, overwritten, m_head_pos, m_tail_pos, m_storage, pushed>>
    BY <1>2 DEF PopReadEntry, PopReturnsNothing
  <2> DEFINE stage == "cas"
  <2>5. stage \in {"idle", "read", "cas"} /\ pc' = [pc EXCEPT ![th] = stage]
    BY <2>4
  <2> HIDE DEF stage, entry
  <2>6. stage \in {"idle", "read", "cas"} /\ (stage # "idle" => pos[th] <= m_head_pos)
    BY <2>1, <2>5
  <2> QED
    BY <2>1, <2>2, <2>3, <2>4, <2>5, <2>6, QuietStep, ZenonT(60)
<1> QED
  BY <1>1, <1>2

\* An allocation alone: the slot it takes is nobody's.
LEMMA AllocateKeeps ==
  ASSUME IInv, NEW s \in Slots, Allocate(s), ~overwritten', NEW p \in 0 .. m_tail_pos - 1, Kept(p)
  PROVE  m_allocated' <= pushed[p + 1] + Size
BY AllocationKeeps DEF IInv, Allocate

\* A task that is run without being queued only uses a slot up.
LEMMA RunTaskIInv ==
  ASSUME IInv, RunTask, ~overwritten'
  PROVE  IInv'
<1> USE DEF IInv, RunTask
<1>0. PICK s \in Slots : Allocate(s) /\ unfinished' = unfinished \ {s} /\ s \notin unfinished
  BY DEF Allocate
<1>a. unfinished' = unfinished
  BY <1>0
<1>1. TypeOK'
  BY <1>0, TaskQueueAssumption DEF TypeOK, Allocate
<1>2. Order'
  <2>1. m_allocated' = m_allocated + 1
    BY <1>0 DEF Allocate
  <2>2. m_tail_pos \in Nat /\ m_allocated \in Nat /\ \A i \in 1 .. m_tail_pos : pushed[i] \in Nat
    BY Counters DEF TypeOK, Order
  <2> QED
    BY <2>1, <2>2 DEF Order
<1>3. \A p \in 0 .. m_tail_pos - 1 : Kept(p) => Kept(p)'
  BY <1>0, <1>a, AllocateKeeps DEF Kept
<1>4. \A p \in Waiting' : Kept(p)'
  BY <1>3, Counters DEF Waiting
<1>5. Locals'
  <2>1. \A th \in Threads : pc[th] = "clear" => pos[th] \in 0 .. m_tail_pos - 1
    BY Counters DEF Locals, Local, Order
  <2> QED
    BY <1>a, <1>3, <2>1 DEF Locals, Local, Storing
<1>6. Apart' /\ Entries'
  BY DEF Apart, Entries, Has, Waiting, Storing, Clearing
<1> QED
  BY <1>1, <1>2, <1>4, <1>5, <1>6

\* A push claims the tail with a task nobody has.
LEMMA AddTaskIInv ==
  ASSUME IInv, AddTask, ~overwritten'
  PROVE  IInv'
<1> USE DEF IInv
<1>0. PICK s \in Slots :
        /\ Allocate(s) /\ unfinished' = unfinished \cup {s} /\ task' = [task EXCEPT ![Owner] = s]
        /\ pushed' = Append(pushed, m_allocated)
  BY DEF AddTask
<1>a. /\ pc[Owner] = "idle" /\ pc' = [pc EXCEPT ![Owner] = "store"]
      /\ pos' = [pos EXCEPT ![Owner] = m_tail_pos] /\ m_tail_pos' = m_tail_pos + 1
      /\ UNCHANGED <<m_head_pos, m_storage>>
  BY DEF AddTask
<1>b. /\ m_allocated' = m_allocated + 1 /\ s = Slot(m_allocated) /\ s \notin unfinished
  BY <1>0 DEF Allocate
<1>c. /\ m_head_pos \in Nat /\ m_tail_pos \in Nat /\ m_allocated \in Nat
      /\ Size \in Nat /\ Size > 1 /\ m_head_pos <= m_tail_pos
      /\ \A p \in 0 .. m_tail_pos - 1 : pushed[p + 1] \in Nat
      /\ \A th \in Threads : pos[th] \in Nat
  BY Counters DEF Order
<1>d. /\ Len(pushed') = m_tail_pos + 1
      /\ \A i \in 1 .. m_tail_pos : pushed'[i] = pushed[i]
      /\ pushed'[m_tail_pos + 1] = m_allocated
  BY <1>0, <1>c DEF TypeOK, Order
<1>1. TypeOK'
  BY <1>0, <1>a, <1>b, <1>c, TaskQueueAssumption DEF TypeOK, Allocate
<1>2. Order'
  <2>1. ASSUME NEW i \in 1 .. m_tail_pos, NEW j \in 1 .. m_tail_pos + 1, i < j
        PROVE  pushed'[j] - pushed'[i] >= j - i
    <3>1. CASE j = m_tail_pos + 1
      BY <1>c, <1>d, <2>1, <3>1 DEF Order
    <3>2. CASE j # m_tail_pos + 1
      BY <1>c, <1>d, <2>1, <3>2 DEF Order
    <3> QED
      BY <3>1, <3>2
  <2>2. ASSUME NEW i \in 1 .. m_tail_pos + 1
        PROVE  m_allocated' - pushed'[i] >= m_tail_pos + 1 + 1 - i
    <3>1. CASE i = m_tail_pos + 1
      BY <1>b, <1>c, <1>d, <3>1
    <3>2. CASE i # m_tail_pos + 1
      <4>1. i \in 1 .. m_tail_pos /\ pushed'[i] = pushed[i] /\ pushed[i] \in Nat
        BY <1>c, <1>d, <3>2 DEF TypeOK, Order
      <4>2. m_allocated - pushed[i] >= m_tail_pos + 1 - i
        BY <4>1 DEF Order
      <4> QED
        BY <1>b, <1>c, <4>1, <4>2
    <3> QED
      BY <3>1, <3>2
  <2>3. \A i, j \in 1 .. m_tail_pos + 1 : i < j => i \in 1 .. m_tail_pos
    BY <1>c
  <2> QED
    BY <1>a, <1>c, <1>d, <2>1, <2>2, <2>3 DEF Order
<1>3. \A p \in 0 .. m_tail_pos - 1 : Kept(p) => Kept(p)'
  <2> SUFFICES ASSUME NEW p \in 0 .. m_tail_pos - 1, Kept(p) PROVE Kept(p)'
    OBVIOUS
  <2>1. m_allocated' <= pushed[p + 1] + Size
    BY <1>0, AllocateKeeps
  <2>2. pushed'[p + 1] = pushed[p + 1]
    BY <1>c, <1>d
  <2> QED
    BY <1>0, <2>1, <2>2 DEF Kept
<1>4. ASSUME NEW p, p = m_tail_pos PROVE Kept(p)'
  BY <1>0, <1>b, <1>c, <1>d, <1>4 DEF Kept
<1>5. \A p \in Waiting' : Kept(p)'
  <2> SUFFICES ASSUME NEW p \in Waiting' PROVE Kept(p)'
    OBVIOUS
  <2>1. CASE p = m_tail_pos
    BY <1>4, <2>1
  <2>2. CASE p # m_tail_pos
    <3>1. p \in Waiting /\ p \in 0 .. m_tail_pos - 1
      BY <1>a, <1>c, <2>2 DEF Waiting
    <3> QED
      BY <1>3, <3>1
  <2> QED
    BY <2>1, <2>2
<1>e. \A th \in Threads \ {Owner} : pc'[th] = pc[th] /\ pos'[th] = pos[th] /\ task'[th] = task[th]
  BY <1>0, <1>a DEF TypeOK
<1>f. pc'[Owner] = "store" /\ pos'[Owner] = m_tail_pos /\ task'[Owner] = s
  BY <1>0, <1>a, TaskQueueAssumption DEF TypeOK
<1>g. \A p : Clearing(p)' <=> Clearing(p)
  BY <1>a, <1>e, <1>f DEF Clearing
<1>6. Locals'
  <2>1. (pc[Owner] = "store" =>
          /\ m_head_pos < m_tail_pos /\ pos[Owner] = m_tail_pos - 1
          /\ task[Owner] = Slot(pushed[m_tail_pos]))'
    <3>1. task'[Owner] = Slot(pushed'[m_tail_pos'])
      BY <1>a, <1>b, <1>d, <1>f
    <3>2. m_head_pos' < m_tail_pos' /\ pos'[Owner] = m_tail_pos' - 1
      BY <1>a, <1>c, <1>f
    <3> QED
      BY <3>1, <3>2
  <2>2. ASSUME NEW x \in Threads \ {Owner}
        PROVE  Local(x)'
    <3>1. pc[x] = "cas" /\ pos[x] = m_head_pos =>
            (m_head_pos < m_tail_pos /\ ~Storing(m_head_pos) /\ task[x] = Slot(pushed[m_head_pos + 1]))'
      BY <1>a, <1>c, <1>d, <1>e, <1>f DEF Locals, Local, Storing
    <3>2. pc[x] = "clear" => (task[x] = Slot(pushed[pos[x] + 1]) /\ Kept(pos[x]))'
      <4> SUFFICES ASSUME pc[x] = "clear" PROVE (task[x] = Slot(pushed[pos[x] + 1]) /\ Kept(pos[x]))'
        OBVIOUS
      <4>1. /\ pos[x] \in 0 .. m_tail_pos - 1 /\ Kept(pos[x])
            /\ task[x] = Slot(pushed[pos[x] + 1])
        BY <1>c, <1>e DEF Locals, Local
      <4>2. Kept(pos[x])' /\ pushed'[pos[x] + 1] = pushed[pos[x] + 1]
        BY <1>0, <1>3, <1>c, <1>d, <1>e, <4>1 DEF Kept
      <4> QED
        BY <1>e, <4>1, <4>2
    <3>3. pc'[x] = pc[x] /\ pos'[x] = pos[x] /\ task'[x] = task[x] /\ Local(x)
      BY <1>e DEF Locals
    <3>4. pc[x] = "clear" => m_head_pos' - Size < pos'[x] /\ pos'[x] < m_head_pos'
      BY <1>a, <3>3 DEF Local
    <3>5. /\ pc[x] # "store" /\ (pc[x] \in {"read", "cas"} => pos'[x] <= m_head_pos')
          /\ pc[x] = "run" => task'[x] \in unfinished'
      BY <1>0, <1>a, <3>3 DEF Local
    <3> QED
      BY <1>a, <3>1, <3>2, <3>3, <3>4, <3>5 DEF Local
  <2> QED
    BY <1>f, <2>1, <2>2 DEF Locals, Local
<1>7. Apart'
  <2>1. \A th \in Threads : Has(th)' => th # Owner /\ Has(th) /\ task[th] \in unfinished
    BY <1>e, <1>f DEF Has, Locals, Local, Kept
  <2>2. \A p \in Waiting' : p \in Waiting \/ p = m_tail_pos
    BY <1>a, <1>c DEF Waiting
  <2>3. \A p \in Waiting : Slot(pushed'[p + 1]) = Slot(pushed[p + 1])
    BY <1>c, <1>d DEF Waiting
  <2>4. \A th \in Threads, p \in Waiting' : Has(th)' => task'[th] # Slot(pushed'[p + 1])
    BY <1>b, <1>d, <1>e, <2>1, <2>2, <2>3 DEF Apart
  <2> QED
    BY <1>e, <1>f, <2>1, <2>4 DEF Apart
<1>8. Entries'
  <2>1. \A p \in Waiting' : Storing(p)' \/ m_storage'[Slot(p)] = Slot(pushed'[p + 1])
    <3> SUFFICES ASSUME NEW p \in Waiting' PROVE Storing(p)' \/ m_storage'[Slot(p)] = Slot(pushed'[p + 1])
      OBVIOUS
    <3>1. CASE p = m_tail_pos
      BY <1>f, <3>1 DEF Storing
    <3>2. CASE p # m_tail_pos
      BY <1>a, <1>c, <1>d, <3>2 DEF Entries, Waiting, Storing
    <3> QED
      BY <3>1, <3>2
  <2>2. \A p \in 0 .. m_tail_pos - 1 : ~Storing(p)'
    BY <1>c, <1>f DEF Storing
  <2> QED
    BY <1>a, <1>c, <1>g, <2>1, <2>2 DEF Entries
<1> QED
  BY <1>1, <1>2, <1>5, <1>6, <1>7, <1>8

\* The pointer is stored at the position that was claimed for it.
LEMMA PushStoreIInv ==
  ASSUME IInv, PushStore
  PROVE  IInv'
<1> USE DEF IInv
<1>a. /\ pc[Owner] = "store" /\ pc' = [pc EXCEPT ![Owner] = "idle"]
      /\ task' = [task EXCEPT ![Owner] = NoTask] /\ pos' = [pos EXCEPT ![Owner] = 0]
      /\ m_storage' = [m_storage EXCEPT ![Slot(pos[Owner])] = task[Owner]]
      /\ UNCHANGED <<m_allocated, unfinished, overwritten, m_head_pos, m_tail_pos, pushed>>
  BY DEF PushStore
<1>b. \A th \in Threads \ {Owner} : pc'[th] = pc[th] /\ pos'[th] = pos[th] /\ task'[th] = task[th]
  BY <1>a DEF TypeOK
<1>c. pc'[Owner] = "idle" /\ pos'[Owner] = 0 /\ task'[Owner] = NoTask
  BY <1>a, TaskQueueAssumption DEF TypeOK
<1>d. /\ m_head_pos \in Nat /\ m_tail_pos \in Nat /\ m_head_pos < m_tail_pos
      /\ pos[Owner] = m_tail_pos - 1 /\ task[Owner] = Slot(pushed[m_tail_pos])
  BY <1>a DEF TypeOK, Locals
<1>e. /\ pos[Owner] \in Nat /\ Slot(pos[Owner]) \in Slots
      /\ m_storage'[Slot(pos[Owner])] = task[Owner]
      /\ \A x \in Slots \ {Slot(pos[Owner])} : m_storage'[x] = m_storage[x]
  <2>1. pos[Owner] \in Int /\ pos[Owner] \in Nat
    BY <1>d
  <2>2. Slot(pos[Owner]) \in Slots
    BY <2>1, Turns
  <2> QED
    BY <1>a, <2>1, <2>2 DEF TypeOK
<1>1. TypeOK'
  <2>1. task[Owner] \in Slots \cup {NoTask}
    BY TaskQueueAssumption DEF TypeOK
  <2>2. m_storage' \in [Slots -> Slots \cup {NoTask}]
    BY <1>a, <2>1 DEF TypeOK
  <2>3. /\ pc' \in [Threads -> {"idle", "store", "read", "cas", "clear", "run"}]
        /\ pos' \in [Threads -> Nat] /\ task' \in [Threads -> Slots \cup {NoTask}]
    BY <1>a DEF TypeOK
  <2> QED
    BY <1>a, <2>2, <2>3 DEF TypeOK
<1>2. Order' /\ (\A p \in Waiting' : Kept(p)')
  BY <1>a DEF Order, Waiting, Kept
<1>3. \A p : ~Storing(p)'
  BY <1>c DEF Storing
<1>4. \A p : Clearing(p)' <=> Clearing(p)
  BY <1>a, <1>b, <1>c DEF Clearing
<1>5. Locals'
  <2>1. ASSUME NEW x \in Threads \ {Owner} PROVE Local(x)'
    <3>1. pc'[x] = pc[x] /\ pos'[x] = pos[x] /\ task'[x] = task[x] /\ Local(x)
      BY <1>b DEF Locals
    <3> QED
      BY <1>a, <1>3, <3>1 DEF Local, Kept
  <2>2. Local(Owner)'
    BY <1>c DEF Local
  <2> QED
    BY <1>c, <2>1, <2>2 DEF Locals
<1>6. Apart'
  BY <1>a, <1>b, <1>c DEF Apart, Has, Waiting
<1>7. \A p \in Waiting' : m_storage'[Slot(p)] = Slot(pushed'[p + 1])
  <2> SUFFICES ASSUME NEW p \in Waiting PROVE m_storage'[Slot(p)] = Slot(pushed[p + 1])
    BY <1>a DEF Waiting
  <2>1. p \in Nat /\ p <= pos[Owner] /\ Kept(p)
    BY <1>d DEF Waiting
  <2>2. CASE p = pos[Owner]
    BY <1>d, <1>e, <2>2
  <2>3. CASE p # pos[Owner]
    <3>1. Slot(p) # Slot(pos[Owner])
      <4>1. p < pos[Owner] /\ pos[Owner] < m_tail_pos
        BY <1>d, <1>e, <2>1, <2>3
      <4> QED
        BY <1>e, <2>1, <4>1, Within
    <3>2. p \in Int
      BY <2>1
    <3>3. Slot(p) \in Slots /\ ~Storing(p)
      BY <2>3, <3>2, Turns DEF Storing
    <3> QED
      BY <1>e, <3>1, <3>3 DEF Entries
  <2> QED
    BY <2>2, <2>3
<1>8. ASSUME NEW x \in Slots, m_storage'[x] # NoTask
      PROVE  \E p \in 0 .. m_tail_pos - 1 : Slot(p) = x /\ (p >= m_head_pos \/ Clearing(p))
  <2>1. CASE x = Slot(pos[Owner])
    BY <1>d, <1>e, <2>1
  <2>2. CASE x # Slot(pos[Owner])
    <3>1. m_storage[x] # NoTask
      BY <1>e, <1>8, <2>2
    <3> QED
      BY <3>1 DEF Entries
  <2> QED
    BY <2>1, <2>2
<1>9. Entries'
  BY <1>a, <1>3, <1>4, <1>7, <1>8 DEF Entries
<1> QED
  BY <1>1, <1>2, <1>5, <1>6, <1>9

\* The claim moves the oldest task from the queue to the thread, provided no
\* thread still clears the entry the head is about to come round to.
LEMMA PopClaimIInv ==
  ASSUME PromptClear, IInv, NEW th \in Threads, PopClaim(th)
  PROVE  IInv'
<1> USE DEF IInv
<1>a. /\ pc[th] = "cas" /\ m_head_pos = pos[th] /\ ~Clearing(m_head_pos + 1 - Size)
      /\ m_head_pos' = m_head_pos + 1 /\ pc' = [pc EXCEPT ![th] = "clear"]
      /\ UNCHANGED <<m_allocated, unfinished, overwritten, m_tail_pos, m_storage, pos, task, pushed>>
  BY DEF PopClaim
<1>b. /\ \A x \in Threads \ {th} : pc'[x] = pc[x]
      /\ pc'[th] = "clear"
  BY <1>a DEF TypeOK
<1>c. /\ m_head_pos \in Nat /\ m_tail_pos \in Nat /\ Size \in Nat /\ Size > 1
      /\ \A x \in Threads : pos[x] \in Nat
  BY Counters
<1>d. /\ m_head_pos < m_tail_pos /\ ~Storing(m_head_pos)
      /\ task[th] = Slot(pushed[m_head_pos + 1])
  BY <1>a DEF Locals, Local
<1>e. m_head_pos \in Waiting /\ Kept(m_head_pos)
  BY <1>c, <1>d DEF Waiting
<1>f. Waiting' = Waiting \ {m_head_pos}
  BY <1>a, <1>c DEF Waiting
<1>1. TypeOK'
  BY <1>a DEF TypeOK
<1>2. Order'
  BY <1>a, <1>c, <1>d DEF Order
<1>3. \A p : Kept(p)' <=> Kept(p)
  BY <1>a DEF Kept
<1>4. \A p \in Waiting' : Kept(p)'
  BY <1>3, <1>f
<1>g. \A p : Storing(p)' <=> Storing(p)
  BY <1>a, <1>b DEF Storing
<1>5. Locals'
  <2>1. (pc[Owner] = "store" =>
          /\ m_head_pos < m_tail_pos /\ pos[Owner] = m_tail_pos - 1
          /\ task[Owner] = Slot(pushed[m_tail_pos]))'
    BY <1>a, <1>b, <1>c, <1>d DEF Locals, Storing
  <2>2. ASSUME NEW x \in Threads \ {th} PROVE Local(x)'
    <3>1. pc'[x] = pc[x] /\ pos'[x] = pos[x] /\ task'[x] = task[x] /\ Local(x) /\ pos[x] \in Nat
      BY <1>a, <1>b, <1>c DEF Locals
    <3>2. pc[x] = "clear" => m_head_pos' - Size < pos[x] /\ pos[x] < m_head_pos' /\ Kept(pos[x])'
      <4> SUFFICES ASSUME pc[x] = "clear"
                   PROVE  m_head_pos' - Size < pos[x] /\ pos[x] < m_head_pos' /\ Kept(pos[x])'
        OBVIOUS
      <4>1. pos[x] # m_head_pos + 1 - Size
        BY <1>a DEF Clearing
      <4>2. m_head_pos - Size < pos[x] /\ pos[x] < m_head_pos /\ Kept(pos[x])
        BY <3>1 DEF Local
      <4>3. Kept(pos[x])'
        BY <1>a, <4>2 DEF Kept
      <4> QED
        BY <1>a, <1>c, <3>1, <4>1, <4>2, <4>3
    <3>3. pc[x] \in {"read", "cas"} => pos[x] < m_head_pos'
      BY <1>a, <1>c, <3>1 DEF Local
    <3> QED
      BY <1>a, <1>c, <3>1, <3>2, <3>3 DEF Local
  <2>3. Local(th)'
    <3>1. Kept(pos[th])'
      BY <1>a, <1>e DEF Kept
    <3> QED
      BY <1>a, <1>b, <1>c, <1>d, <3>1 DEF Local
  <2> QED
    BY <2>1, <2>2, <2>3 DEF Locals
<1>6. Apart'
  <2>1. \A x \in Threads \ {th} : Has(x)' <=> Has(x)
    BY <1>b DEF Has
  <2>2. \A x \in Threads \ {th} : Has(x) => task[x] # task[th]
    BY <1>d, <1>e DEF Apart
  <2>3. \A x \in Threads : pc[x] = "clear" => pos[x] # pos[th]
    BY <1>a, <1>c DEF Locals, Local
  <2>4. \A p \in Waiting' : Slot(pushed[m_head_pos + 1]) # Slot(pushed[p + 1])
    <3> SUFFICES ASSUME NEW p \in Waiting' PROVE Slot(pushed[m_head_pos + 1]) # Slot(pushed[p + 1])
      OBVIOUS
    <3>1. p \in Nat /\ m_head_pos < p /\ p < m_tail_pos
      BY <1>c, <1>f DEF Waiting
    <3> QED
      BY <1>c, <1>e, <3>1, Within
  <2>5. \A x \in Threads, y \in Threads : x # y =>
          /\ Has(x)' /\ Has(y)' => task'[x] # task'[y]
          /\ pc'[x] = "clear" /\ pc'[y] = "clear" => pos'[x] # pos'[y]
    BY <1>a, <1>b, <2>1, <2>2, <2>3 DEF Apart
  <2>6. \A x \in Threads, p \in Waiting' : Has(x)' => task'[x] # Slot(pushed'[p + 1])
    BY <1>a, <1>d, <1>f, <2>1, <2>4 DEF Apart
  <2> QED
    BY <2>5, <2>6 DEF Apart
<1>7. Entries'
  <2>1. \A p \in Waiting' : Storing(p)' \/ m_storage'[Slot(p)] = Slot(pushed'[p + 1])
    BY <1>a, <1>f, <1>g DEF Entries
  <2>2. \A p : Clearing(p) => Clearing(p)'
    BY <1>a, <1>b DEF Clearing
  <2>3. \A p \in 0 .. m_tail_pos - 1 :
          (p >= m_head_pos /\ ~Storing(p)) \/ Clearing(p) => (p >= m_head_pos' /\ ~Storing(p)') \/ Clearing(p)'
    <3> SUFFICES ASSUME NEW p \in 0 .. m_tail_pos - 1, p >= m_head_pos /\ ~Storing(p)
                 PROVE  (p >= m_head_pos' /\ ~Storing(p)') \/ Clearing(p)'
      BY <2>2
    <3>1. CASE p = m_head_pos
      BY <1>a, <1>b, <3>1 DEF Clearing
    <3>2. CASE p # m_head_pos
      BY <1>a, <1>c, <1>g, <3>2
    <3> QED
      BY <3>1, <3>2
  <2> QED
    BY <1>a, <2>1, <2>3 DEF Entries
<1> QED
  BY <1>1, <1>2, <1>4, <1>5, <1>6, <1>7

\* The thread clears the entry it has claimed; no other position uses it.
LEMMA PopClearIInv ==
  ASSUME IInv, NEW th \in Threads, PopClear(th)
  PROVE  IInv'
<1> USE DEF IInv
<1>a. /\ pc[th] = "clear" /\ pc' = [pc EXCEPT ![th] = "run"] /\ pos' = [pos EXCEPT ![th] = 0]
      /\ m_storage' = [m_storage EXCEPT ![Slot(pos[th])] = NoTask]
      /\ UNCHANGED <<m_allocated, unfinished, overwritten, m_head_pos, m_tail_pos, task, pushed>>
  BY DEF PopClear
<1>b. /\ \A x \in Threads \ {th} : pc'[x] = pc[x] /\ pos'[x] = pos[x]
      /\ pc'[th] = "run" /\ pos'[th] = 0
  BY <1>a DEF TypeOK
<1>c. /\ m_head_pos \in Nat /\ m_tail_pos \in Nat /\ m_head_pos <= m_tail_pos
      /\ pos[th] \in Nat /\ pos[th] < m_head_pos /\ Kept(pos[th])
      /\ task[th] = Slot(pushed[pos[th] + 1])
  BY <1>a, Counters DEF Locals, Local, Order
<1>d. /\ Slot(pos[th]) \in Slots /\ m_storage'[Slot(pos[th])] = NoTask
      /\ \A x \in Slots \ {Slot(pos[th])} : m_storage'[x] = m_storage[x]
  <2>1. pos[th] \in Int
    BY <1>c
  <2>2. Slot(pos[th]) \in Slots
    BY <2>1, Turns
  <2> QED
    BY <1>a, <2>2 DEF TypeOK
<1>1. TypeOK'
  BY <1>a DEF TypeOK
<1>2. Order' /\ (\A p \in Waiting' : Kept(p)')
  BY <1>a DEF Order, Waiting, Kept
<1>e. \A p : Storing(p)' <=> Storing(p)
  BY <1>a, <1>b, TaskQueueAssumption DEF Storing
<1>5. Locals'
  <2>1. ASSUME NEW x \in Threads \ {th} PROVE Local(x)'
    <3>1. pc'[x] = pc[x] /\ pos'[x] = pos[x] /\ task'[x] = task[x] /\ Local(x)
      BY <1>a, <1>b DEF Locals
    <3> QED
      BY <1>a, <1>e, <3>1 DEF Local, Kept
  <2>2. Local(th)'
    BY <1>a, <1>b, <1>c DEF Local, Kept
  <2>3. (pc[Owner] = "store" =>
          /\ m_head_pos < m_tail_pos /\ pos[Owner] = m_tail_pos - 1
          /\ task[Owner] = Slot(pushed[m_tail_pos]))'
    BY <1>a, <1>b, TaskQueueAssumption DEF Locals
  <2> QED
    BY <2>1, <2>2, <2>3 DEF Locals
<1>6. Apart'
  <2>1. \A x \in Threads : Has(x)' <=> Has(x)
    BY <1>a, <1>b DEF Has
  <2> QED
    BY <1>a, <1>b, <2>1 DEF Apart, Waiting
<1>7. ASSUME NEW p \in Waiting
      PROVE  Storing(p) \/ m_storage'[Slot(p)] = Slot(pushed[p + 1])
  <2>1. p \in Nat /\ p \in Int /\ pos[th] < p /\ p < m_tail_pos
    BY <1>c DEF Waiting
  <2>2. Slot(pos[th]) # Slot(p)
    BY <1>c, <2>1, Within
  <2>3. Slot(p) \in Slots
    BY <2>1, Turns
  <2> QED
    BY <1>d, <2>2, <2>3 DEF Entries
<1>8. ASSUME NEW x \in Slots, m_storage'[x] # NoTask
      PROVE  \E p \in 0 .. m_tail_pos - 1 :
               Slot(p) = x /\ ((p >= m_head_pos /\ ~Storing(p)) \/ Clearing(p)')
  <2>1. x # Slot(pos[th]) /\ m_storage[x] # NoTask
    BY <1>d, <1>8
  <2>2. PICK p \in 0 .. m_tail_pos - 1 :
          Slot(p) = x /\ ((p >= m_head_pos /\ ~Storing(p)) \/ Clearing(p))
    BY <2>1 DEF Entries
  <2>3. p # pos[th]
    BY <2>1, <2>2
  <2>4. Clearing(p) => Clearing(p)'
    BY <1>b, <2>3 DEF Clearing
  <2> QED
    BY <2>2, <2>4
<1>9. Entries'
  BY <1>a, <1>e, <1>7, <1>8 DEF Entries, Waiting
<1> QED
  BY <1>1, <1>2, <1>5, <1>6, <1>9

\* A task is finished by the one thread that has it.
LEMMA ExecuteTaskIInv ==
  ASSUME IInv, NEW th \in Threads, ExecuteTask(th)
  PROVE  IInv'
<1> USE DEF IInv
<1>a. /\ pc[th] = "run" /\ pc' = [pc EXCEPT ![th] = "idle"]
      /\ unfinished' = unfinished \ {task[th]} /\ task' = [task EXCEPT ![th] = NoTask]
      /\ UNCHANGED <<m_allocated, overwritten, m_head_pos, m_tail_pos, m_storage, pos, pushed>>
  BY DEF ExecuteTask
<1>b. /\ \A x \in Threads \ {th} : pc'[x] = pc[x] /\ task'[x] = task[x]
      /\ pc'[th] = "idle"
  BY <1>a DEF TypeOK
<1>1. TypeOK'
  BY <1>a DEF TypeOK
<1>2. Order'
  BY <1>a DEF Order
<1>3. \A p \in Waiting' : Kept(p)'
  BY <1>a DEF Apart, Has, Kept, Waiting
<1>4. \A p : (Storing(p)' <=> Storing(p)) /\ (Clearing(p)' <=> Clearing(p))
  BY <1>a, <1>b, TaskQueueAssumption DEF Storing, Clearing
<1>5. Locals'
  <2>1. ASSUME NEW x \in Threads \ {th} PROVE Local(x)'
    <3>1. pc'[x] = pc[x] /\ pos'[x] = pos[x] /\ task'[x] = task[x] /\ Local(x)
      BY <1>a, <1>b DEF Locals
    <3>2. Has(x) => task[x] # task[th]
      BY <1>a DEF Apart, Has
    <3> QED
      BY <1>a, <1>4, <3>1, <3>2 DEF Local, Kept, Has
  <2>2. Local(th)'
    BY <1>b DEF Local
  <2>3. (pc[Owner] = "store" =>
          /\ m_head_pos < m_tail_pos /\ pos[Owner] = m_tail_pos - 1
          /\ task[Owner] = Slot(pushed[m_tail_pos]))'
    BY <1>a, <1>b, TaskQueueAssumption DEF Locals
  <2> QED
    BY <2>1, <2>2, <2>3 DEF Locals
<1>6. Apart'
  BY <1>a, <1>b DEF Apart, Has, Waiting
<1>7. Entries'
  BY <1>a, <1>4 DEF Entries, Waiting
<1> QED
  BY <1>1, <1>2, <1>3, <1>5, <1>6, <1>7

\* A stuttering step.
LEMMA StutterIInv ==
  ASSUME IInv, UNCHANGED vars
  PROVE  IInv'
<1> USE DEF vars
<1>1. TypeOK' /\ Order' /\ \A p \in Waiting' : Kept(p)'
  BY DEF IInv, TypeOK, Order, Waiting, Kept
<1>2. Locals'
  BY DEF IInv, Locals, Local, Kept, Storing
<1>3. Apart' /\ Entries'
  BY DEF IInv, Apart, Entries, Has, Waiting, Storing, Clearing
<1> QED
  BY <1>1, <1>2, <1>3 DEF IInv

-----------------------------------------------------------------------------
(* The theorems                                                            *)

\* While the allocator overwrites nothing, and no thread stays in a clear for a
\* turn, every step keeps the invariant.
LEMMA StepIInv ==
  ASSUME PromptClear, IInv, [Next]_vars, ~overwritten'
  PROVE  IInv'
<1>1. CASE AddTask
  BY <1>1, AddTaskIInv
<1>2. CASE PushStore
  BY <1>2, PushStoreIInv
<1>3. CASE RunTask
  BY <1>3, RunTaskIInv
<1>4. ASSUME NEW th \in Threads, PopLoadHead(th) PROVE IInv'
  BY <1>4, PopLoadHeadIInv
<1>5. ASSUME NEW th \in Threads, PopReadEntry(th) PROVE IInv'
  BY <1>5, PopReadEntryIInv
<1>6. ASSUME NEW th \in Threads, PopClaim(th) PROVE IInv'
  BY <1>6, PopClaimIInv
<1>7. ASSUME NEW th \in Threads, PopLoses(th) PROVE IInv'
  BY <1>7, PopReturnsNothingIInv DEF PopLoses
<1>8. ASSUME NEW th \in Threads, PopClear(th) PROVE IInv'
  BY <1>8, PopClearIInv
<1>9. ASSUME NEW th \in Threads, ExecuteTask(th) PROVE IInv'
  BY <1>9, ExecuteTaskIInv
<1>10. CASE UNCHANGED vars
  BY <1>10, StutterIInv
<1> QED
  BY <1>1, <1>2, <1>3, <1>4, <1>5, <1>6, <1>7, <1>8, <1>9, <1>10 DEF Next

\* The types do not depend on it: every step keeps them.
LEMMA StepTypeOK ==
  ASSUME TypeOK, [Next]_vars
  PROVE  TypeOK'
<1> USE TaskQueueAssumption DEF TypeOK
<1>1. CASE AddTask
  BY <1>1 DEF AddTask, Allocate
<1>2. CASE PushStore
  BY <1>2 DEF PushStore
<1>3. CASE RunTask
  BY <1>3 DEF RunTask, Allocate
<1>4. ASSUME NEW th \in Threads, PopLoadHead(th) PROVE TypeOK'
  BY <1>4 DEF PopLoadHead
<1>5. ASSUME NEW th \in Threads, PopReadEntry(th) PROVE TypeOK'
  <2>1. pos[th] \in Int
    OBVIOUS
  <2>2. m_storage[Slot(pos[th])] \in Slots \cup {NoTask}
    BY <2>1, Turns
  <2>3. CASE PopReturnsNothing(th)
    BY <2>3 DEF PopReturnsNothing
  <2>4. CASE ~PopReturnsNothing(th)
    <3>1. /\ task' = [task EXCEPT ![th] = m_storage[Slot(pos[th])]]
          /\ pc' = [pc EXCEPT ![th] = "cas"]
          /\ UNCHANGED <<m_allocated, unfinished, overwritten, m_head_pos, m_tail_pos,
                         m_storage, pos, pushed>>
      BY <1>5, <2>4 DEF PopReadEntry
    <3> QED
      BY <2>2, <3>1
  <2> QED
    BY <2>3, <2>4
<1>6. ASSUME NEW th \in Threads, PopClaim(th) PROVE TypeOK'
  BY <1>6 DEF PopClaim
<1>7. ASSUME NEW th \in Threads, PopLoses(th) PROVE TypeOK'
  BY <1>7 DEF PopLoses, PopReturnsNothing
<1>8. ASSUME NEW th \in Threads, PopClear(th) PROVE TypeOK'
  BY <1>8 DEF PopClear
<1>9. ASSUME NEW th \in Threads, ExecuteTask(th) PROVE TypeOK'
  BY <1>9 DEF ExecuteTask
<1>10. CASE UNCHANGED vars
  BY <1>10 DEF vars
<1> QED
  BY <1>1, <1>2, <1>3, <1>4, <1>5, <1>6, <1>7, <1>8, <1>9, <1>10 DEF Next

\* A slot that was overwritten is remembered.
LEMMA OverwrittenStays ==
  ASSUME TypeOK, [Next]_vars, overwritten
  PROVE  overwritten'
BY DEF TypeOK, Next, vars, AddTask, RunTask, Allocate, PushStore, PopLoadHead, PopReadEntry,
       PopReturnsNothing, PopClaim, PopLoses, PopClear, ExecuteTask

\* The invariant holds until the allocator overwrites an unfinished task, and
\* the types hold afterwards too.
THEOREM Invariance == PromptClear => (Spec => [](TypeOK /\ (overwritten \/ IInv)))
<1> SUFFICES ASSUME PromptClear PROVE Spec => [](TypeOK /\ (overwritten \/ IInv))
  OBVIOUS
<1> DEFINE J == TypeOK /\ (overwritten \/ IInv)
<1>1. Init => J
  BY InitIInv DEF IInv
<1>2. J /\ [Next]_vars => J'
  BY StepTypeOK, StepIInv, OverwrittenStays
<1> QED
  BY <1>1, <1>2, PTL DEF Spec

\* The variables of the rings keep their types.
THEOREM TypeCorrect == Spec => []TypeOK
<1>1. Init => TypeOK
  BY InitIInv DEF IInv
<1>2. TypeOK /\ [Next]_vars => TypeOK'
  BY StepTypeOK
<1> QED
  BY <1>1, <1>2, PTL DEF Spec

\* No task is executed twice: Task.hpp's VERIFY2 does not fire before that of
\* the allocator did.
THEOREM NeverTwice == PromptClear => (Spec => []ExecutedOnce)
<1>1. overwritten \/ IInv => ExecutedOnce
  BY DEF IInv, Apart, Locals, Local, Kept, Has, ExecutedOnce
<1> QED
  BY <1>1, Invariance, PTL

\* As long as the allocator has overwritten no unfinished task the ring does not
\* overflow, and every position between head and tail holds its task: push's
\* VERIFY2 follows from the VERIFY of allocate.
THEOREM RingIsSound == PromptClear => (Spec => []RingSound)
<1>1. overwritten \/ IInv => RingSound
  <2> SUFFICES ASSUME IInv PROVE RingSound
    BY DEF RingSound
  <2> USE DEF IInv
  <2>1. m_head_pos \in Nat /\ m_tail_pos \in Nat /\ m_head_pos <= m_tail_pos /\ Size \in Nat /\ Size > 1
    BY Counters DEF Order
  <2>2. NoOverflow
    <3>1. CASE m_tail_pos <= m_head_pos + 1
      BY <2>1, <3>1 DEF NoOverflow
    <3>2. CASE m_tail_pos > m_head_pos + 1
      <4>1. Kept(m_head_pos) /\ m_tail_pos - 1 \in Nat /\ m_head_pos < m_tail_pos - 1 /\ m_tail_pos - 1 < m_tail_pos
        BY <2>1, <3>2 DEF Waiting
      <4>2. m_tail_pos - 1 < m_head_pos + Size
        BY <2>1, <4>1, Within
      <4> QED
        BY <2>1, <4>2 DEF NoOverflow
    <3> QED
      BY <2>1, <3>1, <3>2
  <2>3. NoHole
    BY DEF Entries, NoHole, Waiting, Storing
  <2> QED
    BY <2>2, <2>3 DEF RingSound
<1> QED
  BY <1>1, Invariance, PTL

-----------------------------------------------------------------------------
(* Refinement: only AddTask, PopClaim and ExecuteTask move the abstract    *)
(* queue.                                                                  *)

\* The abstract queue is a sequence of slots, as long as the ring is full.
LEMMA QueueIsSeq ==
  ASSUME IInv
  PROVE  /\ m_tail_pos - m_head_pos \in Nat
         /\ queue \in Seq(Slots)
         /\ Len(queue) = m_tail_pos - m_head_pos
         /\ \A k \in 1 .. m_tail_pos - m_head_pos : queue[k] = Slot(pushed[m_head_pos + k])
<1>1. /\ m_head_pos \in Nat /\ m_tail_pos \in Nat /\ m_head_pos <= m_tail_pos
      /\ Len(pushed) = m_tail_pos /\ pushed \in Seq(Nat)
  BY Counters DEF IInv, TypeOK, Order
<1>2. \A k \in 1 .. m_tail_pos - m_head_pos : Slot(pushed[m_head_pos + k]) \in Slots
  <2> SUFFICES ASSUME NEW k \in 1 .. m_tail_pos - m_head_pos
               PROVE  Slot(pushed[m_head_pos + k]) \in Slots
    OBVIOUS
  <2>1. m_head_pos + k \in 1 .. Len(pushed)
    BY <1>1
  <2>2. pushed[m_head_pos + k] \in Nat
    BY <1>1, <2>1
  <2> QED
    BY <2>2, Turns
<1>3. m_tail_pos - m_head_pos \in Nat
  BY <1>1
<1> QED
  BY <1>2, <1>3 DEF queue

\* The claim takes the head of the abstract queue.
LEMMA ClaimTakes ==
  ASSUME IInv, NEW th \in Threads, PopClaim(th)
  PROVE  Fifo!Take(th)
<1>1. /\ pc[th] = "cas" /\ m_head_pos = pos[th] /\ m_head_pos' = m_head_pos + 1
      /\ pc' = [pc EXCEPT ![th] = "clear"] /\ UNCHANGED <<m_tail_pos, task, pushed>>
  BY DEF PopClaim
<1>2. /\ m_head_pos \in Nat /\ m_tail_pos \in Nat /\ m_head_pos < m_tail_pos
      /\ task[th] = Slot(pushed[m_head_pos + 1])
  BY <1>1 DEF IInv, TypeOK, Locals, Local
<1>3. queue # <<>> /\ Head(queue) = task[th]
  BY <1>2, QueueIsSeq
<1>4. queue' = Tail(queue)
  <2> DEFINE n == m_tail_pos - m_head_pos
             later == [k \in 1 .. n - 1 |-> Slot(pushed[m_head_pos + 1 + k])]
  <2>1. m_tail_pos - (m_head_pos + 1) = n - 1 /\ n \in Nat \ {0}
    BY <1>2
  <2>2. queue' = later
    BY <1>1, <2>1 DEF queue
  <2>3. \A k \in 1 .. n - 1 : queue[k + 1] = Slot(pushed[m_head_pos + 1 + k])
    <3> SUFFICES ASSUME NEW k \in 1 .. n - 1
                 PROVE  queue[k + 1] = Slot(pushed[m_head_pos + 1 + k])
      OBVIOUS
    <3>1. k + 1 \in 1 .. n /\ m_head_pos + (k + 1) = m_head_pos + 1 + k
      BY <1>2
    <3> QED
      BY <3>1, QueueIsSeq
  <2>4. later \in Seq(Slots) /\ Len(later) = n - 1
    <3>1. \A k \in 1 .. n - 1 : k + 1 \in 1 .. n
      BY <2>1
    <3>2. \A k \in 1 .. n : queue[k] \in Slots
      BY QueueIsSeq
    <3>3. \A k \in 1 .. n - 1 : Slot(pushed[m_head_pos + 1 + k]) \in Slots
      BY <2>3, <3>1, <3>2
    <3> HIDE DEF n
    <3> QED
      BY <2>1, <3>3
  <2>5. /\ Tail(queue) \in Seq(Slots) /\ Len(Tail(queue)) = n - 1
        /\ \A k \in 1 .. n - 1 : Tail(queue)[k] = queue[k + 1]
    BY <2>1, QueueIsSeq
  <2>6. \A k \in 1 .. n - 1 : later[k] = Tail(queue)[k]
    BY <2>3, <2>5
  <2> HIDE DEF n, later
  <2>7. Tail(queue) = later
    BY <2>4, <2>5, <2>6, SeqEqual
  <2> QED
    BY <2>2, <2>7
<1>5. taken[th] = NoTask /\ taken' = [taken EXCEPT ![th] = task[th]]
  BY <1>1 DEF taken, IInv, TypeOK
<1> QED
  BY <1>3, <1>4, <1>5 DEF Fifo!Take

\* The fetch_add of a push appends to the abstract queue.
LEMMA AddPushes ==
  ASSUME IInv, AddTask
  PROVE  \E t \in Slots : Fifo!Push(t)
<1>1. PICK s \in Slots : Allocate(s) /\ pushed' = Append(pushed, m_allocated) /\ task' = [task EXCEPT ![Owner] = s]
  BY DEF AddTask
<1>2. /\ pc[Owner] = "idle" /\ pc' = [pc EXCEPT ![Owner] = "store"]
      /\ m_tail_pos' = m_tail_pos + 1 /\ m_head_pos' = m_head_pos /\ s = Slot(m_allocated)
  BY <1>1 DEF AddTask, Allocate
<1>3. /\ m_head_pos \in Nat /\ m_tail_pos \in Nat /\ m_head_pos <= m_tail_pos
      /\ Len(pushed) = m_tail_pos /\ pushed \in Seq(Nat) /\ m_allocated \in Nat
  BY Counters DEF IInv, TypeOK, Order
<1>4. queue' = Append(queue, s)
  <2> DEFINE n == m_tail_pos - m_head_pos
             longer == [k \in 1 .. n + 1 |-> Slot(pushed'[m_head_pos + k])]
  <2>1. m_tail_pos + 1 - m_head_pos = n + 1 /\ n \in Nat /\ m_head_pos + (n + 1) = m_tail_pos + 1
    BY <1>3
  <2>2. queue' = longer
    BY <1>2, <1>3, <2>1 DEF queue
  <2>3. \A k \in 1 .. n : Slot(pushed'[m_head_pos + k]) = queue[k]
    <3> SUFFICES ASSUME NEW k \in 1 .. n PROVE Slot(pushed'[m_head_pos + k]) = queue[k]
      OBVIOUS
    <3>1. m_head_pos + k \in 1 .. Len(pushed)
      BY <1>3
    <3>2. pushed'[m_head_pos + k] = pushed[m_head_pos + k]
      BY <1>1, <1>3, <3>1
    <3> QED
      BY <3>2, QueueIsSeq
  <2>4. Slot(pushed'[m_tail_pos + 1]) = s
    BY <1>1, <1>2, <1>3
  <2>5. queue \in Seq(Slots) /\ Len(queue) = n
    BY QueueIsSeq
  <2>6. Append(queue, s) \in Seq(Slots) /\ Len(Append(queue, s)) = n + 1
        /\ \A k \in 1 .. n + 1 : Append(queue, s)[k] = IF k = n + 1 THEN s ELSE queue[k]
    BY <2>1, <2>5
  <2>7. \A k \in 1 .. n + 1 : longer[k] = Append(queue, s)[k]
    <3> SUFFICES ASSUME NEW k \in 1 .. n + 1 PROVE longer[k] = Append(queue, s)[k]
      OBVIOUS
    <3>1. CASE k = n + 1
      BY <2>1, <2>4, <2>6, <3>1
    <3>2. CASE k # n + 1
      <4>1. k \in 1 .. n
        BY <2>1, <3>2
      <4> QED
        BY <2>3, <2>6, <3>2, <4>1
    <3> QED
      BY <3>1, <3>2
  <2>8. longer \in Seq(Slots) /\ Len(longer) = n + 1
    <3>1. \A k \in 1 .. n + 1 : Append(queue, s)[k] \in Slots
      BY <2>6
    <3>2. \A k \in 1 .. n + 1 : Slot(pushed'[m_head_pos + k]) \in Slots
      BY <2>7, <3>1
    <3> HIDE DEF n
    <3> QED
      BY <2>1, <3>2
  <2> HIDE DEF n, longer
  <2>9. longer = Append(queue, s)
    BY <2>6, <2>7, <2>8, SeqEqual
  <2> QED
    BY <2>2, <2>9
<1>5. taken' = taken
  BY <1>1, <1>2, TaskQueueAssumption DEF taken, IInv, TypeOK
<1> QED
  BY <1>4, <1>5 DEF Fifo!Push

\* A task that is executed leaves its thread.
LEMMA ExecuteFinishes ==
  ASSUME IInv, NEW th \in Threads, ExecuteTask(th)
  PROVE  Fifo!Finish(th)
<1>1. queue' = queue
  BY DEF ExecuteTask, queue
<1>2. task[th] # NoTask
  BY NoTaskAssumption DEF ExecuteTask, IInv, TypeOK, Locals, Local
<1>3. taken[th] # NoTask /\ taken' = [taken EXCEPT ![th] = NoTask]
  BY <1>2 DEF ExecuteTask, taken, IInv, TypeOK
<1> QED
  BY <1>1, <1>3 DEF Fifo!Finish

\* Every other step leaves the abstract queue alone.
LEMMA OthersStutter ==
  ASSUME IInv, UNCHANGED <<m_head_pos, m_tail_pos, pushed>>,
         \A th \in Threads : /\ Has(th)' <=> Has(th)
                             /\ Has(th) => task'[th] = task[th]
  PROVE  UNCHANGED <<queue, taken>>
BY DEF queue, taken, Has

\* The lock-free ring implements the abstract queue until a task is overwritten:
\* every task is handed to one thread, in the order of the pushes.
THEOREM Refinement == PromptClear => (Spec => ImplementsFifo)
<1> SUFFICES ASSUME PromptClear PROVE Spec => ImplementsFifo
  OBVIOUS
<1>1. Init => Fifo!Init
  BY DEF Init, Fifo!Init, queue, taken
<1>2. IInv /\ [Next]_vars => [~overwritten' => Fifo!Next]_<<queue, taken>>
  <2> SUFFICES ASSUME IInv, [Next]_vars PROVE [Fifo!Next]_<<queue, taken>>
    OBVIOUS
  <2>1. CASE AddTask
    BY <2>1, AddPushes DEF Fifo!Next
  <2>2. CASE PushStore
    <3>1. \A th \in Threads : (Has(th)' <=> Has(th)) /\ (Has(th) => task'[th] = task[th])
      BY <2>2 DEF PushStore, Has, IInv, TypeOK
    <3> QED
      BY <2>2, <3>1, OthersStutter DEF PushStore
  <2>3. CASE RunTask
    BY <2>3, OthersStutter DEF RunTask, Has
  <2>4. ASSUME NEW th \in Threads, PopLoadHead(th) \/ PopReadEntry(th) \/ PopLoses(th) \/ PopClear(th)
        PROVE  UNCHANGED <<queue, taken>>
    <3>1. \A x \in Threads : (Has(x)' <=> Has(x)) /\ (Has(x) => task'[x] = task[x])
      BY <2>4 DEF PopLoadHead, PopReadEntry, PopLoses, PopClear, PopReturnsNothing, Has, IInv, TypeOK
    <3> QED
      BY <2>4, <3>1, OthersStutter DEF PopLoadHead, PopReadEntry, PopLoses, PopClear, PopReturnsNothing
  <2>5. ASSUME NEW th \in Threads, PopClaim(th) PROVE Fifo!Next
    BY <2>5, ClaimTakes DEF Fifo!Next
  <2>6. ASSUME NEW th \in Threads, ExecuteTask(th) PROVE Fifo!Next
    BY <2>6, ExecuteFinishes DEF Fifo!Next
  <2>7. CASE UNCHANGED vars
    BY <2>7, OthersStutter DEF vars, Has
  <2> QED
    BY <2>1, <2>2, <2>3, <2>4, <2>5, <2>6, <2>7 DEF Next
<1>3. TypeOK /\ overwritten /\ [Next]_vars => [~overwritten' => Fifo!Next]_<<queue, taken>>
  BY OverwrittenStays
<1>4. Spec => [](TypeOK /\ (overwritten \/ IInv))
  BY Invariance
<1> QED
  BY <1>1, <1>2, <1>3, <1>4, PTL DEF Spec, ImplementsFifo
=============================================================================

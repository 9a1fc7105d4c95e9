--------------------------- MODULE TaskTree_proofs ---------------------------
(***************************************************************************)
(* Proofs of TaskTree's safety properties for every finite set of tasks    *)
(* and every set of threads.  The argument: `jobs` counts the holders of   *)
(* its units (JobsCount); every step moves at most one holder, so the      *)
(* count is inductive; a counter at zero has no holder, hence no           *)
(* unfinished child, hence (LineageUnfinished) no unfinished descendant.   *)
(* That the threads never wait for each other in a circle (DeadlockFree)   *)
(* follows from the order of the frames on the stacks and of the births of *)
(* the tasks (StackInv).                                                   *)
(***************************************************************************)
EXTENDS TaskTree, FiniteSetTheorems, TLAPS

\* The units of a counter are held by finitely many tasks, so they can be counted.
LEMMA HoldersFinite ==
  ASSUME NEW p \in Tasks
  PROVE  /\ IsFiniteSet(Holders(p))
         /\ Cardinality(Holders(p)) \in Nat
<1>1. Holders(p) \in SUBSET Tasks
  BY DEF Holders
<1>2. IsFiniteSet(Holders(p))
  BY <1>1, FS_Subset, TaskTreeAssumption
<1> QED
  BY <1>2, FS_CardinalityType

\* A task that holds a unit keeps the counter above zero.
LEMMA HolderPositive ==
  ASSUME JobsCount, NEW p \in Tasks, NEW t \in Holders(p)
  PROVE  jobs[p] \in Nat /\ jobs[p] > 0
<1>1. IsFiniteSet(Holders(p)) /\ Cardinality(Holders(p)) \in Nat
  BY HoldersFinite
<1>2. Cardinality(Holders(p)) # 0
  BY <1>1, FS_EmptySet
<1> QED
  BY <1>1, <1>2 DEF JobsCount

\* When the counter stands at one, its holder is the only one.
LEMMA SingleHolder ==
  ASSUME JobsCount, NEW p \in Tasks, jobs[p] = 1,
         NEW s \in Holders(p), NEW t \in Holders(p)
  PROVE  s = t
<1>1. IsFiniteSet(Holders(p)) /\ Cardinality(Holders(p)) = 1
  BY HoldersFinite DEF JobsCount
<1>2. PICK x : Holders(p) = {x}
  BY <1>1, FS_Singleton
<1> QED
  BY <1>2

\* A counter at zero: the body has returned and so has every child.
LEMMA ZeroMeansNoHolder ==
  ASSUME JobsCount, NEW p \in Tasks, jobs[p] = 0
  PROVE  Holders(p) = {}
  BY HoldersFinite, FS_EmptySet DEF JobsCount

-----------------------------------------------------------------------------

\* Initially no task exists and no counter is above zero.
LEMMA InitIInv == Init => IInv
<1> SUFFICES ASSUME Init PROVE IInv
  OBVIOUS
<1> USE TaskTreeAssumption DEF Init, Frames
<1>1. TypeOK
  BY DEF TypeOK, TaskStages
<1>2. WellFormed
  BY DEF WellFormed
<1>3. JobsCount
  <2> SUFFICES ASSUME NEW p \in Tasks PROVE jobs[p] = Cardinality(Holders(p))
    BY DEF JobsCount
  <2>1. Holders(p) = {}
    BY DEF Holders
  <2> QED
    BY <2>1, FS_EmptySet
<1>4. LineageUnfinished
  BY DEF LineageUnfinished
<1> QED
  BY <1>1, <1>2, <1>3, <1>4 DEF IInv

-----------------------------------------------------------------------------
(* One lemma per action, each with one step per conjunct of IInv.          *)

\* CreateTask(func): the new task holds the one unit it starts with.
LEMMA CreateTaskIInv ==
  ASSUME IInv, NEW w \in Workers, NEW t \in Tasks, CreateTask(w, t)
  PROVE  IInv'
<1> USE TaskTreeAssumption DEF IInv, Frames
<1>1. TypeOK'
  BY DEF CreateTask, TypeOK, TaskStages
<1>2. WellFormed'
  BY DEF CreateTask, TypeOK, TaskStages, WellFormed
<1>3. JobsCount'
  <2> SUFFICES ASSUME NEW p \in Tasks PROVE jobs'[p] = Cardinality(Holders(p)')
    BY DEF JobsCount
  <2>1. CASE p = t
    <3>1. Holders(p)' = {t}
      BY <2>1 DEF CreateTask, TypeOK, TaskStages, WellFormed, Holders
    <3>2. jobs'[p] = 1
      BY <2>1 DEF CreateTask, TypeOK
    <3> QED
      BY <3>1, <3>2, FS_Singleton
  <2>2. CASE p # t
    <3>1. Holders(p)' = Holders(p)
      BY <2>2 DEF CreateTask, TypeOK, TaskStages, WellFormed, Holders
    <3>2. jobs'[p] = jobs[p]
      BY <2>2 DEF CreateTask, TypeOK
    <3> QED
      BY <3>1, <3>2 DEF JobsCount
  <2> QED
    BY <2>1, <2>2
<1>4. LineageUnfinished'
  BY DEF CreateTask, TypeOK, WellFormed, LineageUnfinished
<1> QED
  BY <1>1, <1>2, <1>3, <1>4

\* CreateTask(parent, func): the parent's counter and its holders grow together.
LEMMA CreateChildIInv ==
  ASSUME IInv, NEW w \in Workers, NEW t \in Tasks, CreateChild(w, t)
  PROVE  IInv'
<1> USE TaskTreeAssumption DEF IInv, Frames
<1> DEFINE p == top[w]
<1>0. /\ p \in Tasks /\ p # t
      /\ p \in Holders(p)
      /\ jobs[p] \in Nat /\ jobs[p] > 0
  <2>1. p \in Tasks /\ p # t /\ p \in Holders(p)
    BY DEF CreateChild, TypeOK, Holders
  <2> HIDE DEF p
  <2> QED
    BY <2>1, HolderPositive
<1>1. TypeOK'
  BY <1>0 DEF CreateChild, TypeOK, TaskStages
<1>2. WellFormed'
  BY <1>0 DEF CreateChild, TypeOK, TaskStages, WellFormed
<1>3. JobsCount'
  <2> SUFFICES ASSUME NEW q \in Tasks PROVE jobs'[q] = Cardinality(Holders(q)')
    BY DEF JobsCount
  <2>1. CASE q = t
    <3>1. Holders(q)' = {t}
      BY <1>0, <2>1 DEF CreateChild, TypeOK, TaskStages, WellFormed, Holders
    <3>2. jobs'[q] = 1
      BY <1>0, <2>1 DEF CreateChild, TypeOK
    <3> QED
      BY <3>1, <3>2, FS_Singleton
  <2>2. CASE q = p
    <3>1. t \notin Holders(q)
      BY <1>0, <2>2 DEF CreateChild, TypeOK, TaskStages, WellFormed, Holders
    <3>2. Holders(q)' = Holders(q) \cup {t}
      BY <1>0, <2>2 DEF CreateChild, TypeOK, TaskStages, WellFormed, Holders
    <3>3. jobs'[q] = jobs[q] + 1
      BY <1>0, <2>2 DEF CreateChild, TypeOK
    <3> QED
      BY <3>1, <3>2, <3>3, HoldersFinite, FS_AddElement DEF JobsCount
  <2>3. CASE q # t /\ q # p
    <3>1. Holders(q)' = Holders(q)
      BY <1>0, <2>3 DEF CreateChild, TypeOK, TaskStages, WellFormed, Holders
    <3>2. jobs'[q] = jobs[q]
      BY <1>0, <2>3 DEF CreateChild, TypeOK
    <3> QED
      BY <3>1, <3>2 DEF JobsCount
  <2> QED
    BY <2>1, <2>2, <2>3
<1>4. LineageUnfinished'
  <2> SUFFICES ASSUME NEW d \in Tasks, NEW a \in lineage'[d]
               PROVE  /\ \E c \in Tasks : parent'[c] = a /\ (c = d \/ c \in lineage'[d])
                      /\ jobs'[d] # 0 => jobs'[a] # 0
    BY DEF LineageUnfinished
  <2>0. /\ lineage' = [lineage EXCEPT ![t] = {p} \cup lineage[p]]
        /\ jobs' = [jobs EXCEPT ![t] = 1, ![p] = @ + 1]
        /\ parent' = [parent EXCEPT ![t] = p]
        /\ parent[t] = NoTask
    BY DEF CreateChild, TypeOK, WellFormed
  <2>1. CASE d = t /\ a = p
    BY <1>0, <2>0, <2>1 DEF TypeOK
  <2>2. CASE d = t /\ a # p
    <3>1. a \in lineage[p] /\ a \in Tasks
      BY <1>0, <2>0, <2>2 DEF TypeOK
    <3>2. PICK c \in Tasks : parent[c] = a /\ (c = p \/ c \in lineage[p])
      BY <1>0, <3>1 DEF LineageUnfinished
    <3>3. parent'[c] = a /\ c \in lineage'[d]
      BY <1>0, <2>0, <2>2, <3>1, <3>2 DEF TypeOK
    <3>4. jobs[a] # 0
      BY <1>0, <3>1 DEF LineageUnfinished
    <3> QED
      BY <1>0, <2>0, <3>1, <3>3, <3>4 DEF TypeOK
  <2>3. CASE d # t
    <3>1. a \in lineage[d] /\ a \in Tasks /\ lineage'[d] = lineage[d]
      BY <2>0, <2>3 DEF TypeOK
    <3>2. PICK c \in Tasks : parent[c] = a /\ (c = d \/ c \in lineage[d])
      BY <3>1 DEF LineageUnfinished
    <3>3. parent'[c] = a
      BY <2>0, <3>1, <3>2 DEF TypeOK
    <3>4. jobs[d] # 0 => jobs[a] # 0
      BY <3>1 DEF LineageUnfinished
    <3>5. jobs'[d] # 0 => jobs'[a] # 0
      BY <1>0, <2>0, <2>3, <3>1, <3>4 DEF TypeOK
    <3> QED
      BY <3>1, <3>2, <3>3, <3>5
  <2> QED
    BY <2>1, <2>2, <2>3
<1> QED
  BY <1>1, <1>2, <1>3, <1>4

\* Most steps move no unit: they change the stage of a frame only.
LEMMA QuietStep ==
  ASSUME JobsCount, LineageUnfinished, UNCHANGED <<jobs, parent, lineage>>,
         \A p \in Tasks : Holders(p)' = Holders(p)
  PROVE  JobsCount' /\ LineageUnfinished'
BY DEF JobsCount, LineageUnfinished

\* PushTask publishes a task and moves no unit.
LEMMA PushTaskIInv ==
  ASSUME IInv, NEW w \in Workers, NEW t \in Tasks, PushTask(w, t)
  PROVE  IInv'
<1> USE TaskTreeAssumption DEF IInv, Frames, PushTask
<1>1. TypeOK'
  BY DEF TypeOK, TaskStages
<1>2. WellFormed'
  BY DEF TypeOK, TaskStages, WellFormed
<1>3. \A p \in Tasks : Holders(p)' = Holders(p)
  BY DEF TypeOK, TaskStages, Holders
<1> QED
  BY <1>1, <1>2, <1>3, QuietStep

\* Starting a task, whether by RunTask or by ExecuteOneTask.
LEMMA EnterIInv ==
  ASSUME IInv, NEW w \in Workers, NEW t \in Tasks, NEW resume,
         at[t] \in {"created", "pushed"},
         \/ at[top[w]] = "body" /\ resume = "body"
         \/ at[top[w]] = "help" /\ resume = "wait"
         \/ at[top[w]] = "loop" /\ resume = "loop",
         Enter(w, t, resume)
  PROVE  IInv'
<1> USE TaskTreeAssumption DEF IInv, Frames, Enter
<1>1. TypeOK'
  BY DEF TypeOK, TaskStages
<1>2. WellFormed'
  BY DEF TypeOK, TaskStages, WellFormed
<1>3. \A p \in Tasks : Holders(p)' = Holders(p)
  BY DEF TypeOK, TaskStages, Holders
<1> QED
  BY <1>1, <1>2, <1>3, QuietStep

\* RunTask puts a frame on the caller's stack and moves no unit.
LEMMA RunTaskIInv ==
  ASSUME IInv, NEW w \in Workers, NEW t \in Tasks, RunTask(w, t)
  PROVE  IInv'
BY EnterIInv DEF RunTask

\* ExecuteOneTask starts a pushed task and moves no unit.
LEMMA ExecuteOneTaskIInv ==
  ASSUME IInv, NEW w \in Workers, ExecuteOneTask(w)
  PROVE  IInv'
<1>1. PICK t \in Tasks : /\ at[t] = "pushed"
                         /\ Enter(w, t, IF at[top[w]] = "help" THEN "wait" ELSE "loop")
  BY DEF ExecuteOneTask
<1>2. CASE at[top[w]] = "help"
  BY <1>1, <1>2, EnterIInv
<1>3. CASE at[top[w]] = "loop"
  BY <1>1, <1>3, EnterIInv
<1> QED
  BY <1>2, <1>3 DEF ExecuteOneTask

\* Entering Wait moves no unit.
LEMMA WaitIInv ==
  ASSUME IInv, NEW w \in Workers, NEW t \in Tasks, Wait(w, t)
  PROVE  IInv'
<1> USE TaskTreeAssumption DEF IInv, Frames, Wait
<1>1. TypeOK'
  BY DEF TypeOK, TaskStages
<1>2. WellFormed'
  BY DEF TypeOK, TaskStages, WellFormed
<1>3. \A p \in Tasks : Holders(p)' = Holders(p)
  BY DEF TypeOK, TaskStages, Holders
<1> QED
  BY <1>1, <1>2, <1>3, QuietStep

\* Reading the counter in Wait's condition moves no unit.
LEMMA WaitCheckIInv ==
  ASSUME IInv, NEW w \in Workers, WaitCheck(w)
  PROVE  IInv'
<1> USE TaskTreeAssumption DEF IInv, Frames, WaitCheck
<1>1. TypeOK'
  BY DEF TypeOK, TaskStages
<1>2. WellFormed'
  BY DEF TypeOK, TaskStages, WellFormed
<1>3. \A p \in Tasks : Holders(p)' = Holders(p)
  BY DEF TypeOK, TaskStages, Holders
<1> QED
  BY <1>1, <1>2, <1>3, QuietStep

\* An ExecuteOneTask that finds nothing moves no unit.
LEMMA ExecuteNothingIInv ==
  ASSUME IInv, NEW w \in Workers, ExecuteNothing(w)
  PROVE  IInv'
<1> USE TaskTreeAssumption DEF IInv, Frames, ExecuteNothing
<1>1. TypeOK'
  BY DEF TypeOK, TaskStages
<1>2. WellFormed'
  BY DEF TypeOK, TaskStages, WellFormed
<1>3. \A p \in Tasks : Holders(p)' = Holders(p)
  BY DEF TypeOK, TaskStages, Holders
<1> QED
  BY <1>1, <1>2, <1>3, QuietStep

\* The unit a body holds passes from its running stage to its count-down.
LEMMA BodyReturnsIInv ==
  ASSUME IInv, NEW w \in Workers, BodyReturns(w)
  PROVE  IInv'
<1> USE TaskTreeAssumption DEF IInv, Frames, BodyReturns
<1>1. TypeOK'
  BY DEF TypeOK, TaskStages
<1>2. WellFormed'
  BY DEF TypeOK, TaskStages, WellFormed
<1>3. \A p \in Tasks : Holders(p)' = Holders(p)
  BY DEF TypeOK, TaskStages, Holders
<1> QED
  BY <1>1, <1>2, <1>3, QuietStep

\* The frame counting down holds a unit of the counter it is about to lower.
LEMMA CountDownFacts ==
  ASSUME IInv, NEW w \in Workers, CountDown(w)
  PROVE  /\ top[w] \in Tasks
         /\ target[top[w]] \in Tasks
         /\ top[w] \in Holders(target[top[w]])
         /\ jobs[target[top[w]]] \in Nat \ {0}
<1> USE TaskTreeAssumption DEF IInv, Frames
<1>1. top[w] \in Tasks /\ at[top[w]] = "count"
  BY DEF CountDown, TypeOK, WellFormed
<1>2. target[top[w]] \in Tasks
  BY <1>1 DEF TypeOK, WellFormed
<1>3. top[w] \in Holders(target[top[w]])
  BY <1>1, <1>2 DEF Holders
<1> QED
  BY <1>1, <1>2, <1>3, HolderPositive

\* One turn of the count-down loop: a unit leaves the counter together with its
\* holder, and the last one takes the finished task's unit of the parent over.
LEMMA CountDownIInv ==
  ASSUME IInv, NEW w \in Workers, CountDown(w)
  PROVE  IInv'
<1> USE TaskTreeAssumption DEF IInv, Frames
<1>0. PICK f \in Tasks, it \in Tasks : f = top[w] /\ it = target[f]
  BY CountDownFacts
<1>1. /\ at[f] = "count" /\ f \in Holders(it)
      /\ jobs[it] \in Nat /\ jobs[it] > 0
      /\ it # f => jobs[f] = 0
  <2>1. at[f] = "count" /\ f \in Holders(it) /\ jobs[it] \in Nat \ {0}
    BY <1>0, CountDownFacts DEF CountDown
  <2> QED
    BY <1>0, <2>1 DEF WellFormed
<1>1a. /\ jobs' = [jobs EXCEPT ![it] = jobs[it] - 1]
      /\ parent' = parent /\ maker' = maker /\ lineage' = lineage
      /\ \/ /\ jobs[it] - 1 # 0 \/ parent[it] = NoTask
            /\ at' = [at EXCEPT ![f] = "done"]
            /\ top' = [top EXCEPT ![w] = below[f]]
            /\ below' = [below EXCEPT ![f] = NoTask]
            /\ target' = [target EXCEPT ![f] = NoTask]
         \/ /\ jobs[it] - 1 = 0 /\ parent[it] # NoTask
            /\ target' = [target EXCEPT ![f] = parent[it]]
            /\ at' = at /\ top' = top /\ below' = below
  BY <1>0 DEF CountDown
<1>2. jobs'[it] = jobs[it] - 1 /\ \A q \in Tasks : q # it => jobs'[q] = jobs[q]
  BY <1>0, <1>1, <1>1a DEF TypeOK
<1>3. LineageUnfinished'
  <2> SUFFICES ASSUME NEW d \in Tasks, NEW a \in lineage[d],
                      jobs'[d] # 0, jobs'[a] = 0
               PROVE  FALSE
    BY <1>1a DEF LineageUnfinished
  <2>1. a \in Tasks
    BY DEF TypeOK
  <2>2. jobs[d] # 0
    BY <1>0, <1>1, <1>2
  <2>3. jobs[a] # 0
    BY <2>2 DEF LineageUnfinished
  <2>4. a = it /\ jobs[it] = 1
    BY <1>0, <1>1, <1>2, <2>1, <2>3
  <2>5. PICK c \in Tasks : parent[c] = it /\ (c = d \/ c \in lineage[d])
    BY <2>4 DEF LineageUnfinished
  <2>6. jobs[c] # 0
    BY <2>2, <2>5 DEF LineageUnfinished
  <2>7. c \in Holders(it)
    BY <2>5, <2>6 DEF Holders
  <2>8. c = f
    BY <1>0, <1>1, <2>4, <2>7, SingleHolder
  <2>9. c # it
    BY <1>0, <1>1, <2>5, <2>8 DEF WellFormed
  <2> QED
    BY <1>0, <1>1, <2>6, <2>8, <2>9
<1>4. CASE jobs[it] - 1 # 0 \/ parent[it] = NoTask
  <2>1. /\ at' = [at EXCEPT ![f] = "done"]
        /\ top' = [top EXCEPT ![w] = below[f]]
        /\ below' = [below EXCEPT ![f] = NoTask]
        /\ target' = [target EXCEPT ![f] = NoTask]
    BY <1>1a, <1>4
  <2>2. below[f] \in Frames
    BY <1>0, <1>1 DEF TypeOK, WellFormed
  <2>3. TypeOK'
    BY <1>0, <1>1, <1>1a, <2>1, <2>2 DEF TypeOK, TaskStages
  <2>4. WellFormed'
    BY <1>0, <1>1, <1>1a, <1>2, <2>1 DEF TypeOK, TaskStages, WellFormed
  <2>5. f \notin Holders(it)'
    BY <1>0, <1>1, <1>1a, <1>2, <2>1 DEF TypeOK, TaskStages, WellFormed, Holders
  <2>6. Holders(it)' = Holders(it) \ {f}
    BY <1>0, <1>1, <1>1a, <1>2, <2>1, <2>5 DEF TypeOK, TaskStages, WellFormed, Holders
  <2>7. ASSUME NEW q \in Tasks, q # it
        PROVE  Holders(q)' = Holders(q)
    BY <1>0, <1>1, <1>1a, <1>2, <1>4, <2>1, <2>7 DEF TypeOK, TaskStages, WellFormed, Holders
  <2>8. JobsCount'
    <3> SUFFICES ASSUME NEW q \in Tasks PROVE jobs'[q] = Cardinality(Holders(q)')
      BY DEF JobsCount
    <3>1. CASE q = it
      <4>1. IsFiniteSet(Holders(it)) /\ Cardinality(Holders(it)) = jobs[it]
        BY HoldersFinite DEF JobsCount
      <4>2. Cardinality(Holders(it) \ {f}) = Cardinality(Holders(it)) - 1
        BY <1>1, <4>1, FS_RemoveElement
      <4> QED
        BY <1>2, <2>6, <3>1, <4>1, <4>2
    <3>2. CASE q # it
      BY <1>2, <2>7, <3>2 DEF JobsCount
    <3> QED
      BY <3>1, <3>2
  <2> QED
    BY <1>3, <2>3, <2>4, <2>8
<1>5. CASE jobs[it] - 1 = 0 /\ parent[it] # NoTask
  <2>0. PICK q \in Tasks : q = parent[it]
    BY <1>5 DEF TypeOK
  <2>1. /\ target' = [target EXCEPT ![f] = q]
        /\ at' = at /\ top' = top /\ below' = below
    BY <1>1a, <1>5, <2>0
  <2>2. q \in Tasks /\ q # it /\ at[q] # "unborn"
    BY <1>0, <1>1, <1>5, <2>0 DEF TypeOK, WellFormed
  <2>3. jobs'[it] = 0
    BY <1>2, <1>5
  <2>4. it # f => it \notin {t \in Tasks : at[t] = "count" /\ target[t] = q}
    BY <1>0, <1>1, <2>2 DEF WellFormed
  <2>5. TypeOK'
    BY <1>0, <1>1, <1>1a, <2>0, <2>1, <2>2 DEF TypeOK, TaskStages
  <2>6. WellFormed'
    BY <1>0, <1>1, <1>1a, <1>2, <2>0, <2>1, <2>2, <2>3 DEF TypeOK, TaskStages, WellFormed
  <2>7. Holders(it)' = Holders(it) \ {f}
    BY <1>0, <1>1, <1>1a, <1>2, <2>0, <2>1, <2>2, <2>3 DEF TypeOK, TaskStages, WellFormed, Holders
  <2>8. it \in Holders(q)
    BY <1>0, <1>1, <2>0 DEF Holders
  <2>9. it # f => f \notin Holders(q)
    BY <1>0, <1>1, <2>2 DEF TaskStages, Holders
  <2>10. Holders(q)' = (Holders(q) \ {it}) \cup {f}
    BY <1>0, <1>1, <1>1a, <1>2, <2>0, <2>1, <2>2, <2>3, <2>4 DEF TypeOK, TaskStages, WellFormed, Holders
  <2>11. ASSUME NEW r \in Tasks, r # it, r # q
         PROVE  Holders(r)' = Holders(r)
    BY <1>0, <1>1, <1>1a, <1>2, <2>0, <2>1, <2>2, <2>3, <2>11 DEF TypeOK, TaskStages, WellFormed, Holders
  <2>12. JobsCount'
    <3> SUFFICES ASSUME NEW r \in Tasks PROVE jobs'[r] = Cardinality(Holders(r)')
      BY DEF JobsCount
    <3>1. CASE r = it
      <4>1. IsFiniteSet(Holders(it)) /\ Cardinality(Holders(it)) = jobs[it]
        BY HoldersFinite DEF JobsCount
      <4>2. Cardinality(Holders(it) \ {f}) = Cardinality(Holders(it)) - 1
        BY <1>1, <4>1, FS_RemoveElement
      <4> QED
        BY <1>2, <2>7, <3>1, <4>1, <4>2
    <3>2. CASE r = q
      <4>1. /\ IsFiniteSet(Holders(q) \ {it})
            /\ Cardinality(Holders(q) \ {it}) = Cardinality(Holders(q)) - 1
        BY <2>2, <2>8, HoldersFinite, FS_RemoveElement
      <4>2. f \notin Holders(q) \ {it}
        BY <2>9
      <4>3. Cardinality((Holders(q) \ {it}) \cup {f}) = Cardinality(Holders(q) \ {it}) + 1
        BY <4>1, <4>2, FS_AddElement
      <4>4. Cardinality(Holders(q)') = Cardinality(Holders(q))
        BY <2>10, <4>1, <4>3, HoldersFinite
      <4> QED
        BY <1>2, <2>2, <3>2, <4>4 DEF JobsCount
    <3>3. CASE r # it /\ r # q
      BY <1>2, <2>11, <3>3 DEF JobsCount
    <3> QED
      BY <3>1, <3>2, <3>3
  <2> QED
    BY <1>3, <2>5, <2>6, <2>12
<1> QED
  BY <1>0, <1>1, <1>1a, <1>4, <1>5

-----------------------------------------------------------------------------

\* Every step of every thread keeps the inductive invariant.
LEMMA NextIInv ==
  ASSUME IInv, [Next]_vars
  PROVE  IInv'
<1>1. CASE Next
  <2>1. ASSUME NEW w \in Workers, NEW t \in Tasks,
               \/ CreateTask(w, t) \/ CreateChild(w, t) \/ PushTask(w, t)
               \/ RunTask(w, t) \/ Wait(w, t)
        PROVE  IInv'
    BY <2>1, CreateTaskIInv, CreateChildIInv, PushTaskIInv, RunTaskIInv, WaitIInv
  <2>2. ASSUME NEW w \in Workers,
               \/ WaitCheck(w) \/ ExecuteOneTask(w) \/ ExecuteNothing(w)
               \/ BodyReturns(w) \/ CountDown(w)
        PROVE  IInv'
    BY <2>2, WaitCheckIInv, ExecuteOneTaskIInv, ExecuteNothingIInv,
       BodyReturnsIInv, CountDownIInv
  <2> QED
    BY <1>1, <2>1, <2>2 DEF Next
<1>2. CASE UNCHANGED vars
  BY <1>2 DEF vars, IInv, TypeOK, WellFormed, JobsCount, Holders, LineageUnfinished
<1> QED
  BY <1>1, <1>2

\* The inductive invariant of the task tree.
THEOREM Invariance == Spec => []IInv
BY InitIInv, NextIInv, PTL DEF Spec

\* Every field of every task and thread keeps its type.
THEOREM TypeCorrect == Spec => []TypeOK
<1>1. IInv => TypeOK
  BY DEF IInv
<1> QED
  BY <1>1, Invariance, PTL

\* The jobs counter always equals the number of units outstanding.
THEOREM JobsAreExact == Spec => []JobsCount
<1>1. IInv => JobsCount
  BY DEF IInv
<1> QED
  BY <1>1, Invariance, PTL

\* By LineageUnfinished an unfinished descendant keeps all its ancestors unfinished.
LEMMA FinishedTree == IInv => FinishedMeansTreeDone
<1> SUFFICES ASSUME IInv, NEW t \in Tasks, at[t] # "unborn", jobs[t] = 0,
                    NEW d \in Tasks, d = t \/ t \in lineage[d]
             PROVE  BodyDone(d)
  BY DEF FinishedMeansTreeDone, TreeDone
<1>1. jobs[d] = 0
  BY DEF IInv, LineageUnfinished
<1>2. d \notin Holders(d)
  BY <1>1, ZeroMeansNoHolder DEF IInv
<1>3. at[d] # "unborn"
  BY DEF IInv, WellFormed
<1> QED
  BY <1>2, <1>3 DEF IInv, TypeOK, TaskStages, Holders, BodyDone

\* IsFinished() of a task speaks for its whole subtree.
THEOREM FinishedIsTreeDone == Spec => []FinishedMeansTreeDone
BY FinishedTree, Invariance, PTL

\* The VERIFYs on the counter hold: it never drops below zero and never reads
\* zero while the task is still to run or on a stack.
THEOREM CountersGuarded == Spec => []RunningIsUnfinished
<1>1. ASSUME IInv PROVE RunningIsUnfinished
  <2> SUFFICES ASSUME NEW t \in Tasks
               PROVE  /\ jobs[t] >= 0
                      /\ at[t] \in {"created", "pushed", "body", "wait", "help"}
                            => jobs[t] > 0
    BY DEF RunningIsUnfinished
  <2>1. jobs[t] = Cardinality(Holders(t)) /\ Cardinality(Holders(t)) \in Nat
    BY <1>1, HoldersFinite DEF IInv, JobsCount
  <2>2. at[t] \in {"created", "pushed", "body", "wait", "help"} => t \in Holders(t)
    BY DEF Holders
  <2>3. at[t] \in {"created", "pushed", "body", "wait", "help"} => jobs[t] > 0
    BY <1>1, <2>2, HolderPositive DEF IInv
  <2> QED
    BY <2>1, <2>3
<1> QED
  BY <1>1, Invariance, PTL

\* Wait(task) returns only after task and all its descendants ran.
THEOREM WaitIsSafe == Spec => WaitReturnsAfterTree
<1>1. ASSUME IInv, [Next]_vars, NEW f \in Frames, at[f] = "wait", at'[f] = "body"
      PROVE  TreeDone(target[f])
  <2> USE DEF Frames
  <2>1. PICK w \in Workers : WaitCheck(w) /\ f = top[w]
    BY <1>1, TaskTreeAssumption
       DEF Next, vars, IInv, TypeOK, TaskStages, CreateTask, CreateChild, PushTask, RunTask,
           Wait, WaitCheck, ExecuteOneTask, ExecuteNothing, BodyReturns, CountDown, Enter
  <2>2. jobs[target[f]] = 0 /\ target[f] \in Tasks /\ at[target[f]] # "unborn"
    BY <1>1, <2>1 DEF WaitCheck, IInv, TypeOK, WellFormed
  <2> QED
    BY <1>1, <2>2, FinishedTree DEF FinishedMeansTreeDone
<1>2. IInv /\ [Next]_vars =>
        [\A f \in Frames : at[f] = "wait" /\ at'[f] = "body" => TreeDone(target[f])]_vars
  BY <1>1
<1> QED
  BY <1>2, Invariance, PTL DEF Spec, WaitReturnsAfterTree

\* A finished task stays finished: no late child, no second execution.
THEOREM FinishedStays == Spec => FinishedIsFinal
<1>1. ASSUME IInv, [Next]_vars, NEW t \in Tasks, at[t] # "unborn", jobs[t] = 0
      PROVE  jobs'[t] = 0
  <2>1. ASSUME NEW w \in Workers, NEW s \in Tasks, CreateTask(w, s)
        PROVE  jobs'[t] = 0
    BY <1>1, <2>1 DEF CreateTask, IInv, TypeOK
  <2>2. ASSUME NEW w \in Workers, NEW s \in Tasks, CreateChild(w, s)
        PROVE  jobs'[t] = 0
    <3>1. top[w] \in Tasks /\ top[w] \in Holders(top[w])
      BY <2>2 DEF CreateChild, Holders
    <3>2. jobs[top[w]] > 0
      BY <1>1, <3>1, HolderPositive DEF IInv
    <3> QED
      BY <1>1, <2>2, <3>2 DEF CreateChild, IInv, TypeOK
  <2>3. ASSUME NEW w \in Workers, CountDown(w)
        PROVE  jobs'[t] = 0
    BY <1>1, <2>3, CountDownFacts DEF CountDown, IInv, TypeOK
  <2> QED
    BY <1>1, <2>1, <2>2, <2>3
       DEF Next, vars, PushTask, RunTask, Wait, WaitCheck, ExecuteOneTask,
           ExecuteNothing, BodyReturns, Enter
<1>2. IInv /\ [Next]_vars =>
        [\A t \in Tasks : at[t] # "unborn" /\ jobs[t] = 0 => jobs'[t] = 0]_vars
  BY <1>1
<1> QED
  BY <1>2, Invariance, PTL DEF Spec, FinishedIsFinal

-----------------------------------------------------------------------------
(* No thread waits for another in a circle.  A waiting thread runs foreign *)
(* tasks on top of the waiting frame, so who waits for whom is read off    *)
(* the stacks: the youngest unfinished task is never waited for in vain,   *)
(* because a frame waits only for tasks it made, and those are younger     *)
(* than every frame at or under it.                                        *)

\* The stages of a frame that lies on the stack of a thread.
OnStack(f) == at[f] \in {"body", "wait", "help", "count", "loop"}

\* Every frame on a stack has a thread and a depth of its own there; only the
\* frame on top counts down or looks for work in a Wait.
Stacks(owner, depth) ==
    /\ owner \in [Frames -> Workers] /\ depth \in [Frames -> Nat]
    /\ \A w \in Workers : owner[w] = w /\ depth[w] = 0 /\ OnStack(top[w]) /\ owner[top[w]] = w
    /\ \A t \in Tasks : OnStack(t) =>
          OnStack(below[t]) /\ owner[below[t]] = owner[t] /\ depth[t] = depth[below[t]] + 1
    /\ \A f, g \in Frames : OnStack(f) /\ OnStack(g) /\ owner[f] = owner[g] /\ depth[f] = depth[g] => f = g
    /\ \A f \in Frames : OnStack(f) =>
          /\ depth[f] <= depth[top[owner[f]]]
          /\ f # top[owner[f]] => at[f] \in {"body", "wait", "loop"}

\* Who made a task: its parent if it has one, the frame that waits for it, and a
\* body that is still going on as long as the task is not published.
Makers ==
    /\ \A t \in Tasks :
          /\ at[t] # "unborn" => maker[t] \in Frames
          /\ at[t] \in {"unborn", "created", "pushed"} => \A x \in Tasks : maker[x] # t
          /\ at[t] = "created" => at[maker[t]] \in {"body", "wait", "help"}
          /\ parent[t] # NoTask => parent[t] = maker[t]
    /\ \A f \in Frames : at[f] \in {"wait", "help"} => maker[target[f]] = f

\* born orders the tasks by their creation: a task is younger than its parent,
\* and than every frame at or under its maker's on the stack.
Ages(owner, depth, born, now) ==
    /\ now \in Nat /\ born \in [Frames -> Nat]
    /\ \A f \in Frames : born[f] < now
    /\ \A t \in Tasks : parent[t] # NoTask => born[parent[t]] < born[t]
    /\ \A t \in Tasks, f \in Frames :
          /\ at[t] # "unborn"
          /\ OnStack(f) /\ OnStack(maker[t])
          /\ owner[f] = owner[maker[t]] /\ depth[f] <= depth[maker[t]]
          => born[f] < born[t]

Aged(owner, depth) == \E now, born : Ages(owner, depth, born, now)
StackInv == Makers /\ \E owner, depth : Stacks(owner, depth) /\ Aged(owner, depth)

\* Among finitely many tasks with a date of birth one is the youngest.
LEMMA Youngest ==
  ASSUME NEW S \in SUBSET Tasks, S # {}, NEW born \in [Frames -> Nat]
  PROVE  \E x \in S : \A y \in S : born[y] <= born[x]
<1> DEFINE Younger(x) == {y \in S : born[y] > born[x]}
           Sets == {Younger(x) : x \in S}
<1>1. IsFiniteSet(S)
  BY FS_Subset, TaskTreeAssumption
<1>2. Sets \subseteq FiniteSubsetsOf(S)
  <2> SUFFICES ASSUME NEW x \in S PROVE Younger(x) \in FiniteSubsetsOf(S)
    OBVIOUS
  <2>1. Younger(x) \in SUBSET S
    OBVIOUS
  <2> QED
    BY <1>1, <2>1, FS_Subset DEF FiniteSubsetsOf
<1>3. Sets # {}
  OBVIOUS
<1>4. IsWellFoundedOn(StrictSubsetOrdering(S), FiniteSubsetsOf(S))
  BY FS_StrictSubsetOrderingWellFounded
<1>5. PICK U \in Sets : \A V \in Sets : ~ (<<V, U>> \in StrictSubsetOrdering(S))
  <2> HIDE DEF Sets
  <2> QED
    BY <1>2, <1>3, <1>4, WFMin
<1>6. PICK x \in S : U = Younger(x)
  BY <1>5
<1>7. ASSUME NEW y \in S, born[y] > born[x]
      PROVE  FALSE
  <2>1. Younger(y) \in Sets /\ Younger(y) \subseteq S /\ U \subseteq S
    BY <1>6
  <2>2. Younger(y) \subseteq U /\ y \in U /\ y \notin Younger(y)
    BY <1>6, <1>7 DEF Frames
  <2> QED
    BY <1>5, <2>1, <2>2 DEF StrictSubsetOrdering
<1>8. \A y \in S : born[y] \in Nat /\ born[x] \in Nat
  BY DEF Frames
<1> QED
  BY <1>7, <1>8

\* When no task can be taken, no body and no count-down is going on and nobody on
\* top of a stack can leave its Wait, nobody waits for an unfinished task.
LEMMA NoCircle == IInv /\ StackInv => NoCircularWait
<1> SUFFICES ASSUME IInv, StackInv,
                    \E f \in Frames : at[f] \in {"wait", "help"} /\ jobs[target[f]] # 0,
                    ~ \E t \in Tasks : at[t] = "pushed",
                    ~ \E w \in Workers : at[top[w]] \in {"body", "count"},
                    ~ \E w \in Workers : at[top[w]] \in {"wait", "help"} /\ jobs[target[top[w]]] = 0
             PROVE  FALSE
  BY DEF NoCircularWait
<1> USE TaskTreeAssumption DEF Frames
<1>1. PICK owner, depth : Stacks(owner, depth) /\ Aged(owner, depth)
  BY DEF StackInv
<1>2. PICK now, born : Ages(owner, depth, born, now)
  BY <1>1 DEF Aged
<1> DEFINE S == {t \in Tasks : jobs[t] # 0 /\ at[t] \notin {"unborn", "created"}}
<1>3. S # {}
  BY DEF IInv, TypeOK, WellFormed
<1>4. PICK x \in S : \A y \in S : born[y] <= born[x]
  <2> HIDE DEF S
  <2>1. S \in SUBSET Tasks
    BY DEF S
  <2> QED
    BY <1>2, <1>3, <2>1, Youngest DEF Ages
<1>5. x \in Tasks /\ jobs[x] # 0 /\ at[x] \notin {"unborn", "created", "pushed"}
  OBVIOUS
<1>6. PICK h \in Tasks : h \in Holders(x)
  <2>1. IsFiniteSet(Holders(x)) /\ Holders(x) \subseteq Tasks
    BY <1>5, HoldersFinite DEF Holders
  <2>2. Holders(x) # {}
    BY <1>5, <2>1, FS_EmptySet DEF IInv, JobsCount
  <2> QED
    BY <2>1, <2>2
<1>7. \A f \in Frames : OnStack(f) => at[f] # "count"
  <2> SUFFICES ASSUME NEW f \in Frames, OnStack(f), at[f] = "count" PROVE FALSE
    OBVIOUS
  <2>1. owner[f] \in Workers /\ f = top[owner[f]]
    BY <1>1 DEF Stacks
  <2> QED
    BY <2>1
<1>8. at[x] \in {"body", "wait", "help"}
  <2>1. CASE h = x /\ at[h] \in {"created", "pushed", "body", "wait", "help"}
    BY <1>5, <2>1
  <2>2. CASE parent[h] = x /\ jobs[h] # 0
    <3>1. born[x] < born[h] /\ at[h] # "unborn"
      BY <1>2, <1>5, <2>2 DEF Ages, IInv, WellFormed
    <3>2. at[h] = "created"
      <4>1. h \notin S
        BY <1>2, <1>4, <3>1 DEF Ages
      <4> QED
        BY <2>2, <3>1, <4>1
    <3>3. maker[h] = x
      BY <1>5, <2>2 DEF StackInv, Makers
    <3> QED
      BY <3>2, <3>3 DEF StackInv, Makers
  <2>3. CASE at[h] = "count" /\ target[h] = x
    BY <1>7, <2>3 DEF OnStack
  <2> QED
    BY <1>6, <2>1, <2>2, <2>3 DEF Holders
<1> DEFINE w == owner[x]
           y == top[w]
<1>9. /\ w \in Workers /\ y \in Frames /\ OnStack(x) /\ OnStack(y) /\ owner[y] = w
      /\ depth[x] <= depth[y] /\ (x = y \/ at[x] # "loop")
  BY <1>1, <1>5, <1>8 DEF Stacks, OnStack, IInv, TypeOK
<1>10. at[y] \in {"wait", "help"}
  <2>1. y \in Tasks => at[y] # "loop"
    BY DEF IInv, TypeOK, TaskStages
  <2>2. y \in Workers => y = x
    BY <1>1, <1>9 DEF Stacks
  <2> QED
    BY <1>5, <1>8, <1>9, <2>1, <2>2 DEF OnStack
<1>11. PICK z \in Tasks : /\ z = target[y] /\ jobs[z] # 0 /\ maker[z] = y
                           /\ at[z] \notin {"unborn", "created"}
  <2>1. target[y] \in Tasks /\ at[target[y]] \notin {"unborn", "created"}
    BY <1>9, <1>10 DEF IInv, TypeOK, WellFormed
  <2>2. maker[target[y]] = y
    BY <1>9, <1>10 DEF StackInv, Makers
  <2>3. jobs[target[y]] # 0
    BY <1>9, <1>10
  <2> QED
    BY <2>1, <2>2, <2>3
<1>12. born[x] < born[z]
  BY <1>2, <1>5, <1>9, <1>11 DEF Ages
<1>13. born[z] <= born[x]
  BY <1>4, <1>11
<1>14. born[x] \in Nat /\ born[z] \in Nat
  BY <1>2, <1>5 DEF Ages
<1> QED
  BY <1>12, <1>13, <1>14

\* Before the first step every thread's stack is its bottom frame.
LEMMA InitStack == Init => StackInv
<1> SUFFICES ASSUME Init PROVE StackInv
  OBVIOUS
<1> USE TaskTreeAssumption DEF Init, Frames
<1> DEFINE owner == [f \in Frames |-> IF f \in Workers THEN f ELSE Main]
           depth == [f \in Frames |-> 0]
           born  == [f \in Frames |-> 0]
<1>1. Stacks(owner, depth)
  BY DEF Stacks, OnStack
<1>2. Ages(owner, depth, born, 1)
  BY DEF Ages
<1>3. Makers
  BY DEF Makers
<1> HIDE DEF owner, depth, born
<1> QED
  BY <1>1, <1>2, <1>3 DEF StackInv, Aged

\* A step that changes no stack and makes no task: the orders stay as they are.
LEMMA SameStacks ==
  ASSUME IInv, StackInv, Makers', UNCHANGED <<parent, maker, top, below>>, NEW w \in Workers,
         \A f \in Frames : OnStack(f)' <=> OnStack(f),
         \A f \in Frames : OnStack(f) /\ f # top[w] => at'[f] = at[f],
         \A t \in Tasks : at'[t] # "unborn" => at[t] # "unborn"
  PROVE  StackInv'
<1> USE TaskTreeAssumption DEF Frames
<1>1. PICK owner, depth : Stacks(owner, depth) /\ Aged(owner, depth)
  BY DEF StackInv
<1>2. PICK now, born : Ages(owner, depth, born, now)
  BY <1>1 DEF Aged
<1>3. ASSUME NEW t \in Tasks, at[t] # "unborn" PROVE maker[t] \in Frames
  BY <1>3 DEF StackInv, Makers
<1>4. Stacks(owner, depth)'
  <2>1. \A v \in Workers : top[v] \in Frames
    BY DEF IInv, TypeOK
  <2>2. \A v \in Workers : OnStack(top[v])'
    BY <1>1, <2>1 DEF Stacks
  <2>3. ASSUME NEW t \in Tasks, OnStack(t)
        PROVE  OnStack(below[t])'
    <3>1. OnStack(below[t]) /\ below[t] \in Frames
      BY <1>1, <2>3 DEF Stacks, IInv, TypeOK, WellFormed, TaskStages, OnStack
    <3> QED
      BY <3>1
  <2>4. ASSUME NEW f \in Frames, OnStack(f), f # top[owner[f]]
        PROVE  at'[f] \in {"body", "wait", "loop"}
    <3>1. f # top[w]
      BY <1>1, <2>4 DEF Stacks
    <3> QED
      BY <1>1, <2>4, <3>1 DEF Stacks
  <2> QED
    BY <1>1, <2>2, <2>3, <2>4 DEF Stacks
<1>5. Ages(owner, depth, born, now)'
  BY <1>2, <1>3 DEF Ages
<1> QED
  BY <1>4, <1>5 DEF StackInv, Aged

\* PushTask publishes what the body made.
LEMMA PushTaskStack ==
  ASSUME IInv, StackInv, NEW w \in Workers, NEW t \in Tasks, PushTask(w, t)
  PROVE  StackInv'
<1> USE TaskTreeAssumption DEF Frames, PushTask
<1>1. Makers'
  BY DEF IInv, TypeOK, StackInv, Makers
<1>2. /\ \A f \in Frames : OnStack(f)' <=> OnStack(f)
      /\ \A f \in Frames : OnStack(f) => at'[f] = at[f]
  BY DEF IInv, TypeOK, OnStack
<1>3. \A f \in Tasks : at'[f] # "unborn" => at[f] # "unborn"
  BY DEF IInv, TypeOK
<1> QED
  BY <1>1, <1>2, <1>3, SameStacks

\* A step of the frame on top of a stack that stays there: entering Wait, its
\* condition, an attempt that finds nothing, the end of a body.
LEMMA TopStack ==
  ASSUME IInv, StackInv, NEW w \in Workers, NEW stage,
         OnStack(top[w]), stage \in {"body", "wait", "help", "count"},
         at' = [at EXCEPT ![top[w]] = stage],
         UNCHANGED <<parent, maker, top, below>>,
         stage = "count" => \A t \in Tasks : maker[t] = top[w] => at[t] # "created",
         \A f \in Frames : f # top[w] => target'[f] = target[f],
         stage \in {"wait", "help"} => maker[target'[top[w]]] = top[w],
         at[top[w]] # "loop"
  PROVE  StackInv'
<1> USE TaskTreeAssumption DEF Frames
<1>0. top[w] \in Frames /\ at \in [Frames -> TaskStages \cup {"loop"}]
  BY DEF IInv, TypeOK
<1>1. /\ \A f \in Frames : OnStack(f)' <=> OnStack(f)
      /\ \A f \in Frames : f # top[w] => at'[f] = at[f]
      /\ at'[top[w]] = stage
  BY <1>0 DEF OnStack
<1>2. Makers'
  <2>1. ASSUME NEW t \in Tasks
        PROVE  /\ at'[t] # "unborn" => maker[t] \in Frames
               /\ at'[t] \in {"unborn", "created", "pushed"} => \A x \in Tasks : maker[x] # t
               /\ at'[t] = "created" => at'[maker[t]] \in {"body", "wait", "help"}
               /\ parent[t] # NoTask => parent[t] = maker[t]
    BY <1>0, <1>1 DEF StackInv, Makers, OnStack
  <2>2. ASSUME NEW f \in Frames, at'[f] \in {"wait", "help"} PROVE maker[target'[f]] = f
    BY <1>0, <1>1, <2>2 DEF StackInv, Makers
  <2> QED
    BY <2>1, <2>2 DEF Makers
<1>3. \A t \in Tasks : at'[t] # "unborn" => at[t] # "unborn"
  BY <1>1 DEF OnStack
<1> QED
  BY <1>1, <1>2, <1>3, SameStacks

\* A new task is the youngest of all.
LEMMA CreateStack ==
  ASSUME IInv, StackInv, NEW w \in Workers, NEW t \in Tasks,
         CreateTask(w, t) \/ CreateChild(w, t)
  PROVE  StackInv'
<1> USE TaskTreeAssumption DEF Frames
<1>0. /\ at[top[w]] = "body" /\ at[t] = "unborn" /\ top[w] \in Frames /\ top[w] # t
      /\ maker' = [maker EXCEPT ![t] = top[w]] /\ at' = [at EXCEPT ![t] = "created"]
      /\ \/ parent' = parent
         \/ top[w] \in Tasks /\ parent' = [parent EXCEPT ![t] = top[w]]
      /\ UNCHANGED <<target, top, below>>
      /\ at \in [Frames -> TaskStages \cup {"loop"}]
      /\ maker \in [Tasks -> Frames \cup {NoTask}] /\ parent \in [Tasks -> Tasks \cup {NoTask}]
      /\ parent[t] = NoTask
  BY DEF CreateTask, CreateChild, IInv, TypeOK, WellFormed
<1>1. PICK owner, depth : Stacks(owner, depth) /\ Aged(owner, depth)
  BY DEF StackInv
<1>2. PICK now, born : Ages(owner, depth, born, now)
  BY <1>1 DEF Aged
<1>3. /\ \A f \in Frames : OnStack(f)' <=> OnStack(f)
      /\ \A f \in Frames : f # t => at'[f] = at[f]
      /\ ~OnStack(t) /\ OnStack(top[w]) /\ at'[t] = "created"
  BY <1>0 DEF OnStack
<1>4. Makers'
  <2>1. ASSUME NEW u \in Tasks
        PROVE  /\ at'[u] # "unborn" => maker'[u] \in Frames
               /\ at'[u] \in {"unborn", "created", "pushed"} => \A x \in Tasks : maker'[x] # u
               /\ at'[u] = "created" => at'[maker'[u]] \in {"body", "wait", "help"}
               /\ parent'[u] # NoTask => parent'[u] = maker'[u]
    <3>1. CASE u = t
      BY <1>0, <1>3, <3>1 DEF StackInv, Makers
    <3>2. CASE u # t
      <4>1. /\ at'[u] = at[u] /\ maker'[u] = maker[u] /\ parent'[u] = parent[u]
            /\ at[u] # "unborn" => maker[u] \in Frames
        BY <1>0, <1>3, <3>2 DEF StackInv, Makers
      <4>2. at[u] \in {"unborn", "created", "pushed"} => u # top[w]
        BY <1>0
      <4>3. at[u] = "created" => maker[u] # t
        BY <1>0, <4>1 DEF StackInv, Makers
      <4> QED
        BY <1>0, <1>3, <4>1, <4>2, <4>3 DEF StackInv, Makers
    <3> QED
      BY <3>1, <3>2
  <2>2. ASSUME NEW f \in Frames, at'[f] \in {"wait", "help"} PROVE maker'[target'[f]] = f
    <3>1. /\ at[f] \in {"wait", "help"} /\ maker[target[f]] = f
          /\ target[f] # t
      BY <1>0, <1>3, <2>2 DEF StackInv, Makers, IInv, WellFormed
    <3> QED
      BY <1>0, <2>2, <3>1 DEF IInv, TypeOK, WellFormed
  <2> QED
    BY <2>1, <2>2 DEF Makers
<1>5. Stacks(owner, depth)'
  <2>1. \A v \in Workers : top[v] \in Frames
    BY DEF IInv, TypeOK
  <2>2. \A v \in Workers : OnStack(top[v])'
    BY <1>0, <1>1, <1>3, <2>1 DEF Stacks
  <2>3. ASSUME NEW u \in Tasks, OnStack(u)
        PROVE  OnStack(below[u])'
    <3>1. OnStack(below[u]) /\ below[u] \in Frames
      BY <1>1, <2>3 DEF Stacks, IInv, TypeOK, WellFormed, TaskStages, OnStack
    <3> QED
      BY <1>0, <1>3, <3>1
  <2> QED
    BY <1>0, <1>1, <1>3, <2>2, <2>3 DEF Stacks
<1> DEFINE born1 == [born EXCEPT ![t] = now]
<1>6. Ages(owner, depth, born1, now + 1)'
  <2>1. /\ now \in Nat /\ now + 1 \in Nat /\ born1 \in [Frames -> Nat] /\ born1[t] = now
        /\ \A f \in Frames : f # t => born1[f] = born[f]
        /\ \A f \in Frames : born[f] < now /\ born[f] \in Nat
    BY <1>2 DEF Ages
  <2>2. \A f \in Frames : born1[f] < now + 1
    BY <2>1
  <2>3. ASSUME NEW u \in Tasks, parent'[u] # NoTask PROVE born1[parent'[u]] < born1[u]
    <3>1. CASE u = t
      BY <1>0, <2>1, <2>3, <3>1
    <3>2. CASE u # t
      <4>1. parent'[u] = parent[u] /\ parent[u] \in Tasks /\ parent[u] # t
        BY <1>0, <2>3, <3>2 DEF IInv, WellFormed
      <4> QED
        BY <1>2, <2>1, <3>2, <4>1 DEF Ages
    <3> QED
      BY <3>1, <3>2
  <2>4. ASSUME NEW u \in Tasks, NEW f \in Frames, at'[u] # "unborn",
               OnStack(f)', OnStack(maker[u])',
               owner[f] = owner[maker'[u]], depth[f] <= depth[maker'[u]]
        PROVE  born1[f] < born1[u]
    <3>0. OnStack(f) /\ f # t
      BY <1>3, <2>4
    <3>1. CASE u = t
      BY <2>1, <3>0, <3>1
    <3>2. CASE u # t
      <4>1. /\ at[u] # "unborn" /\ maker'[u] = maker[u] /\ maker[u] \in Frames
        BY <1>0, <1>3, <2>4, <3>2 DEF StackInv, Makers
      <4>2. OnStack(maker[u])
        BY <1>3, <2>4, <4>1
      <4> QED
        BY <1>2, <2>1, <2>4, <3>0, <3>2, <4>1, <4>2 DEF Ages
    <3> QED
      BY <3>1, <3>2
  <2> HIDE DEF born1
  <2> QED
    BY <2>1, <2>2, <2>3, <2>4 DEF Ages
<1> HIDE DEF born1
<1> QED
  BY <1>4, <1>5, <1>6 DEF StackInv, Aged

\* A task that starts lies on top of its thread's stack, and has made nothing yet.
LEMMA EnterStack ==
  ASSUME IInv, StackInv, NEW w \in Workers, NEW t \in Tasks, NEW resume,
         at[t] \in {"created", "pushed"},
         \/ at[top[w]] = "body" /\ resume = "body"
         \/ at[top[w]] = "help" /\ resume = "wait"
         \/ at[top[w]] = "loop" /\ resume = "loop",
         Enter(w, t, resume)
  PROVE  StackInv'
<1> USE TaskTreeAssumption DEF Frames
<1>0. /\ top[w] \in Frames /\ top[w] # t /\ t \notin Workers
      /\ at' = [at EXCEPT ![t] = "body", ![top[w]] = resume]
      /\ below' = [below EXCEPT ![t] = top[w]]
      /\ top' = [top EXCEPT ![w] = t]
      /\ UNCHANGED <<parent, maker, target>>
      /\ at \in [Frames -> TaskStages \cup {"loop"}] /\ top \in [Workers -> Frames]
      /\ below \in [Tasks -> Frames \cup {NoTask}]
  BY DEF Enter, IInv, TypeOK
<1>1. PICK owner, depth : Stacks(owner, depth) /\ Aged(owner, depth)
  BY DEF StackInv
<1>2. PICK now, born : Ages(owner, depth, born, now)
  BY <1>1 DEF Aged
<1>3. /\ \A f \in Frames : OnStack(f)' <=> (OnStack(f) \/ f = t)
      /\ \A f \in Frames : f # t /\ f # top[w] => at'[f] = at[f]
      /\ ~OnStack(t) /\ OnStack(top[w]) /\ at'[t] = "body" /\ at'[top[w]] = resume
  BY <1>0 DEF OnStack
<1>4. /\ \A x \in Tasks : maker[x] # t
      /\ \A x \in Tasks : at'[x] # "unborn" => at[x] # "unborn"
  BY <1>0, <1>3 DEF StackInv, Makers
<1>5. Makers'
  <2>1. ASSUME NEW u \in Tasks
        PROVE  /\ at'[u] # "unborn" => maker[u] \in Frames
               /\ at'[u] \in {"unborn", "created", "pushed"} => \A x \in Tasks : maker[x] # u
               /\ at'[u] = "created" => at'[maker[u]] \in {"body", "wait", "help"}
               /\ parent[u] # NoTask => parent[u] = maker[u]
    <3>1. at'[u] \in {"unborn", "created", "pushed"} => u # t /\ at'[u] = at[u]
      BY <1>0, <1>3
    <3> QED
      BY <1>0, <1>3, <1>4, <3>1 DEF StackInv, Makers
  <2>2. ASSUME NEW f \in Frames, at'[f] \in {"wait", "help"} PROVE maker[target[f]] = f
    BY <1>0, <1>3, <2>2 DEF StackInv, Makers
  <2> QED
    BY <1>0, <2>1, <2>2 DEF Makers
<1>6. PICK owner1, depth1 :
      /\ owner1 \in [Frames -> Workers] /\ depth1 \in [Frames -> Nat]
      /\ owner1[t] = w /\ depth1[t] = depth[top[w]] + 1
      /\ \A f \in Frames : f # t => owner1[f] = owner[f] /\ depth1[f] = depth[f]
      /\ \A f \in Frames : depth[f] \in Nat
      /\ owner[top[w]] = w
  <2>1. owner \in [Frames -> Workers] /\ depth \in [Frames -> Nat] /\ owner[top[w]] = w
    BY <1>1 DEF Stacks
  <2>2. top[w] \in Frames
    BY <1>0
  <2>3. depth[top[w]] + 1 \in Nat
    BY <2>1, <2>2
  <2> DEFINE o == [owner EXCEPT ![t] = w]
             d == [depth EXCEPT ![t] = depth[top[w]] + 1]
  <2>4. o \in [Frames -> Workers] /\ o[t] = w /\ \A f \in Frames : f # t => o[f] = owner[f]
    BY <2>1
  <2>5. /\ d \in [Frames -> Nat] /\ d[t] = depth[top[w]] + 1
        /\ \A f \in Frames : f # t => d[f] = depth[f]
    BY <2>1, <2>3
  <2>6. \A f \in Frames : depth[f] \in Nat
    BY <2>1
  <2> HIDE DEF o, d
  <2> QED
    BY <2>1, <2>4, <2>5, <2>6
<1>7. Stacks(owner1, depth1)'
  <2>1. ASSUME NEW v \in Workers
        PROVE  owner1[v] = v /\ depth1[v] = 0 /\ OnStack(top[v])' /\ owner1[top'[v]] = v
    <3>1. CASE v = w
      BY <1>0, <1>1, <1>3, <1>6, <3>1 DEF Stacks
    <3>2. CASE v # w
      <4>1. top'[v] = top[v] /\ top[v] \in Frames /\ OnStack(top[v]) /\ top[v] # t
        BY <1>0, <1>1, <1>3, <3>2 DEF Stacks
      <4> QED
        BY <1>0, <1>1, <1>3, <1>6, <4>1 DEF Stacks
    <3> QED
      BY <3>1, <3>2
  <2>2. ASSUME NEW u \in Tasks, OnStack(u)'
        PROVE  OnStack(below[u])' /\ owner1[below'[u]] = owner1[u] /\ depth1[u] = depth1[below'[u]] + 1
    <3>1. CASE u = t
      <4>1. below'[u] = top[w] /\ OnStack(top[w])'
        BY <1>0, <1>3, <3>1
      <4>2. OnStack(below[u])'
        BY <1>0, <1>3, <4>1 DEF OnStack
      <4> QED
        BY <1>0, <1>6, <3>1, <4>1, <4>2
    <3>2. CASE u # t
      <4>0. below'[u] = below[u] /\ OnStack(u)
        BY <1>0, <1>3, <2>2, <3>2
      <4>a. below[u] # NoTask
        BY <4>0 DEF IInv, TypeOK, WellFormed, TaskStages, OnStack
      <4>1. below[u] \in Frames /\ OnStack(below[u]) /\ below[u] # t
        BY <1>0, <1>1, <1>3, <4>0, <4>a DEF Stacks
      <4>2. OnStack(below[u])'
        BY <1>3, <4>0, <4>1 DEF OnStack
      <4> QED
        BY <1>1, <1>6, <3>2, <4>0, <4>1, <4>2 DEF Stacks
    <3> QED
      BY <3>1, <3>2
  <2>3. ASSUME NEW f \in Frames, OnStack(f)'
        PROVE  /\ depth1[f] <= depth1[top'[owner1[f]]]
               /\ f # top'[owner1[f]] => at'[f] \in {"body", "wait", "loop"}
    <3>1. CASE f = t
      BY <1>0, <1>6, <3>1
    <3>2. CASE f # t /\ owner[f] = w
      <4>1. OnStack(f) /\ owner1[f] = w /\ top'[w] = t
        BY <1>0, <1>3, <1>6, <2>3, <3>2
      <4>2. depth[f] <= depth[top[w]] /\ (f # top[w] => at[f] \in {"body", "wait", "loop"})
        BY <1>1, <3>2, <4>1 DEF Stacks
      <4>3. at'[f] \in {"body", "wait", "loop"}
        BY <1>3, <3>2, <4>2
      <4> QED
        BY <1>0, <1>6, <3>2, <4>1, <4>2, <4>3
    <3>3. CASE f # t /\ owner[f] # w
      <4>1. OnStack(f) /\ owner1[f] = owner[f] /\ owner[f] \in Workers
        BY <1>1, <1>3, <1>6, <2>3, <3>3 DEF Stacks
      <4>2. top'[owner[f]] = top[owner[f]] /\ top[owner[f]] \in Frames
        BY <1>0, <3>3, <4>1
      <4>3. top[owner[f]] # t /\ f # top[w]
        BY <1>1, <1>3, <1>6, <3>3, <4>1 DEF Stacks
      <4> QED
        BY <1>1, <1>3, <1>6, <3>3, <4>1, <4>2, <4>3 DEF Stacks
    <3> QED
      BY <3>1, <3>2, <3>3
  <2>4. ASSUME NEW f \in Frames, NEW g \in Frames, OnStack(f)', OnStack(g)',
               owner1[f] = owner1[g], depth1[f] = depth1[g]
        PROVE  f = g
    <3>1. \A h \in Frames : h # t /\ OnStack(h) /\ owner[h] = w => depth1[h] < depth1[t]
      BY <1>0, <1>1, <1>6 DEF Stacks
    <3>2. CASE f # t /\ g # t
      BY <1>1, <1>3, <1>6, <2>4, <3>2 DEF Stacks
    <3>3. CASE f = t \/ g = t
      <4>1. \A h \in Frames : depth1[h] \in Nat
        BY <1>6
      <4> QED
        BY <1>3, <1>6, <2>4, <3>1, <3>3, <4>1
    <3> QED
      BY <3>2, <3>3
  <2>5. owner1 \in [Frames -> Workers] /\ depth1 \in [Frames -> Nat]
    BY <1>6
  <2> QED
    BY <2>1, <2>2, <2>3, <2>4, <2>5 DEF Stacks
<1>8. Ages(owner1, depth1, born, now)'
  <2>1. ASSUME NEW u \in Tasks, NEW f \in Frames, at'[u] # "unborn", OnStack(f)', OnStack(maker[u])',
               owner1[f] = owner1[maker[u]], depth1[f] <= depth1[maker[u]]
        PROVE  born[f] < born[u]
    <3>1. at[u] # "unborn" /\ maker[u] \in Frames /\ maker[u] # t
      BY <1>4, <2>1 DEF StackInv, Makers
    <3>2. OnStack(maker[u])
      BY <1>0, <1>3, <2>1, <3>1 DEF OnStack
    <3>3. f # t
      <4>1. owner[maker[u]] = w => depth[maker[u]] <= depth[top[w]]
        BY <1>1, <3>1, <3>2 DEF Stacks
      <4>2. depth[maker[u]] \in Nat /\ depth[top[w]] \in Nat
        BY <1>0, <1>6, <3>1
      <4> QED
        BY <1>6, <2>1, <3>1, <4>1, <4>2
    <3> QED
      BY <1>2, <1>3, <1>6, <2>1, <3>1, <3>2, <3>3 DEF Ages
  <2>2. /\ now \in Nat /\ born \in [Frames -> Nat] /\ \A f \in Frames : born[f] < now
        /\ \A u \in Tasks : parent'[u] # NoTask => born[parent'[u]] < born[u]
    BY <1>0, <1>2 DEF Ages
  <2>3. maker' = maker
    BY <1>0
  <2> QED
    BY <2>1, <2>2, <2>3 DEF Ages, OnStack
<1> QED
  BY <1>5, <1>7, <1>8 DEF StackInv, Aged

\* The end of the count-down takes a frame off the top of its stack.
LEMMA LeaveStack ==
  ASSUME IInv, StackInv, NEW w \in Workers, top[w] \in Tasks, at[top[w]] = "count",
         at' = [at EXCEPT ![top[w]] = "done"],
         top' = [top EXCEPT ![w] = below[top[w]]],
         below' = [below EXCEPT ![top[w]] = NoTask],
         target' = [target EXCEPT ![top[w]] = NoTask],
         UNCHANGED <<parent, maker>>
  PROVE  StackInv'
<1> USE TaskTreeAssumption DEF Frames
<1> DEFINE t == top[w]
<1>0. /\ t \in Tasks /\ t \notin Workers /\ at[t] = "count"
      /\ at \in [Frames -> TaskStages \cup {"loop"}] /\ top \in [Workers -> Frames]
      /\ below \in [Tasks -> Frames \cup {NoTask}] /\ target \in [Frames -> Tasks \cup {NoTask}]
      /\ at' = [at EXCEPT ![t] = "done"] /\ top' = [top EXCEPT ![w] = below[t]]
      /\ below' = [below EXCEPT ![t] = NoTask] /\ target' = [target EXCEPT ![t] = NoTask]
      /\ below[t] \in Frames
  BY DEF IInv, TypeOK, WellFormed
<1>a. t = top[w]
  OBVIOUS
<1> HIDE DEF t
<1>1. PICK owner, depth : Stacks(owner, depth) /\ Aged(owner, depth)
  BY DEF StackInv
<1>2. PICK now, born : Ages(owner, depth, born, now)
  BY <1>1 DEF Aged
<1>3. /\ \A f \in Frames : OnStack(f)' <=> (OnStack(f) /\ f # t)
      /\ \A f \in Frames : f # t => at'[f] = at[f]
      /\ OnStack(t) /\ at'[t] = "done"
  BY <1>0 DEF OnStack
<1>4. /\ OnStack(below[t]) /\ owner[below[t]] = w /\ owner[t] = w
      /\ depth[t] = depth[below[t]] + 1 /\ below[t] # t
      /\ \A f \in Frames : depth[f] \in Nat
      /\ owner \in [Frames -> Workers]
  <2>1. owner \in [Frames -> Workers] /\ depth \in [Frames -> Nat] /\ owner[t] = w
    BY <1>1, <1>a DEF Stacks
  <2>2. OnStack(below[t]) /\ owner[below[t]] = owner[t] /\ depth[t] = depth[below[t]] + 1
    BY <1>0, <1>1, <1>3 DEF Stacks
  <2>3. \A f \in Frames : depth[f] \in Nat
    BY <2>1
  <2>4. below[t] # t
    BY <1>0, <2>2, <2>3
  <2> QED
    BY <2>1, <2>2, <2>3, <2>4
<1>5. ASSUME NEW f \in Frames, OnStack(f), f # t, owner[f] = w
      PROVE  /\ depth[f] <= depth[below[t]] /\ at[f] \in {"body", "wait", "loop"}
  <2>1. depth[f] <= depth[t] /\ depth[f] # depth[t] /\ at[f] \in {"body", "wait", "loop"}
    BY <1>0, <1>1, <1>3, <1>4, <1>5, <1>a DEF Stacks
  <2>2. depth[f] \in Nat /\ depth[below[t]] \in Nat /\ depth[t] = depth[below[t]] + 1
    BY <1>0, <1>4
  <2> QED
    BY <2>1, <2>2
<1>6. ASSUME NEW u \in Tasks, OnStack(u), u # t
      PROVE  below[u] \in Frames /\ OnStack(below[u]) /\ below[u] # t
  <2>0. below[u] # NoTask
    BY <1>6 DEF IInv, TypeOK, WellFormed, TaskStages, OnStack
  <2>1. /\ below[u] \in Frames /\ OnStack(below[u])
        /\ owner[below[u]] = owner[u] /\ depth[u] = depth[below[u]] + 1
    BY <1>0, <1>1, <1>6, <2>0 DEF Stacks
  <2>2. below[u] = t => owner[u] = w /\ depth[u] = depth[t] + 1
    BY <1>4, <2>1
  <2>3. owner[u] = w => depth[u] <= depth[t]
    BY <1>0, <1>1, <1>6, <1>a DEF Stacks
  <2> QED
    BY <1>0, <1>4, <2>1, <2>2, <2>3
<1>7. Makers'
  <2>1. ASSUME NEW u \in Tasks
        PROVE  /\ at'[u] # "unborn" => maker[u] \in Frames
               /\ at'[u] \in {"unborn", "created", "pushed"} => \A x \in Tasks : maker[x] # u
               /\ at'[u] = "created" => at'[maker[u]] \in {"body", "wait", "help"}
               /\ parent[u] # NoTask => parent[u] = maker[u]
    BY <1>0, <1>3 DEF StackInv, Makers
  <2>2. ASSUME NEW f \in Frames, at'[f] \in {"wait", "help"} PROVE maker[target'[f]] = f
    BY <1>0, <1>3, <2>2 DEF StackInv, Makers
  <2> QED
    BY <1>0, <2>1, <2>2 DEF Makers
<1>8. Stacks(owner, depth)'
  <2>1. ASSUME NEW v \in Workers
        PROVE  OnStack(top[v])' /\ owner[top'[v]] = v
    <3>1. CASE v = w
      <4>1. top'[v] = below[t]
        BY <1>0, <3>1
      <4> QED
        BY <1>0, <1>3, <1>4, <3>1, <4>1 DEF OnStack
    <3>2. CASE v # w
      <4>1. top'[v] = top[v] /\ top[v] \in Frames /\ OnStack(top[v]) /\ owner[top[v]] = v /\ top[v] # t
        BY <1>0, <1>1, <1>4, <3>2 DEF Stacks
      <4> QED
        BY <1>3, <4>1 DEF OnStack
    <3> QED
      BY <3>1, <3>2
  <2>2. ASSUME NEW u \in Tasks, OnStack(u)'
        PROVE  OnStack(below[u])' /\ owner[below'[u]] = owner[u] /\ depth[u] = depth[below'[u]] + 1
    <3>1. OnStack(u) /\ u # t /\ below'[u] = below[u]
      BY <1>0, <1>3, <2>2
    <3>2. below[u] \in Frames /\ OnStack(below[u]) /\ below[u] # t
      BY <1>6, <3>1
    <3>3. OnStack(below[u])'
      BY <1>3, <3>1, <3>2 DEF OnStack
    <3> QED
      BY <1>1, <3>1, <3>3 DEF Stacks
  <2>3. ASSUME NEW f \in Frames, OnStack(f)'
        PROVE  /\ depth[f] <= depth[top'[owner[f]]]
               /\ f # top'[owner[f]] => at'[f] \in {"body", "wait", "loop"}
    <3>1. OnStack(f) /\ f # t /\ at'[f] = at[f]
      BY <1>3, <2>3
    <3>2. CASE owner[f] = w
      BY <1>0, <1>5, <3>1, <3>2
    <3>3. CASE owner[f] # w
      <4>1. owner[f] \in Workers
        BY <1>4
      <4>2. top'[owner[f]] = top[owner[f]]
        BY <1>0, <3>3, <4>1
      <4> QED
        BY <1>1, <3>1, <4>1, <4>2 DEF Stacks
    <3> QED
      BY <3>2, <3>3
  <2>4. ASSUME NEW f \in Frames, NEW g \in Frames, OnStack(f)', OnStack(g)',
               owner[f] = owner[g], depth[f] = depth[g]
        PROVE  f = g
    BY <1>1, <1>3, <2>4 DEF Stacks
  <2>5. \A v \in Workers : owner[v] = v /\ depth[v] = 0
    BY <1>1 DEF Stacks
  <2>6. owner \in [Frames -> Workers] /\ depth \in [Frames -> Nat]
    BY <1>1 DEF Stacks
  <2> QED
    BY <2>1, <2>2, <2>3, <2>4, <2>5, <2>6 DEF Stacks
<1>9. Ages(owner, depth, born, now)'
  <2>1. ASSUME NEW u \in Tasks, NEW f \in Frames, at'[u] # "unborn", OnStack(f)', OnStack(maker[u])',
               owner[f] = owner[maker[u]], depth[f] <= depth[maker[u]]
        PROVE  born[f] < born[u]
    <3>1. at[u] # "unborn" /\ maker[u] \in Frames
      BY <1>0, <1>3, <2>1 DEF StackInv, Makers
    <3>2. OnStack(maker[u])
      BY <1>3, <2>1, <3>1 DEF OnStack
    <3> QED
      BY <1>2, <1>3, <2>1, <3>1, <3>2 DEF Ages
  <2> QED
    BY <1>2, <2>1 DEF Ages
<1> QED
  BY <1>7, <1>8, <1>9 DEF StackInv, Aged

\* Every step of every thread keeps the order of the stacks and of the ages.
LEMMA NextStack ==
  ASSUME IInv, StackInv, [Next]_vars
  PROVE  StackInv'
<1> USE TaskTreeAssumption DEF Frames
<1>1. ASSUME NEW w \in Workers, NEW t \in Tasks, CreateTask(w, t) \/ CreateChild(w, t)
      PROVE  StackInv'
  BY <1>1, CreateStack
<1>2. ASSUME NEW w \in Workers, NEW t \in Tasks, PushTask(w, t)
      PROVE  StackInv'
  BY <1>2, PushTaskStack
<1>3. ASSUME NEW w \in Workers, NEW t \in Tasks, RunTask(w, t)
      PROVE  StackInv'
  BY <1>3, EnterStack DEF RunTask
<1>4. ASSUME NEW w \in Workers, ExecuteOneTask(w)
      PROVE  StackInv'
  <2>1. PICK t \in Tasks : /\ at[t] = "pushed"
                           /\ Enter(w, t, IF at[top[w]] = "help" THEN "wait" ELSE "loop")
    BY <1>4 DEF ExecuteOneTask
  <2>2. CASE at[top[w]] = "help"
    BY <2>1, <2>2, EnterStack
  <2>3. CASE at[top[w]] = "loop"
    BY <2>1, <2>3, EnterStack
  <2> QED
    BY <1>4, <2>2, <2>3 DEF ExecuteOneTask
<1>5. ASSUME NEW w \in Workers, NEW t \in Tasks, Wait(w, t)
      PROVE  StackInv'
  <2>1. target'[top[w]] = t
    BY <1>5 DEF Wait, IInv, TypeOK
  <2>2. \A f \in Frames : f # top[w] => target'[f] = target[f]
    BY <1>5 DEF Wait, IInv, TypeOK
  <2> QED
    BY <1>5, <2>1, <2>2, TopStack DEF Wait, OnStack
<1>6. ASSUME NEW w \in Workers, WaitCheck(w)
      PROVE  StackInv'
  <2>0. UNCHANGED <<parent, maker, top, below>>
    BY <1>6 DEF WaitCheck
  <2>1. maker[target[top[w]]] = top[w] /\ top[w] \in Frames
    BY <1>6 DEF WaitCheck, StackInv, Makers, IInv, TypeOK
  <2>2. \A f \in Frames : f # top[w] => target'[f] = target[f]
    BY <1>6 DEF WaitCheck, IInv, TypeOK
  <2>3. OnStack(top[w]) /\ at[top[w]] # "loop"
    BY <1>6 DEF WaitCheck, OnStack
  <2>4. CASE at' = [at EXCEPT ![top[w]] = "body"]
    BY <2>0, <2>2, <2>3, <2>4, TopStack DEF OnStack
  <2>5. CASE at' = [at EXCEPT ![top[w]] = "help"] /\ target' = target
    BY <2>0, <2>1, <2>3, <2>5, TopStack DEF OnStack
  <2> QED
    BY <1>6, <2>4, <2>5 DEF WaitCheck
<1>7. ASSUME NEW w \in Workers, ExecuteNothing(w)
      PROVE  StackInv'
  <2>1. maker[target[top[w]]] = top[w] /\ top[w] \in Frames
    BY <1>7 DEF ExecuteNothing, StackInv, Makers, IInv, TypeOK
  <2> QED
    BY <1>7, <2>1, TopStack DEF ExecuteNothing, OnStack
<1>8. ASSUME NEW w \in Workers, BodyReturns(w)
      PROVE  StackInv'
  <2>1. \A f \in Frames : f # top[w] => target'[f] = target[f]
    BY <1>8 DEF BodyReturns, IInv, TypeOK
  <2> QED
    BY <1>8, <2>1, TopStack DEF BodyReturns, OnStack
<1>9. ASSUME NEW w \in Workers, CountDown(w)
      PROVE  StackInv'
  <2>1. top[w] \in Tasks /\ at[top[w]] = "count"
    BY <1>9, CountDownFacts DEF CountDown
  <2>2. CASE /\ target' = [target EXCEPT ![top[w]] = parent[target[top[w]]]]
             /\ UNCHANGED <<at, top, below>>
    <3>1. at' = [at EXCEPT ![top[w]] = "count"]
      BY <2>1, <2>2 DEF IInv, TypeOK
    <3>2. \A f \in Frames : f # top[w] => target'[f] = target[f]
      BY <2>2 DEF IInv, TypeOK
    <3>3. \A t \in Tasks : maker[t] = top[w] => at[t] # "created"
      BY <2>1 DEF StackInv, Makers
    <3> QED
      BY <1>9, <2>1, <2>2, <3>1, <3>2, <3>3, TopStack DEF CountDown, OnStack
  <2>3. CASE /\ at' = [at EXCEPT ![top[w]] = "done"]
             /\ top' = [top EXCEPT ![w] = below[top[w]]]
             /\ below' = [below EXCEPT ![top[w]] = NoTask]
             /\ target' = [target EXCEPT ![top[w]] = NoTask]
    BY <1>9, <2>1, <2>3, LeaveStack DEF CountDown
  <2> QED
    BY <1>9, <2>2, <2>3 DEF CountDown
<1>10. CASE UNCHANGED vars
  <2>1. at' = at /\ \A f : OnStack(f)' <=> OnStack(f)
    BY <1>10 DEF vars, OnStack
  <2>2. Makers'
    BY <1>10 DEF vars, StackInv, Makers
  <2>3. \A f \in Frames : OnStack(f) => at'[f] = at[f]
    BY <2>1
  <2> QED
    BY <1>10, <2>1, <2>2, <2>3, SameStacks DEF vars
<1> QED
  BY <1>1, <1>2, <1>3, <1>4, <1>5, <1>6, <1>7, <1>8, <1>9, <1>10 DEF Next

\* However many foreign tasks lie on top of waiting frames, the threads never
\* wait for each other in a circle.
THEOREM DeadlockFree == Spec => []NoCircularWait
<1>1. Init => IInv /\ StackInv
  BY InitIInv, InitStack
<1>2. IInv /\ StackInv /\ [Next]_vars => (IInv /\ StackInv)'
  BY NextIInv, NextStack
<1>3. IInv /\ StackInv => NoCircularWait
  BY NoCircle
<1> QED
  BY <1>1, <1>2, <1>3, PTL DEF Spec
=============================================================================

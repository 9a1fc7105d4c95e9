-------------------------- MODULE ParallelFor_proofs --------------------------
(***************************************************************************)
(* Proofs that xr_parallel_for(range, true, f) calls f exactly once for    *)
(* every index and returns only then, for every range, every grain, every  *)
(* set of threads and every schedule.  The argument: an index that was not *)
(* handled lies in the range of exactly one task that is still to handle   *)
(* it (EveryIndexOnce), because SplitRange cuts a range into two disjoint  *)
(* parts; all tasks descend from the one the caller waits for (OneTree);   *)
(* and TaskTree's invariant makes that Wait return after all of them.      *)
(***************************************************************************)
EXTENDS ParallelFor, TaskTree_proofs

\* SplitRange cuts a range that is longer than the grain into two ranges that
\* share no index and miss none.
LEMMA SplitIsPartition ==
  ASSUME NEW r \in Nat \X Nat, is_splittable(r)
  PROVE  /\ SplitRange(r).left \in Nat \X Nat
         /\ SplitRange(r).rest \in Nat \X Nat
         /\ Indices(r) = Indices(SplitRange(r).left) \cup Indices(SplitRange(r).rest)
         /\ Indices(SplitRange(r).left) \cap Indices(SplitRange(r).rest) = {}
<1> DEFINE middle == r[1] + size(r) \div 2
<1>1. r[1] \in Nat /\ r[2] \in Nat /\ Grain \in Nat /\ Grain > 0 /\ size(r) \in Nat
  BY ParallelForAssumption DEF is_splittable, size
<1>2. middle \in Nat /\ r[1] <= middle /\ middle <= r[2]
  BY <1>1 DEF size
<1>3. SplitRange(r) = [left |-> <<r[1], middle>>, rest |-> <<middle, r[2]>>]
  BY DEF SplitRange
<1> HIDE DEF middle
<1> QED
  BY <1>1, <1>2, <1>3 DEF Indices

\* Finitely many tasks own an index.
LEMMA OwnersFinite ==
  ASSUME NEW x
  PROVE  IsFiniteSet(Owners(x)) /\ Cardinality(Owners(x)) \in Nat
<1>1. Owners(x) \in SUBSET Tasks
  BY DEF Owners, Outstanding
<1>2. IsFiniteSet(Owners(x))
  BY <1>1, FS_Subset, TaskTreeAssumption
<1> QED
  BY <1>2, FS_CardinalityType

\* An index passes from one owner to another.
LEMMA Handover ==
  ASSUME NEW x, NEW f \in Owners(x), NEW t, t \notin Owners(x)
  PROVE  Cardinality((Owners(x) \ {f}) \cup {t}) = Cardinality(Owners(x))
<1>1. /\ IsFiniteSet(Owners(x) \ {f})
      /\ Cardinality(Owners(x) \ {f}) = Cardinality(Owners(x)) - 1
  BY OwnersFinite, FS_RemoveElement
<1>2. Cardinality((Owners(x) \ {f}) \cup {t}) = Cardinality(Owners(x) \ {f}) + 1
  BY <1>1, FS_AddElement
<1> QED
  BY <1>1, <1>2, OwnersFinite

-----------------------------------------------------------------------------
(* ParallelFor takes steps of TaskTree only.                               *)

\* The initial states are TaskTree's.
LEMMA PInitIsInit == PInit => Init
BY DEF PInit

\* Every step of xr_parallel_for is a step of the task system.
LEMMA PNextIsNext == [PNext]_pvars => [Next]_vars
<1> USE TaskTreeAssumption
<1>1. ASSUME NEW t \in Tasks, AddRoot(t) \/ PushRoot(t) \/ WaitRoot(t)
      PROVE  Next
  BY <1>1 DEF AddRoot, PushRoot, WaitRoot, Next
<1>2. ASSUME NEW t \in Tasks, NEW w \in Workers,
             AddLeft(w, t) \/ AddRest(w, t) \/ PushChild(w, t)
      PROVE  Next
  BY <1>2 DEF AddLeft, AddRest, PushChild, Next
<1>3. ASSUME NEW w \in Workers, FunctorReturns(w) \/ Schedule(w)
      PROVE  Next
  BY <1>3 DEF FunctorReturns, Schedule, Next
<1>4. ASSUME NEW w \in Workers, CallFunction(w)
      PROVE  UNCHANGED vars
  BY <1>4 DEF CallFunction
<1> QED
  BY <1>1, <1>2, <1>3, <1>4 DEF PNext, pvars

\* xr_parallel_for implements the task system's specification.
THEOREM ImplementsTaskTree == PSpec => Spec
BY PInitIsInit, PNextIsNext, PTL DEF PSpec, Spec

-----------------------------------------------------------------------------

\* Before the call no index is owned and none is handled.
LEMMA PInitPInv == PInit => PInv
<1> SUFFICES ASSUME PInit PROVE PInv
  OBVIOUS
<1> USE TaskTreeAssumption, ParallelForAssumption DEF PInit, Frames
<1>1. IInv
  BY PInitIsInit, InitIInv
<1>2. /\ top[Main] = Main /\ step[Main] = "start" /\ at[Main] = "body"
      /\ \A t \in Tasks : at[t] = "unborn" /\ step[t] = "start"
  BY DEF Init
<1>3. PTypeOK
  BY DEF PTypeOK, Empty
<1>4. StepsFollowStages
  BY <1>2 DEF StepsFollowStages, BodyDone
<1>5. OneTree
  BY <1>2 DEF OneTree
<1>6. EveryIndexOnce
  BY <1>2 DEF EveryIndexOnce
<1>7. ReturnedMeansDone
  BY <1>2 DEF ReturnedMeansDone
<1> QED
  BY <1>1, <1>3, <1>4, <1>5, <1>6, <1>7 DEF PInv

\* A step that moves no index keeps the count.
LEMMA QuietIndices ==
  ASSUME EveryIndexOnce, OneTree', Outstanding' = Outstanding,
         UNCHANGED <<range, calls>>, step[Main] # "start" \/ step'[Main] = "start"
  PROVE  EveryIndexOnce'
BY DEF EveryIndexOnce, OneTree, Owners

\* The caller creates the task of the whole range.
LEMMA AddRootPInv ==
  ASSUME PInv, NEW t \in Tasks, AddRoot(t)
  PROVE  PInv'
<1> USE TaskTreeAssumption, ParallelForAssumption DEF Frames
<1>0. /\ IInv' /\ IInv /\ TypeOK /\ PTypeOK /\ StepsFollowStages /\ OneTree
      /\ Main \in Frames /\ Main \notin Tasks
  <2>1. [Next]_vars
    BY DEF AddRoot, Next
  <2> QED
    BY <2>1, NextIInv DEF PInv, IInv
<1>1. /\ top[Main] = Main /\ step[Main] = "start" /\ at[Main] = "body"
      /\ \A u \in Tasks : at[u] = "unborn" /\ step[u] = "start"
      /\ \A x \in 0 .. Last - 1 : calls[x] = 0
  BY <1>0 DEF AddRoot, Running, OneTree, StepsFollowStages
<1>2. /\ range' = [range EXCEPT ![t] = <<0, Last>>]
      /\ step' = [step EXCEPT ![Main] = "left"]
      /\ maker' = [maker EXCEPT ![t] = Main]
      /\ at' = [at EXCEPT ![t] = "created"]
      /\ UNCHANGED <<calls, top, target, lineage>>
  BY <1>1 DEF AddRoot, StepTo, CreateTask
<1>3. PTypeOK'
  BY <1>0, <1>2 DEF PTypeOK
<1>4. StepsFollowStages'
  BY <1>0, <1>1, <1>2 DEF StepsFollowStages, BodyDone, TypeOK, PTypeOK
<1>5. OneTree'
  BY <1>0, <1>1, <1>2 DEF OneTree, TypeOK, PTypeOK
<1>6. EveryIndexOnce'
  <2> SUFFICES ASSUME NEW x \in 0 .. Last - 1
               PROVE  calls'[x] + Cardinality(Owners(x)') = 1
    BY DEF EveryIndexOnce
  <2>1. Outstanding' = {t}
    <3>1. at'[t] = "created" /\ \A u \in Tasks : u # t => at'[u] = "unborn"
      BY <1>0, <1>1, <1>2 DEF TypeOK
    <3>2. step'[t] = "start"
      BY <1>0, <1>1, <1>2 DEF PTypeOK
    <3> QED
      BY <3>1, <3>2 DEF Outstanding
  <2>2. range'[t] = <<0, Last>>
    BY <1>0, <1>2 DEF PTypeOK
  <2>3. Owners(x)' = {t}
    BY <2>1, <2>2 DEF Owners, Indices
  <2>4. Cardinality({t}) = 1
    BY FS_Singleton
  <2>5. calls'[x] = 0
    BY <1>1, <1>2
  <2> QED
    BY <2>3, <2>4, <2>5
<1>7. ReturnedMeansDone'
  BY <1>0, <1>2 DEF ReturnedMeansDone, PTypeOK
<1> QED
  BY <1>0, <1>3, <1>4, <1>5, <1>6, <1>7 DEF PInv

\* What every step of a functor starts from: the call has been made, the
\* functor is running and the caller has not returned.
LEMMA FunctorFacts ==
  ASSUME PInv, NEW w \in Workers, NEW s, top[w] \in Tasks, Running(w, s)
  PROVE  /\ IInv /\ TypeOK /\ PTypeOK /\ StepsFollowStages /\ OneTree /\ EveryIndexOnce
         /\ Main \in Frames /\ Main \notin Tasks /\ top[w] # Main
         /\ at[top[w]] = "body" /\ step[top[w]] = s
         /\ range[top[w]] \in Nat \X Nat
         /\ step[Main] # "start"
         /\ ~(step[Main] = "over" /\ at[Main] = "body")
         /\ \A x \in 0 .. Last - 1 : calls[x] + Cardinality(Owners(x)) = 1
<1> USE TaskTreeAssumption
<1>1. /\ IInv /\ TypeOK /\ PTypeOK /\ StepsFollowStages /\ OneTree /\ EveryIndexOnce
      /\ Main \in Frames /\ Main \notin Tasks /\ top[w] # Main
      /\ at[top[w]] = "body" /\ step[top[w]] = s
  BY DEF PInv, IInv, Running, Frames
<1>2. range[top[w]] \in Nat \X Nat
  BY <1>1 DEF PTypeOK
<1>3. step[Main] # "start"
  BY <1>1 DEF OneTree
<1>4. ~(step[Main] = "over" /\ at[Main] = "body")
  BY <1>1 DEF PInv, ReturnedMeansDone, BodyDone
<1> QED
  BY <1>1, <1>2, <1>3, <1>4 DEF EveryIndexOnce

\* A new task descends from the root because its parent does.
LEMMA ChildPInv ==
  ASSUME PInv, NEW w \in Workers, NEW t \in Tasks, NEW s, NEW s2,
         top[w] \in Tasks, Running(w, s), CreateChild(w, t), StepTo(w, s2),
         s2 \in {"left", "rest"}
  PROVE  /\ IInv' /\ StepsFollowStages' /\ OneTree' /\ ReturnedMeansDone'
         /\ at[t] = "unborn" /\ step[t] = "start" /\ t # top[w]
         /\ at' = [at EXCEPT ![t] = "created"]
         /\ step' = [step EXCEPT ![top[w]] = s2]
<1> USE TaskTreeAssumption DEF Frames
<1> DEFINE f == top[w]
<1>0. f \in Tasks
  OBVIOUS
<1>1. /\ IInv /\ TypeOK /\ PTypeOK /\ StepsFollowStages /\ OneTree
      /\ Main \in Frames /\ Main \notin Tasks
      /\ at[f] = "body" /\ step[Main] # "start"
      /\ ~(step[Main] = "over" /\ at[Main] = "body")
  BY FunctorFacts
<1>2. IInv'
  <2>1. [Next]_vars
    BY DEF Next
  <2> QED
    BY <1>1, <2>1, NextIInv
<1>3. /\ at[t] = "unborn"
      /\ at' = [at EXCEPT ![t] = "created"]
      /\ step' = [step EXCEPT ![f] = s2]
      /\ maker' = [maker EXCEPT ![t] = f]
      /\ lineage' = [lineage EXCEPT ![t] = {f} \cup lineage[f]]
      /\ UNCHANGED <<top, target>>
  BY DEF CreateChild, StepTo
<1>4. step[t] = "start" /\ t # f
  BY <1>1, <1>3 DEF StepsFollowStages
<1> HIDE DEF f
<1>5. StepsFollowStages'
  BY <1>0, <1>1, <1>3, <1>4 DEF StepsFollowStages, BodyDone, TypeOK, PTypeOK
<1>6. /\ step'[Main] = step[Main] /\ at'[Main] = at[Main]
      /\ f # Main
  BY <1>0, <1>1, <1>3 DEF TypeOK, PTypeOK
<1>7. OneTree'
  <2>1. PICK root \in Tasks : \A u \in Tasks : at[u] # "unborn" =>
              /\ u = root \/ root \in lineage[u]
              /\ maker[u] = Main => u = root
    BY <1>1 DEF OneTree
  <2>2. ASSUME NEW u \in Tasks, at'[u] # "unborn"
        PROVE  /\ u = root \/ root \in lineage'[u]
               /\ maker'[u] = Main => u = root
    <3>1. CASE u = t
      <4>1. lineage'[u] = {f} \cup lineage[f] /\ maker'[u] = f
        BY <1>1, <1>3, <3>1 DEF TypeOK
      <4>2. f = root \/ root \in lineage[f]
        BY <1>0, <1>1, <2>1
      <4> QED
        BY <1>6, <4>1, <4>2
    <3>2. CASE u # t
      <4>1. at[u] # "unborn" /\ lineage'[u] = lineage[u] /\ maker'[u] = maker[u]
        BY <1>1, <1>3, <2>2, <3>2 DEF TypeOK
      <4> QED
        BY <2>1, <4>1
    <3> QED
      BY <3>1, <3>2
  <2>3. at'[Main] \in {"wait", "help"} => maker'[target'[Main]] = Main
    <3> SUFFICES ASSUME at[Main] \in {"wait", "help"} PROVE maker'[target[Main]] = Main
      BY <1>3, <1>6
    <3>1. maker[target[Main]] = Main
      BY <1>1 DEF OneTree
    <3>2. target[Main] \in Tasks /\ at[target[Main]] # "unborn"
      BY <1>1 DEF IInv, WellFormed, TypeOK
    <3> QED
      BY <1>1, <1>3, <3>1, <3>2 DEF TypeOK
  <2> QED
    BY <1>1, <1>6, <2>2, <2>3 DEF OneTree
<1>8. ReturnedMeansDone'
  BY <1>1, <1>6 DEF ReturnedMeansDone
<1> QED
  BY <1>2, <1>3, <1>4, <1>5, <1>7, <1>8 DEF f

\* The first child takes the left half over.
LEMMA AddLeftPInv ==
  ASSUME PInv, NEW w \in Workers, NEW t \in Tasks, AddLeft(w, t)
  PROVE  PInv'
<1> USE TaskTreeAssumption DEF Frames
<1>0. PICK f \in Tasks : f = top[w]
  BY DEF AddLeft
<1>1. top[w] \in Tasks /\ Running(w, "start") /\ CreateChild(w, t) /\ StepTo(w, "left")
  BY DEF AddLeft
<1>2. /\ IInv' /\ StepsFollowStages' /\ OneTree' /\ ReturnedMeansDone'
      /\ at[t] = "unborn" /\ step[t] = "start" /\ t # f
      /\ at' = [at EXCEPT ![t] = "created"]
      /\ step' = [step EXCEPT ![f] = "left"]
  BY <1>0, <1>1, ChildPInv
<1>3. /\ TypeOK /\ PTypeOK /\ at[f] = "body" /\ step[f] = "start"
      /\ range[f] \in Nat \X Nat
      /\ \A x \in 0 .. Last - 1 : calls[x] + Cardinality(Owners(x)) = 1
  BY <1>0, <1>1, FunctorFacts
<1> DEFINE left == SplitRange(range[f]).left
           rest == SplitRange(range[f]).rest
<1>4. /\ left \in Nat \X Nat /\ rest \in Nat \X Nat
      /\ Indices(range[f]) = Indices(left) \cup Indices(rest)
      /\ Indices(left) \cap Indices(rest) = {}
  BY <1>0, <1>3, SplitIsPartition DEF AddLeft
<1>5. range' = [range EXCEPT ![t] = left, ![f] = rest] /\ calls' = calls
  BY <1>0 DEF AddLeft
<1> HIDE DEF left, rest
<1>6. PTypeOK'
  BY <1>2, <1>3, <1>4, <1>5 DEF PTypeOK
<1>7. /\ range'[t] = left /\ range'[f] = rest
      /\ \A u \in Tasks : u # t /\ u # f => range'[u] = range[u]
  BY <1>2, <1>3, <1>5 DEF PTypeOK
<1>8. /\ t \notin Outstanding /\ f \in Outstanding
      /\ Outstanding' = Outstanding \cup {t}
  BY <1>2, <1>3 DEF Outstanding, TypeOK, PTypeOK
<1>9. EveryIndexOnce'
  <2> SUFFICES ASSUME NEW x \in 0 .. Last - 1
               PROVE  calls'[x] + Cardinality(Owners(x)') = 1
    BY DEF EveryIndexOnce
  <2>0. t \notin Owners(x) /\ Outstanding \subseteq Tasks
    BY <1>8 DEF Owners, Outstanding
  <2>1. CASE x \in Indices(left)
    <3>1. f \in Owners(x)
      BY <1>4, <1>8, <2>1 DEF Owners
    <3>2. Owners(x)' = (Owners(x) \ {f}) \cup {t}
      BY <1>2, <1>4, <1>7, <1>8, <2>0, <2>1 DEF Owners
    <3> QED
      BY <1>3, <1>5, <2>0, <3>1, <3>2, Handover
  <2>2. CASE x \notin Indices(left)
    <3>1. Owners(x)' = Owners(x)
      BY <1>2, <1>4, <1>7, <1>8, <2>0, <2>2 DEF Owners
    <3> QED
      BY <1>3, <1>5, <3>1
  <2> QED
    BY <2>1, <2>2
<1> QED
  BY <1>2, <1>6, <1>9 DEF PInv

\* The second child takes over what is left of the parent's range.
LEMMA AddRestPInv ==
  ASSUME PInv, NEW w \in Workers, NEW t \in Tasks, AddRest(w, t)
  PROVE  PInv'
<1> USE TaskTreeAssumption DEF Frames
<1>0. PICK f \in Tasks : f = top[w]
  BY DEF AddRest
<1>1. top[w] \in Tasks /\ Running(w, "half") /\ CreateChild(w, t) /\ StepTo(w, "rest")
  BY DEF AddRest
<1>2. /\ IInv' /\ StepsFollowStages' /\ OneTree' /\ ReturnedMeansDone'
      /\ at[t] = "unborn" /\ step[t] = "start" /\ t # f
      /\ at' = [at EXCEPT ![t] = "created"]
      /\ step' = [step EXCEPT ![f] = "rest"]
  BY <1>0, <1>1, ChildPInv
<1>3. /\ TypeOK /\ PTypeOK /\ at[f] = "body" /\ step[f] = "half"
      /\ range[f] \in Nat \X Nat
      /\ \A x \in 0 .. Last - 1 : calls[x] + Cardinality(Owners(x)) = 1
  BY <1>0, <1>1, FunctorFacts
<1>4. range' = [range EXCEPT ![t] = range[f]] /\ calls' = calls
  BY <1>0 DEF AddRest
<1>5. PTypeOK'
  BY <1>2, <1>3, <1>4 DEF PTypeOK
<1>6. /\ range'[t] = range[f]
      /\ \A u \in Tasks : u # t => range'[u] = range[u]
  BY <1>3, <1>4 DEF PTypeOK
<1>7. /\ t \notin Outstanding /\ f \in Outstanding
      /\ Outstanding' = (Outstanding \ {f}) \cup {t}
  BY <1>2, <1>3 DEF Outstanding, TypeOK, PTypeOK
<1>8. EveryIndexOnce'
  <2> SUFFICES ASSUME NEW x \in 0 .. Last - 1
               PROVE  calls'[x] + Cardinality(Owners(x)') = 1
    BY DEF EveryIndexOnce
  <2>0. t \notin Owners(x) /\ Outstanding \subseteq Tasks
    BY <1>7 DEF Owners, Outstanding
  <2>1. CASE x \in Indices(range[f])
    <3>1. f \in Owners(x)
      BY <1>7, <2>1 DEF Owners
    <3>2. Owners(x)' = (Owners(x) \ {f}) \cup {t}
      BY <1>6, <1>7, <2>0, <2>1 DEF Owners
    <3> QED
      BY <1>3, <1>4, <2>0, <3>1, <3>2, Handover
  <2>2. CASE x \notin Indices(range[f])
    <3>1. Owners(x)' = Owners(x)
      BY <1>6, <1>7, <2>0, <2>2 DEF Owners
    <3> QED
      BY <1>3, <1>4, <3>1
  <2> QED
    BY <2>1, <2>2
<1> QED
  BY <1>2, <1>5, <1>8 DEF PInv

\* f is called for the indices of a short range, and they lose their owner.
LEMMA CallFunctionPInv ==
  ASSUME PInv, NEW w \in Workers, CallFunction(w)
  PROVE  PInv'
<1> USE TaskTreeAssumption, ParallelForAssumption DEF Frames
<1>0. PICK f \in Tasks : f = top[w]
  BY DEF CallFunction
<1>1. top[w] \in Tasks /\ Running(w, "start") /\ StepTo(w, "over")
  BY DEF CallFunction
<1>2. /\ IInv /\ TypeOK /\ PTypeOK /\ StepsFollowStages /\ OneTree
      /\ Main \in Frames /\ Main \notin Tasks /\ f # Main
      /\ at[f] = "body" /\ step[f] = "start"
      /\ step[Main] # "start" /\ ~(step[Main] = "over" /\ at[Main] = "body")
      /\ \A x \in 0 .. Last - 1 : calls[x] + Cardinality(Owners(x)) = 1
  BY <1>0, <1>1, FunctorFacts
<1>3. /\ step' = [step EXCEPT ![f] = "over"] /\ range' = range
      /\ calls' = [x \in 0 .. Last - 1 |->
                      IF x \in Indices(range[f]) THEN calls[x] + 1 ELSE calls[x]]
      /\ UNCHANGED <<jobs, parent, maker, at, target, top, below, lineage>>
  BY <1>0, <1>2 DEF CallFunction, StepTo, PTypeOK, vars
<1>4. IInv'
  BY <1>2, <1>3, NextIInv DEF vars
<1>5. PTypeOK'
  BY <1>2, <1>3 DEF PTypeOK
<1>6. StepsFollowStages'
  BY <1>2, <1>3 DEF StepsFollowStages, BodyDone, PTypeOK
<1>7. step'[Main] = step[Main]
  BY <1>2, <1>3 DEF PTypeOK
<1>8. OneTree'
  BY <1>2, <1>3, <1>7 DEF OneTree
<1>9. ReturnedMeansDone'
  BY <1>2, <1>3, <1>7 DEF ReturnedMeansDone
<1>10. f \in Outstanding /\ Outstanding' = Outstanding \ {f}
  BY <1>2, <1>3 DEF Outstanding, PTypeOK
<1>11. EveryIndexOnce'
  <2> SUFFICES ASSUME NEW x \in 0 .. Last - 1
               PROVE  calls'[x] + Cardinality(Owners(x)') = 1
    BY DEF EveryIndexOnce
  <2>0. calls[x] \in Nat /\ calls[x] + Cardinality(Owners(x)) = 1
    BY <1>2 DEF PTypeOK
  <2>1. CASE x \in Indices(range[f])
    <3>1. f \in Owners(x)
      BY <1>10, <2>1 DEF Owners
    <3>2. Owners(x)' = Owners(x) \ {f}
      BY <1>3, <1>10 DEF Owners
    <3>3. Cardinality(Owners(x) \ {f}) = Cardinality(Owners(x)) - 1
      BY <3>1, OwnersFinite, FS_RemoveElement
    <3>4. calls'[x] = calls[x] + 1
      BY <1>3, <2>1
    <3> QED
      BY <2>0, <3>2, <3>3, <3>4, OwnersFinite
  <2>2. CASE x \notin Indices(range[f])
    <3>1. Owners(x)' = Owners(x)
      BY <1>3, <1>10, <2>2 DEF Owners
    <3>2. calls'[x] = calls[x]
      BY <1>3, <2>2
    <3> QED
      BY <2>0, <3>1, <3>2
  <2> QED
    BY <2>1, <2>2
<1> QED
  BY <1>4, <1>5, <1>6, <1>8, <1>9, <1>11 DEF PInv

-----------------------------------------------------------------------------
(* Steps that move no index.                                               *)

\* PushTask publishes a task; the functor or the caller goes on.
LEMMA PushPInv ==
  ASSUME PInv, NEW w \in Workers, NEW t \in Tasks, NEW s,
         PushTask(w, t), StepTo(w, s), UNCHANGED <<range, calls>>,
         \/ w = Main /\ top[w] = Main /\ step[Main] = "left" /\ s = "rest"
         \/ top[w] \in Tasks /\ Running(w, "left") /\ s = "half"
         \/ top[w] \in Tasks /\ Running(w, "rest") /\ s = "over"
  PROVE  PInv'
<1> USE TaskTreeAssumption DEF Frames
<1> DEFINE f == top[w]
<1>1. /\ IInv /\ TypeOK /\ PTypeOK /\ StepsFollowStages /\ OneTree /\ EveryIndexOnce
      /\ Main \in Frames /\ Main \notin Tasks /\ f \in Frames
      /\ at[f] = "body"
      /\ step[Main] # "start" /\ ~(step[Main] = "over" /\ at[Main] = "body")
  <2>1. CASE top[w] \in Tasks
    BY <2>1, FunctorFacts
  <2>2. CASE w = Main /\ top[w] = Main /\ step[Main] = "left"
    BY <2>2 DEF PInv, IInv, PushTask
  <2> QED
    BY <2>1, <2>2
<1>2. IInv'
  <2>1. [Next]_vars
    BY DEF Next
  <2> QED
    BY <1>1, <2>1, NextIInv
<1>3. /\ at[t] = "created" /\ at' = [at EXCEPT ![t] = "pushed"]
      /\ step' = [step EXCEPT ![f] = s]
      /\ UNCHANGED <<maker, target, top, lineage, range, calls>>
  BY DEF PushTask, StepTo
<1>4. \/ f = Main /\ s = "rest"
      \/ f \in Tasks /\ step[f] = "left" /\ s = "half"
      \/ f \in Tasks /\ step[f] = "rest" /\ s = "over"
  BY DEF Running
<1> HIDE DEF f
<1>5. PTypeOK'
  BY <1>1, <1>3, <1>4 DEF PTypeOK
<1>6. StepsFollowStages'
  BY <1>1, <1>3, <1>4 DEF StepsFollowStages, BodyDone, TypeOK, PTypeOK
<1>7. at'[Main] = at[Main] /\ step'[Main] \in {step[Main], "rest"}
      /\ (f # Main => step'[Main] = step[Main])
  BY <1>1, <1>3, <1>4 DEF TypeOK, PTypeOK
<1>8. \A u \in Tasks : at'[u] # "unborn" <=> at[u] # "unborn"
  BY <1>1, <1>3 DEF TypeOK
<1>9. OneTree'
  BY <1>1, <1>3, <1>7, <1>8 DEF OneTree
<1>10. Outstanding' = Outstanding
  <2>1. ASSUME NEW u \in Tasks
        PROVE  step'[u] \in {"start", "left", "half"} <=> step[u] \in {"start", "left", "half"}
    BY <1>1, <1>3, <1>4 DEF PTypeOK
  <2> QED
    BY <1>8, <2>1 DEF Outstanding
<1>11. EveryIndexOnce'
  BY <1>1, <1>3, <1>9, <1>10, QuietIndices
<1>12. ReturnedMeansDone'
  BY <1>1, <1>7 DEF ReturnedMeansDone
<1> QED
  BY <1>2, <1>5, <1>6, <1>9, <1>11, <1>12 DEF PInv

\* The caller enters Wait for the task it has pushed.
LEMMA WaitRootPInv ==
  ASSUME PInv, NEW t \in Tasks, WaitRoot(t)
  PROVE  PInv'
<1> USE TaskTreeAssumption DEF Frames
<1>1. /\ IInv /\ TypeOK /\ PTypeOK /\ StepsFollowStages /\ OneTree /\ EveryIndexOnce
      /\ Main \in Frames /\ Main \notin Tasks
      /\ at[Main] = "body" /\ step[Main] = "rest"
  BY DEF PInv, IInv, WaitRoot, Running
<1>2. IInv'
  <2>1. [Next]_vars
    BY DEF WaitRoot, Next
  <2> QED
    BY <1>1, <2>1, NextIInv
<1>3. /\ maker[t] = Main
      /\ at' = [at EXCEPT ![Main] = "wait"] /\ target' = [target EXCEPT ![Main] = t]
      /\ step' = [step EXCEPT ![Main] = "over"]
      /\ UNCHANGED <<maker, top, lineage, range, calls>>
  BY DEF WaitRoot, Wait, StepTo
<1>4. PTypeOK'
  BY <1>1, <1>3 DEF PTypeOK
<1>5. /\ at'[Main] = "wait" /\ step'[Main] = "over" /\ target'[Main] = t
      /\ \A u \in Tasks : at'[u] = at[u] /\ step'[u] = step[u]
  BY <1>1, <1>3 DEF TypeOK, PTypeOK
<1>6. StepsFollowStages'
  BY <1>1, <1>5 DEF StepsFollowStages, BodyDone
<1>7. OneTree'
  BY <1>1, <1>3, <1>5 DEF OneTree
<1>8. Outstanding' = Outstanding
  BY <1>5 DEF Outstanding
<1>9. EveryIndexOnce'
  BY <1>1, <1>3, <1>7, <1>8, QuietIndices
<1>10. ReturnedMeansDone'
  BY <1>5 DEF ReturnedMeansDone
<1> QED
  BY <1>2, <1>4, <1>6, <1>7, <1>9, <1>10 DEF PInv

\* A functor returns from its last statement.
LEMMA FunctorReturnsPInv ==
  ASSUME PInv, NEW w \in Workers, FunctorReturns(w)
  PROVE  PInv'
<1> USE TaskTreeAssumption DEF Frames
<1>0. PICK f \in Tasks : f = top[w]
  BY DEF FunctorReturns
<1>1. top[w] \in Tasks /\ Running(w, "over")
  BY DEF FunctorReturns
<1>2. /\ IInv /\ TypeOK /\ PTypeOK /\ StepsFollowStages /\ OneTree /\ EveryIndexOnce
      /\ Main \in Frames /\ Main \notin Tasks /\ f # Main
      /\ at[f] = "body" /\ step[f] = "over"
      /\ step[Main] # "start" /\ ~(step[Main] = "over" /\ at[Main] = "body")
  BY <1>0, <1>1, FunctorFacts
<1>3. /\ at' = [at EXCEPT ![f] = "count"] /\ target' = [target EXCEPT ![f] = f]
      /\ UNCHANGED <<maker, top, lineage, range, step, calls>>
  BY <1>0 DEF FunctorReturns, BodyReturns
<1>4. IInv'
  <2>1. [Next]_vars
    BY DEF FunctorReturns, Next
  <2> QED
    BY <1>2, <2>1, NextIInv
<1>5. PTypeOK'
  BY <1>2, <1>3 DEF PTypeOK
<1>6. /\ at'[f] = "count" /\ at'[Main] = at[Main] /\ target'[Main] = target[Main]
      /\ \A u \in Tasks : u # f => at'[u] = at[u]
  BY <1>2, <1>3 DEF TypeOK
<1>7. StepsFollowStages'
  BY <1>2, <1>3, <1>6 DEF StepsFollowStages, BodyDone
<1>8. OneTree'
  BY <1>2, <1>3, <1>6 DEF OneTree
<1>9. Outstanding' = Outstanding
  BY <1>2, <1>3, <1>6 DEF Outstanding
<1>10. EveryIndexOnce'
  BY <1>2, <1>3, <1>8, <1>9, QuietIndices
<1>11. ReturnedMeansDone'
  BY <1>2, <1>3, <1>6 DEF ReturnedMeansDone
<1> QED
  BY <1>4, <1>5, <1>7, <1>8, <1>10, <1>11 DEF PInv

\* What the task system's own steps leave alone: none creates a task or
\* touches a frame in its body, and a body is over only when it returned.
LEMMA ScheduleFacts ==
  ASSUME PInv, NEW w \in Workers, Schedule(w)
  PROVE  /\ UNCHANGED <<maker, lineage, range, step, calls>>
         /\ \A u \in Tasks : /\ at'[u] = "unborn" <=> at[u] = "unborn"
                             /\ BodyDone(u)' <=> BodyDone(u)
         /\ step[Main] = "start" => top'[Main] = top[Main]
         /\ at'[Main] \in {"wait", "help"} =>
                at[Main] \in {"wait", "help"} /\ target'[Main] = target[Main]
<1> USE TaskTreeAssumption DEF Frames
<1>0. /\ IInv /\ TypeOK /\ OneTree /\ Main \in Frames /\ Main \notin Tasks
      /\ top[w] \in Frames
      /\ UNCHANGED <<range, step, calls>>
  BY DEF PInv, IInv, TypeOK, Schedule
<1>1. CASE WaitCheck(w)
  BY <1>0, <1>1 DEF WaitCheck, TypeOK, BodyDone
<1>2. CASE ExecuteOneTask(w)
  <2>1. PICK t \in Tasks : /\ at[t] = "pushed"
                           /\ Enter(w, t, IF at[top[w]] = "help" THEN "wait" ELSE "loop")
    BY <1>2 DEF ExecuteOneTask
  <2>2. step[Main] # "start"
    BY <1>0, <2>1 DEF OneTree
  <2>3. at[top[w]] \in {"help", "loop"}
    BY <1>2 DEF ExecuteOneTask
  <2> QED
    BY <1>0, <2>1, <2>2, <2>3 DEF Enter, TypeOK, BodyDone
<1>3. CASE ExecuteNothing(w)
  BY <1>0, <1>3 DEF ExecuteNothing, TypeOK, BodyDone
<1>4. CASE CountDown(w)
  <2>1. top[w] \in Tasks /\ at[top[w]] = "count"
    BY <1>0, <1>4, CountDownFacts DEF CountDown
  <2>2. step[Main] # "start"
    BY <1>0, <2>1 DEF OneTree
  <2> QED
    BY <1>0, <1>4, <2>1, <2>2 DEF CountDown, TypeOK, BodyDone
<1> QED
  BY <1>1, <1>2, <1>3, <1>4 DEF Schedule

\* The caller's Wait ends when the whole tree has run.
LEMMA SchedulePInv ==
  ASSUME PInv, NEW w \in Workers, Schedule(w)
  PROVE  PInv'
<1> USE TaskTreeAssumption DEF Frames
<1>1. /\ IInv /\ TypeOK /\ PTypeOK /\ StepsFollowStages /\ OneTree /\ EveryIndexOnce
      /\ ReturnedMeansDone
      /\ Main \in Frames /\ Main \notin Tasks
  BY DEF PInv, IInv
<1>2. /\ UNCHANGED <<maker, lineage, range, step, calls>>
      /\ \A u \in Tasks : /\ at'[u] = "unborn" <=> at[u] = "unborn"
                          /\ BodyDone(u)' <=> BodyDone(u)
      /\ step[Main] = "start" => top'[Main] = top[Main]
      /\ at'[Main] \in {"wait", "help"} =>
             at[Main] \in {"wait", "help"} /\ target'[Main] = target[Main]
  BY ScheduleFacts
<1>3. IInv'
  <2>1. [Next]_vars
    BY DEF Schedule, Next
  <2> QED
    BY <1>1, <2>1, NextIInv
<1>4. PTypeOK'
  BY <1>1, <1>2 DEF PTypeOK
<1>5. StepsFollowStages'
  BY <1>1, <1>2 DEF StepsFollowStages
<1>6. OneTree'
  BY <1>1, <1>2 DEF OneTree
<1>7. Outstanding' = Outstanding
  BY <1>2 DEF Outstanding
<1>8. EveryIndexOnce'
  BY <1>1, <1>2, <1>6, <1>7, QuietIndices
<1>9. ReturnedMeansDone'
  <2> SUFFICES ASSUME step[Main] = "over", at'[Main] = "body", NEW t \in Tasks,
                      at[t] # "unborn"
               PROVE  BodyDone(t)
    BY <1>2 DEF ReturnedMeansDone
  <2>1. CASE at[Main] = "body"
    BY <1>1, <2>1 DEF ReturnedMeansDone
  <2>2. CASE at[Main] # "body"
    <3>1. WaitCheck(w) /\ top[w] = Main /\ at[Main] = "wait" /\ jobs[target[Main]] = 0
      BY <1>1, <2>2, CountDownFacts
         DEF Schedule, WaitCheck, ExecuteOneTask, Enter, ExecuteNothing, CountDown, TypeOK
    <3>2. target[Main] \in Tasks /\ at[target[Main]] # "unborn" /\ maker[target[Main]] = Main
      BY <1>1, <3>1 DEF IInv, WellFormed, TypeOK, OneTree
    <3>3. t = target[Main] \/ target[Main] \in lineage[t]
      BY <1>1, <3>2 DEF OneTree
    <3> QED
      BY <1>1, <3>1, <3>2, <3>3, FinishedTree DEF FinishedMeansTreeDone, TreeDone
  <2> QED
    BY <2>1, <2>2
<1> QED
  BY <1>3, <1>4, <1>5, <1>6, <1>8, <1>9 DEF PInv

-----------------------------------------------------------------------------

\* Every step of the caller and of every thread keeps the invariant.
LEMMA PNextPInv ==
  ASSUME PInv, [PNext]_pvars
  PROVE  PInv'
<1> USE TaskTreeAssumption
<1>1. ASSUME NEW t \in Tasks, PushRoot(t) PROVE PInv'
  <2>1. /\ PushTask(Main, t) /\ StepTo(Main, "rest") /\ UNCHANGED <<range, calls>>
        /\ top[Main] = Main /\ step[Main] = "left"
    BY <1>1 DEF PushRoot, Running
  <2> QED
    BY <2>1, PushPInv
<1>2. ASSUME NEW w \in Workers, NEW t \in Tasks, PushChild(w, t) PROVE PInv'
  <2>1. CASE Running(w, "left") /\ StepTo(w, "half")
    BY <1>2, <2>1, PushPInv DEF PushChild
  <2>2. CASE Running(w, "rest") /\ StepTo(w, "over")
    BY <1>2, <2>2, PushPInv DEF PushChild
  <2> QED
    BY <1>2, <2>1, <2>2 DEF PushChild
<1>3. CASE UNCHANGED pvars
  BY <1>3 DEF pvars, vars, PInv, IInv, TypeOK, WellFormed, JobsCount, Holders,
     LineageUnfinished, PTypeOK, StepsFollowStages, BodyDone, OneTree, EveryIndexOnce,
     Owners, Outstanding, ReturnedMeansDone
<1> QED
  BY <1>1, <1>2, <1>3, AddRootPInv, WaitRootPInv, AddLeftPInv, AddRestPInv,
     CallFunctionPInv, FunctorReturnsPInv, SchedulePInv DEF PNext

\* The inductive invariant of xr_parallel_for.
THEOREM ParallelForInvariance == PSpec => []PInv
BY PInitPInv, PNextPInv, PTL DEF PSpec

\* No index is lost and none is handled twice, however the halves are scheduled.
THEOREM IndicesHandledOnce == PSpec => []EveryIndexOnce
<1>1. PInv => EveryIndexOnce
  BY DEF PInv
<1> QED
  BY <1>1, ParallelForInvariance, PTL

\* When xr_parallel_for returns, f has been called once for every index.
THEOREM ReturnIsComplete == PSpec => []ReturnsWhenAllCalled
<1>1. ASSUME PInv PROVE ReturnsWhenAllCalled
  <2> SUFFICES ASSUME step[Main] = "over", at[Main] = "body", NEW x \in 0 .. Last - 1
               PROVE  calls[x] = 1
    BY DEF ReturnsWhenAllCalled
  <2>1. \A t \in Tasks : at[t] = "unborn" \/ step[t] = "over"
    BY <1>1 DEF PInv, ReturnedMeansDone, StepsFollowStages
  <2>2. Owners(x) = {}
    BY <2>1 DEF Owners, Outstanding
  <2>3. Cardinality(Owners(x)) = 0
    BY <2>2, FS_EmptySet
  <2>4. calls[x] + Cardinality(Owners(x)) = 1 /\ calls[x] \in Nat
    BY <1>1 DEF PInv, EveryIndexOnce, PTypeOK
  <2> QED
    BY <2>3, <2>4
<1> QED
  BY <1>1, ParallelForInvariance, PTL
=============================================================================

-------------------------- MODULE TaskWorkers_proofs --------------------------
(***************************************************************************)
(* Proofs of TaskWorkers for any number of pool threads and tasks, with    *)
(* bodies that wait and with compare-exchanges that fail spuriously.  The  *)
(* argument: nobody leaves before shouldStop is set, and by then the main  *)
(* thread is out of all its waits (Local).  Tasks that run outside of a    *)
(* drain loop end in a wait or a loop whose thread is counted (Nested).  A *)
(* thread that leaves erases itself only when activeWorkersCount has been  *)
(* zero; who becomes active again after that meets shouldStop before it    *)
(* looks for work (Erasing).  So whoever draws an index while it is        *)
(* counted finds `workers` as long as when it read the size (Spans).       *)
(***************************************************************************)
EXTENDS TaskWorkers, TLAPS, FiniteSetTheorems, SequenceTheorems

\* In ExecuteOneTask, or in a task that was taken there.
Searching == {"own", "first", "random", "hint", "none"}
InTask == {"run", "runset"}
Calling == Searching \cup InTask \cup {"waitcheck"}

PoolOnly == {"start", "activate", "loop", "checkpause", "rest", "sleep", "woken", "leave"}
MainOnly == {"app", "appset", "stopset", "empty", "join"}
Leaving == {"drain", "unregister", "spin", "erase", "empty", "join", "exited"}
Gone == {"empty", "join", "exited"}

\* At work, or about to look for work, under the protection of the count.
Looking(th) == ~draining[th] /\ pc[th] \in Calling \cup {"checkpause"}

\* The threads between the two calls of SetThreadStatus.
Counted(th) == ~draining[th] /\ pc[th] \notin {"start", "activate", "sleep", "woken"}

CountedPool == {th \in Pool : Counted(th)}

\* Where a thread may be.
Local(th) ==
    /\ pc[th] \in PoolOnly => th # Main
    /\ pc[th] \in MainOnly => th = Main
    /\ draining[th] => shouldStop /\ pc[th] \notin PoolOnly \cup {"app", "appset", "stopset"}
    /\ pc[th] \in Leaving => draining[th]
    /\ pc[th] \in {"leave", "stopset"} => shouldStop
    /\ th = Main /\ ~draining[th] /\ pc[th] # "stopset" => ~shouldStop
    /\ pc[th] \in {"spin", "erase"} <=> workersLock = th

\* On a stack, tasks and waits take turns.
Turns(s) == \A i \in 1 .. Len(s) - 1 : s[i].kind # s[i + 1].kind

Outermost(s) == s[Len(s)].kind

\* What a thread is in the middle of.  The outermost call is a wait of the
\* application, or a task that the thread took in one of its loops.
Nested(th) ==
    /\ Turns(stack[th])
    /\ stack[th] # <<>> => (Outermost(stack[th]) = "Wait" <=> th = Main /\ ~draining[th])
    /\ pc[th] \in InTask \cup {"hint"} => stack[th] # <<>> /\ Head(stack[th]).kind = "ExecuteTask"
    /\ pc[th] = "waitcheck" => stack[th] # <<>> /\ Head(stack[th]).kind = "Wait"
    /\ pc[th] \in {"own", "first", "random", "none"} =>
          /\ stack[th] = <<>> => th # Main /\ ~draining[th]
          /\ stack[th] # <<>> => Head(stack[th]).kind = "Wait"
    /\ pc[th] \notin Calling => stack[th] = <<>>

\* A pop under way.
Pop(th) ==
    /\ seen[th] # NotSeen => pc[th] \in PopStages /\ victim[th] \in Threads
    /\ pc[th] = "random" => attempts[th] # 0

\* After the first removal nobody is about to index the vector.
Erasing == \A th, x \in Threads : pc[th] \in Gone \cup {"erase"} => ~Looking(x)

Registered ==
    /\ \A i, j \in 1 .. Len(workers) : workers[i] = workers[j] => i = j
    /\ \A th \in Threads : (\E i \in 1 .. Len(workers) : workers[i] = th)
                             <=> pc[th] \notin Gone \cup {"start"}
    /\ (\A th \in Threads : pc[th] \notin Gone) =>
          \A i \in 1 .. Len(workers) : id[workers[i]] = i - 1

\* What TryToSteal has read of the vector.
Spans ==
    \A th \in Threads :
        pc[th] = "random" /\ ~draining[th] => span[th] \in 1 .. Len(workers)

IInv ==
    /\ TypeOK /\ ActiveCountExact
    /\ \A th \in Threads : Local(th) /\ Nested(th) /\ Pop(th)
    /\ Erasing /\ Registered /\ Spans

-----------------------------------------------------------------------------

\* Types of what is counted and compared.
LEMMA Numbers ==
  ASSUME TypeOK
  PROVE  /\ activeWorkersCount \in Nat
         /\ workers \in Seq(Threads) /\ Len(workers) \in Nat
         /\ \A i \in 1 .. Len(workers) : workers[i] \in Threads
         /\ Main \in Threads /\ StealAttempts \in Nat \ {0}
         /\ \A th \in Threads : /\ head[th] \in Nat /\ tail[th] \in Nat /\ span[th] \in Nat
                                /\ attempts[th] \in 0 .. StealAttempts
<1>1. activeWorkersCount \in Nat /\ workers \in Seq(Threads)
  BY DEF TypeOK
<1>2. \A th \in Threads : /\ head[th] \in Nat /\ tail[th] \in Nat /\ span[th] \in Nat
                          /\ attempts[th] \in 0 .. StealAttempts
  BY DEF TypeOK
<1> QED
  BY <1>1, <1>2, TaskWorkersAssumption DEF Threads

-----------------------------------------------------------------------------
(* Counting.                                                               *)

\* The counted threads are finitely many.
LEMMA CountedFinite == IsFiniteSet(CountedPool)
<1>1. CountedPool \subseteq Pool
  BY DEF CountedPool
<1> QED
  BY <1>1, FS_Subset, TaskWorkersAssumption

\* The property counts the set that the proofs name.
LEMMA CountExact ==
  ActiveCountExact <=> activeWorkersCount = Cardinality(CountedPool)
BY DEF ActiveCountExact, CountedPool, Counted

\* A step that nobody's status changes in leaves the count exact.
LEMMA CountSame ==
  ASSUME ActiveCountExact, activeWorkersCount' = activeWorkersCount,
         \A x \in Pool : Counted(x)' <=> Counted(x)
  PROVE  ActiveCountExact'
<1>1. CountedPool' = CountedPool
  BY DEF CountedPool
<1>2. activeWorkersCount = Cardinality(CountedPool)
  BY CountExact
<1>3. ActiveCountExact' <=> activeWorkersCount' = Cardinality(CountedPool')
  BY DEF ActiveCountExact, CountedPool, Counted
<1> QED
  BY <1>1, <1>2, <1>3

\* SetThreadStatus(true) counts one thread more.
LEMMA CountUp ==
  ASSUME TypeOK, ActiveCountExact, NEW th \in Pool, ~Counted(th), Counted(th)',
         activeWorkersCount' = activeWorkersCount + 1,
         \A x \in Pool \ {th} : Counted(x)' <=> Counted(x)
  PROVE  ActiveCountExact'
<1>1. CountedPool' = CountedPool \cup {th} /\ th \notin CountedPool
  BY DEF CountedPool
<1>2. Cardinality(CountedPool') = Cardinality(CountedPool) + 1
  BY <1>1, CountedFinite, FS_AddElement
<1>3. activeWorkersCount = Cardinality(CountedPool)
  BY CountExact
<1>4. ActiveCountExact' <=> activeWorkersCount' = Cardinality(CountedPool')
  BY DEF ActiveCountExact, CountedPool, Counted
<1> QED
  BY <1>2, <1>3, <1>4

\* SetThreadStatus(false) one less; the count does not wrap.
LEMMA CountDown ==
  ASSUME TypeOK, ActiveCountExact, NEW th \in Pool, Counted(th), ~Counted(th)',
         activeWorkersCount' = activeWorkersCount - 1,
         \A x \in Pool \ {th} : Counted(x)' <=> Counted(x)
  PROVE  ActiveCountExact' /\ activeWorkersCount' \in Nat
<1>1. CountedPool' = CountedPool \ {th} /\ th \in CountedPool
  BY DEF CountedPool
<1>2. /\ Cardinality(CountedPool') = Cardinality(CountedPool) - 1
      /\ IsFiniteSet(CountedPool')
  BY <1>1, CountedFinite, FS_RemoveElement
<1>3. activeWorkersCount = Cardinality(CountedPool)
  BY CountExact
<1>4. ActiveCountExact' <=> activeWorkersCount' = Cardinality(CountedPool')
  BY DEF ActiveCountExact, CountedPool, Counted
<1>5. Cardinality(CountedPool') \in Nat
  BY <1>2, FS_CardinalityType
<1> QED
  BY <1>2, <1>3, <1>4, <1>5

\* A count of zero means that no thread is active.
LEMMA NobodyCounted ==
  ASSUME ActiveCountExact, activeWorkersCount = 0
  PROVE  \A x \in Pool : ~Counted(x)
<1>1. Cardinality(CountedPool) = 0
  BY CountExact
<1>2. CountedPool = {}
  BY <1>1, CountedFinite, FS_EmptySet
<1> QED
  BY <1>2 DEF CountedPool

-----------------------------------------------------------------------------
(* The stack of calls.                                                     *)

\* A call is pushed.
LEMMA CallPushes ==
  ASSUME NEW s \in Seq(Frames), NEW f \in Frames, Turns(s), s # <<>> => f.kind # Head(s).kind
  PROVE  /\ <<f>> \o s \in Seq(Frames) /\ <<f>> \o s # <<>> /\ Head(<<f>> \o s) = f
         /\ Turns(<<f>> \o s)
         /\ Outermost(<<f>> \o s) = IF s = <<>> THEN f.kind ELSE Outermost(s)
<1> DEFINE t == <<f>> \o s
<1>1. /\ t \in Seq(Frames) /\ Len(t) = Len(s) + 1 /\ Len(s) \in Nat
      /\ t[1] = f /\ \A i \in 1 .. Len(s) : t[i + 1] = s[i]
  <2>1. <<f>> \in Seq(Frames) /\ Len(<<f>>) = 1 /\ <<f>>[1] = f
    OBVIOUS
  <2>2. /\ t \in Seq(Frames) /\ Len(t) = 1 + Len(s)
        /\ \A i \in 1 .. 1 + Len(s) : t[i] = IF i <= 1 THEN <<f>>[i] ELSE s[i - 1]
    BY <2>1, ConcatProperties
  <2>3. Len(s) \in Nat
    BY LenProperties
  <2> QED
    BY <2>1, <2>2, <2>3
<1> HIDE DEF t
<1>2. t # <<>> /\ Head(t) = f
  BY <1>1, EmptySeq, HeadTailProperties
<1>3. s # <<>> => s[1] = Head(s) /\ Len(s) \in Nat \ {0}
  BY <1>1, EmptySeq, HeadTailProperties
<1>4. Turns(t)
  <2> SUFFICES ASSUME NEW i \in 1 .. Len(t) - 1 PROVE t[i].kind # t[i + 1].kind
    BY DEF Turns
  <2>1. CASE i = 1
    <3>1. s # <<>> /\ t[2] = s[1]
      BY <1>1, <2>1, EmptySeq
    <3> QED
      BY <1>1, <1>3, <2>1, <3>1
  <2>2. CASE i # 1
    <3>1. i - 1 \in 1 .. Len(s) - 1 /\ i - 1 \in 1 .. Len(s) /\ i \in 1 .. Len(s) /\ (i - 1) + 1 = i
      BY <1>1, <2>2
    <3>2. t[i] = s[i - 1] /\ t[i + 1] = s[i]
      BY <1>1, <3>1
    <3>3. s[i - 1].kind # s[i].kind
      BY <3>1 DEF Turns
    <3> QED
      BY <3>2, <3>3
  <2> QED
    BY <2>1, <2>2
<1>5. Outermost(t) = IF s = <<>> THEN f.kind ELSE Outermost(s)
  <2>1. CASE s = <<>>
    <3>1. Len(t) = 1
      BY <1>1, <2>1, EmptySeq
    <3> QED
      BY <1>1, <2>1, <3>1 DEF Outermost
  <2>2. CASE s # <<>>
    <3>1. Len(s) \in 1 .. Len(s)
      BY <1>3, <2>2
    <3>2. t[Len(t)] = s[Len(s)]
      BY <1>1, <3>1
    <3> QED
      BY <2>2, <3>2 DEF Outermost
  <2> QED
    BY <2>1, <2>2
<1> QED
  BY <1>1, <1>2, <1>4, <1>5 DEF t

\* The innermost call returns to the one below it, which is of the other kind.
LEMMA CallReturns ==
  ASSUME NEW s \in Seq(Frames), Turns(s), s # <<>>
  PROVE  /\ Tail(s) \in Seq(Frames) /\ Turns(Tail(s)) /\ Head(s) \in Frames
         /\ Len(s) > 1 <=> Tail(s) # <<>>
         /\ Tail(s) # <<>> => Head(Tail(s)).kind # Head(s).kind /\ Outermost(Tail(s)) = Outermost(s)
         /\ Tail(s) = <<>> => Outermost(s) = Head(s).kind
<1> DEFINE t == Tail(s)
<1>1. /\ t \in Seq(Frames) /\ Len(t) = Len(s) - 1 /\ Len(s) \in Nat \ {0}
      /\ Head(s) \in Frames /\ Head(s) = s[1]
      /\ \A i \in 1 .. Len(t) : t[i] = s[i + 1]
  <2>1. Len(s) \in Nat /\ Len(s) # 0
    BY LenProperties, EmptySeq
  <2> QED
    BY <2>1, HeadTailProperties
<1> HIDE DEF t
<1>2. t # <<>> <=> Len(s) > 1
  BY <1>1, EmptySeq
<1>3. Turns(t)
  <2> SUFFICES ASSUME NEW i \in 1 .. Len(t) - 1 PROVE t[i].kind # t[i + 1].kind
    BY DEF Turns
  <2>1. i + 1 \in 1 .. Len(s) - 1 /\ i \in 1 .. Len(t) /\ i + 1 \in 1 .. Len(t)
    BY <1>1
  <2> QED
    BY <1>1, <2>1 DEF Turns
<1>4. ASSUME t # <<>> PROVE Head(t).kind # Head(s).kind /\ Outermost(t) = Outermost(s)
  <2>1. 1 \in 1 .. Len(s) - 1 /\ 1 \in 1 .. Len(t) /\ Len(t) \in 1 .. Len(t)
    BY <1>1, <1>2, <1>4
  <2>2. Head(t) = t[1] /\ t[1] = s[2] /\ t[Len(t)] = s[Len(s)]
    BY <1>1, <1>4, <2>1, HeadTailProperties
  <2> QED
    BY <1>1, <2>1, <2>2 DEF Turns, Outermost
<1>5. t = <<>> => Len(s) = 1
  BY <1>1, <1>2
<1> QED
  BY <1>1, <1>2, <1>3, <1>4, <1>5 DEF t, Outermost

\* Two calls are pushed one after the other.
LEMMA TwoCalls ==
  ASSUME NEW s \in Seq(Frames), NEW w \in Frames, NEW b \in Frames
  PROVE  <<w, b>> \o s = <<w>> \o (<<b>> \o s)
<1>1. <<w>> \in Seq(Frames) /\ <<b>> \in Seq(Frames)
  OBVIOUS
<1>2. (<<w>> \o <<b>>) \o s = <<w>> \o (<<b>> \o s)
  BY <1>1, ConcatAssociative
<1>3. <<w, b>> = <<w>> \o <<b>>
  <2>1. /\ <<w>> \o <<b>> \in Seq(Frames) /\ Len(<<w>> \o <<b>>) = Len(<<w>>) + Len(<<b>>)
        /\ \A i \in 1 .. Len(<<w>>) + Len(<<b>>) :
              (<<w>> \o <<b>>)[i] = IF i <= Len(<<w>>) THEN <<w>>[i] ELSE <<b>>[i - Len(<<w>>)]
    BY <1>1, ConcatProperties
  <2>2. /\ <<w, b>> \in Seq(Frames) /\ Len(<<w, b>>) = 2 /\ Len(<<w>>) = 1 /\ Len(<<b>>) = 1
        /\ <<w, b>>[1] = w /\ <<w, b>>[2] = b /\ <<w>>[1] = w /\ <<b>>[1] = b
    OBVIOUS
  <2>3. \A i \in 1 .. Len(<<w, b>>) : <<w, b>>[i] = (<<w>> \o <<b>>)[i]
    <3>1. \A i \in 1 .. Len(<<w, b>>) : i = 1 \/ i = 2
      BY <2>2
    <3>2. (<<w>> \o <<b>>)[1] = w /\ (<<w>> \o <<b>>)[2] = b
      <4>1. 1 \in 1 .. Len(<<w>>) + Len(<<b>>) /\ 2 \in 1 .. Len(<<w>>) + Len(<<b>>)
        BY <2>2
      <4>2. (<<w>> \o <<b>>)[1] = IF 1 <= Len(<<w>>) THEN <<w>>[1] ELSE <<b>>[1 - Len(<<w>>)]
        BY <2>1, <4>1
      <4>3. (<<w>> \o <<b>>)[2] = IF 2 <= Len(<<w>>) THEN <<w>>[2] ELSE <<b>>[2 - Len(<<w>>)]
        BY <2>1, <4>1
      <4>4. Len(<<w>>) = 1 /\ <<w>>[1] = w /\ <<b>>[1] = b
        BY <2>2
      <4> QED
        BY <4>2, <4>3, <4>4
    <3> QED
      BY <2>2, <3>1, <3>2
  <2>4. Len(<<w, b>>) = Len(<<w>> \o <<b>>)
    BY <2>1, <2>2
  <2> QED
    BY <2>1, <2>2, <2>3, <2>4, SeqEqual
<1> QED
  BY <1>2, <1>3

-----------------------------------------------------------------------------
(* A step of one thread.                                                   *)

\* The step changes the local variables of th only.
OnlyOf(th) ==
    \A x \in Threads \ {th} :
        /\ pc'[x] = pc[x] /\ draining'[x] = draining[x] /\ stack'[x] = stack[x]
        /\ seen'[x] = seen[x] /\ victim'[x] = victim[x]
        /\ attempts'[x] = attempts[x] /\ span'[x] = span[x]

\* The step does not change who is registered, who leaves and whether to stop.
Calm == UNCHANGED <<workers, id, workersLock, shouldStop>>

\* Nor does it change whether th is counted.
LEMMA CountKept ==
  ASSUME IInv, NEW th \in Threads, OnlyOf(th), activeWorkersCount' = activeWorkersCount,
         th # Main => (Counted(th)' <=> Counted(th))
  PROVE  ActiveCountExact'
<1>1. \A x \in Pool : Counted(x)' <=> Counted(x)
  BY TaskWorkersAssumption DEF OnlyOf, Counted, Threads
<1> QED
  BY <1>1, CountSame DEF IInv

\* The step leaves the vector alone; it may take or release the lock, and the
\* main thread may set shouldStop.
Mild(th) ==
    /\ UNCHANGED <<workers, id>>
    /\ shouldStop => shouldStop'
    /\ th # Main => shouldStop' = shouldStop
    /\ \A x \in Threads \ {th} : (workersLock' = x) <=> (workersLock = x)

\* What a thread does between its registration and its removal disturbs nobody:
\* the invariant is a matter of that thread alone.
LEMMA LifeStep ==
  ASSUME IInv, TypeOK', ActiveCountExact', NEW th \in Threads, OnlyOf(th), Mild(th),
         pc[th] # "start", pc'[th] # "start", pc'[th] \in Gone <=> pc[th] \in Gone,
         Local(th)', Nested(th)', Pop(th)',
         Looking(th)' => Looking(th) \/ ~shouldStop,
         pc'[th] = "erase" /\ pc[th] # "erase" => \A x \in Threads : ~Looking(x)',
         pc'[th] = "random" /\ ~draining'[th] => span'[th] \in 1 .. Len(workers)
  PROVE  IInv'
<1>1. Main \in Threads /\ \A x \in Threads \ {th} : pc'[x] = pc[x] /\ draining'[x] = draining[x]
  BY DEF OnlyOf, Threads
<1>2. \A x \in Threads : Local(x)' /\ Nested(x)' /\ Pop(x)'
  <2> SUFFICES ASSUME NEW x \in Threads \ {th} PROVE Local(x)' /\ Nested(x)' /\ Pop(x)'
    OBVIOUS
  <2>1. Pop(x)'
    BY DEF IInv, Pop, OnlyOf
  <2>2. Local(x)'
    BY <1>1 DEF IInv, Local, Mild
  <2>3. Nested(x)'
    BY DEF IInv, Nested, OnlyOf
  <2> QED
    BY <2>1, <2>2, <2>3
<1>3. Erasing'
  <2> SUFFICES ASSUME NEW y \in Threads, NEW x \in Threads, pc'[y] \in Gone \cup {"erase"}, Looking(x)'
               PROVE  FALSE
    BY DEF Erasing
  <2>1. pc[y] \in Gone \cup {"erase"}
    BY <1>1
  <2>2. shouldStop /\ ~Looking(x)
    BY <2>1 DEF IInv, Local, Erasing, Gone, Leaving
  <2>3. CASE x = th
    BY <2>2, <2>3
  <2>4. CASE x # th
    BY <1>1, <2>2, <2>4 DEF Looking
  <2> QED
    BY <2>3, <2>4
<1>4. Registered'
  BY <1>1 DEF IInv, Registered, Mild
<1>5. Spans'
  BY <1>1 DEF IInv, Spans, OnlyOf, Mild
<1> QED
  BY <1>2, <1>3, <1>4, <1>5 DEF IInv

\* The case of a step that leaves the lock and shouldStop alone too.
LEMMA ThreadStep ==
  ASSUME IInv, TypeOK', ActiveCountExact', NEW th \in Threads, OnlyOf(th), Calm,
         pc[th] \notin Gone \cup {"start"}, pc'[th] \notin Gone \cup {"start", "erase"},
         Local(th)', Nested(th)', Pop(th)',
         Looking(th)' => Looking(th) \/ ~shouldStop,
         pc'[th] = "random" /\ ~draining'[th] => span'[th] \in 1 .. Len(workers)
  PROVE  IInv'
<1>1. Mild(th)
  BY DEF Calm, Mild
<1> QED
  BY <1>1, LifeStep

-----------------------------------------------------------------------------
(* The loop of a pool thread.                                              *)

\* The loop condition: shouldStop is read, and the thread goes on or leaves.
LEMMA CheckStopIInv ==
  ASSUME IInv, NEW th \in Threads, CheckStop(th)
  PROVE  IInv'
<1>1. /\ pc[th] = "loop" /\ pc'[th] = IF shouldStop THEN "leave" ELSE "checkpause"
      /\ OnlyOf(th) /\ Calm /\ activeWorkersCount' = activeWorkersCount
      /\ UNCHANGED <<draining, stack, seen>>
  BY DEF CheckStop, Goto, OnlyOf, Calm, pool, calls, popping, IInv, TypeOK
<1>2. TypeOK'
  BY DEF CheckStop, Goto, pool, rings, calls, popping, IInv, TypeOK
<1>3. ActiveCountExact'
  BY <1>1, CountKept DEF Counted
<1>4. th # Main /\ Local(th)' /\ Nested(th)' /\ Pop(th)'
  <2>1. th # Main /\ ~draining[th] /\ stack[th] = <<>>
    BY <1>1 DEF IInv, Local, Nested, PoolOnly, Calling, Searching, InTask
  <2>2. Local(th)'
    BY <1>1, <2>1 DEF IInv, Local, Calm, PoolOnly, MainOnly, Leaving
  <2>3. Nested(th)' /\ Pop(th)'
    BY <1>1, <2>1 DEF IInv, Nested, Pop, Calling, Searching, InTask, PopStages
  <2> QED
    BY <2>1, <2>2, <2>3
<1>5. Looking(th)' => ~shouldStop
  BY <1>1 DEF Looking, Calling, Searching, InTask
<1> QED
  BY <1>1, <1>2, <1>3, <1>4, <1>5, ThreadStep DEF Gone

\* shouldPause is read; the thread looks for work or goes to rest.
LEMMA CheckPauseIInv ==
  ASSUME IInv, NEW th \in Threads, CheckPause(th)
  PROVE  IInv'
<1>1. /\ pc[th] = "checkpause" /\ pc'[th] = IF shouldPause THEN "rest" ELSE "own"
      /\ OnlyOf(th) /\ Calm /\ activeWorkersCount' = activeWorkersCount
      /\ UNCHANGED <<draining, stack, seen>>
  BY DEF CheckPause, Goto, OnlyOf, Calm, pool, calls, popping, IInv, TypeOK
<1>2. TypeOK'
  BY DEF CheckPause, Goto, pool, rings, calls, popping, IInv, TypeOK, PopStages
<1>3. ActiveCountExact'
  BY <1>1, CountKept DEF Counted
<1>4. th # Main /\ ~draining[th] /\ stack[th] = <<>>
  BY <1>1 DEF IInv, Local, Nested, PoolOnly, Calling, Searching, InTask
<1>5. Local(th)'
  BY <1>1, <1>4 DEF IInv, Local, Calm, PoolOnly, MainOnly, Leaving
<1>6. Nested(th)' /\ Pop(th)'
  BY <1>1, <1>4 DEF IInv, Nested, Pop, Calling, Searching, InTask, PopStages
<1>7. Looking(th)
  BY <1>1, <1>4 DEF Looking
<1> QED
  BY <1>1, <1>2, <1>3, <1>5, <1>6, <1>7, ThreadStep DEF Gone

\* The thread wakes from the event and reads shouldPause again.
LEMMA SleepIInv ==
  ASSUME IInv, NEW th \in Threads, EventWait(th) \/ CheckPauseAgain(th)
  PROVE  IInv'
<1>1. /\ pc[th] \in {"sleep", "woken"} /\ pc'[th] \in {"sleep", "woken", "activate"}
      /\ OnlyOf(th) /\ Calm /\ activeWorkersCount' = activeWorkersCount
      /\ UNCHANGED <<draining, stack, seen>>
  BY DEF EventWait, CheckPauseAgain, Goto, OnlyOf, Calm, pool, calls, popping, rings, IInv, TypeOK
<1>2. TypeOK'
  BY DEF EventWait, CheckPauseAgain, Goto, pool, rings, calls, popping, IInv, TypeOK
<1>3. ActiveCountExact'
  BY <1>1, CountKept DEF Counted
<1>4. th # Main /\ ~draining[th] /\ stack[th] = <<>>
  BY <1>1 DEF IInv, Local, Nested, PoolOnly, Calling, Searching, InTask
<1>5. Local(th)'
  BY <1>1, <1>4 DEF IInv, Local, Calm, PoolOnly, MainOnly, Leaving
<1>6. Nested(th)' /\ Pop(th)'
  BY <1>1, <1>4 DEF IInv, Nested, Pop, Calling, Searching, InTask, PopStages
<1>7. ~Looking(th)'
  BY <1>1 DEF Looking, Calling, Searching, InTask
<1> QED
  BY <1>1, <1>2, <1>3, <1>5, <1>6, <1>7, ThreadStep DEF Gone

\* SetThreadStatus(true): the count goes up with the thread that is counted.
LEMMA ActivateIInv ==
  ASSUME IInv, NEW th \in Threads, Activate(th)
  PROVE  IInv'
<1>1. /\ pc[th] = "activate" /\ pc'[th] = "loop" /\ OnlyOf(th) /\ Calm
      /\ activeWorkersCount' = activeWorkersCount + 1
      /\ UNCHANGED <<draining, stack, seen>>
  BY DEF Activate, Goto, OnlyOf, Calm, calls, popping, rings, IInv, TypeOK
<1>2. TypeOK'
  <2>1. activeWorkersCount' \in Nat
    BY <1>1, Numbers DEF IInv
  <2> QED
    BY <2>1 DEF Activate, Goto, rings, calls, popping, IInv, TypeOK
<1>3. th # Main /\ ~draining[th] /\ stack[th] = <<>>
  BY <1>1 DEF IInv, Local, Nested, PoolOnly, Calling, Searching, InTask
<1>4. Local(th)'
  BY <1>1, <1>3 DEF IInv, Local, Calm, PoolOnly, MainOnly, Leaving
<1>5. Nested(th)' /\ Pop(th)'
  BY <1>1, <1>3 DEF IInv, Nested, Pop, Calling, Searching, InTask, PopStages
<1>6. ActiveCountExact'
  <2>1. th \in Pool /\ ~Counted(th) /\ Counted(th)' /\ \A x \in Pool \ {th} : Counted(x)' <=> Counted(x)
    BY <1>1, <1>3 DEF Counted, OnlyOf, Threads
  <2> QED
    BY <1>1, <2>1, CountUp DEF IInv
<1>7. ~Looking(th)'
  BY <1>1 DEF Looking, Calling, Searching, InTask
<1> QED
  BY <1>1, <1>2, <1>4, <1>5, <1>6, <1>7, ThreadStep DEF Gone

\* SetThreadStatus(false), before sleeping and before leaving.
LEMMA DeactivateIInv ==
  ASSUME IInv, NEW th \in Threads, Deactivate(th)
  PROVE  IInv'
<1>1. /\ \/ pc[th] = "rest" /\ pc'[th] = "sleep" /\ draining' = draining
         \/ pc[th] = "leave" /\ pc'[th] = "drain" /\ draining'[th] = TRUE
      /\ OnlyOf(th) /\ Calm /\ activeWorkersCount' = activeWorkersCount - 1
      /\ UNCHANGED <<stack, seen>>
  BY DEF Deactivate, Goto, OnlyOf, Calm, popping, rings, IInv, TypeOK
<1>2. th # Main /\ ~draining[th] /\ stack[th] = <<>> /\ (pc[th] = "leave" => shouldStop)
  BY <1>1 DEF IInv, Local, Nested, PoolOnly, Calling, Searching, InTask
<1>3. Local(th)'
  BY <1>1, <1>2 DEF IInv, Local, Calm, PoolOnly, MainOnly, Leaving
<1>4. Nested(th)' /\ Pop(th)'
  BY <1>1, <1>2 DEF IInv, Nested, Pop, Calling, Searching, InTask, PopStages
<1>5. ActiveCountExact' /\ activeWorkersCount' \in Nat
  <2>1. th \in Pool /\ Counted(th) /\ ~Counted(th)' /\ \A x \in Pool \ {th} : Counted(x)' <=> Counted(x)
    BY <1>1, <1>2 DEF Counted, OnlyOf, Threads
  <2> QED
    BY <1>1, <2>1, CountDown DEF IInv
<1>6. TypeOK'
  BY <1>5 DEF Deactivate, Goto, rings, popping, IInv, TypeOK, PopStages
<1>7. ~Looking(th)'
  BY <1>1 DEF Looking, Calling, Searching, InTask
<1> QED
  BY <1>1, <1>3, <1>4, <1>5, <1>6, <1>7, ThreadStep DEF Gone

-----------------------------------------------------------------------------
(* ExecuteOneTask.                                                         *)

\* The next stage.  Whoever is counted has read a size that is not zero: it is
\* in the vector itself.
LEMMA NextStageIInv ==
  ASSUME IInv, NEW th \in Threads, NextStage(th),
         UNCHANGED <<pool, newWorkArrived, rings, calls, sets>>
  PROVE  IInv'
<1>1. /\ \/ pc[th] = "own" /\ pc'[th] = "first" /\ UNCHANGED <<span, attempts>>
         \/ /\ pc[th] = "first" /\ pc'[th] = "random"
            /\ span'[th] = Len(workers) /\ attempts'[th] = StealAttempts
         \/ /\ pc[th] = "random" /\ attempts[th] = 1 /\ pc'[th] = "none"
            /\ span'[th] = 0 /\ attempts'[th] = attempts[th] - 1
         \/ /\ pc[th] = "random" /\ attempts[th] # 1 /\ pc'[th] = "random"
            /\ span'[th] = span[th] /\ attempts'[th] = attempts[th] - 1
         \/ pc[th] = "drain" /\ pc'[th] = "unregister" /\ UNCHANGED <<span, attempts>>
      /\ seen'[th] = NotSeen
      /\ OnlyOf(th) /\ Calm /\ activeWorkersCount' = activeWorkersCount
      /\ UNCHANGED <<draining, stack>>
  BY DEF NextStage, Goto, OnlyOf, Calm, pool, rings, calls, PopStages, IInv, TypeOK
<1>2. attempts'[th] \in 0 .. StealAttempts /\ span'[th] \in Nat /\ (pc'[th] = "random" => attempts'[th] # 0)
  <2>1. /\ attempts[th] \in 0 .. StealAttempts /\ span[th] \in Nat /\ StealAttempts \in Nat \ {0}
        /\ Len(workers) \in Nat /\ (pc[th] = "random" => attempts[th] # 0)
    BY Numbers DEF IInv, Pop
  <2> QED
    BY <1>1, <2>1
<1>3. TypeOK'
  BY <1>2 DEF NextStage, Goto, pool, rings, calls, PopStages, IInv, TypeOK
<1>4. ActiveCountExact'
  BY <1>1, CountKept DEF Counted, PopStages
<1>5. Local(th)'
  BY <1>1 DEF IInv, Local, Calm, PoolOnly, MainOnly, Leaving, PopStages
<1>6. Pop(th)'
  BY <1>1, <1>2 DEF Pop
<1>7. Nested(th)'
  BY <1>1 DEF IInv, Local, Nested, Leaving, Calling, Searching, InTask
<1>8. Looking(th)' => Looking(th)
  BY <1>1 DEF IInv, Local, Leaving, Looking, Calling, Searching, InTask
<1>9. pc'[th] = "random" /\ ~draining'[th] => span'[th] \in 1 .. Len(workers)
  <2>1. CASE pc[th] = "first"
    <3>1. PICK i \in 1 .. Len(workers) : workers[i] = th
      BY <2>1 DEF IInv, Registered, Gone
    <3> QED
      BY <1>1, <2>1, <3>1, Numbers DEF IInv
  <2>2. CASE pc[th] = "random"
    BY <1>1, <2>2 DEF IInv, Spans
  <2> QED
    BY <1>1, <2>1, <2>2
<1>10. pc[th] \notin Gone \cup {"start"} /\ pc'[th] \notin Gone \cup {"start", "erase"}
  BY <1>1 DEF Gone, PopStages
<1> QED
  BY <1>1, <1>3, <1>4, <1>5, <1>6, <1>7, <1>8, <1>9, <1>10, ThreadStep

\* A pop reads the head of a ring, or finds it empty.
LEMMA PopReadIInv ==
  ASSUME IInv, NEW th \in Threads, PopRead(th)
  PROVE  IInv'
<1>1. /\ pc[th] \in PopStages /\ seen[th] = NotSeen
      /\ UNCHANGED <<pool, newWorkArrived, rings, calls, sets>>
  BY DEF PopRead
<1>2. PICK v \in Victims(th) :
        \/ Empty(v) /\ NextStage(th)
        \/ /\ ~Empty(v)
           /\ victim' = [victim EXCEPT ![th] = v]
           /\ seen' = [seen EXCEPT ![th] = head[v]]
           /\ UNCHANGED <<pc, span, attempts>>
  BY DEF PopRead
<1>3. v \in Threads
  <2>1. ASSUME NEW i \in Nat \ {0} PROVE WorkersAt(i) \subseteq Threads
    <3>1. i <= Len(workers) => i \in 1 .. Len(workers)
      BY Numbers DEF IInv
    <3> QED
      BY <3>1, Numbers DEF WorkersAt, IInv
  <2>2. CASE pc[th] \in {"own", "drain"}
    BY <2>2 DEF Victims
  <2>3. CASE pc[th] = "first"
    BY <2>1, <2>3 DEF Victims
  <2>4. CASE pc[th] = "random"
    <3>1. PICK i \in 1 .. span[th] : v \in WorkersAt(i)
      BY <2>4 DEF Victims
    <3>2. i \in Nat \ {0}
      BY Numbers DEF IInv
    <3> QED
      BY <2>1, <3>1, <3>2
  <2> QED
    BY <1>1, <2>2, <2>3, <2>4 DEF PopStages
<1>4. CASE Empty(v) /\ NextStage(th)
  BY <1>1, <1>4, NextStageIInv
<1>5. CASE /\ victim' = [victim EXCEPT ![th] = v]
           /\ seen' = [seen EXCEPT ![th] = head[v]]
           /\ UNCHANGED <<pc, span, attempts>>
  <2>1. /\ OnlyOf(th) /\ Calm /\ activeWorkersCount' = activeWorkersCount
        /\ pc' = pc /\ victim'[th] = v /\ seen'[th] = head[v]
        /\ UNCHANGED <<draining, stack, span, attempts>>
    BY <1>1, <1>5 DEF OnlyOf, Calm, pool, rings, calls, IInv, TypeOK
  <2>2. TypeOK'
    BY <1>1, <1>3, <1>5 DEF pool, rings, calls, IInv, TypeOK
  <2>3. ActiveCountExact'
    BY <2>1, CountKept DEF Counted
  <2>4. Local(th)' /\ Nested(th)' /\ Pop(th)'
    BY <1>1, <1>3, <2>1 DEF IInv, Local, Nested, Pop, Calm
  <2>5. Looking(th)' => Looking(th)
    BY <2>1 DEF Looking
  <2>6. pc[th] \notin Gone \cup {"start"} /\ pc'[th] \notin Gone \cup {"start", "erase"}
    BY <1>1, <2>1 DEF Gone, PopStages
  <2> QED
    BY <2>1, <2>2, <2>3, <2>4, <2>5, <2>6, ThreadStep DEF IInv, Spans
<1> QED
  BY <1>2, <1>4, <1>5

\* A compare-exchange gives the thread the task at the head it read.
LEMMA PopClaimIInv ==
  ASSUME IInv, NEW th \in Threads, PopClaim(th)
  PROVE  IInv'
<1> DEFINE f == Frame("ExecuteTask", <<victim[th], seen[th]>>, tail[th])
<1>1. pc[th] \in PopStages /\ victim[th] \in Threads /\ seen[th] \in Nat
  <2>1. pc[th] \in PopStages /\ victim[th] \in Threads /\ seen[th] # NotSeen
    BY DEF PopClaim, IInv, Pop
  <2> QED
    BY <2>1 DEF IInv, TypeOK
<1>2. f \in Frames /\ f.kind = "ExecuteTask"
  <2>1. <<victim[th], seen[th]>> \in Threads \X Nat /\ tail[th] \in Nat
    BY <1>1, Numbers DEF IInv
  <2> QED
    BY <2>1 DEF Frame, Frames
<1>3. /\ stack[th] \in Seq(Frames) /\ Turns(stack[th])
      /\ stack[th] # <<>> => f.kind # Head(stack[th]).kind
      /\ stack[th] # <<>> => (Outermost(stack[th]) = "Wait" <=> th = Main /\ ~draining[th])
      /\ stack[th] = <<>> => ~(th = Main /\ ~draining[th])
  <2>1. stack[th] \in Seq(Frames)
    BY DEF IInv, TypeOK
  <2>2. stack[th] # <<>> => Head(stack[th]).kind = "Wait"
    BY <1>1 DEF IInv, Nested, PopStages, Calling, Searching, InTask
  <2>3. stack[th] = <<>> => ~(th = Main /\ ~draining[th])
    BY <1>1 DEF IInv, Nested, Local, Leaving, PopStages
  <2>4. /\ Turns(stack[th])
        /\ stack[th] # <<>> => (Outermost(stack[th]) = "Wait" <=> th = Main /\ ~draining[th])
    BY DEF IInv, Nested
  <2> QED
    BY <1>2, <2>1, <2>2, <2>3, <2>4
<1> HIDE DEF f
<1>4. /\ <<f>> \o stack[th] \in Seq(Frames) /\ <<f>> \o stack[th] # <<>>
      /\ Head(<<f>> \o stack[th]) = f /\ Turns(<<f>> \o stack[th])
      /\ Outermost(<<f>> \o stack[th]) = IF stack[th] = <<>> THEN f.kind ELSE Outermost(stack[th])
  BY <1>2, <1>3, CallPushes
<1>5. stack' = [stack EXCEPT ![th] = <<f>> \o stack[th]]
  BY DEF PopClaim, f
<1>6. /\ pc' = [pc EXCEPT ![th] = IF pc[th] = "random" THEN "hint" ELSE "run"]
      /\ victim' = victim \/ victim' = [victim EXCEPT ![th] = NoThread]
      /\ seen' = [seen EXCEPT ![th] = NotSeen]
      /\ span' = [span EXCEPT ![th] = 0] /\ attempts' = [attempts EXCEPT ![th] = 0]
  BY DEF PopClaim, Goto
<1>7. OnlyOf(th) /\ Calm /\ activeWorkersCount' = activeWorkersCount /\ draining' = draining
  <2>1. OnlyOf(th)
    BY <1>5, <1>6 DEF OnlyOf, PopClaim, IInv, TypeOK
  <2> QED
    BY <2>1 DEF PopClaim, Calm, pool
<1>8. /\ pc'[th] = (IF pc[th] = "random" THEN "hint" ELSE "run") /\ seen'[th] = NotSeen
      /\ stack'[th] = <<f>> \o stack[th]
  BY <1>5, <1>6 DEF IInv, TypeOK
<1>9. TypeOK'
  <2>1. /\ victim' \in [Threads -> Threads \cup {NoThread}]
        /\ span' \in [Threads -> Nat] /\ seen' \in [Threads -> Nat \cup {NotSeen}]
    BY <1>6 DEF IInv, TypeOK
  <2>2. attempts' \in [Threads -> 0 .. StealAttempts]
    <3>1. 0 \in 0 .. StealAttempts
      BY TaskWorkersAssumption
    <3> QED
      BY <1>6, <3>1 DEF IInv, TypeOK
  <2>3. head' \in [Threads -> Nat]
    <3>1. head \in [Threads -> Nat] /\ head[victim[th]] + 1 \in Nat
      <4>1. head \in [Threads -> Nat]
        BY DEF IInv, TypeOK
      <4> QED
        BY <1>1, <4>1
    <3> QED
      BY <3>1 DEF PopClaim
  <2>4. stack' \in [Threads -> Seq(Frames)]
    BY <1>4, <1>5 DEF IInv, TypeOK
  <2> QED
    BY <1>6, <2>1, <2>2, <2>3, <2>4 DEF PopClaim, pool, PopStages, IInv, TypeOK
<1>10. ActiveCountExact'
  BY <1>1, <1>7, <1>8, CountKept DEF Counted, PopStages
<1>11. Local(th)' /\ Pop(th)'
  <2>1. Pop(th)'
    BY <1>8 DEF Pop
  <2> QED
    BY <1>1, <1>7, <1>8, <2>1 DEF IInv, Local, Calm, PoolOnly, MainOnly, Leaving, PopStages
<1>12. Nested(th)'
  BY <1>2, <1>3, <1>4, <1>7, <1>8 DEF Nested, Calling, Searching, InTask
<1>13. Looking(th)' => Looking(th)
  BY <1>1, <1>7, <1>8 DEF IInv, Local, Leaving, Looking, Calling, Searching, InTask, PopStages
<1>14. pc[th] \notin Gone \cup {"start"} /\ pc'[th] \notin Gone \cup {"start", "erase", "random"}
  BY <1>1, <1>8 DEF Gone, PopStages
<1> QED
  BY <1>7, <1>9, <1>10, <1>11, <1>12, <1>13, <1>14, ThreadStep

\* Another thread was faster, or the compare-exchange failed spuriously.
LEMMA PopLosesIInv ==
  ASSUME IInv, NEW th \in Threads, PopLoses(th)
  PROVE  IInv'
BY NextStageIInv DEF PopLoses

\* The thief passes the news on and runs the task it took.
LEMMA StealHintIInv ==
  ASSUME IInv, NEW th \in Threads, StealHint(th)
  PROVE  IInv'
<1>1. /\ pc[th] = "hint" /\ pc'[th] = "run" /\ OnlyOf(th) /\ Calm
      /\ activeWorkersCount' = activeWorkersCount
      /\ UNCHANGED <<draining, stack, seen>>
  BY DEF StealHint, Goto, OnlyOf, Calm, pool, rings, calls, IInv, TypeOK
<1>2. TypeOK'
  BY DEF StealHint, Goto, pool, rings, calls, IInv, TypeOK
<1>3. ActiveCountExact'
  BY <1>1, CountKept DEF Counted
<1>4. Local(th)'
  BY <1>1 DEF IInv, Local, Calm, PoolOnly, MainOnly, Leaving
<1>5. Nested(th)' /\ Pop(th)'
  BY <1>1 DEF IInv, Nested, Pop, Calling, Searching, InTask, PopStages
<1>6. Looking(th)' => Looking(th)
  BY <1>1 DEF Looking, Calling, Searching, InTask
<1> QED
  BY <1>1, <1>2, <1>3, <1>4, <1>5, <1>6, ThreadStep DEF Gone

\* ExecuteOneTask returned false.
LEMMA FoundNothingIInv ==
  ASSUME IInv, NEW th \in Threads, FoundNothing(th)
  PROVE  IInv'
<1>1. /\ pc[th] = "none" /\ pc'[th] = IF stack[th] = <<>> THEN "rest" ELSE "waitcheck"
      /\ OnlyOf(th) /\ Calm /\ activeWorkersCount' = activeWorkersCount
      /\ UNCHANGED <<draining, stack, seen>>
  BY DEF FoundNothing, Goto, OnlyOf, Calm, pool, calls, popping, rings, IInv, TypeOK
<1>2. TypeOK'
  BY DEF FoundNothing, Goto, pool, rings, calls, popping, IInv, TypeOK
<1>3. ActiveCountExact'
  BY <1>1, CountKept DEF Counted
<1>4. stack[th] = <<>> => th # Main /\ ~draining[th]
  BY <1>1 DEF IInv, Nested
<1>5. Local(th)'
  BY <1>1, <1>4 DEF IInv, Local, Calm, PoolOnly, MainOnly, Leaving
<1>6. Nested(th)' /\ Pop(th)'
  BY <1>1 DEF IInv, Nested, Pop, Calling, Searching, InTask, PopStages
<1>7. Looking(th)' => Looking(th)
  BY <1>1 DEF Looking, Calling, Searching, InTask
<1> QED
  BY <1>1, <1>2, <1>3, <1>5, <1>6, <1>7, ThreadStep DEF Gone

-----------------------------------------------------------------------------
(* Pushing and executing tasks.                                            *)

\* A push moves the tail of the thread's own ring only.
LEMMA PushIInv ==
  ASSUME IInv, NEW th \in Threads, PushInBody(th) \/ (th = Main /\ MainPushTask)
  PROVE  IInv'
<1>1. /\ \/ pc[th] = "run" /\ pc'[th] = "runset"
         \/ th = Main /\ pc[th] = "app" /\ pc'[th] = "appset"
      /\ OnlyOf(th) /\ Calm /\ activeWorkersCount' = activeWorkersCount
      /\ tail' = [tail EXCEPT ![th] = @ + 1]
      /\ UNCHANGED <<draining, stack, seen>>
  BY DEF PushInBody, MainPushTask, Push, Goto, OnlyOf, Calm, pool, calls, popping, IInv, TypeOK
<1>2. tail' \in [Threads -> Nat]
  <2>1. tail \in [Threads -> Nat] /\ tail[th] \in Nat
    BY Numbers DEF IInv, TypeOK
  <2> QED
    BY <1>1, <2>1
<1>3. TypeOK'
  BY <1>2 DEF PushInBody, MainPushTask, Push, Goto, pool, calls, popping, IInv, TypeOK
<1>4. ActiveCountExact'
  BY <1>1, CountKept DEF Counted
<1>5. Local(th)'
  BY <1>1 DEF IInv, Local, Calm, PoolOnly, MainOnly, Leaving
<1>6. Nested(th)' /\ Pop(th)'
  BY <1>1 DEF IInv, Nested, Pop, Calling, Searching, InTask, PopStages
<1>7. Looking(th)' => Looking(th)
  BY <1>1 DEF Looking, Calling, Searching, InTask
<1> QED
  BY <1>1, <1>3, <1>4, <1>5, <1>6, <1>7, ThreadStep DEF Gone

\* The Set after a push.
LEMMA PushSetsIInv ==
  ASSUME IInv, NEW th \in Threads, PushSets(th)
  PROVE  IInv'
<1>1. /\ \/ pc[th] = "runset" /\ pc'[th] = "run"
         \/ pc[th] = "appset" /\ pc'[th] = "app"
      /\ OnlyOf(th) /\ Calm /\ activeWorkersCount' = activeWorkersCount
      /\ UNCHANGED <<draining, stack, seen>>
  BY DEF PushSets, Goto, OnlyOf, Calm, pool, calls, popping, rings, IInv, TypeOK
<1>2. TypeOK'
  BY DEF PushSets, Goto, pool, calls, popping, rings, IInv, TypeOK
<1>3. ActiveCountExact'
  BY <1>1, CountKept DEF Counted, IInv, Local, MainOnly
<1>4. Local(th)'
  BY <1>1 DEF IInv, Local, Calm, PoolOnly, MainOnly, Leaving
<1>5. Nested(th)' /\ Pop(th)'
  BY <1>1 DEF IInv, Nested, Pop, Calling, Searching, InTask, PopStages
<1>6. Looking(th)' => Looking(th)
  BY <1>1 DEF Looking, Calling, Searching, InTask
<1> QED
  BY <1>1, <1>2, <1>3, <1>4, <1>5, <1>6, ThreadStep DEF Gone

\* The thread goes back to the wait or the loop that took the task.
LEMMA ExecuteTaskReturnsIInv ==
  ASSUME IInv, NEW th \in Threads, ExecuteTaskReturns(th)
  PROVE  IInv'
<1> DEFINE s == stack[th]
           to == IF Len(s) > 1 THEN "waitcheck" ELSE IF draining[th] THEN "drain" ELSE "loop"
<1>1. /\ pc[th] = "run" /\ s # <<>> /\ Head(s).kind = "ExecuteTask" /\ s \in Seq(Frames) /\ Turns(s)
      /\ Outermost(s) = "Wait" <=> th = Main /\ ~draining[th]
  <2>1. pc[th] = "run"
    BY DEF ExecuteTaskReturns, Goto
  <2> QED
    BY <2>1 DEF IInv, TypeOK, Nested, InTask
<1>2. /\ Tail(s) \in Seq(Frames) /\ Turns(Tail(s)) /\ Head(s) \in Frames
      /\ Len(s) > 1 <=> Tail(s) # <<>>
      /\ Tail(s) # <<>> => Head(Tail(s)).kind # Head(s).kind /\ Outermost(Tail(s)) = Outermost(s)
      /\ Tail(s) = <<>> => Outermost(s) = Head(s).kind
  BY <1>1, CallReturns
<1>3. Tail(s) # <<>> => Head(Tail(s)).kind = "Wait"
  <2> SUFFICES ASSUME Tail(s) # <<>> PROVE Head(Tail(s)).kind = "Wait"
    OBVIOUS
  <2>1. Head(Tail(s)) \in Frames
    BY <1>2, HeadTailProperties
  <2> QED
    BY <1>1, <1>2, <2>1 DEF Frames
<1>4. /\ pc' = [pc EXCEPT ![th] = to] /\ stack' = [stack EXCEPT ![th] = Tail(s)]
      /\ finished' = finished \cup {Head(s).task}
  BY DEF ExecuteTaskReturns, Goto
<1>5. to \in {"waitcheck", "drain", "loop"}
  OBVIOUS
<1>6. /\ pc'[th] = to /\ stack'[th] = Tail(s) /\ draining' = draining /\ seen' = seen
      /\ Calm /\ activeWorkersCount' = activeWorkersCount
  BY <1>4 DEF ExecuteTaskReturns, Calm, pool, popping, IInv, TypeOK
<1>7. OnlyOf(th)
  BY <1>4 DEF ExecuteTaskReturns, OnlyOf, popping, IInv, TypeOK
<1>8. TypeOK'
  <2>1. Head(s).task \in Threads \X Nat
    BY <1>2 DEF Frames
  <2>2. stack' \in [Threads -> Seq(Frames)]
    BY <1>2, <1>4 DEF IInv, TypeOK
  <2>3. pc' \in [Threads -> PopStages \cup
          {"start", "activate", "loop", "checkpause", "rest", "sleep", "woken", "leave",
           "app", "appset", "waitcheck", "stopset", "none", "hint", "run", "runset",
           "unregister", "spin", "erase", "empty", "join", "exited"}]
    BY <1>4, <1>5 DEF IInv, TypeOK, PopStages
  <2>4. finished' \subseteq Threads \X Nat
    BY <1>4, <2>1 DEF IInv, TypeOK
  <2> QED
    BY <2>2, <2>3, <2>4 DEF ExecuteTaskReturns, pool, popping, IInv, TypeOK
<1>9. Tail(s) = <<>> /\ ~draining[th] => th # Main
  BY <1>1, <1>2
<1> HIDE DEF s
<1>10. ActiveCountExact'
  BY <1>1, <1>5, <1>6, <1>7, CountKept DEF Counted
<1>11. Local(th)'
  BY <1>1, <1>2, <1>6, <1>9 DEF IInv, Local, Calm, PoolOnly, MainOnly, Leaving
<1>12. Nested(th)' /\ Pop(th)'
  <2>1. Pop(th)'
    BY <1>1, <1>5, <1>6 DEF IInv, Pop, PopStages
  <2>2. Nested(th)'
    BY <1>1, <1>2, <1>3, <1>6 DEF Nested, Calling, Searching, InTask
  <2> QED
    BY <2>1, <2>2
<1>13. Looking(th)' => Looking(th)
  BY <1>1, <1>5, <1>6 DEF Looking, Calling, Searching, InTask
<1>14. pc[th] \notin Gone \cup {"start"} /\ pc'[th] \notin Gone \cup {"start", "erase", "random"}
  BY <1>1, <1>5, <1>6 DEF Gone
<1> QED
  BY <1>6, <1>7, <1>8, <1>10, <1>11, <1>12, <1>13, <1>14, ThreadStep

-----------------------------------------------------------------------------
(* Wait.                                                                   *)

\* The application calls Wait: an outermost wait, before shouldStop is set.
LEMMA MainWaitIInv ==
  ASSUME IInv, NEW p \in 0 .. MaxPushed, MainWait(p)
  PROVE  IInv'
<1> DEFINE f == Frame("Wait", <<Main, p>>, 0)
<1>1. /\ pc[Main] = "app" /\ pc'[Main] = "waitcheck" /\ Main \in Threads
      /\ OnlyOf(Main) /\ Calm /\ activeWorkersCount' = activeWorkersCount
      /\ stack' = [stack EXCEPT ![Main] = <<f>>] /\ stack'[Main] = <<f>>
      /\ UNCHANGED <<draining, seen>>
  BY DEF MainWait, Goto, OnlyOf, Calm, pool, popping, rings, Threads, IInv, TypeOK
<1>2. f \in Frames /\ f.kind = "Wait"
  <2>1. p \in Nat /\ 0 \in Nat
    BY TaskWorkersAssumption
  <2> QED
    BY <1>1, <2>1 DEF Frame, Frames
<1> HIDE DEF f
<1>3. <<f>> \in Seq(Frames) /\ <<f>> # <<>> /\ Head(<<f>>) = f /\ Turns(<<f>>) /\ Outermost(<<f>>) = f.kind
  BY <1>2 DEF Turns, Outermost
<1>4. TypeOK'
  <2>1. stack' \in [Threads -> Seq(Frames)]
    BY <1>1, <1>3 DEF IInv, TypeOK
  <2> QED
    BY <2>1 DEF MainWait, Goto, pool, popping, rings, IInv, TypeOK
<1>5. ActiveCountExact'
  BY <1>1, CountKept
<1>6. ~draining[Main] /\ ~shouldStop
  BY <1>1 DEF IInv, Local
<1>7. Local(Main)'
  BY <1>1, <1>6 DEF IInv, Local, Calm, PoolOnly, MainOnly, Leaving
<1>8. Nested(Main)' /\ Pop(Main)'
  <2>1. Pop(Main)'
    BY <1>1 DEF IInv, Pop, PopStages
  <2>2. Nested(Main)'
    BY <1>1, <1>2, <1>3, <1>6 DEF Nested, Calling, Searching, InTask
  <2> QED
    BY <2>1, <2>2
<1> QED
  BY <1>1, <1>4, <1>5, <1>6, <1>7, <1>8, ThreadStep DEF Gone

\* A body calls Wait.
LEMMA WaitInBodyIInv ==
  ASSUME IInv, NEW th \in Threads, NEW p \in 0 .. MaxPushed, WaitInBody(th, p)
  PROVE  IInv'
<1> DEFINE s == stack[th]
           w == Frame("Wait", <<th, p>>, 0)
           b == [Head(s) EXCEPT !.from = p + 1]
<1>1. /\ pc[th] = "run" /\ s # <<>> /\ Head(s).kind = "ExecuteTask" /\ s \in Seq(Frames) /\ Turns(s)
      /\ Outermost(s) = "Wait" <=> th = Main /\ ~draining[th]
  <2>1. pc[th] = "run"
    BY DEF WaitInBody, Goto
  <2> QED
    BY <2>1 DEF IInv, TypeOK, Nested, InTask
<1>2. /\ Tail(s) \in Seq(Frames) /\ Turns(Tail(s)) /\ Head(s) \in Frames
      /\ Tail(s) # <<>> => Head(Tail(s)).kind # Head(s).kind /\ Outermost(Tail(s)) = Outermost(s)
      /\ Tail(s) = <<>> => Outermost(s) = Head(s).kind
  BY <1>1, CallReturns
<1>3. /\ pc' = [pc EXCEPT ![th] = "waitcheck"] /\ stack' = [stack EXCEPT ![th] = <<w, b>> \o Tail(s)]
      /\ draining' = draining /\ seen' = seen /\ Calm /\ activeWorkersCount' = activeWorkersCount
  BY DEF WaitInBody, Goto, Calm, pool, popping
<1>4. w \in Frames /\ w.kind = "Wait" /\ b \in Frames /\ b.kind = "ExecuteTask"
  <2>1. p \in Nat /\ p + 1 \in Nat /\ 0 \in Nat
    BY TaskWorkersAssumption
  <2> QED
    BY <1>1, <1>2, <2>1 DEF Frame, Frames
<1> HIDE DEF s, w, b
<1>5. LET u == <<b>> \o Tail(s) IN
      /\ u \in Seq(Frames) /\ u # <<>> /\ Head(u) = b /\ Turns(u) /\ Outermost(u) = Outermost(s)
  <2>1. Tail(s) # <<>> => b.kind # Head(Tail(s)).kind
    BY <1>1, <1>2, <1>4
  <2>2. /\ <<b>> \o Tail(s) \in Seq(Frames) /\ <<b>> \o Tail(s) # <<>> /\ Head(<<b>> \o Tail(s)) = b
        /\ Turns(<<b>> \o Tail(s))
        /\ Outermost(<<b>> \o Tail(s)) = IF Tail(s) = <<>> THEN b.kind ELSE Outermost(Tail(s))
    BY <1>2, <1>4, <2>1, CallPushes
  <2> QED
    BY <1>1, <1>2, <1>4, <2>2
<1>6. <<w, b>> \o Tail(s) = <<w>> \o (<<b>> \o Tail(s))
  BY <1>2, <1>4, TwoCalls
<1>7. LET u == <<w, b>> \o Tail(s) IN
      /\ u \in Seq(Frames) /\ u # <<>> /\ Head(u) = w /\ Turns(u) /\ Outermost(u) = Outermost(s)
  <2> DEFINE u == <<b>> \o Tail(s)
  <2>1. u \in Seq(Frames) /\ u # <<>> /\ Turns(u) /\ Outermost(u) = Outermost(s) /\ w.kind # Head(u).kind
    BY <1>4, <1>5
  <2> HIDE DEF u
  <2>2. /\ <<w>> \o u \in Seq(Frames) /\ <<w>> \o u # <<>> /\ Head(<<w>> \o u) = w /\ Turns(<<w>> \o u)
        /\ Outermost(<<w>> \o u) = Outermost(u)
    BY <1>4, <2>1, CallPushes
  <2>3. <<w, b>> \o Tail(s) = <<w>> \o u
    BY <1>6 DEF u
  <2> QED
    BY <2>1, <2>2, <2>3
<1>8. pc'[th] = "waitcheck" /\ stack'[th] = <<w, b>> \o Tail(s)
  BY <1>3 DEF IInv, TypeOK
<1>9. OnlyOf(th)
  BY <1>3 DEF WaitInBody, OnlyOf, popping, IInv, TypeOK
<1>10. TypeOK'
  <2>1. stack' \in [Threads -> Seq(Frames)]
    BY <1>3, <1>7 DEF IInv, TypeOK
  <2> QED
    BY <1>3, <2>1 DEF WaitInBody, pool, popping, rings, IInv, TypeOK
<1>11. ActiveCountExact'
  BY <1>1, <1>3, <1>8, <1>9, CountKept DEF Counted
<1>12. Local(th)'
  BY <1>1, <1>3, <1>8 DEF IInv, Local, Calm, PoolOnly, MainOnly, Leaving
<1>13. Nested(th)' /\ Pop(th)'
  <2>1. Pop(th)'
    BY <1>1, <1>3, <1>8 DEF IInv, Pop, PopStages
  <2>2. Nested(th)'
    BY <1>1, <1>3, <1>4, <1>7, <1>8 DEF Nested, Calling, Searching, InTask
  <2> QED
    BY <2>1, <2>2
<1>14. Looking(th)' => Looking(th)
  BY <1>1, <1>3, <1>8 DEF Looking, Calling, Searching, InTask
<1> QED
  BY <1>1, <1>3, <1>8, <1>9, <1>10, <1>11, <1>12, <1>13, <1>14, ThreadStep DEF Gone

\* The task is finished and Wait returns, or its thread looks for tasks itself.
LEMMA WaitCheckIInv ==
  ASSUME IInv, NEW th \in Threads, WaitCheck(th)
  PROVE  IInv'
<1> DEFINE s == stack[th]
<1>1. /\ pc[th] = "waitcheck" /\ s # <<>> /\ Head(s).kind = "Wait" /\ s \in Seq(Frames) /\ Turns(s)
      /\ Outermost(s) = "Wait" <=> th = Main /\ ~draining[th]
  <2>1. pc[th] = "waitcheck"
    BY DEF WaitCheck
  <2> QED
    BY <2>1 DEF IInv, TypeOK, Nested
<1>2. /\ Tail(s) \in Seq(Frames) /\ Turns(Tail(s)) /\ Head(s) \in Frames
      /\ Len(s) > 1 <=> Tail(s) # <<>>
      /\ Tail(s) # <<>> => Head(Tail(s)).kind # Head(s).kind /\ Outermost(Tail(s)) = Outermost(s)
      /\ Tail(s) = <<>> => Outermost(s) = Head(s).kind
  BY <1>1, CallReturns
<1>3. Tail(s) # <<>> => Head(Tail(s)).kind = "ExecuteTask"
  <2> SUFFICES ASSUME Tail(s) # <<>> PROVE Head(Tail(s)).kind = "ExecuteTask"
    OBVIOUS
  <2>1. Head(Tail(s)) \in Frames
    BY <1>2, HeadTailProperties
  <2> QED
    BY <1>1, <1>2, <2>1 DEF Frames
<1>4. /\ \/ /\ pc' = [pc EXCEPT ![th] = IF Len(s) > 1 THEN "run" ELSE "app"]
            /\ stack' = [stack EXCEPT ![th] = Tail(s)]
         \/ /\ pc' = [pc EXCEPT ![th] = "own"]
            /\ stack' = stack
      /\ draining' = draining /\ seen' = seen /\ Calm /\ activeWorkersCount' = activeWorkersCount
  BY DEF WaitCheck, Goto, Calm, pool, popping
<1>5. \/ pc'[th] = (IF Len(s) > 1 THEN "run" ELSE "app") /\ stack'[th] = Tail(s)
      \/ pc'[th] = "own" /\ stack'[th] = s
  BY <1>4 DEF IInv, TypeOK
<1>6. OnlyOf(th)
  BY <1>4 DEF WaitCheck, OnlyOf, popping, IInv, TypeOK
<1>7. TypeOK'
  <2>1. stack' \in [Threads -> Seq(Frames)]
    BY <1>2, <1>4 DEF IInv, TypeOK
  <2>2. pc' \in [Threads -> PopStages \cup
          {"start", "activate", "loop", "checkpause", "rest", "sleep", "woken", "leave",
           "app", "appset", "waitcheck", "stopset", "none", "hint", "run", "runset",
           "unregister", "spin", "erase", "empty", "join", "exited"}]
    BY <1>4 DEF IInv, TypeOK, PopStages
  <2> QED
    BY <2>1, <2>2 DEF WaitCheck, pool, popping, rings, IInv, TypeOK
<1>8. Tail(s) = <<>> => th = Main /\ ~draining[th]
  BY <1>1, <1>2
<1> HIDE DEF s
<1>9. pc'[th] \in {"run", "app", "own"} /\ (pc'[th] = "app" => th = Main /\ ~draining[th])
  BY <1>2, <1>5, <1>8
<1>10. ActiveCountExact'
  BY <1>1, <1>4, <1>6, <1>9, CountKept DEF Counted
<1>11. Local(th)'
  BY <1>1, <1>4, <1>9 DEF IInv, Local, Calm, PoolOnly, MainOnly, Leaving
<1>12. Nested(th)' /\ Pop(th)'
  <2>1. Pop(th)'
    BY <1>1, <1>4, <1>9 DEF IInv, Pop, PopStages
  <2>2. Nested(th)'
    BY <1>1, <1>2, <1>3, <1>4, <1>5 DEF Nested, Calling, Searching, InTask
  <2> QED
    BY <2>1, <2>2
<1>13. Looking(th)' => Looking(th)
  BY <1>1, <1>4, <1>9 DEF Looking, Calling, Searching, InTask
<1> QED
  BY <1>1, <1>4, <1>6, <1>7, <1>9, <1>10, <1>11, <1>12, <1>13, ThreadStep DEF Gone

-----------------------------------------------------------------------------
(* The main thread's other calls, and the destructor.                      *)

\* Pause changes a flag that no conjunct speaks of.
LEMMA PauseIInv ==
  ASSUME IInv, Pause
  PROVE  IInv'
<1>1. TypeOK'
  BY DEF Pause, rings, calls, popping, IInv, TypeOK
<1>2. ActiveCountExact'
  BY DEF Pause, calls, IInv, ActiveCountExact
<1>3. \A x \in Threads : Local(x)' /\ Nested(x)' /\ Pop(x)'
  BY DEF Pause, popping, calls, IInv, Local, Nested, Pop
<1>4. Erasing' /\ Registered' /\ Spans'
  BY DEF Pause, popping, calls, IInv, Erasing, Looking, Registered, Spans
<1> QED
  BY <1>1, <1>2, <1>3, <1>4 DEF IInv

\* The destructor starts: the main thread is out of all its waits.
LEMMA DestroyIInv ==
  ASSUME IInv, Destroy
  PROVE  IInv'
<1>1. /\ pc[Main] = "app" /\ pc'[Main] = "stopset" /\ Main \in Threads
      /\ OnlyOf(Main) /\ Mild(Main) /\ shouldStop' = TRUE /\ activeWorkersCount' = activeWorkersCount
      /\ UNCHANGED <<workersLock, draining, stack, seen>>
  BY DEF Destroy, Goto, OnlyOf, Mild, calls, popping, rings, Threads, IInv, TypeOK
<1>2. TypeOK'
  <2>1. sets' \in 0 .. Cardinality(Pool)
    BY TaskWorkersAssumption, FS_CardinalityType DEF Destroy
  <2> QED
    BY <2>1 DEF Destroy, Goto, calls, popping, rings, IInv, TypeOK
<1>3. ActiveCountExact'
  BY <1>1, CountKept
<1>4. Local(Main)'
  BY <1>1 DEF IInv, Local, PoolOnly, MainOnly, Leaving
<1>5. Nested(Main)' /\ Pop(Main)'
  BY <1>1 DEF IInv, Nested, Pop, Calling, Searching, InTask, PopStages
<1>6. ~Looking(Main)'
  BY <1>1 DEF Looking, Calling, Searching, InTask
<1> QED
  BY <1>1, <1>2, <1>3, <1>4, <1>5, <1>6, LifeStep DEF Gone

\* One Set of the destructor, or the beginning of its drain loop.
LEMMA StopSetIInv ==
  ASSUME IInv, StopSet
  PROVE  IInv'
<1>1. /\ pc[Main] = "stopset" /\ Main \in Threads /\ OnlyOf(Main) /\ Calm
      /\ \/ pc'[Main] = "stopset" /\ draining' = draining
         \/ pc'[Main] = "drain" /\ draining'[Main] = TRUE
      /\ activeWorkersCount' = activeWorkersCount
      /\ UNCHANGED <<stack, seen>>
  BY DEF StopSet, Goto, OnlyOf, Calm, pool, popping, rings, Threads, IInv, TypeOK
<1>2. TypeOK'
  <2>1. sets' \in 0 .. Cardinality(Pool)
    <3>1. sets \in 0 .. Cardinality(Pool) /\ Cardinality(Pool) \in Nat
      BY TaskWorkersAssumption, FS_CardinalityType DEF IInv, TypeOK
    <3>2. sets' = sets \/ (sets > 0 /\ sets' = sets - 1)
      BY DEF StopSet
    <3> QED
      BY <3>1, <3>2
  <2>2. newWorkArrived' \in BOOLEAN
    BY DEF StopSet, IInv, TypeOK
  <2>3. /\ pc' = pc \/ pc' = [pc EXCEPT ![Main] = "drain"]
        /\ draining' = draining \/ draining' = [draining EXCEPT ![Main] = TRUE]
    BY DEF StopSet, Goto
  <2> QED
    BY <2>1, <2>2, <2>3 DEF StopSet, pool, popping, rings, PopStages, IInv, TypeOK
<1>3. ActiveCountExact'
  BY <1>1, CountKept
<1>4. Local(Main)'
  BY <1>1 DEF IInv, Local, Calm, PoolOnly, MainOnly, Leaving
<1>5. Nested(Main)' /\ Pop(Main)'
  BY <1>1 DEF IInv, Nested, Pop, Calling, Searching, InTask, PopStages
<1>6. ~Looking(Main)'
  BY <1>1 DEF Looking, Calling, Searching, InTask
<1> QED
  BY <1>1, <1>2, <1>3, <1>4, <1>5, <1>6, ThreadStep DEF Gone

\* The lock is taken.
LEMMA UnregisterLocksIInv ==
  ASSUME IInv, NEW th \in Threads, UnregisterLocks(th)
  PROVE  IInv'
<1>1. /\ pc[th] = "unregister" /\ pc'[th] = "spin" /\ OnlyOf(th) /\ Mild(th)
      /\ workersLock = NoThread /\ workersLock' = th /\ shouldStop' = shouldStop
      /\ activeWorkersCount' = activeWorkersCount
      /\ UNCHANGED <<draining, stack, seen>>
  BY TaskWorkersAssumption
     DEF UnregisterLocks, Goto, OnlyOf, Mild, calls, popping, rings, Threads, IInv, TypeOK
<1>2. TypeOK'
  BY DEF UnregisterLocks, Goto, calls, popping, rings, IInv, TypeOK
<1>3. draining[th]
  BY <1>1 DEF IInv, Local, Leaving
<1>4. ActiveCountExact'
  BY <1>1, CountKept DEF Counted
<1>5. Local(th)'
  BY <1>1, <1>3 DEF IInv, Local, PoolOnly, MainOnly, Leaving
<1>6. Nested(th)' /\ Pop(th)'
  BY <1>1 DEF IInv, Nested, Pop, Calling, Searching, InTask, PopStages
<1>7. ~Looking(th)'
  BY <1>1 DEF Looking, Calling, Searching, InTask
<1> QED
  BY <1>1, <1>2, <1>4, <1>5, <1>6, <1>7, LifeStep DEF Gone

\* Nobody is active: no pool thread works outside a drain loop, the main thread
\* has left its waits, and nobody gets past shouldStop.
LEMMA UnregisterSpinsIInv ==
  ASSUME IInv, NEW th \in Threads, UnregisterSpins(th)
  PROVE  IInv'
<1>1. /\ pc[th] = "spin" /\ pc'[th] = "erase" /\ OnlyOf(th) /\ Mild(th) /\ Calm
      /\ activeWorkersCount = 0 /\ activeWorkersCount' = activeWorkersCount
      /\ UNCHANGED <<draining, stack, seen>>
  BY DEF UnregisterSpins, Goto, OnlyOf, Mild, Calm, pool, calls, popping, rings, IInv, TypeOK
<1>2. TypeOK'
  BY DEF UnregisterSpins, Goto, pool, calls, popping, rings, IInv, TypeOK
<1>3. draining[th] /\ shouldStop
  BY <1>1 DEF IInv, Local, Leaving
<1>4. ActiveCountExact'
  BY <1>1, CountKept DEF Counted
<1>5. Local(th)'
  BY <1>1, <1>3 DEF IInv, Local, Calm, PoolOnly, MainOnly, Leaving
<1>6. Nested(th)' /\ Pop(th)'
  BY <1>1 DEF IInv, Nested, Pop, Calling, Searching, InTask, PopStages
<1>7. \A x \in Threads : ~Looking(x)'
  <2> SUFFICES ASSUME NEW x \in Threads PROVE ~Looking(x)'
    OBVIOUS
  <2>1. CASE x = th
    BY <1>1, <1>3, <2>1 DEF Looking
  <2>2. CASE x # th /\ x = Main
    <3>1. ~Looking(Main)
      BY <1>3, <2>2 DEF IInv, Local, Looking, Calling, Searching, InTask
    <3> QED
      BY <1>1, <2>2, <3>1 DEF Looking, OnlyOf
  <2>3. CASE x # th /\ x # Main
    <3>1. ~Counted(x) /\ x \in Pool
      BY <1>1, <2>3, NobodyCounted DEF IInv, Threads
    <3>2. ~Looking(x)
      BY <3>1 DEF Counted, Looking, Calling, Searching, InTask
    <3> QED
      BY <1>1, <2>3, <3>2 DEF Looking, OnlyOf
  <2> QED
    BY <2>1, <2>2, <2>3
<1> QED
  BY <1>1, <1>2, <1>4, <1>5, <1>6, <1>7, LifeStep DEF Gone

\* The end of the destructor.
LEMMA GoneIInv ==
  ASSUME IInv, SetUntilEmpty \/ Join
  PROVE  IInv'
<1>1. /\ pc[Main] \in {"empty", "join"} /\ pc'[Main] \in Gone /\ Main \in Threads
      /\ OnlyOf(Main) /\ Mild(Main) /\ Calm /\ activeWorkersCount' = activeWorkersCount
      /\ UNCHANGED <<draining, stack, seen>>
  BY DEF SetUntilEmpty, Join, Goto, OnlyOf, Mild, Calm, pool, calls, popping, rings, Gone,
         Threads, IInv, TypeOK
<1>2. TypeOK'
  <2>1. /\ pc' = pc \/ pc' = [pc EXCEPT ![Main] = "join"] \/ pc' = [pc EXCEPT ![Main] = "exited"]
        /\ newWorkArrived' \in BOOLEAN
    BY DEF SetUntilEmpty, Join, Goto, IInv, TypeOK
  <2> QED
    BY <2>1 DEF SetUntilEmpty, Join, pool, calls, popping, rings, IInv, TypeOK
<1>3. ActiveCountExact'
  BY <1>1, CountKept
<1>4. Local(Main)'
  BY <1>1 DEF IInv, Local, Calm, PoolOnly, MainOnly, Leaving, Gone
<1>5. Nested(Main)' /\ Pop(Main)'
  BY <1>1 DEF IInv, Nested, Pop, Calling, Searching, InTask, PopStages, Gone
<1>6. ~Looking(Main)'
  BY <1>1 DEF Looking, Calling, Searching, InTask, Gone
<1> QED
  BY <1>1, <1>2, <1>3, <1>4, <1>5, <1>6, LifeStep DEF Gone

-----------------------------------------------------------------------------
(* The vector of workers.                                                  *)

\* A new thread comes last.
LEMMA RegisterIInv ==
  ASSUME IInv, NEW th \in Threads, RegisterThisThreadAsWorker(th)
  PROVE  IInv'
<1>1. /\ pc[th] = "start" /\ pc'[th] = "activate" /\ OnlyOf(th) /\ Main \in Threads
      /\ workers' = Append(workers, th) /\ id' = [id EXCEPT ![th] = Len(workers)]
      /\ activeWorkersCount' = activeWorkersCount
      /\ UNCHANGED <<workersLock, shouldStop, draining, stack, seen>>
  BY DEF RegisterThisThreadAsWorker, Goto, OnlyOf, popping, rings, calls, Threads, IInv, TypeOK
<1>2. workers \in Seq(Threads) /\ Len(workers) \in Nat /\ id \in [Threads -> Int]
  BY Numbers DEF IInv, TypeOK
<1>3. /\ workers' \in Seq(Threads) /\ Len(workers') = Len(workers) + 1
      /\ workers'[Len(workers) + 1] = th
      /\ \A i \in 1 .. Len(workers) : workers'[i] = workers[i]
  BY <1>1, <1>2, AppendProperties
<1>4. TypeOK'
  <2>1. id' \in [Threads -> Int]
    BY <1>1, <1>2
  <2> QED
    BY <1>3, <2>1 DEF RegisterThisThreadAsWorker, Goto, popping, rings, calls, IInv, TypeOK
<1>5. ActiveCountExact'
  BY <1>1, CountKept DEF Counted
<1>6. Local(th)' /\ Nested(th)' /\ Pop(th)'
  BY <1>1 DEF IInv, Local, Nested, Pop, Calling, Searching, InTask, PoolOnly, MainOnly, Leaving, PopStages
<1>7. \A x \in Threads : Local(x)' /\ Nested(x)' /\ Pop(x)'
  <2> SUFFICES ASSUME NEW x \in Threads \ {th} PROVE Local(x)' /\ Nested(x)' /\ Pop(x)'
    BY <1>6
  <2>1. Local(x)' /\ Pop(x)'
    BY <1>1 DEF IInv, Local, Pop, OnlyOf
  <2>2. Nested(x)'
    BY <1>1 DEF IInv, Nested, OnlyOf
  <2> QED
    BY <2>1, <2>2
<1>8. Erasing'
  <2>1. ~Looking(th)' /\ pc'[th] \notin Gone \cup {"erase"}
    BY <1>1 DEF Looking, Calling, Searching, InTask, Gone
  <2>2. \A x \in Threads \ {th} : pc'[x] = pc[x] /\ (Looking(x)' <=> Looking(x))
    BY <1>1 DEF OnlyOf, Looking
  <2> QED
    BY <2>1, <2>2 DEF IInv, Erasing
<1>9. \A x \in Threads : pc'[x] \in Gone <=> pc[x] \in Gone
  BY <1>1 DEF OnlyOf, Gone
<1>10. Registered'
  <2>1. \A i \in 1 .. Len(workers) : workers[i] # th /\ workers[i] \in Threads
    BY <1>1, Numbers DEF IInv, Registered
  <2>2. \A i, j \in 1 .. Len(workers') : workers'[i] = workers'[j] => i = j
    <3> SUFFICES ASSUME NEW i \in 1 .. Len(workers'), NEW j \in 1 .. Len(workers'), workers'[i] = workers'[j]
                 PROVE  i = j
      OBVIOUS
    <3>1. i \in 1 .. Len(workers) \/ i = Len(workers) + 1
      BY <1>2, <1>3
    <3>2. j \in 1 .. Len(workers) \/ j = Len(workers) + 1
      BY <1>2, <1>3
    <3>3. i \in 1 .. Len(workers) /\ j \in 1 .. Len(workers) => i = j
      BY <1>3 DEF IInv, Registered
    <3> QED
      BY <1>3, <2>1, <3>1, <3>2, <3>3
  <2>3. ASSUME NEW x \in Threads
        PROVE  (\E i \in 1 .. Len(workers') : workers'[i] = x) <=> pc'[x] \notin Gone \cup {"start"}
    <3>1. CASE x = th
      <4>1. Len(workers) + 1 \in 1 .. Len(workers')
        BY <1>2, <1>3
      <4> QED
        BY <1>1, <1>3, <3>1, <4>1 DEF Gone
    <3>2. CASE x # th
      <4>1. (\E i \in 1 .. Len(workers') : workers'[i] = x) <=> \E i \in 1 .. Len(workers) : workers[i] = x
        <5>1. ASSUME NEW i \in 1 .. Len(workers'), workers'[i] = x
              PROVE  i \in 1 .. Len(workers) /\ workers[i] = x
          BY <1>2, <1>3, <3>2, <5>1
        <5>2. ASSUME NEW i \in 1 .. Len(workers), workers[i] = x
              PROVE  i \in 1 .. Len(workers') /\ workers'[i] = x
          BY <1>2, <1>3, <5>2
        <5> QED
          BY <5>1, <5>2
      <4>2. pc'[x] = pc[x]
        BY <1>1, <3>2 DEF OnlyOf
      <4> QED
        BY <4>1, <4>2 DEF IInv, Registered
    <3> QED
      BY <3>1, <3>2
  <2>4. ASSUME \A x \in Threads : pc'[x] \notin Gone, NEW i \in 1 .. Len(workers')
        PROVE  id'[workers'[i]] = i - 1
    <3>1. \A j \in 1 .. Len(workers) : id[workers[j]] = j - 1
      BY <1>9, <2>4 DEF IInv, Registered
    <3>2. CASE i \in 1 .. Len(workers)
      <4>1. workers'[i] = workers[i] /\ workers[i] # th /\ workers[i] \in Threads
        BY <1>3, <2>1, <3>2
      <4> QED
        BY <1>1, <1>2, <3>1, <3>2, <4>1
    <3>3. CASE i = Len(workers) + 1
      BY <1>1, <1>2, <1>3, <3>3
    <3> QED
      BY <1>2, <1>3, <3>2, <3>3
  <2> QED
    BY <2>2, <2>3, <2>4 DEF Registered
<1>11. Spans'
  <2> SUFFICES ASSUME NEW x \in Threads, pc'[x] = "random", ~draining'[x]
               PROVE  span'[x] \in 1 .. Len(workers')
    BY DEF Spans
  <2>1. x # th /\ pc[x] = "random" /\ ~draining[x] /\ span'[x] = span[x]
    BY <1>1 DEF OnlyOf
  <2>2. span[x] \in 1 .. Len(workers)
    BY <2>1 DEF IInv, Spans
  <2> QED
    BY <1>2, <1>3, <2>1, <2>2
<1> QED
  BY <1>4, <1>5, <1>7, <1>8, <1>10, <1>11 DEF IInv

\* std::find and erase of an element that occurs once.
LEMMA RemoveFirstOfDistinct ==
  ASSUME NEW S, NEW s \in Seq(S), NEW k \in 1 .. Len(s),
         \A i, j \in 1 .. Len(s) : s[i] = s[j] => i = j
  PROVE  /\ RemoveFirst(s, s[k]) \in Seq(S)
         /\ Len(RemoveFirst(s, s[k])) = Len(s) - 1
         /\ \A j \in 1 .. Len(s) - 1 :
               RemoveFirst(s, s[k])[j] = IF j < k THEN s[j] ELSE s[j + 1]
<1> DEFINE a == SubSeq(s, 1, k - 1)
           b == SubSeq(s, k + 1, Len(s))
<1>1. RemoveFirst(s, s[k]) = a \o b
  <2>1. {i \in 1 .. Len(s) : s[i] = s[k]} = {k}
    OBVIOUS
  <2>2. Min({k}) = k
    BY DEF Min
  <2>3. SelectInSeq(s, LAMBDA v : v = s[k]) = k
    BY <2>1, <2>2 DEF SelectInSeq
  <2> QED
    BY <2>3 DEF RemoveFirst, RemoveAt
<1>2. Len(s) \in Nat /\ \A i \in 1 .. Len(s) : s[i] \in S
  BY LenProperties
<1>3. a \in Seq(S) /\ Len(a) = k - 1 /\ \A i \in 1 .. k - 1 : a[i] = s[i]
  <2>1. 1 \in Int /\ k - 1 \in Int /\ \A i \in 1 .. k - 1 : s[i] \in S
    BY <1>2
  <2>2. /\ a \in Seq(S) /\ Len(a) = IF 1 <= k - 1 THEN (k - 1) - 1 + 1 ELSE 0
        /\ \A i \in 1 .. (k - 1) - 1 + 1 : a[i] = s[1 + i - 1]
    BY <2>1, SubSeqProperties
  <2> QED
    BY <1>2, <2>2
<1>4. b \in Seq(S) /\ Len(b) = Len(s) - k /\ \A i \in 1 .. Len(s) - k : b[i] = s[k + i]
  <2>1. k + 1 \in Int /\ Len(s) \in Int /\ \A i \in k + 1 .. Len(s) : s[i] \in S
    BY <1>2
  <2>2. /\ b \in Seq(S) /\ Len(b) = IF k + 1 <= Len(s) THEN Len(s) - (k + 1) + 1 ELSE 0
        /\ \A i \in 1 .. Len(s) - (k + 1) + 1 : b[i] = s[(k + 1) + i - 1]
    BY <2>1, SubSeqProperties
  <2> QED
    BY <1>2, <2>2
<1> HIDE DEF a, b
<1>5. /\ a \o b \in Seq(S) /\ Len(a \o b) = Len(a) + Len(b)
      /\ \A i \in 1 .. Len(a) + Len(b) : (a \o b)[i] = IF i <= Len(a) THEN a[i] ELSE b[i - Len(a)]
  <2>1. a \in Seq(S) /\ b \in Seq(S)
    BY <1>3, <1>4
  <2> QED
    BY <2>1, ConcatProperties
<1>6. ASSUME NEW j \in 1 .. Len(s) - 1
      PROVE  (a \o b)[j] = IF j < k THEN s[j] ELSE s[j + 1]
  <2>1. CASE j < k
    BY <1>2, <1>3, <1>4, <1>5, <2>1
  <2>2. CASE ~(j < k)
    <3>1. j - (k - 1) \in 1 .. Len(s) - k /\ ~(j <= Len(a)) /\ j \in 1 .. Len(a) + Len(b)
      BY <1>2, <1>3, <1>4, <2>2
    <3>2. (a \o b)[j] = b[j - (k - 1)]
      BY <1>3, <1>5, <3>1
    <3>3. k + (j - (k - 1)) = j + 1
      BY <1>2
    <3> QED
      BY <1>4, <2>2, <3>1, <3>2, <3>3
  <2> QED
    BY <2>1, <2>2
<1>7. Len(a \o b) = Len(s) - 1
  BY <1>2, <1>3, <1>4, <1>5
<1> QED
  BY <1>1, <1>5, <1>6, <1>7

\* The vector after a removal, as long as all that follows needs it.
LEMMA Removal ==
  ASSUME IInv, NEW th \in Threads, UnregisterErases(th)
  PROVE  /\ workers' \in Seq(Threads)
         /\ \A i, j \in 1 .. Len(workers') : workers'[i] = workers'[j] => i = j
         /\ \A x \in Threads : (\E i \in 1 .. Len(workers') : workers'[i] = x)
               <=> x # th /\ \E i \in 1 .. Len(workers) : workers[i] = x
<1>1. pc[th] = "erase" /\ workers' = RemoveFirst(workers, th)
  BY DEF UnregisterErases, Goto
<1>2. PICK k \in 1 .. Len(workers) : workers[k] = th
  BY <1>1 DEF IInv, Registered, Gone
<1>3. /\ workers \in Seq(Threads) /\ Len(workers) \in Nat
      /\ \A i, j \in 1 .. Len(workers) : workers[i] = workers[j] => i = j
  BY Numbers DEF IInv, Registered
<1>4. /\ workers' \in Seq(Threads) /\ Len(workers') = Len(workers) - 1
      /\ \A j \in 1 .. Len(workers) - 1 : workers'[j] = IF j < k THEN workers[j] ELSE workers[j + 1]
  BY <1>1, <1>2, <1>3, RemoveFirstOfDistinct
<1> DEFINE From(j) == IF j < k THEN j ELSE j + 1
<1>5. \A j \in 1 .. Len(workers') :
        From(j) \in 1 .. Len(workers) /\ From(j) # k /\ workers'[j] = workers[From(j)]
  BY <1>2, <1>3, <1>4
<1>6. \A i, j \in 1 .. Len(workers') : workers'[i] = workers'[j] => i = j
  <2> SUFFICES ASSUME NEW i \in 1 .. Len(workers'), NEW j \in 1 .. Len(workers'), workers'[i] = workers'[j]
               PROVE  i = j
    OBVIOUS
  <2>1. From(i) = From(j)
    BY <1>3, <1>5
  <2> QED
    BY <1>2, <1>3, <1>4, <2>1
<1>7. ASSUME NEW x \in Threads, NEW j \in 1 .. Len(workers'), workers'[j] = x
      PROVE  x # th /\ \E i \in 1 .. Len(workers) : workers[i] = x
  BY <1>2, <1>3, <1>5, <1>7
<1>8. ASSUME NEW x \in Threads, x # th, NEW i \in 1 .. Len(workers), workers[i] = x
      PROVE  \E j \in 1 .. Len(workers') : workers'[j] = x
  <2>1. CASE i < k
    <3>1. i \in 1 .. Len(workers') /\ workers'[i] = x
      BY <1>2, <1>3, <1>4, <1>8, <2>1
    <3> QED
      BY <3>1
  <2>2. CASE i > k
    <3>1. i - 1 \in 1 .. Len(workers') /\ ~(i - 1 < k) /\ (i - 1) + 1 = i
      BY <1>2, <1>3, <1>4, <2>2
    <3> QED
      BY <1>4, <1>8, <3>1
  <2>3. i # k
    BY <1>2, <1>8
  <2> QED
    BY <1>2, <1>3, <2>1, <2>2, <2>3
<1> QED
  BY <1>4, <1>6, <1>7, <1>8

\* Whoever erases itself finds nobody about to index the vector.
LEMMA UnregisterErasesIInv ==
  ASSUME IInv, NEW th \in Threads, UnregisterErases(th)
  PROVE  IInv'
<1>1. /\ pc[th] = "erase" /\ pc'[th] = IF th = Main THEN "empty" ELSE "exited"
      /\ OnlyOf(th) /\ Main \in Threads /\ workersLock' = NoThread
      /\ activeWorkersCount' = activeWorkersCount
      /\ UNCHANGED <<shouldStop, draining, stack, seen>>
  BY DEF UnregisterErases, Goto, OnlyOf, popping, rings, calls, Threads, IInv, TypeOK
<1>2. shouldStop /\ workersLock = th /\ draining[th]
  BY <1>1 DEF IInv, Local, Leaving
<1>3. /\ workers' \in Seq(Threads)
      /\ \A i, j \in 1 .. Len(workers') : workers'[i] = workers'[j] => i = j
      /\ \A x \in Threads : (\E i \in 1 .. Len(workers') : workers'[i] = x)
            <=> x # th /\ \E i \in 1 .. Len(workers) : workers[i] = x
  BY Removal
<1>4. \A x \in Threads : ~Looking(x) /\ ~Looking(x)'
  <2>1. \A x \in Threads : ~Looking(x)
    BY <1>1 DEF IInv, Erasing
  <2> QED
    BY <1>1, <2>1 DEF OnlyOf, Looking, Calling, Searching, InTask
<1>5. TypeOK'
  <2>1. id' \in [Threads -> Int]
    <3>1. id \in [Threads -> Int] /\ id' = [id EXCEPT ![th] = -1]
      BY DEF UnregisterErases, IInv, TypeOK
    <3> QED
      BY <3>1
  <2> QED
    BY <1>3, <2>1 DEF UnregisterErases, Goto, popping, rings, calls, IInv, TypeOK
<1>6. ActiveCountExact'
  BY <1>1, CountKept DEF Counted
<1>7. \A x \in Threads : Local(x)' /\ Nested(x)' /\ Pop(x)'
  <2>1. Local(th)' /\ Nested(th)' /\ Pop(th)'
    <3>1. workersLock' # th
      BY <1>1, TaskWorkersAssumption DEF Threads
    <3> QED
      BY <1>1, <1>2, <3>1 DEF IInv, Local, Nested, Pop, Calling, Searching, InTask, PoolOnly, MainOnly, Leaving, PopStages
  <2>2. ASSUME NEW x \in Threads \ {th} PROVE Local(x)' /\ Nested(x)' /\ Pop(x)'
    <3>1. workersLock # x /\ workersLock' # x
      BY <1>1, <1>2, TaskWorkersAssumption DEF Threads
    <3> QED
      BY <1>1, <3>1 DEF IInv, Local, Nested, Pop, OnlyOf
  <2> QED
    BY <2>1, <2>2
<1>8. Erasing'
  BY <1>4 DEF Erasing
<1>9. Registered'
  <2>1. ASSUME NEW x \in Threads
        PROVE  (x # th /\ \E i \in 1 .. Len(workers) : workers[i] = x) <=> pc'[x] \notin Gone \cup {"start"}
    BY <1>1 DEF IInv, Registered, OnlyOf, Gone
  <2>2. pc'[th] \in Gone
    BY <1>1 DEF Gone
  <2> QED
    BY <1>3, <2>1, <2>2 DEF Registered
<1>10. Spans'
  BY <1>4 DEF Spans, Looking, Calling, Searching
<1> QED
  BY <1>5, <1>6, <1>7, <1>8, <1>9, <1>10 DEF IInv

-----------------------------------------------------------------------------
(* The theorems.                                                           *)

\* Everything holds when the constructor has returned.
LEMMA InitIInv == Init => IInv
<1> SUFFICES ASSUME Init PROVE IInv
  OBVIOUS
<1>1. /\ Main \in Threads /\ \A th \in Threads : pc[th] = IF th = Main THEN "app" ELSE "start"
      /\ workers = <<Main>> /\ Len(workers) = 1 /\ workers[1] = Main /\ id[Main] = 0
  BY DEF Init, Threads
<1>2. TypeOK
  <2>1. workers \in Seq(Threads)
    BY <1>1
  <2>2. sets \in 0 .. Cardinality(Pool)
    <3>1. Cardinality(Pool) \in Nat
      BY TaskWorkersAssumption, FS_CardinalityType
    <3>2. sets = 0
      BY DEF Init
    <3> QED
      BY <3>1, <3>2
  <2>3. attempts \in [Threads -> 0 .. StealAttempts]
    <3>1. 0 \in 0 .. StealAttempts
      BY TaskWorkersAssumption
    <3> QED
      BY <3>1 DEF Init
  <2>4. draining \in [Threads -> BOOLEAN] /\ stack \in [Threads -> Seq(Frames)]
    <3>1. <<>> \in Seq(Frames)
      OBVIOUS
    <3>2. draining = [th \in Threads |-> FALSE] /\ stack = [th \in Threads |-> <<>>]
      BY DEF Init
    <3> QED
      BY <3>1, <3>2
  <2>5. /\ pc \in [Threads -> {"app", "start"}]
        /\ seen \in [Threads -> {NotSeen}] /\ id \in [Threads -> Int]
        /\ head \in [Threads -> Nat] /\ tail \in [Threads -> Nat] /\ span \in [Threads -> Nat]
        /\ victim \in [Threads -> Threads \cup {NoThread}]
    <3>1. /\ pc \in [Threads -> {"app", "start"}]
          /\ seen \in [Threads -> {NotSeen}]
          /\ victim \in [Threads -> Threads \cup {NoThread}]
      BY DEF Init
    <3>2. id = [th \in Threads |-> IF th = Main THEN 0 ELSE -1]
      BY DEF Init
    <3>3. /\ head = [th \in Threads |-> 0] /\ tail = [th \in Threads |-> 0]
          /\ span = [th \in Threads |-> 0]
      BY DEF Init
    <3>4. id \in [Threads -> Int]
      BY <3>2
    <3>5. head \in [Threads -> Nat] /\ tail \in [Threads -> Nat] /\ span \in [Threads -> Nat]
      BY <3>3
    <3> QED
      BY <3>1, <3>4, <3>5
  <2>6. /\ workersLock \in Threads \cup {NoThread} /\ activeWorkersCount \in Nat
        /\ shouldPause \in BOOLEAN /\ shouldStop \in BOOLEAN /\ newWorkArrived \in BOOLEAN
        /\ finished \subseteq Threads \X Nat
    BY DEF Init
  <2> QED
    BY <2>1, <2>2, <2>3, <2>4, <2>5, <2>6 DEF TypeOK
<1>3. ActiveCountExact
  <2>1. CountedPool = {}
    BY <1>1, TaskWorkersAssumption DEF CountedPool, Counted, Threads
  <2> QED
    BY <2>1, CountExact, FS_EmptySet DEF Init
<1>4. \A th \in Threads : Local(th) /\ Nested(th) /\ Pop(th)
  <2>1. \A th \in Threads : stack[th] = <<>> /\ draining[th] = FALSE /\ seen[th] = NotSeen
    BY DEF Init
  <2>2. ~shouldStop /\ workersLock = NoThread /\ NoThread \notin Threads
    BY TaskWorkersAssumption DEF Init, Threads
  <2>3. \A th \in Threads : Local(th) /\ Pop(th)
    BY <1>1, <2>1, <2>2 DEF Local, Pop, PoolOnly, MainOnly, Leaving
  <2>4. Turns(<<>>)
    BY DEF Turns
  <2>5. \A th \in Threads : Nested(th)
    BY <1>1, <2>1, <2>4 DEF Nested, Calling, Searching, InTask
  <2> QED
    BY <2>3, <2>5
<1>5. Erasing /\ Spans
  BY <1>1 DEF Erasing, Gone, Spans
<1>6. Registered
  BY <1>1 DEF Registered, Gone
<1> QED
  BY <1>2, <1>3, <1>4, <1>5, <1>6 DEF IInv

\* The invariant is inductive.
LEMMA NextIInv == IInv /\ [Next]_vars => IInv'
<1> SUFFICES ASSUME IInv, [Next]_vars PROVE IInv'
  OBVIOUS
<1>1. ASSUME NEW th \in Threads, Step(th) PROVE IInv'
  BY <1>1, RegisterIInv, ActivateIInv, CheckStopIInv, CheckPauseIInv, DeactivateIInv, SleepIInv,
     PopReadIInv, PopClaimIInv, PopLosesIInv, StealHintIInv, FoundNothingIInv, PushSetsIInv,
     ExecuteTaskReturnsIInv, WaitCheckIInv, UnregisterLocksIInv, UnregisterSpinsIInv, UnregisterErasesIInv
  DEF Step
<1>2. ASSUME NEW th \in Threads, PushInBody(th) PROVE IInv'
  BY <1>2, PushIInv
<1>3. ASSUME MainPushTask PROVE IInv'
  BY <1>3, PushIInv DEF Threads
<1>4. ASSUME NEW p \in 0 .. MaxPushed, MainWait(p) \/ \E th \in Threads : WaitInBody(th, p) PROVE IInv'
  BY <1>4, MainWaitIInv, WaitInBodyIInv
<1>5. CASE Pause \/ Destroy \/ StopSet \/ SetUntilEmpty \/ Join
  BY <1>5, PauseIInv, DestroyIInv, StopSetIInv, GoneIInv
<1>6. CASE UNCHANGED vars
  <2>1. TypeOK' /\ ActiveCountExact'
    BY <1>6 DEF vars, pool, rings, popping, calls, IInv, TypeOK, ActiveCountExact
  <2>2. \A x \in Threads : Local(x)' /\ Nested(x)' /\ Pop(x)'
    BY <1>6 DEF vars, pool, rings, popping, calls, IInv, Local, Nested, Pop
  <2>3. Erasing' /\ Registered' /\ Spans'
    BY <1>6 DEF vars, pool, rings, popping, calls, IInv, Erasing, Looking, Registered, Spans
  <2> QED
    BY <2>1, <2>2, <2>3 DEF IInv
<1> QED
  BY <1>1, <1>2, <1>3, <1>4, <1>5, <1>6 DEF Next

\* The inductive invariant holds in every reachable state.
THEOREM Invariance == Spec => []IInv
BY InitIInv, NextIInv, PTL DEF Spec

\* Type correctness of the worker pool, for any number of threads and tasks.
THEOREM TypeCorrect == Spec => []TypeOK
<1>1. IInv => TypeOK
  BY DEF IInv
<1> QED
  BY <1>1, Invariance, PTL

\* activeWorkersCount is the number of threads that are between the two calls
\* of SetThreadStatus, whatever the pauses, wake-ups, nested waits and departures.
THEOREM CountIsExact == Spec => []ActiveCountExact
<1>1. IInv => ActiveCountExact
  BY DEF IInv
<1> QED
  BY <1>1, Invariance, PTL

\* Until the destructor runs, GetCurrentWorkerID is an index below
\* GetWorkersCount, different for different threads.
THEOREM IdsAreIndices == Spec => []IdsIndexWorkers
<1>1. IInv => IdsIndexWorkers
  <2> SUFFICES ASSUME IInv, ~shouldStop, NEW i \in DOMAIN workers PROVE id[workers[i]] = i - 1
    BY DEF IdsIndexWorkers
  <2>1. \A th \in Threads : pc[th] \notin Gone
    BY DEF IInv, Local, Gone, Leaving
  <2>2. i \in 1 .. Len(workers)
    BY Numbers, LenProperties DEF IInv
  <2> QED
    BY <2>1, <2>2 DEF IInv, Registered
<1> QED
  BY <1>1, Invariance, PTL

\* Nobody indexes the unlocked vector outside its bounds on behalf of the activity
\* count, although threads append themselves and erase themselves meanwhile, tasks
\* wait inside tasks and compare-exchanges fail spuriously; and there always is a
\* workers[0] for whoever reads it.
THEOREM IndicesInRange == Spec => []IndexInRange
<1>1. IInv => IndexInRange
  <2> SUFFICES ASSUME IInv, NEW th \in Threads
               PROVE  /\ pc[th] = "first" => workers # <<>>
                      /\ pc[th] = "random" /\ ~draining[th] => span[th] \in 1 .. Len(workers)
    BY DEF IndexInRange
  <2>1. ASSUME pc[th] = "first" PROVE workers # <<>>
    <3>1. PICK i \in 1 .. Len(workers) : workers[i] = th
      BY <2>1 DEF IInv, Registered, Gone
    <3> QED
      BY <3>1, EmptySeq, Numbers DEF IInv
  <2>2. pc[th] = "random" /\ ~draining[th] => span[th] \in 1 .. Len(workers)
    BY DEF IInv, Spans
  <2> QED
    BY <2>1, <2>2
<1> QED
  BY <1>1, Invariance, PTL
=============================================================================

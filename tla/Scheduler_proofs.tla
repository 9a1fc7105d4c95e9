--------------------------- MODULE Scheduler_proofs ---------------------------
(***************************************************************************)
(* Proofs of Scheduler for any number of objects, calls and ticks.         *)
(*                                                                         *)
(* An object is found by walking containers and the log of deferred calls, *)
(* so the invariant has to say what the log means.  Distinct: an object is *)
(* in one container at most.  Alternate: between two registrations of an   *)
(* object in the log there is an unregistration.  FirstUnregisters: the    *)
(* first call of an object that is held unregisters it.  LastDecides: the  *)
(* last one is what the callers see.  HeldDecides: without a call in the   *)
(* log the containers are.  Settled: while objects are updated, none that  *)
(* the scheduler can reach has a call in the log.  All six are needed for  *)
(* internal_Registration to take a call, or a pair of them, from the log   *)
(* without changing who is registered, which is the heart of the           *)
(* refinement of SchedulerRegistry.                                        *)
(*                                                                         *)
(* What an update may do to the realtime list is a parameter of Scheduler. *)
(* When no update unregisters a realtime object (EraseInRTLoop is FALSE),  *)
(* Loop holds: what is behind the loop's position has been updated, what   *)
(* is before it has not.  Waiting is about time: an object has been passed *)
(* over at most as often as there are objects that come after its entry.   *)
(***************************************************************************)
EXTENDS Scheduler, FiniteSetTheorems, SequenceTheorems, TLAPS

-----------------------------------------------------------------------------
(* The invariant.                                                          *)

InProcessed(o) == \E k \in DOMAIN ItemsProcessed : ItemsProcessed[k].Object = o

\* The containers have no object in common, and none has it twice.
Distinct ==
    /\ \A k, m \in DOMAIN ItemsRT : ItemsRT[k] = ItemsRT[m] => k = m
    /\ \A k, m \in DOMAIN Items :
          Items[k].Object = Items[m].Object /\ Items[k].Object # None => k = m
    /\ \A k, m \in DOMAIN ItemsProcessed :
          ItemsProcessed[k].Object = ItemsProcessed[m].Object => k = m
    /\ \A k \in DOMAIN ItemsProcessed : ItemsProcessed[k].Object # None
    /\ \A o \in Objects :
          /\ ~(InRT(o) /\ InItems(o)) /\ ~(InRT(o) /\ InProcessed(o))
          /\ ~(InItems(o) /\ InProcessed(o))
          /\ m_current_step_obj = o => ~InRT(o) /\ ~InItems(o) /\ ~InProcessed(o)

\* What is empty in which part of Update.
Phases ==
    /\ m_current_step_obj # None => phase = "normal" /\ updating = m_current_step_obj
    /\ updating # None => phase \in {"rt", "normal"}
    /\ phase # "normal" => ItemsProcessed = <<>>
    /\ phase # "rt" => stale = <<>>
    /\ phase = "destroyed" => ItemsRT = <<>> /\ Items = <<>> /\ Registration = <<>>

Pending(o) == \E k \in DOMAIN Registration : Registration[k].Object = o

IsFirst(k) == \A m \in DOMAIN Registration : Registration[m].Object = Registration[k].Object => k <= m
IsLast(k) == \A m \in DOMAIN Registration : Registration[m].Object = Registration[k].Object => m <= k

\* Between two registrations of an object there is an unregistration of it.
Alternate ==
    \A k, m \in DOMAIN Registration :
        k < m /\ Registration[k].OP /\ Registration[m].OP
              /\ Registration[k].Object = Registration[m].Object =>
            \E n \in DOMAIN Registration :
                /\ k < n /\ n < m
                /\ ~Registration[n].OP /\ Registration[n].Object = Registration[k].Object

\* The first deferred call of an object that is held unregisters it, from the
\* container that has it.
FirstUnregisters ==
    \A k \in DOMAIN Registration :
        IsFirst(k) /\ Held(Registration[k].Object) =>
            ~Registration[k].OP /\ (Registration[k].RT <=> InRT(Registration[k].Object))

\* The last one agrees with what the callers see.
LastDecides ==
    \A k \in DOMAIN Registration : IsLast(k) =>
        /\ client[Registration[k].Object] <=> Registration[k].OP
        /\ b_RT[Registration[k].Object] <=> Registration[k].RT

\* With no deferred call the containers agree with the callers.
HeldDecides ==
    phase # "destroyed" =>
        \A o \in Objects : ~Pending(o) =>
            /\ Held(o) => client[o] /\ (b_RT[o] <=> InRT(o))
            /\ client[o] /\ needed[o] => Held(o)

\* An object the scheduler may reach while it updates has no deferred call.
Settled ==
    m_processing_now =>
        \A o \in Objects : InRT(o) \/ InItems(o) \/ m_current_step_obj = o => ~Pending(o)

IInv == TypeOK /\ Distinct /\ Phases /\ Alternate /\ FirstUnregisters /\ LastDecides
        /\ HeldDecides /\ Settled

\* The realtime loop when no update of it unregisters a realtime object: what is
\* behind the position has been updated, what is before it has not.
InLoop ==
    /\ \A o \in served : InRT(o)
    /\ it >= 1
    /\ \A k \in DOMAIN ItemsRT :
          /\ k < it /\ needed[ItemsRT[k]] => ItemsRT[k] \in served
          /\ ItemsRT[k] \in served => k <= it /\ (updating = None => k < it)
    /\ updating # None =>
          it \in DOMAIN ItemsRT /\ updating = ItemsRT[it] /\ updating \in served

\* What has been updated in this frame, in the other parts of Update too.
Loop ==
    /\ stale = <<>>
    /\ phase = "reg1" => served = {}
    /\ phase = "rt" => InLoop
    /\ phase = "normal" => \A k \in DOMAIN Items : Items[k].Object \notin served

\* The entry of an object in the heap, or set aside.
At(o, t) == \E k \in DOMAIN Items : Items[k].Object = o /\ Items[k].time = t
Aside(o, t) == \E k \in DOMAIN ItemsProcessed : ItemsProcessed[k].Object = o /\ ItemsProcessed[k].time = t

\* The objects that are not reached before an entry of time t.
Passed(t) == {p \in Objects : \A s \in Nat : At(p, s) \/ Aside(p, s) => s > t}

\* An object was passed over at most once for each of them.
Waiting ==
    /\ NoStarvation
    /\ \A o \in Objects, t \in Nat : At(o, t) =>
          /\ waited[o] <= Cardinality(Passed(t))
          /\ waited[o] > 0 => t < dwTime
          /\ m_current_step_obj # None /\ t < dwTime => waited[o] + 1 <= Cardinality(Passed(t))
    /\ \A o \in Objects : InProcessed(o) \/ m_current_step_obj = o => waited[o] = 0
    /\ \A k \in DOMAIN Registration : Registration[k].OP => waited[Registration[k].Object] = 0

-----------------------------------------------------------------------------
(* Sequences.                                                              *)

\* Every non-empty set of numbers has a least one.
LEMMA MinOfSet ==
  ASSUME NEW I \in SUBSET Nat, I # {}
  PROVE  Min(I) \in I /\ \A j \in I : Min(I) <= j
<1>1. PICK x \in I : \A y \in I : ~(<<y, x>> \in OpToRel(<, Nat))
  BY NatLessThanWellFounded, WFMin
<1>2. \A y \in I : x <= y
  <2> SUFFICES ASSUME NEW y \in I PROVE x <= y
    OBVIOUS
  <2>1. x \in Nat /\ y \in Nat
    OBVIOUS
  <2>2. ~(y < x)
    BY <1>1, <2>1 DEF OpToRel
  <2> QED
    BY <2>1, <2>2
<1> QED
  BY <1>2 DEF Min

\* Every non-empty set of positions has a last one.
LEMMA MaxOfSet ==
  ASSUME NEW n \in Nat, NEW I \in SUBSET (1 .. n), I # {}
  PROVE  Max(I) \in I /\ \A j \in I : j <= Max(I)
<1> DEFINE J == {n - j : j \in I}
<1>1. J \in SUBSET Nat /\ J # {}
  <2>1. \A j \in I : n - j \in Nat
    OBVIOUS
  <2> QED
    BY <2>1
<1>2. PICK x \in J : \A y \in J : x <= y
  BY <1>1, MinOfSet
<1>3. PICK m \in I : x = n - m
  OBVIOUS
<1>4. \A j \in I : j <= m
  <2> SUFFICES ASSUME NEW j \in I PROVE j <= m
    OBVIOUS
  <2>1. n - j \in J
    OBVIOUS
  <2>2. n - m <= n - j
    BY <1>2, <1>3, <2>1
  <2> QED
    BY <2>2
<1> QED
  BY <1>4 DEF Max

\* vector::erase of one position.
LEMMA RemoveAtElements ==
  ASSUME NEW S, NEW s \in Seq(S), NEW k \in 1 .. Len(s)
  PROVE  /\ RemoveAt(s, k) \in Seq(S)
         /\ Len(RemoveAt(s, k)) = Len(s) - 1
         /\ \A j \in 1 .. Len(s) - 1 : RemoveAt(s, k)[j] = IF j < k THEN s[j] ELSE s[j + 1]
<1> DEFINE a == SubSeq(s, 1, k - 1)
           b == SubSeq(s, k + 1, Len(s))
<1>1. RemoveAt(s, k) = a \o b
  BY DEF RemoveAt
<1>2. Len(s) \in Nat /\ \A n \in 1 .. Len(s) : s[n] \in S
  BY LenProperties
<1>3. a \in Seq(S) /\ Len(a) = k - 1 /\ \A n \in 1 .. k - 1 : a[n] = s[n]
  <2>1. 1 \in Int /\ k - 1 \in Int /\ \A n \in 1 .. k - 1 : s[n] \in S
    BY <1>2
  <2>2. /\ a \in Seq(S) /\ Len(a) = IF 1 <= k - 1 THEN (k - 1) - 1 + 1 ELSE 0
        /\ \A n \in 1 .. (k - 1) - 1 + 1 : a[n] = s[1 + n - 1]
    BY <2>1, SubSeqProperties
  <2> QED
    BY <1>2, <2>2
<1>4. b \in Seq(S) /\ Len(b) = Len(s) - k /\ \A n \in 1 .. Len(s) - k : b[n] = s[k + n]
  <2>1. k + 1 \in Int /\ Len(s) \in Int /\ \A n \in k + 1 .. Len(s) : s[n] \in S
    BY <1>2
  <2>2. /\ b \in Seq(S) /\ Len(b) = IF k + 1 <= Len(s) THEN Len(s) - (k + 1) + 1 ELSE 0
        /\ \A n \in 1 .. Len(s) - (k + 1) + 1 : b[n] = s[(k + 1) + n - 1]
    BY <2>1, SubSeqProperties
  <2> QED
    BY <1>2, <2>2
<1> HIDE DEF a, b
<1>5. /\ a \o b \in Seq(S) /\ Len(a \o b) = Len(a) + Len(b)
      /\ \A n \in 1 .. Len(a) + Len(b) : (a \o b)[n] = IF n <= Len(a) THEN a[n] ELSE b[n - Len(a)]
  <2>1. a \in Seq(S) /\ b \in Seq(S)
    BY <1>3, <1>4
  <2> QED
    BY <2>1, ConcatProperties
<1>6. ASSUME NEW j \in 1 .. Len(s) - 1
      PROVE  (a \o b)[j] = IF j < k THEN s[j] ELSE s[j + 1]
  <2>1. CASE j < k
    BY <1>2, <1>3, <1>4, <1>5, <2>1
  <2>2. CASE ~(j < k)
    <3>1. j - (k - 1) \in 1 .. Len(s) - k /\ ~(j <= Len(a)) /\ j \in 1 .. Len(a) + Len(b)
      BY <1>2, <1>3, <1>4, <2>2
    <3>2. (a \o b)[j] = b[j - (k - 1)]
      BY <1>3, <1>5, <3>1
    <3>3. k + (j - (k - 1)) = j + 1
      BY <1>2
    <3> QED
      BY <1>4, <2>2, <3>1, <3>2, <3>3
  <2> QED
    BY <2>1, <2>2
<1>7. Len(a \o b) = Len(s) - 1
  BY <1>2, <1>3, <1>4, <1>5
<1> QED
  BY <1>1, <1>5, <1>6, <1>7

-----------------------------------------------------------------------------
(* What the operations do to the containers.                               *)

\* An object is in ItemsRT when it is at one of its positions.
LEMMA InRTMeans ==
  ASSUME NEW o
  PROVE  /\ InRT(o) <=> \E k \in DOMAIN ItemsRT : ItemsRT[k] = o
         /\ InRT(o)' <=> \E k \in DOMAIN ItemsRT' : ItemsRT'[k] = o
BY Zenon DEF InRT, ToSet

\* std::find and erase on ItemsRT: the object leaves, the rest keeps its order.
LEMMA EraseRTRemoves ==
  ASSUME TypeOK, Distinct, NEW A \in Objects, InRT(A), EraseRT(A)
  PROVE  /\ ItemsRT' \in Seq(Objects) /\ stale' \in Seq(Objects)
         /\ \A k, m \in DOMAIN ItemsRT' : ItemsRT'[k] = ItemsRT'[m] => k = m
         /\ \A o : InRT(o)' <=> InRT(o) /\ o # A
<1>1. ItemsRT \in Seq(Objects) /\ stale \in Seq(Objects)
  BY DEF TypeOK
<1>2. PICK j \in 1 .. Len(ItemsRT) : ItemsRT[j] = A
  BY <1>1, InRTMeans
<1>3. First(ItemsRT, A) = j
  <2>1. {n \in 1 .. Len(ItemsRT) : ItemsRT[n] = A} = {j}
    BY <1>1, <1>2 DEF Distinct
  <2>2. Min({j}) = j
    BY DEF Min
  <2> QED
    BY <2>1, <2>2 DEF First, SelectInSeq
<1>4. /\ ItemsRT' \in Seq(Objects) /\ Len(ItemsRT') = Len(ItemsRT) - 1
      /\ \A k \in 1 .. Len(ItemsRT) - 1 : ItemsRT'[k] = IF k < j THEN ItemsRT[k] ELSE ItemsRT[k + 1]
  BY <1>1, <1>3, RemoveAtElements DEF EraseRT
<1>5. stale' \in Seq(Objects)
  <2>1. Last(ItemsRT) \in Objects
    BY <1>1, <1>2 DEF Last
  <2>2. <<Last(ItemsRT)>> \in Seq(Objects)
    BY <2>1
  <2>3. <<Last(ItemsRT)>> \o stale \in Seq(Objects)
    BY <1>1, <2>2, ConcatProperties
  <2> QED
    BY <1>1, <2>3 DEF EraseRT
<1>6. \A k, m \in 1 .. Len(ItemsRT) : ItemsRT[k] = ItemsRT[m] => k = m
  BY <1>1 DEF Distinct
<1>7. Len(ItemsRT) \in Nat /\ DOMAIN ItemsRT = 1 .. Len(ItemsRT) /\ DOMAIN ItemsRT' = 1 .. Len(ItemsRT) - 1
  BY <1>1, <1>4
<1>8. \A k, m \in DOMAIN ItemsRT' : ItemsRT'[k] = ItemsRT'[m] => k = m
  <2> SUFFICES ASSUME NEW k \in 1 .. Len(ItemsRT) - 1, NEW m \in 1 .. Len(ItemsRT) - 1,
                      ItemsRT'[k] = ItemsRT'[m]
               PROVE  k = m
    BY <1>7
  <2> QED
    BY <1>2, <1>4, <1>6, <1>7
<1>9. ASSUME NEW o PROVE InRT(o)' <=> InRT(o) /\ o # A
  <2>1. ASSUME InRT(o)' PROVE InRT(o) /\ o # A
    BY <1>2, <1>4, <1>6, <1>7, <2>1, InRTMeans
  <2>2. ASSUME InRT(o), o # A PROVE InRT(o)'
    <3>1. PICK k \in DOMAIN ItemsRT : ItemsRT[k] = o
      BY <2>2, InRTMeans
    <3>2. CASE k < j
      BY <1>2, <1>4, <1>7, <3>1, <3>2, InRTMeans
    <3>3. CASE k > j
      <4>1. k - 1 \in DOMAIN ItemsRT' /\ ItemsRT'[k - 1] = o
        BY <1>2, <1>4, <1>7, <3>1, <3>3
      <4> QED
        BY <4>1, InRTMeans
    <3> QED
      BY <1>2, <1>7, <2>2, <3>1, <3>2, <3>3
  <2> QED
    BY <2>1, <2>2
<1> QED
  BY <1>4, <1>5, <1>8, <1>9

\* The first entry of an object in the heap.
LEMMA FirstItemFinds ==
  ASSUME TypeOK, NEW A, InItems(A)
  PROVE  FirstItem(A) \in DOMAIN Items /\ Items[FirstItem(A)].Object = A
<1> DEFINE I == {k \in 1 .. Len(Items) : Items[k].Object = A}
<1>1. Items \in Seq(Entry)
  BY DEF TypeOK
<1>2. I \in SUBSET Nat /\ I # {}
  BY <1>1 DEF InItems
<1>3. Min(I) \in I
  BY <1>2, MinOfSet
<1>4. FirstItem(A) = Min(I)
  BY <1>2 DEF FirstItem, SelectInSeq
<1> QED
  BY <1>1, <1>3, <1>4

\* Unregistering an object of the heap leaves an entry without an object.
LEMMA NullItem ==
  ASSUME TypeOK, Distinct, SchedulerAssumption, NEW A \in Objects, InItems(A),
         Items' = [Items EXCEPT ![FirstItem(A)].Object = None]
  PROVE  /\ Items' \in Seq(Entry) /\ DOMAIN Items' = DOMAIN Items
         /\ \A k \in DOMAIN Items : /\ Items'[k].time = Items[k].time
                                    /\ Items'[k].Object = IF Items[k].Object = A THEN None ELSE Items[k].Object
         /\ \A o \in Objects : InItems(o)' <=> InItems(o) /\ o # A
<1> DEFINE j == FirstItem(A)
           e == [Object |-> None, time |-> Items[j].time]
<1>1. Items \in Seq(Entry) /\ j \in 1 .. Len(Items) /\ Items[j].Object = A
  BY FirstItemFinds DEF TypeOK
<1>2. \A k \in 1 .. Len(Items) : /\ Items[k] \in Entry /\ Items[k].time \in Nat
                                 /\ Items[k].Object \in Objects \cup {None}
  <2>1. \A k \in 1 .. Len(Items) : Items[k] \in Entry
    BY <1>1, ElementOfSeq
  <2> QED
    BY <2>1 DEF Entry
<1>3. e \in Entry
  BY <1>1, <1>2 DEF Entry
<1>4. Items' = [Items EXCEPT ![j] = e]
  <2>1. [Items[j] EXCEPT !.Object = None] = e
    BY <1>1, <1>2 DEF Entry
  <2> QED
    BY <2>1
<1> HIDE DEF j
<1>5. /\ Items' \in Seq(Entry) /\ Len(Items') = Len(Items)
      /\ \A k \in 1 .. Len(Items) : Items'[k] = IF k = j THEN e ELSE Items[k]
  BY <1>1, <1>3, <1>4, ExceptSeq
<1>6. DOMAIN Items' = 1 .. Len(Items) /\ DOMAIN Items = 1 .. Len(Items)
  BY <1>1, <1>5
<1>7. \A k \in 1 .. Len(Items) : Items[k].Object = A => k = j
  BY <1>1, <1>6, SchedulerAssumption DEF Distinct
<1>8. \A k \in 1 .. Len(Items) :
         /\ Items'[k].time = Items[k].time
         /\ Items'[k].Object = IF Items[k].Object = A THEN None ELSE Items[k].Object
  BY <1>1, <1>5, <1>7
<1>9. \A o \in Objects : InItems(o)' <=> InItems(o) /\ o # A
  BY <1>6, <1>8, SchedulerAssumption DEF InItems
<1> QED
  BY <1>5, <1>6, <1>8, <1>9

\* internal_Unregister, whichever place it finds the object in: afterwards the
\* object is nowhere, and everything else is where it was.
LEMMA InternalUnregisterRemoves ==
  ASSUME TypeOK, Distinct, SchedulerAssumption, NEW A \in Objects, NEW RT,
         internal_Unregister(A, RT), UNCHANGED ItemsProcessed
  PROVE  /\ ItemsRT' \in Seq(Objects) /\ stale' \in Seq(Objects) /\ Items' \in Seq(Entry)
         /\ DOMAIN Items' = DOMAIN Items
         /\ \A k \in DOMAIN Items : /\ Items'[k].time = Items[k].time
                                    /\ Items'[k].Object \in {Items[k].Object, None}
         /\ m_current_step_obj' \in {m_current_step_obj, None}
         /\ \A o \in Objects : /\ InRT(o)' <=> InRT(o) /\ o # A
                               /\ InItems(o)' <=> InItems(o) /\ o # A
                               /\ m_current_step_obj' = o <=> m_current_step_obj = o /\ o # A
                               /\ InProcessed(o)' <=> InProcessed(o)
         /\ ~InProcessed(A)
         /\ Distinct'
<1>1. /\ ItemsRT \in Seq(Objects) /\ stale \in Seq(Objects) /\ Items \in Seq(Entry)
      /\ None \notin Objects
  BY SchedulerAssumption DEF TypeOK
<1>2. \A o \in Objects : InProcessed(o)' <=> InProcessed(o)
  BY DEF InProcessed
<1>3. CASE RT /\ InRT(A) /\ EraseRT(A) /\ UNCHANGED <<Items, m_current_step_obj>>
  <2>1. /\ ItemsRT' \in Seq(Objects) /\ stale' \in Seq(Objects)
        /\ \A k, m \in DOMAIN ItemsRT' : ItemsRT'[k] = ItemsRT'[m] => k = m
        /\ \A o : InRT(o)' <=> InRT(o) /\ o # A
    BY <1>3, EraseRTRemoves
  <2>2. ~InItems(A) /\ ~InProcessed(A) /\ m_current_step_obj # A
    BY <1>3 DEF Distinct
  <2>3. \A o \in Objects : InItems(o)' <=> InItems(o)
    BY <1>3 DEF InItems
  <2>4. Distinct'
    BY <1>2, <1>3, <2>1, <2>3 DEF Distinct
  <2> QED
    BY <1>1, <1>2, <1>3, <2>1, <2>2, <2>3, <2>4
<1>4. CASE ~RT /\ InItems(A) /\ Items' = [Items EXCEPT ![FirstItem(A)].Object = None]
           /\ UNCHANGED <<ItemsRT, stale, m_current_step_obj>>
  <2>1. /\ Items' \in Seq(Entry) /\ DOMAIN Items' = DOMAIN Items
        /\ \A k \in DOMAIN Items : /\ Items'[k].time = Items[k].time
                                   /\ Items'[k].Object = IF Items[k].Object = A THEN None ELSE Items[k].Object
        /\ \A o \in Objects : InItems(o)' <=> InItems(o) /\ o # A
    BY <1>4, NullItem
  <2>2. ~InRT(A) /\ ~InProcessed(A) /\ m_current_step_obj # A
    BY <1>4 DEF Distinct
  <2>3. \A o : InRT(o)' <=> InRT(o)
    BY <1>4, InRTMeans
  <2>4. Distinct'
    BY <1>2, <1>4, <2>1, <2>3 DEF Distinct
  <2> QED
    BY <1>1, <1>2, <1>4, <2>1, <2>2, <2>3, <2>4
<1>5. CASE m_current_step_obj = A /\ m_current_step_obj' = None /\ UNCHANGED <<ItemsRT, stale, Items>>
  <2>1. ~InRT(A) /\ ~InItems(A) /\ ~InProcessed(A)
    BY <1>5 DEF Distinct
  <2>2. \A o : InRT(o)' <=> InRT(o)
    BY <1>5, InRTMeans
  <2>3. \A o \in Objects : InItems(o)' <=> InItems(o)
    BY <1>5 DEF InItems
  <2>4. Distinct'
    BY <1>1, <1>2, <1>5, <2>2, <2>3 DEF Distinct
  <2> QED
    BY <1>1, <1>2, <1>5, <2>1, <2>2, <2>3, <2>4
<1> QED
  BY <1>3, <1>4, <1>5 DEF internal_Unregister

\* An entry leaves the heap.
LEMMA RemoveItem ==
  ASSUME TypeOK, Distinct, SchedulerAssumption, NEW k \in DOMAIN Items, Items' = RemoveAt(Items, k)
  PROVE  /\ Items' \in Seq(Entry)
         /\ \A n \in DOMAIN Items' : \E m \in DOMAIN Items : m # k /\ Items'[n] = Items[m]
         /\ \A m \in DOMAIN Items : m # k => \E n \in DOMAIN Items' : Items'[n] = Items[m]
         /\ \A n, m \in DOMAIN Items' :
               Items'[n].Object = Items'[m].Object /\ Items'[n].Object # None => n = m
         /\ \A o \in Objects : InItems(o)' <=> InItems(o) /\ o # Items[k].Object
<1>1. Items \in Seq(Entry) /\ k \in 1 .. Len(Items) /\ DOMAIN Items = 1 .. Len(Items) /\ Len(Items) \in Nat
  BY DEF TypeOK
<1>2. /\ Items' \in Seq(Entry) /\ DOMAIN Items' = 1 .. Len(Items) - 1
      /\ \A j \in 1 .. Len(Items) - 1 : Items'[j] = IF j < k THEN Items[j] ELSE Items[j + 1]
  BY <1>1, RemoveAtElements
<1>3. \A n \in DOMAIN Items' : \E m \in DOMAIN Items : m # k /\ Items'[n] = Items[m]
  BY <1>1, <1>2
<1>4. ASSUME NEW m \in DOMAIN Items, m # k PROVE \E n \in DOMAIN Items' : Items'[n] = Items[m]
  <2>1. CASE m < k
    BY <1>1, <1>2, <2>1
  <2>2. CASE m > k
    <3>1. m - 1 \in DOMAIN Items' /\ Items'[m - 1] = Items[m]
      BY <1>1, <1>2, <2>2
    <3> QED
      BY <3>1
  <2> QED
    BY <1>1, <1>4, <2>1, <2>2
<1>5. ASSUME NEW n \in DOMAIN Items', NEW m \in DOMAIN Items',
             Items'[n].Object = Items'[m].Object, Items'[n].Object # None
      PROVE  n = m
  <2>1. \A a, b \in 1 .. Len(Items) :
           Items[a].Object = Items[b].Object /\ Items[a].Object # None => a = b
    BY <1>1 DEF Distinct
  <2> QED
    BY <1>1, <1>2, <1>5, <2>1
<1>6. ASSUME NEW o \in Objects PROVE InItems(o)' <=> InItems(o) /\ o # Items[k].Object
  <2>1. ASSUME InItems(o)' PROVE InItems(o) /\ o # Items[k].Object
    <3>1. PICK n \in DOMAIN Items' : Items'[n].Object = o
      BY <2>1 DEF InItems
    <3>2. PICK m \in DOMAIN Items : m # k /\ Items'[n] = Items[m]
      BY <1>3
    <3> QED
      BY <3>1, <3>2, SchedulerAssumption DEF InItems, Distinct
  <2>2. ASSUME InItems(o), o # Items[k].Object PROVE InItems(o)'
    <3>1. PICK m \in DOMAIN Items : Items[m].Object = o
      BY <2>2 DEF InItems
    <3> QED
      BY <1>4, <2>2, <3>1 DEF InItems
  <2> QED
    BY <2>1, <2>2
<1> QED
  BY <1>2, <1>3, <1>4, <1>5, <1>6

\* Entries are added behind those of the heap.
LEMMA AddItems ==
  ASSUME TypeOK, NEW processed \in Seq(Entry), Items' = Items \o processed
  PROVE  /\ Items' \in Seq(Entry)
         /\ \A n \in DOMAIN Items' :
               \/ n \in DOMAIN Items /\ Items'[n] = Items[n]
               \/ /\ n > Len(Items) /\ n - Len(Items) \in DOMAIN processed
                  /\ Items'[n] = processed[n - Len(Items)]
         /\ \A o : InItems(o)' <=> \/ InItems(o)
                                   \/ \E n \in DOMAIN processed : processed[n].Object = o
<1>1. Items \in Seq(Entry) /\ DOMAIN Items = 1 .. Len(Items) /\ Len(Items) \in Nat
  BY DEF TypeOK
<1>2. DOMAIN processed = 1 .. Len(processed) /\ Len(processed) \in Nat
  OBVIOUS
<1>3. /\ Items' \in Seq(Entry) /\ Len(Items') = Len(Items) + Len(processed)
      /\ \A n \in 1 .. Len(Items) + Len(processed) :
            Items'[n] = IF n <= Len(Items) THEN Items[n] ELSE processed[n - Len(Items)]
  BY <1>1, ConcatProperties
<1>4. DOMAIN Items' = 1 .. Len(Items) + Len(processed)
  BY <1>1, <1>2, <1>3
<1>5. \A n \in DOMAIN Items' :
         \/ n \in DOMAIN Items /\ Items'[n] = Items[n]
         \/ /\ n > Len(Items) /\ n - Len(Items) \in DOMAIN processed
            /\ Items'[n] = processed[n - Len(Items)]
  BY <1>1, <1>2, <1>3, <1>4
<1>6. ASSUME NEW o PROVE InItems(o)' <=> InItems(o) \/ \E n \in DOMAIN processed : processed[n].Object = o
  <2>1. ASSUME InItems(o) PROVE InItems(o)'
    BY <1>1, <1>2, <1>3, <1>4, <2>1 DEF InItems
  <2>2. ASSUME NEW n \in DOMAIN processed, processed[n].Object = o PROVE InItems(o)'
    <3>1. n + Len(Items) \in DOMAIN Items' /\ Items'[n + Len(Items)] = processed[n]
      BY <1>1, <1>2, <1>3, <1>4
    <3> QED
      BY <2>2, <3>1 DEF InItems
  <2>3. ASSUME InItems(o)' PROVE InItems(o) \/ \E n \in DOMAIN processed : processed[n].Object = o
    BY <1>5, <2>3 DEF InItems
  <2> QED
    BY <2>1, <2>2, <2>3
<1> QED
  BY <1>3, <1>5, <1>6

-----------------------------------------------------------------------------
(* What the operations do to the deferred calls.                           *)

\* A deferred call goes to the end.
LEMMA AppendCall ==
  ASSUME TypeOK, NEW R \in ItemReg, Registration' = Append(Registration, R)
  PROVE  /\ Registration' \in Seq(ItemReg)
         /\ DOMAIN Registration = 1 .. Len(Registration) /\ Len(Registration) \in Nat
         /\ DOMAIN Registration' = 1 .. Len(Registration) + 1
         /\ Registration'[Len(Registration) + 1] = R
         /\ \A k \in DOMAIN Registration :
               /\ Registration'[k] = Registration[k]
               /\ IsFirst(k)' => IsFirst(k)
               /\ IsLast(k)' => IsLast(k) /\ Registration[k].Object # R.Object
         /\ \A k \in DOMAIN Registration' : k \notin DOMAIN Registration =>
               Registration'[k] = R /\ (IsFirst(k)' => ~Pending(R.Object))
         /\ \A o : Pending(o)' <=> Pending(o) \/ o = R.Object
<1> DEFINE n == Len(Registration)
<1>1. Registration \in Seq(ItemReg) /\ DOMAIN Registration = 1 .. n /\ n \in Nat
  BY DEF TypeOK
<1>2. /\ Registration' \in Seq(ItemReg) /\ DOMAIN Registration' = 1 .. n + 1
      /\ Registration'[n + 1] = R /\ \A k \in 1 .. n : Registration'[k] = Registration[k]
  BY <1>1
<1> HIDE DEF n
<1>3. \A o : Pending(o)' <=> Pending(o) \/ o = R.Object
  BY <1>1, <1>2 DEF Pending
<1>4. ASSUME NEW k \in 1 .. n, IsFirst(k)' PROVE IsFirst(k)
  BY <1>1, <1>2, <1>4 DEF IsFirst
<1>5. ASSUME NEW k \in 1 .. n, IsLast(k)' PROVE IsLast(k) /\ Registration[k].Object # R.Object
  BY <1>1, <1>2, <1>5 DEF IsLast
<1>6. ASSUME NEW k \in 1 .. n + 1, k \notin 1 .. n
      PROVE  Registration'[k] = R /\ (IsFirst(k)' => ~Pending(R.Object))
  <2>1. k = n + 1
    BY <1>1, <1>6
  <2>2. IsFirst(k)' => \A m \in 1 .. n : Registration[m].Object # R.Object
    BY <1>1, <1>2, <2>1 DEF IsFirst
  <2> QED
    BY <1>1, <1>2, <2>1, <2>2 DEF Pending
<1> QED
  BY <1>1, <1>2, <1>3, <1>4, <1>5, <1>6 DEF n

\* std::find of the "unregister" that cancels a registration.
LEMMA PairFinds ==
  ASSUME TypeOK, Registration # <<>>, NEW A
  PROVE  /\ Pair(A) = 0 => \A k \in DOMAIN Registration :
                               k > 1 => Registration[k].OP \/ Registration[k].Object # A
         /\ Pair(A) # 0 =>
               /\ Pair(A) \in 1 .. Len(Registration) - 1
               /\ ~Registration[Pair(A) + 1].OP /\ Registration[Pair(A) + 1].Object = A
               /\ \A k \in DOMAIN Registration :
                     k > 1 /\ k <= Pair(A) => Registration[k].OP \/ Registration[k].Object # A
<1> DEFINE n == Len(Registration)
           tl == Tail(Registration)
           I == {k \in 1 .. Len(tl) : ~tl[k].OP /\ tl[k].Object = A}
<1>1. Registration \in Seq(ItemReg) /\ DOMAIN Registration = 1 .. n /\ n \in Nat /\ n >= 1
  BY DEF TypeOK
<1>2. Len(tl) = n - 1 /\ \A k \in 1 .. n - 1 : tl[k] = Registration[k + 1]
  BY <1>1, HeadTailProperties
<1>3. Pair(A) = IF I # {} THEN Min(I) ELSE 0
  BY DEF Pair, SelectInSeq
<1> HIDE DEF tl, n
<1>4. CASE I = {}
  <2>1. \A k \in 2 .. n : Registration[k].OP \/ Registration[k].Object # A
    <3> SUFFICES ASSUME NEW k \in 2 .. n PROVE Registration[k].OP \/ Registration[k].Object # A
      OBVIOUS
    <3>1. k - 1 \in 1 .. n - 1 /\ tl[k - 1] = Registration[k]
      BY <1>1, <1>2
    <3> QED
      BY <1>2, <1>4, <3>1
  <2> QED
    BY <1>1, <1>3, <1>4, <2>1
<1>5. CASE I # {}
  <2>1. I \in SUBSET Nat
    BY <1>1, <1>2
  <2>2. Min(I) \in I /\ \A j \in I : Min(I) <= j
    BY <1>5, <2>1, MinOfSet
  <2>3. Pair(A) \in 1 .. n - 1 /\ ~Registration[Pair(A) + 1].OP /\ Registration[Pair(A) + 1].Object = A
    BY <1>2, <1>3, <1>5, <2>2
  <2>4. ASSUME NEW k \in 2 .. n, k <= Pair(A) PROVE Registration[k].OP \/ Registration[k].Object # A
    <3>1. k - 1 \in 1 .. n - 1 /\ tl[k - 1] = Registration[k] /\ ~(Pair(A) <= k - 1)
      BY <1>1, <1>2, <2>3, <2>4
    <3> QED
      BY <1>2, <1>3, <1>5, <2>2, <3>1
  <2> QED
    BY <1>1, <2>3, <2>4 DEF n
<1> QED
  BY <1>4, <1>5

\* A registration without its "unregister" is the last call of its object.
LEMMA NoPairIsLast ==
  ASSUME TypeOK, Alternate, Registration # <<>>,
         Registration[1].OP, Pair(Registration[1].Object) = 0
  PROVE  IsLast(1)
<1>1. Registration \in Seq(ItemReg) /\ DOMAIN Registration = 1 .. Len(Registration) /\ Len(Registration) \in Nat /\ Len(Registration) >= 1
  BY DEF TypeOK
<1>2. \A k \in DOMAIN Registration :
         k > 1 => Registration[k].OP \/ Registration[k].Object # Registration[1].Object
  BY PairFinds
<1>3. SUFFICES ASSUME NEW m \in DOMAIN Registration, m > 1, Registration[m].Object = Registration[1].Object
               PROVE  FALSE
  BY <1>1 DEF IsLast
<1>4. Registration[m].OP /\ 1 \in DOMAIN Registration
  BY <1>1, <1>2, <1>3
<1>5. PICK n \in DOMAIN Registration :
         1 < n /\ n < m /\ ~Registration[n].OP /\ Registration[n].Object = Registration[1].Object
  BY <1>3, <1>4 DEF Alternate
<1> QED
  BY <1>2, <1>5

\* Calls of the object A were taken out of the log: those that stay keep their
\* order, and registrations and unregistrations alternate as before.
Taken(A) ==
    /\ Registration' \in Seq(ItemReg)
    /\ \A o : o # A => (Pending(o)' <=> Pending(o))
    /\ \A k \in DOMAIN Registration' : \E j \in DOMAIN Registration :
          /\ Registration'[k] = Registration[j]
          /\ IsLast(k)' => IsLast(j)
          /\ IsFirst(k)' /\ Registration[j].Object # A => IsFirst(j)
    /\ Alternate'

\* internal_Registration takes the first call.
LEMMA TailTakes ==
  ASSUME TypeOK, Alternate, Registration # <<>>, Registration' = Tail(Registration),
         NEW A, Registration[1].Object = A
  PROVE  Taken(A) /\ (Pending(A)' \/ IsLast(1))
<1> DEFINE n == Len(Registration)
<1>1. Registration \in Seq(ItemReg) /\ DOMAIN Registration = 1 .. n /\ n \in Nat /\ n >= 1
  BY DEF TypeOK
<1>2. /\ Registration' \in Seq(ItemReg) /\ DOMAIN Registration' = 1 .. n - 1
      /\ \A k \in 1 .. n - 1 : Registration'[k] = Registration[k + 1]
  BY <1>1, HeadTailProperties
<1> HIDE DEF n
<1>3. \A m \in 2 .. n : m - 1 \in 1 .. n - 1 /\ Registration'[m - 1] = Registration[m]
  BY <1>1, <1>2
<1>4. ASSUME NEW o, o # A PROVE Pending(o)' <=> Pending(o)
  <2>1. Pending(o)' => Pending(o)
    BY <1>1, <1>2 DEF Pending
  <2>2. ASSUME Pending(o) PROVE Pending(o)'
    <3>1. PICK m \in 1 .. n : Registration[m].Object = o
      BY <1>1, <2>2 DEF Pending
    <3>2. m \in 2 .. n
      BY <1>1, <1>4, <3>1
    <3> QED
      BY <1>2, <1>3, <3>1, <3>2 DEF Pending
  <2> QED
    BY <2>1, <2>2
<1>5. ASSUME NEW k \in 1 .. n - 1
      PROVE  \E j \in 1 .. n : /\ Registration'[k] = Registration[j]
                               /\ IsLast(k)' => IsLast(j)
                               /\ IsFirst(k)' /\ Registration[j].Object # A => IsFirst(j)
  <2>1. k + 1 \in 1 .. n /\ Registration'[k] = Registration[k + 1]
    BY <1>1, <1>2
  <2>2. ASSUME IsLast(k)' PROVE IsLast(k + 1)
    <3> SUFFICES ASSUME NEW m \in 1 .. n, Registration[m].Object = Registration[k + 1].Object
                 PROVE  m <= k + 1
      BY <1>1 DEF IsLast
    <3>1. m \in 2 .. n => m - 1 <= k
      BY <1>2, <1>3, <2>1, <2>2 DEF IsLast
    <3> QED
      BY <1>1, <3>1
  <2>3. ASSUME IsFirst(k)', Registration[k + 1].Object # A PROVE IsFirst(k + 1)
    <3> SUFFICES ASSUME NEW m \in 1 .. n, Registration[m].Object = Registration[k + 1].Object
                 PROVE  k + 1 <= m
      BY <1>1 DEF IsFirst
    <3>1. m \in 2 .. n
      BY <1>1, <2>3
    <3>2. k <= m - 1
      BY <1>2, <1>3, <2>1, <2>3, <3>1 DEF IsFirst
    <3> QED
      BY <1>1, <3>1, <3>2
  <2> QED
    BY <2>1, <2>2, <2>3
<1>6. Alternate'
  <2> SUFFICES ASSUME NEW k \in 1 .. n - 1, NEW m \in 1 .. n - 1, k < m,
                      Registration'[k].OP, Registration'[m].OP,
                      Registration'[k].Object = Registration'[m].Object
               PROVE  \E x \in 1 .. n - 1 :
                         /\ k < x /\ x < m
                         /\ ~Registration'[x].OP /\ Registration'[x].Object = Registration'[k].Object
    BY <1>2 DEF Alternate
  <2>1. k + 1 \in 1 .. n /\ m + 1 \in 1 .. n /\ k + 1 < m + 1
    BY <1>1
  <2>2. PICK y \in 1 .. n : /\ k + 1 < y /\ y < m + 1
                            /\ ~Registration[y].OP /\ Registration[y].Object = Registration[k + 1].Object
    BY <1>1, <1>2, <2>1 DEF Alternate
  <2>3. y \in 2 .. n /\ k < y - 1 /\ y - 1 < m
    BY <1>1, <2>1, <2>2
  <2>4. y - 1 \in 1 .. n - 1 /\ Registration'[y - 1] = Registration[y] /\ Registration'[k] = Registration[k + 1]
    BY <1>2, <1>3, <2>3
  <2> QED
    BY <2>2, <2>3, <2>4
<1>7. Pending(A)' \/ IsLast(1)
  <2> SUFFICES ASSUME NEW m \in 2 .. n, Registration[m].Object = A PROVE Pending(A)'
    BY <1>1 DEF IsLast
  <2> QED
    BY <1>2, <1>3 DEF Pending
<1> QED
  BY <1>1, <1>2, <1>4, <1>5, <1>6, <1>7 DEF Taken

\* A registration that is cancelled is taken together with its "unregister".
LEMMA PairTakes ==
  ASSUME TypeOK, Alternate, Registration # <<>>,
         NEW A, Registration[1].Object = A, Registration[1].OP, Pair(A) # 0,
         Registration' = RemoveAt(Tail(Registration), Pair(A))
  PROVE  Taken(A) /\ (Pending(A)' \/ IsLast(Pair(A) + 1))
<1> DEFINE n == Len(Registration)
           p == Pair(A)
           F(k) == IF k < p THEN k + 1 ELSE k + 2
           G(m) == IF m <= p THEN m - 1 ELSE m - 2
<1>1. Registration \in Seq(ItemReg) /\ DOMAIN Registration = 1 .. n /\ n \in Nat /\ n >= 1
  BY DEF TypeOK
<1>2. /\ Tail(Registration) \in Seq(ItemReg) /\ Len(Tail(Registration)) = n - 1
      /\ \A k \in 1 .. n - 1 : Tail(Registration)[k] = Registration[k + 1]
  BY <1>1, HeadTailProperties
<1>3. /\ p \in 1 .. n - 1 /\ ~Registration[p + 1].OP /\ Registration[p + 1].Object = A
      /\ \A k \in 1 .. n : k > 1 /\ k <= p => Registration[k].OP \/ Registration[k].Object # A
  BY <1>1, PairFinds
<1> HIDE DEF n, p
<1>4. /\ Registration' \in Seq(ItemReg) /\ Len(Registration') = (n - 1) - 1
      /\ \A k \in 1 .. (n - 1) - 1 :
            Registration'[k] = IF k < p THEN Tail(Registration)[k] ELSE Tail(Registration)[k + 1]
  <2>1. Registration' = RemoveAt(Tail(Registration), p) /\ p \in 1 .. Len(Tail(Registration))
    BY <1>2, <1>3 DEF p
  <2> QED
    BY <1>2, <2>1, RemoveAtElements
<1>5. DOMAIN Registration' = 1 .. n - 2
  BY <1>1, <1>4
<1>6. \A k \in 1 .. n - 2 : F(k) \in 1 .. n /\ Registration'[k] = Registration[F(k)]
  BY <1>1, <1>2, <1>3, <1>4
<1>7. \A m \in 1 .. n : m # 1 /\ m # p + 1 =>
         /\ G(m) \in 1 .. n - 2 /\ F(G(m)) = m /\ Registration'[G(m)] = Registration[m]
  <2> SUFFICES ASSUME NEW m \in 1 .. n, m # 1, m # p + 1
               PROVE  /\ G(m) \in 1 .. n - 2 /\ F(G(m)) = m
                      /\ Registration'[G(m)] = Registration[m]
    OBVIOUS
  <2>1. G(m) \in 1 .. n - 2 /\ F(G(m)) = m
    BY <1>1, <1>3
  <2> QED
    BY <1>6, <2>1
<1>8. \A k, m \in 1 .. n - 2 : (k < m <=> F(k) < F(m)) /\ (k <= m <=> F(k) <= F(m))
  BY <1>1, <1>3
<1>9. \A m \in 1 .. n : m > 1 /\ Registration[m].Object = A => m > p
  <2> SUFFICES ASSUME NEW m \in 1 .. n, m > 1, Registration[m].Object = A, m <= p PROVE FALSE
    BY <1>1, <1>3
  <2>1. Registration[m].OP
    BY <1>3
  <2>2. PICK x \in 1 .. n : 1 < x /\ x < m /\ ~Registration[x].OP /\ Registration[x].Object = A
    BY <1>1, <2>1 DEF Alternate
  <2> QED
    BY <1>1, <1>3, <2>2
<1>10. \A k \in 1 .. n - 2 : F(k) # 1 /\ F(k) # p + 1
  BY <1>1, <1>3
<1> HIDE DEF F, G
<1>11. ASSUME NEW o, o # A PROVE Pending(o)' <=> Pending(o)
  <2>1. Pending(o)' => Pending(o)
    BY <1>1, <1>5, <1>6 DEF Pending
  <2>2. ASSUME Pending(o) PROVE Pending(o)'
    <3>1. PICK m \in 1 .. n : Registration[m].Object = o
      BY <1>1, <2>2 DEF Pending
    <3>2. m # 1 /\ m # p + 1
      BY <1>3, <1>11, <3>1
    <3> QED
      BY <1>5, <1>7, <3>1, <3>2 DEF Pending
  <2> QED
    BY <2>1, <2>2
<1>12. ASSUME NEW k \in 1 .. n - 2
       PROVE  \E j \in 1 .. n : /\ Registration'[k] = Registration[j]
                                /\ IsLast(k)' => IsLast(j)
                                /\ IsFirst(k)' /\ Registration[j].Object # A => IsFirst(j)
  <2>1. F(k) \in 1 .. n /\ Registration'[k] = Registration[F(k)]
    BY <1>6
  <2>2. ASSUME IsLast(k)' PROVE IsLast(F(k))
    <3> SUFFICES ASSUME NEW m \in 1 .. n, Registration[m].Object = Registration[F(k)].Object
                 PROVE  m <= F(k)
      BY <1>1 DEF IsLast
    <3>1. CASE m # 1 /\ m # p + 1
      <4>1. G(m) \in 1 .. n - 2 /\ F(G(m)) = m /\ Registration'[G(m)] = Registration[m]
        BY <1>7, <3>1
      <4>2. G(m) <= k
        BY <1>5, <2>1, <2>2, <4>1 DEF IsLast
      <4> QED
        BY <1>8, <4>1, <4>2
    <3>2. CASE m = 1
      BY <1>1, <2>1, <3>2
    <3>3. CASE m = p + 1
      <4>1. Registration[F(k)].Object = A /\ F(k) # 1 /\ F(k) # p + 1
        BY <1>3, <1>10, <3>3
      <4>2. F(k) > p
        BY <1>1, <1>9, <2>1, <4>1
      <4> QED
        BY <1>1, <1>3, <2>1, <3>3, <4>2
    <3> QED
      BY <3>1, <3>2, <3>3
  <2>3. ASSUME IsFirst(k)', Registration[F(k)].Object # A PROVE IsFirst(F(k))
    <3> SUFFICES ASSUME NEW m \in 1 .. n, Registration[m].Object = Registration[F(k)].Object
                 PROVE  F(k) <= m
      BY <1>1 DEF IsFirst
    <3>1. m # 1 /\ m # p + 1
      BY <1>3, <2>3
    <3>2. G(m) \in 1 .. n - 2 /\ F(G(m)) = m /\ Registration'[G(m)] = Registration[m]
      BY <1>7, <3>1
    <3>3. k <= G(m)
      BY <1>5, <2>1, <2>3, <3>2 DEF IsFirst
    <3> QED
      BY <1>8, <3>2, <3>3
  <2> QED
    BY <2>1, <2>2, <2>3
<1>13. Alternate'
  <2> SUFFICES ASSUME NEW k \in DOMAIN Registration', NEW m \in DOMAIN Registration', k < m,
                      Registration'[k].OP /\ Registration'[m].OP
                         /\ Registration'[k].Object = Registration'[m].Object
               PROVE  \E x \in DOMAIN Registration' :
                         /\ k < x /\ x < m
                         /\ ~Registration'[x].OP /\ Registration'[x].Object = Registration'[k].Object
    BY DEF Alternate
  <2>0. k \in 1 .. n - 2 /\ m \in 1 .. n - 2
    BY <1>5
  <2>1. /\ F(k) \in 1 .. n /\ F(m) \in 1 .. n /\ F(k) < F(m)
        /\ Registration'[k] = Registration[F(k)] /\ Registration'[m] = Registration[F(m)]
    BY <2>0, <1>6, <1>8
  <2>2. PICK y \in 1 .. n : /\ F(k) < y /\ y < F(m)
                            /\ ~Registration[y].OP /\ Registration[y].Object = Registration[F(k)].Object
    BY <1>1, <2>1 DEF Alternate
  <2>3. y # 1 /\ y # p + 1
    <3>1. y = p + 1 => Registration[F(k)].Object = A /\ F(k) <= p
      BY <1>1, <1>3, <2>1, <2>2
    <3>2. F(k) > 1
      BY <1>1, <1>10, <2>0, <2>1
    <3> QED
      BY <1>1, <1>3, <1>9, <2>1, <2>2, <3>1, <3>2
  <2>4. G(y) \in 1 .. n - 2 /\ F(G(y)) = y /\ Registration'[G(y)] = Registration[y]
    BY <1>7, <2>3
  <2>5. k < G(y) /\ G(y) < m
    BY <1>8, <2>0, <2>2, <2>4
  <2> QED
    BY <1>5, <2>1, <2>2, <2>4, <2>5
<1>14. Pending(A)' \/ IsLast(p + 1)
  <2> SUFFICES ASSUME NEW m \in 1 .. n, m > p + 1, Registration[m].Object = A PROVE Pending(A)'
    BY <1>1, <1>3 DEF IsLast
  <2>1. m # 1 /\ m # p + 1
    BY <1>1, <1>3
  <2>2. G(m) \in DOMAIN Registration' /\ Registration'[G(m)].Object = A
    BY <1>5, <1>7, <2>1
  <2> QED
    BY <2>2 DEF Pending
<1> QED
  BY <1>1, <1>4, <1>5, <1>11, <1>12, <1>13, <1>14 DEF Taken, p

\* An object with deferred calls has a first and a last one.
LEMMA LastExists ==
  ASSUME TypeOK, NEW o, Pending(o)
  PROVE  \E k \in DOMAIN Registration : Registration[k].Object = o /\ IsLast(k)
<1> DEFINE I == {k \in DOMAIN Registration : Registration[k].Object = o}
<1>1. DOMAIN Registration = 1 .. Len(Registration) /\ Len(Registration) \in Nat
  BY DEF TypeOK
<1>2. I \in SUBSET (1 .. Len(Registration)) /\ I # {}
  BY <1>1 DEF Pending
<1>3. Max(I) \in I /\ \A k \in I : k <= Max(I)
  BY <1>1, <1>2, MaxOfSet
<1> QED
  BY <1>3 DEF IsLast

-----------------------------------------------------------------------------
(* The invariance of IInv, step by step, and what a step does to the       *)
(* registry.                                                               *)

\* CSheduler::Registered in a state of the invariant: the callers decide while
\* calls are deferred, else the containers.
IsRegistered(o) == IF Pending(o) THEN client[o] ELSE Held(o)

SameRegistered == \A o \in Objects : IsRegistered(o)' <=> IsRegistered(o)

\* What the invariant says of the registry only depends on who is held, in
\* which container, and on the calls in the log.
LEMMA SameContainers ==
  ASSUME UNCHANGED <<ItemsRT, Items, ItemsProcessed, m_current_step_obj>>
  PROVE  /\ \A o : /\ InRT(o)' <=> InRT(o)
                   /\ InItems(o)' <=> InItems(o)
                   /\ InProcessed(o)' <=> InProcessed(o)
                   /\ Held(o)' <=> Held(o)
         /\ Distinct => Distinct'
<1>1. \A o : /\ InRT(o)' <=> InRT(o)
             /\ InItems(o)' <=> InItems(o)
             /\ InProcessed(o)' <=> InProcessed(o)
  BY InRTMeans DEF InItems, InProcessed
<1>2. \A o : Held(o)' <=> Held(o)
  BY <1>1 DEF Held
<1> QED
  BY <1>1, <1>2 DEF Distinct

\* The four places an object may be in, before and after a step.
LEMMA HeldMeans ==
  ASSUME NEW o
  PROVE  /\ Held(o) <=> InRT(o) \/ InItems(o) \/ m_current_step_obj = o \/ InProcessed(o)
         /\ Held(o)' <=> InRT(o)' \/ InItems(o)' \/ m_current_step_obj' = o \/ InProcessed(o)'
BY DEF Held, InProcessed

\* A step that makes no deferred call and lets objects go only when nobody
\* expects them to be held keeps the registry in agreement.
LEMMA RegistryKept ==
  ASSUME TypeOK, Alternate, FirstUnregisters, LastDecides, HeldDecides,
         UNCHANGED <<Registration, b_RT>>,
         phase = "destroyed" => phase' = "destroyed",
         \A o \in Objects :
            /\ Held(o)' => Held(o) /\ (InRT(o)' <=> InRT(o))
            /\ Held(o) /\ ~Held(o)' => ~(client'[o] /\ needed'[o])
            /\ needed'[o] => needed[o]
            /\ client'[o] = client[o] \/ (~Pending(o) /\ ~Held(o)' /\ ~client'[o])
  PROVE  Alternate' /\ FirstUnregisters' /\ LastDecides' /\ HeldDecides'
<1>1. Registration \in Seq(ItemReg) /\ \A k \in DOMAIN Registration : Registration[k].Object \in Objects
  <2>1. Registration \in Seq(ItemReg)
    BY DEF TypeOK
  <2>2. \A k \in DOMAIN Registration : Registration[k] \in ItemReg
    BY <2>1, ElementOfSeq, LenProperties
  <2> QED
    BY <2>1, <2>2 DEF ItemReg
<1>2. Alternate'
  BY DEF Alternate
<1>3. \A k \in DOMAIN Registration : (IsFirst(k)' <=> IsFirst(k)) /\ (IsLast(k)' <=> IsLast(k))
  BY DEF IsFirst, IsLast
<1>4. \A o : Pending(o)' <=> Pending(o)
  BY DEF Pending
<1>5. FirstUnregisters'
  <2> SUFFICES ASSUME NEW k \in DOMAIN Registration, IsFirst(k), NEW o \in Objects,
                      Registration[k].Object = o, Held(o)'
               PROVE  ~Registration[k].OP /\ (Registration[k].RT <=> InRT(o)')
    BY <1>1, <1>3 DEF FirstUnregisters
  <2> QED
    BY DEF FirstUnregisters
<1>6. LastDecides'
  <2> SUFFICES ASSUME NEW k \in DOMAIN Registration, IsLast(k)
               PROVE  /\ client'[Registration[k].Object] <=> Registration[k].OP
                      /\ b_RT[Registration[k].Object] <=> Registration[k].RT
    BY <1>3 DEF LastDecides
  <2> QED
    BY <1>1 DEF LastDecides, Pending
<1>7. HeldDecides'
  <2> SUFFICES ASSUME phase' # "destroyed", NEW o \in Objects, ~Pending(o)
               PROVE  /\ Held(o)' => client'[o] /\ (b_RT[o] <=> InRT(o)')
                      /\ client'[o] /\ needed'[o] => Held(o)'
    BY <1>4 DEF HeldDecides
  <2>1. /\ Held(o) => client[o] /\ (b_RT[o] <=> InRT(o))
        /\ client[o] /\ needed[o] => Held(o)
    BY DEF HeldDecides
  <2> QED
    BY <2>1
<1> QED
  BY <1>2, <1>5, <1>6, <1>7

\* Register.
LEMMA RegisterKeeps ==
  ASSUME IInv, SchedulerAssumption, NEW A \in Objects, NEW RT \in BOOLEAN, Register(A, RT)
  PROVE  /\ IInv'
         /\ \A o \in Objects : IsRegistered(o)' <=> IsRegistered(o) \/ o = A
<1> DEFINE R == [OP |-> TRUE, RT |-> RT, Object |-> A]
           n == Len(Registration)
<1>1. R \in ItemReg /\ Registration' = Append(Registration, R)
  BY DEF Register, ItemReg
<1>2. /\ Registration' \in Seq(ItemReg)
      /\ DOMAIN Registration = 1 .. n /\ n \in Nat /\ DOMAIN Registration' = 1 .. n + 1
      /\ \A k \in DOMAIN Registration : /\ Registration'[k] = Registration[k]
                                        /\ IsFirst(k)' => IsFirst(k)
                                        /\ IsLast(k)' => IsLast(k) /\ Registration[k].Object # A
      /\ \A k \in DOMAIN Registration' : k \notin DOMAIN Registration =>
            Registration'[k] = R /\ (IsFirst(k)' => ~Pending(A))
      /\ \A o : Pending(o)' <=> Pending(o) \/ o = A
  BY <1>1, AppendCall DEF IInv
<1>3. /\ ~client[A] /\ client' = [client EXCEPT ![A] = TRUE] /\ b_RT' = [b_RT EXCEPT ![A] = RT]
      /\ needed' = [needed EXCEPT ![A] = TRUE]
      /\ client \in [Objects -> BOOLEAN] /\ b_RT \in [Objects -> BOOLEAN] /\ needed \in [Objects -> BOOLEAN]
      /\ UNCHANGED <<ItemsRT, Items, ItemsProcessed, m_current_step_obj, m_processing_now, phase>>
  BY DEF Register, IInv, TypeOK, steps
<1>4. \A o : /\ InRT(o)' <=> InRT(o)
             /\ InItems(o)' <=> InItems(o)
             /\ InProcessed(o)' <=> InProcessed(o)
             /\ Held(o)' <=> Held(o)
  BY <1>3, SameContainers
<1>5. phase # "destroyed"
  BY DEF Register, Call, GameRuns, IInv, Phases
<1>6. ~Pending(A) => ~Held(A)
  BY <1>3, <1>5 DEF IInv, HeldDecides
<1>7. \A k \in DOMAIN Registration : Registration[k].Object = A /\ IsLast(k) => ~Registration[k].OP
  BY <1>3 DEF IInv, LastDecides
<1>8. TypeOK'
  <2>1. calls' \in 0 .. MaxCalls /\ waited' \in [Objects -> Nat]
    BY SchedulerAssumption DEF Register, Call, IInv, TypeOK
  <2> QED
    BY <1>2, <1>3, <2>1 DEF Register, IInv, TypeOK, steps
<1>9. Distinct' /\ Phases'
  BY <1>3, <1>5, SameContainers DEF Register, IInv, Phases, steps
<1> HIDE DEF R, n
<1>10. R.OP /\ (R.RT <=> RT) /\ R.Object = A
  BY DEF R
<1>11. Alternate'
  <2> SUFFICES ASSUME NEW k \in DOMAIN Registration', NEW m \in DOMAIN Registration', k < m,
                      Registration'[k].OP, Registration'[m].OP,
                      Registration'[k].Object = Registration'[m].Object
               PROVE  \E x \in DOMAIN Registration' :
                         /\ k < x /\ x < m
                         /\ ~Registration'[x].OP /\ Registration'[x].Object = Registration'[k].Object
    BY DEF Alternate
  <2>1. CASE m \in DOMAIN Registration
    <3>1. k \in DOMAIN Registration
      BY <1>2, <2>1
    <3>2. PICK x \in DOMAIN Registration : /\ k < x /\ x < m
                                           /\ ~Registration[x].OP /\ Registration[x].Object = Registration[k].Object
      BY <1>2, <2>1, <3>1 DEF IInv, Alternate
    <3> QED
      BY <1>2, <3>1, <3>2
  <2>2. CASE m \notin DOMAIN Registration
    <3>1. m = n + 1 /\ k \in DOMAIN Registration /\ Registration[k].Object = A /\ Registration[k].OP
      BY <1>2, <1>10, <2>2
    <3>2. PICK x \in DOMAIN Registration : Registration[x].Object = A /\ IsLast(x)
      BY <3>1, LastExists DEF IInv, Pending
    <3>3. ~Registration[x].OP /\ k <= x
      BY <1>7, <3>1, <3>2 DEF IsLast
    <3>4. k # x
      BY <3>1, <3>3
    <3>5. k < x /\ x < m
      BY <1>2, <3>1, <3>3, <3>4
    <3> QED
      BY <1>2, <3>1, <3>2, <3>3, <3>5
  <2> QED
    BY <2>1, <2>2
<1>12. FirstUnregisters'
  <2> SUFFICES ASSUME NEW k \in DOMAIN Registration', NEW o, IsFirst(k)',
                      Registration'[k].Object = o, Held(o)'
               PROVE  ~Registration'[k].OP /\ (Registration'[k].RT <=> InRT(o)')
    BY DEF FirstUnregisters
  <2>1. CASE k \in DOMAIN Registration
    BY <1>2, <1>4, <2>1 DEF IInv, FirstUnregisters
  <2>2. CASE k \notin DOMAIN Registration
    BY <1>2, <1>4, <1>6, <1>10, <2>2
  <2> QED
    BY <2>1, <2>2
<1>13. LastDecides'
  <2> SUFFICES ASSUME NEW k \in DOMAIN Registration', IsLast(k)'
               PROVE  /\ client'[Registration'[k].Object] <=> Registration'[k].OP
                      /\ b_RT'[Registration'[k].Object] <=> Registration'[k].RT
    BY DEF LastDecides
  <2>1. CASE k \in DOMAIN Registration
    BY <1>2, <1>3, <2>1 DEF IInv, LastDecides
  <2>2. CASE k \notin DOMAIN Registration
    BY <1>2, <1>3, <1>10, <2>2
  <2> QED
    BY <2>1, <2>2
<1>14. HeldDecides'
  BY <1>2, <1>3, <1>4, <1>5 DEF IInv, HeldDecides
<1>15. Settled'
  <2> SUFFICES ASSUME m_processing_now, NEW o \in Objects,
                      InRT(o) \/ InItems(o) \/ m_current_step_obj = o
               PROVE  ~Pending(o) /\ o # A
    BY <1>2, <1>3, <1>4 DEF Settled
  <2>1. ~Pending(o) /\ Held(o)
    BY HeldMeans DEF IInv, Settled
  <2> QED
    BY <1>6, <2>1
<1>16. \A o \in Objects : IsRegistered(o)' <=> IsRegistered(o) \/ o = A
  BY <1>2, <1>3, <1>4 DEF IsRegistered
<1> QED
  BY <1>8, <1>9, <1>11, <1>12, <1>13, <1>14, <1>15, <1>16 DEF IInv

\* Unregister, when the scheduler finds the object while it updates.
LEMMA UnregisterAtOnceKeeps ==
  ASSUME IInv, SchedulerAssumption, NEW A \in Objects, Unregister(A),
         m_processing_now, internal_Unregister(A, b_RT[A]), UNCHANGED Registration
  PROVE  /\ IInv'
         /\ \A o \in Objects : IsRegistered(o)' <=> IsRegistered(o) /\ o # A
<1>1. /\ client' = [client EXCEPT ![A] = FALSE] /\ client \in [Objects -> BOOLEAN]
      /\ UNCHANGED <<ItemsProcessed, m_processing_now, steps, b_RT, needed, served>>
  BY DEF Unregister, IInv, TypeOK
<1>2. /\ ItemsRT' \in Seq(Objects) /\ stale' \in Seq(Objects) /\ Items' \in Seq(Entry)
      /\ m_current_step_obj' \in {m_current_step_obj, None}
      /\ \A o \in Objects : /\ InRT(o)' <=> InRT(o) /\ o # A
                            /\ InItems(o)' <=> InItems(o) /\ o # A
                            /\ m_current_step_obj' = o <=> m_current_step_obj = o /\ o # A
                            /\ InProcessed(o)' <=> InProcessed(o)
      /\ ~InProcessed(A) /\ Distinct'
  BY <1>1, InternalUnregisterRemoves DEF IInv
<1>3. InRT(A) \/ InItems(A) \/ m_current_step_obj = A
  BY DEF internal_Unregister
<1>4. ~Pending(A)
  BY <1>3 DEF IInv, Settled
<1>5. TypeOK'
  <2>1. calls' \in 0 .. MaxCalls /\ waited' \in [Objects -> Nat]
    BY SchedulerAssumption DEF Unregister, Call, IInv, TypeOK
  <2> QED
    BY <1>1, <1>2, <2>1 DEF IInv, TypeOK, steps
<1>6. Phases'
  <2>1. phase \in {"rt", "normal"}
    BY DEF IInv, TypeOK
  <2>2. stale' # stale => phase = "rt"
    BY DEF internal_Unregister, EraseRT
  <2> QED
    BY <1>1, <1>2, <2>1, <2>2 DEF IInv, Phases, steps
<1>7. \A o \in Objects : /\ Held(o)' <=> Held(o) /\ o # A
                         /\ Held(o)' => (InRT(o)' <=> InRT(o))
  BY <1>2, HeldMeans
<1>8. Alternate' /\ FirstUnregisters' /\ LastDecides' /\ HeldDecides'
  <2>1. \A o \in Objects :
            /\ Held(o)' => Held(o) /\ (InRT(o)' <=> InRT(o))
            /\ Held(o) /\ ~Held(o)' => ~(client'[o] /\ needed'[o])
            /\ needed'[o] => needed[o]
            /\ client'[o] = client[o] \/ (~Pending(o) /\ ~Held(o)' /\ ~client'[o])
    BY <1>1, <1>4, <1>7
  <2> QED
    BY <1>1, <2>1, RegistryKept DEF IInv, steps
<1>9. Settled'
  BY <1>1, <1>2 DEF IInv, Settled, Pending
<1>10. \A o \in Objects : IsRegistered(o)' <=> IsRegistered(o) /\ o # A
  BY <1>1, <1>4, <1>7 DEF IsRegistered, Pending
<1> QED
  BY <1>2, <1>5, <1>6, <1>8, <1>9, <1>10 DEF IInv

\* Unregister, when the call is deferred.
LEMMA UnregisterDeferredKeeps ==
  ASSUME IInv, SchedulerAssumption, NEW A \in Objects, Unregister(A),
         ~(m_processing_now /\ FoundToUnregister(A, b_RT[A])),
         Registration' = Append(Registration, [OP |-> FALSE, RT |-> b_RT[A], Object |-> A]),
         UNCHANGED <<ItemsRT, stale, Items, m_current_step_obj>>
  PROVE  /\ IInv'
         /\ \A o \in Objects : IsRegistered(o)' <=> IsRegistered(o) /\ o # A
<1> DEFINE R == [OP |-> FALSE, RT |-> b_RT[A], Object |-> A]
           n == Len(Registration)
<1>1. R \in ItemReg /\ Registration' = Append(Registration, R)
  BY DEF IInv, TypeOK, ItemReg
<1>2. /\ Registration' \in Seq(ItemReg)
      /\ DOMAIN Registration = 1 .. n /\ n \in Nat /\ DOMAIN Registration' = 1 .. n + 1
      /\ \A k \in DOMAIN Registration : /\ Registration'[k] = Registration[k]
                                        /\ IsFirst(k)' => IsFirst(k)
                                        /\ IsLast(k)' => IsLast(k) /\ Registration[k].Object # A
      /\ \A k \in DOMAIN Registration' : k \notin DOMAIN Registration =>
            Registration'[k] = R /\ (IsFirst(k)' => ~Pending(A))
      /\ \A o : Pending(o)' <=> Pending(o) \/ o = A
  BY <1>1, AppendCall DEF IInv
<1>3. /\ client' = [client EXCEPT ![A] = FALSE]
      /\ client \in [Objects -> BOOLEAN] /\ b_RT \in [Objects -> BOOLEAN]
      /\ UNCHANGED <<ItemsRT, Items, ItemsProcessed, m_current_step_obj, m_processing_now,
                     phase, b_RT, needed>>
  BY DEF Unregister, IInv, TypeOK, steps
<1>4. \A o : /\ InRT(o)' <=> InRT(o)
             /\ InItems(o)' <=> InItems(o)
             /\ InProcessed(o)' <=> InProcessed(o)
             /\ Held(o)' <=> Held(o)
  BY <1>3, SameContainers
<1>5. phase # "destroyed"
  BY DEF Unregister, Call, GameRuns, IInv, Phases
<1>6. TypeOK'
  <2>1. calls' \in 0 .. MaxCalls /\ waited' \in [Objects -> Nat]
    BY SchedulerAssumption DEF Unregister, Call, IInv, TypeOK
  <2> QED
    BY <1>2, <1>3, <2>1 DEF Unregister, IInv, TypeOK, steps
<1>7. Distinct' /\ Phases'
  BY <1>3, <1>5, SameContainers DEF Unregister, IInv, Phases, steps
<1> HIDE DEF R, n
<1>8. ~R.OP /\ (R.RT <=> b_RT[A]) /\ R.Object = A
  BY DEF R
<1>9. Alternate'
  <2> SUFFICES ASSUME NEW k \in DOMAIN Registration', NEW m \in DOMAIN Registration', k < m,
                      Registration'[k].OP, Registration'[m].OP,
                      Registration'[k].Object = Registration'[m].Object
               PROVE  \E x \in DOMAIN Registration' :
                         /\ k < x /\ x < m
                         /\ ~Registration'[x].OP /\ Registration'[x].Object = Registration'[k].Object
    BY DEF Alternate
  <2>1. m \in DOMAIN Registration /\ k \in DOMAIN Registration
    BY <1>2, <1>8
  <2>2. PICK x \in DOMAIN Registration : /\ k < x /\ x < m
                                         /\ ~Registration[x].OP /\ Registration[x].Object = Registration[k].Object
    BY <1>2, <2>1 DEF IInv, Alternate
  <2> QED
    BY <1>2, <2>1, <2>2
<1>10. FirstUnregisters'
  <2> SUFFICES ASSUME NEW k \in DOMAIN Registration', NEW o, IsFirst(k)',
                      Registration'[k].Object = o, Held(o)'
               PROVE  ~Registration'[k].OP /\ (Registration'[k].RT <=> InRT(o)')
    BY DEF FirstUnregisters
  <2>1. CASE k \in DOMAIN Registration
    BY <1>2, <1>4, <2>1 DEF IInv, FirstUnregisters
  <2>2. CASE k \notin DOMAIN Registration
    <3>1. o = A /\ ~Pending(A) /\ Held(A)
      BY <1>2, <1>4, <1>8, <2>2
    <3>2. b_RT[A] <=> InRT(A)
      BY <1>5, <3>1 DEF IInv, HeldDecides
    <3> QED
      BY <1>2, <1>4, <1>8, <2>2, <3>1, <3>2
  <2> QED
    BY <2>1, <2>2
<1>11. LastDecides'
  <2> SUFFICES ASSUME NEW k \in DOMAIN Registration', IsLast(k)'
               PROVE  /\ client'[Registration'[k].Object] <=> Registration'[k].OP
                      /\ b_RT'[Registration'[k].Object] <=> Registration'[k].RT
    BY DEF LastDecides
  <2>1. CASE k \in DOMAIN Registration
    BY <1>2, <1>3, <2>1 DEF IInv, LastDecides
  <2>2. CASE k \notin DOMAIN Registration
    BY <1>2, <1>3, <1>8, <2>2
  <2> QED
    BY <2>1, <2>2
<1>12. HeldDecides'
  BY <1>2, <1>3, <1>4, <1>5 DEF IInv, HeldDecides
<1>13. Settled'
  <2> SUFFICES ASSUME m_processing_now, NEW o \in Objects,
                      InRT(o) \/ InItems(o) \/ m_current_step_obj = o
               PROVE  ~Pending(o) /\ o # A
    BY <1>2, <1>3, <1>4 DEF Settled
  <2>1. ~Pending(o) /\ Held(o)
    BY HeldMeans DEF IInv, Settled
  <2>2. b_RT[o] <=> InRT(o)
    BY <1>5, <2>1 DEF IInv, HeldDecides
  <2>3. FoundToUnregister(o, b_RT[o])
    BY <2>2 DEF FoundToUnregister
  <2> QED
    BY <2>1, <2>3
<1>14. \A o \in Objects : IsRegistered(o)' <=> IsRegistered(o) /\ o # A
  BY <1>2, <1>3, <1>4 DEF IsRegistered
<1> QED
  BY <1>6, <1>7, <1>9, <1>10, <1>11, <1>12, <1>13, <1>14 DEF IInv

\* Unregister.
LEMMA UnregisterKeeps ==
  ASSUME IInv, SchedulerAssumption, NEW A \in Objects, Unregister(A)
  PROVE  /\ IInv'
         /\ \A o \in Objects : IsRegistered(o)' <=> IsRegistered(o) /\ o # A
<1>1. CASE /\ m_processing_now /\ FoundToUnregister(A, b_RT[A])
           /\ internal_Unregister(A, b_RT[A]) /\ UNCHANGED Registration
  BY <1>1, UnregisterAtOnceKeeps
<1>2. CASE /\ ~(m_processing_now /\ FoundToUnregister(A, b_RT[A]))
           /\ Registration' = Append(Registration, [OP |-> FALSE, RT |-> b_RT[A], Object |-> A])
           /\ UNCHANGED <<ItemsRT, stale, Items, m_current_step_obj>>
  BY <1>2, UnregisterDeferredKeeps
<1> QED
  BY <1>1, <1>2 DEF Unregister, UnregisterCall

\* The steps that move no object and defer no call.
LEMMA StaticKeeps ==
  ASSUME IInv, SchedulerAssumption,
         UNCHANGED <<ItemsRT, Items, ItemsProcessed, Registration, m_current_step_obj, b_RT, client>>,
         needed' \in [Objects -> BOOLEAN], \A o \in Objects : needed'[o] => needed[o],
         TypeOK', Phases', phase = "destroyed" => phase' = "destroyed",
         m_processing_now' => m_processing_now \/ Registration = <<>>
  PROVE  IInv' /\ SameRegistered
<1>1. /\ \A o : /\ InRT(o)' <=> InRT(o)
                /\ InItems(o)' <=> InItems(o)
                /\ InProcessed(o)' <=> InProcessed(o)
                /\ Held(o)' <=> Held(o)
      /\ Distinct'
  BY SameContainers DEF IInv
<1>2. Alternate' /\ FirstUnregisters' /\ LastDecides' /\ HeldDecides'
  <2>1. \A o \in Objects :
            /\ Held(o)' => Held(o) /\ (InRT(o)' <=> InRT(o))
            /\ Held(o) /\ ~Held(o)' => ~(client'[o] /\ needed'[o])
            /\ needed'[o] => needed[o]
            /\ client'[o] = client[o] \/ (~Pending(o) /\ ~Held(o)' /\ ~client'[o])
    BY <1>1
  <2> QED
    BY <2>1, RegistryKept DEF IInv
<1>3. Settled'
  <2>1. \A o : Pending(o)' <=> Pending(o)
    BY DEF Pending
  <2>2. Registration = <<>> => \A o : ~Pending(o)
    BY DEF Pending
  <2> QED
    BY <1>1, <2>1, <2>2 DEF IInv, Settled
<1>4. SameRegistered
  BY <1>1 DEF SameRegistered, IsRegistered, Pending
<1> QED
  BY <1>1, <1>2, <1>3, <1>4 DEF IInv

\* setDestroy only ends the need for an object.
LEMMA SetDestroyKeeps ==
  ASSUME IInv, SchedulerAssumption, NEW A \in Objects, SetDestroy(A)
  PROVE  IInv' /\ SameRegistered
<1>1. needed' \in [Objects -> BOOLEAN] /\ \A o \in Objects : needed'[o] => needed[o]
  BY DEF SetDestroy, IInv, TypeOK
<1>2. TypeOK'
  <2>1. calls' \in 0 .. MaxCalls
    BY SchedulerAssumption DEF SetDestroy, Call, IInv, TypeOK
  <2> QED
    BY <1>1, <2>1 DEF SetDestroy, IInv, TypeOK, queues, steps
<1>3. Phases'
  BY DEF SetDestroy, IInv, Phases, queues, steps
<1> QED
  BY <1>1, <1>2, <1>3, StaticKeeps DEF SetDestroy, queues, steps

\* A new frame.
LEMMA BeginUpdateKeeps ==
  ASSUME IInv, SchedulerAssumption, BeginUpdate
  PROVE  IInv' /\ SameRegistered
<1>1. TypeOK'
  <2>1. dwTime' \in 0 .. MaxTime
    BY SchedulerAssumption DEF BeginUpdate, IInv, TypeOK
  <2> QED
    BY <2>1 DEF BeginUpdate, IInv, TypeOK, queues, objects
<1>2. Phases'
  BY DEF BeginUpdate, IInv, Phases, queues
<1> QED
  BY <1>1, <1>2, StaticKeeps DEF BeginUpdate, IInv, TypeOK, queues, objects

\* The log is empty: the objects may be reached from now on, or the frame is over.
LEMMA RegistrationDoneKeeps ==
  ASSUME IInv, SchedulerAssumption, RegistrationDone
  PROVE  IInv' /\ SameRegistered
<1>1. TypeOK'
  <2>1. CASE phase = "reg1" /\ phase' = "rt" /\ m_processing_now' = TRUE /\ it' = 1
    BY <2>1 DEF RegistrationDone, IInv, TypeOK, queues, objects
  <2>2. CASE phase = "reg2" /\ phase' = "game" /\ UNCHANGED <<m_processing_now, it>>
    <3>1. m_processing_now' = (phase' \in {"rt", "normal"})
      BY <2>2 DEF IInv, TypeOK
    <3> QED
      BY <2>2, <3>1 DEF RegistrationDone, IInv, TypeOK, queues, objects
  <2> QED
    BY <2>1, <2>2 DEF RegistrationDone
<1>2. Phases'
  BY DEF RegistrationDone, IInv, Phases, queues
<1> QED
  BY <1>1, <1>2, StaticKeeps DEF RegistrationDone, IInv, TypeOK, queues, objects

\* The realtime loop.
LEMMA LoopKeeps ==
  ASSUME IInv, SchedulerAssumption, RTSkip \/ RTUpdate \/ RTUpdateReturns \/ RTDone
  PROVE  IInv' /\ SameRegistered
<1>1. Memory \in Seq(Objects)
  BY ConcatProperties DEF Memory, IInv, TypeOK
<1>2. \A k \in DOMAIN Memory : Memory[k] \in Objects
  BY <1>1
<1> USE DEF RTSkip, RTUpdate, RTUpdateReturns, RTDone, queues, objects
<1>3. TypeOK'
  <2>1. CASE RTDone
    <3>1. m_processing_now' = (phase' \in {"rt", "normal"})
      BY <2>1 DEF IInv, TypeOK
    <3> QED
      BY <2>1, <3>1, SchedulerAssumption DEF IInv, TypeOK
  <2>2. ASSUME UNCHANGED <<queues, m_current_step_obj, m_processing_now, dwTime, phase, i, objects, waited>>,
               it' \in Nat, updating' \in Objects \cup {None}, served' \in SUBSET Objects
        PROVE  TypeOK'
    BY <2>2 DEF IInv, TypeOK
  <2>3. it \in Nat /\ updating \in Objects \cup {None} /\ served \in SUBSET Objects
    BY DEF IInv, TypeOK
  <2>4. CASE RTSkip
    BY <2>2, <2>3, <2>4
  <2>5. CASE RTUpdate
    BY <1>2, <2>2, <2>3, <2>5
  <2>6. CASE RTUpdateReturns
    BY <2>2, <2>3, <2>6
  <2> QED
    BY <2>1, <2>4, <2>5, <2>6
<1>4. Phases'
  BY <1>2, SchedulerAssumption DEF IInv, Phases
<1> QED
  BY <1>3, <1>4, StaticKeeps DEF IInv, TypeOK

\* Applying the calls of one object keeps the registry in agreement when the
\* object is held at the end exactly if the callers want it to.
LEMMA TakenKeeps ==
  ASSUME TypeOK, FirstUnregisters, LastDecides, HeldDecides,
         UNCHANGED <<client, needed, phase, m_processing_now>>, ~m_processing_now, phase # "destroyed",
         NEW A \in Objects, Taken(A), Pending(A),
         \A o \in Objects : o # A =>
            (Held(o)' <=> Held(o)) /\ (InRT(o)' <=> InRT(o)) /\ b_RT'[o] = b_RT[o],
         Pending(A)' => ~Held(A)' /\ b_RT'[A] = b_RT[A],
         ~Pending(A)' => (Held(A)' <=> client[A]) /\ (Held(A)' => (b_RT'[A] <=> InRT(A)'))
  PROVE  /\ Alternate' /\ FirstUnregisters' /\ LastDecides' /\ HeldDecides' /\ Settled'
         /\ SameRegistered
<1>1. \A k \in DOMAIN Registration : Registration[k].Object \in Objects
  <2>1. \A k \in DOMAIN Registration : Registration[k] \in ItemReg
    BY ElementOfSeq, LenProperties DEF TypeOK
  <2> QED
    BY <2>1 DEF ItemReg
<1>2. Alternate' /\ Settled'
  BY DEF Taken, Settled
<1>3. FirstUnregisters'
  <2> SUFFICES ASSUME NEW k \in DOMAIN Registration', IsFirst(k)', NEW o,
                      Registration'[k].Object = o, Held(o)'
               PROVE  ~Registration'[k].OP /\ (Registration'[k].RT <=> InRT(o)')
    BY DEF FirstUnregisters
  <2>1. PICK j \in DOMAIN Registration : /\ Registration'[k] = Registration[j]
                                         /\ Registration[j].Object # A => IsFirst(j)
    BY DEF Taken
  <2>2. Pending(o)'
    BY DEF Pending
  <2>3. o # A /\ o \in Objects
    BY <1>1, <2>1, <2>2
  <2> QED
    BY <2>1, <2>3 DEF FirstUnregisters
<1>4. LastDecides'
  <2> SUFFICES ASSUME NEW k \in DOMAIN Registration', IsLast(k)', NEW o, Registration'[k].Object = o
               PROVE  (client[o] <=> Registration'[k].OP) /\ (b_RT'[o] <=> Registration'[k].RT)
    BY DEF LastDecides
  <2>1. PICK j \in DOMAIN Registration : Registration'[k] = Registration[j] /\ IsLast(j)
    BY DEF Taken
  <2>2. Pending(o)' /\ o \in Objects
    BY <1>1, <2>1 DEF Pending
  <2>3. b_RT'[o] = b_RT[o]
    BY <2>2
  <2> QED
    BY <2>1, <2>3 DEF LastDecides
<1>5. HeldDecides'
  <2> SUFFICES ASSUME NEW o \in Objects, ~Pending(o)'
               PROVE  /\ Held(o)' => client[o] /\ (b_RT'[o] <=> InRT(o)')
                      /\ client[o] /\ needed[o] => Held(o)'
    BY DEF HeldDecides
  <2>1. CASE o = A
    BY <2>1
  <2>2. CASE o # A
    <3>1. ~Pending(o)
      BY <2>2 DEF Taken
    <3>2. Held(o) => client[o] /\ (b_RT[o] <=> InRT(o))
      BY <3>1 DEF HeldDecides
    <3>3. client[o] /\ needed[o] => Held(o)
      BY <3>1 DEF HeldDecides
    <3> QED
      BY <2>2, <3>2, <3>3
  <2> QED
    BY <2>1, <2>2
<1>6. SameRegistered
  <2> SUFFICES ASSUME NEW o \in Objects PROVE IsRegistered(o)' <=> IsRegistered(o)
    BY DEF SameRegistered
  <2>1. CASE o = A
    BY <2>1 DEF IsRegistered
  <2>2. CASE o # A
    BY <2>2 DEF IsRegistered, Taken
  <2> QED
    BY <2>1, <2>2
<1> QED
  BY <1>2, <1>3, <1>4, <1>5, <1>6

\* What internal_Registration finds when it looks at the first call.
LEMMA EntryFacts ==
  ASSUME IInv, RegistrationEntry
  PROVE  /\ Registration[1] \in ItemReg /\ Registration[1].Object \in Objects
         /\ Registration[1].OP \in BOOLEAN /\ Registration[1].RT \in BOOLEAN
         /\ Head(Registration) = Registration[1] /\ 1 \in DOMAIN Registration
         /\ IsFirst(1) /\ Pending(Registration[1].Object)
         /\ m_current_step_obj = None /\ ItemsProcessed = <<>> /\ ~m_processing_now
         /\ phase # "destroyed" /\ phase # "rt" /\ phase # "normal"
         /\ UNCHANGED <<client, needed, phase, m_processing_now, ItemsProcessed>>
<1>1. Registration \in Seq(ItemReg) /\ Registration # <<>>
  BY DEF RegistrationEntry, IInv, TypeOK
<1>2. Registration[1] \in ItemReg /\ Head(Registration) = Registration[1] /\ 1 \in DOMAIN Registration
  BY <1>1, LenProperties, EmptySeq
<1>3. IsFirst(1) /\ Pending(Registration[1].Object)
  BY <1>1, <1>2 DEF IsFirst, Pending
<1>4. phase # "destroyed" /\ phase # "rt" /\ phase # "normal"
  BY DEF RegistrationEntry
<1>5. m_current_step_obj = None /\ ItemsProcessed = <<>> /\ ~m_processing_now
  BY <1>4 DEF IInv, TypeOK, Phases
<1> QED
  BY <1>2, <1>3, <1>4, <1>5 DEF RegistrationEntry, steps, ItemReg

\* A registration and the unregistration that cancels it.
LEMMA CancelKeeps ==
  ASSUME IInv, SchedulerAssumption, RegistrationEntry,
         NEW A \in Objects, Registration[1].Object = A, Registration[1].OP, Pair(A) # 0,
         Registration' = RemoveAt(Tail(Registration), Pair(A)),
         UNCHANGED <<ItemsRT, stale, Items, m_current_step_obj, b_RT>>
  PROVE  IInv' /\ SameRegistered
<1>1. Taken(A) /\ (Pending(A)' \/ IsLast(Pair(A) + 1))
  BY PairTakes DEF IInv, RegistrationEntry
<1>2. /\ Pair(A) + 1 \in DOMAIN Registration
      /\ ~Registration[Pair(A) + 1].OP /\ Registration[Pair(A) + 1].Object = A
  BY PairFinds DEF IInv, TypeOK, RegistrationEntry
<1>3. \A o : (InRT(o)' <=> InRT(o)) /\ (Held(o)' <=> Held(o))
  BY EntryFacts, SameContainers
<1>4. ~Held(A)
  BY EntryFacts DEF IInv, FirstUnregisters
<1>5. ~Pending(A)' => ~client[A]
  BY <1>1, <1>2 DEF IInv, LastDecides
<1>6. /\ Alternate' /\ FirstUnregisters' /\ LastDecides' /\ HeldDecides' /\ Settled'
      /\ SameRegistered
  BY <1>1, <1>3, <1>4, <1>5, EntryFacts, TakenKeeps DEF IInv
<1>7. TypeOK'
  BY <1>1 DEF RegistrationEntry, IInv, TypeOK, steps, Taken
<1>8. Distinct' /\ Phases'
  BY EntryFacts, SameContainers DEF RegistrationEntry, IInv, Phases, steps
<1> QED
  BY <1>6, <1>7, <1>8 DEF IInv

\* A registration that is not cancelled.
LEMMA RegisterEntryKeeps ==
  ASSUME IInv, SchedulerAssumption, RegistrationEntry,
         NEW A \in Objects, Registration[1].Object = A, Registration[1].OP, Pair(A) = 0,
         NEW RT \in BOOLEAN, Registration[1].RT = RT, internal_Register(A, RT),
         Registration' = Tail(Registration), UNCHANGED <<stale, m_current_step_obj>>
  PROVE  IInv' /\ SameRegistered
<1>1. Taken(A)
  BY TailTakes DEF IInv, RegistrationEntry
<1>2. IsLast(1)
  BY NoPairIsLast DEF IInv, RegistrationEntry
<1>3. ~Pending(A)'
  <2> SUFFICES ASSUME NEW k \in DOMAIN Registration', Registration'[k].Object = A PROVE FALSE
    BY DEF Pending
  <2>1. Registration \in Seq(ItemReg) /\ Registration # <<>>
    BY DEF RegistrationEntry, IInv, TypeOK
  <2>2. k + 1 \in DOMAIN Registration /\ Registration[k + 1].Object = A /\ k \in Nat /\ k >= 1
    BY <2>1, HeadTailProperties
  <2> QED
    BY <1>2, <2>2 DEF IsLast
<1>4. ~Held(A) /\ client[A]
  BY <1>2, EntryFacts DEF IInv, FirstUnregisters, LastDecides
<1>5. b_RT' = [b_RT EXCEPT ![A] = RT] /\ b_RT \in [Objects -> BOOLEAN]
  BY DEF internal_Register, IInv, TypeOK
<1>6. /\ ItemsRT \in Seq(Objects) /\ DOMAIN ItemsRT = 1 .. Len(ItemsRT) /\ Len(ItemsRT) \in Nat
      /\ Items \in Seq(Entry) /\ DOMAIN Items = 1 .. Len(Items) /\ Len(Items) \in Nat
  BY DEF IInv, TypeOK
<1>7. /\ ItemsRT' \in Seq(Objects) /\ Items' \in Seq(Entry) /\ Distinct'
      /\ \A o \in Objects : /\ InRT(o)' <=> InRT(o) \/ (RT /\ o = A)
                            /\ InItems(o)' <=> InItems(o) \/ (~RT /\ o = A)
                            /\ InProcessed(o)' <=> InProcessed(o)
  <2>1. CASE RT /\ ItemsRT' = Append(ItemsRT, A) /\ UNCHANGED Items
    <3>1. /\ ItemsRT' \in Seq(Objects) /\ DOMAIN ItemsRT' = 1 .. Len(ItemsRT) + 1
          /\ ItemsRT'[Len(ItemsRT) + 1] = A
          /\ \A k \in 1 .. Len(ItemsRT) : ItemsRT'[k] = ItemsRT[k]
      BY <1>6, <2>1
    <3>2. \A o \in Objects : /\ InRT(o)' <=> InRT(o) \/ o = A
                             /\ InItems(o)' <=> InItems(o)
                             /\ InProcessed(o)' <=> InProcessed(o)
      BY <1>6, <2>1, <3>1, EntryFacts, InRTMeans DEF InItems, InProcessed
    <3>3. \A k, m \in DOMAIN ItemsRT' : ItemsRT'[k] = ItemsRT'[m] => k = m
      <4> SUFFICES ASSUME NEW k \in 1 .. Len(ItemsRT) + 1, NEW m \in 1 .. Len(ItemsRT) + 1,
                          ItemsRT'[k] = ItemsRT'[m], k < m
                   PROVE  FALSE
        BY <1>6, <3>1
      <4>1. k \in 1 .. Len(ItemsRT) /\ ItemsRT[k] # A
        BY <1>4, <1>6, HeldMeans, InRTMeans
      <4>2. m \in 1 .. Len(ItemsRT)
        BY <1>6, <3>1, <4>1
      <4>3. ItemsRT[k] = ItemsRT[m]
        BY <3>1, <4>1, <4>2
      <4> QED
        BY <1>6, <4>1, <4>2, <4>3 DEF IInv, Distinct
    <3>4. Distinct'
      BY <1>4, <2>1, <3>2, <3>3, EntryFacts, HeldMeans DEF IInv, Distinct
    <3> QED
      BY <1>6, <2>1, <3>1, <3>2, <3>4
  <2>2. CASE ~RT /\ Items' = Append(Items, [Object |-> A, time |-> dwTime]) /\ UNCHANGED ItemsRT
    <3>1. [Object |-> A, time |-> dwTime] \in Entry
      BY SchedulerAssumption DEF Entry, IInv, TypeOK
    <3>2. /\ Items' \in Seq(Entry) /\ DOMAIN Items' = 1 .. Len(Items) + 1
          /\ Items'[Len(Items) + 1].Object = A
          /\ \A k \in 1 .. Len(Items) : Items'[k] = Items[k]
      BY <1>6, <2>2, <3>1
    <3>3. \A o \in Objects : /\ InRT(o)' <=> InRT(o)
                             /\ InItems(o)' <=> InItems(o) \/ o = A
                             /\ InProcessed(o)' <=> InProcessed(o)
      <4>1. \A o \in Objects : (InRT(o)' <=> InRT(o)) /\ (InProcessed(o)' <=> InProcessed(o))
        BY <2>2, EntryFacts, InRTMeans DEF InProcessed
      <4>2. \A o \in Objects : InItems(o)' <=> InItems(o) \/ o = A
        BY <1>6, <3>2 DEF InItems
      <4> QED
        BY <4>1, <4>2
    <3>4. \A k, m \in DOMAIN Items' :
             Items'[k].Object = Items'[m].Object /\ Items'[k].Object # None => k = m
      <4> SUFFICES ASSUME NEW k \in 1 .. Len(Items) + 1, NEW m \in 1 .. Len(Items) + 1,
                          Items'[k].Object = Items'[m].Object, Items'[k].Object # None, k < m
                   PROVE  FALSE
        BY <1>6, <3>2
      <4>1. k \in 1 .. Len(Items) /\ Items[k].Object # A
        BY <1>4, <1>6, HeldMeans DEF InItems
      <4>2. m \in 1 .. Len(Items)
        BY <1>6, <3>2, <4>1
      <4>3. Items[k].Object = Items[m].Object /\ Items[k].Object # None
        BY <3>2, <4>1, <4>2
      <4> QED
        BY <1>6, <4>1, <4>2, <4>3 DEF IInv, Distinct
    <3>5. Distinct'
      BY <1>4, <2>2, <3>3, <3>4, EntryFacts, HeldMeans DEF IInv, Distinct
    <3> QED
      BY <1>6, <2>2, <3>2, <3>3, <3>5
  <2> QED
    BY <2>1, <2>2 DEF internal_Register
<1>8. /\ \A o \in Objects : o # A => (Held(o)' <=> Held(o)) /\ (InRT(o)' <=> InRT(o)) /\ b_RT'[o] = b_RT[o]
      /\ Held(A)' /\ (InRT(A)' <=> RT) /\ b_RT'[A] = RT
  BY <1>4, <1>5, <1>7, HeldMeans
<1>9. /\ Alternate' /\ FirstUnregisters' /\ LastDecides' /\ HeldDecides' /\ Settled'
      /\ SameRegistered
  BY <1>1, <1>3, <1>4, <1>8, EntryFacts, TakenKeeps DEF IInv
<1>10. TypeOK'
  BY <1>1, <1>5, <1>7 DEF RegistrationEntry, IInv, TypeOK, steps, Taken
<1>11. Phases'
  BY EntryFacts DEF RegistrationEntry, IInv, Phases, steps
<1> QED
  BY <1>7, <1>9, <1>10, <1>11 DEF IInv

\* An unregistration.
LEMMA UnregisterEntryKeeps ==
  ASSUME IInv, SchedulerAssumption, RegistrationEntry,
         NEW A \in Objects, Registration[1].Object = A, ~Registration[1].OP,
         NEW RT \in BOOLEAN, Registration[1].RT = RT,
         Registration' = Tail(Registration), UNCHANGED b_RT,
         \/ internal_Unregister(A, RT)
         \/ ~FoundToUnregister(A, RT) /\ UNCHANGED <<ItemsRT, stale, Items, m_current_step_obj>>
  PROVE  IInv' /\ SameRegistered
<1>1. Taken(A) /\ (Pending(A)' \/ IsLast(1))
  BY TailTakes DEF IInv, RegistrationEntry
<1>2. /\ ItemsRT' \in Seq(Objects) /\ stale' \in Seq(Objects) /\ Items' \in Seq(Entry)
      /\ m_current_step_obj' = None /\ Distinct'
      /\ \A o \in Objects : o # A => (Held(o)' <=> Held(o)) /\ (InRT(o)' <=> InRT(o))
      /\ ~Held(A)' /\ stale' = stale
  <2>1. CASE internal_Unregister(A, RT)
    <3>1. /\ ItemsRT' \in Seq(Objects) /\ stale' \in Seq(Objects) /\ Items' \in Seq(Entry)
          /\ m_current_step_obj' = None
          /\ \A o \in Objects : /\ InRT(o)' <=> InRT(o) /\ o # A
                                /\ InItems(o)' <=> InItems(o) /\ o # A
                                /\ m_current_step_obj' = o <=> m_current_step_obj = o /\ o # A
                                /\ InProcessed(o)' <=> InProcessed(o)
          /\ ~InProcessed(A) /\ Distinct'
      BY <2>1, EntryFacts, InternalUnregisterRemoves DEF IInv
    <3>2. stale' = stale
      BY <2>1, EntryFacts DEF internal_Unregister, EraseRT
    <3> QED
      BY <3>1, <3>2, HeldMeans
  <2>2. CASE ~FoundToUnregister(A, RT) /\ UNCHANGED <<ItemsRT, stale, Items, m_current_step_obj>>
    <3>1. /\ \A o : (Held(o)' <=> Held(o)) /\ (InRT(o)' <=> InRT(o))
          /\ Distinct'
      BY <2>2, EntryFacts, SameContainers DEF IInv
    <3>2. Held(A) => (RT <=> InRT(A))
      BY EntryFacts DEF IInv, FirstUnregisters
    <3>3. ~Held(A)
      BY <2>2, <3>2, EntryFacts, HeldMeans DEF FoundToUnregister, InProcessed
    <3> QED
      BY <2>2, <3>1, <3>3, EntryFacts DEF IInv, TypeOK
  <2> QED
    BY <2>1, <2>2
<1>3. ~Pending(A)' => ~client[A]
  BY <1>1, EntryFacts DEF IInv, LastDecides
<1>4. /\ Alternate' /\ FirstUnregisters' /\ LastDecides' /\ HeldDecides' /\ Settled'
      /\ SameRegistered
  BY <1>1, <1>2, <1>3, EntryFacts, TakenKeeps DEF IInv
<1>5. TypeOK'
  BY <1>1, <1>2 DEF RegistrationEntry, IInv, TypeOK, steps, Taken
<1>6. Phases'
  BY <1>2, EntryFacts DEF RegistrationEntry, IInv, Phases, steps
<1> QED
  BY <1>2, <1>4, <1>5, <1>6 DEF IInv

\* internal_Registration takes a call, or two that cancel each other, and nobody
\* is registered or unregistered by it.
LEMMA RegistrationEntryKeeps ==
  ASSUME IInv, SchedulerAssumption, RegistrationEntry
  PROVE  IInv' /\ SameRegistered
<1>1. PICK A \in Objects : Registration[1].Object = A
  BY EntryFacts
<1>2. PICK RT \in BOOLEAN : Registration[1].RT = RT
  BY EntryFacts
<1>3. CASE Registration[1].OP /\ Pair(A) # 0
  BY <1>1, <1>3, EntryFacts, CancelKeeps DEF RegistrationEntry
<1>4. CASE Registration[1].OP /\ Pair(A) = 0
  BY <1>1, <1>2, <1>4, EntryFacts, RegisterEntryKeeps DEF RegistrationEntry
<1>5. CASE ~Registration[1].OP
  BY <1>1, <1>2, <1>5, EntryFacts, UnregisterEntryKeeps DEF RegistrationEntry
<1> QED
  BY <1>3, <1>4, <1>5

\* The top of the heap, as ProcessStep finds it.
LEMMA TopFacts ==
  ASSUME TypeOK, NEW k \in Tops
  PROVE  /\ k \in DOMAIN Items /\ Items[k] \in Entry
         /\ Items[k].Object \in Objects \cup {None} /\ Items[k].time \in Nat
         /\ Items[k].time < dwTime
         /\ \A m \in DOMAIN Items : Items[k].time <= Items[m].time
<1>1. k \in DOMAIN Items /\ Items[k].time < dwTime /\ \A m \in DOMAIN Items : Items[k].time <= Items[m].time
  BY DEF Tops
<1>2. Items[k] \in Entry
  BY <1>1, ElementOfSeq, LenProperties DEF TypeOK
<1> QED
  BY <1>1, <1>2 DEF Entry

\* The count of entries up to the next look at the clock.
LEMMA CountBounded ==
  ASSUME TypeOK, SchedulerAssumption
  PROVE  Count \in 0 .. CheckEvery - 1
BY DEF Count, TypeOK, SchedulerAssumption

\* An entry leaves the heap: it had no object, or one that is not needed.
LEMMA DropTopKeeps ==
  ASSUME IInv, SchedulerAssumption, DropTop
  PROVE  /\ IInv'
         /\ \E A : \A o \in Objects : IsRegistered(o)' <=> IsRegistered(o) /\ o # A
<1>1. PICK k \in Tops : (Items[k].Object # None => ~needed[Items[k].Object]) /\ Items' = RemoveAt(Items, k)
  BY DEF DropTop
<1>2. k \in DOMAIN Items /\ Items[k].Object \in Objects \cup {None}
  BY TopFacts DEF IInv
<1>3. /\ Items' \in Seq(Entry)
      /\ \A n, m \in DOMAIN Items' :
            Items'[n].Object = Items'[m].Object /\ Items'[n].Object # None => n = m
      /\ \A o \in Objects : InItems(o)' <=> InItems(o) /\ o # Items[k].Object
  BY <1>1, <1>2, RemoveItem DEF IInv
<1>4. /\ UNCHANGED <<ItemsRT, stale, ItemsProcessed, Registration, m_current_step_obj, b_RT, client,
                     needed, m_processing_now, phase>>
      /\ phase = "normal"
  BY DEF DropTop, objects
<1>5. \A o \in Objects : /\ InRT(o)' <=> InRT(o)
                         /\ InProcessed(o)' <=> InProcessed(o)
  BY <1>4, InRTMeans DEF InProcessed
<1>6. \A o \in Objects : /\ Held(o)' => Held(o)
                         /\ Held(o) /\ ~Held(o)' => ~needed[o]
  <2> SUFFICES ASSUME NEW o \in Objects PROVE (Held(o)' => Held(o)) /\ (Held(o) /\ ~Held(o)' => ~needed[o])
    OBVIOUS
  <2>1. Items[k].Object = o => ~needed[o]
    BY <1>1, SchedulerAssumption
  <2> QED
    BY <1>3, <1>4, <1>5, <2>1, HeldMeans
<1>7. Alternate' /\ FirstUnregisters' /\ LastDecides' /\ HeldDecides'
  <2>1. \A o \in Objects :
            /\ Held(o)' => Held(o) /\ (InRT(o)' <=> InRT(o))
            /\ Held(o) /\ ~Held(o)' => ~(client'[o] /\ needed'[o])
            /\ needed'[o] => needed[o]
            /\ client'[o] = client[o] \/ (~Pending(o) /\ ~Held(o)' /\ ~client'[o])
    BY <1>4, <1>5, <1>6
  <2> QED
    BY <1>4, <2>1, RegistryKept DEF IInv
<1>8. Settled'
  BY <1>3, <1>4, <1>5 DEF IInv, Settled, Pending
<1>9. TypeOK'
  BY <1>3, CountBounded DEF DropTop, IInv, TypeOK, objects
<1>10. Distinct'
  BY <1>3, <1>4, <1>5 DEF IInv, Distinct
<1>11. Phases'
  BY <1>4 DEF DropTop, IInv, Phases
<1>12. ASSUME NEW o \in Objects
       PROVE  IsRegistered(o)' <=> IsRegistered(o) /\ o # Items[k].Object
  <2>1. Pending(o)' <=> Pending(o)
    BY <1>4 DEF Pending
  <2>2. CASE o = Items[k].Object
    <3>1. InItems(o) /\ m_processing_now
      BY <1>2, <1>4, <2>2 DEF InItems, IInv, TypeOK
    <3>2. ~Pending(o) /\ ~InRT(o) /\ ~InProcessed(o) /\ m_current_step_obj # o
      BY <3>1 DEF IInv, Settled, Distinct
    <3> QED
      BY <1>3, <1>4, <1>5, <2>1, <2>2, <3>2, HeldMeans DEF IsRegistered
  <2>3. CASE o # Items[k].Object
    <3>1. Held(o)' <=> Held(o)
      BY <1>3, <1>4, <1>5, <2>3, HeldMeans
    <3> QED
      BY <1>4, <2>1, <2>3, <3>1 DEF IsRegistered
  <2> QED
    BY <2>2, <2>3
<1> QED
  BY <1>7, <1>8, <1>9, <1>10, <1>11, <1>12 DEF IInv

\* The top of the heap becomes the current object.
LEMMA UpdateTopPreservesInv ==
  ASSUME IInv, SchedulerAssumption, UpdateTop
  PROVE  IInv' /\ SameRegistered
<1>1. PICK k \in Tops : /\ Items[k].Object # None
                        /\ Items' = RemoveAt(Items, k)
                        /\ m_current_step_obj' = Items[k].Object
                        /\ updating' = Items[k].Object
                        /\ served' = served \cup {Items[k].Object}
                        /\ waited' = [waited EXCEPT ![Items[k].Object] = 0]
  BY DEF UpdateTop
<1>2. PICK A \in Objects : Items[k].Object = A
  BY <1>1, TopFacts DEF IInv
<1>3. /\ Items' \in Seq(Entry)
      /\ \A n, m \in DOMAIN Items' :
            Items'[n].Object = Items'[m].Object /\ Items'[n].Object # None => n = m
      /\ \A o \in Objects : InItems(o)' <=> InItems(o) /\ o # A
  BY <1>1, <1>2, TopFacts, RemoveItem DEF IInv
<1>4. /\ UNCHANGED <<ItemsRT, stale, ItemsProcessed, Registration, b_RT, client, needed,
                     m_processing_now, phase>>
      /\ phase = "normal" /\ updating = None
  BY DEF UpdateTop, objects
<1>5. m_current_step_obj = None /\ m_current_step_obj' = A /\ InItems(A) /\ A # None
  BY <1>1, <1>2, <1>4, TopFacts, SchedulerAssumption DEF IInv, Phases, InItems
<1>6. \A o \in Objects : /\ InRT(o)' <=> InRT(o)
                         /\ InProcessed(o)' <=> InProcessed(o)
  BY <1>4, InRTMeans DEF InProcessed
<1>7. \A o \in Objects : Held(o)' <=> Held(o)
  BY <1>3, <1>5, <1>6, HeldMeans, SchedulerAssumption
<1>8. Alternate' /\ FirstUnregisters' /\ LastDecides' /\ HeldDecides'
  <2>1. \A o \in Objects :
            /\ Held(o)' => Held(o) /\ (InRT(o)' <=> InRT(o))
            /\ Held(o) /\ ~Held(o)' => ~(client'[o] /\ needed'[o])
            /\ needed'[o] => needed[o]
            /\ client'[o] = client[o] \/ (~Pending(o) /\ ~Held(o)' /\ ~client'[o])
    BY <1>4, <1>6, <1>7
  <2> QED
    BY <1>4, <2>1, RegistryKept DEF IInv
<1>9. Settled'
  BY <1>3, <1>4, <1>5, <1>6 DEF IInv, Settled, Pending
<1>10. TypeOK'
  <2>1. updating' \in Objects \cup {None} /\ served' \subseteq Objects /\ waited' \in [Objects -> Nat]
    BY <1>1, <1>2 DEF IInv, TypeOK
  <2> QED
    BY <1>3, <1>5, <2>1 DEF UpdateTop, IInv, TypeOK, objects
<1>11. Distinct'
  BY <1>3, <1>4, <1>5, <1>6 DEF IInv, Distinct
<1>12. Phases'
  BY <1>1, <1>2, <1>4, <1>5 DEF IInv, Phases
<1>13. SameRegistered
  BY <1>4, <1>7 DEF SameRegistered, IsRegistered, Pending
<1> QED
  BY <1>8, <1>9, <1>10, <1>11, <1>12, <1>13 DEF IInv

\* `Push "processed" back`, the entry of the current object among them.
LEMMA PushBackKeeps ==
  ASSUME IInv, SchedulerAssumption, phase = "normal",
         NEW processed \in Seq(Entry), PushProcessedBack(processed),
         \A n, m \in DOMAIN processed : processed[n].Object = processed[m].Object => n = m,
         \A n \in DOMAIN processed : processed[n].Object # None,
         \A o \in Objects : (\E n \in DOMAIN processed : processed[n].Object = o)
                               <=> InProcessed(o) \/ m_current_step_obj = o,
         m_current_step_obj' = None, updating' = None, i' \in 0 .. CheckEvery - 1,
         UNCHANGED <<ItemsRT, stale, Registration, dwTime, it, objects, served>>
  PROVE  IInv' /\ SameRegistered
<1>1. /\ Items' = Items \o processed /\ ItemsProcessed' = <<>>
      /\ m_processing_now' = FALSE /\ phase' = "reg2"
      /\ UNCHANGED <<b_RT, needed, client>>
  BY DEF PushProcessedBack, objects
<1>2. /\ Items' \in Seq(Entry)
      /\ \A n \in DOMAIN Items' :
            \/ n \in DOMAIN Items /\ Items'[n] = Items[n]
            \/ /\ n > Len(Items) /\ n - Len(Items) \in DOMAIN processed
               /\ Items'[n] = processed[n - Len(Items)]
      /\ \A o : InItems(o)' <=> \/ InItems(o)
                                \/ \E n \in DOMAIN processed : processed[n].Object = o
  BY <1>1, AddItems DEF IInv
<1>3. \A o \in Objects : /\ InRT(o)' <=> InRT(o)
                         /\ InItems(o)' <=> InItems(o) \/ InProcessed(o) \/ m_current_step_obj = o
                         /\ ~InProcessed(o)'
                         /\ m_current_step_obj' # o
  BY <1>1, <1>2, InRTMeans, SchedulerAssumption DEF InProcessed
<1>4. \A o \in Objects : Held(o)' <=> Held(o)
  BY <1>3, HeldMeans
<1>5. Alternate' /\ FirstUnregisters' /\ LastDecides' /\ HeldDecides'
  <2>1. \A o \in Objects :
            /\ Held(o)' => Held(o) /\ (InRT(o)' <=> InRT(o))
            /\ Held(o) /\ ~Held(o)' => ~(client'[o] /\ needed'[o])
            /\ needed'[o] => needed[o]
            /\ client'[o] = client[o] \/ (~Pending(o) /\ ~Held(o)' /\ ~client'[o])
    BY <1>1, <1>3, <1>4
  <2> QED
    BY <1>1, <2>1, RegistryKept DEF IInv
<1>6. Settled'
  BY <1>1 DEF Settled
<1>7. TypeOK'
  <2>1. waited' \in [Objects -> Nat]
    BY DEF PushProcessedBack, PassOver, IInv, TypeOK
  <2>2. ItemsProcessed' \in Seq(Entry)
    BY <1>1
  <2>3. m_processing_now' = (phase' \in {"rt", "normal"})
    <3>1. (phase' \in {"rt", "normal"}) = FALSE
      BY <1>1
    <3> QED
      BY <1>1, <3>1
  <2> QED
    BY <1>1, <1>2, <2>1, <2>2, <2>3 DEF IInv, TypeOK, objects
<1>8. Distinct'
  <2>1. ASSUME NEW k \in DOMAIN Items', NEW m \in DOMAIN Items',
               Items'[k].Object = Items'[m].Object, Items'[k].Object # None
        PROVE  k = m
    <3>1. Len(Items) \in Nat /\ DOMAIN Items = 1 .. Len(Items) /\ DOMAIN Items' = 1 .. Len(Items')
      BY <1>2 DEF IInv, TypeOK
    <3>2. \A a \in DOMAIN Items, b \in DOMAIN processed :
             Items[a].Object = processed[b].Object => Items[a].Object = None
      <4> SUFFICES ASSUME NEW a \in DOMAIN Items, NEW b \in DOMAIN processed, NEW o \in Objects,
                          Items[a].Object = o, processed[b].Object = o
                   PROVE  FALSE
        <5>1. \A a \in DOMAIN Items : Items[a] \in Entry
          BY ElementOfSeq, LenProperties DEF IInv, TypeOK
        <5>2. \A a \in DOMAIN Items : Items[a].Object \in Objects \cup {None}
          BY <5>1 DEF Entry
        <5> QED
          BY <5>2
      <4>1. InItems(o) /\ (InProcessed(o) \/ m_current_step_obj = o)
        BY DEF InItems
      <4> QED
        BY <4>1 DEF IInv, Distinct
    <3>3. CASE k \in DOMAIN Items /\ m \in DOMAIN Items
      BY <1>2, <2>1, <3>1, <3>3 DEF IInv, Distinct
    <3>4. CASE k \notin DOMAIN Items /\ m \notin DOMAIN Items
      <4>1. k - Len(Items) = m - Len(Items)
        BY <1>2, <2>1, <3>4
      <4> QED
        BY <3>1, <4>1
    <3>5. CASE k \in DOMAIN Items /\ m \notin DOMAIN Items
      BY <1>2, <2>1, <3>1, <3>2, <3>5
    <3>6. CASE k \notin DOMAIN Items /\ m \in DOMAIN Items
      BY <1>2, <2>1, <3>1, <3>2, <3>6
    <3> QED
      BY <3>3, <3>4, <3>5, <3>6
  <2> QED
    BY <1>1, <1>3, <2>1 DEF IInv, Distinct
<1>9. Phases'
  BY <1>1 DEF IInv, Phases
<1>10. SameRegistered
  BY <1>1, <1>4 DEF SameRegistered, IsRegistered, Pending
<1> QED
  BY <1>5, <1>6, <1>7, <1>8, <1>9, <1>10 DEF IInv

\* The entry that the object gets for its next update.
Processed(d) == Append(ItemsProcessed, [Object |-> updating, time |-> dwTime + d])

\* It is told apart from those of the other objects.
LEMMA ProcessedFacts ==
  ASSUME IInv, SchedulerAssumption, m_current_step_obj # None, NEW d \in Periods
  PROVE  /\ phase = "normal" /\ updating = m_current_step_obj /\ updating \in Objects
         /\ Processed(d) \in Seq(Entry)
         /\ DOMAIN ItemsProcessed = 1 .. Len(ItemsProcessed) /\ Len(ItemsProcessed) \in Nat
         /\ DOMAIN Processed(d) = 1 .. Len(ItemsProcessed) + 1
         /\ \A n \in DOMAIN ItemsProcessed : Processed(d)[n] = ItemsProcessed[n]
         /\ \A n \in DOMAIN Processed(d) : n \notin DOMAIN ItemsProcessed =>
               Processed(d)[n].Object = updating /\ Processed(d)[n].time = dwTime + d
         /\ \A n, m \in DOMAIN Processed(d) : Processed(d)[n].Object = Processed(d)[m].Object => n = m
         /\ \A n \in DOMAIN Processed(d) : Processed(d)[n].Object # None
         /\ \A o \in Objects : (\E n \in DOMAIN Processed(d) : Processed(d)[n].Object = o)
                               <=> InProcessed(o) \/ m_current_step_obj = o
<1> DEFINE L == Len(ItemsProcessed)
<1>1. phase = "normal" /\ updating = m_current_step_obj /\ updating \in Objects
  BY DEF IInv, Phases, TypeOK
<1>2. [Object |-> updating, time |-> dwTime + d] \in Entry
  BY <1>1, SchedulerAssumption DEF Entry, IInv, TypeOK
<1>3. ItemsProcessed \in Seq(Entry) /\ DOMAIN ItemsProcessed = 1 .. L /\ L \in Nat
  BY DEF IInv, TypeOK
<1>4. /\ Processed(d) \in Seq(Entry) /\ DOMAIN Processed(d) = 1 .. L + 1
      /\ \A n \in 1 .. L : Processed(d)[n] = ItemsProcessed[n]
      /\ Processed(d)[L + 1] = [Object |-> updating, time |-> dwTime + d]
  BY <1>2, <1>3 DEF Processed
<1> HIDE DEF L
<1>5. \A n \in 1 .. L + 1 : n \notin 1 .. L =>
         n = L + 1 /\ Processed(d)[n].Object = updating /\ Processed(d)[n].time = dwTime + d
  BY <1>3, <1>4
<1>6. \A n \in 1 .. L : ItemsProcessed[n].Object # updating /\ ItemsProcessed[n].Object # None
  BY <1>1, <1>3 DEF IInv, Distinct, InProcessed
<1>7. \A n, m \in 1 .. L : ItemsProcessed[n].Object = ItemsProcessed[m].Object => n = m
  BY <1>3 DEF IInv, Distinct
<1>8. ASSUME NEW n \in 1 .. L + 1, NEW m \in 1 .. L + 1, Processed(d)[n].Object = Processed(d)[m].Object
      PROVE  n = m
  <2>1. CASE n \in 1 .. L /\ m \in 1 .. L
    BY <1>4, <1>7, <1>8, <2>1
  <2>2. CASE n \notin 1 .. L /\ m \notin 1 .. L
    BY <1>5, <2>2
  <2>3. CASE n \in 1 .. L /\ m \notin 1 .. L
    BY <1>4, <1>5, <1>6, <1>8, <2>3
  <2>4. CASE n \notin 1 .. L /\ m \in 1 .. L
    BY <1>4, <1>5, <1>6, <1>8, <2>4
  <2> QED
    BY <2>1, <2>2, <2>3, <2>4
<1>9. \A n \in 1 .. L + 1 : Processed(d)[n].Object # None
  BY <1>1, <1>4, <1>5, <1>6, SchedulerAssumption
<1>10. ASSUME NEW o \in Objects
       PROVE  (\E n \in 1 .. L + 1 : Processed(d)[n].Object = o) <=> InProcessed(o) \/ m_current_step_obj = o
  <2>1. ASSUME NEW n \in 1 .. L + 1, Processed(d)[n].Object = o PROVE InProcessed(o) \/ m_current_step_obj = o
    BY <1>1, <1>3, <1>4, <1>5, <2>1 DEF InProcessed
  <2>2. ASSUME InProcessed(o) PROVE \E n \in 1 .. L + 1 : Processed(d)[n].Object = o
    BY <1>3, <1>4, <2>2 DEF InProcessed
  <2>3. ASSUME m_current_step_obj = o PROVE Processed(d)[L + 1].Object = o /\ L + 1 \in 1 .. L + 1
    BY <1>1, <1>3, <1>4, <2>3
  <2> QED
    BY <2>1, <2>2, <2>3
<1> QED
  BY <1>1, <1>3, <1>4, <1>5, <1>8, <1>9, <1>10 DEF L

\* UpdateTopReturns, when the object goes to ItemsProcessed.
LEMMA SetAsideKeeps ==
  ASSUME IInv, SchedulerAssumption, UpdateTopReturns, m_current_step_obj # None, NEW d \in Periods,
         ItemsProcessed' = Append(ItemsProcessed, [Object |-> updating, time |-> dwTime + d]),
         i' = Count, UNCHANGED <<Items, m_processing_now, phase, waited>>
  PROVE  IInv' /\ SameRegistered
<1> DEFINE L == Len(ItemsProcessed)
<1>1. /\ phase = "normal" /\ updating = m_current_step_obj /\ updating \in Objects
      /\ ItemsProcessed' \in Seq(Entry)
      /\ \A n, m \in DOMAIN ItemsProcessed' : ItemsProcessed'[n].Object = ItemsProcessed'[m].Object => n = m
      /\ \A n \in DOMAIN ItemsProcessed' : ItemsProcessed'[n].Object # None
      /\ \A o \in Objects : (\E n \in DOMAIN ItemsProcessed' : ItemsProcessed'[n].Object = o)
                               <=> InProcessed(o) \/ m_current_step_obj = o
  <2>1. ItemsProcessed' = Processed(d)
    BY DEF Processed
  <2>2. /\ phase = "normal" /\ updating = m_current_step_obj /\ updating \in Objects
        /\ Processed(d) \in Seq(Entry)
        /\ \A n, m \in DOMAIN Processed(d) : Processed(d)[n].Object = Processed(d)[m].Object => n = m
        /\ \A n \in DOMAIN Processed(d) : Processed(d)[n].Object # None
        /\ \A o \in Objects : (\E n \in DOMAIN Processed(d) : Processed(d)[n].Object = o)
                              <=> InProcessed(o) \/ m_current_step_obj = o
    BY ProcessedFacts
  <2> QED
    BY <2>1, <2>2
<1>2. /\ m_current_step_obj' = None /\ updating' = None
      /\ UNCHANGED <<ItemsRT, stale, Registration, dwTime, it, objects, served>>
  BY DEF UpdateTopReturns
<1>3. \A o \in Objects : /\ InRT(o)' <=> InRT(o)
                         /\ InItems(o)' <=> InItems(o)
                         /\ InProcessed(o)' <=> InProcessed(o) \/ m_current_step_obj = o
                         /\ m_current_step_obj' # o
  BY <1>1, <1>2, InRTMeans, SchedulerAssumption DEF InItems, InProcessed
<1>4. \A o \in Objects : Held(o)' <=> Held(o)
  BY <1>3, HeldMeans
<1>5. Alternate' /\ FirstUnregisters' /\ LastDecides' /\ HeldDecides'
  <2>1. \A o \in Objects :
            /\ Held(o)' => Held(o) /\ (InRT(o)' <=> InRT(o))
            /\ Held(o) /\ ~Held(o)' => ~(client'[o] /\ needed'[o])
            /\ needed'[o] => needed[o]
            /\ client'[o] = client[o] \/ (~Pending(o) /\ ~Held(o)' /\ ~client'[o])
    BY <1>2, <1>3, <1>4 DEF objects
  <2> QED
    BY <1>2, <2>1, RegistryKept DEF IInv, objects
<1>6. Settled'
  BY <1>2, <1>3 DEF IInv, Settled, Pending
<1>7. TypeOK'
  BY <1>1, <1>2, CountBounded DEF IInv, TypeOK, objects
<1>8. Distinct'
  BY <1>1, <1>2, <1>3 DEF IInv, Distinct
<1>9. Phases'
  BY <1>1, <1>2 DEF IInv, Phases
<1>10. SameRegistered
  BY <1>2, <1>4 DEF SameRegistered, IsRegistered, Pending, objects
<1> QED
  BY <1>5, <1>6, <1>7, <1>8, <1>9, <1>10 DEF IInv

\* The update returns, and the step goes on or is over its budget.
LEMMA UpdateTopReturnsKeeps ==
  ASSUME IInv, SchedulerAssumption, UpdateTopReturns
  PROVE  IInv' /\ SameRegistered
<1>1. /\ m_current_step_obj' = None /\ updating' = None /\ phase = "normal"
      /\ UNCHANGED <<ItemsRT, stale, Registration, dwTime, it, objects, served>>
  BY DEF UpdateTopReturns
<1>2. CASE m_current_step_obj = None /\ i' = Count
           /\ UNCHANGED <<Items, ItemsProcessed, m_processing_now, phase, waited>>
  <2>1. TypeOK'
    BY <1>1, <1>2, CountBounded DEF IInv, TypeOK, objects
  <2>2. Phases'
    BY <1>1, <1>2 DEF IInv, Phases
  <2> QED
    BY <1>1, <1>2, <2>1, <2>2, StaticKeeps DEF IInv, TypeOK, objects
<1>3. ASSUME m_current_step_obj # None, NEW d \in Periods, NEW processed,
             processed = Append(ItemsProcessed, [Object |-> updating, time |-> dwTime + d]),
             \/ ItemsProcessed' = processed /\ i' = Count
                /\ UNCHANGED <<Items, m_processing_now, phase, waited>>
             \/ i = CheckEvery - 1 /\ PushProcessedBack(processed) /\ i' = 0
      PROVE  IInv' /\ SameRegistered
  <2>1. CASE ItemsProcessed' = processed /\ i' = Count
             /\ UNCHANGED <<Items, m_processing_now, phase, waited>>
    BY <1>3, <2>1, SetAsideKeeps
  <2>2. CASE i = CheckEvery - 1 /\ PushProcessedBack(processed) /\ i' = 0
    <3>1. /\ processed \in Seq(Entry)
          /\ \A n, m \in DOMAIN processed : processed[n].Object = processed[m].Object => n = m
          /\ \A n \in DOMAIN processed : processed[n].Object # None
          /\ \A o \in Objects : (\E n \in DOMAIN processed : processed[n].Object = o)
                                <=> InProcessed(o) \/ m_current_step_obj = o
      <4>1. processed = Processed(d)
        BY <1>3 DEF Processed
      <4>2. /\ Processed(d) \in Seq(Entry)
            /\ \A n, m \in DOMAIN Processed(d) : Processed(d)[n].Object = Processed(d)[m].Object => n = m
            /\ \A n \in DOMAIN Processed(d) : Processed(d)[n].Object # None
            /\ \A o \in Objects : (\E n \in DOMAIN Processed(d) : Processed(d)[n].Object = o)
                                  <=> InProcessed(o) \/ m_current_step_obj = o
        BY <1>3, ProcessedFacts
      <4> QED
        BY <4>1, <4>2
    <3>2. i' \in 0 .. CheckEvery - 1
      BY <2>2, SchedulerAssumption
    <3> QED
      BY <1>1, <2>2, <3>1, <3>2, PushBackKeeps
  <2> QED
    BY <1>3, <2>1, <2>2
<1> QED
  BY <1>2, <1>3 DEF UpdateTopReturns

\* Nothing is due any more.
LEMMA ProcessStepDoneKeeps ==
  ASSUME IInv, SchedulerAssumption, ProcessStepDone
  PROVE  IInv' /\ SameRegistered
<1>1. /\ m_current_step_obj = None /\ m_current_step_obj' = None /\ updating' = None
      /\ phase = "normal" /\ PushProcessedBack(ItemsProcessed)
      /\ UNCHANGED <<ItemsRT, stale, Registration, dwTime, it, i, objects, served>>
  BY DEF ProcessStepDone, IInv, Phases
<1>2. /\ ItemsProcessed \in Seq(Entry) /\ i \in 0 .. CheckEvery - 1
      /\ \A n, m \in DOMAIN ItemsProcessed : ItemsProcessed[n].Object = ItemsProcessed[m].Object => n = m
      /\ \A n \in DOMAIN ItemsProcessed : ItemsProcessed[n].Object # None
  BY DEF IInv, TypeOK, Distinct
<1>3. \A o \in Objects : (\E n \in DOMAIN ItemsProcessed : ItemsProcessed[n].Object = o)
                         <=> InProcessed(o) \/ m_current_step_obj = o
  BY <1>1, SchedulerAssumption DEF InProcessed
<1> QED
  BY <1>1, <1>2, <1>3, PushBackKeeps

\* CSheduler::Destroy empties everything.
LEMMA DestroyKeeps ==
  ASSUME IInv, SchedulerAssumption, Destroy
  PROVE  /\ IInv'
         /\ \A o \in Objects : ~IsRegistered(o)'
<1>1. /\ ItemsRT' = <<>> /\ Items' = <<>> /\ ItemsProcessed' = <<>> /\ Registration' = <<>>
      /\ phase = "game" /\ phase' = "destroyed" /\ m_current_step_obj = None /\ ~m_processing_now
      /\ UNCHANGED <<stale, m_current_step_obj, m_processing_now, dwTime, it, i, updating,
                     objects, served, waited>>
  BY DEF Destroy, IInv, Phases, TypeOK
<1>2. \A o \in Objects : ~InRT(o)' /\ ~InItems(o)' /\ ~InProcessed(o)' /\ m_current_step_obj' # o
  BY <1>1, InRTMeans, SchedulerAssumption DEF InItems, InProcessed
<1>3. TypeOK'
  <2>1. m_processing_now' = (phase' \in {"rt", "normal"})
    <3>1. (phase' \in {"rt", "normal"}) = FALSE /\ (phase \in {"rt", "normal"}) = FALSE
      BY <1>1
    <3> QED
      BY <1>1, <3>1 DEF IInv, TypeOK
  <2> QED
    BY <1>1, <2>1 DEF IInv, TypeOK, objects
<1>4. Distinct'
  BY <1>1, <1>2 DEF Distinct
<1>5. Phases'
  BY <1>1 DEF IInv, Phases
<1>6. Alternate' /\ FirstUnregisters' /\ LastDecides' /\ HeldDecides' /\ Settled'
  BY <1>1 DEF Alternate, FirstUnregisters, LastDecides, HeldDecides, Settled
<1>7. \A o \in Objects : ~IsRegistered(o)'
  BY <1>1, <1>2, HeldMeans DEF IsRegistered, Pending
<1> QED
  BY <1>3, <1>4, <1>5, <1>6, <1>7 DEF IInv

\* The invariant holds in the beginning.
LEMMA InitHolds ==
  ASSUME SchedulerAssumption, Init
  PROVE  IInv
<1>1. TypeOK
  <2>1. m_processing_now = (phase \in {"rt", "normal"})
    <3>1. (phase \in {"rt", "normal"}) = FALSE
      BY DEF Init
    <3> QED
      BY <3>1 DEF Init
  <2> QED
    BY <2>1, SchedulerAssumption DEF Init, TypeOK
<1>2. Distinct
  BY SchedulerAssumption, InRTMeans DEF Init, Distinct, InItems, InProcessed
<1>3. Phases
  BY DEF Init, Phases
<1>4. Alternate /\ FirstUnregisters /\ LastDecides /\ Settled
  BY DEF Init, Alternate, FirstUnregisters, LastDecides, Settled
<1>5. HeldDecides
  BY SchedulerAssumption, InRTMeans, HeldMeans DEF Init, HeldDecides, InItems, InProcessed
<1> QED
  BY <1>1, <1>2, <1>3, <1>4, <1>5 DEF IInv

\* Every step keeps it.
LEMMA NextKeeps ==
  ASSUME IInv, [Next]_vars
  PROVE  IInv'
<1> USE SchedulerAssumption
<1>1. ASSUME NEW A \in Objects, Unregister(A) \/ SetDestroy(A) \/ \E RT \in BOOLEAN : Register(A, RT)
      PROVE  IInv'
  BY <1>1, UnregisterKeeps, SetDestroyKeeps, RegisterKeeps
<1>2. CASE BeginUpdate \/ RegistrationEntry \/ RegistrationDone
  BY <1>2, BeginUpdateKeeps, RegistrationEntryKeeps, RegistrationDoneKeeps
<1>3. CASE RTSkip \/ RTUpdate \/ RTUpdateReturns \/ RTDone
  BY <1>3, LoopKeeps
<1>4. CASE DropTop \/ UpdateTop \/ UpdateTopReturns \/ ProcessStepDone
  BY <1>4, DropTopKeeps, UpdateTopPreservesInv, UpdateTopReturnsKeeps, ProcessStepDoneKeeps
<1>5. CASE Destroy
  BY <1>5, DestroyKeeps
<1>6. CASE UNCHANGED vars
  <2>1. TypeOK' /\ Phases'
    BY <1>6 DEF vars, queues, steps, objects, IInv, TypeOK, Phases
  <2> QED
    BY <1>6, <2>1, StaticKeeps DEF vars, queues, steps, objects, IInv, TypeOK
<1> QED
  BY <1>1, <1>2, <1>3, <1>4, <1>5, <1>6 DEF Next

\* The registry's state in every reachable state, for any number of objects.
THEOREM Invariance == Spec => []IInv
<1>1. Init => IInv
  BY InitHolds, SchedulerAssumption
<1>2. IInv /\ [Next]_vars => IInv'
  BY NextKeeps
<1> QED
  BY <1>1, <1>2, PTL DEF Spec

-----------------------------------------------------------------------------
(* What follows from it.                                                   *)

\* Every variable has its type.
THEOREM TypeCorrect == Spec => []TypeOK
BY Invariance, PTL DEF IInv

\* The last call of an object in a log.
LEMMA LastCall ==
  ASSUME NEW s \in Seq(ItemReg), NEW o
  PROVE  LET k == SelectLastInSeq(s, LAMBDA R : R.Object = o)
         IN /\ k = 0 => \A n \in DOMAIN s : s[n].Object # o
            /\ k # 0 => k \in DOMAIN s /\ s[k].Object = o /\ \A n \in DOMAIN s : s[n].Object = o => n <= k
<1> DEFINE I == {n \in 1 .. Len(s) : s[n].Object = o}
<1>1. SelectLastInSeq(s, LAMBDA R : R.Object = o) = IF I # {} THEN Max(I) ELSE 0
  BY DEF SelectLastInSeq
<1>2. DOMAIN s = 1 .. Len(s) /\ Len(s) \in Nat
  OBVIOUS
<1>3. I # {} => Max(I) \in I /\ \A n \in I : n <= Max(I)
  BY <1>2, MaxOfSet
<1> HIDE DEF I
<1>4. CASE I = {}
  BY <1>1, <1>2, <1>4 DEF I
<1>5. CASE I # {}
  <2> DEFINE m == Max(I)
  <2>1. m \in 1 .. Len(s) /\ s[m].Object = o /\ \A n \in 1 .. Len(s) : s[n].Object = o => n <= m
    BY <1>3, <1>5 DEF I
  <2>2. SelectLastInSeq(s, LAMBDA R : R.Object = o) = m
    BY <1>1, <1>5
  <2>3. /\ m = 0 => \A n \in DOMAIN s : s[n].Object # o
        /\ m # 0 => m \in DOMAIN s /\ s[m].Object = o /\ \A n \in DOMAIN s : s[n].Object = o => n <= m
    BY <1>2, <2>1
  <2> HIDE DEF m
  <2> QED
    BY <2>2, <2>3
<1> QED
  BY <1>4, <1>5

\* The search finds the last call of an object, and that agrees with its callers.
RegisteredIsThat == \A o \in Objects : Registered(o) <=> IsRegistered(o)

\* The search finds the last call.
LEMMA RegisteredMeans == IInv => RegisteredIsThat
<1> SUFFICES ASSUME TypeOK, LastDecides, NEW o \in Objects PROVE Registered(o) <=> IsRegistered(o)
  BY DEF IInv, RegisteredIsThat
<1> DEFINE k == SelectLastInSeq(Registration, LAMBDA R : R.Object = o)
<1>1. Registered(o) <=> IF k # 0 THEN Registration[k].OP ELSE Held(o)
  BY DEF Registered
<1>2. Registration \in Seq(ItemReg) /\ DOMAIN Registration \subseteq Nat
  BY DEF TypeOK
<1>3. /\ k = 0 => \A n \in DOMAIN Registration : Registration[n].Object # o
      /\ k # 0 => /\ k \in DOMAIN Registration /\ Registration[k].Object = o
                  /\ \A n \in DOMAIN Registration : Registration[n].Object = o => n <= k
  BY <1>2, LastCall
<1> HIDE DEF k
<1>4. CASE k = 0
  BY <1>1, <1>3, <1>4 DEF IsRegistered, Pending
<1>5. CASE k # 0
  <2>1. k \in DOMAIN Registration /\ Registration[k].Object = o /\ IsLast(k) /\ Pending(o)
    BY <1>3, <1>5 DEF IsLast, Pending
  <2>2. client[o] <=> Registration[k].OP
    BY <2>1 DEF LastDecides
  <2> QED
    BY <1>1, <1>5, <2>1, <2>2 DEF IsRegistered
<1> QED
  BY <1>4, <1>5

\* The same after a step.
LEMMA RegisteredMeansNext == IInv' => RegisteredIsThat'
BY RegisteredMeans, PTL

\* Until the scheduler is destroyed, an object is registered only if its callers
\* think so, and the other way round unless it is not needed any more.
LEMMA RegisteredAgrees ==
  ASSUME IInv, phase # "destroyed", NEW o \in Objects
  PROVE  /\ Registered(o) => client[o]
         /\ client[o] /\ needed[o] => Registered(o)
         /\ Held(o) /\ ~Pending(o) => Registered(o)
<1>1. Registered(o) <=> IsRegistered(o)
  BY RegisteredMeans DEF RegisteredIsThat
<1>2. ~Pending(o) => (Held(o) => client[o]) /\ (client[o] /\ needed[o] => Held(o))
  BY DEF IInv, HeldDecides
<1> QED
  BY <1>1, <1>2 DEF IsRegistered

\* The containers and the deferred calls agree with what the callers registered
\* and unregistered, in every order of the calls and of the updates.
THEOREM RegistryAgrees == Spec => []RegistryMatchesCallers
<1>1. IInv => RegistryMatchesCallers
  BY RegisteredAgrees DEF RegistryMatchesCallers
<1> QED
  BY <1>1, Invariance, PTL

\* A set of positions that all hold the same element of a list without
\* repetitions has at most one.
LEMMA OnePosition ==
  ASSUME NEW I, \A k, m \in I : k = m
  PROVE  /\ I = {} => Cardinality(I) = 0
         /\ I # {} => Cardinality(I) = 1
<1>1. CASE I = {}
  BY <1>1, FS_EmptySet
<1>2. CASE I # {}
  <2>1. PICK x : I = {x}
    BY <1>2
  <2> QED
    BY <1>2, <2>1, FS_Singleton
<1> QED
  BY <1>1, <1>2

\* No object is in two containers, or twice in one.
THEOREM NoDoubleRegistration == Spec => []HeldOnce
<1>1. IInv => HeldOnce
  <2> SUFFICES ASSUME IInv, NEW o \in Objects
               PROVE  Cardinality({k \in DOMAIN ItemsRT : ItemsRT[k] = o})
                    + Cardinality({k \in DOMAIN Items : Items[k].Object = o})
                    + Cardinality({k \in DOMAIN ItemsProcessed : ItemsProcessed[k].Object = o})
                    + (IF m_current_step_obj = o THEN 1 ELSE 0) <= 1
    BY DEF HeldOnce
  <2> DEFINE R == {k \in DOMAIN ItemsRT : ItemsRT[k] = o}
             I == {k \in DOMAIN Items : Items[k].Object = o}
             P == {k \in DOMAIN ItemsProcessed : ItemsProcessed[k].Object = o}
  <2>1. Cardinality(R) = 0 \/ (Cardinality(R) = 1 /\ InRT(o))
    <3>1. (\A k, m \in R : k = m) /\ (R # {} => InRT(o))
      BY InRTMeans DEF IInv, Distinct
    <3> HIDE DEF R
    <3> QED
      BY <3>1, OnePosition
  <2>2. Cardinality(I) = 0 \/ (Cardinality(I) = 1 /\ InItems(o))
    <3>1. (\A k, m \in I : k = m) /\ (I # {} => InItems(o))
      BY SchedulerAssumption DEF IInv, Distinct, InItems
    <3> HIDE DEF I
    <3> QED
      BY <3>1, OnePosition
  <2>3. Cardinality(P) = 0 \/ (Cardinality(P) = 1 /\ InProcessed(o))
    <3>1. (\A k, m \in P : k = m) /\ (P # {} => InProcessed(o))
      BY DEF IInv, Distinct, InProcessed
    <3> HIDE DEF P
    <3> QED
      BY <3>1, OnePosition
  <2> HIDE DEF R, I, P
  <2>4. /\ ~(InRT(o) /\ InItems(o)) /\ ~(InRT(o) /\ InProcessed(o)) /\ ~(InItems(o) /\ InProcessed(o))
        /\ m_current_step_obj = o => ~InRT(o) /\ ~InItems(o) /\ ~InProcessed(o)
    BY DEF IInv, Distinct
  <2>5. Cardinality(R) + Cardinality(I) + Cardinality(P)
           + (IF m_current_step_obj = o THEN 1 ELSE 0) <= 1
    BY <2>1, <2>2, <2>3, <2>4
  <2> QED
    BY <2>5 DEF R, I, P
<1> QED
  BY <1>1, Invariance, PTL

-----------------------------------------------------------------------------
(* The realtime loop, and updates once per frame.                          *)

\* Without an erasure in the loop the memory it walks over is ItemsRT.
LEMMA MemoryIsItemsRT ==
  ASSUME TypeOK, stale = <<>>
  PROVE  Memory = ItemsRT
BY ConcatEmptySeq DEF Memory, TypeOK

\* A call of Unregister, when updates of realtime objects unregister none.
LEMMA UnregisterSparesRT ==
  ASSUME IInv, SchedulerAssumption, ~EraseInRTLoop, NEW A \in Objects, Unregister(A)
  PROVE  /\ UNCHANGED <<ItemsProcessed, phase, it, updating, needed, served, stale, dwTime>>
         /\ phase = "rt" => ItemsRT' = ItemsRT
         /\ DOMAIN Items' = DOMAIN Items
         /\ \A k \in DOMAIN Items : /\ Items'[k].Object \in {Items[k].Object, None}
                                    /\ Items'[k].time = Items[k].time
<1>1. UNCHANGED <<ItemsProcessed, phase, it, updating, needed, served, dwTime>>
  BY DEF Unregister, steps
<1>2. CASE m_processing_now /\ internal_Unregister(A, b_RT[A])
  <2>1. phase = "rt" => ~(b_RT[A] /\ InRT(A))
    BY DEF Unregister
  <2>2. stale' = stale /\ (phase = "rt" => ItemsRT' = ItemsRT)
    BY <1>2, <2>1 DEF internal_Unregister, EraseRT
  <2>3. DOMAIN Items' = DOMAIN Items
        /\ \A k \in DOMAIN Items : /\ Items'[k].Object \in {Items[k].Object, None}
                                   /\ Items'[k].time = Items[k].time
    BY <1>1, <1>2, InternalUnregisterRemoves DEF IInv
  <2> QED
    BY <1>1, <2>2, <2>3
<1>3. CASE UNCHANGED <<ItemsRT, stale, Items, m_current_step_obj>>
  BY <1>1, <1>3
<1> QED
  BY <1>2, <1>3 DEF Unregister, UnregisterCall

\* An object the scheduler may reach while it updates is registered.
LEMMA ReachedIsRegistered ==
  ASSUME IInv, m_processing_now, NEW o \in Objects, InRT(o) \/ InItems(o) \/ m_current_step_obj = o
  PROVE  client[o] /\ ~Pending(o) /\ Held(o) /\ phase \in {"rt", "normal"}
<1>1. phase \in {"rt", "normal"} /\ Held(o)
  BY HeldMeans DEF IInv, TypeOK
<1>2. ~Pending(o)
  BY DEF IInv, Settled
<1> QED
  BY <1>1, <1>2 DEF IInv, HeldDecides

\* Calls of game code inside the loop.
LEMMA CallsKeepInLoop ==
  ASSUME IInv, SchedulerAssumption, ~EraseInRTLoop, phase = "rt", stale = <<>>, InLoop,
         NEW A \in Objects,
         Unregister(A) \/ SetDestroy(A) \/ \E RT \in BOOLEAN : Register(A, RT)
  PROVE  phase' = "rt" /\ stale' = <<>> /\ InLoop'
<1>1. /\ ItemsRT \in Seq(Objects) /\ \A k \in DOMAIN ItemsRT : ItemsRT[k] \in Objects
      /\ needed \in [Objects -> BOOLEAN] /\ m_processing_now
  <2>1. ItemsRT \in Seq(Objects) /\ needed \in [Objects -> BOOLEAN] /\ m_processing_now
    BY DEF IInv, TypeOK
  <2> QED
    BY <2>1, ElementOfSeq, LenProperties
<1>2. ASSUME UNCHANGED <<phase, stale, ItemsRT, served, it, updating>>,
             \A k \in DOMAIN ItemsRT : needed'[ItemsRT[k]] => needed[ItemsRT[k]]
      PROVE  phase' = "rt" /\ stale' = <<>> /\ InLoop'
  <2>1. \A o : InRT(o)' <=> InRT(o)
    BY <1>2, InRTMeans
  <2> QED
    BY <1>2, <2>1 DEF InLoop
<1>3. CASE Unregister(A)
  BY <1>2, <1>3, UnregisterSparesRT
<1>4. CASE SetDestroy(A)
  <2>1. \A k \in DOMAIN ItemsRT : needed'[ItemsRT[k]] => needed[ItemsRT[k]]
    BY <1>1, <1>4 DEF SetDestroy
  <2> QED
    BY <1>2, <1>4, <2>1 DEF SetDestroy, queues, steps
<1>5. ASSUME NEW RT \in BOOLEAN, Register(A, RT) PROVE phase' = "rt" /\ stale' = <<>> /\ InLoop'
  <2>1. ~InRT(A)
    BY <1>1, <1>5, ReachedIsRegistered DEF Register
  <2>2. \A k \in DOMAIN ItemsRT : needed'[ItemsRT[k]] => needed[ItemsRT[k]]
    BY <1>1, <1>5, <2>1, InRTMeans DEF Register
  <2> QED
    BY <1>2, <1>5, <2>2 DEF Register, steps
<1> QED
  BY <1>3, <1>4, <1>5

\* The steps of the loop itself.
LEMMA StepsKeepInLoop ==
  ASSUME IInv, SchedulerAssumption, phase = "rt", stale = <<>>, InLoop,
         RTSkip \/ RTUpdate \/ RTUpdateReturns
  PROVE  phase' = "rt" /\ stale' = <<>> /\ InLoop'
<1>1. /\ Memory = ItemsRT /\ it \in Nat /\ updating \in Objects \cup {None}
      /\ DOMAIN ItemsRT = 1 .. Len(ItemsRT) /\ Len(ItemsRT) \in Nat
      /\ \A k \in DOMAIN ItemsRT : ItemsRT[k] \in Objects
  BY MemoryIsItemsRT, ElementOfSeq, LenProperties DEF IInv, TypeOK
<1>2. UNCHANGED <<phase, stale, ItemsRT, needed>>
  BY DEF RTSkip, RTUpdate, RTUpdateReturns, queues, objects
<1>3. \A o : InRT(o)' <=> InRT(o)
  BY <1>2, InRTMeans
<1>4. CASE RTSkip
  <2>1. ~needed[ItemsRT[it]] /\ it' = it + 1 /\ updating = None /\ updating' = None /\ served' = served
    BY <1>1, <1>4 DEF RTSkip
  <2> QED
    BY <1>1, <1>2, <1>3, <2>1 DEF InLoop
<1>5. CASE RTUpdate
  <2>1. /\ it \in DOMAIN ItemsRT /\ updating' = ItemsRT[it] /\ served' = served \cup {ItemsRT[it]}
        /\ it' = it /\ updating = None
    BY <1>1, <1>5 DEF RTUpdate
  <2>2. updating' # None /\ InRT(ItemsRT[it])
    BY <1>1, <2>1, SchedulerAssumption, InRTMeans
  <2>3. \A o \in served' : InRT(o)'
    BY <1>3, <2>1, <2>2 DEF InLoop
  <2>4. \A k \in DOMAIN ItemsRT : ItemsRT[k] = ItemsRT[it] => k = it
    BY <2>1 DEF IInv, Distinct
  <2>5. ASSUME NEW k \in DOMAIN ItemsRT
        PROVE  /\ k < it /\ needed[ItemsRT[k]] => ItemsRT[k] \in served'
               /\ ItemsRT[k] \in served' => k <= it
    BY <1>1, <2>1, <2>4 DEF InLoop
  <2> QED
    BY <1>1, <1>2, <2>1, <2>2, <2>3, <2>5 DEF InLoop
<1>6. CASE RTUpdateReturns
  <2>1. updating # None /\ updating' = None /\ it' = it + 1 /\ served' = served
    BY <1>6 DEF RTUpdateReturns
  <2>2. it \in DOMAIN ItemsRT /\ updating = ItemsRT[it] /\ ItemsRT[it] \in served
    BY <2>1 DEF InLoop
  <2> QED
    BY <1>1, <1>2, <1>3, <2>1, <2>2 DEF InLoop
<1> QED
  BY <1>4, <1>5, <1>6

\* Every step keeps Loop.
LEMMA LoopNext ==
  ASSUME IInv, SchedulerAssumption, ~EraseInRTLoop, Loop, [Next]_vars
  PROVE  Loop'
<1>1. /\ stale = <<>> /\ served \subseteq Objects /\ None \notin served
      /\ \A k \in DOMAIN ItemsRT : ItemsRT[k] \in Objects
  <2>1. ItemsRT \in Seq(Objects) /\ served \subseteq Objects
    BY DEF IInv, TypeOK
  <2> QED
    BY <2>1, ElementOfSeq, LenProperties, SchedulerAssumption DEF Loop
<1>2. ASSUME NEW A \in Objects, Unregister(A) \/ SetDestroy(A) \/ \E RT \in BOOLEAN : Register(A, RT)
      PROVE  Loop'
  <2>1. CASE phase = "rt"
    BY <1>1, <1>2, <2>1, CallsKeepInLoop DEF Loop
  <2>2. CASE phase # "rt"
    <3>1. /\ UNCHANGED <<phase, served, stale>> /\ DOMAIN Items' = DOMAIN Items
          /\ \A k \in DOMAIN Items : Items'[k].Object \in {Items[k].Object, None}
      <4>1. CASE Unregister(A)
        BY <4>1, UnregisterSparesRT
      <4>2. CASE SetDestroy(A)
        BY <4>2 DEF SetDestroy, queues, steps
      <4>3. ASSUME NEW RT \in BOOLEAN, Register(A, RT)
            PROVE  /\ UNCHANGED <<phase, served, stale>> /\ DOMAIN Items' = DOMAIN Items
                   /\ \A k \in DOMAIN Items : Items'[k].Object \in {Items[k].Object, None}
        BY <4>3 DEF Register, steps
      <4> QED
        BY <1>2, <4>1, <4>2, <4>3
    <3> QED
      BY <1>1, <2>2, <3>1 DEF Loop
  <2> QED
    BY <2>1, <2>2
<1>3. CASE BeginUpdate
  BY <1>1, <1>3 DEF BeginUpdate, Loop, queues
<1>4. CASE RegistrationEntry
  <2>1. stale' = stale /\ phase' = phase /\ phase \in {"reg1", "reg2"} /\ served' = served
    BY <1>4 DEF RegistrationEntry, internal_Unregister, EraseRT, steps
  <2> QED
    BY <1>1, <2>1 DEF Loop
<1>5. CASE RegistrationDone
  <2>1. CASE phase = "reg1"
    <3>1. /\ served = {} /\ served' = {} /\ it' = 1 /\ phase' = "rt" /\ ItemsRT' = ItemsRT /\ stale' = stale
          /\ updating' = None
      BY <1>5, <2>1 DEF RegistrationDone, Loop, queues, IInv, Phases
    <3>2. DOMAIN ItemsRT \subseteq Nat \ {0}
      BY DEF IInv, TypeOK
    <3> QED
      BY <1>1, <3>1, <3>2 DEF Loop, InLoop
  <2>2. CASE phase = "reg2"
    BY <1>1, <1>5, <2>2 DEF RegistrationDone, Loop, queues
  <2> QED
    BY <1>5, <2>1, <2>2 DEF RegistrationDone
<1>6. CASE RTSkip \/ RTUpdate \/ RTUpdateReturns
  <2>1. phase = "rt"
    BY <1>6 DEF RTSkip, RTUpdate, RTUpdateReturns
  <2> QED
    BY <1>1, <1>6, <2>1, StepsKeepInLoop DEF Loop
<1>7. CASE RTDone
  <2>1. phase = "rt" /\ phase' = "normal" /\ stale' = <<>> /\ Items' = Items /\ served' = served
    BY <1>7 DEF RTDone
  <2>2. ASSUME NEW k \in DOMAIN Items, Items[k].Object \in served PROVE FALSE
    <3>1. PICK o \in Objects : Items[k].Object = o
      BY <1>1, <2>2
    <3>2. InRT(o) /\ InItems(o)
      BY <2>1, <2>2, <3>1 DEF Loop, InLoop, InItems
    <3> QED
      BY <3>2 DEF IInv, Distinct
  <2> QED
    BY <2>1, <2>2 DEF Loop
<1>8. CASE DropTop
  <2>1. PICK k \in Tops : Items' = RemoveAt(Items, k)
    BY <1>8 DEF DropTop
  <2>2. \A n \in DOMAIN Items' : \E m \in DOMAIN Items : m # k /\ Items'[n] = Items[m]
    BY <2>1, TopFacts, RemoveItem DEF IInv
  <2>3. phase = "normal" /\ phase' = "normal" /\ stale' = stale /\ served' = served
    BY <1>8 DEF DropTop
  <2> QED
    BY <1>1, <2>2, <2>3 DEF Loop
<1>9. CASE UpdateTop
  <2>1. PICK k \in Tops : /\ Items[k].Object # None /\ Items' = RemoveAt(Items, k)
                          /\ served' = served \cup {Items[k].Object}
    BY <1>9 DEF UpdateTop
  <2>2. k \in DOMAIN Items /\ \A n \in DOMAIN Items' : \E m \in DOMAIN Items : m # k /\ Items'[n] = Items[m]
    BY <2>1, TopFacts, RemoveItem DEF IInv
  <2>3. phase = "normal" /\ phase' = "normal" /\ stale' = stale
    BY <1>9 DEF UpdateTop
  <2>4. \A m \in DOMAIN Items : m # k => Items[m].Object # Items[k].Object
    BY <2>1, <2>2 DEF IInv, Distinct
  <2> QED
    BY <1>1, <2>1, <2>2, <2>3, <2>4 DEF Loop
<1>10. CASE UpdateTopReturns
  <2>1. phase = "normal" /\ stale' = stale /\ served' = served
    BY <1>10 DEF UpdateTopReturns
  <2>2. (phase' = "normal" /\ Items' = Items) \/ phase' = "reg2"
    BY <1>10, <2>1 DEF UpdateTopReturns, PushProcessedBack
  <2> QED
    BY <1>1, <2>1, <2>2 DEF Loop
<1>11. CASE ProcessStepDone
  BY <1>1, <1>11 DEF ProcessStepDone, PushProcessedBack, Loop
<1>12. CASE Destroy
  BY <1>1, <1>12 DEF Destroy, Loop
<1>13. CASE UNCHANGED vars
  <2>1. \A o : InRT(o)' <=> InRT(o)
    BY <1>13, InRTMeans DEF vars, queues
  <2> QED
    BY <1>13, <2>1 DEF vars, queues, steps, objects, Loop, InLoop
<1> QED
  BY <1>2, <1>3, <1>4, <1>5, <1>6, <1>7, <1>8, <1>9, <1>10, <1>11, <1>12, <1>13 DEF Next

\* What the loop has done, in every reachable state.
LEMMA LoopInvariance == ~EraseInRTLoop => (Spec => []Loop)
<1> SUFFICES ASSUME ~EraseInRTLoop PROVE Spec => []Loop
  OBVIOUS
<1>1. Init => Loop
  BY DEF Init, Loop
<1>2. IInv /\ Loop /\ [Next]_vars => Loop'
  BY LoopNext, SchedulerAssumption
<1>3. Spec => []IInv
  BY Invariance
<1> QED
  BY <1>1, <1>2, <1>3, PTL DEF Spec

\* When the realtime loop ends, every needed realtime object was updated: nobody
\* is skipped, whatever the updates register, unregister and destroy.
THEOREM RealtimeServed == ~EraseInRTLoop => (Spec => []RTAllServed)
<1> SUFFICES ASSUME ~EraseInRTLoop PROVE Spec => []RTAllServed
  OBVIOUS
<1>1. IInv /\ Loop => RTAllServed
  <2> SUFFICES ASSUME IInv, Loop, phase = "rt", it > Len(Memory), NEW o, InRT(o), needed[o]
               PROVE  o \in served
    BY DEF RTAllServed, InRT
  <2>1. Memory = ItemsRT /\ DOMAIN ItemsRT = 1 .. Len(ItemsRT) /\ it \in Nat /\ Len(ItemsRT) \in Nat
    BY MemoryIsItemsRT DEF IInv, TypeOK, Loop
  <2>2. PICK k \in DOMAIN ItemsRT : ItemsRT[k] = o
    BY InRTMeans
  <2> QED
    BY <2>1, <2>2 DEF Loop, InLoop
<1>2. Spec => []IInv
  BY Invariance
<1>3. Spec => []Loop
  BY LoopInvariance
<1> QED
  BY <1>1, <1>2, <1>3, PTL

\* Every pointer the scheduler is about to follow is that of an object which has
\* not been unregistered.
THEOREM NothingDangles == ~EraseInRTLoop => (Spec => []NeverDangling)
<1> SUFFICES ASSUME ~EraseInRTLoop PROVE Spec => []NeverDangling
  OBVIOUS
<1>1. IInv /\ Loop => NeverDangling
  <2> SUFFICES ASSUME IInv, Loop PROVE NeverDangling
    OBVIOUS
  <2>1. ASSUME phase = "normal", NEW k \in Tops PROVE Items[k].Object = None \/ client[Items[k].Object]
    <3> SUFFICES ASSUME NEW o \in Objects, Items[k].Object = o PROVE client[o]
      BY TopFacts DEF IInv
    <3>1. m_processing_now /\ InItems(o)
      BY <2>1, TopFacts DEF IInv, TypeOK, InItems
    <3> QED
      BY <3>1, ReachedIsRegistered
  <2>2. ASSUME phase = "rt", it \in DOMAIN Memory PROVE client[Memory[it]]
    <3>1. Memory = ItemsRT /\ m_processing_now /\ ItemsRT \in Seq(Objects)
      BY <2>2, MemoryIsItemsRT DEF IInv, TypeOK, Loop
    <3>2. ItemsRT[it] \in Objects /\ InRT(ItemsRT[it])
      BY <2>2, <3>1, ElementOfSeq, LenProperties, InRTMeans
    <3> QED
      BY <3>1, <3>2, ReachedIsRegistered
  <2>3. ASSUME Registration # <<>>, Head(Registration).OP, Pair(Head(Registration).Object) = 0
        PROVE  client[Head(Registration).Object]
    <3>1. Head(Registration) = Registration[1] /\ 1 \in DOMAIN Registration
      BY <2>3 DEF IInv, TypeOK
    <3>2. IsLast(1)
      BY <2>3, <3>1, NoPairIsLast DEF IInv
    <3> QED
      BY <2>3, <3>1, <3>2 DEF IInv, LastDecides
  <2> QED
    BY <2>1, <2>2, <2>3 DEF NeverDangling
<1>2. Spec => []IInv
  BY Invariance
<1>3. Spec => []Loop
  BY LoopInvariance
<1> QED
  BY <1>1, <1>2, <1>3, PTL

\* The step that starts an update starts that of an object not updated yet.
LEMMA UpdateIsFirst ==
  ASSUME IInv, Loop, SchedulerAssumption, [Next]_vars,
         NEW o \in Objects, updating = None, updating' = o
  PROVE  o \notin served /\ (RTUpdate \/ UpdateTop)
<1>1. RTUpdate \/ UpdateTop
  BY SchedulerAssumption DEF Next, vars, steps, Unregister, SetDestroy, Register, BeginUpdate,
     RegistrationEntry, RegistrationDone, RTSkip, RTUpdateReturns, RTDone, DropTop,
     UpdateTopReturns, ProcessStepDone, Destroy
<1>2. CASE RTUpdate
  <2>1. phase = "rt" /\ it \in DOMAIN ItemsRT /\ ItemsRT[it] = o /\ it \in Nat
    BY <1>2, MemoryIsItemsRT DEF RTUpdate, IInv, TypeOK, Loop
  <2> QED
    BY <1>1, <2>1 DEF Loop, InLoop
<1>3. CASE UpdateTop
  <2>1. PICK k \in Tops : phase = "normal" /\ Items[k].Object = o
    BY <1>3 DEF UpdateTop
  <2> QED
    BY <1>1, <2>1, TopFacts DEF IInv, Loop
<1> QED
  BY <1>1, <1>2, <1>3

\* No object is updated twice in a frame.
THEOREM UpdatedOncePerFrame == ~EraseInRTLoop => (Spec => OncePerFrame)
<1> SUFFICES ASSUME ~EraseInRTLoop PROVE Spec => OncePerFrame
  OBVIOUS
<1>1. IInv /\ Loop /\ [Next]_vars =>
         [\A o \in Objects : updating = None /\ updating' = o => o \notin served]_vars
  BY UpdateIsFirst, SchedulerAssumption
<1>2. Spec => []IInv
  BY Invariance
<1>3. Spec => []Loop
  BY LoopInvariance
<1> QED
  BY <1>1, <1>2, <1>3, PTL DEF Spec, OncePerFrame

-----------------------------------------------------------------------------
(* The containers implement the registry.                                  *)

\* The registry only shows who is registered, whose update runs, and who has
\* been updated.
LEMMA SameRegistry ==
  ASSUME IInv, IInv', SameRegistered
  PROVE  {o \in Objects : Registered(o)}' = {o \in Objects : Registered(o)}
<1>1. \A o \in Objects : Registered(o)' <=> Registered(o)
  BY RegisteredMeans, RegisteredMeansNext DEF RegisteredIsThat, SameRegistered
<1> QED
  BY <1>1

\* Register adds the object, and it was not registered.
LEMMA RegisterRegisters ==
  ASSUME IInv, IInv', SchedulerAssumption, NEW A \in Objects, NEW RT \in BOOLEAN, Register(A, RT)
  PROVE  Registry!Register(A)
<1>1. phase # "destroyed" /\ ~client[A] /\ UNCHANGED <<updating, served>>
  BY DEF Register, Call, GameRuns, IInv, Phases, steps
<1>2. ~Registered(A)
  BY <1>1, RegisteredAgrees
<1>3. \A o \in Objects : Registered(o)' <=> Registered(o) \/ o = A
  BY RegisterKeeps, RegisteredMeans, RegisteredMeansNext DEF RegisteredIsThat
<1> QED
  BY <1>1, <1>2, <1>3 DEF Registry!Register

\* Unregister removes it, at once or by a deferred call.
LEMMA UnregisterUnregisters ==
  ASSUME IInv, IInv', SchedulerAssumption, NEW A \in Objects, Unregister(A)
  PROVE  Registry!Unregister(A)
<1>1. \A o \in Objects : Registered(o)' <=> Registered(o) /\ o # A
  BY UnregisterKeeps, RegisteredMeans, RegisteredMeansNext DEF RegisteredIsThat
<1> QED
  BY <1>1 DEF Registry!Unregister, Unregister, steps

\* An entry that leaves the heap unregisters its object, if it still has one.
LEMMA DropTopUnregisters ==
  ASSUME IInv, IInv', SchedulerAssumption, DropTop
  PROVE  [Registry!Next]_<<{o \in Objects : Registered(o)}, updating, served>>
<1>1. PICK A : \A o \in Objects : IsRegistered(o)' <=> IsRegistered(o) /\ o # A
  BY DropTopKeeps
<1>2. \A o \in Objects : Registered(o)' <=> Registered(o) /\ o # A
  BY <1>1, RegisteredMeans, RegisteredMeansNext DEF RegisteredIsThat
<1>3. UNCHANGED <<updating, served>>
  BY DEF DropTop
<1>4. CASE A \in Objects
  BY <1>2, <1>3, <1>4 DEF Registry!Next, Registry!Unregister
<1>5. CASE A \notin Objects
  BY <1>2, <1>3, <1>5
<1> QED
  BY <1>4, <1>5

\* The start of an update is that of a registered object, not updated yet.
LEMMA UpdateUpdates ==
  ASSUME IInv, IInv', Loop, SchedulerAssumption, [Next]_vars, RTUpdate \/ UpdateTop, SameRegistered
  PROVE  \E o \in Objects : Registry!Update(o)
<1>1. PICK o \in Objects : /\ updating = None /\ updating' = o /\ served' = served \cup {o}
                           /\ m_processing_now /\ phase # "destroyed"
                           /\ InRT(o) \/ InItems(o)
  <2>1. CASE RTUpdate
    <3>1. Memory = ItemsRT /\ ItemsRT \in Seq(Objects) /\ m_processing_now
      BY <2>1, MemoryIsItemsRT DEF RTUpdate, IInv, TypeOK, Loop
    <3>2. ItemsRT[it] \in Objects /\ InRT(ItemsRT[it])
      BY <2>1, <3>1, ElementOfSeq, LenProperties, InRTMeans DEF RTUpdate
    <3> QED
      BY <2>1, <3>1, <3>2 DEF RTUpdate
  <2>2. CASE UpdateTop
    <3>1. PICK k \in Tops : /\ Items[k].Object # None /\ updating' = Items[k].Object
                            /\ served' = served \cup {Items[k].Object}
      BY <2>2 DEF UpdateTop
    <3>2. Items[k].Object \in Objects /\ InItems(Items[k].Object) /\ m_processing_now
      BY <2>2, <3>1, TopFacts DEF InItems, UpdateTop, IInv, TypeOK
    <3> QED
      BY <2>2, <3>1, <3>2 DEF UpdateTop
  <2> QED
    BY <2>1, <2>2
<1>2. Registered(o)
  BY <1>1, ReachedIsRegistered, RegisteredAgrees
<1>3. o \notin served
  BY <1>1, UpdateIsFirst
<1> QED
  BY <1>1, <1>2, <1>3, SameRegistry DEF Registry!Update

\* A step of the scheduler is one of the registry, or none.
LEMMA StepSimulates ==
  ASSUME IInv, IInv', Loop, [Next]_vars
  PROVE  [Registry!Next]_<<{o \in Objects : Registered(o)}, updating, served>>
<1> USE SchedulerAssumption
<1> DEFINE same == {o \in Objects : Registered(o)}' = {o \in Objects : Registered(o)}
<1>1. ASSUME NEW A \in Objects, NEW RT \in BOOLEAN, Register(A, RT) PROVE Registry!Next
  BY <1>1, RegisterRegisters DEF Registry!Next
<1>2. ASSUME NEW A \in Objects, Unregister(A) PROVE Registry!Next
  BY <1>2, UnregisterUnregisters DEF Registry!Next
<1>3. ASSUME NEW A \in Objects, SetDestroy(A) PROVE same /\ UNCHANGED <<updating, served>>
  BY <1>3, SetDestroyKeeps, SameRegistry DEF SetDestroy, steps
<1>4. CASE BeginUpdate
  <2>1. updating = None /\ UNCHANGED updating /\ served' = {}
    BY <1>4 DEF BeginUpdate, IInv, Phases
  <2> QED
    BY <1>4, <2>1, BeginUpdateKeeps, SameRegistry DEF Registry!Next, Registry!BeginFrame
<1>5. CASE RegistrationEntry \/ RegistrationDone
  <2>1. UNCHANGED <<updating, served>>
    BY <1>5 DEF RegistrationEntry, RegistrationDone, steps
  <2> QED
    BY <1>5, <2>1, RegistrationEntryKeeps, RegistrationDoneKeeps, SameRegistry
<1>6. CASE RTSkip \/ RTDone
  <2>1. UNCHANGED <<updating, served>>
    BY <1>6 DEF RTSkip, RTDone
  <2> QED
    BY <1>6, <2>1, LoopKeeps, SameRegistry
<1>7. CASE RTUpdate \/ UpdateTop
  <2>1. SameRegistered
    BY <1>7, LoopKeeps, UpdateTopPreservesInv
  <2> QED
    BY <1>7, <2>1, UpdateUpdates DEF Registry!Next
<1>8. CASE RTUpdateReturns \/ UpdateTopReturns
  <2>1. updating # None /\ updating' = None /\ served' = served
    BY <1>8 DEF RTUpdateReturns, UpdateTopReturns
  <2>2. SameRegistered
    BY <1>8, LoopKeeps, UpdateTopReturnsKeeps
  <2> QED
    BY <2>1, <2>2, SameRegistry DEF Registry!Next, Registry!Return
<1>9. CASE DropTop
  BY <1>9, DropTopUnregisters
<1>10. CASE ProcessStepDone
  <2>1. UNCHANGED <<updating, served>>
    BY <1>10 DEF ProcessStepDone
  <2> QED
    BY <1>10, <2>1, ProcessStepDoneKeeps, SameRegistry
<1>11. CASE Destroy
  <2>1. updating = None /\ UNCHANGED <<updating, served>>
    BY <1>11 DEF Destroy, IInv, Phases
  <2>2. \A o \in Objects : ~Registered(o)'
    BY <1>11, DestroyKeeps, RegisteredMeansNext DEF RegisteredIsThat
  <2> QED
    BY <2>1, <2>2 DEF Registry!Next, Registry!Destroy
<1>12. CASE UNCHANGED vars
  <2>1. SameRegistered /\ UNCHANGED <<updating, served>>
    <3>1. \A o : Held(o)' <=> Held(o)
      BY <1>12, SameContainers DEF vars, queues
    <3> QED
      BY <1>12, <3>1 DEF vars, queues, steps, objects, SameRegistered, IsRegistered, Pending
  <2> QED
    BY <2>1, SameRegistry
<1> QED
  BY <1>1, <1>2, <1>3, <1>4, <1>5, <1>6, <1>7, <1>8, <1>9, <1>10, <1>11, <1>12 DEF Next

\* CSheduler keeps the promise of its interface over all five containers: only a
\* registered object is updated, one at a time, at most once per frame.
THEOREM RegistryRefinement == ~EraseInRTLoop => (Spec => ImplementsRegistry)
<1> SUFFICES ASSUME ~EraseInRTLoop PROVE Spec => ImplementsRegistry
  OBVIOUS
<1>1. Init => Registry!Init
  <2> SUFFICES ASSUME Init PROVE Registry!Init
    OBVIOUS
  <2>1. \A o \in Objects : ~Registered(o)
    <3>1. IInv /\ phase # "destroyed" /\ \A o \in Objects : ~client[o]
      BY InitHolds, SchedulerAssumption DEF Init
    <3> QED
      BY <3>1, RegisteredAgrees
  <2> QED
    BY <2>1 DEF Init, Registry!Init
<1>2. IInv /\ IInv' /\ Loop /\ [Next]_vars =>
         [Registry!Next]_<<{o \in Objects : Registered(o)}, updating, served>>
  BY StepSimulates
<1>3. Spec => []IInv
  BY Invariance
<1>4. Spec => []Loop
  BY LoopInvariance
<1> QED
  BY <1>1, <1>2, <1>3, <1>4, PTL DEF Spec, ImplementsRegistry, Registry!Spec, Registry!vars

-----------------------------------------------------------------------------
(* Nobody is starved.                                                      *)

\* Passed(t) is a finite set, and it does not have an object whose entry is due
\* at t.
LEMMA PassedCounts ==
  ASSUME SchedulerAssumption, NEW t \in Nat
  PROVE  /\ IsFiniteSet(Passed(t)) /\ Cardinality(Passed(t)) \in Nat
         /\ \A o \in Objects : At(o, t) => Cardinality(Passed(t)) < Cardinality(Objects)
<1>1. Passed(t) \subseteq Objects /\ IsFiniteSet(Objects)
  BY SchedulerAssumption DEF Passed
<1>2. IsFiniteSet(Passed(t)) /\ Cardinality(Passed(t)) \in Nat /\ Cardinality(Objects) \in Nat
  BY <1>1, FS_Subset, FS_CardinalityType
<1>3. ASSUME NEW o \in Objects, At(o, t) PROVE Cardinality(Passed(t)) < Cardinality(Objects)
  <2>1. o \notin Passed(t)
    BY <1>3 DEF Passed
  <2>2. Passed(t) # Objects
    BY <2>1
  <2> QED
    BY <1>1, <1>2, <2>2, FS_Subset
<1> QED
  BY <1>2, <1>3

\* If no entry that is due at t appears, nobody leaves Passed(t).
LEMMA PassedGrows ==
  ASSUME SchedulerAssumption, NEW t \in Nat,
         \A p \in Objects, s \in Nat :
            At(p, s)' \/ Aside(p, s)' => s > t \/ At(p, s) \/ Aside(p, s)
  PROVE  Passed(t) \subseteq Passed(t)' /\ Cardinality(Passed(t)) <= Cardinality(Passed(t)')
<1>1. Passed(t) \subseteq Passed(t)' /\ Passed(t)' \subseteq Objects
  BY DEF Passed
<1>2. IsFiniteSet(Passed(t)')
  BY <1>1, SchedulerAssumption, FS_Subset
<1> QED
  BY <1>1, <1>2, FS_Subset

\* An object has one entry.
LEMMA OneEntry ==
  ASSUME IInv, NEW o \in Objects, NEW t \in Nat, At(o, t)
  PROVE  /\ InItems(o) /\ (Due(o) <=> t < dwTime)
         /\ \A s \in Nat : At(o, s) => s = t
<1>1. PICK k \in DOMAIN Items : Items[k].Object = o /\ Items[k].time = t
  BY DEF At
<1>2. \A m \in DOMAIN Items : Items[m].Object = o => m = k
  BY <1>1, SchedulerAssumption DEF IInv, Distinct
<1> QED
  BY <1>1, <1>2 DEF At, InItems, Due

\* A step keeps the waiting fair when the entries it brings are those of objects
\* which do not wait, and lets an object wait longer only after it updated one
\* of those before it.
LEMMA WaitingKept ==
  ASSUME IInv, SchedulerAssumption, Waiting, waited' \in [Objects -> Nat], dwTime' \in Nat, dwTime' >= dwTime,
         m_current_step_obj' = None \/ UNCHANGED <<m_current_step_obj, dwTime>>,
         \A o \in Objects :
            \/ waited'[o] \in {waited[o], 0}
            \/ /\ waited'[o] = waited[o] + 1 /\ Due(o)
               /\ m_current_step_obj # None /\ m_current_step_obj' = None,
         \A o \in Objects, t \in Nat : At(o, t)' =>
            \/ At(o, t)
            \/ waited'[o] = 0 /\ (t >= dwTime \/ (Aside(o, t) /\ m_current_step_obj' = None)),
         \A o \in Objects, t \in Nat : Aside(o, t)' => Aside(o, t) \/ t >= dwTime,
         \A o \in Objects : InProcessed(o)' \/ m_current_step_obj' = o => waited'[o] = 0,
         \A k \in DOMAIN Registration' : Registration'[k].OP => waited'[Registration'[k].Object] = 0
  PROVE  Waiting'
<1>1. /\ waited \in [Objects -> Nat] /\ dwTime \in Nat /\ Cardinality(Objects) \in Nat
      /\ None \notin Objects
  BY SchedulerAssumption, FS_CardinalityType DEF IInv, TypeOK
<1>2. ASSUME NEW t \in Nat, t < dwTime
      PROVE  Cardinality(Passed(t)) <= Cardinality(Passed(t)')
  <2>1. \A p \in Objects, s \in Nat :
           At(p, s)' \/ Aside(p, s)' => s > t \/ At(p, s) \/ Aside(p, s)
    BY <1>1, <1>2
  <2> QED
    BY <2>1, PassedGrows
<1>3. \A t \in Nat : Cardinality(Passed(t)) \in Nat /\ Cardinality(Passed(t)') \in Nat
  <2> SUFFICES ASSUME NEW t \in Nat
               PROVE  Cardinality(Passed(t)) \in Nat /\ Cardinality(Passed(t)') \in Nat
    OBVIOUS
  <2>1. Passed(t) \subseteq Objects /\ Passed(t)' \subseteq Objects
    BY DEF Passed
  <2> QED
    BY <2>1, SchedulerAssumption, FS_Subset, FS_CardinalityType
<1>4. ASSUME NEW o \in Objects PROVE waited'[o] < Cardinality(Objects)
  <2>1. waited[o] < Cardinality(Objects)
    BY DEF Waiting, NoStarvation
  <2>2. CASE waited'[o] \in {waited[o], 0}
    BY <1>1, <2>1, <2>2
  <2>3. CASE waited'[o] = waited[o] + 1 /\ Due(o) /\ m_current_step_obj # None
    <3>1. PICK t \in Nat : At(o, t) /\ t < dwTime
      <4>1. \A k \in DOMAIN Items : Items[k].time \in Nat
        <5>1. \A k \in DOMAIN Items : Items[k] \in Entry
          BY ElementOfSeq, LenProperties DEF IInv, TypeOK
        <5> QED
          BY <5>1 DEF Entry
      <4> QED
        BY <2>3, <4>1 DEF Due, At
    <3>2. waited[o] + 1 <= Cardinality(Passed(t))
      BY <2>3, <3>1 DEF Waiting
    <3>3. Cardinality(Passed(t)) < Cardinality(Objects)
      BY <3>1, PassedCounts
    <3> QED
      BY <1>1, <1>3, <2>3, <3>2, <3>3
  <2> QED
    BY <2>2, <2>3
<1>5. ASSUME NEW o \in Objects, NEW t \in Nat, At(o, t)'
      PROVE  /\ waited'[o] <= Cardinality(Passed(t)')
             /\ waited'[o] > 0 => t < dwTime'
             /\ m_current_step_obj' # None /\ t < dwTime' => waited'[o] + 1 <= Cardinality(Passed(t)')
  <2>1. CASE waited'[o] = 0 /\ (t >= dwTime \/ m_current_step_obj' = None)
    BY <1>1, <1>3, <2>1
  <2>2. CASE At(o, t) /\ t >= dwTime
    <3>1. waited[o] = 0 /\ ~Due(o)
      BY <1>1, <2>2, OneEntry DEF Waiting
    <3> QED
      BY <1>1, <1>3, <2>2, <3>1
  <2>3. CASE At(o, t) /\ t < dwTime
    <3>1. /\ waited[o] <= Cardinality(Passed(t)) /\ Cardinality(Passed(t)) <= Cardinality(Passed(t)')
          /\ m_current_step_obj # None => waited[o] + 1 <= Cardinality(Passed(t))
      BY <1>2, <2>3 DEF Waiting
    <3> QED
      BY <1>1, <1>3, <2>3, <3>1
  <2> QED
    BY <1>1, <1>5, <2>1, <2>2, <2>3
<1> QED
  BY <1>4, <1>5 DEF Waiting, NoStarvation

\* UpdateTop: the entry that goes is before all others, so that one more object
\* is passed over from their point of view.
LEMMA UpdateTopKeepsWaiting ==
  ASSUME IInv, SchedulerAssumption, Waiting, UpdateTop
  PROVE  Waiting'
<1>1. PICK k \in Tops : /\ Items[k].Object # None
                        /\ Items' = RemoveAt(Items, k)
                        /\ m_current_step_obj' = Items[k].Object
                        /\ waited' = [waited EXCEPT ![Items[k].Object] = 0]
  BY DEF UpdateTop
<1>2. PICK A \in Objects : Items[k].Object = A
  BY <1>1, TopFacts DEF IInv
<1>3. PICK time \in Nat : Items[k].time = time
  BY TopFacts DEF IInv
<1>4. /\ k \in DOMAIN Items /\ At(A, time)
      /\ \A n \in DOMAIN Items' : \E m \in DOMAIN Items : m # k /\ Items'[n] = Items[m]
      /\ \A m \in DOMAIN Items : m # k => Items[m].Object # A
      /\ \A m \in DOMAIN Items : time <= Items[m].time
  BY <1>1, <1>2, <1>3, TopFacts, RemoveItem DEF IInv, At, Distinct
<1>5. /\ \A o \in Objects, t \in Nat : At(o, t)' => At(o, t) /\ o # A /\ time <= t
      /\ \A o \in Objects, t \in Nat : Aside(o, t)' <=> Aside(o, t)
      /\ \A o \in Objects : InProcessed(o)' <=> InProcessed(o)
      /\ UNCHANGED <<Registration, dwTime>>
  BY <1>4 DEF UpdateTop, At, Aside, InProcessed
<1>6. ~InProcessed(A) /\ \A t \in Nat : ~Aside(A, t)
  BY <1>2, <1>4 DEF IInv, Distinct, InItems, InProcessed, Aside
<1>7. /\ waited \in [Objects -> Nat] /\ dwTime \in Nat /\ Cardinality(Objects) \in Nat
      /\ waited'[A] = 0 /\ \A o \in Objects : waited'[o] \in {waited[o], 0}
      /\ m_current_step_obj' = A
  BY <1>1, <1>2, SchedulerAssumption, FS_CardinalityType DEF IInv, TypeOK
<1>8. ASSUME NEW o \in Objects, NEW t \in Nat, At(o, t)'
      PROVE  waited'[o] + 1 <= Cardinality(Passed(t)') /\ (waited'[o] > 0 => t < dwTime)
  <2>1. At(o, t) /\ time <= t
    BY <1>5, <1>8
  <2>2. waited[o] <= Cardinality(Passed(t)) /\ (waited[o] > 0 => t < dwTime)
    BY <2>1 DEF Waiting
  <2>3. A \notin Passed(t)
    BY <1>4, <2>1 DEF Passed
  <2>4. Passed(t) \cup {A} \subseteq Passed(t)' /\ Passed(t)' \subseteq Objects /\ IsFiniteSet(Objects)
    BY <1>5, <1>6, SchedulerAssumption DEF Passed
  <2>5. /\ IsFiniteSet(Passed(t)') /\ IsFiniteSet(Passed(t)) /\ Cardinality(Passed(t)) \in Nat
        /\ Cardinality(Passed(t)') \in Nat
    BY <2>4, PassedCounts, FS_Subset, FS_CardinalityType
  <2>6. Cardinality(Passed(t)) + 1 <= Cardinality(Passed(t)')
    BY <2>3, <2>4, <2>5, FS_AddElement, FS_Subset
  <2> QED
    BY <1>7, <2>2, <2>5, <2>6
<1>9. \A o \in Objects, t \in Nat : At(o, t)' =>
          /\ waited'[o] <= Cardinality(Passed(t)')
          /\ waited'[o] > 0 => t < dwTime'
          /\ m_current_step_obj' # None /\ t < dwTime' => waited'[o] + 1 <= Cardinality(Passed(t)')
  <2> SUFFICES ASSUME NEW o \in Objects, NEW t \in Nat, At(o, t)'
               PROVE  /\ waited'[o] <= Cardinality(Passed(t)')
                      /\ waited'[o] > 0 => t < dwTime
                      /\ waited'[o] + 1 <= Cardinality(Passed(t)')
    BY <1>5
  <2>1. Cardinality(Passed(t)') \in Nat
    <3>1. Passed(t)' \subseteq Objects
      BY DEF Passed
    <3> QED
      BY <3>1, SchedulerAssumption, FS_Subset, FS_CardinalityType
  <2> QED
    BY <1>7, <1>8, <2>1
<1>10. NoStarvation'
  BY <1>7 DEF Waiting, NoStarvation
<1>11. \A o \in Objects : InProcessed(o)' \/ m_current_step_obj' = o => waited'[o] = 0
  BY <1>5, <1>7 DEF Waiting
<1>12. \A n \in DOMAIN Registration' : Registration'[n].OP => waited'[Registration'[n].Object] = 0
  <2>1. \A n \in DOMAIN Registration : Registration[n].Object \in Objects
    <3>1. \A n \in DOMAIN Registration : Registration[n] \in ItemReg
      BY ElementOfSeq, LenProperties DEF IInv, TypeOK
    <3> QED
      BY <3>1 DEF ItemReg
  <2> QED
    BY <1>5, <1>7, <2>1 DEF Waiting
<1> QED
  BY <1>9, <1>10, <1>11, <1>12 DEF Waiting

\* The deferred calls of a type-correct state are of objects.
LEMMA CallOfObject ==
  ASSUME IInv, NEW k \in DOMAIN Registration
  PROVE  Registration[k].Object \in Objects
<1>1. Registration[k] \in ItemReg
  BY ElementOfSeq, LenProperties DEF IInv, TypeOK
<1> QED
  BY <1>1 DEF ItemReg

\* Calls of game code only let entries go, and stop the waiting of the object.
LEMMA CallsKeepWaiting ==
  ASSUME IInv, IInv', SchedulerAssumption, Waiting, NEW A \in Objects,
         Unregister(A) \/ SetDestroy(A) \/ \E RT \in BOOLEAN : Register(A, RT)
  PROVE  Waiting'
<1>1. /\ waited \in [Objects -> Nat] /\ waited' \in [Objects -> Nat] /\ dwTime \in Nat
      /\ UNCHANGED <<dwTime, ItemsProcessed>>
      /\ m_current_step_obj' \in {m_current_step_obj, None}
  <2>1. UNCHANGED <<dwTime, ItemsProcessed>>
    BY DEF Unregister, SetDestroy, Register, steps, queues
  <2>2. m_current_step_obj' \in {m_current_step_obj, None}
    BY DEF Unregister, UnregisterCall, internal_Unregister, SetDestroy, Register
  <2>3. waited' \in [Objects -> Nat]
    BY DEF IInv, TypeOK
  <2>4. waited \in [Objects -> Nat] /\ dwTime \in Nat
    BY SchedulerAssumption DEF IInv, TypeOK
  <2> QED
    BY <2>1, <2>2, <2>3, <2>4
<1>2. \A o \in Objects : /\ waited'[o] \in {waited[o], 0}
                         /\ o # A => waited'[o] = waited[o]
                         /\ Unregister(A) \/ (\E RT \in BOOLEAN : Register(A, RT)) => waited'[A] = 0
  BY <1>1 DEF Unregister, SetDestroy, Register
<1>3. \A o \in Objects, t \in Nat : At(o, t)' => At(o, t)
  <2>1. CASE Unregister(A) /\ internal_Unregister(A, b_RT[A])
    <3>1. /\ DOMAIN Items' = DOMAIN Items
          /\ \A k \in DOMAIN Items : /\ Items'[k].time = Items[k].time
                                     /\ Items'[k].Object \in {Items[k].Object, None}
      BY <1>1, <2>1, InternalUnregisterRemoves DEF IInv
    <3> QED
      BY <3>1, SchedulerAssumption DEF At
  <2>2. CASE Items' = Items
    BY <2>2 DEF At
  <2> QED
    BY <2>1, <2>2 DEF Unregister, UnregisterCall, SetDestroy, Register, queues
<1>4. /\ \A o \in Objects, t \in Nat : Aside(o, t)' <=> Aside(o, t)
      /\ \A o \in Objects : InProcessed(o)' <=> InProcessed(o)
  BY <1>1 DEF Aside, InProcessed
<1>5. \A o \in Objects : InProcessed(o)' \/ m_current_step_obj' = o => waited'[o] = 0
  <2>1. \A o \in Objects : InProcessed(o) \/ m_current_step_obj = o => waited[o] = 0
    BY DEF Waiting
  <2>2. \A o \in Objects : m_current_step_obj' = o => m_current_step_obj = o
    BY <1>1, SchedulerAssumption
  <2> QED
    BY <1>2, <1>4, <2>1, <2>2
<1>6. ASSUME NEW k \in DOMAIN Registration', Registration'[k].OP
      PROVE  waited'[Registration'[k].Object] = 0
  <2>1. \A n \in DOMAIN Registration : Registration[n].OP => waited'[Registration[n].Object] = 0
    BY <1>2, CallOfObject DEF Waiting
  <2>2. CASE Registration' = Registration
    BY <1>6, <2>1, <2>2
  <2>3. ASSUME NEW R \in ItemReg, R.Object = A, waited'[A] = 0 \/ ~R.OP, Registration' = Append(Registration, R)
        PROVE  waited'[Registration'[k].Object] = 0
    BY <1>6, <2>1, <2>3, AppendCall DEF IInv
  <2>4. ASSUME NEW RT \in BOOLEAN, Register(A, RT)
        PROVE  waited'[Registration'[k].Object] = 0
    BY <1>2, <2>3, <2>4 DEF Register, ItemReg
  <2>5. CASE Unregister(A)
    <3>1. [OP |-> FALSE, RT |-> b_RT[A], Object |-> A] \in ItemReg
      BY DEF IInv, TypeOK, ItemReg
    <3> QED
      BY <2>2, <2>3, <2>5, <3>1 DEF Unregister, UnregisterCall
  <2>6. CASE SetDestroy(A)
    BY <2>2, <2>6 DEF SetDestroy, queues
  <2> QED
    BY <2>4, <2>5, <2>6
<1>7. m_current_step_obj' = None \/ UNCHANGED <<m_current_step_obj, dwTime>>
  BY <1>1
<1> QED
  BY <1>1, <1>2, <1>3, <1>4, <1>5, <1>6, <1>7, WaitingKept

\* The steps that change neither the heap nor who waits.
LEMMA SameWaiting ==
  ASSUME IInv, SchedulerAssumption, Waiting,
         UNCHANGED <<Items, ItemsProcessed, Registration, waited>>, dwTime' \in Nat, dwTime' >= dwTime,
         m_current_step_obj' = None \/ UNCHANGED <<m_current_step_obj, dwTime>>
  PROVE  Waiting'
<1>1. waited' \in [Objects -> Nat] /\ dwTime \in Nat
  BY SchedulerAssumption DEF IInv, TypeOK
<1>2. /\ \A o \in Objects, t \in Nat : At(o, t)' <=> At(o, t)
      /\ \A o \in Objects, t \in Nat : Aside(o, t)' <=> Aside(o, t)
  BY DEF At, Aside
<1>3. \A o \in Objects : InProcessed(o)' \/ m_current_step_obj' = o => waited'[o] = 0
  BY SchedulerAssumption DEF InProcessed, Waiting
<1>4. \A k \in DOMAIN Registration' : Registration'[k].OP => waited'[Registration'[k].Object] = 0
  BY DEF Waiting
<1> QED
  BY <1>1, <1>2, <1>3, <1>4, WaitingKept

\* internal_Registration adds entries of objects that do not wait.
LEMMA RegistrationEntryKeepsWaiting ==
  ASSUME IInv, SchedulerAssumption, Waiting, RegistrationEntry
  PROVE  Waiting'
<1>1. PICK A \in Objects : Registration[1].Object = A
  BY EntryFacts
<1>2. PICK RT \in BOOLEAN : Registration[1].RT = RT
  BY EntryFacts
<1>3. /\ waited \in [Objects -> Nat] /\ dwTime \in Nat
      /\ UNCHANGED <<dwTime, waited, ItemsProcessed>>
      /\ m_current_step_obj = None /\ ItemsProcessed = <<>>
  BY EntryFacts, SchedulerAssumption DEF RegistrationEntry, steps, IInv, TypeOK
<1>4. /\ m_current_step_obj' = None
      /\ \A o \in Objects, t \in Nat : At(o, t)' => At(o, t) \/ (waited[o] = 0 /\ t >= dwTime)
  <2>1. CASE UNCHANGED <<Items, m_current_step_obj>>
    BY <1>3, <2>1 DEF At
  <2>2. CASE internal_Unregister(A, RT)
    <3>1. /\ DOMAIN Items' = DOMAIN Items
          /\ \A k \in DOMAIN Items : /\ Items'[k].time = Items[k].time
                                     /\ Items'[k].Object \in {Items[k].Object, None}
          /\ m_current_step_obj' = None
      BY <1>3, <2>2, InternalUnregisterRemoves DEF IInv
    <3> QED
      BY <3>1, SchedulerAssumption DEF At
  <2>3. CASE /\ Items' = Append(Items, [Object |-> A, time |-> dwTime])
             /\ Registration[1].OP /\ UNCHANGED m_current_step_obj
    <3>1. waited[A] = 0
      BY <1>1, <2>3, EntryFacts DEF Waiting
    <3>2. /\ Items \in Seq(Entry) /\ DOMAIN Items = 1 .. Len(Items) /\ Len(Items) \in Nat
          /\ DOMAIN Items' = 1 .. Len(Items) + 1
          /\ Items'[Len(Items) + 1] = [Object |-> A, time |-> dwTime]
          /\ \A k \in DOMAIN Items : Items'[k] = Items[k]
      <4>1. Items \in Seq(Entry) /\ [Object |-> A, time |-> dwTime] \in Entry
        BY <1>3 DEF IInv, TypeOK, Entry
      <4> QED
        BY <2>3, <4>1
    <3>3. \A k \in DOMAIN Items' : k \in DOMAIN Items \/ k = Len(Items) + 1
      BY <3>2
    <3> QED
      BY <1>3, <2>3, <3>1, <3>2, <3>3 DEF At
  <2> QED
    BY <1>1, <1>2, <2>1, <2>2, <2>3, EntryFacts DEF RegistrationEntry, internal_Register
<1>5. Taken(A)
  <2>1. Registration' = Tail(Registration) \/ (Registration[1].OP /\ Pair(A) # 0
           /\ Registration' = RemoveAt(Tail(Registration), Pair(A)))
    BY <1>1, EntryFacts DEF RegistrationEntry
  <2> QED
    BY <1>1, <2>1, TailTakes, PairTakes DEF IInv, RegistrationEntry
<1>6. \A k \in DOMAIN Registration' : Registration'[k].OP => waited'[Registration'[k].Object] = 0
  BY <1>3, <1>5 DEF Taken, Waiting
<1>7. /\ \A o \in Objects, t \in Nat : Aside(o, t)' <=> Aside(o, t)
      /\ \A o \in Objects : InProcessed(o)' \/ m_current_step_obj' = o => waited'[o] = 0
  BY <1>3, <1>4, SchedulerAssumption DEF Aside, InProcessed
<1> QED
  BY <1>3, <1>4, <1>6, <1>7, WaitingKept

\* An entry that leaves the heap.
LEMMA DropTopKeepsWaiting ==
  ASSUME IInv, SchedulerAssumption, Waiting, DropTop
  PROVE  Waiting'
<1>1. PICK k \in Tops : Items' = RemoveAt(Items, k)
  BY DEF DropTop
<1>2. \A n \in DOMAIN Items' : \E m \in DOMAIN Items : m # k /\ Items'[n] = Items[m]
  BY <1>1, TopFacts, RemoveItem DEF IInv
<1>3. /\ waited \in [Objects -> Nat] /\ dwTime \in Nat
      /\ UNCHANGED <<dwTime, waited, ItemsProcessed, Registration, m_current_step_obj>>
  BY SchedulerAssumption DEF DropTop, IInv, TypeOK
<1>4. /\ \A o \in Objects, t \in Nat : At(o, t)' => At(o, t)
      /\ \A o \in Objects, t \in Nat : Aside(o, t)' <=> Aside(o, t)
  BY <1>2, <1>3 DEF At, Aside
<1>5. \A o \in Objects : InProcessed(o)' \/ m_current_step_obj' = o => waited'[o] = 0
  BY <1>3 DEF InProcessed, Waiting
<1>6. \A n \in DOMAIN Registration' : Registration'[n].OP => waited'[Registration'[n].Object] = 0
  BY <1>3 DEF Waiting
<1> QED
  BY <1>3, <1>4, <1>5, <1>6, WaitingKept

\* The object is put aside.
LEMMA SetAsideKeepsWaiting ==
  ASSUME IInv, SchedulerAssumption, Waiting, UpdateTopReturns, m_current_step_obj # None, NEW d \in Periods,
         ItemsProcessed' = Processed(d), UNCHANGED <<Items, waited>>
  PROVE  Waiting'
<1>1. /\ waited \in [Objects -> Nat] /\ dwTime \in Nat /\ d \in Nat
      /\ UNCHANGED <<dwTime, Registration>> /\ m_current_step_obj' = None
  BY SchedulerAssumption DEF UpdateTopReturns, IInv, TypeOK
<1>2. /\ updating = m_current_step_obj
      /\ \A n \in DOMAIN ItemsProcessed : Processed(d)[n] = ItemsProcessed[n]
      /\ \A n \in DOMAIN Processed(d) : n \notin DOMAIN ItemsProcessed =>
            Processed(d)[n].Object = updating /\ Processed(d)[n].time = dwTime + d
      /\ \A o \in Objects : (\E n \in DOMAIN Processed(d) : Processed(d)[n].Object = o)
                            <=> InProcessed(o) \/ m_current_step_obj = o
  BY ProcessedFacts
<1>3. \A o \in Objects, t \in Nat : At(o, t)' <=> At(o, t)
  BY DEF At
<1>4. ASSUME NEW o \in Objects, NEW t \in Nat, Aside(o, t)' PROVE Aside(o, t) \/ t >= dwTime
  <2>1. PICK n \in DOMAIN Processed(d) : Processed(d)[n].Object = o /\ Processed(d)[n].time = t
    BY <1>4 DEF Aside
  <2>2. CASE n \in DOMAIN ItemsProcessed
    BY <1>2, <2>1, <2>2 DEF Aside
  <2>3. CASE n \notin DOMAIN ItemsProcessed
    BY <1>1, <1>2, <2>1, <2>3
  <2> QED
    BY <2>2, <2>3
<1>5. \A o \in Objects : InProcessed(o)' \/ m_current_step_obj' = o => waited'[o] = 0
  BY <1>1, <1>2, SchedulerAssumption DEF InProcessed, Waiting
<1>6. \A n \in DOMAIN Registration' : Registration'[n].OP => waited'[Registration'[n].Object] = 0
  BY <1>1 DEF Waiting
<1> QED
  BY <1>1, <1>3, <1>4, <1>5, <1>6, WaitingKept

\* The step ends, and the objects that are still due have waited once more.
LEMMA PushBackKeepsWaiting ==
  ASSUME IInv, SchedulerAssumption, Waiting, phase = "normal", NEW processed \in Seq(Entry),
         PushProcessedBack(processed), m_current_step_obj' = None, UNCHANGED <<Registration, dwTime>>,
         \A n \in DOMAIN processed :
            \/ \E m \in DOMAIN ItemsProcessed : processed[n] = ItemsProcessed[m]
            \/ processed[n].Object = m_current_step_obj /\ processed[n].time >= dwTime,
         \A o \in Objects : Due(o) => m_current_step_obj # None
  PROVE  Waiting'
<1>1. /\ waited \in [Objects -> Nat] /\ dwTime \in Nat
      /\ Items' = Items \o processed /\ ItemsProcessed' = <<>>
      /\ waited' = [o \in Objects |-> IF Due(o) THEN waited[o] + 1 ELSE waited[o]]
  BY SchedulerAssumption DEF PushProcessedBack, PassOver, IInv, TypeOK
<1>2. waited' \in [Objects -> Nat]
  BY <1>1
<1>3. \A o \in Objects : Due(o) => InItems(o) /\ m_processing_now
  BY DEF Due, InItems, IInv, TypeOK
<1>4. ASSUME NEW o \in Objects, InProcessed(o) \/ m_current_step_obj = o PROVE waited'[o] = 0
  <2>1. ~InItems(o)
    BY <1>4 DEF IInv, Distinct
  <2> QED
    BY <1>1, <1>3, <1>4, <2>1 DEF Waiting
<1>5. ASSUME NEW o \in Objects, NEW t \in Nat, At(o, t)'
      PROVE  \/ At(o, t)
             \/ waited'[o] = 0 /\ (t >= dwTime \/ (Aside(o, t) /\ m_current_step_obj' = None))
  <2>1. PICK n \in DOMAIN Items' : Items'[n].Object = o /\ Items'[n].time = t
    BY <1>5 DEF At
  <2>2. CASE n \in DOMAIN Items /\ Items'[n] = Items[n]
    BY <2>1, <2>2 DEF At
  <2>3. ASSUME NEW m \in DOMAIN processed, Items'[n] = processed[m]
        PROVE  waited'[o] = 0 /\ (t >= dwTime \/ (Aside(o, t) /\ m_current_step_obj' = None))
    <3>1. CASE \E x \in DOMAIN ItemsProcessed : processed[m] = ItemsProcessed[x]
      BY <1>4, <2>1, <2>3, <3>1 DEF InProcessed, Aside
    <3>2. CASE processed[m].Object = m_current_step_obj /\ processed[m].time >= dwTime
      BY <1>4, <2>1, <2>3, <3>2
    <3> QED
      BY <3>1, <3>2
  <2> QED
    BY <1>1, <2>2, <2>3, AddItems DEF IInv
<1>6. ASSUME NEW k \in DOMAIN Registration, Registration[k].OP
      PROVE  waited'[Registration[k].Object] = 0
  <2>1. PICK o \in Objects : Registration[k].Object = o
    BY CallOfObject
  <2>2. waited[o] = 0 /\ Pending(o)
    BY <1>6, <2>1 DEF Waiting, Pending
  <2>3. ~Due(o)
    BY <1>3, <2>2 DEF IInv, Settled
  <2> QED
    BY <1>1, <2>1, <2>2, <2>3
<1>7. /\ \A o \in Objects, t \in Nat : ~Aside(o, t)'
      /\ \A o \in Objects : ~InProcessed(o)' /\ m_current_step_obj' # o
  BY <1>1, SchedulerAssumption DEF Aside, InProcessed
<1>8. \A o \in Objects :
         \/ waited'[o] \in {waited[o], 0}
         \/ /\ waited'[o] = waited[o] + 1 /\ Due(o)
            /\ m_current_step_obj # None /\ m_current_step_obj' = None
  BY <1>1
<1>9. dwTime' \in Nat /\ dwTime' >= dwTime
  BY <1>1
<1>10. \A k \in DOMAIN Registration' : Registration'[k].OP => waited'[Registration'[k].Object] = 0
  BY <1>6
<1> QED
  BY <1>2, <1>5, <1>7, <1>8, <1>9, <1>10, WaitingKept

\* While an entry is due there is a top of the heap.
LEMMA DueMeansTop ==
  ASSUME IInv, NEW o \in Objects, Due(o)
  PROVE  Tops # {}
<1> DEFINE times == {Items[k].time : k \in DOMAIN Items}
<1>1. \A k \in DOMAIN Items : Items[k].time \in Nat
  <2>1. \A k \in DOMAIN Items : Items[k] \in Entry
    BY ElementOfSeq, LenProperties DEF IInv, TypeOK
  <2> QED
    BY <2>1 DEF Entry
<1>2. PICK m \in DOMAIN Items : Items[m].time < dwTime
  BY DEF Due
<1>3. times \in SUBSET Nat /\ times # {}
  BY <1>1, <1>2
<1>4. PICK t \in times : \A s \in times : t <= s
  BY <1>3, MinOfSet
<1>5. PICK k \in DOMAIN Items : Items[k].time = t
  OBVIOUS
<1>6. Items[k].time <= Items[m].time /\ \A n \in DOMAIN Items : Items[k].time <= Items[n].time
  BY <1>4, <1>5
<1>7. Items[k].time < dwTime
  <2>1. dwTime \in Nat
    BY SchedulerAssumption DEF IInv, TypeOK
  <2> QED
    BY <1>1, <1>2, <1>6, <2>1
<1> QED
  BY <1>6, <1>7 DEF Tops

\* Waiting, step by step.
LEMMA WaitingNext ==
  ASSUME IInv, IInv', Waiting, [Next]_vars
  PROVE  Waiting'
<1> USE SchedulerAssumption
<1>1. ASSUME NEW A \in Objects, Unregister(A) \/ SetDestroy(A) \/ \E RT \in BOOLEAN : Register(A, RT)
      PROVE  Waiting'
  BY <1>1, CallsKeepWaiting
<1>2. dwTime \in Nat /\ dwTime' \in Nat
  <2>1. dwTime \in 0 .. MaxTime
    BY DEF IInv, TypeOK
  <2>2. dwTime' \in 0 .. MaxTime
    BY DEF IInv, TypeOK
  <2> QED
    BY <2>1, <2>2
<1>3. CASE BeginUpdate
  <2>1. /\ UNCHANGED <<Items, ItemsProcessed, Registration, waited, m_current_step_obj>>
        /\ dwTime' >= dwTime /\ m_current_step_obj = None
    BY <1>2, <1>3 DEF BeginUpdate, queues, IInv, Phases
  <2> QED
    BY <1>2, <2>1, SameWaiting
<1>4. CASE RegistrationEntry
  BY <1>4, RegistrationEntryKeepsWaiting
<1>5. CASE RegistrationDone \/ RTSkip \/ RTUpdate \/ RTUpdateReturns \/ RTDone
  <2>1. UNCHANGED <<Items, ItemsProcessed, Registration, waited, m_current_step_obj, dwTime>>
    BY <1>5 DEF RegistrationDone, RTSkip, RTUpdate, RTUpdateReturns, RTDone, queues
  <2> QED
    BY <1>2, <2>1, SameWaiting
<1>6. CASE DropTop
  BY <1>6, DropTopKeepsWaiting
<1>7. CASE UpdateTop
  BY <1>7, UpdateTopKeepsWaiting
<1>8. CASE UpdateTopReturns
  <2>1. m_current_step_obj' = None /\ UNCHANGED <<dwTime, Registration>> /\ phase = "normal"
    BY <1>8 DEF UpdateTopReturns
  <2>2. CASE UNCHANGED <<Items, ItemsProcessed, waited>>
    BY <1>2, <2>1, <2>2, SameWaiting
  <2>3. ASSUME NEW d \in Periods, m_current_step_obj # None,
               ItemsProcessed' = Processed(d), UNCHANGED <<Items, waited>>
        PROVE  Waiting'
    BY <1>8, <2>3, SetAsideKeepsWaiting
  <2>4. ASSUME NEW d \in Periods, m_current_step_obj # None, PushProcessedBack(Processed(d))
        PROVE  Waiting'
    <3>1. /\ Processed(d) \in Seq(Entry) /\ updating = m_current_step_obj /\ d \in Nat
          /\ \A n \in DOMAIN ItemsProcessed : Processed(d)[n] = ItemsProcessed[n]
          /\ \A n \in DOMAIN Processed(d) : n \notin DOMAIN ItemsProcessed =>
                Processed(d)[n].Object = updating /\ Processed(d)[n].time = dwTime + d
      BY <2>4, ProcessedFacts
    <3>2. \A n \in DOMAIN Processed(d) :
             \/ \E m \in DOMAIN ItemsProcessed : Processed(d)[n] = ItemsProcessed[m]
             \/ Processed(d)[n].Object = m_current_step_obj /\ Processed(d)[n].time >= dwTime
      BY <1>2, <3>1
    <3> HIDE DEF Processed
    <3> QED
      BY <2>1, <2>4, <3>1, <3>2, PushBackKeepsWaiting
  <2> QED
    BY <1>8, <2>2, <2>3, <2>4 DEF UpdateTopReturns, Processed
<1>9. CASE ProcessStepDone
  <2>1. /\ UNCHANGED <<m_current_step_obj, Registration, dwTime>> /\ m_current_step_obj = None
        /\ phase = "normal" /\ PushProcessedBack(ItemsProcessed) /\ ItemsProcessed \in Seq(Entry)
    BY <1>9 DEF ProcessStepDone, IInv, Phases, TypeOK
  <2>2. \A o \in Objects : ~Due(o)
    BY <1>9, DueMeansTop DEF ProcessStepDone
  <2> QED
    BY <2>1, <2>2, PushBackKeepsWaiting
<1>10. CASE Destroy
  <2>1. /\ Items' = <<>> /\ ItemsProcessed' = <<>> /\ Registration' = <<>> /\ waited' = waited
        /\ m_current_step_obj' = None
    BY <1>10 DEF Destroy, IInv, Phases
  <2> QED
    BY <2>1 DEF Waiting, NoStarvation, At, InProcessed
<1>11. CASE UNCHANGED vars
  <2>1. UNCHANGED <<Items, ItemsProcessed, Registration, waited, m_current_step_obj, dwTime>>
    BY <1>11 DEF vars, queues, steps
  <2> QED
    BY <1>2, <2>1, SameWaiting
<1> QED
  BY <1>1, <1>3, <1>4, <1>5, <1>6, <1>7, <1>8, <1>9, <1>10, <1>11 DEF Next

\* A step that runs out of its budget starves nobody: an object that is due is
\* passed over at most once for each of the others.
THEOREM NobodyStarves == Spec => []NoStarvation
<1>1. Init => Waiting
  <2> SUFFICES ASSUME Init PROVE Waiting
    OBVIOUS
  <2>1. ASSUME NEW o \in Objects PROVE 0 < Cardinality(Objects)
    <3>1. Cardinality(Objects) \in Nat /\ Cardinality(Objects) # 0
      BY SchedulerAssumption, FS_CardinalityType, FS_EmptySet
    <3> QED
      BY <3>1
  <2>2. Items = <<>> /\ Registration = <<>> /\ \A o \in Objects : waited[o] = 0
    BY DEF Init
  <2>3. NoStarvation
    BY <2>1, <2>2 DEF NoStarvation
  <2>4. \A o, t : ~At(o, t)
    BY <2>2 DEF At
  <2> QED
    BY <2>2, <2>3, <2>4 DEF Waiting
<1>2. IInv /\ IInv' /\ Waiting /\ [Next]_vars => Waiting'
  BY WaitingNext
<1>3. Waiting => NoStarvation
  BY DEF Waiting
<1>4. Spec => []IInv
  BY Invariance
<1> QED
  BY <1>1, <1>2, <1>3, <1>4, PTL DEF Spec
=============================================================================

-------------------------- MODULE ObjectList_proofs --------------------------
(***************************************************************************)
(* Proofs of ObjectList for any set of objects and workers: the active     *)
(* and the sleeping list agree with the activity counters, a crow is on    *)
(* one list, behind an object in the destroy queue is what it carries, no  *)
(* list or pointer leads to freed memory, every crow is updated, and what  *)
(* carries an object is updated before it.                                 *)
(***************************************************************************)
EXTENDS ObjectList, SequenceTheorems, FiniteSetTheorems, TLAPS

-----------------------------------------------------------------------------
(* Sequences: what appending, merging and erasing leave on a list.         *)

\* What a crow list holds after an append.
LEMMA AppendSet ==
  ASSUME NEW S, NEW s \in Seq(S), NEW e \in S
  PROVE  /\ Append(s, e) \in Seq(S)
         /\ ToSet(Append(s, e)) = ToSet(s) \cup {e}
         /\ IsInjective(s) /\ e \notin ToSet(s) => IsInjective(Append(s, e))
<1> DEFINE t == Append(s, e)
<1>1. /\ t \in Seq(S) /\ Len(t) = Len(s) + 1 /\ Len(s) \in Nat
      /\ DOMAIN t = 1 .. Len(s) + 1 /\ DOMAIN s = 1 .. Len(s)
      /\ t[Len(s) + 1] = e /\ \A i \in 1 .. Len(s) : t[i] = s[i]
  BY AppendProperties, LenProperties
<1> HIDE DEF t
<1>2. ToSet(t) = ToSet(s) \cup {e}
  <2>1. ToSet(t) \subseteq ToSet(s) \cup {e}
    BY <1>1 DEF ToSet
  <2>2. e \in ToSet(t) /\ ToSet(s) \subseteq ToSet(t)
    BY <1>1 DEF ToSet
  <2> QED
    BY <2>1, <2>2
<1>3. IsInjective(s) /\ e \notin ToSet(s) => IsInjective(t)
  BY <1>1 DEF ToSet, IsInjective
<1> QED
  BY <1>1, <1>2, <1>3 DEF t

\* What a list holds after another one was put behind it.
LEMMA ConcatSet ==
  ASSUME NEW S, NEW s \in Seq(S), NEW t \in Seq(S)
  PROVE  /\ s \o t \in Seq(S)
         /\ ToSet(s \o t) = ToSet(s) \cup ToSet(t)
         /\ IsInjective(s) /\ IsInjective(t) /\ ToSet(s) \cap ToSet(t) = {} => IsInjective(s \o t)
<1> DEFINE u == s \o t
<1>1. /\ u \in Seq(S) /\ Len(u) = Len(s) + Len(t) /\ Len(s) \in Nat /\ Len(t) \in Nat
      /\ DOMAIN u = 1 .. Len(s) + Len(t) /\ DOMAIN s = 1 .. Len(s) /\ DOMAIN t = 1 .. Len(t)
      /\ \A i \in 1 .. Len(s) + Len(t) : u[i] = IF i <= Len(s) THEN s[i] ELSE t[i - Len(s)]
  BY ConcatProperties, LenProperties
<1> HIDE DEF u
<1>2. /\ \A i \in 1 .. Len(s) : i \in DOMAIN u /\ u[i] = s[i]
      /\ \A i \in 1 .. Len(t) : Len(s) + i \in DOMAIN u /\ u[Len(s) + i] = t[i]
      /\ \A i \in DOMAIN u : \/ i \in 1 .. Len(s) /\ u[i] = s[i]
                             \/ i > Len(s) /\ i - Len(s) \in 1 .. Len(t) /\ u[i] = t[i - Len(s)]
  <2>1. \A i \in 1 .. Len(s) : i \in DOMAIN u /\ u[i] = s[i]
    BY <1>1
  <2>2. ASSUME NEW i \in 1 .. Len(t)
        PROVE  Len(s) + i \in DOMAIN u /\ u[Len(s) + i] = t[i]
    <3>1. Len(s) + i \in 1 .. Len(s) + Len(t) /\ ~(Len(s) + i <= Len(s)) /\ (Len(s) + i) - Len(s) = i
      BY <1>1
    <3> QED
      BY <1>1, <3>1
  <2>3. ASSUME NEW i \in DOMAIN u
        PROVE  \/ i \in 1 .. Len(s) /\ u[i] = s[i]
               \/ i > Len(s) /\ i - Len(s) \in 1 .. Len(t) /\ u[i] = t[i - Len(s)]
    BY <1>1
  <2> QED
    BY <2>1, <2>2, <2>3
<1>3. ToSet(u) = ToSet(s) \cup ToSet(t)
  <2>1. ToSet(u) \subseteq ToSet(s) \cup ToSet(t)
    BY <1>1, <1>2 DEF ToSet
  <2>2. ToSet(s) \subseteq ToSet(u)
    BY <1>1, <1>2 DEF ToSet
  <2>3. ASSUME NEW i \in 1 .. Len(t)
        PROVE  t[i] \in ToSet(u)
    <3>1. Len(s) + i \in DOMAIN u /\ u[Len(s) + i] = t[i]
      BY <1>2
    <3> QED
      BY <3>1 DEF ToSet
  <2>4. ToSet(t) \subseteq ToSet(u)
    BY <1>1, <2>3 DEF ToSet
  <2> QED
    BY <2>1, <2>2, <2>4
<1>4. ASSUME IsInjective(s), IsInjective(t), ToSet(s) \cap ToSet(t) = {},
             NEW i \in DOMAIN u, NEW j \in DOMAIN u, u[i] = u[j]
      PROVE  i = j
  <2>1. CASE i \in 1 .. Len(s) /\ j \in 1 .. Len(s)
    BY <1>1, <1>2, <1>4, <2>1 DEF IsInjective
  <2>2. CASE i \in 1 .. Len(s) /\ j \notin 1 .. Len(s)
    <3>1. u[i] \in ToSet(s) /\ u[j] \in ToSet(t)
      BY <1>1, <1>2, <2>2 DEF ToSet
    <3> QED
      BY <1>4, <3>1
  <2>3. CASE i \notin 1 .. Len(s) /\ j \in 1 .. Len(s)
    <3>1. u[j] \in ToSet(s) /\ u[i] \in ToSet(t)
      BY <1>1, <1>2, <2>3 DEF ToSet
    <3> QED
      BY <1>4, <3>1
  <2>4. CASE i \notin 1 .. Len(s) /\ j \notin 1 .. Len(s)
    <3>1. i - Len(s) \in DOMAIN t /\ j - Len(s) \in DOMAIN t /\ t[i - Len(s)] = t[j - Len(s)]
      BY <1>1, <1>2, <1>4, <2>4
    <3>2. i - Len(s) = j - Len(s)
      BY <1>4, <3>1 DEF IsInjective
    <3> QED
      BY <1>1, <3>2
  <2> QED
    BY <2>1, <2>2, <2>3, <2>4
<1> QED
  BY <1>1, <1>3, <1>4 DEF u, IsInjective

\* A list without its first element.
LEMMA TailSet ==
  ASSUME NEW S, NEW s \in Seq(S), s # <<>>
  PROVE  /\ Head(s) \in S /\ Head(s) = s[1] /\ Tail(s) \in Seq(S)
         /\ Len(s) \in Nat \ {0} /\ Len(Tail(s)) = Len(s) - 1
         /\ \A k \in 1 .. Len(Tail(s)) : Tail(s)[k] = s[k + 1]
         /\ ToSet(s) = {Head(s)} \cup ToSet(Tail(s))
<1>1. /\ Head(s) \in S /\ Tail(s) \in Seq(S) /\ Len(Tail(s)) = Len(s) - 1
      /\ \A k \in 1 .. Len(Tail(s)) : Tail(s)[k] = s[k + 1]
      /\ Len(s) \in Nat \ {0} /\ DOMAIN s = 1 .. Len(s) /\ DOMAIN Tail(s) = 1 .. Len(Tail(s))
  BY HeadTailProperties, EmptySeq, LenProperties
<1>2. Head(s) = s[1]
  OBVIOUS
<1>3. ToSet(s) \subseteq {Head(s)} \cup ToSet(Tail(s))
  <2> SUFFICES ASSUME NEW k \in 1 .. Len(s), k # 1 PROVE s[k] \in ToSet(Tail(s))
    BY <1>1, <1>2 DEF ToSet
  <2>1. k - 1 \in 1 .. Len(Tail(s)) /\ Tail(s)[k - 1] = s[k]
    BY <1>1
  <2> QED
    BY <1>1, <2>1 DEF ToSet
<1>4. Head(s) \in ToSet(s) /\ ToSet(Tail(s)) \subseteq ToSet(s)
  <2>1. \A k \in 1 .. Len(Tail(s)) : k + 1 \in DOMAIN s /\ Tail(s)[k] = s[k + 1]
    BY <1>1
  <2>2. 1 \in DOMAIN s
    BY <1>1
  <2> QED
    BY <1>1, <1>2, <2>1, <2>2 DEF ToSet
<1> QED
  BY <1>1, <1>2, <1>3, <1>4

\* The elements of a list, and the list of none.
LEMMA SetOfSeq ==
  ASSUME NEW S
  PROVE  /\ \A s \in Seq(S) : ToSet(s) \subseteq S
         /\ <<>> \in Seq(S) /\ ToSet(<<>>) = {} /\ IsInjective(<<>>)
<1>1. \A s \in Seq(S) : ToSet(s) \subseteq S
  BY LenProperties, ElementOfSeq DEF ToSet
<1> QED
  BY <1>1 DEF ToSet, IsInjective

\* A list without the element at n, when that is in it once.
LEMMA RemoveAtSet ==
  ASSUME NEW S, NEW s \in Seq(S), NEW n \in 1 .. Len(s), IsInjective(s)
  PROVE  /\ RemoveAt(s, n) \in Seq(S) /\ IsInjective(RemoveAt(s, n))
         /\ ToSet(RemoveAt(s, n)) = ToSet(s) \ {s[n]}
<1> DEFINE a == SubSeq(s, 1, n - 1)
           b == SubSeq(s, n + 1, Len(s))
<1>0. Len(s) \in Nat /\ DOMAIN s = 1 .. Len(s) /\ n \in Nat /\ n <= Len(s) /\ \A i \in 1 .. Len(s) : s[i] \in S
  BY LenProperties, ElementOfSeq
<1>1. /\ a \in Seq(S) /\ Len(a) = n - 1 /\ DOMAIN a = 1 .. n - 1
      /\ \A i \in 1 .. n - 1 : a[i] = s[i]
  <2>1. \A i \in 1 .. n - 1 : s[i] \in S
    BY <1>0
  <2>2. /\ a \in Seq(S) /\ Len(a) = IF 1 <= n - 1 THEN (n - 1) - 1 + 1 ELSE 0
        /\ \A i \in 1 .. (n - 1) - 1 + 1 : a[i] = s[1 + i - 1]
    BY <1>0, <2>1, SubSeqProperties
  <2> HIDE DEF a
  <2>3. Len(a) = n - 1 /\ \A i \in 1 .. n - 1 : a[i] = s[i]
    BY <1>0, <2>2
  <2> QED
    BY <2>2, <2>3, LenProperties
<1>2. /\ b \in Seq(S) /\ Len(b) = Len(s) - n /\ DOMAIN b = 1 .. Len(s) - n
      /\ \A i \in 1 .. Len(s) - n : b[i] = s[n + i]
  <2>1. \A i \in n + 1 .. Len(s) : s[i] \in S
    BY <1>0
  <2>2. /\ b \in Seq(S) /\ Len(b) = IF n + 1 <= Len(s) THEN Len(s) - (n + 1) + 1 ELSE 0
        /\ \A i \in 1 .. Len(s) - (n + 1) + 1 : b[i] = s[(n + 1) + i - 1]
    BY <1>0, <2>1, SubSeqProperties
  <2> HIDE DEF b
  <2>3. Len(b) = Len(s) - n
    <3>1. n + 1 <= Len(s) => Len(s) - (n + 1) + 1 = Len(s) - n
      BY <1>0
    <3>2. ~(n + 1 <= Len(s)) => Len(s) = n
      <4>1. \A l \in Nat, m \in Nat : m <= l /\ ~(m + 1 <= l) => l = m
        OBVIOUS
      <4>2. Len(s) \in Nat /\ n \in Nat /\ n <= Len(s)
        BY <1>0
      <4> QED
        BY <4>1, <4>2
    <3>3. n - n = 0
      BY <1>0
    <3> QED
      BY <2>2, <3>1, <3>2, <3>3
  <2>4. ASSUME NEW i \in 1 .. Len(s) - n
        PROVE  b[i] = s[n + i]
    <3>1. i \in 1 .. Len(s) - (n + 1) + 1 /\ (n + 1) + i - 1 = n + i
      BY <1>0
    <3> QED
      BY <2>2, <3>1
  <2> QED
    BY <2>2, <2>3, <2>4, LenProperties
<1> HIDE DEF a, b
<1>3. ToSet(a) \cup ToSet(b) = ToSet(s) \ {s[n]}
  <2>1. ASSUME NEW i \in 1 .. n - 1 PROVE a[i] \in ToSet(s) \ {s[n]}
    BY <1>0, <1>1, <2>1 DEF ToSet, IsInjective
  <2>2. ASSUME NEW i \in 1 .. Len(s) - n PROVE b[i] \in ToSet(s) \ {s[n]}
    <3>1. n + i \in DOMAIN s /\ n \in DOMAIN s /\ n + i # n /\ b[i] = s[n + i]
      BY <1>0, <1>2
    <3> QED
      BY <3>1 DEF ToSet, IsInjective
  <2>3. ASSUME NEW i \in 1 .. Len(s), i # n PROVE s[i] \in ToSet(a) \cup ToSet(b)
    <3>1. CASE i < n
      BY <1>0, <1>1, <3>1 DEF ToSet
    <3>2. CASE i > n
      <4>1. i - n \in 1 .. Len(s) - n /\ b[i - n] = s[i]
        BY <1>0, <1>2, <3>2
      <4> QED
        BY <1>2, <4>1 DEF ToSet
    <3> QED
      BY <1>0, <2>3, <3>1, <3>2
  <2>4. ToSet(s) \ {s[n]} \subseteq ToSet(a) \cup ToSet(b)
    BY <1>0, <2>3 DEF ToSet
  <2>5. ToSet(a) \cup ToSet(b) \subseteq ToSet(s) \ {s[n]}
    <3>1. ToSet(a) \subseteq ToSet(s) \ {s[n]}
      BY <1>1, <2>1 DEF ToSet
    <3>2. ToSet(b) \subseteq ToSet(s) \ {s[n]}
      BY <1>2, <2>2 DEF ToSet
    <3> QED
      BY <3>1, <3>2
  <2> QED
    BY <2>4, <2>5
<1>4. IsInjective(a)
  BY <1>0, <1>1 DEF IsInjective
<1>5. ASSUME NEW i \in DOMAIN b, NEW j \in DOMAIN b, b[i] = b[j]
      PROVE  i = j
  <2>1. n + i \in DOMAIN s /\ n + j \in DOMAIN s /\ s[n + i] = s[n + j] /\ i \in Nat /\ j \in Nat
    BY <1>0, <1>2, <1>5
  <2>2. n + i = n + j
    BY <2>1 DEF IsInjective
  <2> QED
    BY <1>0, <2>1, <2>2
<1>6. ToSet(a) \cap ToSet(b) = {}
  <2> SUFFICES ASSUME NEW i \in 1 .. n - 1, NEW j \in 1 .. Len(s) - n PROVE a[i] # b[j]
    BY <1>1, <1>2 DEF ToSet
  <2>1. i \in DOMAIN s /\ n + j \in DOMAIN s /\ i # n + j /\ a[i] = s[i] /\ b[j] = s[n + j]
    BY <1>0, <1>1, <1>2
  <2> QED
    BY <2>1 DEF IsInjective
<1>7. IsInjective(b)
  BY <1>5 DEF IsInjective
<1>8. RemoveAt(s, n) = a \o b
  BY DEF RemoveAt, a, b
<1>9. a \o b \in Seq(S) /\ ToSet(a \o b) = ToSet(a) \cup ToSet(b) /\ IsInjective(a \o b)
  BY <1>1, <1>2, <1>4, <1>6, <1>7, ConcatSet
<1> QED
  BY <1>3, <1>8, <1>9

\* std::find and erase on a list that holds nothing twice.
LEMMA RemoveSet ==
  ASSUME NEW S, NEW s \in Seq(S), NEW e, IsInjective(s)
  PROVE  /\ RemoveFirst(s, e) \in Seq(S) /\ IsInjective(RemoveFirst(s, e))
         /\ ToSet(RemoveFirst(s, e)) = ToSet(s) \ {e}
<1>0. Len(s) \in Nat /\ DOMAIN s = 1 .. Len(s)
  BY LenProperties
<1>1. CASE ~ \E i \in 1 .. Len(s) : s[i] = e
  <2>1. RemoveFirst(s, e) = s
    BY <1>1 DEF RemoveFirst
  <2>2. e \notin ToSet(s)
    BY <1>0, <1>1 DEF ToSet
  <2> QED
    BY <2>1, <2>2
<1>2. CASE \E i \in 1 .. Len(s) : s[i] = e
  <2> DEFINE I == {i \in 1 .. Len(s) : s[i] = e}
  <2>1. PICK n \in 1 .. Len(s) : s[n] = e
    BY <1>2
  <2>2. I = {n}
    BY <1>0, <2>1 DEF IsInjective
  <2>3. SelectInSeq(s, LAMBDA v : v = e) = IF I # {} THEN Min(I) ELSE 0
    BY DEF SelectInSeq
  <2> HIDE DEF I
  <2>4. Min(I) = n
    BY <1>0, <2>1, <2>2 DEF Min
  <2>5. RemoveFirst(s, e) = RemoveAt(s, n)
    BY <1>2, <2>2, <2>3, <2>4 DEF RemoveFirst
  <2> QED
    BY <2>1, <2>5, RemoveAtSet
<1> QED
  BY <1>1, <1>2

\* A listing of a finite set holds what is in it, once.
LEMMA ListingOf ==
  ASSUME NEW S, IsFiniteSet(S), NEW s \in SetToSeqs(S)
  PROVE  s \in Seq(S) /\ IsInjective(s) /\ ToSet(s) = S
<1> DEFINE D == 1 .. Cardinality(S)
<1>1. Cardinality(S) \in Nat /\ IsFiniteSet(D) /\ Cardinality(D) = Cardinality(S)
  BY FS_CardinalityType, FS_Interval
<1>2. s \in [D -> S] /\ \A i, j \in D : i # j => s[i] # s[j]
  BY DEF SetToSeqs
<1>3. s \in Injection(D, S)
  BY <1>2 DEF Injection, IsInjective
<1>4. s \in Surjection(D, S)
  BY <1>1, <1>3, FS_Injection
<1>5. s \in Seq(S)
  BY <1>1, <1>2, SeqDef
<1>6. ToSet(s) = S
  <2>1. \A t \in S : \E i \in D : s[i] = t
    BY <1>4 DEF Surjection
  <2> QED
    BY <1>2, <2>1 DEF ToSet
<1> QED
  BY <1>2, <1>5, <1>6 DEF IsInjective

-----------------------------------------------------------------------------
(* The lists of active and of sleeping objects.                            *)

\* What is needed of the types to follow the counters.
Typed ==
    /\ obj \in [Objects -> Object] /\ dwFrame \in 0 .. MaxFrame
    /\ objects_active \subseteq Objects /\ objects_sleeping \subseteq Objects

AInv == Typed /\ ActiveIffCounted

-----------------------------------------------------------------------------

\* Frame numbers: the present one, and the mark of none.
LEMMA FrameNumbers ==
  ASSUME Typed
  PROVE  dwFrame \in Frames /\ NoFrame \in Frames
BY ObjectListAssumption DEF Typed, Frames, NoFrame

\* Values of the activity counter.
LEMMA Counters ==
  /\ 0 \in Activations /\ 1 \in Activations /\ Activations \subseteq Nat
  /\ \A n \in Activations : (n # 255 => n + 1 \in Activations) /\ (n > 0 => n - 1 \in Activations)
BY DEF Activations

\* MakeMeCrow changes one object to what it was to become, but for the mark of
\* a crow: its counter is the one given.
LEMMA MakeMeCrowKeeps ==
  ASSUME Typed, NEW o \in Objects, NEW r \in Object, MakeMeCrow(o, r)
  PROVE  /\ obj' \in [Objects -> Object]
         /\ obj'[o].bActiveCounter = r.bActiveCounter
         /\ \A x \in Objects \ {o} : obj'[x] = obj[x]
<1>1. CASE obj' = [obj EXCEPT ![o] = r]
  BY <1>1 DEF Typed
<1>2. CASE obj' = [obj EXCEPT ![o] = [r EXCEPT !.crow = TRUE, !.dwFrame_AsCrow = dwFrame]]
  <2>1. [r EXCEPT !.crow = TRUE, !.dwFrame_AsCrow = dwFrame] \in Object
    BY FrameNumbers DEF Object
  <2>2. [r EXCEPT !.crow = TRUE, !.dwFrame_AsCrow = dwFrame].bActiveCounter = r.bActiveCounter
    BY DEF Object
  <2> QED
    BY <1>2, <2>1, <2>2 DEF Typed
<1> QED
  BY <1>1, <1>2 DEF MakeMeCrow

\* A step that changes no counter and neither list keeps the invariant.
LEMMA CountersKept ==
  ASSUME AInv, obj' \in [Objects -> Object], dwFrame' \in 0 .. MaxFrame, UNCHANGED lists,
         \A x \in Objects : obj'[x].bActiveCounter = obj[x].bActiveCounter
  PROVE  AInv'
BY DEF AInv, Typed, ActiveIffCounted, Enabled, lists

-----------------------------------------------------------------------------
(* One lemma per kind of step.                                             *)

\* The game marks an object; the lists of active and sleeping objects stay.
LEMMA CallMakeMeCrowAInv ==
  ASSUME AInv, NEW o \in Objects, CallMakeMeCrow(o)
  PROVE  AInv'
<1>1. obj[o] \in Object /\ MakeMeCrow(o, obj[o])
  BY DEF AInv, Typed, CallMakeMeCrow
<1>2. obj' \in [Objects -> Object] /\ \A x \in Objects : obj'[x].bActiveCounter = obj[x].bActiveCounter
  BY <1>1, MakeMeCrowKeeps DEF AInv
<1> QED
  BY <1>2, CountersKept DEF CallMakeMeCrow, AInv, Typed, frame, lists

\* Only the first of nested activations moves the object.
LEMMA ActivateAInv ==
  ASSUME AInv, NEW o \in Objects, Activate(o)
  PROVE  AInv'
<1>1. /\ obj[o] \in Object /\ obj[o].bActiveCounter \in Nat /\ dwFrame' = dwFrame
      /\ obj[o].bActiveCounter + 1 \in Activations
  BY Counters DEF AInv, Typed, Object, Activate, Call, frame
<1>2. CASE Enabled(o) /\ obj' = [obj EXCEPT ![o].bActiveCounter = @ + 1] /\ UNCHANGED <<lists, crows>>
  <2>1. [obj[o] EXCEPT !.bActiveCounter = @ + 1] \in Object
    BY <1>1 DEF Object
  <2>2. obj' \in [Objects -> Object] /\ \A x \in Objects : Enabled(x)' <=> Enabled(x)
    BY <1>1, <1>2, <2>1 DEF AInv, Typed, Enabled, Object
  <2> QED
    BY <1>1, <1>2, <2>2 DEF AInv, Typed, ActiveIffCounted, lists
<1>3. CASE /\ ~Enabled(o) /\ MakeMeCrow(o, [obj[o] EXCEPT !.bActiveCounter = 1])
           /\ objects_sleeping' = objects_sleeping \ {o}
           /\ objects_active' = objects_active \cup {o}
  <2>1. [obj[o] EXCEPT !.bActiveCounter = 1] \in Object /\ [obj[o] EXCEPT !.bActiveCounter = 1].bActiveCounter = 1
    BY <1>1, Counters DEF Object
  <2>2. /\ obj' \in [Objects -> Object] /\ obj'[o].bActiveCounter = 1
        /\ \A x \in Objects \ {o} : obj'[x] = obj[x]
    BY <1>3, <2>1, MakeMeCrowKeeps DEF AInv
  <2>3. Enabled(o)' /\ \A x \in Objects \ {o} : Enabled(x)' <=> Enabled(x)
    BY <2>2 DEF Enabled
  <2> QED
    BY <1>1, <1>3, <2>2, <2>3 DEF AInv, Typed, ActiveIffCounted
<1> QED
  BY <1>2, <1>3 DEF Activate

\* Only the last of nested deactivations moves the object.
LEMMA DeactivateAInv ==
  ASSUME AInv, NEW o \in Objects, Deactivate(o)
  PROVE  AInv'
<1>1. /\ obj[o] \in Object /\ obj[o].bActiveCounter \in Nat /\ dwFrame' = dwFrame
      /\ obj[o].bActiveCounter > 0 /\ obj[o].bActiveCounter - 1 \in Activations
  BY Counters DEF AInv, Typed, Object, Deactivate, Call, frame, Enabled
<1>2. obj' = [obj EXCEPT ![o].bActiveCounter = @ - 1]
  BY DEF Deactivate
<1>3. [obj[o] EXCEPT !.bActiveCounter = @ - 1] \in Object
  BY <1>1 DEF Object
<1>4. /\ obj' \in [Objects -> Object] /\ obj'[o].bActiveCounter = obj[o].bActiveCounter - 1
      /\ \A x \in Objects \ {o} : obj'[x] = obj[x]
  BY <1>1, <1>2, <1>3 DEF AInv, Typed, Object
<1>5. \A x \in Objects \ {o} : Enabled(x)' <=> Enabled(x)
  BY <1>4 DEF Enabled
<1>6. CASE obj[o].bActiveCounter > 1
  <2>1. Enabled(o) /\ Enabled(o)' /\ UNCHANGED lists
    BY <1>1, <1>4, <1>6 DEF Enabled, Deactivate
  <2> QED
    BY <1>1, <1>4, <1>5, <2>1 DEF AInv, Typed, ActiveIffCounted, lists
<1>7. CASE ~(obj[o].bActiveCounter > 1)
  <2>1. ~Enabled(o)' /\ objects_active' = objects_active \ {o} /\ objects_sleeping' = objects_sleeping \cup {o}
    BY <1>1, <1>4, <1>7 DEF Enabled, Deactivate
  <2> QED
    BY <1>1, <1>4, <1>5, <2>1 DEF AInv, Typed, ActiveIffCounted
<1> QED
  BY <1>6, <1>7

\* A new object is active, with a count of one.
LEMMA SpawnAInv ==
  ASSUME AInv, NEW o \in Objects, NEW p \in Objects \cup {None}, Spawn(o, p)
  PROVE  AInv'
<1>1. PICK garbage \in {NoFrame, dwFrame} :
        MakeMeCrow(o, [New EXCEPT !.bActiveCounter = 1, !.Parent = p, !.dwFrame_UpdateCL = garbage])
  BY DEF Spawn
<1>2. /\ [New EXCEPT !.bActiveCounter = 1, !.Parent = p, !.dwFrame_UpdateCL = garbage] \in Object
      /\ [New EXCEPT !.bActiveCounter = 1, !.Parent = p, !.dwFrame_UpdateCL = garbage].bActiveCounter = 1
  BY FrameNumbers, Counters DEF AInv, New, Object
<1>3. /\ obj' \in [Objects -> Object] /\ obj'[o].bActiveCounter = 1
      /\ \A x \in Objects \ {o} : obj'[x] = obj[x]
  BY <1>1, <1>2, MakeMeCrowKeeps DEF AInv
<1>4. Enabled(o)' /\ \A x \in Objects \ {o} : Enabled(x)' <=> Enabled(x)
  BY <1>3 DEF Enabled
<1>5. /\ dwFrame' = dwFrame /\ objects_active' = objects_active \cup {o}
      /\ objects_sleeping' = objects_sleeping /\ o \notin objects_sleeping
  BY DEF Spawn, Call, frame, Live
<1> QED
  BY <1>3, <1>4, <1>5 DEF AInv, Typed, ActiveIffCounted

\* A change of parent makes the object a crow.
LEMMA SetParentAInv ==
  ASSUME AInv, NEW o \in Objects, NEW p \in Objects \cup {None},
         MakeMeCrow(o, [obj[o] EXCEPT !.Parent = p]), UNCHANGED <<lists, frame>>
  PROVE  AInv'
<1>1. /\ [obj[o] EXCEPT !.Parent = p] \in Object
      /\ [obj[o] EXCEPT !.Parent = p].bActiveCounter = obj[o].bActiveCounter
  BY DEF AInv, Typed, Object
<1>2. obj' \in [Objects -> Object] /\ \A x \in Objects : obj'[x].bActiveCounter = obj[x].bActiveCounter
  BY <1>1, MakeMeCrowKeeps DEF AInv
<1> QED
  BY <1>2, CountersKept DEF AInv, Typed, frame, lists

\* setDestroy flags objects.
LEMMA SetDestroyAInv ==
  ASSUME AInv, NEW o \in Objects, SetDestroy(o)
  PROVE  AInv'
<1>1. PICK doomed : obj' = [x \in Objects |-> [obj[x] EXCEPT !.bDestroy = @ \/ x \in ToSet(doomed)]]
  BY DEF SetDestroy
<1>2. \A x \in Objects : /\ [obj[x] EXCEPT !.bDestroy = @ \/ x \in ToSet(doomed)] \in Object
                         /\ obj'[x].bActiveCounter = obj[x].bActiveCounter
  BY <1>1 DEF AInv, Typed, Object
<1> QED
  BY <1>1, <1>2, CountersKept DEF SetDestroy, Call, AInv, Typed, frame, lists

\* Update takes the marks of the crows away.
LEMMA UpdateWorkAInv ==
  ASSUME AInv, NEW work, UpdateWork(work)
  PROVE  AInv'
<1>1. obj' = [o \in Objects |-> [obj[o] EXCEPT
            !.crow = @ /\ o \notin ToSet(m_primary_crows \o work),
            !.dwFrame_AsCrow = IF o \in ToSet(work) THEN NoFrame ELSE @]]
  BY DEF UpdateWork
<1>2. ASSUME NEW o \in Objects
      PROVE  obj'[o] \in Object /\ obj'[o].bActiveCounter = obj[o].bActiveCounter
  <2> DEFINE c == obj[o].crow /\ o \notin ToSet(m_primary_crows \o work)
             f == IF o \in ToSet(work) THEN NoFrame ELSE obj[o].dwFrame_AsCrow
  <2>1. obj'[o] = [obj[o] EXCEPT !.crow = c, !.dwFrame_AsCrow = f]
    BY <1>1
  <2>2. obj[o] \in Object
    BY DEF AInv, Typed
  <2>3. c \in BOOLEAN
    OBVIOUS
  <2>4. f \in Frames
    BY <2>2, FrameNumbers DEF AInv, Object
  <2> HIDE DEF c, f
  <2> QED
    BY <2>1, <2>2, <2>3, <2>4 DEF Object
<1>3. obj' \in [Objects -> Object]
  BY <1>1, <1>2
<1> QED
  BY <1>2, <1>3, CountersKept DEF UpdateWork, AInv, Typed, lists

\* One field of one object that is not its counter.
LEMMA MarkAInv ==
  ASSUME AInv, NEW o, UNCHANGED <<lists, dwFrame>>,
         \/ obj' = obj
         \/ obj' = [obj EXCEPT ![o].crow = TRUE]
         \/ obj' = [obj EXCEPT ![o].dwFrame_AsCrow = dwFrame]
         \/ obj' = [obj EXCEPT ![o].dwFrame_UpdateCL = dwFrame]
  PROVE  AInv'
<1>1. \A r \in Object : /\ [r EXCEPT !.crow = TRUE] \in Object
                        /\ [r EXCEPT !.dwFrame_AsCrow = dwFrame] \in Object
                        /\ [r EXCEPT !.dwFrame_UpdateCL = dwFrame] \in Object
  <2>1. dwFrame \in Frames
    BY FrameNumbers DEF AInv
  <2> QED
    BY <2>1 DEF Object
<1>2. \A x \in Objects : obj'[x] \in Object /\ obj'[x].bActiveCounter = obj[x].bActiveCounter
  <2> SUFFICES ASSUME NEW x \in Objects
               PROVE  obj'[x] \in Object /\ obj'[x].bActiveCounter = obj[x].bActiveCounter
    OBVIOUS
  <2>1. obj \in [Objects -> Object] /\ obj[x] \in Object
    BY DEF AInv, Typed
  <2>2. obj'[x] \in {obj[x], [obj[x] EXCEPT !.crow = TRUE], [obj[x] EXCEPT !.dwFrame_AsCrow = dwFrame],
                     [obj[x] EXCEPT !.dwFrame_UpdateCL = dwFrame]}
    BY <2>1
  <2>3. /\ [obj[x] EXCEPT !.crow = TRUE].bActiveCounter = obj[x].bActiveCounter
        /\ [obj[x] EXCEPT !.dwFrame_AsCrow = dwFrame].bActiveCounter = obj[x].bActiveCounter
        /\ [obj[x] EXCEPT !.dwFrame_UpdateCL = dwFrame].bActiveCounter = obj[x].bActiveCounter
    BY <2>1 DEF Object
  <2> QED
    BY <1>1, <2>1, <2>2, <2>3
<1>3. DOMAIN obj' = Objects /\ obj' = [x \in Objects |-> obj'[x]]
  BY DEF AInv, Typed
<1>4. obj' \in [Objects -> Object]
  BY <1>2, <1>3
<1> QED
  BY <1>2, <1>4, CountersKept DEF AInv, Typed

\* Destroy leaves the memory of a new object, which is not enabled, on no list.
LEMMA DestroyAInv ==
  ASSUME AInv, NEW o, NEW by \in [Objects -> Object], Destroyed(o, by), UNCHANGED dwFrame,
         \A x \in Objects : by[x].bActiveCounter = obj[x].bActiveCounter
  PROVE  AInv'
<1>1. New \in Object /\ New.bActiveCounter = 0
  BY FrameNumbers, Counters DEF AInv, New, Object
<1>2. obj' \in [Objects -> Object] /\ \A x \in Objects : obj'[x] = IF x = o THEN New ELSE by[x]
  BY <1>1 DEF Destroyed
<1>3. \A x \in Objects : Enabled(x)' <=> (x # o /\ Enabled(x))
  BY <1>1, <1>2 DEF Enabled
<1> QED
  BY <1>2, <1>3 DEF AInv, Typed, ActiveIffCounted, Destroyed

\* Flags of destruction leave the other fields, and free memory, as they are.
LEMMA FlagsSet ==
  ASSUME AInv, NEW doomed, ToSet(doomed) \subseteq Live
  PROVE  LET by == [x \in Objects |-> [obj[x] EXCEPT !.bDestroy = @ \/ x \in ToSet(doomed)]]
         IN  /\ by \in [Objects -> Object]
             /\ \A x \in Objects :
                 /\ by[x].bActiveCounter = obj[x].bActiveCounter /\ by[x].crow = obj[x].crow
                 /\ by[x].Parent = obj[x].Parent /\ (x \notin Live => by[x] = obj[x])
<1> DEFINE by == [x \in Objects |-> [obj[x] EXCEPT !.bDestroy = @ \/ x \in ToSet(doomed)]]
<1>1. ASSUME NEW x \in Objects
      PROVE  /\ by[x] \in Object
             /\ by[x].bActiveCounter = obj[x].bActiveCounter /\ by[x].crow = obj[x].crow
             /\ by[x].Parent = obj[x].Parent /\ (x \notin Live => by[x] = obj[x])
  <2> DEFINE b == obj[x].bDestroy \/ x \in ToSet(doomed)
  <2>1. by[x] = [obj[x] EXCEPT !.bDestroy = b] /\ obj[x] \in Object /\ b \in BOOLEAN
    BY DEF AInv, Typed
  <2>2. x \notin Live => b = obj[x].bDestroy
    <3>1. obj[x].bDestroy \in BOOLEAN
      BY <2>1 DEF Object
    <3> QED
      BY <3>1
  <2> HIDE DEF b, by
  <2> QED
    BY <2>1, <2>2 DEF Object
<1>2. by \in [Objects -> Object]
  BY <1>1
<1> QED
  BY <1>1, <1>2 DEF by

\* One object of Unload: what setDestroy flagged, and Destroy.
LEMMA UnloadsOne ==
  ASSUME AInv, NEW o \in Objects, UnloadNext(o)
  PROVE  \E doomed, by :
          /\ Destroyed(o, by) /\ by \in [Objects -> Object]
          /\ \A x \in Objects :
              /\ by[x].bActiveCounter = obj[x].bActiveCounter /\ by[x].crow = obj[x].crow
              /\ x \notin Live => by[x] = obj[x]
          /\ destroy_queue' = destroy_queue \o doomed /\ doomed \in Seq(Objects)
<1>1. PICK doomed \in IF obj[o].bDestroy THEN {<<>>} ELSE Registered(o) :
        /\ destroy_queue' = destroy_queue \o doomed
        /\ Destroyed(o, [x \in Objects |-> [obj[x] EXCEPT !.bDestroy = @ \/ x \in ToSet(doomed)]])
  BY DEF UnloadNext
<1>2. doomed \in Seq(Objects) /\ ToSet(doomed) \subseteq Live
  <2>1. CASE obj[o].bDestroy
    BY <1>1, <2>1, SetOfSeq
  <2>2. CASE ~obj[o].bDestroy
    <3>1. doomed \in SetToSeqs(Carried(o))
      BY <1>1, <2>2 DEF Registered
    <3>2. Carried(o) \subseteq Live /\ Live \subseteq Objects
      BY DEF Carried, Live, AInv, Typed
    <3>3. IsFiniteSet(Carried(o)) /\ Carried(o) \subseteq Objects
      BY <3>2, FS_Subset, ObjectListAssumption
    <3>4. doomed \in Seq(Carried(o)) /\ ToSet(doomed) = Carried(o)
      BY <3>1, <3>3, ListingOf
    <3> QED
      BY <3>2, <3>3, <3>4, SeqMonotonic
  <2> QED
    BY <2>1, <2>2
<1> DEFINE by == [x \in Objects |-> [obj[x] EXCEPT !.bDestroy = @ \/ x \in ToSet(doomed)]]
<1>3. /\ by \in [Objects -> Object]
      /\ \A x \in Objects : /\ by[x].bActiveCounter = obj[x].bActiveCounter /\ by[x].crow = obj[x].crow
                            /\ x \notin Live => by[x] = obj[x]
  BY <1>2, FlagsSet
<1>4. Destroyed(o, by)
  BY <1>1
<1> HIDE DEF by
<1> QED
  BY <1>1, <1>2, <1>3, <1>4

\* The activity counters: the part is kept.
LEMMA CountersStep ==
  ASSUME AInv, [Next]_vars
  PROVE  AInv'
<1>1. ASSUME NEW o \in Objects, CallMakeMeCrow(o) PROVE AInv'
  BY <1>1, CallMakeMeCrowAInv
<1>2. ASSUME NEW o \in Objects, Activate(o) PROVE AInv'
  BY <1>2, ActivateAInv
<1>3. ASSUME NEW o \in Objects, Deactivate(o) PROVE AInv'
  BY <1>3, DeactivateAInv
<1>4. ASSUME NEW o \in Objects, Reject(o) PROVE AInv'
  BY <1>4, SetParentAInv DEF Reject, Call
<1>5. ASSUME NEW o \in Objects, SetDestroy(o) PROVE AInv'
  BY <1>5, SetDestroyAInv
<1>6. ASSUME NEW o \in Objects, NEW p \in Objects \cup {None}, Spawn(o, p) PROVE AInv'
  BY <1>6, SpawnAInv
<1>7. ASSUME NEW o \in Objects, NEW p \in Objects, Take(o, p) PROVE AInv'
  BY <1>7, SetParentAInv DEF Take, Call
<1>8. ASSUME NEW w \in Workers, NEW o \in Objects, Render(w, o) PROVE AInv'
  BY <1>8, MarkAInv DEF Render, WorkerStep, frame
<1>9. ASSUME NEW w \in Workers, Load(w) \/ CompareExchange(w) \/ OCrow(w) \/ SetCrow(w) PROVE AInv'
  BY <1>9, MarkAInv DEF Load, CompareExchange, OCrow, SetCrow, WorkerStep, frame
<1>10. CASE \/ UpdateBegins \/ UpdateNothing \/ SingleUpdate \/ Descend \/ UpdateCLReturns
           \/ UpdateLoopEnds \/ UpdateEnds \/ RenderBegins \/ UnloadBegins
           \/ \E w \in Workers : MergeList(w)
  BY <1>10, CountersKept
     DEF UpdateBegins, UpdateNothing, SingleUpdate, Descend, UpdateCLReturns, UpdateLoopEnds,
         UpdateEnds, RenderBegins, UnloadBegins, MergeList, Destroying, LoopStep, frame, AInv, Typed
<1>11. CASE UpdateCrows \/ UpdateActive
  BY <1>11, UpdateWorkAInv DEF UpdateCrows, UpdateActive
<1>12. CASE UpdateCL
  BY <1>12, MarkAInv DEF UpdateCL, LoopStep, frame
<1>13. CASE DestroyLast
  <2>1. obj \in [Objects -> Object] /\ Destroyed(destroy_queue[it], obj) /\ UNCHANGED dwFrame
    BY <1>13 DEF AInv, Typed, DestroyLast, Destroy, frame
  <2> QED
    BY <2>1, DestroyAInv
<1>14. CASE FrameEnds
  <2>1. dwFrame' \in 0 .. MaxFrame /\ obj' = obj /\ UNCHANGED lists
    BY <1>14, ObjectListAssumption DEF FrameEnds, AInv, Typed
  <2> QED
    BY <2>1, CountersKept DEF AInv, Typed
<1>15. ASSUME NEW o \in Objects, UnloadNext(o) PROVE AInv'
  <2>1. UNCHANGED dwFrame
    BY <1>15 DEF UnloadNext, frame
  <2> QED
    BY <1>15, <2>1, UnloadsOne, DestroyAInv
<1>16. CASE UNCHANGED vars
  BY <1>16, CountersKept DEF vars, frame, AInv, Typed
<1> QED
  BY <1>1, <1>2, <1>3, <1>4, <1>5, <1>6, <1>7, <1>8, <1>9, <1>10, <1>11, <1>12, <1>13, <1>14, <1>15, <1>16
     DEF Next

\* The lists of active and sleeping objects part the objects by their activity
\* counters in every reachable state.
THEOREM ListsFollowCounters == Spec => []ActiveIffCounted
<1>1. Init => AInv
  <2> SUFFICES ASSUME Init PROVE AInv
    OBVIOUS
  <2>1. New \in Object /\ New.bActiveCounter = 0
    BY ObjectListAssumption, Counters DEF New, Object, Frames, NoFrame
  <2> QED
    BY <2>1, ObjectListAssumption DEF Init, AInv, Typed, ActiveIffCounted, Enabled
<1>2. AInv /\ [Next]_vars => AInv'
  BY CountersStep
<1>3. AInv => ActiveIffCounted
  BY DEF AInv
<1> QED
  BY <1>1, <1>2, <1>3, PTL DEF Spec

-----------------------------------------------------------------------------
(* The invariant of the rest, in parts.  A part is kept by a step that      *)
(* begins in all of them.                                                   *)

\* Threads: where they are in MakeMeCrow, and with what.
WorkerTypes ==
    /\ phase \in Phases /\ calls \in 0 .. MaxCalls
    /\ pc \in [Workers -> {"idle", "load", "cas", "o_crow", "flag"}]
    /\ arg \in [Workers -> Objects \cup {None}] /\ seen \in [Workers -> Frames]

\* Memory that no object is in is as the constructor leaves it.
Free == \A o \in Objects \ Live : obj[o] = New

\* A thread that won the exchange has the object to itself.
Claimed(w) == pc[w] \in {"o_crow", "flag"}
Busy(w) ==
    /\ phase = "render" /\ arg[w] \in Live
    /\ pc[w] = "cas" => seen[w] # dwFrame
    /\ ~Claimed(w) /\ obj[arg[w]].crow => obj[arg[w]].dwFrame_AsCrow = dwFrame
    /\ Claimed(w) => obj[arg[w]].dwFrame_AsCrow = dwFrame /\ ~obj[arg[w]].crow
Claims ==
    /\ \A w \in Workers : pc[w] = "idle" => arg[w] = None
    /\ \A w \in Workers : pc[w] # "idle" => Busy(w)
    /\ \A v, w \in Workers : Claimed(v) /\ Claimed(w) /\ arg[v] = arg[w] => v = w

TInv == WorkerTypes /\ Free /\ Claims

\* Lists of crows: an object is on one of them at most.
CrowTypes == m_primary_crows \in Seq(Objects) /\ m_secondary_crows \in [Workers -> Seq(Objects)]
Lists == Workers \cup {None}
CrowList(l) == IF l = None THEN m_primary_crows ELSE m_secondary_crows[l]
Listed(o) == \E l \in Lists : o \in ToSet(CrowList(l))
Once ==
    /\ \A l \in Lists : IsInjective(CrowList(l))
    /\ \A l, m \in Lists : l # m => ToSet(CrowList(l)) \cap ToSet(CrowList(m)) = {}
    /\ \A o \in Objects : Listed(o) <=> obj[o].crow \/ Pushed(o)

LInv == CrowTypes /\ Once

\* Destruction: what carries a flagged object is flagged, and the part of the
\* queue that is still to come holds the flagged ones, each before what it carries.
\* Unload keeps none of it.
QueueTypes == destroy_queue \in Seq(Objects) /\ it \in 0 .. Len(destroy_queue)
Carrying == \A o \in Live : obj[o].Parent \in Live \cup {None} /\ obj[o].Parent # o
FlaggedBelow == \A o \in Live : obj[o].bDestroy /\ obj[o].Parent # None => obj[obj[o].Parent].bDestroy
Pending == 1 .. IF phase = "destroy" THEN it ELSE Len(destroy_queue)
Queued ==
    /\ \A k \in Pending : obj[destroy_queue[k]].bDestroy
    /\ \A o \in Objects : obj[o].bDestroy => \E k \in Pending : destroy_queue[k] = o
    /\ \A j, k \in Pending : destroy_queue[j] = destroy_queue[k] => j = k
    /\ \A o \in Live, k \in Pending :
        obj[o].Parent = destroy_queue[k] => \E j \in Pending : j > k /\ destroy_queue[j] = o

QInv == QueueTypes /\ (phase # "unload" => Carrying /\ FlaggedBelow /\ Queued)

\* Updates: the recursion follows the parents, and what is owed is still to come.
LoopTypes == workload \in Seq(Objects) /\ chain \in Seq(Objects) /\ due \subseteq Objects
Working ==
    /\ ToSet(workload) \subseteq Live /\ ToSet(chain) \subseteq Live
    /\ phase \notin {"update", "descend"} => workload = <<>> /\ chain = <<>>
    /\ phase = "descend" => chain # <<>>
    /\ \A k \in 2 .. Len(chain) : obj[chain[k]].Parent = chain[k - 1]
    /\ phase = "update" /\ chain # <<>> =>
          \/ obj[Head(chain)].dwFrame_UpdateCL = dwFrame
          \/ obj[Head(chain)].Parent = None
          \/ Skipped(obj[Head(chain)].Parent)
Owed ==
    /\ phase \notin {"update", "descend", "destroy"} => due = {}
    /\ phase \in {"update", "descend"} => \A o \in due :
          Enabled(o) /\ (o \in ToSet(workload) \cup ToSet(chain) \/ obj[o].dwFrame_UpdateCL = dwFrame)
    /\ CrowsServed

UInv == LoopTypes /\ Working /\ Owed

IInv == AInv /\ TInv /\ LInv /\ QInv /\ UInv

-----------------------------------------------------------------------------
(* Threads                                                                  *)

\* A step that touches living or new objects only leaves free memory as it was.
LEMMA FreeKept ==
  ASSUME AInv, Free, Live \subseteq Live', \A x \in Objects \ Live' : obj'[x] = obj[x]
  PROVE  Free'
BY DEF Free

\* MakeMeCrow of the main thread changes one object.
LEMMA MakeMeCrowFree ==
  ASSUME IInv, NEW o \in Objects, NEW r \in Object, MakeMeCrow(o, r), Live \cup {o} \subseteq Live'
  PROVE  Free'
<1>1. \A x \in Objects \ {o} : obj'[x] = obj[x]
  BY MakeMeCrowKeeps DEF IInv, AInv
<1> QED
  BY <1>1, FreeKept DEF IInv, TInv

\* Free memory stays as it was.
LEMMA FreeStep ==
  ASSUME IInv, [Next]_vars
  PROVE  Free'
<1>0. AInv /\ Typed /\ Free /\ Claims /\ WorkerTypes /\ obj \in [Objects -> Object]
  BY DEF IInv, AInv, Typed, TInv
<1>1. ASSUME NEW o \in Objects, CallMakeMeCrow(o) PROVE Free'
  <2>1. o \in Live /\ Live' = Live /\ MakeMeCrow(o, obj[o]) /\ obj[o] \in Object
    BY <1>0, <1>1 DEF CallMakeMeCrow, lists, Live
  <2> QED
    BY <2>1, MakeMeCrowFree
<1>2. ASSUME NEW o \in Objects, Activate(o) PROVE Free'
  <2>1. o \in Live /\ Live' = Live
    BY <1>2 DEF Activate, lists, Live
  <2>2. CASE Enabled(o) /\ obj' = [obj EXCEPT ![o].bActiveCounter = @ + 1]
    BY <1>0, <2>1, <2>2, FreeKept
  <2>3. CASE MakeMeCrow(o, [obj[o] EXCEPT !.bActiveCounter = 1])
    <3>1. [obj[o] EXCEPT !.bActiveCounter = 1] \in Object
      BY <1>0, Counters DEF Object
    <3> QED
      BY <2>1, <2>3, <3>1, MakeMeCrowFree
  <2> QED
    BY <1>2, <2>2, <2>3 DEF Activate
<1>3. ASSUME NEW o \in Objects, Deactivate(o) PROVE Free'
  <2>1. o \in Live /\ Live' = Live /\ obj' = [obj EXCEPT ![o].bActiveCounter = @ - 1]
    BY <1>3 DEF Deactivate, lists, Live
  <2> QED
    BY <1>0, <2>1, FreeKept
<1>4. ASSUME NEW o \in Objects, Reject(o) PROVE Free'
  <2>1. o \in Live /\ Live' = Live /\ MakeMeCrow(o, [obj[o] EXCEPT !.Parent = None])
    BY <1>4 DEF Reject, lists, Live
  <2>2. [obj[o] EXCEPT !.Parent = None] \in Object
    BY <1>0 DEF Object
  <2> QED
    BY <2>1, <2>2, MakeMeCrowFree
<1>5. ASSUME NEW o \in Objects, SetDestroy(o) PROVE Free'
  <2>1. PICK doomed \in Registered(o) :
          obj' = [x \in Objects |-> [obj[x] EXCEPT !.bDestroy = @ \/ x \in ToSet(doomed)]]
    BY <1>5 DEF SetDestroy
  <2>2. ToSet(doomed) \subseteq Live
    BY DEF Registered, SetToSeqs, ToSet, Carried
  <2>3. Live' = Live
    BY <1>5 DEF SetDestroy, lists, Live
  <2>4. ASSUME NEW x \in Objects \ Live PROVE obj'[x] = obj[x]
    <3>1. x \notin ToSet(doomed) /\ obj[x] \in Object
      BY <1>0, <2>2
    <3>2. obj'[x] = [obj[x] EXCEPT !.bDestroy = obj[x].bDestroy]
      <4>1. obj[x].bDestroy \in BOOLEAN
        BY <3>1 DEF Object
      <4>2. (obj[x].bDestroy \/ x \in ToSet(doomed)) = obj[x].bDestroy
        BY <3>1, <4>1
      <4> QED
        BY <2>1, <4>2
    <3> QED
      BY <3>1, <3>2 DEF Object
  <2> QED
    BY <1>0, <2>3, <2>4, FreeKept
<1>6. ASSUME NEW o \in Objects, NEW p \in Objects \cup {None}, Spawn(o, p) PROVE Free'
  <2>1. PICK garbage \in {NoFrame, dwFrame} :
          MakeMeCrow(o, [New EXCEPT !.bActiveCounter = 1, !.Parent = p, !.dwFrame_UpdateCL = garbage])
    BY <1>6 DEF Spawn
  <2>2. [New EXCEPT !.bActiveCounter = 1, !.Parent = p, !.dwFrame_UpdateCL = garbage] \in Object
    BY <1>0, FrameNumbers, Counters DEF New, Object
  <2>3. Live \cup {o} \subseteq Live'
    BY <1>6 DEF Spawn, Live
  <2> QED
    BY <2>1, <2>2, <2>3, MakeMeCrowFree
<1>7. ASSUME NEW o \in Objects, NEW p \in Objects, Take(o, p) PROVE Free'
  <2>1. o \in Live /\ Live' = Live /\ MakeMeCrow(o, [obj[o] EXCEPT !.Parent = p])
    BY <1>7 DEF Take, lists, Live
  <2>2. [obj[o] EXCEPT !.Parent = p] \in Object
    BY <1>0 DEF Object
  <2> QED
    BY <2>1, <2>2, MakeMeCrowFree
<1>8. ASSUME NEW w \in Workers,
             (\E o \in Objects : Render(w, o)) \/ Load(w) \/ CompareExchange(w) \/ OCrow(w) \/ SetCrow(w)
      PROVE  Free'
  <2>1. Live' = Live
    BY <1>8 DEF Render, Load, CompareExchange, OCrow, SetCrow, WorkerStep, lists, Live
  <2>2. \/ obj' = obj
        \/ /\ arg[w] \in Live
           /\ \/ obj' = [obj EXCEPT ![arg[w]].dwFrame_AsCrow = dwFrame]
              \/ obj' = [obj EXCEPT ![arg[w]].crow = TRUE]
    BY <1>0, <1>8 DEF Render, Load, CompareExchange, OCrow, SetCrow, Claims, Busy
  <2>3. \A x \in Objects \ Live : obj'[x] = obj[x]
    BY <1>0, <2>2
  <2> QED
    BY <1>0, <2>1, <2>3, FreeKept
<1>9. CASE \/ UpdateBegins \/ UpdateNothing \/ SingleUpdate \/ Descend \/ UpdateCLReturns
           \/ UpdateLoopEnds \/ UpdateEnds \/ RenderBegins \/ FrameEnds \/ UnloadBegins
           \/ \E w \in Workers : MergeList(w)
  <2>1. Live' = Live /\ obj' = obj
    BY <1>9 DEF UpdateBegins, UpdateNothing, SingleUpdate, Descend, UpdateCLReturns, UpdateLoopEnds,
                UpdateEnds, RenderBegins, FrameEnds, UnloadBegins, MergeList, LoopStep, lists, Live
  <2> QED
    BY <1>0, <2>1, FreeKept
<1>10. ASSUME NEW work, UpdateWork(work) PROVE Free'
  <2> SUFFICES ASSUME NEW x \in Objects \ Live' PROVE obj'[x] = New
    BY DEF Free
  <2>1. obj[x] = New
    BY <1>0, <1>10 DEF UpdateWork, lists, Live, Free
  <2>2. obj'[x] = [New EXCEPT !.crow = FALSE, !.dwFrame_AsCrow = NoFrame]
    <3> DEFINE c == obj[x].crow /\ x \notin ToSet(m_primary_crows \o work)
               f == IF x \in ToSet(work) THEN NoFrame ELSE obj[x].dwFrame_AsCrow
    <3>1. obj'[x] = [obj[x] EXCEPT !.crow = c, !.dwFrame_AsCrow = f]
      BY <1>10 DEF UpdateWork
    <3>2. c = FALSE /\ f = NoFrame
      BY <2>1 DEF New
    <3> QED
      BY <2>1, <3>1, <3>2
  <2> QED
    BY <2>2 DEF New
<1>11. CASE UpdateCL
  <2>1. Head(chain) \in Live
    <3>1. chain \in Seq(Objects) /\ chain # <<>> /\ ToSet(chain) \subseteq Live
      BY <1>11 DEF UpdateCL, IInv, UInv, LoopTypes, Working
    <3> QED
      BY <3>1, TailSet
  <2>2. Live' = Live /\ obj' = [obj EXCEPT ![Head(chain)].dwFrame_UpdateCL = dwFrame]
    BY <1>11 DEF UpdateCL, LoopStep, lists, Live
  <2>3. \A x \in Objects \ Live : obj'[x] = obj[x]
    BY <1>0, <2>1, <2>2
  <2> QED
    BY <1>0, <2>2, <2>3, FreeKept
<1>12. CASE DestroyLast
  <2>1. PICK o : obj' = [obj EXCEPT ![o] = New] /\ Live' = Live \ {o}
    BY <1>12 DEF DestroyLast, Destroy, Destroyed, Live
  <2> QED
    BY <1>0, <2>1 DEF Free
<1>13. ASSUME NEW o \in Objects, UnloadNext(o) PROVE Free'
  <2>1. PICK by : /\ Destroyed(o, by) /\ by \in [Objects -> Object]
                  /\ \A x \in Objects : x \notin Live => by[x] = obj[x]
    BY <1>0, <1>13, UnloadsOne
  <2>2. Live' = Live \ {o} /\ obj' = [by EXCEPT ![o] = New]
    BY <2>1 DEF Destroyed, Live
  <2> QED
    BY <1>0, <2>1, <2>2 DEF Free
<1>14. CASE UNCHANGED vars
  <2>1. Live' = Live /\ obj' = obj
    BY <1>14 DEF vars, lists, Live
  <2> QED
    BY <1>0, <2>1, FreeKept
<1> QED
  BY <1>1, <1>2, <1>3, <1>4, <1>5, <1>6, <1>7, <1>8, <1>9, <1>10, <1>11, <1>12, <1>13, <1>14
     DEF Next, UpdateCrows, UpdateActive

\* Where no thread is in MakeMeCrow before and after, the claims hold.
LEMMA ClaimsRest ==
  ASSUME IInv, \A w \in Workers : pc[w] = "idle", UNCHANGED workers
  PROVE  Claims'
<1>1. \A w \in Workers : pc'[w] = "idle" /\ arg'[w] = None
  BY DEF IInv, TInv, Claims, workers
<1> QED
  BY <1>1 DEF Claims, Claimed

\* Outside of rendering no thread is in MakeMeCrow.
LEMMA AllIdle ==
  ASSUME IInv, phase # "render"
  PROVE  \A w \in Workers : pc[w] = "idle"
BY DEF IInv, TInv, Claims, Busy

\* What a thread does to its own place.
LEMMA WorkerMoves ==
  ASSUME IInv, NEW w \in Workers,
         (\E o \in Objects : Render(w, o)) \/ Load(w) \/ CompareExchange(w) \/ OCrow(w) \/ SetCrow(w)
  PROVE  /\ \A v \in Workers \ {w} : pc'[v] = pc[v] /\ arg'[v] = arg[v] /\ seen'[v] = seen[v]
         /\ phase' = phase /\ dwFrame' = dwFrame /\ calls' = calls /\ Live' = Live /\ WorkerTypes'
<1>0. /\ WorkerTypes /\ Typed /\ obj \in [Objects -> Object] /\ NoFrame \in Frames /\ Live \subseteq Objects
  BY FrameNumbers DEF IInv, AInv, Typed, TInv, Live
<1>1. phase' = phase /\ dwFrame' = dwFrame /\ calls' = calls /\ Live' = Live
  BY DEF Render, Load, CompareExchange, OCrow, SetCrow, WorkerStep, lists, frame, Live
<1>2. PICK p \in {"idle", "load", "cas", "o_crow", "flag"} : pc' = [pc EXCEPT ![w] = p]
  BY <1>0 DEF Render, Load, CompareExchange, OCrow, SetCrow, Return, WorkerTypes
<1>3. PICK a \in Objects \cup {None} : arg' = [arg EXCEPT ![w] = a]
  <2>1. arg = [arg EXCEPT ![w] = arg[w]] /\ arg[w] \in Objects \cup {None}
    BY <1>0 DEF WorkerTypes
  <2>2. \/ arg' = arg
        \/ \E o \in Objects \cup {None} : arg' = [arg EXCEPT ![w] = o]
    BY <1>0 DEF Render, Load, CompareExchange, OCrow, SetCrow, Return
  <2> QED
    BY <2>1, <2>2
<1>4. PICK f \in Frames : seen' = [seen EXCEPT ![w] = f]
  <2>1. seen = [seen EXCEPT ![w] = seen[w]] /\ seen[w] \in Frames
    BY <1>0 DEF WorkerTypes
  <2>2. ASSUME Load(w) PROVE obj[arg[w]].dwFrame_AsCrow \in Frames
    <3>1. arg[w] \in Objects
      BY <1>0, <2>2 DEF IInv, TInv, Claims, Busy, Load
    <3> QED
      BY <1>0, <3>1 DEF Object
  <2>3. \/ seen' = seen
        \/ \E g \in Frames : seen' = [seen EXCEPT ![w] = g]
    BY <1>0, <2>2 DEF Render, Load, CompareExchange, OCrow, SetCrow, Return
  <2> QED
    BY <2>1, <2>3
<1> QED
  BY <1>0, <1>1, <1>2, <1>3, <1>4 DEF WorkerTypes

\* The claims survive a step of one thread that is right for that thread, marks
\* the object at most and flags it as a crow only when it was claimed.
LEMMA ClaimsKept ==
  ASSUME IInv, NEW w \in Workers,
         (\E o \in Objects : Render(w, o)) \/ Load(w) \/ CompareExchange(w) \/ OCrow(w) \/ SetCrow(w),
         pc'[w] = "idle" => arg'[w] = None,
         pc'[w] # "idle" => Busy(w)',
         Claimed(w)' => \A v \in Workers \ {w} : Claimed(v) => arg[v] # arg'[w],
         \A o \in Live : obj'[o].dwFrame_AsCrow = obj[o].dwFrame_AsCrow \/ obj'[o].dwFrame_AsCrow = dwFrame,
         \A o \in Live : \/ obj'[o].crow = obj[o].crow
                         \/ obj'[o].dwFrame_AsCrow = dwFrame /\ \A v \in Workers \ {w} : Claimed(v) => arg[v] # o
  PROVE  Claims'
<1>1. /\ \A v \in Workers \ {w} : pc'[v] = pc[v] /\ arg'[v] = arg[v] /\ seen'[v] = seen[v]
      /\ phase' = phase /\ dwFrame' = dwFrame /\ Live' = Live
  BY WorkerMoves
<1>2. ASSUME NEW v \in Workers \ {w}, pc[v] # "idle" PROVE Busy(v)'
  <2>1. Busy(v) /\ arg[v] \in Live
    BY <1>2 DEF IInv, TInv, Claims, Busy
  <2>2. /\ obj'[arg[v]].dwFrame_AsCrow = obj[arg[v]].dwFrame_AsCrow \/ obj'[arg[v]].dwFrame_AsCrow = dwFrame
        /\ \/ obj'[arg[v]].crow = obj[arg[v]].crow
           \/ obj'[arg[v]].dwFrame_AsCrow = dwFrame /\ ~Claimed(v)
    BY <2>1
  <2> QED
    BY <1>1, <2>1, <2>2 DEF Busy, Claimed
<1>3. ASSUME NEW u \in Workers, NEW v \in Workers, Claimed(u)', Claimed(v)', arg'[u] = arg'[v]
      PROVE  u = v
  BY <1>1, <1>3 DEF IInv, TInv, Claims, Claimed
<1>4. \A v \in Workers : pc'[v] = "idle" => arg'[v] = None
  BY <1>1 DEF IInv, TInv, Claims
<1>5. \A v \in Workers : pc'[v] # "idle" => Busy(v)'
  BY <1>1, <1>2
<1> QED
  BY <1>3, <1>4, <1>5 DEF Claims

\* The steps of the threads keep the claims.
LEMMA WorkerClaims ==
  ASSUME IInv, NEW w \in Workers,
         (\E o \in Objects : Render(w, o)) \/ Load(w) \/ CompareExchange(w) \/ OCrow(w) \/ SetCrow(w)
  PROVE  Claims'
<1>0. /\ WorkerTypes /\ Claims /\ obj \in [Objects -> Object] /\ Live \subseteq Objects
      /\ phase' = phase /\ dwFrame' = dwFrame /\ Live' = Live
  BY WorkerMoves DEF IInv, TInv, AInv, Typed, Live
<1>1. \A o \in Live : obj[o] \in Object
  BY <1>0
<1>2. ASSUME NEW o \in Objects, Render(w, o) PROVE Claims'
  <2>1. obj' = obj /\ pc'[w] = "load" /\ arg'[w] = o /\ o \in Live /\ phase = "render" /\ ~obj[o].crow
    BY <1>0, <1>2 DEF Render, WorkerTypes
  <2>2. Busy(w)'
    BY <1>0, <2>1 DEF Busy, Claimed
  <2> QED
    BY <1>2, <2>1, <2>2, ClaimsKept DEF Claimed
<1>3. CASE Load(w)
  <2>1. obj' = obj /\ pc[w] = "load" /\ Busy(w)
    BY <1>0, <1>3 DEF Load, Claims
  <2>2. CASE Return(w)
    <3>1. pc'[w] = "idle" /\ arg'[w] = None
      BY <1>0, <2>2 DEF Return, WorkerTypes
    <3> QED
      BY <1>3, <2>1, <3>1, ClaimsKept DEF Claimed
  <2>3. CASE /\ obj[arg[w]].dwFrame_AsCrow # dwFrame /\ pc' = [pc EXCEPT ![w] = "cas"]
             /\ seen' = [seen EXCEPT ![w] = obj[arg[w]].dwFrame_AsCrow] /\ UNCHANGED arg
    <3>1. pc'[w] = "cas" /\ arg'[w] = arg[w] /\ seen'[w] # dwFrame
      BY <1>0, <2>3 DEF WorkerTypes
    <3>2. Busy(w)'
      BY <1>0, <2>1, <3>1 DEF Busy, Claimed
    <3> QED
      BY <1>3, <2>1, <3>1, <3>2, ClaimsKept DEF Claimed
  <2> QED
    BY <1>3, <2>2, <2>3 DEF Load
<1>4. CASE CompareExchange(w)
  <2>1. pc[w] = "cas" /\ Busy(w) /\ arg[w] \in Live /\ seen[w] # dwFrame
    BY <1>0, <1>4 DEF CompareExchange, Claims, Busy
  <2>2. CASE Return(w) /\ UNCHANGED obj
    <3>1. pc'[w] = "idle" /\ arg'[w] = None
      BY <1>0, <2>2 DEF Return, WorkerTypes
    <3> QED
      BY <1>4, <2>2, <3>1, ClaimsKept DEF Claimed
  <2>3. CASE /\ obj[arg[w]].dwFrame_AsCrow = seen[w] /\ pc' = [pc EXCEPT ![w] = "o_crow"]
             /\ obj' = [obj EXCEPT ![arg[w]].dwFrame_AsCrow = dwFrame] /\ UNCHANGED <<arg, seen>>
    <3>1. pc'[w] = "o_crow" /\ arg'[w] = arg[w]
      BY <1>0, <2>3 DEF WorkerTypes
    <3>2. obj[arg[w]].dwFrame_AsCrow # dwFrame /\ ~obj[arg[w]].crow
      BY <2>1, <2>3 DEF Busy, Claimed
    <3>3. /\ \A o \in Live : obj'[o].crow = obj[o].crow
          /\ \A o \in Live : \/ obj'[o].dwFrame_AsCrow = obj[o].dwFrame_AsCrow
                             \/ obj'[o].dwFrame_AsCrow = dwFrame
          /\ obj'[arg[w]].dwFrame_AsCrow = dwFrame
      BY <1>0, <1>1, <2>1, <2>3 DEF Object
    <3>4. Busy(w)'
      BY <1>0, <2>1, <3>1, <3>2, <3>3 DEF Busy, Claimed
    <3>5. ASSUME NEW v \in Workers \ {w}, Claimed(v) PROVE arg[v] # arg'[w]
      <4>1. Busy(v)
        BY <1>0, <3>5 DEF Claims, Claimed
      <4> QED
        BY <3>1, <3>2, <3>5, <4>1 DEF Busy
    <3> QED
      BY <1>4, <3>1, <3>3, <3>4, <3>5, ClaimsKept
  <2> QED
    BY <1>4, <2>2, <2>3 DEF CompareExchange
<1>5. CASE OCrow(w)
  <2>1. /\ pc[w] = "o_crow" /\ Busy(w) /\ arg[w] \in Live /\ Claimed(w)
        /\ obj' = [obj EXCEPT ![arg[w]].dwFrame_AsCrow = dwFrame]
    BY <1>0, <1>5 DEF OCrow, Claims, Busy, Claimed
  <2>2. pc'[w] = "flag" /\ arg'[w] = arg[w]
    BY <1>0, <1>5 DEF OCrow, WorkerTypes
  <2>3. /\ \A o \in Live : obj'[o].crow = obj[o].crow
        /\ \A o \in Live : \/ obj'[o].dwFrame_AsCrow = obj[o].dwFrame_AsCrow
                           \/ obj'[o].dwFrame_AsCrow = dwFrame
        /\ obj'[arg[w]].dwFrame_AsCrow = dwFrame
    BY <1>0, <1>1, <2>1 DEF Object
  <2>4. Busy(w)'
    BY <1>0, <2>1, <2>2, <2>3 DEF Busy, Claimed
  <2>5. \A v \in Workers \ {w} : Claimed(v) => arg[v] # arg'[w]
    BY <1>0, <2>1, <2>2 DEF Claims
  <2> QED
    BY <1>5, <2>2, <2>3, <2>4, <2>5, ClaimsKept
<1>6. CASE SetCrow(w)
  <2>1. /\ pc[w] = "flag" /\ Busy(w) /\ arg[w] \in Live /\ Claimed(w)
        /\ obj' = [obj EXCEPT ![arg[w]].crow = TRUE]
    BY <1>0, <1>6 DEF SetCrow, Claims, Busy, Claimed
  <2>2. pc'[w] = "idle" /\ arg'[w] = None
    BY <1>0, <1>6 DEF SetCrow, Return, WorkerTypes
  <2>3. /\ \A o \in Live : obj'[o].dwFrame_AsCrow = obj[o].dwFrame_AsCrow
        /\ \A o \in Live : o # arg[w] => obj'[o].crow = obj[o].crow
    BY <1>0, <1>1, <2>1 DEF Object
  <2>4. obj'[arg[w]].dwFrame_AsCrow = dwFrame
    BY <2>1, <2>3 DEF Busy
  <2>5. \A v \in Workers \ {w} : Claimed(v) => arg[v] # arg[w]
    BY <1>0, <2>1 DEF Claims
  <2> QED
    BY <1>6, <2>2, <2>3, <2>4, <2>5, ClaimsKept DEF Claimed
<1> QED
  BY <1>2, <1>3, <1>4, <1>5, <1>6

\* A step that is not of a thread, where the phase and the calls stay in range.
LEMMA ThreadsRest ==
  ASSUME IInv, \A w \in Workers : pc[w] = "idle", UNCHANGED workers,
         phase' \in Phases, calls' \in 0 .. MaxCalls
  PROVE  WorkerTypes' /\ Claims'
BY ClaimsRest DEF IInv, TInv, WorkerTypes, workers

\* A game call.
LEMMA CallThreads ==
  ASSUME IInv, phase # "render", UNCHANGED <<frame, workers>>, Call \/ calls' = calls
  PROVE  WorkerTypes' /\ Claims'
<1>1. calls \in 0 .. MaxCalls /\ MaxCalls \in Nat /\ phase \in Phases
  BY ObjectListAssumption DEF IInv, TInv, WorkerTypes
<1>2. calls' \in 0 .. MaxCalls /\ phase' \in Phases
  BY <1>1 DEF Call, frame
<1> QED
  BY <1>2, AllIdle, ThreadsRest

\* Threads: the part is kept.
LEMMA ThreadsStep ==
  ASSUME IInv, [Next]_vars
  PROVE  TInv'
<1>0. phase \in Phases /\ calls \in 0 .. MaxCalls
  BY DEF IInv, TInv, WorkerTypes
<1>1. ASSUME NEW o \in Objects,
             \/ CallMakeMeCrow(o) \/ Activate(o) \/ Deactivate(o) \/ Reject(o) \/ SetDestroy(o)
             \/ \E p \in Objects \cup {None} : Spawn(o, p)
             \/ \E p \in Objects : Take(o, p)
      PROVE  WorkerTypes' /\ Claims'
  <2>1. phase # "render" /\ UNCHANGED <<frame, workers>> /\ (Call \/ calls' = calls)
    BY <1>1 DEF CallMakeMeCrow, Activate, Deactivate, Reject, SetDestroy, Spawn, Take, GameRuns, InUpdateCL, Call
  <2> QED
    BY <2>1, CallThreads
<1>2. ASSUME NEW w \in Workers,
             (\E o \in Objects : Render(w, o)) \/ Load(w) \/ CompareExchange(w) \/ OCrow(w) \/ SetCrow(w)
      PROVE  WorkerTypes' /\ Claims'
  BY <1>2, WorkerMoves, WorkerClaims
<1>3. ASSUME \/ UpdateBegins \/ UpdateNothing \/ SingleUpdate \/ Descend \/ UpdateCL \/ UpdateCLReturns
             \/ UpdateLoopEnds \/ DestroyLast \/ UpdateEnds \/ RenderBegins \/ UnloadBegins
             \/ UpdateCrows \/ UpdateActive
             \/ \E w \in Workers : MergeList(w)
             \/ \E o \in Objects : UnloadNext(o)
      PROVE  WorkerTypes' /\ Claims'
  <2>1. phase # "render" /\ phase' \in Phases /\ UNCHANGED workers /\ calls' = calls
    BY <1>0, <1>3
       DEF UpdateBegins, UpdateNothing, SingleUpdate, Descend, UpdateCL, UpdateCLReturns, UpdateLoopEnds,
           DestroyLast, UpdateEnds, RenderBegins, UnloadBegins, UnloadNext, UpdateCrows, UpdateActive, UpdateWork, MergeList,
           Merged, Destroying, LoopStep, InUpdateCL, frame, Phases
  <2> QED
    BY <1>0, <2>1, AllIdle, ThreadsRest
<1>4. ASSUME FrameEnds
      PROVE  WorkerTypes' /\ Claims'
  <2>1. /\ \A w \in Workers : pc[w] = "idle"
        /\ UNCHANGED workers /\ phase' \in Phases /\ calls' \in 0 .. MaxCalls
    BY <1>0, <1>4 DEF FrameEnds, Phases
  <2> QED
    BY <2>1, ThreadsRest
<1>5. ASSUME UNCHANGED vars
      PROVE  WorkerTypes' /\ Claims'
  <2>1. /\ UNCHANGED <<phase, calls, pc, arg, seen, obj, dwFrame>> /\ Live' = Live
        /\ WorkerTypes /\ Claims
    BY <1>5 DEF IInv, TInv, Live, vars, lists, frame, workers
  <2>2. WorkerTypes'
    BY <2>1 DEF WorkerTypes
  <2>3. \A w \in Workers : (Claimed(w)' <=> Claimed(w)) /\ (Busy(w)' <=> Busy(w))
    BY <2>1 DEF Busy, Claimed
  <2>4. Claims'
    BY <2>1, <2>3 DEF Claims
  <2> QED
    BY <2>2, <2>4
<1>6. Free'
  BY FreeStep
<1> QED
  BY <1>1, <1>2, <1>3, <1>4, <1>5, <1>6 DEF Next, TInv

-----------------------------------------------------------------------------
(* Lists of crows                                                           *)

\* The list of a worker and the primary one.
LEMMA ListFacts ==
  ASSUME LInv
  PROVE  /\ None \notin Workers /\ None \in Lists /\ Workers \subseteq Lists
         /\ CrowList(None) = m_primary_crows /\ \A w \in Workers : CrowList(w) = m_secondary_crows[w]
         /\ \A l \in Lists : CrowList(l) \in Seq(Objects)
BY ObjectListAssumption DEF LInv, CrowTypes, CrowList, Lists, Workers

\* Which objects are flagged, or about to be.
Marked(o) == obj[o].crow \/ Pushed(o)

\* A step that changes no list and no mark.
LEMMA ListsKept ==
  ASSUME IInv, UNCHANGED crows, \A o \in Objects : Marked(o)' <=> Marked(o)
  PROVE  LInv'
<1>1. LInv /\ \A l \in Lists : CrowList(l)' = CrowList(l)
  BY DEF IInv, crows, CrowList
<1>2. \A o \in Objects : Listed(o)' <=> Listed(o)
  BY <1>1 DEF Listed
<1>3. CrowTypes'
  BY <1>1 DEF LInv, CrowTypes, crows
<1>4. Once'
  BY <1>1, <1>2 DEF LInv, Once, Marked
<1> QED
  BY <1>3, <1>4 DEF LInv

\* An object that is on no list goes to the end of one.
LEMMA ListsAppend ==
  ASSUME IInv, NEW o \in Objects, NEW w \in Workers, ~Marked(o), Marked(o)',
         \A x \in Objects \ {o} : Marked(x)' <=> Marked(x),
         m_primary_crows' = m_primary_crows,
         m_secondary_crows' = [m_secondary_crows EXCEPT ![w] = Append(@, o)]
  PROVE  LInv'
<1>0. LInv /\ CrowTypes /\ Once
  BY DEF IInv, LInv
<1>1. /\ w \in Lists /\ None \notin Workers /\ \A l \in Lists : CrowList(l) \in Seq(Objects)
      /\ CrowList(w)' = Append(CrowList(w), o) /\ \A l \in Lists \ {w} : CrowList(l)' = CrowList(l)
  BY <1>0, ListFacts DEF CrowTypes, CrowList, Lists
<1>2. \A l \in Lists : o \notin ToSet(CrowList(l))
  BY <1>0 DEF Once, Listed, Marked
<1>3. /\ CrowList(w)' \in Seq(Objects) /\ ToSet(CrowList(w)') = ToSet(CrowList(w)) \cup {o}
      /\ IsInjective(CrowList(w)')
  <2>1. IsInjective(CrowList(w)) /\ o \notin ToSet(CrowList(w)) /\ CrowList(w) \in Seq(Objects)
    BY <1>0, <1>1, <1>2 DEF Once
  <2>2. /\ Append(CrowList(w), o) \in Seq(Objects) /\ IsInjective(Append(CrowList(w), o))
        /\ ToSet(Append(CrowList(w), o)) = ToSet(CrowList(w)) \cup {o}
    BY <2>1, AppendSet
  <2> QED
    BY <1>1, <2>2
<1>4. CrowTypes'
  <2>1. Append(m_secondary_crows[w], o) \in Seq(Objects)
    BY <1>0, AppendSet DEF CrowTypes
  <2> QED
    BY <1>0, <2>1 DEF CrowTypes
<1>5. \A l \in Lists : IsInjective(CrowList(l)')
  BY <1>0, <1>1, <1>3 DEF Once
<1>6. \A l, m \in Lists : l # m => ToSet(CrowList(l)') \cap ToSet(CrowList(m)') = {}
  <2> SUFFICES ASSUME NEW l \in Lists, NEW m \in Lists, l # m
               PROVE  ToSet(CrowList(l)') \cap ToSet(CrowList(m)') = {}
    OBVIOUS
  <2>1. ToSet(CrowList(l)) \cap ToSet(CrowList(m)) = {} /\ o \notin ToSet(CrowList(l)) /\ o \notin ToSet(CrowList(m))
    BY <1>0, <1>2 DEF Once
  <2>2. /\ l # w => ToSet(CrowList(l)') = ToSet(CrowList(l))
        /\ m # w => ToSet(CrowList(m)') = ToSet(CrowList(m))
    BY <1>1
  <2> QED
    BY <1>3, <2>1, <2>2
<1>7. \A x \in Objects : Listed(x)' <=> Marked(x)'
  <2>1. Listed(o)'
    BY <1>1, <1>3 DEF Listed
  <2>2. ASSUME NEW x \in Objects \ {o} PROVE Listed(x)' <=> Listed(x)
    <3>1. \A l \in Lists : x \in ToSet(CrowList(l)') <=> x \in ToSet(CrowList(l))
      BY <1>1, <1>3
    <3> QED
      BY <3>1 DEF Listed
  <2>3. \A x \in Objects : Listed(x) <=> Marked(x)
    BY <1>0 DEF Once, Marked
  <2> QED
    BY <2>1, <2>2, <2>3
<1>8. Once'
  BY <1>5, <1>6, <1>7 DEF Once, Marked
<1> QED
  BY <1>4, <1>8 DEF LInv

\* A list goes behind the primary one.
LEMMA ListsMerge ==
  ASSUME IInv, NEW w \in Workers, MergeList(w)
  PROVE  LInv'
<1>0. LInv /\ CrowTypes /\ Once
  BY DEF IInv, LInv
<1>1. /\ w \in Lists /\ None \in Lists /\ w # None /\ \A l \in Lists : CrowList(l) \in Seq(Objects)
      /\ CrowList(None)' = CrowList(None) \o CrowList(w) /\ CrowList(w)' = <<>>
      /\ \A l \in Lists \ {w, None} : CrowList(l)' = CrowList(l)
  BY <1>0, ListFacts DEF CrowTypes, CrowList, Lists, MergeList
<1>2. /\ ToSet(CrowList(w)') = {} /\ IsInjective(CrowList(w)') /\ <<>> \in Seq(Objects)
      /\ ToSet(CrowList(None)') = ToSet(CrowList(None)) \cup ToSet(CrowList(w))
      /\ IsInjective(CrowList(None)') /\ CrowList(None)' \in Seq(Objects)
  <2>1. ToSet(<<>>) = {} /\ IsInjective(<<>>) /\ <<>> \in Seq(Objects)
    BY SetOfSeq
  <2>2. IsInjective(CrowList(None)) /\ IsInjective(CrowList(w)) /\ ToSet(CrowList(None)) \cap ToSet(CrowList(w)) = {}
    BY <1>0, <1>1 DEF Once
  <2>3. /\ CrowList(None) \o CrowList(w) \in Seq(Objects) /\ IsInjective(CrowList(None) \o CrowList(w))
        /\ ToSet(CrowList(None) \o CrowList(w)) = ToSet(CrowList(None)) \cup ToSet(CrowList(w))
    BY <1>1, <2>2, ConcatSet
  <2> QED
    BY <1>1, <2>1, <2>3
<1>3. CrowTypes'
  <2>1. m_primary_crows' \in Seq(Objects)
    BY <1>2 DEF CrowList
  <2> QED
    BY <1>0, <1>2, <2>1 DEF CrowTypes, MergeList
<1>4. \A l \in Lists : IsInjective(CrowList(l)')
  BY <1>0, <1>1, <1>2 DEF Once
<1>5. ASSUME NEW l \in Lists, NEW m \in Lists, l # m
      PROVE  ToSet(CrowList(l)') \cap ToSet(CrowList(m)') = {}
  <2>1. /\ ToSet(CrowList(l)) \cap ToSet(CrowList(m)) = {}
        /\ m # w => ToSet(CrowList(w)) \cap ToSet(CrowList(m)) = {}
        /\ l # w => ToSet(CrowList(w)) \cap ToSet(CrowList(l)) = {}
    BY <1>0, <1>1, <1>5 DEF Once
  <2>2. /\ l \notin {w, None} => ToSet(CrowList(l)') = ToSet(CrowList(l))
        /\ m \notin {w, None} => ToSet(CrowList(m)') = ToSet(CrowList(m))
    BY <1>1
  <2> QED
    BY <1>2, <1>5, <2>1, <2>2
<1>6. ASSUME NEW x \in Objects PROVE Listed(x)' <=> Marked(x)'
  <2>1. Listed(x)' <=> Listed(x)
    <3>1. Listed(x) => Listed(x)'
      BY <1>1, <1>2 DEF Listed
    <3>2. Listed(x)' => Listed(x)
      BY <1>1, <1>2 DEF Listed
    <3> QED
      BY <3>1, <3>2
  <2>2. Marked(x)' <=> Marked(x)
    BY DEF MergeList, Marked, Pushed, workers
  <2>3. Listed(x) <=> Marked(x)
    BY <1>0 DEF Once, Marked
  <2> QED
    BY <2>1, <2>2, <2>3
<1>7. Once'
  BY <1>4, <1>5, <1>6 DEF Once, Marked
<1> QED
  BY <1>3, <1>7 DEF LInv

\* All lists are empty after the step, and no object is marked.
LEMMA ListsEmptied ==
  ASSUME m_primary_crows' = <<>>, m_secondary_crows' \in [Workers -> {<<>>}],
         \A o \in Objects : ~Marked(o)'
  PROVE  LInv'
<1>1. \A l \in Lists : CrowList(l)' = <<>>
  BY DEF Lists, CrowList
<1>2. <<>> \in Seq(Objects) /\ ToSet(<<>>) = {} /\ IsInjective(<<>>)
  BY SetOfSeq
<1>3. CrowTypes'
  BY <1>2 DEF CrowTypes
<1>4. Once'
  BY <1>1, <1>2 DEF Once, Listed, Marked
<1> QED
  BY <1>3, <1>4 DEF LInv

\* A step that keeps the marks of all objects and of all workers.
LEMMA MarksKept ==
  ASSUME IInv, UNCHANGED <<pc, arg, crows>>, \A o \in Objects : obj'[o].crow = obj[o].crow
  PROVE  LInv'
<1>1. \A o \in Objects : Marked(o)' <=> Marked(o)
  BY DEF Marked, Pushed
<1> QED
  BY <1>1, ListsKept

\* Where no thread is in MakeMeCrow, only the crows are marked.
LEMMA OnlyCrows ==
  ASSUME IInv, phase # "render"
  PROVE  \A o \in Objects : ~Pushed(o) /\ (Marked(o) <=> obj[o].crow)
BY AllIdle DEF Marked, Pushed

\* MakeMeCrow on the main thread.
LEMMA MakeMeCrowLists ==
  ASSUME IInv, phase # "render", NEW o \in Objects, NEW r \in Object, r.crow = obj[o].crow,
         MakeMeCrow(o, r), UNCHANGED <<pc, arg>>
  PROVE  LInv'
<1>0. obj \in [Objects -> Object] /\ dwFrame \in Frames
  BY FrameNumbers DEF IInv, AInv, Typed
<1>1. CASE obj' = [obj EXCEPT ![o] = r] /\ UNCHANGED crows
  <2>1. \A x \in Objects : obj'[x].crow = obj[x].crow
    BY <1>0, <1>1
  <2> QED
    BY <1>1, <2>1, MarksKept
<1>2. CASE /\ ~r.crow
           /\ obj' = [obj EXCEPT ![o] = [r EXCEPT !.crow = TRUE, !.dwFrame_AsCrow = dwFrame]]
           /\ m_secondary_crows' = [m_secondary_crows EXCEPT ![Main] = Append(@, o)]
           /\ UNCHANGED m_primary_crows
  <2>1. [r EXCEPT !.crow = TRUE, !.dwFrame_AsCrow = dwFrame].crow = TRUE
    BY DEF Object
  <2>2. obj'[o].crow = TRUE /\ \A x \in Objects \ {o} : obj'[x] = obj[x]
    BY <1>0, <1>2, <2>1
  <2>3. ~Marked(o) /\ Marked(o)' /\ \A x \in Objects \ {o} : Marked(x)' <=> Marked(x)
    BY <1>2, <2>2, OnlyCrows DEF Marked, Pushed
  <2> QED
    BY <1>2, <2>3, ListsAppend DEF Workers
<1> QED
  BY <1>1, <1>2 DEF MakeMeCrow

\* Update takes all crows off their lists.
LEMMA UpdateWorkLists ==
  ASSUME IInv, NEW work \in Seq(Objects), UpdateWork(work)
  PROVE  LInv'
<1>0. /\ LInv /\ Once /\ CrowTypes /\ phase = "merge" /\ obj \in [Objects -> Object]
      /\ \A w \in Workers : m_secondary_crows[w] = <<>>
  BY DEF IInv, LInv, AInv, Typed, UpdateWork, Merged
<1>1. m_primary_crows' = <<>> /\ m_secondary_crows' \in [Workers -> {<<>>}]
  BY <1>0 DEF UpdateWork, CrowTypes
<1>2. ASSUME NEW o \in Objects PROVE ~Marked(o)'
  <2>1. ~Pushed(o)'
    BY <1>0, OnlyCrows DEF UpdateWork, Pushed, workers
  <2>2. obj[o].crow => o \in ToSet(m_primary_crows)
    <3>1. obj[o].crow => Listed(o)
      BY <1>0 DEF Once
    <3>2. \A l \in Workers : CrowList(l) = <<>> /\ o \notin ToSet(<<>>)
      BY <1>0, ListFacts, SetOfSeq
    <3> QED
      BY <1>0, <3>1, <3>2, ListFacts DEF Listed, Lists
  <2>3. ToSet(m_primary_crows \o work) = ToSet(m_primary_crows) \cup ToSet(work)
    BY <1>0, ConcatSet DEF CrowTypes
  <2>4. obj'[o].crow = (obj[o].crow /\ o \notin ToSet(m_primary_crows \o work))
    <3> DEFINE c == obj[o].crow /\ o \notin ToSet(m_primary_crows \o work)
               f == IF o \in ToSet(work) THEN NoFrame ELSE obj[o].dwFrame_AsCrow
    <3>1. obj'[o] = [obj[o] EXCEPT !.crow = c, !.dwFrame_AsCrow = f] /\ obj[o] \in Object
      BY <1>0 DEF UpdateWork
    <3> HIDE DEF c, f
    <3>2. obj'[o].crow = c
      BY <3>1 DEF Object
    <3> QED
      BY <3>2 DEF c
  <2> QED
    BY <2>1, <2>2, <2>3, <2>4 DEF Marked
<1> QED
  BY <1>1, <1>2, ListsEmptied

\* Destroy takes the object off the list it is on.
LEMMA DestroyLists ==
  ASSUME IInv, NEW o, NEW by \in [Objects -> Object], Destroyed(o, by), phase # "render", UNCHANGED workers,
         \A x \in Objects : by[x].crow = obj[x].crow
  PROVE  LInv'
<1>0. LInv /\ Once /\ CrowTypes /\ obj \in [Objects -> Object]
  BY DEF IInv, LInv, AInv, Typed
<1>1. ASSUME NEW l \in Lists
      PROVE  /\ CrowList(l)' \in Seq(Objects) /\ IsInjective(CrowList(l)')
             /\ ToSet(CrowList(l)') = ToSet(CrowList(l)) \ {o}
  <2>1. CrowList(l)' = RemoveFirst(CrowList(l), o)
    BY <1>0 DEF Destroyed, CrowList, Lists
  <2>2. CrowList(l) \in Seq(Objects) /\ IsInjective(CrowList(l))
    BY <1>0, ListFacts DEF Once
  <2> QED
    BY <2>1, <2>2, RemoveSet
<1>2. CrowTypes'
  <2>1. \A w \in Workers : m_secondary_crows'[w] \in Seq(Objects) /\ w \in Lists
    BY <1>0, <1>1, ListFacts DEF CrowList
  <2>2. m_primary_crows' \in Seq(Objects)
    BY <1>0, <1>1, ListFacts DEF CrowList
  <2>3. m_secondary_crows' = [w \in Workers |-> m_secondary_crows'[w]]
    BY DEF Destroyed
  <2> QED
    BY <2>1, <2>2, <2>3 DEF CrowTypes
<1>3. \A l, m \in Lists : l # m => ToSet(CrowList(l)') \cap ToSet(CrowList(m)') = {}
  <2>1. \A l, m \in Lists : l # m => ToSet(CrowList(l)) \cap ToSet(CrowList(m)) = {}
    BY <1>0 DEF Once
  <2> QED
    BY <1>1, <2>1
<1>4. ASSUME NEW x \in Objects PROVE Listed(x)' <=> Marked(x)'
  <2>1. Listed(x)' <=> Listed(x) /\ x # o
    <3>1. \A l \in Lists : x \in ToSet(CrowList(l)') <=> x \in ToSet(CrowList(l)) /\ x # o
      BY <1>1
    <3> QED
      BY <3>1 DEF Listed
  <2>2. Marked(x)' <=> Marked(x) /\ x # o
    <3>1. ~Pushed(x) /\ ~Pushed(x)'
      BY OnlyCrows DEF Pushed, workers
    <3>2. obj'[x] = IF x = o THEN New ELSE by[x]
      BY DEF Destroyed
    <3> QED
      BY <3>1, <3>2 DEF Marked, New
  <2> QED
    BY <1>0, <2>1, <2>2 DEF Once, Marked
<1>5. Once'
  BY <1>1, <1>3, <1>4 DEF Once, Marked
<1> QED
  BY <1>2, <1>5 DEF LInv

\* The steps of the threads: one that claimed an object puts it on its own list
\* and flags it after that.
LEMMA WorkerLists ==
  ASSUME IInv, NEW w \in Workers,
         (\E o \in Objects : Render(w, o)) \/ Load(w) \/ CompareExchange(w) \/ OCrow(w) \/ SetCrow(w)
  PROVE  LInv'
<1>0. /\ WorkerTypes /\ Claims /\ obj \in [Objects -> Object] /\ Live \subseteq Objects
      /\ \A v \in Workers \ {w} : pc'[v] = pc[v] /\ arg'[v] = arg[v]
  BY WorkerMoves DEF IInv, TInv, AInv, Typed, Live
<1>1. ASSUME (\E o \in Objects : Render(w, o)) \/ Load(w) \/ CompareExchange(w)
      PROVE  LInv'
  <2>1. UNCHANGED crows /\ pc[w] # "flag" /\ pc'[w] # "flag"
    BY <1>0, <1>1 DEF Render, Load, CompareExchange, WorkerStep, Return, WorkerTypes, crows
  <2>2. obj' = obj \/ obj' = [obj EXCEPT ![arg[w]].dwFrame_AsCrow = dwFrame]
    BY <1>1 DEF Render, Load, CompareExchange
  <2>3. ASSUME NEW x \in Objects PROVE Marked(x)' <=> Marked(x)
    <3>1. obj[x] \in Object /\ obj'[x].crow = obj[x].crow
      BY <1>0, <2>2 DEF Object
    <3>2. Pushed(x)' <=> Pushed(x)
      BY <1>0, <2>1 DEF Pushed
    <3> QED
      BY <3>1, <3>2 DEF Marked
  <2> QED
    BY <2>1, <2>3, ListsKept
<1>2. CASE OCrow(w)
  <2>0. arg[w] \in Objects
    BY <1>0, <1>2 DEF OCrow, Claims, Busy
  <2> PICK o \in Objects : o = arg[w]
    BY <2>0
  <2>1. /\ pc[w] = "o_crow" /\ pc'[w] = "flag" /\ arg'[w] = o /\ arg[w] = o /\ ~obj[o].crow
        /\ obj' = [obj EXCEPT ![o].dwFrame_AsCrow = dwFrame]
        /\ m_secondary_crows' = [m_secondary_crows EXCEPT ![w] = Append(@, o)]
        /\ m_primary_crows' = m_primary_crows
    BY <1>0, <1>2 DEF OCrow, WorkerStep, WorkerTypes, Claims, Busy, Claimed
  <2>2. ~Pushed(o)
    BY <1>0, <2>1 DEF Pushed, Claims, Claimed
  <2>3. Pushed(o)'
    BY <2>1 DEF Pushed
  <2>4. ASSUME NEW x \in Objects PROVE obj'[x].crow = obj[x].crow
    BY <1>0, <2>1 DEF Object
  <2>5. ASSUME NEW x \in Objects \ {o} PROVE Pushed(x)' <=> Pushed(x)
    BY <1>0, <2>1 DEF Pushed
  <2>6. ~Marked(o) /\ Marked(o)' /\ \A x \in Objects \ {o} : Marked(x)' <=> Marked(x)
    BY <2>1, <2>2, <2>3, <2>4, <2>5 DEF Marked
  <2> QED
    BY <2>1, <2>6, ListsAppend
<1>3. CASE SetCrow(w)
  <2>1. /\ pc[w] = "flag" /\ pc'[w] = "idle" /\ arg'[w] = None /\ arg[w] \in Objects
        /\ obj' = [obj EXCEPT ![arg[w]].crow = TRUE] /\ UNCHANGED crows
    BY <1>0, <1>3 DEF SetCrow, Return, WorkerStep, WorkerTypes, Claims, Busy, crows
  <2>2. Marked(arg[w]) /\ obj'[arg[w]].crow
    BY <1>0, <2>1 DEF Marked, Pushed, Object
  <2>3. ASSUME NEW x \in Objects, x # arg[w] PROVE Marked(x)' <=> Marked(x)
    <3>1. obj'[x] = obj[x]
      BY <1>0, <2>1, <2>3
    <3>2. Pushed(x)' <=> Pushed(x)
      BY <1>0, <2>1, <2>3 DEF Pushed
    <3> QED
      BY <3>1, <3>2 DEF Marked
  <2>4. ASSUME NEW x \in Objects, x = arg[w] PROVE Marked(x)' <=> Marked(x)
    BY <2>2, <2>4 DEF Marked
  <2> QED
    BY <2>1, <2>3, <2>4, ListsKept
<1> QED
  BY <1>1, <1>2, <1>3

\* Lists of crows: the part is kept.
LEMMA ListsStep ==
  ASSUME IInv, [Next]_vars
  PROVE  LInv'
<1>0. /\ Typed /\ obj \in [Objects -> Object] /\ Free /\ dwFrame \in Frames /\ NoFrame \in Frames
      /\ \A x \in Objects : obj[x] \in Object
  BY FrameNumbers DEF IInv, AInv, Typed, TInv
<1>1. ASSUME NEW o \in Objects, CallMakeMeCrow(o) PROVE LInv'
  BY <1>0, <1>1, MakeMeCrowLists DEF CallMakeMeCrow, GameRuns, InUpdateCL, workers
<1>2. ASSUME NEW o \in Objects, Activate(o) PROVE LInv'
  <2>1. phase # "render" /\ UNCHANGED <<pc, arg>>
    BY <1>2 DEF Activate, GameRuns, InUpdateCL, Call, workers
  <2>2. CASE obj' = [obj EXCEPT ![o].bActiveCounter = @ + 1] /\ UNCHANGED <<lists, crows>>
    <3>1. \A x \in Objects : obj'[x].crow = obj[x].crow
      BY <1>0, <2>2 DEF Object
    <3> QED
      BY <2>1, <2>2, <3>1, MarksKept
  <2>3. CASE MakeMeCrow(o, [obj[o] EXCEPT !.bActiveCounter = 1])
    <3>1. /\ [obj[o] EXCEPT !.bActiveCounter = 1] \in Object
          /\ [obj[o] EXCEPT !.bActiveCounter = 1].crow = obj[o].crow
      BY <1>0, Counters DEF Object
    <3> QED
      BY <2>1, <2>3, <3>1, MakeMeCrowLists
  <2> QED
    BY <1>2, <2>2, <2>3 DEF Activate
<1>3. ASSUME NEW o \in Objects, Deactivate(o) PROVE LInv'
  <2>1. UNCHANGED <<pc, arg, crows>> /\ obj' = [obj EXCEPT ![o].bActiveCounter = @ - 1]
    BY <1>3 DEF Deactivate, Call, workers
  <2>2. \A x \in Objects : obj'[x].crow = obj[x].crow
    BY <1>0, <2>1 DEF Object
  <2> QED
    BY <2>1, <2>2, MarksKept
<1>4. ASSUME NEW o \in Objects, NEW p \in Objects \cup {None}, phase = "game", UNCHANGED workers,
             MakeMeCrow(o, [obj[o] EXCEPT !.Parent = p])
      PROVE  LInv'
  <2>1. [obj[o] EXCEPT !.Parent = p] \in Object /\ [obj[o] EXCEPT !.Parent = p].crow = obj[o].crow
    BY <1>0 DEF Object
  <2> QED
    BY <1>4, <2>1, MakeMeCrowLists DEF workers
<1>5. ASSUME NEW o \in Objects, SetDestroy(o) PROVE LInv'
  <2>1. PICK doomed : obj' = [x \in Objects |-> [obj[x] EXCEPT !.bDestroy = @ \/ x \in ToSet(doomed)]]
    BY <1>5 DEF SetDestroy
  <2>2. \A x \in Objects : obj'[x].crow = obj[x].crow
    BY <1>0, <2>1 DEF Object
  <2>3. UNCHANGED <<pc, arg, crows>>
    BY <1>5 DEF SetDestroy, Call, workers
  <2> QED
    BY <2>2, <2>3, MarksKept
<1>6. ASSUME NEW o \in Objects, NEW p \in Objects \cup {None}, Spawn(o, p) PROVE LInv'
  <2>1. PICK garbage \in {NoFrame, dwFrame} :
          MakeMeCrow(o, [New EXCEPT !.bActiveCounter = 1, !.Parent = p, !.dwFrame_UpdateCL = garbage])
    BY <1>6 DEF Spawn
  <2> DEFINE r == [New EXCEPT !.bActiveCounter = 1, !.Parent = p, !.dwFrame_UpdateCL = garbage]
  <2>2. r \in Object /\ r.crow = New.crow
    BY <1>0, Counters DEF New, Object
  <2>3. obj[o] = New
    BY <1>0, <1>6 DEF Spawn, Free
  <2>4. phase # "render" /\ UNCHANGED <<pc, arg>>
    BY <1>6 DEF Spawn, Call, workers
  <2> HIDE DEF r
  <2>5. MakeMeCrow(o, r)
    BY <2>1 DEF r
  <2> QED
    BY <2>2, <2>3, <2>4, <2>5, MakeMeCrowLists
<1>7. ASSUME NEW w \in Workers,
             (\E o \in Objects : Render(w, o)) \/ Load(w) \/ CompareExchange(w) \/ OCrow(w) \/ SetCrow(w)
      PROVE  LInv'
  BY <1>7, WorkerLists
<1>8. ASSUME NEW w \in Workers, MergeList(w) PROVE LInv'
  BY <1>8, ListsMerge
<1>9. CASE \/ UpdateBegins \/ UpdateNothing \/ SingleUpdate \/ Descend \/ UpdateCLReturns
           \/ UpdateLoopEnds \/ UpdateEnds \/ RenderBegins \/ FrameEnds \/ UnloadBegins \/ UNCHANGED vars
  <2>1. UNCHANGED <<pc, arg, crows, obj>>
    BY <1>9 DEF UpdateBegins, UpdateNothing, SingleUpdate, Descend, UpdateCLReturns, UpdateLoopEnds,
                UpdateEnds, RenderBegins, FrameEnds, UnloadBegins, LoopStep, workers, vars
  <2> QED
    BY <2>1, MarksKept
<1>10. CASE UpdateCrows
  BY <1>10, UpdateWorkLists DEF UpdateCrows, IInv, LInv, CrowTypes
<1>11. CASE UpdateActive
  <2>1. PICK work \in SetToSeqs(objects_active) : UpdateWork(work)
    BY <1>11 DEF UpdateActive
  <2>2. objects_active \subseteq Objects /\ IsFiniteSet(objects_active)
    BY <1>0, FS_Subset, ObjectListAssumption DEF Typed
  <2>3. work \in Seq(Objects)
    BY <2>2, ListingOf, SeqMonotonic
  <2> QED
    BY <2>1, <2>3, UpdateWorkLists
<1>12. CASE UpdateCL
  <2>1. UNCHANGED <<pc, arg, crows>> /\ obj' = [obj EXCEPT ![Head(chain)].dwFrame_UpdateCL = dwFrame]
    BY <1>12 DEF UpdateCL, LoopStep, workers
  <2>2. \A x \in Objects : obj'[x].crow = obj[x].crow
    BY <1>0, <2>1 DEF Object
  <2> QED
    BY <2>1, <2>2, MarksKept
<1>13. CASE DestroyLast
  BY <1>0, <1>13, DestroyLists DEF DestroyLast, Destroy
<1>14. ASSUME NEW o \in Objects, UnloadNext(o) PROVE LInv'
  <2>1. phase # "render" /\ UNCHANGED workers
    BY <1>14 DEF UnloadNext
  <2> QED
    BY <1>14, <2>1, UnloadsOne, DestroyLists DEF IInv
<1>15. ASSUME NEW o \in Objects, Reject(o) \/ \E p \in Objects : Take(o, p) PROVE LInv'
  BY <1>4, <1>15 DEF Reject, Take, Call
<1> QED
  BY <1>1, <1>2, <1>3, <1>5, <1>6, <1>7, <1>8, <1>9, <1>10, <1>11, <1>12, <1>13, <1>14, <1>15 DEF Next

\* An object that is on one list at most, once, has one place at most.
LEMMA OnePlace ==
  ASSUME LInv
  PROVE  CrowListed
<1>0. CrowTypes /\ Once /\ None \notin Workers
  BY ListFacts DEF LInv
<1> SUFFICES ASSUME NEW o \in Objects
             PROVE  Cardinality(Places(o)) = IF obj[o].crow \/ Pushed(o) THEN 1 ELSE 0
  BY DEF CrowListed
<1>1. \A q : q \in Places(o) <=> \E l \in Lists : \E k \in DOMAIN CrowList(l) :
                CrowList(l)[k] = o /\ q = <<l, k>>
  BY <1>0 DEF Places, At, CrowList, Lists
<1>2. CASE Listed(o)
  <2>1. PICK l \in Lists : o \in ToSet(CrowList(l))
    BY <1>2 DEF Listed
  <2>2. PICK k \in DOMAIN CrowList(l) : CrowList(l)[k] = o
    BY <2>1 DEF ToSet
  <2>3. ASSUME NEW m \in Lists, NEW j \in DOMAIN CrowList(m), CrowList(m)[j] = o
        PROVE  m = l /\ j = k
    <3>1. o \in ToSet(CrowList(m))
      BY <2>3 DEF ToSet
    <3>2. m = l
      BY <1>0, <2>1, <3>1 DEF Once
    <3> QED
      BY <1>0, <2>2, <2>3, <3>2 DEF Once, IsInjective
  <2>4. Places(o) = {<<l, k>>}
    BY <1>1, <2>2, <2>3
  <2> QED
    BY <1>0, <1>2, <2>4, FS_Singleton DEF Once
<1>3. CASE ~Listed(o)
  <2>1. Places(o) = {}
    BY <1>1, <1>3 DEF Listed, ToSet
  <2> QED
    BY <1>0, <1>3, <2>1, FS_EmptySet DEF Once
<1> QED
  BY <1>2, <1>3

-----------------------------------------------------------------------------
(* Destruction                                                              *)

\* An object is among its own carriers; what carries its parent carries it;
\* and what carries it, carries its parent or is itself.
LEMMA CarriersOf ==
  ASSUME NEW o \in Objects
  PROVE  /\ o \in Carriers(o)
         /\ obj[o].Parent \in Objects => obj[o].Parent \in Carriers(o) /\ Carriers(obj[o].Parent) \subseteq Carriers(o)
         /\ \A x \in Carriers(o) \ {o} : obj[o].Parent \in Objects => x \in Carriers(obj[o].Parent)
         /\ obj[o].Parent = None => Carriers(o) = {o}
<1>1. o \in Carriers(o)
  BY DEF Carriers
<1>2. ASSUME obj[o].Parent \in Objects
      PROVE  obj[o].Parent \in Carriers(o) /\ Carriers(obj[o].Parent) \subseteq Carriers(o)
  <2> DEFINE p == obj[o].Parent
  <2>1. \A S \in SUBSET Objects :
          o \in S /\ (\A y \in S : obj[y].Parent \in S \cup {None}) => p \in S
    BY <1>2, ObjectListAssumption
  <2> HIDE DEF p
  <2>2. p \in Carriers(o) /\ Carriers(p) \subseteq Carriers(o)
    BY <1>2, <2>1 DEF Carriers, p
  <2> QED
    BY <2>2 DEF p
<1>3. ASSUME NEW x \in Carriers(o) \ {o}, obj[o].Parent \in Objects
      PROVE  x \in Carriers(obj[o].Parent)
  <2> SUFFICES ASSUME NEW S \in SUBSET Objects, obj[o].Parent \in S,
                      \A y \in S : obj[y].Parent \in S \cup {None}
               PROVE  x \in S
    BY <1>3 DEF Carriers
  <2>1. o \in S \cup {o} /\ S \cup {o} \in SUBSET Objects
        /\ \A y \in S \cup {o} : obj[y].Parent \in S \cup {o} \cup {None}
    OBVIOUS
  <2>2. x \in S \cup {o}
    BY <2>1 DEF Carriers
  <2> QED
    BY <1>3, <2>2
<1>4. ASSUME obj[o].Parent = None PROVE Carriers(o) = {o}
  <2>1. \A y \in {o} : obj[y].Parent \in {o} \cup {None}
    BY <1>4
  <2>2. Carriers(o) \subseteq {o}
    BY <2>1 DEF Carriers
  <2> QED
    BY <1>1, <2>2
<1> QED
  BY <1>1, <1>2, <1>3, <1>4

\* The queue that the loop works through is sound.
LEMMA QueueIsSound ==
  ASSUME AInv, QInv
  PROVE  QueueSound
<1> DEFINE n == IF phase = "destroy" THEN it ELSE Len(destroy_queue)
           queue == SubSeq(destroy_queue, 1, n)
<1> SUFFICES ASSUME phase # "unload"
             PROVE  /\ ToSet(queue) = {o \in Objects : obj[o].bDestroy} /\ IsInjective(queue)
                    /\ \A o \in Live, k \in DOMAIN queue :
                         obj[o].Parent = queue[k] => \E j \in DOMAIN queue : j > k /\ queue[j] = o
  BY DEF QueueSound
<1>0. Queued /\ destroy_queue \in Seq(Objects) /\ Len(destroy_queue) \in Nat /\ n \in 0 .. Len(destroy_queue)
  <2>1. destroy_queue \in Seq(Objects) /\ Len(destroy_queue) \in Nat
    BY LenProperties DEF QInv, QueueTypes
  <2> QED
    BY <2>1 DEF QInv, QueueTypes
<1>1. Pending = 1 .. n
  BY DEF Pending
<1> HIDE DEF n
<1>2. \A i \in 1 .. n : destroy_queue[i] \in Objects
  BY <1>0, ElementOfSeq
<1>3. DOMAIN queue = 1 .. n /\ \A i \in 1 .. n : queue[i] = destroy_queue[i]
  <2>1. /\ queue \in Seq(Objects) /\ Len(queue) = IF 1 <= n THEN n - 1 + 1 ELSE 0
        /\ \A i \in 1 .. n - 1 + 1 : queue[i] = destroy_queue[1 + i - 1]
    BY <1>0, <1>2, SubSeqProperties
  <2> HIDE DEF queue
  <2>2. Len(queue) = n
    BY <1>0, <2>1
  <2>3. \A i \in 1 .. n : queue[i] = destroy_queue[i]
    BY <1>0, <2>1
  <2> QED
    BY <2>1, <2>2, <2>3, LenProperties
<1> HIDE DEF queue
<1>4. ToSet(queue) = {o \in Objects : obj[o].bDestroy}
  BY <1>0, <1>1, <1>2, <1>3 DEF Queued, ToSet
<1>5. IsInjective(queue)
  BY <1>0, <1>1, <1>3 DEF Queued, IsInjective
<1>6. \A o \in Live, k \in DOMAIN queue :
        obj[o].Parent = queue[k] => \E j \in DOMAIN queue : j > k /\ queue[j] = o
  BY <1>0, <1>1, <1>3 DEF Queued
<1> QED
  BY <1>4, <1>5, <1>6

\* A step that flags nothing, moves nothing and leaves the queue.
LEMMA QueueKept ==
  ASSUME IInv, Live' = Live, destroy_queue' = destroy_queue, it' \in 0 .. Len(destroy_queue), Pending' = Pending,
         phase' # "unload" => phase # "unload",
         \A o \in Objects : obj'[o].bDestroy = obj[o].bDestroy /\ obj'[o].Parent = obj[o].Parent
  PROVE  QInv'
<1>0. QInv /\ Live \subseteq Objects /\ None \notin Objects
  BY ObjectListAssumption DEF IInv, AInv, Typed, Live
<1>1. QueueTypes'
  BY <1>0 DEF QInv, QueueTypes
<1>2. ASSUME phase' # "unload" PROVE Carrying'
  BY <1>0, <1>2 DEF QInv, Carrying
<1>3. ASSUME phase' # "unload" PROVE FlaggedBelow'
  <2> SUFFICES ASSUME NEW o \in Live, obj'[o].bDestroy, obj'[o].Parent # None
               PROVE  obj'[obj'[o].Parent].bDestroy
    BY DEF FlaggedBelow
  <2>1. obj[o].bDestroy /\ obj'[o].Parent = obj[o].Parent /\ obj[o].Parent \in Objects
    BY <1>0, <1>3 DEF QInv, Carrying
  <2>2. obj[obj[o].Parent].bDestroy
    BY <1>0, <1>3, <2>1 DEF QInv, FlaggedBelow
  <2> QED
    BY <2>1, <2>2
<1>4. ASSUME phase' # "unload" PROVE Queued'
  <2>1. Queued
    BY <1>0, <1>4 DEF QInv
  <2>2. \A k \in Pending : destroy_queue[k] \in Objects
    <3>1. \A k \in 1 .. Len(destroy_queue) : destroy_queue[k] \in Objects
      BY <1>0, ElementOfSeq DEF QInv, QueueTypes
    <3>2. Pending \subseteq 1 .. Len(destroy_queue)
      BY <1>0, LenProperties DEF QInv, QueueTypes, Pending
    <3> QED
      BY <3>1, <3>2
  <2>3. /\ \A k \in Pending' : obj'[destroy_queue'[k]].bDestroy
        /\ \A o \in Objects : obj'[o].bDestroy => \E k \in Pending' : destroy_queue'[k] = o
    BY <2>1, <2>2 DEF Queued
  <2>4. \A j, k \in Pending' : destroy_queue'[j] = destroy_queue'[k] => j = k
    BY <2>1 DEF Queued
  <2>5. \A o \in Live', k \in Pending' :
          obj'[o].Parent = destroy_queue'[k] => \E j \in Pending' : j > k /\ destroy_queue'[j] = o
    BY <1>0, <2>1 DEF Queued
  <2> QED
    BY <2>3, <2>4, <2>5 DEF Queued
<1> QED
  BY <1>1, <1>2, <1>3, <1>4 DEF QInv

\* An object gets another parent, or is new: neither is flagged.
LEMMA ParentChanges ==
  ASSUME IInv, phase = "game", phase' = "game", NEW o \in Objects, NEW p \in (Live \ {o}) \cup {None},
         p # None => ~obj[p].bDestroy /\ ~obj[o].bDestroy,
         Live' = Live \cup {o}, UNCHANGED <<destroy_queue, it>>,
         obj'[o].Parent = p, obj'[o].bDestroy = obj[o].bDestroy,
         o \notin Live => \A x \in Live : obj[x].Parent # o,
         \A x \in Objects \ {o} : obj'[x] = obj[x]
  PROVE  QInv'
<1>0. /\ QInv /\ QueueTypes /\ Carrying /\ FlaggedBelow /\ Queued /\ Live \subseteq Objects /\ None \notin Objects
      /\ p \in Objects \cup {None} /\ Pending' = Pending
  BY ObjectListAssumption DEF IInv, AInv, Typed, Live, QInv, Pending
<1>1. QueueTypes'
  BY <1>0 DEF QueueTypes
<1>2. Carrying'
  BY <1>0 DEF Carrying
<1>3. FlaggedBelow'
  <2> SUFFICES ASSUME NEW x \in Live \cup {o}, obj'[x].bDestroy, obj'[x].Parent # None
               PROVE  obj'[obj'[x].Parent].bDestroy
    BY DEF FlaggedBelow
  <2>1. x # o
    BY <1>0
  <2>2. /\ x \in Live /\ x \in Objects \ {o} /\ obj'[x] = obj[x] /\ obj[x].Parent \in Live
        /\ obj[obj[x].Parent].bDestroy
    BY <1>0, <2>1 DEF Carrying, FlaggedBelow
  <2> QED
    BY <1>0, <2>2
<1>4. \A k \in Pending : destroy_queue[k] \in Objects
  <2>1. \A k \in 1 .. Len(destroy_queue) : destroy_queue[k] \in Objects
    BY <1>0, ElementOfSeq DEF QueueTypes
  <2> QED
    BY <2>1 DEF Pending
<1>5. /\ \A k \in Pending' : obj'[destroy_queue'[k]].bDestroy
      /\ \A x \in Objects : obj'[x].bDestroy => \E k \in Pending' : destroy_queue'[k] = x
  BY <1>0, <1>4 DEF Queued
<1>6. \A j, k \in Pending' : destroy_queue'[j] = destroy_queue'[k] => j = k
  BY <1>0 DEF Queued
<1>7. ASSUME NEW x \in Live', NEW k \in Pending', obj'[x].Parent = destroy_queue'[k]
      PROVE  \E j \in Pending' : j > k /\ destroy_queue'[j] = x
  <2>1. destroy_queue[k] \in Objects /\ obj[destroy_queue[k]].bDestroy
    BY <1>0, <1>4 DEF Queued
  <2>2. x # o
    BY <1>0, <1>7, <2>1
  <2>3. x \in Live /\ obj[x].Parent = destroy_queue[k]
    BY <1>0, <1>7, <2>2
  <2> QED
    BY <1>0, <2>3 DEF Queued
<1>8. Queued'
  BY <1>5, <1>6, <1>7 DEF Queued
<1> QED
  BY <1>1, <1>2, <1>3, <1>8 DEF QInv

\* Destruction is asked for: the object and all that it carries go behind the
\* queue, each in front of what it carries.
LEMMA SetDestroyQueue ==
  ASSUME IInv, NEW o \in Objects, SetDestroy(o)
  PROVE  QInv'
<1> DEFINE C == Carried(o)
<1>0. /\ QInv /\ QueueTypes /\ Carrying /\ FlaggedBelow /\ Queued /\ Live \subseteq Objects /\ None \notin Objects
      /\ IsFiniteSet(Objects) /\ obj \in [Objects -> Object] /\ phase = "game" /\ phase' = "game"
      /\ o \in Live /\ obj[o].Parent = None /\ ~obj[o].bDestroy /\ Live' = Live /\ it' = it
      /\ destroy_queue \in Seq(Objects) /\ Len(destroy_queue) \in Nat
  BY ObjectListAssumption, LenProperties
     DEF IInv, AInv, Typed, Live, QInv, QueueTypes, SetDestroy, Call, frame, loops, lists
<1>1. PICK doomed \in Registered(o) :
        /\ destroy_queue' = destroy_queue \o doomed
        /\ obj' = [x \in Objects |-> [obj[x] EXCEPT !.bDestroy = @ \/ x \in ToSet(doomed)]]
  BY DEF SetDestroy
<1>2. /\ C \subseteq Objects /\ IsFiniteSet(C)
      /\ \A x \in Objects : x \in C <=> x \in Live /\ ~obj[x].bDestroy /\ o \in Carriers(x)
  BY <1>0, FS_Subset DEF Carried
<1>3. /\ doomed \in SetToSeqs(C)
      /\ \A k \in DOMAIN doomed :
          {doomed[j] : j \in (k .. k + Cardinality(Carried(doomed[k])) - 1) \cap DOMAIN doomed} = Carried(doomed[k])
  BY <1>1 DEF Registered
<1>4. doomed \in Seq(C) /\ doomed \in Seq(Objects) /\ IsInjective(doomed) /\ ToSet(doomed) = C
  BY <1>2, <1>3, ListingOf, SeqMonotonic
<1> HIDE DEF C
<1>5. ASSUME NEW x \in Objects
      PROVE  obj'[x].bDestroy = (obj[x].bDestroy \/ x \in C) /\ obj'[x].Parent = obj[x].Parent
  <2> DEFINE b == obj[x].bDestroy \/ x \in ToSet(doomed)
  <2>1. obj'[x] = [obj[x] EXCEPT !.bDestroy = b] /\ obj[x] \in Object
    BY <1>0, <1>1
  <2> HIDE DEF b
  <2>2. obj'[x].bDestroy = b /\ obj'[x].Parent = obj[x].Parent
    BY <2>1 DEF Object
  <2> QED
    BY <1>4, <2>2 DEF b
<1>6. ASSUME NEW x \in Live, ~obj[x].bDestroy, obj[x].Parent \in C
      PROVE  x \in C /\ x \in Carried(obj[x].Parent)
  <2>1. obj[x].Parent \in Objects /\ o \in Carriers(obj[x].Parent)
    BY <1>2, <1>6
  <2>2. obj[x].Parent \in Carriers(x) /\ o \in Carriers(x)
    BY <1>0, <2>1, CarriersOf
  <2> QED
    BY <1>0, <1>2, <1>6, <2>2 DEF Carried
<1>7. ASSUME NEW x \in C, obj[x].Parent # None
      PROVE  obj[x].Parent \in Live /\ (obj[x].Parent \in C \/ obj[obj[x].Parent].bDestroy)
  <2>1. x \in Live /\ x # o /\ o \in Carriers(x) /\ obj[x].Parent \in Live
    BY <1>0, <1>2, <1>7 DEF Carrying
  <2>2. o \in Carriers(obj[x].Parent)
    BY <1>0, <2>1, CarriersOf
  <2> QED
    BY <1>0, <1>2, <2>1, <2>2
<1>8. Carrying'
  BY <1>0, <1>5 DEF Carrying
<1>9. FlaggedBelow'
  <2> SUFFICES ASSUME NEW x \in Live, obj'[x].bDestroy, obj'[x].Parent # None
               PROVE  obj'[obj'[x].Parent].bDestroy
    BY <1>0 DEF FlaggedBelow
  <2>1. obj'[x].Parent = obj[x].Parent /\ obj[x].Parent \in Live /\ (obj[x].bDestroy \/ x \in C)
    BY <1>0, <1>5 DEF Carrying
  <2>2. obj[x].Parent \in C \/ obj[obj[x].Parent].bDestroy
    BY <1>0, <1>7, <2>1 DEF FlaggedBelow
  <2> QED
    BY <1>0, <1>5, <2>1, <2>2
<1> DEFINE n == Len(destroy_queue)
           m == Len(doomed)
<1>10. /\ destroy_queue' \in Seq(Objects) /\ Len(destroy_queue') = n + m /\ n \in Nat /\ m \in Nat
       /\ \A i \in 1 .. n : destroy_queue'[i] = destroy_queue[i] /\ destroy_queue[i] \in Objects
       /\ \A i \in 1 .. m : doomed[i] \in C
       /\ DOMAIN doomed = 1 .. m /\ Pending = 1 .. n
  <2>1. /\ destroy_queue \o doomed \in Seq(Objects) /\ Len(destroy_queue \o doomed) = n + m
        /\ \A i \in 1 .. n + m : (destroy_queue \o doomed)[i] =
              IF i <= n THEN destroy_queue[i] ELSE doomed[i - n]
    BY <1>0, <1>4, ConcatProperties
  <2>2. n \in Nat /\ m \in Nat /\ DOMAIN doomed = 1 .. m
    BY <1>0, <1>4, LenProperties
  <2>3. \A i \in 1 .. n : destroy_queue[i] \in Objects
    BY <1>0, ElementOfSeq
  <2>4. \A i \in 1 .. m : doomed[i] \in C
    BY <1>4, ElementOfSeq
  <2>5. Pending = 1 .. n
    BY <1>0 DEF Pending
  <2> HIDE DEF n, m
  <2> QED
    BY <1>1, <2>1, <2>2, <2>3, <2>4, <2>5
<1>11. Pending' = 1 .. n + m /\ DOMAIN destroy_queue = 1 .. n
  BY <1>0, <1>10, LenProperties DEF Pending
<1>12. ASSUME NEW i \in 1 .. m
       PROVE  n + i \in 1 .. n + m /\ destroy_queue'[n + i] = doomed[i]
  <2>1. n + i \in 1 .. n + m /\ ~(n + i <= n) /\ (n + i) - n = i
    BY <1>10
  <2> QED
    BY <1>0, <1>1, <1>4, <2>1, ConcatProperties
<1>13. ASSUME NEW k \in 1 .. n + m, k \notin 1 .. n
       PROVE  k - n \in 1 .. m /\ destroy_queue'[k] = doomed[k - n] /\ n + (k - n) = k
  <2>1. k - n \in 1 .. m /\ n + (k - n) = k
    BY <1>10, <1>13
  <2> QED
    BY <1>12, <2>1
<1> HIDE DEF n, m
<1>14. QueueTypes'
  <2>1. it \in 0 .. n
    BY <1>0 DEF QueueTypes, n
  <2>2. it \in 0 .. n + m
    BY <1>10, <2>1
  <2> QED
    BY <1>0, <1>10, <2>2 DEF QueueTypes
<1>15. \A k \in 1 .. n + m : obj'[destroy_queue'[k]].bDestroy
  <2> SUFFICES ASSUME NEW k \in 1 .. n + m PROVE obj'[destroy_queue'[k]].bDestroy
    OBVIOUS
  <2>1. CASE k \in 1 .. n
    BY <1>0, <1>5, <1>10, <2>1 DEF Queued
  <2>2. CASE k \notin 1 .. n
    <3>1. destroy_queue'[k] \in C
      BY <1>10, <1>13, <2>2
    <3> QED
      BY <1>2, <1>5, <3>1
  <2> QED
    BY <2>1, <2>2
<1>16. ASSUME NEW x \in Objects, obj'[x].bDestroy
       PROVE  \E k \in 1 .. n + m : destroy_queue'[k] = x
  <2>1. CASE obj[x].bDestroy
    <3>1. PICK k \in 1 .. n : destroy_queue[k] = x
      BY <1>0, <1>10, <2>1 DEF Queued
    <3>2. k \in 1 .. n + m
      BY <1>10
    <3> QED
      BY <1>10, <3>1, <3>2
  <2>2. CASE x \in C
    <3>1. PICK i \in 1 .. m : doomed[i] = x
      BY <1>4, <1>10, <2>2 DEF ToSet
    <3> QED
      BY <1>12, <3>1
  <2> QED
    BY <1>5, <1>16, <2>1, <2>2
<1>17. ASSUME NEW j \in 1 .. n + m, NEW k \in 1 .. n + m, destroy_queue'[j] = destroy_queue'[k]
       PROVE  j = k
  <2>1. IsInjective(destroy_queue)
    BY <1>0, <1>10, <1>11 DEF Queued, IsInjective
  <2>2. ToSet(destroy_queue) \cap ToSet(doomed) = {}
    <3>1. \A x \in ToSet(destroy_queue) : obj[x].bDestroy
      BY <1>0, <1>10, <1>11 DEF Queued, ToSet
    <3> QED
      BY <1>2, <1>4, <3>1
  <2>3. IsInjective(destroy_queue')
    BY <1>0, <1>1, <1>4, <2>1, <2>2, ConcatSet
  <2>4. DOMAIN destroy_queue' = 1 .. n + m
    BY <1>10, LenProperties
  <2> QED
    BY <1>17, <2>3, <2>4 DEF IsInjective
<1>18. ASSUME NEW x \in Live, NEW k \in 1 .. n + m, obj'[x].Parent = destroy_queue'[k]
       PROVE  \E j \in 1 .. n + m : j > k /\ destroy_queue'[j] = x
  <2>1. obj[x].Parent = destroy_queue'[k]
    BY <1>0, <1>5, <1>18
  <2>2. CASE k \in 1 .. n
    <3>0. k \in Pending /\ obj[x].Parent = destroy_queue[k]
      BY <1>10, <2>1, <2>2
    <3>1. PICK j \in 1 .. n : j > k /\ destroy_queue[j] = x
      BY <1>0, <1>10, <3>0 DEF Queued
    <3>2. j \in 1 .. n + m
      BY <1>10
    <3> QED
      BY <1>10, <3>1, <3>2
  <2>3. CASE k \notin 1 .. n
    <3> DEFINE i == k - n
    <3>1. i \in 1 .. m /\ n + i = k /\ obj[x].Parent = doomed[i] /\ doomed[i] \in C
      BY <1>10, <1>13, <2>1, <2>3
    <3> HIDE DEF i
    <3>2. ~obj[x].bDestroy
      BY <1>0, <1>2, <3>1 DEF FlaggedBelow
    <3>3. x \in Carried(doomed[i])
      BY <1>6, <3>1, <3>2
    <3>4. PICK j \in (i .. i + Cardinality(Carried(doomed[i])) - 1) \cap DOMAIN doomed : doomed[j] = x
      BY <1>3, <1>10, <3>1, <3>3
    <3>5. j \in 1 .. m /\ j >= i
      BY <1>10, <3>4
    <3>6. j # i
      BY <1>0, <3>1, <3>4 DEF Carrying
    <3>7. n + j > k
      BY <1>10, <3>1, <3>5, <3>6
    <3> QED
      BY <1>12, <3>4, <3>5, <3>7
  <2> QED
    BY <2>2, <2>3
<1>19. Queued'
  BY <1>0, <1>11, <1>15, <1>16, <1>17, <1>18 DEF Queued
<1> QED
  BY <1>8, <1>9, <1>14, <1>19 DEF QInv

\* The last of the queue is destroyed: what it carried was behind it.
LEMMA DestroyLastQueue ==
  ASSUME IInv, DestroyLast
  PROVE  QInv'
<1> DEFINE n == Len(destroy_queue)
<1>0. /\ QInv /\ Carrying /\ FlaggedBelow /\ Queued /\ Live \subseteq Objects /\ obj \in [Objects -> Object]
      /\ destroy_queue \in Seq(Objects) /\ n \in Nat /\ it \in 0 .. n /\ None \notin Objects
  BY ObjectListAssumption, LenProperties
     DEF IInv, AInv, Typed, Live, QInv, QueueTypes, DestroyLast
<1>1. PICK o : o = destroy_queue[it]
  OBVIOUS
<1>2. /\ phase = "destroy" /\ phase' = "destroy" /\ it' = it - 1 /\ it \in 1 .. n /\ it - 1 \in 0 .. n
      /\ destroy_queue' = destroy_queue /\ obj' = [obj EXCEPT ![o] = New] /\ Live' = Live \ {o}
  BY <1>0, <1>1 DEF DestroyLast, Destroy, Destroyed, Live, frame
<1>3. /\ Pending = 1 .. it /\ Pending' = 1 .. it - 1 /\ o \in Objects
      /\ \A k \in 1 .. it : destroy_queue[k] \in Objects
  <2>1. \A k \in 1 .. n : destroy_queue[k] \in Objects
    BY <1>0, ElementOfSeq
  <2> HIDE DEF n
  <2> QED
    BY <1>0, <1>1, <1>2, <2>1 DEF Pending
<1> HIDE DEF n
<1>4. obj'[o] = New /\ \A x \in Objects \ {o} : obj'[x] = obj[x]
  BY <1>0, <1>2, <1>3
<1>5. \A k \in 1 .. it - 1 : k \in 1 .. it /\ destroy_queue[k] # o
  BY <1>0, <1>1, <1>2, <1>3 DEF Queued
<1>6. ASSUME NEW x \in Live PROVE obj[x].Parent # o
  <2> SUFFICES ASSUME obj[x].Parent = o PROVE FALSE
    OBVIOUS
  <2>1. \E j \in 1 .. it : j > it
    BY <1>0, <1>1, <1>2, <1>3 DEF Queued
  <2> QED
    BY <1>2, <2>1
<1>7. QueueTypes'
  BY <1>0, <1>2 DEF QueueTypes, n
<1>8. Carrying'
  BY <1>0, <1>2, <1>4, <1>6 DEF Carrying
<1>9. FlaggedBelow'
  <2> SUFFICES ASSUME NEW x \in Live \ {o}, obj'[x].bDestroy, obj'[x].Parent # None
               PROVE  obj'[obj'[x].Parent].bDestroy
    BY <1>2 DEF FlaggedBelow
  <2>1. obj'[x] = obj[x] /\ obj[x].Parent \in Live \ {o}
    BY <1>0, <1>4, <1>6 DEF Carrying
  <2>2. obj[obj[x].Parent].bDestroy
    BY <1>0, <2>1 DEF FlaggedBelow
  <2> QED
    BY <1>0, <1>4, <2>1, <2>2
<1>10. \A k \in 1 .. it - 1 : obj'[destroy_queue[k]].bDestroy
  BY <1>0, <1>3, <1>4, <1>5 DEF Queued
<1>11. ASSUME NEW x \in Objects, obj'[x].bDestroy
       PROVE  \E k \in 1 .. it - 1 : destroy_queue[k] = x
  <2>1. x # o
    BY <1>4, <1>11 DEF New
  <2>2. PICK k \in 1 .. it : destroy_queue[k] = x
    BY <1>0, <1>3, <1>4, <1>11, <2>1 DEF Queued
  <2>3. k # it
    BY <1>1, <2>1, <2>2
  <2> QED
    BY <1>2, <2>2, <2>3
<1>12. \A j, k \in 1 .. it - 1 : destroy_queue[j] = destroy_queue[k] => j = k
  BY <1>0, <1>3, <1>5 DEF Queued
<1>13. ASSUME NEW x \in Live \ {o}, NEW k \in 1 .. it - 1, obj'[x].Parent = destroy_queue[k]
       PROVE  \E j \in 1 .. it - 1 : j > k /\ destroy_queue[j] = x
  <2>1. obj[x].Parent = destroy_queue[k] /\ k \in 1 .. it
    BY <1>0, <1>4, <1>5, <1>13
  <2>2. PICK j \in 1 .. it : j > k /\ destroy_queue[j] = x
    BY <1>0, <1>3, <2>1 DEF Queued
  <2>3. j # it
    BY <1>1, <2>2
  <2> QED
    BY <1>2, <2>2, <2>3
<1>14. Queued'
  BY <1>2, <1>3, <1>10, <1>11, <1>12, <1>13 DEF Queued
<1> QED
  BY <1>7, <1>8, <1>9, <1>14 DEF QInv

\* Nothing is left in the queue when the loop has ended.
LEMMA UpdateEndsQueue ==
  ASSUME IInv, UpdateEnds
  PROVE  QInv'
<1>1. /\ QInv /\ Carrying /\ FlaggedBelow /\ Queued /\ phase = "destroy" /\ phase' = "game" /\ it = 0 /\ it' = it
      /\ destroy_queue' = <<>> /\ obj' = obj /\ Live' = Live
  BY DEF IInv, QInv, UpdateEnds, loops, lists, Live
<1>2. Pending = {} /\ Pending' = {} /\ Len(<<>>) = 0 /\ <<>> \in Seq(Objects)
  BY <1>1, EmptySeq DEF Pending
<1>3. QueueTypes'
  BY <1>1, <1>2 DEF QueueTypes
<1>4. Carrying' /\ FlaggedBelow'
  BY <1>1 DEF Carrying, FlaggedBelow
<1>5. Queued'
  BY <1>1, <1>2 DEF Queued
<1> QED
  BY <1>3, <1>4, <1>5 DEF QInv

\* Unload only adds to the queue.
LEMMA UnloadQueue ==
  ASSUME IInv, UnloadBegins \/ \E o \in Objects : UnloadNext(o)
  PROVE  QInv'
<1>0. destroy_queue \in Seq(Objects) /\ it \in 0 .. Len(destroy_queue) /\ AInv
  BY DEF IInv, QInv, QueueTypes
<1>1. phase' = "unload" /\ it' = it
  BY DEF UnloadBegins, UnloadNext, frame, loops
<1>2. CASE UnloadBegins
  BY <1>0, <1>1, <1>2 DEF UnloadBegins, QInv, QueueTypes
<1>3. ASSUME NEW o \in Objects, UnloadNext(o) PROVE QInv'
  <2>1. PICK doomed \in Seq(Objects) : destroy_queue' = destroy_queue \o doomed
    BY <1>0, <1>3, UnloadsOne
  <2>2. /\ destroy_queue' \in Seq(Objects) /\ Len(destroy_queue') = Len(destroy_queue) + Len(doomed)
        /\ Len(destroy_queue) \in Nat /\ Len(doomed) \in Nat
    BY <1>0, <2>1, ConcatProperties, LenProperties
  <2>3. it' \in 0 .. Len(destroy_queue')
    BY <1>0, <1>1, <2>2
  <2> QED
    BY <1>1, <2>2, <2>3 DEF QInv, QueueTypes
<1> QED
  BY <1>2, <1>3

\* MakeMeCrow leaves the parent, the flag of destruction, the frame of the last
\* update and the activity as they are.
LEMMA MakeMeCrowLeaves ==
  ASSUME IInv, NEW o \in Objects, NEW r \in Object, MakeMeCrow(o, r)
  PROVE  /\ obj'[o].Parent = r.Parent /\ obj'[o].bDestroy = r.bDestroy
         /\ obj'[o].dwFrame_UpdateCL = r.dwFrame_UpdateCL /\ obj'[o].bActiveCounter = r.bActiveCounter
         /\ \A x \in Objects \ {o} : obj'[x] = obj[x]
<1>0. obj \in [Objects -> Object]
  BY DEF IInv, AInv, Typed
<1>1. CASE obj' = [obj EXCEPT ![o] = r]
  BY <1>0, <1>1
<1>2. CASE obj' = [obj EXCEPT ![o] = [r EXCEPT !.crow = TRUE, !.dwFrame_AsCrow = dwFrame]]
  <2>1. obj'[o] = [r EXCEPT !.crow = TRUE, !.dwFrame_AsCrow = dwFrame]
    BY <1>0, <1>2
  <2>2. \A x \in Objects \ {o} : obj'[x] = obj[x]
    BY <1>0, <1>2
  <2> QED
    BY <2>1, <2>2 DEF Object
<1> QED
  BY <1>1, <1>2 DEF MakeMeCrow

\* Marks, frames of updates and activity counters are of no matter to the queue.
LEMMA MarksLeave ==
  ASSUME IInv, NEW a,
         \/ obj' = obj
         \/ obj' = [obj EXCEPT ![a].dwFrame_AsCrow = dwFrame]
         \/ obj' = [obj EXCEPT ![a].crow = TRUE]
         \/ obj' = [obj EXCEPT ![a].dwFrame_UpdateCL = dwFrame]
         \/ obj' = [obj EXCEPT ![a].bActiveCounter = @ + 1]
         \/ obj' = [obj EXCEPT ![a].bActiveCounter = @ - 1]
  PROVE  \A o \in Objects : obj'[o].bDestroy = obj[o].bDestroy /\ obj'[o].Parent = obj[o].Parent
<1>1. obj \in [Objects -> Object]
  BY DEF IInv, AInv, Typed
<1> QED
  BY <1>1 DEF Object

\* Destruction: the part is kept.
LEMMA QueueStep ==
  ASSUME IInv, [Next]_vars
  PROVE  QInv'
<1>0. /\ Typed /\ obj \in [Objects -> Object] /\ Free /\ dwFrame \in Frames /\ NoFrame \in Frames
      /\ \A x \in Objects : obj[x] \in Object
      /\ QueueTypes /\ (phase # "unload" => Carrying) /\ it \in 0 .. Len(destroy_queue) /\ None \notin Objects
      /\ Len(destroy_queue) \in 0 .. Len(destroy_queue) /\ Live \subseteq Objects
  BY FrameNumbers, LenProperties, ObjectListAssumption
     DEF IInv, AInv, Typed, TInv, QInv, QueueTypes, Live
<1>1. ASSUME NEW o \in Objects, CallMakeMeCrow(o) PROVE QInv'
  <2>1. /\ Live' = Live /\ destroy_queue' = destroy_queue /\ it' = it /\ phase' = phase /\ Pending' = Pending
        /\ MakeMeCrow(o, obj[o]) /\ obj[o] \in Object
    BY <1>0, <1>1 DEF CallMakeMeCrow, lists, Live, frame, loops, Pending
  <2>2. \A x \in Objects : obj'[x].bDestroy = obj[x].bDestroy /\ obj'[x].Parent = obj[x].Parent
    BY <1>0, <2>1, MakeMeCrowLeaves
  <2> QED
    BY <1>0, <2>1, <2>2, QueueKept
<1>2. ASSUME NEW o \in Objects, Activate(o) \/ Deactivate(o) PROVE QInv'
  <2>1. Live' = Live /\ destroy_queue' = destroy_queue /\ it' = it /\ phase' = phase /\ Pending' = Pending
    BY <1>2 DEF Activate, Deactivate, Call, lists, Live, frame, loops, Pending
  <2>2. \A x \in Objects : obj'[x].bDestroy = obj[x].bDestroy /\ obj'[x].Parent = obj[x].Parent
    <3>1. CASE \/ obj' = [obj EXCEPT ![o].bActiveCounter = @ + 1]
               \/ obj' = [obj EXCEPT ![o].bActiveCounter = @ - 1]
      BY <3>1, MarksLeave
    <3>2. CASE MakeMeCrow(o, [obj[o] EXCEPT !.bActiveCounter = 1])
      <4> DEFINE r == [obj[o] EXCEPT !.bActiveCounter = 1]
      <4>1. r \in Object /\ r.Parent = obj[o].Parent /\ r.bDestroy = obj[o].bDestroy
        BY <1>0, Counters DEF Object
      <4> HIDE DEF r
      <4>2. MakeMeCrow(o, r)
        BY <3>2 DEF r
      <4> QED
        BY <4>1, <4>2, MakeMeCrowLeaves
    <3> QED
      BY <1>2, <3>1, <3>2 DEF Activate, Deactivate
  <2> QED
    BY <1>0, <2>1, <2>2, QueueKept
<1>3. ASSUME NEW o \in Objects, NEW p \in (Live \ {o}) \cup {None}, o \in Live,
             MakeMeCrow(o, [obj[o] EXCEPT !.Parent = p]),
             phase = "game", UNCHANGED <<frame, loops, lists, destroy_queue>>,
             p # None => ~obj[p].bDestroy /\ ~obj[o].bDestroy
      PROVE  QInv'
  <2> DEFINE r == [obj[o] EXCEPT !.Parent = p]
  <2>1. r \in Object /\ r.Parent = p /\ r.bDestroy = obj[o].bDestroy
    BY <1>0 DEF Object
  <2> HIDE DEF r
  <2>2. MakeMeCrow(o, r)
    BY <1>3 DEF r
  <2>3. /\ obj'[o].Parent = p /\ obj'[o].bDestroy = obj[o].bDestroy
        /\ \A x \in Objects \ {o} : obj'[x] = obj[x]
    BY <2>1, <2>2, MakeMeCrowLeaves
  <2>4. phase' = "game" /\ Live' = Live \cup {o} /\ UNCHANGED <<destroy_queue, it>>
    BY <1>3 DEF frame, loops, lists, Live
  <2> QED
    BY <1>3, <2>3, <2>4, ParentChanges
<1>4. ASSUME NEW o \in Objects, Reject(o) PROVE QInv'
  BY <1>3, <1>4 DEF Reject, Call
<1>5. ASSUME NEW o \in Objects, NEW p \in Objects, Take(o, p) PROVE QInv'
  <2>1. p # o /\ p \in Live \ {o}
    BY <1>5, CarriersOf DEF Take
  <2> QED
    BY <1>3, <1>5, <2>1 DEF Take, Call
<1>6. ASSUME NEW o \in Objects, NEW p \in Objects \cup {None}, Spawn(o, p) PROVE QInv'
  <2>1. PICK garbage \in {NoFrame, dwFrame} :
          MakeMeCrow(o, [New EXCEPT !.bActiveCounter = 1, !.Parent = p, !.dwFrame_UpdateCL = garbage])
    BY <1>6 DEF Spawn
  <2> DEFINE r == [New EXCEPT !.bActiveCounter = 1, !.Parent = p, !.dwFrame_UpdateCL = garbage]
  <2>2. r \in Object /\ r.Parent = p /\ r.bDestroy = FALSE
    BY <1>0, Counters DEF New, Object
  <2> HIDE DEF r
  <2>3. MakeMeCrow(o, r)
    BY <2>1 DEF r
  <2>4. o \notin Live /\ obj[o].bDestroy = FALSE
    BY <1>0, <1>6 DEF Spawn, Free, New
  <2>5. /\ obj'[o].Parent = p /\ obj'[o].bDestroy = obj[o].bDestroy
        /\ \A x \in Objects \ {o} : obj'[x] = obj[x]
    BY <2>2, <2>3, <2>4, MakeMeCrowLeaves
  <2>6. phase = "game" /\ phase' = "game" /\ UNCHANGED <<destroy_queue, it>> /\ Live' = Live \cup {o}
    BY <1>6 DEF Spawn, Call, frame, loops, Live
  <2>7. p \in (Live \ {o}) \cup {None} /\ (p # None => ~obj[p].bDestroy /\ ~obj[o].bDestroy)
    BY <1>6, <2>4 DEF Spawn
  <2>8. \A x \in Live : obj[x].Parent # o
    BY <1>0, <2>4, <2>6 DEF Carrying
  <2> QED
    BY <2>5, <2>6, <2>7, <2>8, ParentChanges
<1>7. ASSUME NEW w \in Workers,
             (\E o \in Objects : Render(w, o)) \/ Load(w) \/ CompareExchange(w) \/ OCrow(w) \/ SetCrow(w)
      PROVE  QInv'
  <2>1. Live' = Live /\ destroy_queue' = destroy_queue /\ it' = it /\ phase' = phase /\ Pending' = Pending
    BY <1>7 DEF Render, Load, CompareExchange, OCrow, SetCrow, WorkerStep, lists, Live, frame, loops, Pending
  <2>2. \/ obj' = obj
        \/ obj' = [obj EXCEPT ![arg[w]].dwFrame_AsCrow = dwFrame]
        \/ obj' = [obj EXCEPT ![arg[w]].crow = TRUE]
    BY <1>7 DEF Render, Load, CompareExchange, OCrow, SetCrow
  <2>3. \A x \in Objects : obj'[x].bDestroy = obj[x].bDestroy /\ obj'[x].Parent = obj[x].Parent
    BY <2>2, MarksLeave
  <2> QED
    BY <1>0, <2>1, <2>3, QueueKept
<1>8. ASSUME \/ UpdateBegins \/ SingleUpdate \/ Descend \/ UpdateCL \/ UpdateCLReturns \/ RenderBegins
             \/ FrameEnds \/ UNCHANGED vars
             \/ \E w \in Workers : MergeList(w)
      PROVE  QInv'
  <2>1. /\ Live' = Live /\ destroy_queue' = destroy_queue /\ it' = it
        /\ phase' = phase \/ (phase # "destroy" /\ phase' # "destroy" /\ phase # "unload")
    BY <1>8 DEF UpdateBegins, SingleUpdate, Descend, UpdateCL, UpdateCLReturns, RenderBegins, FrameEnds,
                MergeList, LoopStep, InUpdateCL, lists, Live, frame, loops, vars
  <2>2. Pending' = Pending
    BY <2>1 DEF Pending
  <2>3. obj' = obj \/ obj' = [obj EXCEPT ![Head(chain)].dwFrame_UpdateCL = dwFrame]
    BY <1>8 DEF UpdateBegins, SingleUpdate, Descend, UpdateCL, UpdateCLReturns, RenderBegins, FrameEnds,
                MergeList, vars
  <2>4. \A x \in Objects : obj'[x].bDestroy = obj[x].bDestroy /\ obj'[x].Parent = obj[x].Parent
    BY <2>3, MarksLeave
  <2> QED
    BY <1>0, <2>1, <2>2, <2>4, QueueKept
<1>9. CASE UpdateNothing \/ UpdateLoopEnds
  <2>1. /\ Live' = Live /\ destroy_queue' = destroy_queue /\ it' = Len(destroy_queue)
        /\ phase' = "destroy" /\ phase # "destroy" /\ phase # "unload" /\ obj' = obj
    BY <1>9 DEF UpdateNothing, UpdateLoopEnds, Merged, Destroying, lists, Live
  <2>2. Pending' = Pending
    BY <2>1 DEF Pending
  <2> QED
    BY <1>0, <2>1, <2>2, QueueKept
<1>10. ASSUME NEW work, UpdateWork(work) PROVE QInv'
  <2>1. /\ Live' = Live /\ destroy_queue' = destroy_queue /\ it' = it
        /\ phase' = "update" /\ phase = "merge"
    BY <1>10 DEF UpdateWork, Merged, lists, Live
  <2>2. Pending' = Pending
    BY <2>1 DEF Pending
  <2>3. ASSUME NEW x \in Objects
        PROVE  obj'[x].bDestroy = obj[x].bDestroy /\ obj'[x].Parent = obj[x].Parent
    <3> DEFINE c == obj[x].crow /\ x \notin ToSet(m_primary_crows \o work)
               f == IF x \in ToSet(work) THEN NoFrame ELSE obj[x].dwFrame_AsCrow
    <3>1. obj'[x] = [obj[x] EXCEPT !.crow = c, !.dwFrame_AsCrow = f] /\ obj[x] \in Object
      BY <1>0, <1>10 DEF UpdateWork
    <3> HIDE DEF c, f
    <3> QED
      BY <3>1 DEF Object
  <2> QED
    BY <1>0, <2>1, <2>2, <2>3, QueueKept
<1> QED
  BY <1>1, <1>2, <1>4, <1>5, <1>6, <1>7, <1>8, <1>9, <1>10, SetDestroyQueue, DestroyLastQueue, UpdateEndsQueue,
     UnloadQueue DEF Next, UpdateCrows, UpdateActive

-----------------------------------------------------------------------------
(* Updates                                                                  *)

\* Nothing is in hand outside of the update loop.
LEMMA LoopRest ==
  ASSUME workload' = <<>>, chain' = <<>>, phase' \notin {"update", "descend"}, due' \subseteq Objects,
         phase' # "destroy" => due' = {}, CrowsServed'
  PROVE  UInv'
<1>1. <<>> \in Seq(Objects) /\ ToSet(<<>>) = {} /\ Len(<<>>) = 0
  BY SetOfSeq, EmptySeq
<1>2. LoopTypes'
  BY <1>1 DEF LoopTypes
<1>3. Working'
  BY <1>1 DEF Working
<1>4. Owed'
  BY DEF Owed
<1> QED
  BY <1>2, <1>3, <1>4 DEF UInv

\* A step before or after the update loop, with nothing owed.
LEMMA LoopStays ==
  ASSUME IInv, phase \notin {"update", "descend", "destroy"}, phase' \notin {"update", "descend"},
         workload' = workload, chain' = chain, due' \subseteq due
  PROVE  UInv'
<1>1. workload' = <<>> /\ chain' = <<>> /\ due' = {}
  BY DEF IInv, UInv, Working, Owed
<1> QED
  BY <1>1, LoopRest DEF CrowsServed

\* Game code called by UpdateCL: it changes no parent and no frame of an update,
\* and what is owed stays enabled.
LEMMA CallInUpdate ==
  ASSUME IInv, GameRuns, UNCHANGED <<frame, loops>>, Live' = Live, due' \subseteq due,
         \A o \in due' : Enabled(o)',
         \A o \in Objects : obj'[o].Parent = obj[o].Parent /\ obj'[o].dwFrame_UpdateCL = obj[o].dwFrame_UpdateCL
  PROVE  UInv'
<1>1. CASE phase = "game"
  BY <1>1, LoopStays DEF frame, loops
<1>2. CASE InUpdateCL
  <2>0. /\ phase = "update" /\ phase' = "update" /\ dwFrame' = dwFrame /\ chain # <<>>
        /\ obj[Head(chain)].dwFrame_UpdateCL = dwFrame /\ workload' = workload /\ chain' = chain
        /\ LoopTypes /\ Working /\ Owed /\ Live \subseteq Objects
    BY <1>2 DEF InUpdateCL, frame, loops, IInv, UInv, AInv, Typed, Live
  <2>1. /\ Head(chain) \in Objects /\ DOMAIN chain = 1 .. Len(chain)
        /\ \A k \in 1 .. Len(chain) : chain[k] \in Objects
    BY <2>0, TailSet, LenProperties, ElementOfSeq DEF LoopTypes
  <2>2. LoopTypes'
    BY <2>0 DEF LoopTypes
  <2>3. obj'[Head(chain')].dwFrame_UpdateCL = dwFrame'
    BY <2>0, <2>1
  <2>4. \A k \in 2 .. Len(chain) : obj'[chain[k]].Parent = chain[k - 1]
    BY <2>0, <2>1 DEF Working
  <2>5. Working'
    BY <2>0, <2>3, <2>4 DEF Working
  <2>6. Owed'
    BY <2>0 DEF Owed, LoopTypes, CrowsServed
  <2> QED
    BY <2>2, <2>5, <2>6 DEF UInv
<1> QED
  BY <1>1, <1>2 DEF GameRuns

\* Update begins with what asked for it, or with all active objects.
LEMMA UpdateWorkLoop ==
  ASSUME IInv, NEW work \in Seq(Objects), ToSet(work) \subseteq Live, UpdateWork(work)
  PROVE  UInv'
<1>0. /\ phase = "merge" /\ phase' = "update" /\ chain = <<>> /\ chain' = <<>> /\ workload' = work
      /\ due' = {o \in ToSet(work) : Enabled(o)} /\ Live' = Live /\ Live \subseteq Objects
      /\ obj \in [Objects -> Object]
  BY DEF IInv, UInv, Working, UpdateWork, Merged, AInv, Typed, lists, Live
<1>1. <<>> \in Seq(Objects) /\ ToSet(<<>>) = {} /\ Len(<<>>) = 0
  BY SetOfSeq, EmptySeq
<1>2. ASSUME NEW o \in Objects PROVE Enabled(o)' <=> Enabled(o)
  <2> DEFINE c == obj[o].crow /\ o \notin ToSet(m_primary_crows \o work)
             f == IF o \in ToSet(work) THEN NoFrame ELSE obj[o].dwFrame_AsCrow
  <2>1. obj'[o] = [obj[o] EXCEPT !.crow = c, !.dwFrame_AsCrow = f] /\ obj[o] \in Object
    BY <1>0 DEF UpdateWork
  <2> HIDE DEF c, f
  <2>2. obj'[o].bActiveCounter = obj[o].bActiveCounter
    BY <2>1 DEF Object
  <2> QED
    BY <2>2 DEF Enabled
<1>3. LoopTypes'
  BY <1>0, <1>1 DEF LoopTypes
<1>4. Working'
  BY <1>0, <1>1 DEF Working
<1>5. Owed'
  BY <1>0, <1>2 DEF Owed, CrowsServed
<1> QED
  BY <1>3, <1>4, <1>5 DEF UInv

\* The next of the workload: one that returns early was served or is disabled.
LEMMA SingleUpdateLoop ==
  ASSUME IInv, SingleUpdate
  PROVE  UInv'
<1>0. /\ phase = "update" /\ chain = <<>> /\ workload # <<>> /\ workload \in Seq(Objects)
      /\ workload' = Tail(workload) /\ obj' = obj /\ dwFrame' = dwFrame /\ due' = due
      /\ Live' = Live /\ Live \subseteq Objects /\ LoopTypes /\ Working /\ Owed
      /\ ToSet(workload) \subseteq Live
  BY DEF IInv, UInv, LoopTypes, Working, AInv, Typed, Live, SingleUpdate, LoopStep, lists
<1> DEFINE h == Head(workload)
<1>1. h \in Live /\ Tail(workload) \in Seq(Objects) /\ ToSet(workload) = {h} \cup ToSet(Tail(workload))
  BY <1>0, TailSet
<1>2. <<>> \in Seq(Objects) /\ ToSet(<<>>) = {} /\ Len(<<>>) = 0
  BY SetOfSeq, EmptySeq
<1>3. <<h>> \in Seq(Objects) /\ ToSet(<<h>>) = {h} /\ Len(<<h>>) = 1 /\ <<h>> # <<>>
  <2>1. h \in Objects /\ DOMAIN <<h>> = {1} /\ <<h>>[1] = h /\ Len(<<h>>) = 1
    BY <1>0, <1>1
  <2> HIDE DEF h
  <2> QED
    BY <2>1, <1>2 DEF ToSet
<1> HIDE DEF h
<1>4. CASE Skipped(h) /\ UNCHANGED <<phase, chain>>
  <2>1. LoopTypes'
    BY <1>0, <1>1, <1>2, <1>4 DEF LoopTypes
  <2>2. Working'
    BY <1>0, <1>1, <1>2, <1>4 DEF Working
  <2>3. ASSUME NEW o \in due
        PROVE  Enabled(o) /\ (o \in ToSet(Tail(workload)) \/ obj[o].dwFrame_UpdateCL = dwFrame)
    <3>1. Enabled(o) /\ (o \in ToSet(workload) \/ obj[o].dwFrame_UpdateCL = dwFrame)
      BY <1>0, <1>2 DEF Owed
    <3>2. o = h => obj[o].dwFrame_UpdateCL = dwFrame
      BY <1>4, <3>1 DEF Skipped
    <3> QED
      BY <1>1, <3>1, <3>2
  <2>4. Owed'
    BY <1>0, <1>4, <2>3 DEF Owed, Enabled, CrowsServed
  <2> QED
    BY <2>1, <2>2, <2>4 DEF UInv
<1>5. CASE phase' = "descend" /\ chain' = <<h>>
  <2>1. LoopTypes'
    BY <1>0, <1>1, <1>3, <1>5 DEF LoopTypes
  <2>2. Working'
    <3>1. ToSet(workload') \subseteq Live' /\ ToSet(chain') \subseteq Live' /\ chain' # <<>>
      BY <1>0, <1>1, <1>3, <1>5
    <3>2. 2 .. Len(chain') = {}
      BY <1>3, <1>5
    <3> QED
      BY <1>5, <3>1, <3>2 DEF Working
  <2>3. ASSUME NEW o \in due
        PROVE  Enabled(o) /\ (o \in ToSet(Tail(workload)) \cup {h} \/ obj[o].dwFrame_UpdateCL = dwFrame)
    BY <1>0, <1>1, <1>2 DEF Owed
  <2>4. Owed'
    BY <1>0, <1>3, <1>5, <2>3 DEF Owed, Enabled, CrowsServed
  <2> QED
    BY <2>1, <2>2, <2>4 DEF UInv
<1> QED
  BY <1>4, <1>5 DEF SingleUpdate, h

\* A list with one more in front.
LEMMA PushSet ==
  ASSUME NEW S, NEW e \in S, NEW s \in Seq(S)
  PROVE  /\ <<e>> \o s \in Seq(S) /\ Len(<<e>> \o s) = Len(s) + 1 /\ <<e>> \o s # <<>>
         /\ (<<e>> \o s)[1] = e /\ Head(<<e>> \o s) = e
         /\ \A k \in 2 .. Len(s) + 1 : (<<e>> \o s)[k] = s[k - 1]
         /\ ToSet(<<e>> \o s) = {e} \cup ToSet(s)
<1>1. <<e>> \in Seq(S) /\ Len(<<e>>) = 1 /\ <<e>>[1] = e /\ DOMAIN <<e>> = {1} /\ Len(s) \in Nat
  BY LenProperties
<1>2. ToSet(<<e>>) = {e}
  BY <1>1 DEF ToSet
<1> DEFINE t == <<e>> \o s
<1>3. /\ t \in Seq(S) /\ Len(t) = 1 + Len(s) /\ ToSet(t) = {e} \cup ToSet(s)
      /\ \A k \in 1 .. 1 + Len(s) : t[k] = IF k <= 1 THEN <<e>>[k] ELSE s[k - 1]
  <2>1. /\ t \in Seq(S) /\ Len(t) = Len(<<e>>) + Len(s)
        /\ \A k \in 1 .. Len(<<e>>) + Len(s) : t[k] = IF k <= Len(<<e>>) THEN <<e>>[k] ELSE s[k - Len(<<e>>)]
    BY <1>1, ConcatProperties
  <2>2. ToSet(t) = ToSet(<<e>>) \cup ToSet(s)
    <3> DEFINE u == <<e>>
    <3>1. u \in Seq(S)
      BY <1>1
    <3> HIDE DEF u
    <3>2. ToSet(u \o s) = ToSet(u) \cup ToSet(s)
      BY <3>1, ConcatSet
    <3> QED
      BY <3>2 DEF u
  <2> HIDE DEF t
  <2> QED
    BY <1>1, <1>2, <2>1, <2>2
<1> HIDE DEF t
<1>4. t[1] = e /\ Len(t) = Len(s) + 1
  BY <1>1, <1>3
<1>5. ASSUME NEW k \in 2 .. Len(s) + 1 PROVE t[k] = s[k - 1]
  <2>1. k \in 1 .. 1 + Len(s) /\ ~(k <= 1)
    BY <1>1
  <2> QED
    BY <1>3, <2>1
<1>6. t # <<>> /\ Head(t) = e
  <2>1. t # <<>>
    BY <1>1, <1>4, EmptySeq
  <2> QED
    BY <1>3, <1>4, <2>1, TailSet
<1> QED
  BY <1>3, <1>4, <1>5, <1>6 DEF t

\* One step up: to the parent, or the object is the next to be updated.
LEMMA DescendLoop ==
  ASSUME IInv, Descend
  PROVE  UInv'
<1> DEFINE h == Head(chain)
           parent == obj[h].Parent
<1>0. /\ phase = "descend" /\ chain # <<>> /\ chain \in Seq(Objects) /\ workload' = workload
      /\ obj' = obj /\ dwFrame' = dwFrame /\ due' = due /\ Live' = Live /\ Live \subseteq Objects
      /\ LoopTypes /\ Working /\ Owed /\ ToSet(chain) \subseteq Live /\ None \notin Objects
  BY ObjectListAssumption
     DEF IInv, UInv, LoopTypes, Working, AInv, Typed, Live, Descend, LoopStep, lists
<1>1. /\ h \in Live /\ parent \in Live \cup {None} /\ h = chain[1] /\ Len(chain) \in Nat \ {0}
      /\ DOMAIN chain = 1 .. Len(chain)
  <2>1. h \in ToSet(chain) /\ h = chain[1] /\ Len(chain) \in Nat \ {0} /\ DOMAIN chain = 1 .. Len(chain)
    BY <1>0, TailSet, LenProperties
  <2> QED
    BY <1>0, <2>1 DEF IInv, QInv, Carrying
<1>2. CASE parent # None /\ ~Skipped(parent) /\ chain' = <<parent>> \o chain /\ UNCHANGED phase
  <2>1. /\ chain' \in Seq(Objects) /\ Len(chain') = Len(chain) + 1 /\ chain' # <<>> /\ chain'[1] = parent
        /\ \A k \in 2 .. Len(chain) + 1 : chain'[k] = chain[k - 1]
        /\ ToSet(chain') = {parent} \cup ToSet(chain)
    <3>1. parent \in Objects
      BY <1>0, <1>1, <1>2
    <3> HIDE DEF parent
    <3> QED
      BY <1>0, <1>2, <3>1, PushSet
  <2>2. LoopTypes'
    BY <1>0, <2>1 DEF LoopTypes
  <2>3. ASSUME NEW k \in 2 .. Len(chain) + 1 PROVE obj[chain'[k]].Parent = chain'[k - 1]
    <3>1. CASE k = 2
      BY <1>1, <2>1, <3>1
    <3>2. CASE k # 2
      <4>1. /\ k - 1 \in 2 .. Len(chain) /\ k - 1 \in 2 .. Len(chain) + 1
            /\ chain'[k] = chain[k - 1] /\ chain'[k - 1] = chain[(k - 1) - 1]
        BY <1>1, <2>1, <3>2
      <4> QED
        BY <1>0, <4>1 DEF Working
    <3> QED
      BY <3>1, <3>2
  <2>4. Working'
    <3>1. ToSet(chain') \subseteq Live'
      BY <1>0, <1>1, <1>2, <2>1
    <3> QED
      BY <1>0, <1>2, <2>1, <2>3, <3>1 DEF Working
  <2>5. Owed'
    <3>1. \A o \in due : Enabled(o) /\ (o \in ToSet(workload) \cup ToSet(chain) \/ obj[o].dwFrame_UpdateCL = dwFrame)
      BY <1>0 DEF Owed
    <3> QED
      BY <1>0, <1>2, <2>1, <3>1 DEF Owed, Enabled, CrowsServed
  <2> QED
    BY <2>2, <2>4, <2>5 DEF UInv
<1>3. CASE (parent # None => Skipped(parent)) /\ phase' = "update" /\ UNCHANGED chain
  <2>1. LoopTypes'
    BY <1>0, <1>3 DEF LoopTypes
  <2>2. (obj[Head(chain)].Parent = None \/ Skipped(obj[Head(chain)].Parent))'
    BY <1>0, <1>3 DEF Skipped, Enabled
  <2>3. Working'
    BY <1>0, <1>3, <2>2 DEF Working
  <2>4. Owed'
    BY <1>0, <1>3 DEF Owed, Enabled, CrowsServed
  <2> QED
    BY <2>1, <2>3, <2>4 DEF UInv
<1> QED
  BY <1>2, <1>3 DEF Descend

\* The update of the object begins.
LEMMA UpdateCLLoop ==
  ASSUME IInv, UpdateCL
  PROVE  UInv'
<1> PICK h : h = Head(chain)
  OBVIOUS
<1>0. /\ phase = "update" /\ phase' = "update" /\ chain # <<>> /\ chain \in Seq(Objects) /\ workload' = workload
      /\ chain' = chain /\ obj' = [obj EXCEPT ![h].dwFrame_UpdateCL = dwFrame] /\ dwFrame' = dwFrame
      /\ due' = due /\ Live' = Live /\ Live \subseteq Objects /\ obj \in [Objects -> Object]
      /\ LoopTypes /\ Working /\ Owed /\ ToSet(chain) \subseteq Live
  BY DEF IInv, UInv, LoopTypes, Working, AInv, Typed, Live, UpdateCL, LoopStep, lists
<1>1. h \in Objects /\ DOMAIN chain = 1 .. Len(chain) /\ \A k \in 1 .. Len(chain) : chain[k] \in Objects
  BY <1>0, TailSet, LenProperties, ElementOfSeq
<1>2. /\ obj'[h].dwFrame_UpdateCL = dwFrame
      /\ \A o \in Objects : /\ obj'[o].Parent = obj[o].Parent /\ obj'[o].bActiveCounter = obj[o].bActiveCounter
                            /\ obj[o].dwFrame_UpdateCL = dwFrame => obj'[o].dwFrame_UpdateCL = dwFrame
  BY <1>0, <1>1 DEF Object
<1>3. LoopTypes'
  BY <1>0 DEF LoopTypes
<1>4. \A k \in 2 .. Len(chain) : obj'[chain[k]].Parent = chain[k - 1]
  BY <1>0, <1>1, <1>2 DEF Working
<1>5. Working'
  BY <1>0, <1>2, <1>4 DEF Working
<1>6. Owed'
  BY <1>0, <1>2 DEF Owed, LoopTypes, Enabled, CrowsServed
<1> QED
  BY <1>3, <1>5, <1>6 DEF UInv

\* The object has been updated; what it carries comes next.
LEMMA UpdateCLReturnsLoop ==
  ASSUME IInv, UpdateCLReturns
  PROVE  UInv'
<1> DEFINE h == Head(chain)
           rest == Tail(chain)
<1>0. /\ phase = "update" /\ phase' = "update" /\ chain # <<>> /\ chain \in Seq(Objects) /\ workload' = workload
      /\ chain' = rest /\ obj' = obj /\ dwFrame' = dwFrame /\ obj[h].dwFrame_UpdateCL = dwFrame
      /\ due' = due /\ Live' = Live /\ Live \subseteq Objects
      /\ LoopTypes /\ Working /\ Owed /\ ToSet(chain) \subseteq Live
  BY DEF IInv, UInv, LoopTypes, Working, AInv, Typed, Live, UpdateCLReturns, InUpdateCL, LoopStep, lists
<1>1. /\ h = chain[1] /\ rest \in Seq(Objects) /\ Len(chain) \in Nat \ {0} /\ Len(rest) = Len(chain) - 1
      /\ \A k \in 1 .. Len(rest) : rest[k] = chain[k + 1]
      /\ ToSet(chain) = {h} \cup ToSet(rest)
      /\ rest # <<>> => Head(rest) = rest[1] /\ Len(rest) \in Nat \ {0}
  BY <1>0, TailSet
<1> HIDE DEF h, rest
<1>2. LoopTypes'
  BY <1>0, <1>1 DEF LoopTypes
<1>3. ASSUME NEW k \in 1 .. Len(rest) PROVE obj[rest[k]].Parent = chain[k]
  <2>1. k + 1 \in 2 .. Len(chain) /\ (k + 1) - 1 = k
    BY <1>1
  <2> QED
    BY <1>0, <1>1, <2>1 DEF Working
<1>4. ASSUME NEW k \in 2 .. Len(rest) PROVE obj[rest[k]].Parent = rest[k - 1]
  <2>1. k \in 1 .. Len(rest) /\ k - 1 \in 1 .. Len(rest) /\ (k - 1) + 1 = k
    BY <1>1
  <2> QED
    BY <1>1, <1>3, <2>1
<1>5. rest # <<>> => Skipped(obj[Head(rest)].Parent)
  <2> SUFFICES ASSUME rest # <<>> PROVE Skipped(obj[Head(rest)].Parent)
    OBVIOUS
  <2>1. 1 \in 1 .. Len(rest)
    BY <1>1
  <2>2. obj[Head(rest)].Parent = h
    BY <1>1, <1>3, <2>1
  <2> QED
    BY <1>0, <2>2 DEF Skipped
<1>6. Working'
  <2>1. ToSet(rest) \subseteq Live
    BY <1>0, <1>1
  <2>2. rest # <<>> => Skipped(obj[Head(chain)].Parent)'
    BY <1>0, <1>5 DEF Skipped, Enabled
  <2> QED
    BY <1>0, <1>4, <2>1, <2>2 DEF Working
<1>7. Owed'
  <2>1. \A o \in due : Enabled(o) /\ (o \in ToSet(workload) \cup ToSet(rest) \/ obj[o].dwFrame_UpdateCL = dwFrame)
    BY <1>0, <1>1 DEF Owed
  <2> QED
    BY <1>0, <2>1 DEF Owed, Enabled, CrowsServed
<1> QED
  BY <1>2, <1>6, <1>7 DEF UInv

\* The loops end: what is still owed was updated in this frame, or is destroyed.
LEMMA EndsLoop ==
  ASSUME IInv, UpdateNothing \/ UpdateLoopEnds \/ DestroyLast \/ UpdateEnds
  PROVE  UInv'
<1>0. LoopTypes /\ Working /\ Owed /\ Live \subseteq Objects /\ obj \in [Objects -> Object]
  BY DEF IInv, UInv, AInv, Typed, Live
<1>1. CASE UpdateNothing
  <2>1. /\ phase = "merge" /\ phase' = "destroy" /\ due' = due /\ due = {} /\ workload' = <<>> /\ chain' = <<>>
    BY <1>0, <1>1 DEF UpdateNothing, Merged, Destroying, Working, Owed
  <2> QED
    BY <2>1, LoopRest DEF CrowsServed
<1>2. CASE UpdateLoopEnds
  <2>1. /\ phase = "update" /\ phase' = "destroy" /\ due' = due /\ workload' = <<>> /\ chain' = <<>>
        /\ workload = <<>> /\ chain = <<>> /\ obj' = obj /\ dwFrame' = dwFrame
    BY <1>2 DEF UpdateLoopEnds, Destroying
  <2>2. ToSet(<<>>) = {}
    BY SetOfSeq
  <2>3. CrowsServed'
    BY <1>0, <2>1, <2>2 DEF Owed, CrowsServed
  <2> QED
    BY <1>0, <2>1, <2>3, LoopRest DEF LoopTypes
<1>3. CASE DestroyLast
  <2>1. PICK o : obj' = [obj EXCEPT ![o] = New] /\ Live' = Live \ {o}
    BY <1>3 DEF DestroyLast, Destroy, Destroyed, Live
  <2>2. /\ phase = "destroy" /\ phase' = "destroy" /\ dwFrame' = dwFrame /\ due' = due
        /\ workload' = <<>> /\ chain' = <<>>
    BY <1>0, <1>3 DEF DestroyLast, frame, Working
  <2>3. CrowsServed'
    BY <1>0, <2>1, <2>2 DEF Owed, CrowsServed
  <2> QED
    BY <1>0, <2>2, <2>3, LoopRest DEF LoopTypes
<1>4. CASE UpdateEnds
  <2>1. phase' = "game" /\ due' = {} /\ workload' = <<>> /\ chain' = <<>>
    BY <1>0, <1>4 DEF UpdateEnds, loops, Working
  <2> QED
    BY <2>1, LoopRest DEF CrowsServed
<1> QED
  BY <1>1, <1>2, <1>3, <1>4

\* What is listed is live.
LEMMA ListedLive ==
  ASSUME IInv
  PROVE  \A l \in Lists : ToSet(CrowList(l)) \subseteq Live
<1> SUFFICES ASSUME NEW l \in Lists, NEW o \in ToSet(CrowList(l))
             PROVE  o \in Live
  OBVIOUS
<1>1. o \in Objects
  BY ListFacts, SetOfSeq DEF IInv
<1>2. obj[o].crow \/ Pushed(o)
  BY <1>1 DEF IInv, LInv, Once, Listed
<1>3. CASE obj[o].crow
  BY <1>1, <1>3 DEF IInv, TInv, Free, New
<1>4. CASE Pushed(o)
  BY <1>4 DEF IInv, TInv, Claims, Busy, Pushed
<1> QED
  BY <1>2, <1>3, <1>4

\* Updates: the part is kept.
LEMMA UpdatesStep ==
  ASSUME IInv, [Next]_vars
  PROVE  UInv'
<1>0. /\ obj \in [Objects -> Object] /\ \A x \in Objects : obj[x] \in Object
      /\ Live \subseteq Objects /\ LoopTypes /\ Working /\ Owed /\ Claims
  BY DEF IInv, AInv, Typed, TInv, UInv, Live
<1>1. GameRuns => \A o \in due : Enabled(o)
  BY <1>0 DEF GameRuns, InUpdateCL, Owed
<1>2. ASSUME NEW o \in Objects, CallMakeMeCrow(o) PROVE UInv'
  <2>1. /\ GameRuns /\ UNCHANGED <<frame, loops>> /\ Live' = Live /\ due' = due
        /\ MakeMeCrow(o, obj[o]) /\ obj[o] \in Object
    BY <1>0, <1>2 DEF CallMakeMeCrow, lists, Live
  <2>2. \A x \in Objects : /\ obj'[x].Parent = obj[x].Parent /\ obj'[x].dwFrame_UpdateCL = obj[x].dwFrame_UpdateCL
                           /\ obj'[x].bActiveCounter = obj[x].bActiveCounter
    BY <2>1, MakeMeCrowLeaves
  <2>3. \A x \in due' : Enabled(x)'
    BY <1>0, <1>1, <2>1, <2>2 DEF Enabled, LoopTypes
  <2> QED
    BY <2>1, <2>2, <2>3, CallInUpdate
<1>3. ASSUME NEW o \in Objects, Activate(o) PROVE UInv'
  <2>1. GameRuns /\ UNCHANGED <<frame, loops>> /\ Live' = Live /\ due' = due
    BY <1>3 DEF Activate, Call, lists, Live
  <2>2. /\ obj'[o].Parent = obj[o].Parent /\ obj'[o].dwFrame_UpdateCL = obj[o].dwFrame_UpdateCL
        /\ obj'[o].bActiveCounter > 0
        /\ \A x \in Objects \ {o} : obj'[x] = obj[x]
    <3>1. CASE Enabled(o) /\ obj' = [obj EXCEPT ![o].bActiveCounter = @ + 1]
      <4>1. obj[o].bActiveCounter \in Nat
        BY <1>0, Counters DEF Object
      <4> QED
        BY <1>0, <3>1, <4>1 DEF Object
    <3>2. CASE MakeMeCrow(o, [obj[o] EXCEPT !.bActiveCounter = 1])
      <4> DEFINE r == [obj[o] EXCEPT !.bActiveCounter = 1]
      <4>1. /\ r \in Object /\ r.Parent = obj[o].Parent /\ r.dwFrame_UpdateCL = obj[o].dwFrame_UpdateCL
            /\ r.bActiveCounter = 1
        BY <1>0, Counters DEF Object
      <4> HIDE DEF r
      <4>2. MakeMeCrow(o, r)
        BY <3>2 DEF r
      <4> QED
        BY <4>1, <4>2, MakeMeCrowLeaves
    <3> QED
      BY <1>3, <3>1, <3>2 DEF Activate
  <2>3. \A x \in due' : Enabled(x)'
    BY <1>0, <1>1, <2>1, <2>2 DEF Enabled, LoopTypes
  <2> QED
    BY <2>1, <2>2, <2>3, CallInUpdate
<1>4. ASSUME NEW o \in Objects, Deactivate(o) PROVE UInv'
  <2>1. /\ GameRuns /\ UNCHANGED <<frame, loops>> /\ Live' = Live /\ due' \subseteq due
        /\ obj' = [obj EXCEPT ![o].bActiveCounter = @ - 1]
        /\ obj[o].bActiveCounter > 1 \/ o \notin due'
    BY <1>4 DEF Deactivate, Call, lists, Live
  <2>2. /\ obj'[o].Parent = obj[o].Parent /\ obj'[o].dwFrame_UpdateCL = obj[o].dwFrame_UpdateCL
        /\ obj[o].bActiveCounter > 1 => obj'[o].bActiveCounter > 0
        /\ \A x \in Objects \ {o} : obj'[x] = obj[x]
    <3>1. obj[o].bActiveCounter \in Nat
      BY <1>0, Counters DEF Object
    <3> QED
      BY <1>0, <2>1, <3>1 DEF Object
  <2>3. \A x \in due' : Enabled(x)'
    BY <1>0, <1>1, <2>1, <2>2 DEF Enabled, LoopTypes
  <2> QED
    BY <2>1, <2>2, <2>3, CallInUpdate
<1>5. ASSUME NEW o \in Objects,
             \/ Reject(o) \/ SetDestroy(o)
             \/ \E p \in Objects \cup {None} : Spawn(o, p)
             \/ \E p \in Objects : Take(o, p)
      PROVE  UInv'
  <2>1. phase = "game" /\ phase' = "game" /\ workload' = workload /\ chain' = chain /\ due' = due
    BY <1>5 DEF Reject, SetDestroy, Spawn, Take, Call, frame, loops
  <2> QED
    BY <2>1, LoopStays
<1>6. ASSUME NEW w \in Workers,
             (\E o \in Objects : Render(w, o)) \/ Load(w) \/ CompareExchange(w) \/ OCrow(w) \/ SetCrow(w)
      PROVE  UInv'
  <2>1. phase = "render"
    BY <1>0, <1>6 DEF Render, Load, CompareExchange, OCrow, SetCrow, Claims, Busy
  <2>2. phase' = phase /\ workload' = workload /\ chain' = chain /\ due' = due
    BY <1>6 DEF Render, Load, CompareExchange, OCrow, SetCrow, WorkerStep, frame, loops
  <2> QED
    BY <2>1, <2>2, LoopStays
<1>7. ASSUME \/ UpdateBegins \/ RenderBegins \/ FrameEnds \/ UnloadBegins
             \/ \E w \in Workers : MergeList(w)
             \/ \E o \in Objects : UnloadNext(o)
      PROVE  UInv'
  <2>1. /\ phase \in {"game", "merge", "render", "unload"} /\ phase' \in {"game", "merge", "render", "unload"}
        /\ workload' = workload /\ chain' = chain /\ due' = due
    BY <1>7 DEF UpdateBegins, RenderBegins, FrameEnds, UnloadBegins, UnloadNext, MergeList, frame, loops
  <2> QED
    BY <2>1, LoopStays
<1>8. CASE UpdateCrows
  <2>1. m_primary_crows \in Seq(Objects) /\ ToSet(m_primary_crows) \subseteq Live
    BY ListedLive, ListFacts DEF IInv
  <2> QED
    BY <1>8, <2>1, UpdateWorkLoop DEF UpdateCrows
<1>9. CASE UpdateActive
  <2>1. PICK work \in SetToSeqs(objects_active) : UpdateWork(work)
    BY <1>9 DEF UpdateActive
  <2>2. objects_active \subseteq Objects /\ IsFiniteSet(objects_active)
    BY FS_Subset, ObjectListAssumption DEF IInv, AInv, Typed
  <2>3. work \in Seq(Objects) /\ ToSet(work) \subseteq Live
    BY <2>2, ListingOf, SeqMonotonic DEF Live
  <2> QED
    BY <2>1, <2>3, UpdateWorkLoop
<1>10. CASE UNCHANGED vars
  <2>1. /\ UNCHANGED <<workload, chain, due, phase, dwFrame, obj>> /\ Live' = Live
    BY <1>10 DEF vars, frame, loops, lists, Live
  <2>2. LoopTypes'
    BY <1>0, <2>1 DEF LoopTypes
  <2>3. Working'
    BY <1>0, <2>1 DEF Working, Skipped, Enabled
  <2>4. Owed'
    BY <1>0, <2>1 DEF Owed, Enabled, CrowsServed
  <2> QED
    BY <2>2, <2>3, <2>4 DEF UInv
<1> QED
  BY <1>2, <1>3, <1>4, <1>5, <1>6, <1>7, <1>8, <1>9, <1>10, EndsLoop, SingleUpdateLoop, DescendLoop,
     UpdateCLLoop, UpdateCLReturnsLoop DEF Next

-----------------------------------------------------------------------------
(* The invariant, and what follows from it.                                 *)

LEMMA InitIInv ==
  ASSUME Init
  PROVE  IInv
<1>1. /\ New \in Object /\ New.bActiveCounter = 0 /\ New.bDestroy = FALSE /\ New.crow = FALSE
      /\ 0 \in 0 .. MaxFrame /\ 0 \in 0 .. MaxCalls /\ NoFrame \in Frames
  BY ObjectListAssumption, Counters DEF New, Object, Frames, NoFrame
<1>2. <<>> \in Seq(Objects) /\ ToSet(<<>>) = {} /\ IsInjective(<<>>) /\ Len(<<>>) = 0
  BY SetOfSeq, EmptySeq
<1>3. AInv /\ Live = {}
  BY <1>1 DEF Init, AInv, Typed, ActiveIffCounted, Enabled, Live
<1>4. TInv
  BY <1>1 DEF Init, TInv, WorkerTypes, Phases, Free, Claims, Claimed
<1>5. LInv
  <2>1. \A l \in Lists : CrowList(l) = <<>>
    BY DEF Init, Lists, CrowList
  <2>2. \A o \in Objects : ~obj[o].crow /\ ~Pushed(o)
    BY <1>1 DEF Init, Pushed
  <2>3. Once
    BY <1>2, <2>1, <2>2 DEF Once, Listed
  <2>4. CrowTypes
    BY <1>2 DEF Init, CrowTypes
  <2> QED
    BY <2>3, <2>4 DEF LInv
<1>6. QInv
  <2>1. Pending = {}
    BY <1>2 DEF Init, Pending
  <2>2. Queued
    BY <1>1, <1>3, <2>1 DEF Init, Queued
  <2> QED
    BY <1>2, <1>3, <2>2 DEF Init, QInv, QueueTypes, Carrying, FlaggedBelow
<1>7. UInv
  BY <1>2 DEF Init, UInv, LoopTypes, Working, Owed, CrowsServed
<1> QED
  BY <1>3, <1>4, <1>5, <1>6, <1>7 DEF IInv

\* Every reachable state satisfies the invariant.
LEMMA Inductive == Spec => []IInv
<1>1. Init => IInv
  BY InitIInv
<1>2. IInv /\ [Next]_vars => IInv'
  BY CountersStep, ThreadsStep, ListsStep, QueueStep, UpdatesStep DEF IInv
<1> QED
  BY <1>1, <1>2, PTL DEF Spec

\* Every variable keeps its type, the frame counts and the activity counters of
\* processing_activate, of eight bits, their ranges.
THEOREM TypeCorrect == Spec => []TypeOK
<1>1. IInv => TypeOK
  BY DEF IInv, AInv, Typed, TInv, WorkerTypes, LInv, CrowTypes, QInv, QueueTypes, UInv, LoopTypes, TypeOK
<1> QED
  BY <1>1, Inductive, PTL

\* MakeMeCrow on any number of threads, Update and Destroy keep the flag of an
\* object and its one place on the lists of crows together.
THEOREM CrowOnOneList == Spec => []CrowListed
<1>1. IInv => CrowListed
  BY OnePlace DEF IInv
<1> QED
  BY <1>1, Inductive, PTL

\* The destroy queue holds the flagged objects once each, what an object
\* carries behind it.
THEOREM QueueInOrder == Spec => []QueueSound
<1>1. IInv => QueueSound
  BY QueueIsSound DEF IInv
<1> QED
  BY <1>1, Inductive, PTL

\* No list, no loop of Update and no thread in MakeMeCrow is left with a pointer to
\* an object that Destroy freed, also between two objects of Unload, and before
\* Unload no child is.
THEOREM PointersLive == Spec => []NoDangling
<1>1. ASSUME IInv PROVE NoDangling
  <2>1. ToSet(m_primary_crows) \subseteq Live /\ \A w \in Workers : ToSet(m_secondary_crows[w]) \subseteq Live
    BY <1>1, ListedLive, ListFacts DEF IInv
  <2>2. ToSet(workload) \subseteq Live /\ ToSet(chain) \subseteq Live
    BY <1>1 DEF IInv, UInv, Working
  <2>3. ToSet(m_primary_crows \o workload \o chain)
          = ToSet(m_primary_crows) \cup ToSet(workload) \cup ToSet(chain)
    <3>1. m_primary_crows \in Seq(Objects) /\ workload \in Seq(Objects) /\ chain \in Seq(Objects)
      BY <1>1 DEF IInv, LInv, CrowTypes, UInv, LoopTypes
    <3>2. /\ m_primary_crows \o workload \in Seq(Objects)
          /\ ToSet(m_primary_crows \o workload) = ToSet(m_primary_crows) \cup ToSet(workload)
      BY <3>1, ConcatSet
    <3> DEFINE u == m_primary_crows \o workload
    <3> HIDE DEF u
    <3>3. u \in Seq(Objects)
      BY <3>2 DEF u
    <3>4. ToSet(u \o chain) = ToSet(u) \cup ToSet(chain)
      BY <3>1, <3>3, ConcatSet
    <3> QED
      BY <3>2, <3>4 DEF u
  <2>4. phase # "unload" => \A o \in Live : obj[o].Parent \in Live \cup {None}
    BY <1>1 DEF IInv, QInv, Carrying
  <2>5. \A w \in Workers : arg[w] \in Live \cup {None}
    BY <1>1 DEF IInv, TInv, Claims, Busy
  <2>6. /\ ToSet(m_primary_crows \o workload \o chain) \subseteq Live
        /\ UNION {ToSet(m_secondary_crows[w]) : w \in Workers} \subseteq Live
    BY <2>1, <2>2, <2>3
  <2>7. /\ phase # "unload" => {obj[o].Parent : o \in Live} \subseteq Live \cup {None}
        /\ {arg[w] : w \in Workers} \subseteq Live \cup {None}
    BY <2>4, <2>5
  <2> QED
    BY <2>6, <2>7 DEF NoDangling
<1> QED
  BY <1>1, Inductive, PTL

\* Once Update has gone through its workload, every live object whose update it
\* owed has been updated in this frame.
THEOREM CrowsUpdated == Spec => []CrowsServed
<1>1. IInv => CrowsServed
  BY DEF IInv, UInv, Owed
<1> QED
  BY <1>1, Inductive, PTL

\* SingleUpdate updates no object before the enabled one that carries it.
THEOREM ParentsUpdatedFirst == Spec => ParentFirst
<1> DEFINE A == \A o \in Objects : LET p == obj[o].Parent IN
        phase = "update" /\ obj'[o].dwFrame_UpdateCL # obj[o].dwFrame_UpdateCL /\ p # None /\ Enabled(p)
            => obj[p].dwFrame_UpdateCL = dwFrame
<1>1. ASSUME IInv, [Next]_vars PROVE A
  <2> SUFFICES ASSUME NEW o \in Objects, phase = "update", obj'[o].dwFrame_UpdateCL # obj[o].dwFrame_UpdateCL,
                      obj[o].Parent # None, Enabled(obj[o].Parent)
               PROVE  obj[obj[o].Parent].dwFrame_UpdateCL = dwFrame
    OBVIOUS
  <2>0. /\ obj \in [Objects -> Object] /\ obj[o] \in Object /\ Claims /\ Working
        /\ chain \in Seq(Objects)
    BY <1>1 DEF IInv, AInv, Typed, TInv, UInv, LoopTypes
  <2>1. UpdateCL
    <3>1. ASSUME NEW x \in Objects, CallMakeMeCrow(x) PROVE FALSE
      BY <1>1, <2>0, <3>1, MakeMeCrowLeaves DEF CallMakeMeCrow
    <3>2. ASSUME NEW x \in Objects, Activate(x) PROVE FALSE
      <4>1. CASE obj' = [obj EXCEPT ![x].bActiveCounter = @ + 1]
        BY <2>0, <4>1 DEF Object
      <4>2. CASE MakeMeCrow(x, [obj[x] EXCEPT !.bActiveCounter = 1])
        <5> DEFINE r == [obj[x] EXCEPT !.bActiveCounter = 1]
        <5>1. r \in Object /\ r.dwFrame_UpdateCL = obj[x].dwFrame_UpdateCL
          BY <2>0, Counters DEF Object
        <5> HIDE DEF r
        <5>2. MakeMeCrow(x, r)
          BY <4>2 DEF r
        <5> QED
          BY <1>1, <2>0, <5>1, <5>2, MakeMeCrowLeaves
      <4> QED
        BY <3>2, <4>1, <4>2 DEF Activate
    <3>3. ASSUME NEW x \in Objects, Deactivate(x) PROVE FALSE
      <4>1. obj' = [obj EXCEPT ![x].bActiveCounter = @ - 1]
        BY <3>3 DEF Deactivate
      <4> QED
        BY <2>0, <4>1 DEF Object
    <3>4. ASSUME NEW x \in Objects,
                 \/ Reject(x) \/ SetDestroy(x)
                 \/ \E p \in Objects \cup {None} : Spawn(x, p)
                 \/ \E p \in Objects : Take(x, p)
          PROVE  FALSE
      BY <3>4 DEF Reject, SetDestroy, Spawn, Take
    <3>5. ASSUME NEW w \in Workers,
                 (\E x \in Objects : Render(w, x)) \/ Load(w) \/ CompareExchange(w) \/ OCrow(w) \/ SetCrow(w)
          PROVE  FALSE
      BY <2>0, <3>5 DEF Render, Load, CompareExchange, OCrow, SetCrow, Claims, Busy
    <3>6. ~(\/ UpdateBegins \/ UpdateNothing \/ UpdateCrows \/ UpdateActive \/ Descend \/ DestroyLast
            \/ UpdateEnds \/ RenderBegins \/ FrameEnds \/ UnloadBegins
            \/ \E w \in Workers : MergeList(w)
            \/ \E x \in Objects : UnloadNext(x))
      BY DEF UpdateBegins, UpdateNothing, UpdateCrows, UpdateActive, UpdateWork, Merged, Descend, DestroyLast,
             UpdateEnds, RenderBegins, FrameEnds, UnloadBegins, UnloadNext, MergeList
    <3>7. ~(SingleUpdate \/ UpdateCLReturns \/ UpdateLoopEnds \/ UNCHANGED vars)
      BY DEF SingleUpdate, UpdateCLReturns, UpdateLoopEnds, vars
    <3> QED
      BY <1>1, <3>1, <3>2, <3>3, <3>4, <3>5, <3>6, <3>7 DEF Next
  <2>2. chain # <<>> /\ o = Head(chain) /\ obj[o].dwFrame_UpdateCL # dwFrame
    BY <2>0, <2>1 DEF UpdateCL, InUpdateCL
  <2>3. Skipped(obj[o].Parent)
    BY <2>0, <2>2 DEF Working
  <2> QED
    BY <2>3 DEF Skipped
<1>2. IInv /\ [Next]_vars => A
  BY <1>1
<1> HIDE DEF A
<1>3. Spec => [][A]_vars
  BY <1>2, Inductive, PTL DEF Spec
<1> QED
  BY <1>3 DEF ParentFirst, A
=============================================================================

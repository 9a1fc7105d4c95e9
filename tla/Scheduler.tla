------------------------------ MODULE Scheduler ------------------------------
(***************************************************************************)
(* xrEngine/xrSheduler.cpp: the object scheduler.  Game code registers and *)
(* unregisters objects between frames and from inside the updates the      *)
(* scheduler itself calls; an object unregistered there may be deleted as  *)
(* soon as Unregister returns, while pointers to it are still in the       *)
(* scheduler's containers.                                                 *)
(*                                                                         *)
(* An object is its address: registering one that was destroyed stands for *)
(* a new object in the same memory.  Time is counted in ticks.  The heap   *)
(* Items is a sequence whose top is any entry with the least time.         *)
(***************************************************************************)
EXTENDS Integers, Sequences, FiniteSets, SequencesExt

CONSTANTS
    Objects,        \* addresses of ISheduled objects
    None,           \* nullptr
    Periods,        \* the values of dwUpdate, in ticks
    CheckEvery,     \* the time budget is checked every so many entries (3)
    EraseInRTLoop,  \* whether an update of a realtime object may unregister one
    MaxTime,        \* bound: ticks
    MaxCalls        \* bound: calls of Register, Unregister, setDestroy

ASSUME SchedulerAssumption ==
    /\ None \notin Objects
    /\ IsFiniteSet(Objects)
    /\ Periods \subseteq Nat \ {0} /\ Periods # {}
    /\ CheckEvery \in Nat \ {0}
    /\ EraseInRTLoop \in BOOLEAN
    /\ MaxTime \in Nat /\ MaxCalls \in Nat

VARIABLES
    ItemsRT,            \* realtime objects, in order
    stale,              \* memory of ItemsRT that the loop can still reach past its end
    Items,              \* the priority queue: [Object, time]
    ItemsProcessed,     \* entries updated in this ProcessStep
    Registration,       \* deferred calls: [OP, RT, Object]
    b_RT,               \* the flag stored in every object
    m_current_step_obj,
    m_processing_now,
    dwTime,             \* Device.dwTimeGlobal
    phase,              \* which part of Update runs; "game" is the time between
    it,                 \* position of the loop over ItemsRT
    i,                  \* entries handled by ProcessStep, modulo CheckEvery
    updating,           \* the object whose shedule_Update runs
    needed,             \* shedule_Needed() of every object
    calls,              \* calls made so far
    \* what the callers and the clock saw
    client,             \* registered, as the callers see it
    served,             \* the objects updated in this frame
    waited              \* steps that ended before a due object was reached

queues == <<ItemsRT, stale, Items, ItemsProcessed, Registration>>
steps == <<dwTime, phase, it, i, updating>>
objects == <<b_RT, needed, calls, client>>
vars == <<queues, m_current_step_obj, m_processing_now, steps, objects, served, waited>>

Entry == [Object : Objects \cup {None}, time : Nat]
ItemReg == [OP : BOOLEAN, RT : BOOLEAN, Object : Objects]

TypeOK ==
    /\ ItemsRT \in Seq(Objects) /\ stale \in Seq(Objects)
    /\ Items \in Seq(Entry) /\ ItemsProcessed \in Seq(Entry)
    /\ Registration \in Seq(ItemReg)
    /\ b_RT \in [Objects -> BOOLEAN] /\ needed \in [Objects -> BOOLEAN]
    /\ m_current_step_obj \in Objects \cup {None} /\ updating \in Objects \cup {None}
    /\ m_processing_now = (phase \in {"rt", "normal"})
    /\ phase \in {"game", "reg1", "rt", "normal", "reg2", "destroyed"}
    /\ dwTime \in 0 .. MaxTime /\ calls \in 0 .. MaxCalls
    /\ it \in Nat /\ i \in 0 .. CheckEvery - 1
    /\ client \in [Objects -> BOOLEAN]
    /\ served \subseteq Objects /\ waited \in [Objects -> Nat]

Init ==
    /\ ItemsRT = <<>> /\ stale = <<>>
    /\ Items = <<>> /\ ItemsProcessed = <<>> /\ Registration = <<>>
    /\ b_RT = [o \in Objects |-> FALSE]
    /\ m_current_step_obj = None
    /\ m_processing_now = FALSE
    /\ dwTime = 0 /\ phase = "game" /\ it = 1 /\ i = 0 /\ updating = None
    /\ needed = [o \in Objects |-> TRUE]
    /\ calls = 0
    /\ client = [o \in Objects |-> FALSE]
    /\ served = {}
    /\ waited = [o \in Objects |-> 0]

-----------------------------------------------------------------------------
(* internal_Unregister: the object's container, then the current object.   *)

InRT(A) == A \in ToSet(ItemsRT)
InItems(A) == \E k \in DOMAIN Items : Items[k].Object = A
First(s, A) == SelectInSeq(s, LAMBDA e : e = A)
FirstItem(A) == SelectInSeq(Items, LAMBDA e : e.Object = A)

FoundToUnregister(A, RT) ==
    \/ IF RT THEN InRT(A) ELSE InItems(A)
    \/ m_current_step_obj = A

\* vector::erase moves the elements behind the erased one; the loop over
\* ItemsRT took its end before, and still finds the old last element there.
EraseRT(A) ==
    /\ ItemsRT' = RemoveAt(ItemsRT, First(ItemsRT, A))
    /\ stale' = IF phase = "rt" THEN <<Last(ItemsRT)>> \o stale ELSE stale

internal_Unregister(A, RT) ==
    \/ /\ RT /\ InRT(A)
       /\ EraseRT(A)
       /\ UNCHANGED <<Items, m_current_step_obj>>
    \/ /\ ~RT /\ InItems(A)
       /\ Items' = [Items EXCEPT ![FirstItem(A)].Object = None]
       /\ UNCHANGED <<ItemsRT, stale, m_current_step_obj>>
    \/ /\ ~(IF RT THEN InRT(A) ELSE InItems(A))
       /\ m_current_step_obj = A
       /\ m_current_step_obj' = None
       /\ UNCHANGED <<ItemsRT, stale, Items>>

-----------------------------------------------------------------------------
(* Calls of game code, between frames or from inside an update.            *)

GameRuns == phase = "game" \/ updating # None

Call == GameRuns /\ calls < MaxCalls /\ calls' = calls + 1

Register(A, RT) ==
    /\ Call
    /\ ~client[A]
    /\ Registration' = Append(Registration, [OP |-> TRUE, RT |-> RT, Object |-> A])
    /\ b_RT' = [b_RT EXCEPT ![A] = RT]
    /\ client' = [client EXCEPT ![A] = TRUE]
    /\ needed' = [needed EXCEPT ![A] = TRUE]
    /\ waited' = [waited EXCEPT ![A] = 0]
    /\ UNCHANGED <<ItemsRT, stale, Items, ItemsProcessed, m_current_step_obj,
                   m_processing_now, steps, served>>

\* Mutant of UnregisterCall: nothing is deferred while the scheduler is updating.
UnregisterCallDrops(A) ==
    \/ /\ m_processing_now /\ FoundToUnregister(A, b_RT[A])
       /\ internal_Unregister(A, b_RT[A])
       /\ UNCHANGED Registration
    \/ /\ m_processing_now /\ ~FoundToUnregister(A, b_RT[A])
       /\ UNCHANGED <<Registration, ItemsRT, stale, Items, m_current_step_obj>>
    \/ /\ ~m_processing_now
       /\ Registration' = Append(Registration, [OP |-> FALSE, RT |-> b_RT[A], Object |-> A])
       /\ UNCHANGED <<ItemsRT, stale, Items, m_current_step_obj>>

\* At once when the scheduler is updating and finds the object, else deferred.
UnregisterCall(A) ==
    \/ /\ m_processing_now /\ FoundToUnregister(A, b_RT[A])
       /\ internal_Unregister(A, b_RT[A])
       /\ UNCHANGED Registration
    \/ /\ ~(m_processing_now /\ FoundToUnregister(A, b_RT[A]))
       /\ Registration' = Append(Registration, [OP |-> FALSE, RT |-> b_RT[A], Object |-> A])
       /\ UNCHANGED <<ItemsRT, stale, Items, m_current_step_obj>>

\* The caller unregisters what it registered; the destructor of a destroyed
\* object does it once more (ISheduled.cpp, outside of debug builds).
Unregister(A) ==
    /\ Call
    /\ client[A] \/ (~needed[A] /\ updating # A)
    /\ phase = "rt" /\ InRT(A) /\ b_RT[A] => EraseInRTLoop
    /\ UnregisterCall(A)
    /\ client' = [client EXCEPT ![A] = FALSE]
    /\ waited' = [waited EXCEPT ![A] = 0]
    /\ UNCHANGED <<ItemsProcessed, m_processing_now, steps, b_RT, needed, served>>

\* setDestroy(true): shedule_Needed() is false from now on.
SetDestroy(A) ==
    /\ Call
    /\ client[A] /\ needed[A]
    /\ needed' = [needed EXCEPT ![A] = FALSE]
    /\ UNCHANGED <<queues, m_current_step_obj, m_processing_now, steps,
                   b_RT, client, served, waited>>

-----------------------------------------------------------------------------
(* internal_Registration, entry by entry, first and last in Update.        *)

\* Mutant of Pair: any later "unregister" is taken for the object's own.
PairAny(A) == SelectInSeq(Tail(Registration), LAMBDA R : ~R.OP)

Pair(A) == SelectInSeq(Tail(Registration), LAMBDA R : ~R.OP /\ R.Object = A)

internal_Register(A, RT) ==
    /\ b_RT' = [b_RT EXCEPT ![A] = RT]
    /\ \/ RT /\ ItemsRT' = Append(ItemsRT, A) /\ UNCHANGED Items
       \/ ~RT /\ Items' = Append(Items, [Object |-> A, time |-> dwTime]) /\ UNCHANGED ItemsRT

RegistrationEntry ==
    LET R == Head(Registration) IN
    /\ phase \in {"reg1", "reg2"}
    /\ Registration # <<>>
    /\ \/ /\ R.OP /\ Pair(R.Object) # 0
          /\ Registration' = RemoveAt(Tail(Registration), Pair(R.Object))
          /\ UNCHANGED <<ItemsRT, stale, Items, m_current_step_obj, b_RT>>
       \/ /\ R.OP /\ Pair(R.Object) = 0
          /\ internal_Register(R.Object, R.RT)
          /\ Registration' = Tail(Registration)
          /\ UNCHANGED <<stale, m_current_step_obj>>
       \/ /\ ~R.OP
          /\ Registration' = Tail(Registration)
          /\ \/ internal_Unregister(R.Object, R.RT)
             \/ /\ ~FoundToUnregister(R.Object, R.RT)
                /\ UNCHANGED <<ItemsRT, stale, Items, m_current_step_obj>>
          /\ UNCHANGED b_RT
    /\ UNCHANGED <<ItemsProcessed, m_processing_now, steps, needed, calls, client,
                   served, waited>>

BeginUpdate ==
    /\ phase = "game"
    /\ phase' = "reg1"
    /\ dwTime' \in dwTime .. dwTime + 1 /\ dwTime' <= MaxTime
    /\ served' = {}
    /\ UNCHANGED <<queues, m_current_step_obj, m_processing_now, it, i, updating,
                   objects, waited>>

RegistrationDone ==
    /\ Registration = <<>>
    /\ \/ phase = "reg1" /\ phase' = "rt" /\ m_processing_now' = TRUE /\ it' = 1
       \/ phase = "reg2" /\ phase' = "game" /\ UNCHANGED <<m_processing_now, it>>
    /\ UNCHANGED <<queues, m_current_step_obj, dwTime, i, updating, objects, served, waited>>

-----------------------------------------------------------------------------
(* The loop over ItemsRT.  Its end is the one the vector had at the start. *)

Memory == ItemsRT \o stale

\* Mutant of RTSkip: an object that is not needed ends the loop.
RTSkipBreaks ==
    /\ phase = "rt" /\ updating = None
    /\ it \in DOMAIN Memory
    /\ ~needed[Memory[it]]
    /\ it' = Len(Memory) + 1
    /\ UNCHANGED <<queues, m_current_step_obj, m_processing_now, dwTime, phase, i,
                   updating, objects, served, waited>>

RTSkip ==
    /\ phase = "rt" /\ updating = None
    /\ it \in DOMAIN Memory
    /\ ~needed[Memory[it]]
    /\ it' = it + 1
    /\ UNCHANGED <<queues, m_current_step_obj, m_processing_now, dwTime, phase, i,
                   updating, objects, served, waited>>

RTUpdate ==
    /\ phase = "rt" /\ updating = None
    /\ it \in DOMAIN Memory
    /\ needed[Memory[it]]
    /\ updating' = Memory[it]
    /\ served' = served \cup {Memory[it]}
    /\ UNCHANGED <<queues, m_current_step_obj, m_processing_now, dwTime, phase, it, i,
                   objects, waited>>

RTUpdateReturns ==
    /\ phase = "rt" /\ updating # None
    /\ updating' = None
    /\ it' = it + 1
    /\ UNCHANGED <<queues, m_current_step_obj, m_processing_now, dwTime, phase, i,
                   objects, served, waited>>

RTDone ==
    /\ phase = "rt" /\ updating = None
    /\ it > Len(Memory)
    /\ phase' = "normal"
    /\ i' = 0
    /\ stale' = <<>>
    /\ UNCHANGED <<ItemsRT, Items, ItemsProcessed, Registration, m_current_step_obj,
                   m_processing_now, dwTime, it, updating, objects, served, waited>>

-----------------------------------------------------------------------------
(* ProcessStep.                                                            *)

\* Mutant of Tops: the comparison of the heap the other way round.
TopsLatest == {k \in DOMAIN Items : /\ Items[k].time < dwTime
                                    /\ \A m \in DOMAIN Items : Items[k].time >= Items[m].time}

Tops == {k \in DOMAIN Items : /\ Items[k].time < dwTime
                              /\ \A m \in DOMAIN Items : Items[k].time <= Items[m].time}

Count == (i + 1) % CheckEvery

\* A nulled entry, or one whose object is not needed any more, leaves the heap.
DropTop ==
    /\ phase = "normal" /\ updating = None
    /\ \E k \in Tops :
          /\ Items[k].Object # None => ~needed[Items[k].Object]
          /\ Items' = RemoveAt(Items, k)
    /\ i' = Count
    /\ UNCHANGED <<ItemsRT, stale, ItemsProcessed, Registration, m_current_step_obj,
                   m_processing_now, dwTime, phase, it, updating, objects, served, waited>>

\* Mutant of UpdateTop: the entry stays in the heap during the update.
UpdateTopKeeps ==
    /\ phase = "normal" /\ updating = None
    /\ \E k \in Tops : LET A == Items[k].Object IN
          /\ A # None /\ needed[A]
          /\ m_current_step_obj' = A
          /\ updating' = A
          /\ served' = served \cup {A}
          /\ waited' = [waited EXCEPT ![A] = 0]
    /\ UNCHANGED <<ItemsRT, stale, Items, ItemsProcessed, Registration, m_processing_now,
                   dwTime, phase, it, i, objects>>

UpdateTop ==
    /\ phase = "normal" /\ updating = None
    /\ \E k \in Tops : LET A == Items[k].Object IN
          /\ A # None /\ needed[A]
          /\ Items' = RemoveAt(Items, k)
          /\ m_current_step_obj' = A
          /\ updating' = A
          /\ served' = served \cup {A}
          /\ waited' = [waited EXCEPT ![A] = 0]
    /\ UNCHANGED <<ItemsRT, stale, ItemsProcessed, Registration, m_processing_now,
                   dwTime, phase, it, i, objects>>

Due(o) == \E k \in DOMAIN Items : Items[k].Object = o /\ Items[k].time < dwTime

\* The step ends with some objects still due.
PassOver == waited' = [o \in Objects |-> IF Due(o) THEN waited[o] + 1 ELSE waited[o]]

\* Mutant of PushProcessedBack: m_processing_now is not reset.
PushProcessedBackStillOn(processed) ==
    /\ Items' = Items \o processed
    /\ ItemsProcessed' = <<>>
    /\ UNCHANGED m_processing_now
    /\ phase' = "reg2"
    /\ PassOver

\* `Push "processed" back`, and Update goes on after ProcessStep.
PushProcessedBack(processed) ==
    /\ Items' = Items \o processed
    /\ ItemsProcessed' = <<>>
    /\ m_processing_now' = FALSE
    /\ phase' = "reg2"
    /\ PassOver

\* The object is put aside until the end of the step, unless it unregistered
\* itself; every CheckEvery-th time the step may be over its budget.
UpdateTopReturns ==
    /\ phase = "normal" /\ updating # None
    /\ updating' = None
    /\ \/ /\ m_current_step_obj = None
          /\ i' = Count
          /\ UNCHANGED <<Items, ItemsProcessed, m_processing_now, phase, waited>>
       \/ /\ m_current_step_obj # None
          /\ \E d \in Periods :
                LET processed == Append(ItemsProcessed,
                                        [Object |-> updating, time |-> dwTime + d]) IN
                \/ /\ ItemsProcessed' = processed
                   /\ i' = Count
                   /\ UNCHANGED <<Items, m_processing_now, phase, waited>>
                \/ /\ i = CheckEvery - 1        \* over budget
                   /\ PushProcessedBack(processed)
                   /\ i' = 0
    /\ m_current_step_obj' = None
    /\ UNCHANGED <<ItemsRT, stale, Registration, dwTime, it, objects, served>>

ProcessStepDone ==
    /\ phase = "normal" /\ updating = None
    /\ Tops = {}
    /\ PushProcessedBack(ItemsProcessed)
    /\ UNCHANGED <<ItemsRT, stale, Registration, m_current_step_obj, dwTime, it, i, updating,
                   objects, served>>

\* CSheduler::Destroy applies what is deferred and clears everything.
Destroy ==
    /\ phase = "game"
    /\ phase' = "destroyed"
    /\ ItemsRT' = <<>> /\ Items' = <<>> /\ ItemsProcessed' = <<>> /\ Registration' = <<>>
    /\ UNCHANGED <<stale, m_current_step_obj, m_processing_now, dwTime, it, i, updating,
                   objects, served, waited>>

-----------------------------------------------------------------------------

Next ==
    \/ \E A \in Objects : Unregister(A) \/ SetDestroy(A) \/ \E RT \in BOOLEAN : Register(A, RT)
    \/ BeginUpdate \/ RegistrationEntry \/ RegistrationDone
    \/ RTSkip \/ RTUpdate \/ RTUpdateReturns \/ RTDone
    \/ DropTop \/ UpdateTop \/ UpdateTopReturns \/ ProcessStepDone
    \/ Destroy

Spec == Init /\ [][Next]_vars

-----------------------------------------------------------------------------

\* CSheduler::Registered: the last deferred call decides, else the containers.
Held(o) ==
    \/ InRT(o) \/ InItems(o) \/ m_current_step_obj = o
    \/ \E k \in DOMAIN ItemsProcessed : ItemsProcessed[k].Object = o

Registered(o) ==
    LET k == SelectLastInSeq(Registration, LAMBDA R : R.Object = o)
    IN IF k # 0 THEN Registration[k].OP ELSE Held(o)

\* The containers agree with the callers: an object they registered and did not
\* unregister is held or about to be, unless it was dropped because it is not
\* needed any more; an object they unregistered is not.
RegistryMatchesCallers ==
    phase # "destroyed" =>
        \A o \in Objects :
            /\ Registered(o) => client[o]
            /\ client[o] /\ needed[o] => Registered(o)

\* No object is in two containers, or twice in one (the VERIFYs of Registered).
HeldOnce ==
    \A o \in Objects :
        Cardinality({k \in DOMAIN ItemsRT : ItemsRT[k] = o})
      + Cardinality({k \in DOMAIN Items : Items[k].Object = o})
      + Cardinality({k \in DOMAIN ItemsProcessed : ItemsProcessed[k].Object = o})
      + (IF m_current_step_obj = o THEN 1 ELSE 0) <= 1

\* Whenever the scheduler is about to follow a pointer - to the top of the heap,
\* to the next realtime object, to an object it is asked to register - the object
\* has not been unregistered: it may be deleted otherwise.
NeverDangling ==
    LET alive(o) == o = None \/ client[o]
    IN /\ phase = "normal" /\ updating = None => \A k \in Tops : alive(Items[k].Object)
       /\ phase = "rt" /\ updating = None /\ it \in DOMAIN Memory => alive(Memory[it])
       /\ phase \in {"reg1", "reg2"} /\ Registration # <<>> =>
              LET R == Head(Registration)
              IN R.OP /\ Pair(R.Object) = 0 => alive(R.Object)

\* When the realtime loop ends, every realtime object that is needed has been
\* updated in this frame.
RTAllServed ==
    phase = "rt" /\ updating = None /\ it > Len(Memory) =>
        \A o \in ToSet(ItemsRT) : needed[o] => o \in served

\* A step that runs out of its budget does not starve anybody: an object that is
\* due is passed over at most once for each of the other objects.
NoStarvation == \A o \in Objects : waited[o] < Cardinality(Objects)

\* `'shedule_Update' called twice per frame` (ISheduled.cpp) does not happen.
OncePerFrame == [][\A o \in Objects : updating = None /\ updating' = o => o \notin served]_vars

\* The containers implement the registry they stand for.
Registry == INSTANCE SchedulerRegistry
                WITH registered <- {o \in Objects : Registered(o)}
ImplementsRegistry == Registry!Spec
=============================================================================

----------------------------- MODULE ObjectList -----------------------------
(***************************************************************************)
(* xrEngine/xr_object_list.cpp with the parts of xrGame/GameObject.cpp it  *)
(* calls back: which objects are active, which ask for an update in the    *)
(* next frame ("crows"), in what order they are updated, and how they are  *)
(* destroyed together with what they carry.                                *)
(*                                                                         *)
(* An object is its address: spawning one that was destroyed stands for a  *)
(* new object in the same memory.  The order of the active and of the      *)
(* sleeping list is left open.  Pool threads come in while a frame is      *)
(* drawn: renderable_Render asks for the next update of what it draws.     *)
(* A net_Spawn that fails creates and destroys in one call and is no step. *)
(***************************************************************************)
EXTENDS Integers, SequencesExt

CONSTANTS
    Objects,        \* addresses of game objects
    None,           \* nullptr
    Main,           \* the worker id of the main thread
    Pool,           \* the worker ids of the other threads
    MaxFrame,       \* bound: frames
    MaxCalls        \* bound: calls of game code other than MakeMeCrow

ASSUME ObjectListAssumption ==
    /\ None \notin Objects /\ IsFiniteSet(Objects)
    /\ Main \notin Pool /\ None \notin Pool \cup {Main}
    /\ MaxFrame \in Nat /\ MaxCalls \in Nat

Workers == Pool \cup {Main}
NoFrame == -1               \* u32(-1)
Phases == {"game", "merge", "update", "descend", "destroy", "render", "unload"}
Frames == {NoFrame} \cup 0 .. MaxFrame
Activations == 0 .. 255     \* bActiveCounter has 8 bits

VARIABLES
    objects_active, objects_sleeping,
    m_primary_crows,
    m_secondary_crows,      \* one list per worker
    destroy_queue,
    obj,                    \* the fields of every object
    dwFrame,                \* Device.dwFrame
    phase,                  \* one of Phases: how far the frame has come
    workload,               \* what is left of the array Update works through
    chain,                  \* SingleUpdate's recursion: the outermost parent first
    it,                     \* index of the destroy loop
    pc, arg, seen,          \* the workers in MakeMeCrow; its object and object_frame_id
    calls,                  \* calls made so far
    due                     \* observed: whose update this frame owes

lists == <<objects_active, objects_sleeping>>
crows == <<m_primary_crows, m_secondary_crows>>
frame == <<dwFrame, phase>>
loops == <<workload, chain, it>>
workers == <<pc, arg, seen>>
vars == <<lists, crows, destroy_queue, obj, frame, loops, workers, calls, due>>

\* Props and the fields next to it.
Object == [crow : BOOLEAN, bDestroy : BOOLEAN, bActiveCounter : Activations, Parent : Objects \cup {None},
           dwFrame_AsCrow : Frames, dwFrame_UpdateCL : Frames]

TypeOK ==
    /\ objects_active \subseteq Objects /\ objects_sleeping \subseteq Objects
    /\ m_primary_crows \in Seq(Objects)
    /\ m_secondary_crows \in [Workers -> Seq(Objects)]
    /\ destroy_queue \in Seq(Objects) /\ obj \in [Objects -> Object]
    /\ dwFrame \in 0 .. MaxFrame /\ calls \in 0 .. MaxCalls
    /\ phase \in Phases
    /\ workload \in Seq(Objects) /\ chain \in Seq(Objects) /\ it \in 0 .. Len(destroy_queue)
    /\ pc \in [Workers -> {"idle", "load", "cas", "o_crow", "flag"}]
    /\ arg \in [Workers -> Objects \cup {None}] /\ seen \in [Workers -> Frames]
    /\ due \subseteq Objects

\* The constructor.
New == [crow |-> FALSE, bDestroy |-> FALSE, bActiveCounter |-> 0, Parent |-> None,
        dwFrame_AsCrow |-> NoFrame, dwFrame_UpdateCL |-> NoFrame]

Init ==
    /\ objects_active = {} /\ objects_sleeping = {}
    /\ m_primary_crows = <<>> /\ m_secondary_crows = [w \in Workers |-> <<>>]
    /\ destroy_queue = <<>> /\ obj = [o \in Objects |-> New]
    /\ dwFrame = 0 /\ phase = "game" /\ calls = 0 /\ due = {}
    /\ workload = <<>> /\ chain = <<>> /\ it = 0
    /\ pc = [w \in Workers |-> "idle"] /\ arg = [w \in Workers |-> None]
    /\ seen = [w \in Workers |-> NoFrame]

Live == objects_active \cup objects_sleeping
Enabled(o) == obj[o].bActiveCounter > 0     \* processing_enabled

-----------------------------------------------------------------------------
(* MakeMeCrow.  The main thread calls it between frames and from UpdateCL, *)
(* when no other thread does: one step.                                    *)

\* The whole of MakeMeCrow on the main thread; r is the object by then.
MakeMeCrow(o, r) ==
    IF r.crow \/ r.bActiveCounter = 0 \/ r.dwFrame_AsCrow = dwFrame
    THEN obj' = [obj EXCEPT ![o] = r] /\ UNCHANGED crows
    ELSE /\ obj' = [obj EXCEPT ![o] = [r EXCEPT !.crow = TRUE, !.dwFrame_AsCrow = dwFrame]]
         /\ m_secondary_crows' = [m_secondary_crows EXCEPT ![Main] = Append(@, o)]
         /\ UNCHANGED m_primary_crows

WorkerStep == UNCHANGED <<lists, m_primary_crows, destroy_queue, frame, loops, calls, due>>
Return(w) ==
    /\ pc' = [pc EXCEPT ![w] = "idle"]
    /\ arg' = [arg EXCEPT ![w] = None] /\ seen' = [seen EXCEPT ![w] = NoFrame]

\* renderable_Render on any thread: the tests of Props.
Render(w, o) ==
    /\ phase = "render" /\ pc[w] = "idle" /\ o \in Live
    /\ ~obj[o].crow /\ Enabled(o)
    /\ pc' = [pc EXCEPT ![w] = "load"] /\ arg' = [arg EXCEPT ![w] = o]
    /\ WorkerStep /\ UNCHANGED <<seen, m_secondary_crows, obj>>

Load(w) ==
    /\ pc[w] = "load"
    /\ \/ obj[arg[w]].dwFrame_AsCrow = dwFrame /\ Return(w)
       \/ /\ obj[arg[w]].dwFrame_AsCrow # dwFrame /\ pc' = [pc EXCEPT ![w] = "cas"]
          /\ seen' = [seen EXCEPT ![w] = obj[arg[w]].dwFrame_AsCrow] /\ UNCHANGED arg
    /\ WorkerStep /\ UNCHANGED <<m_secondary_crows, obj>>

\* Mutant of CompareExchange: a plain store.
CompareExchangeStores(w) ==
    /\ pc[w] = "cas" /\ pc' = [pc EXCEPT ![w] = "o_crow"]
    /\ obj' = [obj EXCEPT ![arg[w]].dwFrame_AsCrow = dwFrame]
    /\ WorkerStep /\ UNCHANGED <<arg, seen, m_secondary_crows>>

CompareExchange(w) ==
    /\ pc[w] = "cas"
    /\ \/ obj[arg[w]].dwFrame_AsCrow # seen[w] /\ Return(w) /\ UNCHANGED obj
       \/ /\ obj[arg[w]].dwFrame_AsCrow = seen[w] /\ pc' = [pc EXCEPT ![w] = "o_crow"]
          /\ obj' = [obj EXCEPT ![arg[w]].dwFrame_AsCrow = dwFrame] /\ UNCHANGED <<arg, seen>>
    /\ WorkerStep /\ UNCHANGED m_secondary_crows

\* get_crows: every thread appends to the list with its own id.
OCrow(w) ==
    /\ pc[w] = "o_crow" /\ pc' = [pc EXCEPT ![w] = "flag"]
    /\ m_secondary_crows' = [m_secondary_crows EXCEPT ![w] = Append(@, arg[w])]
    /\ obj' = [obj EXCEPT ![arg[w]].dwFrame_AsCrow = dwFrame]
    /\ WorkerStep /\ UNCHANGED <<arg, seen>>

SetCrow(w) ==
    /\ pc[w] = "flag" /\ Return(w)
    /\ obj' = [obj EXCEPT ![arg[w]].crow = TRUE]
    /\ WorkerStep /\ UNCHANGED m_secondary_crows

-----------------------------------------------------------------------------
(* What game code calls: events and the scheduler between two Updates, and *)
(* UpdateCL of an object while the list updates it.                        *)

InUpdateCL == phase = "update" /\ chain # <<>> /\ obj[Head(chain)].dwFrame_UpdateCL = dwFrame
GameRuns == phase = "game" \/ InUpdateCL
Call == calls < MaxCalls /\ calls' = calls + 1 /\ UNCHANGED <<frame, loops, workers>>

CallMakeMeCrow(o) ==
    /\ GameRuns /\ o \in Live /\ MakeMeCrow(o, obj[o])
    /\ UNCHANGED <<lists, destroy_queue, frame, loops, workers, calls, due>>

\* processing_activate; the first of several moves the object.  The callers keep
\* to its VERIFY3, as they do to that of processing_deactivate.
Activate(o) ==
    /\ GameRuns /\ Call /\ o \in Live /\ obj[o].bActiveCounter # 255
    /\ \/ Enabled(o) /\ obj' = [obj EXCEPT ![o].bActiveCounter = @ + 1] /\ UNCHANGED <<lists, crows>>
       \/ /\ ~Enabled(o) /\ MakeMeCrow(o, [obj[o] EXCEPT !.bActiveCounter = 1])
          /\ objects_sleeping' = objects_sleeping \ {o}
          /\ objects_active' = objects_active \cup {o}
    /\ UNCHANGED <<destroy_queue, due>>

\* Mutant of Deactivate: every deactivation moves the object.
DeactivateAlways(o) ==
    /\ GameRuns /\ Call /\ o \in Live /\ Enabled(o)
    /\ obj' = [obj EXCEPT ![o].bActiveCounter = @ - 1]
    /\ objects_active' = objects_active \ {o} /\ objects_sleeping' = objects_sleeping \cup {o}
    /\ due' = due \ {o} /\ UNCHANGED <<crows, destroy_queue>>

\* Mutant of Deactivate: one call too many.
DeactivateUnpaired(o) ==
    /\ GameRuns /\ Call /\ o \in objects_active
    /\ obj' = [obj EXCEPT ![o].bActiveCounter = @ - 2] /\ UNCHANGED <<lists, crows, destroy_queue, due>>

\* processing_deactivate; MakeMeCrow in o_sleep finds the object disabled.
Deactivate(o) ==
    /\ GameRuns /\ Call /\ o \in Live /\ Enabled(o)
    /\ obj' = [obj EXCEPT ![o].bActiveCounter = @ - 1]
    /\ IF obj[o].bActiveCounter > 1 THEN UNCHANGED <<lists, due>>
       ELSE /\ objects_active' = objects_active \ {o}
            /\ objects_sleeping' = objects_sleeping \cup {o}
            /\ due' = due \ {o}
    /\ UNCHANGED <<crows, destroy_queue>>

\* g_sv_Spawn: Create, net_Spawn's processing_activate, setDestroy(false) and
\* MakeMeCrow, then the event that hands the object to its parent.  The
\* constructor leaves dwFrame_UpdateCL as the memory was, which may by chance
\* be the number of this frame.
Spawn(o, p) ==
    /\ phase = "game" /\ Call /\ o \notin Live
    /\ p \in Live \cup {None} /\ (p # None => ~obj[p].bDestroy)
    /\ objects_active' = objects_active \cup {o}
    /\ \E garbage \in {NoFrame, dwFrame} :
        MakeMeCrow(o, [New EXCEPT !.bActiveCounter = 1, !.Parent = p, !.dwFrame_UpdateCL = garbage])
    /\ UNCHANGED <<objects_sleeping, destroy_queue, due>>

\* o and what carries it: in every set that holds o and, with an object, its parent.
Carriers(o) ==
    {x \in Objects : \A S \in SUBSET Objects :
        o \in S /\ (\A y \in S : obj[y].Parent \in S \cup {None}) => x \in S}

\* H_SetParent by GE_OWNERSHIP_TAKE.  The server that orders the events gives
\* nothing to or from an object it has destroyed, and makes no circle.
Take(o, p) ==
    /\ phase = "game" /\ Call /\ {o, p} \subseteq Live
    /\ obj[o].Parent = None /\ ~obj[o].bDestroy /\ ~obj[p].bDestroy
    /\ o \notin Carriers(p)
    /\ MakeMeCrow(o, [obj[o] EXCEPT !.Parent = p])
    /\ UNCHANGED <<lists, destroy_queue, due>>

\* H_SetParent(nullptr) by GE_OWNERSHIP_REJECT.
Reject(o) ==
    /\ phase = "game" /\ Call /\ o \in Live /\ obj[o].Parent # None
    /\ MakeMeCrow(o, [obj[o] EXCEPT !.Parent = None])
    /\ UNCHANGED <<lists, destroy_queue, due>>

Carried(o) == {c \in Live : ~obj[c].bDestroy /\ o \in Carriers(c)}

\* Mutant of Registered: what the object carries stays.
RegisteredAlone(o) == {<<o>>}

\* register_object_to_destroy: o, then child by child what it carries.
Registered(o) ==
    {s \in SetToSeqs(Carried(o)) : \A k \in DOMAIN s :
        {s[j] : j \in (k .. k + Cardinality(Carried(s[k])) - 1) \cap DOMAIN s} = Carried(s[k])}

\* GE_DESTROY, ignored for an object that has a parent; setDestroy is
\* ignored the second time.
SetDestroy(o) ==
    /\ phase = "game" /\ Call /\ o \in Live /\ obj[o].Parent = None /\ ~obj[o].bDestroy
    /\ \E doomed \in Registered(o) :
        /\ destroy_queue' = destroy_queue \o doomed
        /\ obj' = [x \in Objects |-> [obj[x] EXCEPT !.bDestroy = @ \/ x \in ToSet(doomed)]]
    /\ UNCHANGED <<lists, crows, due>>

-----------------------------------------------------------------------------
(* CObjectList::Update *)

\* The crows of every worker go behind those that still wait.
UpdateBegins ==
    /\ phase = "game" /\ phase' = "merge"
    /\ UNCHANGED <<lists, crows, destroy_queue, obj, dwFrame, loops, workers, calls, due>>

MergeList(w) ==
    /\ phase = "merge" /\ m_secondary_crows[w] # <<>>
    /\ m_primary_crows' = m_primary_crows \o m_secondary_crows[w]
    /\ m_secondary_crows' = [m_secondary_crows EXCEPT ![w] = <<>>]
    /\ UNCHANGED <<lists, destroy_queue, obj, frame, loops, workers, calls, due>>

Merged == phase = "merge" /\ \A w \in Workers : m_secondary_crows[w] = <<>>
Destroying == phase' = "destroy" /\ it' = Len(destroy_queue) /\ UNCHANGED dwFrame

\* Paused, or no time has passed: the crows keep waiting.
UpdateNothing ==
    /\ Merged /\ Destroying
    /\ UNCHANGED <<lists, crows, obj, destroy_queue, workload, chain, workers, calls, due>>

\* IAmNotACrowAnyMore of the crows and of the workload; of the workload alone
\* the frame of the last MakeMeCrow is forgotten.
UpdateWork(work) ==
    /\ Merged /\ phase' = "update"
    /\ m_primary_crows' = <<>> /\ UNCHANGED m_secondary_crows
    /\ workload' = work /\ due' = {o \in ToSet(work) : Enabled(o)}
    /\ obj' = [o \in Objects |-> [obj[o] EXCEPT
            !.crow = @ /\ o \notin ToSet(m_primary_crows \o work),
            !.dwFrame_AsCrow = IF o \in ToSet(work) THEN NoFrame ELSE @]]
    /\ UNCHANGED <<lists, destroy_queue, dwFrame, chain, it, workers, calls>>

UpdateCrows == UpdateWork(m_primary_crows)
\* rsDisableObjectsAsCrows.
UpdateActive == \E work \in SetToSeqs(objects_active) : UpdateWork(work)

\* SingleUpdate's early returns.
Skipped(o) == obj[o].dwFrame_UpdateCL = dwFrame \/ ~Enabled(o)

LoopStep == UNCHANGED <<lists, crows, destroy_queue, dwFrame, it, workers, calls, due>>

\* The next of the workload.
SingleUpdate ==
    /\ phase = "update" /\ chain = <<>> /\ workload # <<>>
    /\ workload' = Tail(workload)
    /\ \/ Skipped(Head(workload)) /\ UNCHANGED <<phase, chain>>
       \/ ~Skipped(Head(workload)) /\ phase' = "descend" /\ chain' = <<Head(workload)>>
    /\ LoopStep /\ UNCHANGED obj

\* Mutants of Descend: the parent is not looked at; a parent that returns early
\* takes the object with it.
DescendNever ==
    /\ phase = "descend" /\ phase' = "update"
    /\ LoopStep /\ UNCHANGED <<workload, chain, obj>>

DescendGivesUp ==
    /\ phase = "descend"
    /\ LET parent == obj[Head(chain)].Parent IN
       \/ /\ parent # None /\ ~Skipped(parent)
          /\ chain' = <<parent>> \o chain /\ UNCHANGED phase
       \/ parent = None /\ phase' = "update" /\ UNCHANGED chain
       \/ parent # None /\ Skipped(parent) /\ phase' = "update" /\ chain' = Tail(chain)
    /\ LoopStep /\ UNCHANGED <<workload, obj>>

\* The recursion to the parent, before the object's own UpdateCL.
Descend ==
    /\ phase = "descend"
    /\ LET parent == obj[Head(chain)].Parent IN
       \/ /\ parent # None /\ ~Skipped(parent)
          /\ chain' = <<parent>> \o chain /\ UNCHANGED phase
       \/ (parent # None => Skipped(parent)) /\ phase' = "update" /\ UNCHANGED chain
    /\ LoopStep /\ UNCHANGED <<workload, obj>>

\* SetUpdateFrame, and UpdateCL runs.
UpdateCL ==
    /\ phase = "update" /\ chain # <<>> /\ ~InUpdateCL
    /\ obj' = [obj EXCEPT ![Head(chain)].dwFrame_UpdateCL = dwFrame]
    /\ LoopStep /\ UNCHANGED <<phase, workload, chain>>

UpdateCLReturns ==
    /\ InUpdateCL /\ chain' = Tail(chain)
    /\ LoopStep /\ UNCHANGED <<phase, workload, obj>>

UpdateLoopEnds ==
    /\ phase = "update" /\ chain = <<>> /\ workload = <<>> /\ Destroying
    /\ UNCHANGED <<lists, crows, obj, destroy_queue, workload, chain, workers, calls, due>>

\* Destroy takes the object off every list it may be on; `by` are the objects by then.
Destroyed(o, by) ==
    /\ m_primary_crows' = RemoveFirst(m_primary_crows, o)
    /\ m_secondary_crows' = [w \in Workers |-> RemoveFirst(m_secondary_crows[w], o)]
    /\ objects_active' = objects_active \ {o} /\ objects_sleeping' = objects_sleeping \ {o}
    /\ obj' = [by EXCEPT ![o] = New]

Destroy(o) == Destroyed(o, obj)

\* Mutant of DestroyLast: from the front.
DestroyFirst ==
    /\ phase = "destroy" /\ it > 0 /\ it' = it - 1
    /\ Destroy(destroy_queue[Len(destroy_queue) - it + 1])
    /\ UNCHANGED <<destroy_queue, frame, workload, chain, workers, calls, due>>

\* net_Destroy and Destroy, from the back of the queue.
DestroyLast ==
    /\ phase = "destroy" /\ it > 0 /\ it' = it - 1 /\ Destroy(destroy_queue[it])
    /\ UNCHANGED <<destroy_queue, frame, workload, chain, workers, calls, due>>

UpdateEnds ==
    /\ phase = "destroy" /\ it = 0 /\ phase' = "game"
    /\ destroy_queue' = <<>> /\ due' = {}
    /\ UNCHANGED <<lists, crows, obj, dwFrame, loops, workers, calls>>

-----------------------------------------------------------------------------
(* The frame around it *)

RenderBegins ==
    /\ phase = "game" /\ phase' = "render"
    /\ UNCHANGED <<lists, crows, destroy_queue, obj, dwFrame, loops, workers, calls, due>>

\* The frame waits for its tasks before the next begins.
FrameEnds ==
    /\ phase = "render" /\ \A w \in Workers : pc[w] = "idle"
    /\ dwFrame < MaxFrame /\ dwFrame' = dwFrame + 1 /\ phase' = "game"
    /\ UNCHANGED <<lists, crows, destroy_queue, obj, loops, workers, calls, due>>

-----------------------------------------------------------------------------
(* IGame_Level::net_Stop.  Its Updates are like any others, without game   *)
(* code in between; then Unload destroys whatever is left, an object at a  *)
(* time, whoever carries it, and leaves the queue as it has become.        *)

UnloadBegins ==
    /\ phase = "game" /\ destroy_queue = <<>> /\ phase' = "unload"
    /\ UNCHANGED <<lists, crows, destroy_queue, obj, dwFrame, loops, workers, calls, due>>

\* Mutant of UnloadNext: the object leaves its own list only.
UnloadKeepsCrows(o) ==
    /\ phase = "unload" /\ o \in Live
    /\ objects_sleeping # {} => o \in objects_sleeping
    /\ objects_active' = objects_active \ {o} /\ objects_sleeping' = objects_sleeping \ {o}
    /\ obj' = [obj EXCEPT ![o] = New]
    /\ UNCHANGED <<crows, destroy_queue, frame, loops, workers, calls, due>>

\* setDestroy(true), which the flag of a child of an earlier one makes idle,
\* net_Destroy and Destroy; the sleeping objects come first.
UnloadNext(o) ==
    /\ phase = "unload" /\ o \in Live
    /\ objects_sleeping # {} => o \in objects_sleeping
    /\ \E doomed \in IF obj[o].bDestroy THEN {<<>>} ELSE Registered(o) :
        /\ destroy_queue' = destroy_queue \o doomed
        /\ Destroyed(o, [x \in Objects |-> [obj[x] EXCEPT !.bDestroy = @ \/ x \in ToSet(doomed)]])
    /\ UNCHANGED <<frame, loops, workers, calls, due>>

Next ==
    \/ \E o \in Objects : \/ CallMakeMeCrow(o) \/ Activate(o) \/ Deactivate(o)
                          \/ Reject(o) \/ SetDestroy(o) \/ UnloadNext(o)
                          \/ \E p \in Objects \cup {None} : Spawn(o, p)
                          \/ \E p \in Objects : Take(o, p)
    \/ \E w \in Workers : \/ \E o \in Objects : Render(w, o)
                          \/ Load(w) \/ CompareExchange(w) \/ OCrow(w) \/ SetCrow(w)
                          \/ MergeList(w)
    \/ UpdateBegins \/ UpdateNothing \/ UpdateCrows \/ UpdateActive
    \/ SingleUpdate \/ Descend \/ UpdateCL
    \/ UpdateCLReturns \/ UpdateLoopEnds \/ DestroyLast \/ UpdateEnds
    \/ RenderBegins \/ FrameEnds \/ UnloadBegins

Spec == Init /\ [][Next]_vars

-----------------------------------------------------------------------------
(* Properties *)

\* An object is flagged as a crow exactly when it is on one of the lists, once
\* (VERIFY in Update and o_crow): flagged and on none it would never be put
\* on one again, on two it would stay on one after its memory is freed.
At(list, o) == {k \in DOMAIN list : list[k] = o}
Places(o) == ({None} \X At(m_primary_crows, o)) \cup UNION {{w} \X At(m_secondary_crows[w], o) : w \in Workers}
Pushed(o) == \E w \in Workers : pc[w] = "flag" /\ arg[w] = o
CrowListed == \A o \in Objects : Cardinality(Places(o)) = IF obj[o].crow \/ Pushed(o) THEN 1 ELSE 0

\* The two lists part the objects by their activity counters, however the
\* calls nest; o_remove erases past the end when they do not.
ActiveIffCounted ==
    /\ objects_active \cap objects_sleeping = {}
    /\ objects_active = {o \in Objects : Enabled(o)}

\* The destroy queue holds every flagged object once, what an object carries
\* with it and behind it: the loop from the back frees no parent first.  (Unload
\* adds to the queue what it destroys itself; see QueueLeftEmpty.)
QueueSound ==
    LET queue == SubSeq(destroy_queue, 1, IF phase = "destroy" THEN it ELSE Len(destroy_queue))
    IN phase # "unload" =>
       /\ ToSet(queue) = {o \in Objects : obj[o].bDestroy} /\ IsInjective(queue)
       /\ \A o \in Live, k \in DOMAIN queue :
            obj[o].Parent = queue[k] => \E j \in DOMAIN queue : j > k /\ queue[j] = o

\* No list, loop or thread ever points to an object whose memory is free, also
\* between two objects of Unload.  Nor does a child, until Unload, which destroys
\* in the order of its lists and so may free a parent before its child.
NoDangling ==
    /\ ToSet(m_primary_crows \o workload \o chain) \cup (UNION {ToSet(m_secondary_crows[w]) : w \in Workers})
          \cup {arg[w] : w \in Workers} \subseteq Live \cup {None}
    /\ phase # "unload" => {obj[o].Parent : o \in Live} \subseteq Live \cup {None}

\* An object is updated after the one that carries it, unless that is disabled.
ParentFirst ==
    [][\A o \in Objects : LET p == obj[o].Parent IN
        phase = "update" /\ obj'[o].dwFrame_UpdateCL # obj[o].dwFrame_UpdateCL /\ p # None /\ Enabled(p)
            => obj[p].dwFrame_UpdateCL = dwFrame]_vars

\* An enabled object that asked for an update gets it in the next Update,
\* unless it is disabled in between.
CrowsServed == phase = "destroy" => \A o \in due \cap Live : obj[o].dwFrame_UpdateCL = dwFrame

\* `R_ASSERT(destroy_queue.empty());` in ~CObjectList, which follows Unload.
QueueLeftEmpty == phase = "unload" /\ Live = {} => destroy_queue = <<>>
=============================================================================

------------------------- MODULE SchedulerRegistry --------------------------
(***************************************************************************)
(* What CSheduler promises to the objects that register with it: only a    *)
(* registered object is updated, one at a time, at most once per frame.    *)
(* How the promise is kept over five containers is module Scheduler.       *)
(***************************************************************************)
CONSTANTS Objects, None

VARIABLES
    registered,     \* the registered objects
    updating,       \* the object whose shedule_Update runs, or None
    served          \* the objects updated in this frame

vars == <<registered, updating, served>>

Init == registered = {} /\ updating = None /\ served = {}

Register(o) ==
    /\ o \notin registered
    /\ registered' = registered \cup {o}
    /\ UNCHANGED <<updating, served>>

Unregister(o) ==
    /\ registered' = registered \ {o}
    /\ UNCHANGED <<updating, served>>

BeginFrame ==
    /\ updating = None
    /\ served' = {}
    /\ UNCHANGED <<registered, updating>>

Update(o) ==
    /\ updating = None
    /\ o \in registered \ served
    /\ updating' = o
    /\ served' = served \cup {o}
    /\ UNCHANGED registered

Return == updating # None /\ updating' = None /\ UNCHANGED <<registered, served>>

Destroy == updating = None /\ registered' = {} /\ UNCHANGED <<updating, served>>

Next ==
    \/ \E o \in Objects : Register(o) \/ Unregister(o) \/ Update(o)
    \/ BeginFrame \/ Return \/ Destroy

Spec == Init /\ [][Next]_vars
=============================================================================

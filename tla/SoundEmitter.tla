---------------------------- MODULE SoundEmitter ----------------------------
(***************************************************************************)
(* xrSound: the emitters of the sound mixer and the task that decodes the  *)
(* next blocks of a playing one on another thread (SoundRender_Emitter).   *)
(*                                                                         *)
(* The mixer is one thread at a time: the main thread while the game runs  *)
(* and in update, a task of the frame in render.  What it still has to do  *)
(* in a call is the sequence prog of steps, cut where another thread can   *)
(* come in; most of them start with a wait for the decoding task.  Volume, *)
(* time, position and pause are left open: they choose among the branches, *)
(* and the states of a looped sound are those of one that never ends.      *)
(* set_time has no caller, so the hard rewind of update never happens.     *)
(***************************************************************************)
EXTENDS Integers, SequencesExt

CONSTANTS
    Emitters,       \* addresses of emitters
    Targets,        \* the hardware voices
    None,           \* nullptr
    Prefill,        \* sdef_target_count_prefill: blocks of the ring
    Submit          \* sdef_target_count_submit: blocks a voice takes at once

ASSUME SoundEmitterAssumption ==
    /\ None \notin Emitters \cup Targets /\ Targets # {}
    /\ IsFiniteSet(Emitters) /\ IsFiniteSet(Targets)
    /\ Submit \in Nat \ {0} /\ Prefill \in Nat /\ Prefill >= Submit

VARIABLES
    em,             \* the fields of every emitter
    tg,             \* the fields of every target
    task,           \* the decoding task of every emitter
    prefill_task,   \* what the slot the pointer names holds by now
    prog,           \* what the running call of the mixer still has to do
    phase,          \* "game", "update" or "render"
    todo            \* the emitters this pass has not come to yet

vars == <<em, tg, task, prefill_task, prog, phase, todo>>

States == {"Unborn", "Stopped", "StartingDelayed", "Starting", "Playing", "Simulating"}
Ops == {"wait", "add", "store", "set_cursor", "fill_all", "rewind_target", "take",
        "release", "simulate", "stopped", "i_start", "fsm", "deferred", "footer",
        "delete", "render"}

Held == {"none", "own", "foreign", "buried"}

\* temp_buf holds, for a block that waits to be played, how many
\* were decoded after it, and Prefill for any other (observed).
Emitter == [state : States, target : Targets \cup {None},
            bRewind : BOOLEAN, bStopping : BOOLEAN,
            current_block : 0 .. Prefill - 1, filled_blocks : 0 .. Prefill,
            temp_buf : [0 .. Prefill - 1 -> 0 .. Prefill]]

TypeOK ==
    /\ em \in [Emitters -> Emitter]
    /\ tg \in [Targets -> [emitter : Emitters \cup {None}, rendering : BOOLEAN]]
    /\ task \in [Emitters -> [pc : {"none", "queued", "loop", "done"},
                              next : 0 .. Prefill - 1]]
    /\ prefill_task \in [Emitters -> Held]
    /\ prog \in Seq([op : Ops, e : Emitters])
    /\ phase \in {"game", "update", "render"} /\ todo \subseteq Emitters

Unborn == [state |-> "Unborn", target |-> None, bRewind |-> FALSE,
           bStopping |-> FALSE, current_block |-> 0, filled_blocks |-> 0, temp_buf |-> [b \in 0 .. Prefill - 1 |-> Prefill]]
NoTask == [pc |-> "none", next |-> 0]

Init ==
    /\ em = [e \in Emitters |-> Unborn]
    /\ tg = [t \in Targets |-> [emitter |-> None, rendering |-> FALSE]]
    /\ task = [e \in Emitters |-> NoTask] /\ prefill_task = [e \in Emitters |-> "none"]
    /\ prog = <<>> /\ phase = "game" /\ todo = {}

Slot(n) == n % Prefill

-----------------------------------------------------------------------------
(* The decoding task *)

TaskStep(e, t) == task' = [task EXCEPT ![e] = t] /\ UNCHANGED <<tg, prog, phase, todo>>

TaskBegins(e) ==
    /\ task[e].pc = "queued"
    /\ TaskStep(e, [task[e] EXCEPT !.pc = "loop",
                    !.next = Slot(em[e].current_block + em[e].filled_blocks)])
    /\ UNCHANGED <<em, prefill_task>>

\* fill_block, and the block counts as filled.
Decode(e) ==
    /\ task[e].pc = "loop" /\ em[e].filled_blocks < Prefill
    /\ em' = [em EXCEPT ![e].filled_blocks = @ + 1,
            ![e].temp_buf = [b \in DOMAIN @ |->
                IF b = task[e].next THEN 0 ELSE IF @[b] = Prefill THEN Prefill ELSE @[b] + 1]]
    /\ TaskStep(e, [task[e] EXCEPT !.next = Slot(@ + 1)]) /\ UNCHANGED prefill_task

\* Mutant of TaskClears: the pointer is cleared before the work.
TaskClearsFirst(e) ==
    \/ /\ task[e].pc = "queued" /\ prefill_task[e] # "none"
       /\ prefill_task' = [prefill_task EXCEPT ![e] = "none"]
       /\ UNCHANGED <<em, tg, task, prog, phase, todo>>
    \/ /\ task[e].pc = "loop" /\ em[e].filled_blocks = Prefill
       /\ TaskStep(e, [task[e] EXCEPT !.pc = "done"]) /\ UNCHANGED <<em, prefill_task>>

TaskClears(e) ==
    /\ task[e].pc = "loop" /\ em[e].filled_blocks >= Prefill
    /\ prefill_task' = [prefill_task EXCEPT ![e] = "none"]
    /\ TaskStep(e, [task[e] EXCEPT !.pc = "done"]) /\ UNCHANGED em

\* The task counts as finished after its body has returned.
TaskEnds(e) == task[e].pc = "done" /\ TaskStep(e, NoTask) /\ UNCHANGED <<em, prefill_task>>

Decoder(e) == TaskBegins(e) \/ Decode(e) \/ TaskClears(e) \/ TaskEnds(e)

\* TaskAllocator gives the slot of a finished task to another one; the ring is
\* long, and a pointer outlives its task for one turn of it.  A pointer to a
\* finished task is as good as none.  The other task may be one that the mixer's
\* next call is buried in, which runs in the frame's task (processSeqParallel) and
\* so above every body that waits and helps out with that.
Reuse(e) ==
    /\ prefill_task[e] = "own" /\ task[e].pc = "none"
    /\ \E held \in {"foreign"} \cup IF prog = <<>> THEN {"buried"} ELSE {} :
        prefill_task' = [prefill_task EXCEPT ![e] = held]
    /\ UNCHANGED <<em, tg, task, prog, phase, todo>>

\* A task that a call of the mixer runs in does not end before it returns.
ForeignEnds(e) ==
    /\ prefill_task[e] = "foreign" \/ (prefill_task[e] = "buried" /\ prog = <<>>)
    /\ prefill_task' = [prefill_task EXCEPT ![e] = "none"]
    /\ UNCHANGED <<em, tg, task, prog, phase, todo>>

-----------------------------------------------------------------------------
(* Steps of the mixer *)

Do(ops, e) == [k \in DOMAIN ops |-> [op |-> ops[k], e |-> e]]
Repeat(ops, n) == [k \in 1 .. n * Len(ops) |-> ops[((k - 1) % Len(ops)) + 1]]
Dispatch == <<"wait", "add", "store">>          \* dispatch_prefill
StopTarget == <<"wait", "release">>             \* stop_target
ObtainBlock == <<"wait", "take">>               \* obtain_block

At(op) == prog # <<>> /\ Head(prog).op = op
E == Head(prog).e
\* The head of prog is done, with ops for e to be done next.
Then(ops) == prog' = Do(ops, E) \o Tail(prog) /\ UNCHANGED <<phase, todo>>

\* Mutant of WaitPrefill: it never waits.
WaitPrefillSkips == At("wait") /\ Then(<<>>) /\ UNCHANGED <<em, tg, task, prefill_task>>

\* Mutant of WaitPrefill: it waits until the pointer is cleared.
WaitPrefillSpins ==
    At("wait") /\ prefill_task[E] = "none" /\ Then(<<>>) /\ UNCHANGED <<em, tg, task, prefill_task>>

WaitPrefill ==
    /\ At("wait")
    /\ prefill_task[E] = "none" \/ (prefill_task[E] = "own" /\ task[E].pc = "none")
    /\ Then(<<>>) /\ UNCHANGED <<em, tg, task, prefill_task>>

\* dispatch_prefill after the wait.
AddTask ==
    /\ At("add") /\ UNCHANGED <<em, tg, prefill_task>>
    /\ IF em[E].filled_blocks >= Prefill
       THEN /\ prog' = Tail(Tail(prog)) /\ UNCHANGED <<task, phase, todo>>
       ELSE /\ Then(<<>>) /\ task' = [task EXCEPT ![E] = [NoTask EXCEPT !.pc = "queued"]]

\* By now the task may have run and cleared the pointer.
StoreTask ==
    /\ At("store") /\ Then(<<>>)
    /\ prefill_task' = [prefill_task EXCEPT ![E] = "own"]
    /\ UNCHANGED <<em, tg, task>>

EmitterStep(op, r) == At(op) /\ em' = [em EXCEPT ![E] = r] /\ UNCHANGED <<tg, task, prefill_task>>

\* set_cursor, of the position the task reads and moves.
SetCursor == EmitterStep("set_cursor", em[E]) /\ Then(<<>>)

\* Mutant of FillAllBlocks: the ring is filled where it is.
FillAllBlocksInPlace ==
    /\ EmitterStep("fill_all", [em[E] EXCEPT !.filled_blocks = Prefill,
            !.temp_buf = [b \in 0 .. Prefill - 1 |-> Prefill - 1 - b]])
    /\ Then(<<>>)

FillAllBlocks ==
    /\ EmitterStep("fill_all", [em[E] EXCEPT !.current_block = 0, !.filled_blocks = Prefill,
            !.temp_buf = [b \in 0 .. Prefill - 1 |-> Prefill - 1 - b]])
    /\ Then(<<>>)

\* obtain_block after the wait.
TakeBlock ==
    /\ EmitterStep("take", [em[E] EXCEPT !.current_block = Slot(@ + 1), !.filled_blocks = @ - 1,
            !.temp_buf[em[E].current_block] = Prefill])
    /\ Then(<<>>)

\* CSoundRender_TargetA::rewind submits every buffer anew.
RewindTarget == EmitterStep("rewind_target", em[E]) /\ Then(Repeat(ObtainBlock, Submit))

\* stop_target after the wait; an emitter without a target is left alone.
Release ==
    /\ At("release") /\ Then(<<>>) /\ UNCHANGED <<task, prefill_task>>
    /\ em' = [em EXCEPT ![E].target = None]
    /\ tg' = [t \in Targets |-> IF t = em[E].target
                                THEN [emitter |-> None, rendering |-> FALSE] ELSE tg[t]]

Simulate == EmitterStep("simulate", [em[E] EXCEPT !.state = "Simulating"]) /\ Then(<<>>)
Stopped == EmitterStep("stopped", [em[E] EXCEPT !.state = "Stopped"]) /\ Then(<<>>)

\* Mutant of IStart: the emitter that had the target is not told.
IStartSteals ==
    \E t \in Targets :
        /\ At("i_start") /\ Then(<<>>) /\ UNCHANGED <<task, prefill_task>>
        /\ em' = [em EXCEPT ![E].target = t]
        /\ tg' = [tg EXCEPT ![t] = [emitter |-> E, rendering |-> FALSE]]

\* i_start: a free target has the lowest priority; else one is taken from the
\* emitter it plays, whose cancel comes first.
IStart ==
    \E t \in Targets : LET rival == tg[t].emitter IN
        /\ At("i_start") /\ UNCHANGED <<task, prefill_task>>
        /\ \/ /\ rival = None /\ Then(<<>>)
              /\ em' = [em EXCEPT ![E].target = t]
              /\ tg' = [tg EXCEPT ![t] = [emitter |-> E, rendering |-> FALSE]]
           \/ /\ rival # None /\ \A u \in Targets : tg[u].emitter # None
              /\ prog' = Do(StopTarget \o <<"simulate">>, rival) \o prog
              /\ UNCHANGED <<em, tg, phase, todo>>

-----------------------------------------------------------------------------
(* CSoundRender_Emitter::update *)

\* The rewind that comes first if it was asked for.
Rewind(e) ==
    IF ~em[e].bRewind THEN <<>>
    ELSE <<"wait", "set_cursor">> \o IF em[e].target = None THEN <<>>
                                      ELSE <<"fill_all", "rewind_target">> \o Dispatch

\* update_culling: an emitter that has a target keeps it while it is loud
\* enough, another one needs a target whose priority is lower.
Become(s, ops) == EmitterStep("fsm", [em[E] EXCEPT !.state = s]) /\ Then(ops)
Start(ops) == Become("Playing", ops \o <<"i_start">> \o Dispatch)

\* Mutant of Fsm: a sound that goes quiet is simulated before its task is done.
FsmEarly ==
    /\ At("fsm")
    /\ LET s == em[E].state IN
       \/ Become(s, <<>>)
       \/ s = "StartingDelayed" /\ Become("Starting", <<>>)
       \/ s = "Starting" /\ Start(<<"set_cursor">>)
       \/ s = "Playing" /\ Become("Simulating", StopTarget)

\* The switch over m_current_state.
Fsm ==
    /\ At("fsm")
    /\ LET s == em[E].state IN
       \/ Become(s, <<>>)                               \* nothing changes
       \/ s = "StartingDelayed" /\ Become("Starting", <<>>)
       \/ s = "Starting" /\ (Start(<<"set_cursor">>) \/ Become("Simulating", <<>>))
       \/ s = "Playing" /\ Become(s, StopTarget \o <<"simulate">>)   \* paused, too quiet
       \/ s = "Playing" /\ Become(s, StopTarget \o <<"stopped">>)
       \/ s = "Simulating" /\ Become("Stopped", <<>>)
       \/ s = "Simulating" /\ (Start(<<"set_cursor">>) \/ Become(s, <<"set_cursor">>))

IStop(e) == (IF em[e].target = None THEN <<>> ELSE StopTarget) \o <<"wait", "stopped">>

\* A deferred stop takes place when the sound has faded out.
Deferred ==
    \/ EmitterStep("deferred", em[E]) /\ Then(<<>>)
    \/ /\ EmitterStep("deferred", [em[E] EXCEPT !.bRewind = FALSE])
       /\ em[E].bStopping /\ Then(IStop(E))

\* The owner forgets a stopped emitter, and CSoundRender_Core::update deletes
\* it: the destructor waits.
Footer ==
    /\ EmitterStep("footer", em[E])
    /\ Then(IF em[E].state = "Stopped" THEN <<"wait", "delete">> ELSE <<>>)

Delete == EmitterStep("delete", Unborn) /\ Then(<<>>)

\* CSoundRender_Emitter::render: a voice that plays takes what it has played
\* out, one that does not yet takes all it can.
Render ==
    /\ At("render") /\ UNCHANGED <<em, task, prefill_task>>
    /\ tg' = [tg EXCEPT ![em[E].target].rendering = TRUE]
    /\ \E n \in IF tg[em[E].target].rendering THEN 0 .. Submit ELSE {Submit} :
        Then(Repeat(ObtainBlock, n) \o Dispatch)

Mixer ==
    \/ WaitPrefill \/ AddTask \/ StoreTask \/ SetCursor \/ FillAllBlocks \/ TakeBlock
    \/ RewindTarget \/ Release \/ Simulate \/ Stopped \/ IStart
    \/  Fsm \/ Deferred \/ Footer \/ Delete \/ Render

-----------------------------------------------------------------------------
(* The passes of the mixer, and the calls of the game between them, in the *)
(* frame before update and after it.                                       *)

Idle == prog = <<>>
Plays(e) == em[e].target # None

UpdateBegins ==
    /\ Idle /\ phase = "game" /\ phase' = "update"
    /\ todo' = {e \in Emitters : em[e].state # "Unborn"}
    /\ UNCHANGED <<em, tg, task, prefill_task, prog>>

\* The emitters being rendered come first.
UpdateEmitter(e) ==
    /\ Idle /\ phase = "update" /\ e \in todo /\ todo' = todo \ {e}
    /\ Plays(e) \/ \A x \in todo : ~Plays(x)
    /\ prog' = Do(Rewind(e) \o <<"fsm", "deferred", "footer">>, e)
    /\ em' = [em EXCEPT ![e].bRewind = FALSE]
    /\ UNCHANGED <<tg, task, prefill_task, phase>>

RenderBegins ==
    /\ Idle /\ phase = "update" /\ todo = {} /\ phase' = "render"
    /\ todo' = {e \in Emitters : Plays(e)}
    /\ UNCHANGED <<em, tg, task, prefill_task, prog>>

RenderEmitter(e) ==
    /\ Idle /\ phase = "render" /\ e \in todo /\ todo' = todo \ {e}
    /\ prog' = Do(<<"render">>, e)
    /\ UNCHANGED <<em, tg, task, prefill_task, phase>>

FrameEnds ==
    /\ Idle /\ phase = "render" /\ todo = {} /\ phase' = "game"
    /\ UNCHANGED <<em, tg, task, prefill_task, prog, todo>>

Passes == UpdateBegins \/ RenderBegins \/ FrameEnds
          \/ \E e \in Emitters : UpdateEmitter(e) \/ RenderEmitter(e)

Call(e, r) ==
    /\ Idle /\ phase # "render" /\ todo = {} /\ em' = [em EXCEPT ![e] = r]
    /\ UNCHANGED <<tg, task, prefill_task, phase, todo>>
Owned(e) == em[e].state \notin {"Unborn", "Stopped"}

\* play of a sound that has no emitter yet, and of one that has.
Play(e) ==
    /\ em[e].state = "Unborn" /\ UNCHANGED prog
    /\ \E s \in {"Starting", "StartingDelayed"} :
        Call(e, [Unborn EXCEPT !.state = s])

PlayAgain(e) == Owned(e) /\ Call(e, [em[e] EXCEPT !.bStopping = FALSE, !.bRewind = TRUE]) /\ UNCHANGED prog
StopDeferred(e) == Owned(e) /\ Call(e, [em[e] EXCEPT !.bStopping = TRUE]) /\ UNCHANGED prog
StopNow(e) == Owned(e) /\ Call(e, [em[e] EXCEPT !.bRewind = FALSE]) /\ prog' = Do(IStop(e), e)

Game == \E e \in Emitters : Play(e) \/ PlayAgain(e) \/ StopDeferred(e) \/ StopNow(e)

Next == Mixer \/ Passes \/ Game \/ \E e \in Emitters : Decoder(e) \/ Reuse(e) \/ ForeignEnds(e)

\* Pool threads take every task, and the thread of the mixer goes on.
Fairness == /\ WF_vars(Mixer)
            /\ \A e \in Emitters : WF_vars(Decoder(e)) /\ WF_vars(ForeignEnds(e))

Spec == Init /\ [][Next]_vars /\ Fairness

-----------------------------------------------------------------------------
(* Properties *)

Decoding(e) == task[e].pc \notin {"none", "done"}

\* The mixer touches the ring, the cursor, the decoder or the state of an
\* emitter only while no task decodes for it: every wait is there, and no
\* stale or early cleared pointer lets it through.
DecoderHandover ==
    prog # <<>> /\ Head(prog).op \in {"add", "set_cursor", "fill_all", "take", "release",
                                      "simulate", "stopped", "delete", "i_start"}
        => ~Decoding(E)

\* A decoding emitter is playing: fill_block never meets the end of the data in
\* another state ("SOUND: Invalid emitter state").
DecodesWhilePlaying == \A e \in Emitters : Decoding(e) => em[e].state = "Playing"

\* What is in the ring are the last blocks decoded, in order, and a block that
\* is taken is there: none is played twice, skipped or played unfilled.
BlocksInOrder ==
    /\ \A e \in Emitters : \A k \in 0 .. em[e].filled_blocks - 1 :
        em[e].temp_buf[Slot(em[e].current_block + k)] = em[e].filled_blocks - 1 - k
    /\ At("take") => em[E].filled_blocks > 0

\* Emitters and targets agree on who plays where; between two calls exactly the
\* playing emitters have a target, which a rewind finds rendering.
TargetMatch ==
    /\ \A e \in Emitters, t \in Targets : em[e].target = t <=> tg[t].emitter = e
    /\ prog = <<>> => \A e \in Emitters : Plays(e) <=> em[e].state = "Playing"
    /\ At("rewind_target") => tg[em[E].target].rendering

\* No call of the mixer waits for ever, unless a stale pointer makes it wait for
\* the very task it runs in.
WaitsForItself == At("wait") /\ prefill_task[E] = "buried"
MixerReturns == prog # <<>> ~> prog = <<>> \/ WaitsForItself
=============================================================================

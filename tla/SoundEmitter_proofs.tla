------------------------- MODULE SoundEmitter_proofs -------------------------
(***************************************************************************)
(* Proofs of SoundEmitter for any emitters, any voices and any lengths of  *)
(* the ring and of a submission that fits it: the mixer and the decoding   *)
(* tasks never touch a ring at once, blocks are played in the order they   *)
(* were decoded and are there when a voice takes them, and emitters and    *)
(* voices agree on who plays where.                                        *)
(*                                                                         *)
(* What a call of the mixer still has to do is a sequence of steps, and    *)
(* that each of them finds what it needs rests on the order of the steps.  *)
(* So the invariant says first which step may come before which            *)
(* (WellFormed), and then what the steps still to come tell of the         *)
(* emitter they are for.                                                   *)
(***************************************************************************)
EXTENDS SoundEmitter, FiniteSetTheorems, SequenceTheorems, TLAPS

-----------------------------------------------------------------------------
(* What the mixer still has to do.                                         *)

\* y comes some time after x, for the same emitter.
BeforeOp(x, y) ==
    /\ x \in {"release", "simulate", "stopped", "delete"} =>
          y \in {"wait", "simulate", "stopped", "deferred", "footer"}
    /\ x = "i_start" => y \notin {"simulate", "stopped"}
    /\ x = "fsm" => y \in {"deferred", "footer"}
    /\ x = "deferred" => y = "footer"
    /\ x # "footer"
    /\ y = "take" => x \in {"wait", "take"}
    /\ y = "i_start" => x = "set_cursor"
    /\ y \in {"fill_all", "rewind_target"} => x \in {"wait", "set_cursor", "fill_all"}
    /\ x # "render" /\ y # "render"

\* The steps of another emitter are those that take a target away from it.
Before(x, y) ==
    /\ x.e = y.e => BeforeOp(x.op, y.op)
    /\ x.e # y.e => x.op \in {"wait", "release", "simulate"} /\ y.op \notin {"take", "render"}

\* y comes next.
NextOp(x, y) ==
    /\ y \in {"take", "add", "release", "delete", "set_cursor"} => x = "wait"
    /\ y = "fill_all" => x = "set_cursor"
    /\ y = "rewind_target" => x = "fill_all"
    /\ y = "simulate" => x = "release"
    /\ y = "stopped" => x \in {"release", "wait"}
    /\ y = "store" <=> x = "add"
    /\ x \in {"take", "rewind_target"} => y = "wait"

Follows(x, y) ==
    \/ x.e = y.e /\ NextOp(x.op, y.op)
    \/ x.e # y.e /\ x.op = "simulate" /\ y.op = "i_start"

WellFormed(s) ==
    /\ \A j, k \in DOMAIN s : j < k => Before(s[j], s[k])
    /\ \A k \in DOMAIN s : k + 1 \in DOMAIN s => Follows(s[k], s[k + 1])
    /\ \A k \in DOMAIN s : s[k].op = "add" => k + 1 \in DOMAIN s

In(op, e) == \E k \in DOMAIN prog : prog[k] = [op |-> op, e |-> e]

-----------------------------------------------------------------------------
(* The invariant.                                                          *)

Playing(e) == em[e].state = "Playing"
Rendering(e) == tg[em[e].target].rendering
Full(e) == em[e].filled_blocks = Prefill

\* A task that decodes is the one the pointer names, or about to be.
Pointed ==
    \A e \in Emitters : Decoding(e) => prefill_task[e] = "own" \/ (At("store") /\ E = e)

\* Behind a wait nothing decodes.
Quiet ==
    /\ prog # <<>> /\ Head(prog).op \in {"add", "set_cursor", "fill_all", "rewind_target", "take",
                                         "release", "simulate", "stopped", "delete"} => ~Decoding(E)
    /\ \A e \in Emitters : In("i_start", e) => ~Decoding(e)

Lives ==
    \A e \in Emitters :
        /\ Decoding(e) \/ In("add", e) => Playing(e)
        /\ In("delete", e) => em[e].state = "Stopped"
        /\ In("i_start", e) => Playing(e) /\ ~Plays(e)
        /\ In("i_start", e) \/ In("fsm", e) => phase = "update" /\ e \notin todo

Voices ==
    /\ \A e \in Emitters, t \in Targets : em[e].target = t <=> tg[t].emitter = e
    /\ \A e \in Emitters :
          /\ Plays(e) => Playing(e)
          /\ Playing(e) /\ ~Plays(e) => In("i_start", e) \/ In("simulate", e) \/ In("stopped", e)
          /\ In("release", e) => In("simulate", e) \/ In("stopped", e)
          /\ Plays(e) /\ (In("simulate", e) \/ In("stopped", e)) => In("release", e)

Rendered ==
    /\ \A e \in Emitters : In("fill_all", e) \/ In("rewind_target", e) => Plays(e) /\ Rendering(e)
    /\ \A e \in Emitters : In("render", e) => Plays(e) /\ phase = "render"
    /\ phase = "game" => \A e \in Emitters : Plays(e) => Rendering(e)
    /\ phase = "update" => \A e \in todo : Plays(e) => Rendering(e)
    /\ phase = "render" =>
          /\ \A e \in todo : Plays(e)
          /\ \A e \in Emitters : Plays(e) => e \in todo \/ Rendering(e) \/ In("render", e)
          /\ \A op \in Ops, e \in Emitters :
                In(op, e) => op \in {"render", "wait", "take", "add", "store"}

InOrder(e) ==
    \A k \in 0 .. em[e].filled_blocks - 1 :
        em[e].temp_buf[Slot(em[e].current_block + k)] = em[e].filled_blocks - 1 - k

Ring ==
    \A e \in Emitters :
        /\ InOrder(e)
        /\ task[e].pc = "loop" => task[e].next = Slot(em[e].current_block + em[e].filled_blocks)
        /\ Playing(e) => Decoding(e) \/ Full(e) \/ In("add", e)
        /\ In("take", e) \/ In("fill_all", e) \/ In("rewind_target", e) => In("add", e)

\* Every take finds a block: at most half the steps up to it are takes.
Stocked(k) ==
    LET e == prog[k].e IN
    IF Decoding(e) THEN k <= 2 * Submit /\ ~At("take")
    ELSE k <= 2 * em[e].filled_blocks - IF At("take") THEN 1 ELSE 0

Enough ==
    /\ At("rewind_target") => Full(E)
    /\ \A k \in DOMAIN prog : prog[k].op = "take" => Stocked(k)

IInv == TypeOK /\ WellFormed(prog) /\ Pointed /\ Quiet /\ Lives /\ Voices /\ Rendered /\ Ring /\ Enough

-----------------------------------------------------------------------------
(* Sequences of steps.                                                     *)

Step == [op : Ops, e : Emitters]

\* The types of a running call.
LEMMA HeadOfProg ==
  ASSUME TypeOK, prog # <<>>
  PROVE  /\ Len(prog) \in Nat /\ Len(prog) > 0 /\ 1 \in DOMAIN prog
         /\ Head(prog) = prog[1] /\ prog[1] \in Step /\ E \in Emitters
         /\ Head(prog).op \in Ops
         /\ Tail(prog) \in Seq(Step) /\ Len(Tail(prog)) = Len(prog) - 1
         /\ \A k \in 1 .. Len(prog) - 1 : Tail(prog)[k] = prog[k + 1]
<1>1. prog \in Seq(Step)
  BY DEF TypeOK, Step
<1>2. Len(prog) \in Nat /\ Len(prog) > 0
  BY <1>1, EmptySeq
<1>3. 1 \in DOMAIN prog /\ Head(prog) = prog[1] /\ prog[1] \in Step
  BY <1>1, <1>2
<1>4. prog[1].op \in Ops /\ prog[1].e \in Emitters
  BY <1>3 DEF Step
<1>5. Tail(prog) \in Seq(Step) /\ Len(Tail(prog)) = Len(prog) - 1
  BY <1>1, <1>2
<1>6. \A k \in 1 .. Len(prog) - 1 : Tail(prog)[k] = prog[k + 1]
  BY <1>1, <1>2
<1> QED
  BY <1>2, <1>3, <1>4, <1>5, <1>6 DEF E

\* What a list of operations becomes.
LEMMA DoSteps ==
  ASSUME NEW ops \in Seq(Ops), NEW e \in Emitters
  PROVE  /\ Do(ops, e) \in Seq(Step) /\ Len(Do(ops, e)) = Len(ops)
         /\ \A k \in 1 .. Len(ops) : Do(ops, e)[k] = [op |-> ops[k], e |-> e]
         /\ \A k \in 1 .. Len(ops) : ops[k] \in Ops
<1>1. DOMAIN ops = 1 .. Len(ops) /\ Len(ops) \in Nat /\ \A k \in 1 .. Len(ops) : ops[k] \in Ops
  OBVIOUS
<1>2. Do(ops, e) = [k \in 1 .. Len(ops) |-> [op |-> ops[k], e |-> e]]
  BY <1>1 DEF Do
<1>3. \A k \in 1 .. Len(ops) : [op |-> ops[k], e |-> e] \in Step
  BY <1>1 DEF Step
<1>4. Do(ops, e) \in Seq(Step)
  BY <1>1, <1>2, <1>3, IsASeq
<1> QED
  BY <1>1, <1>2, <1>4

\* rest is the call without its first n steps.
IsRest(rest, n) ==
    /\ rest \in Seq(Step) /\ n <= Len(prog) /\ Len(rest) = Len(prog) - n
    /\ \A k \in 1 .. Len(rest) : rest[k] = prog[k + n]

\* q is the call with the operations ops of e in place of its first n steps.
Resumes(q, n, e, ops) ==
    /\ q \in Seq(Step) /\ Len(prog) \in Nat /\ Len(ops) \in Nat /\ Len(q) \in Nat
    /\ DOMAIN prog = 1 .. Len(prog) /\ DOMAIN q = 1 .. Len(q)
    /\ Len(q) = Len(ops) + Len(prog) - n
    /\ \A k \in 1 .. Len(ops) : q[k] = [op |-> ops[k], e |-> e]
    /\ \A k \in Len(ops) + 1 .. Len(q) : q[k] = prog[k - Len(ops) + n]
    /\ \A k \in n + 1 .. Len(prog) : q[k + Len(ops) - n] = prog[k]

\* A call goes on: the first n steps are done and others come before the rest.
LEMMA Proceed ==
  ASSUME TypeOK, NEW n \in Nat, NEW e \in Emitters, NEW ops \in Seq(Ops), NEW rest, IsRest(rest, n)
  PROVE  Resumes(Do(ops, e) \o rest, n, e, ops)
<1> USE DEF IsRest
<1> DEFINE q == Do(ops, e) \o rest
<1>1. prog \in Seq(Step) /\ Len(prog) \in Nat /\ Len(ops) \in Nat
  BY DEF TypeOK, Step
<1> DEFINE a == Do(ops, e)
<1>2. a \in Seq(Step) /\ Len(a) = Len(ops) /\ \A k \in 1 .. Len(ops) : a[k] = [op |-> ops[k], e |-> e]
  BY DoSteps
<1>3. q = a \o rest
  OBVIOUS
<1> HIDE DEF a, q
<1>4. q \in Seq(Step) /\ Len(q) = Len(a) + Len(rest)
  <2>0. a \in Seq(Step)
    BY <1>2
  <2>1. (a \o rest) \in Seq(Step) /\ Len(a \o rest) = Len(a) + Len(rest)
    BY <2>0, ConcatProperties, Zenon
  <2> QED
    BY <2>1, <1>3
<1>5. \A k \in 1 .. Len(a) : q[k] = a[k]
  BY <1>2, <1>3
<1>6. \A k \in Len(a) + 1 .. Len(a) + Len(rest) : q[k] = rest[k - Len(a)]
  BY <1>2, <1>3
<1>7. \A k \in Len(ops) + 1 .. Len(q) : q[k] = prog[k - Len(ops) + n]
  <2> SUFFICES ASSUME NEW k \in Len(ops) + 1 .. Len(q) PROVE q[k] = prog[k - Len(ops) + n]
    OBVIOUS
  <2>1. q[k] = rest[k - Len(ops)]
    BY <1>1, <1>2, <1>4, <1>6
  <2>2. k - Len(ops) \in 1 .. Len(rest)
    BY <1>1, <1>2, <1>4
  <2> QED
    BY <2>1, <2>2
<1>8. \A k \in n + 1 .. Len(prog) : q[k + Len(ops) - n] = prog[k]
  <2> SUFFICES ASSUME NEW k \in n + 1 .. Len(prog) PROVE q[k + Len(ops) - n] = prog[k]
    OBVIOUS
  <2>1. k + Len(ops) - n \in Len(ops) + 1 .. Len(q)
    BY <1>1, <1>2, <1>4
  <2>2. (k + Len(ops) - n) - Len(ops) + n = k
    BY <1>1
  <2> QED
    BY <1>7, <2>1, <2>2
<1>9. Len(q) \in Nat /\ DOMAIN q = 1 .. Len(q) /\ Len(q) = Len(ops) + Len(prog) - n
  BY <1>1, <1>2, <1>4
<1>10. \A k \in 1 .. Len(ops) : q[k] = [op |-> ops[k], e |-> e]
  BY <1>2, <1>5
<1>11. DOMAIN prog = 1 .. Len(prog)
  BY <1>1
<1>12. Resumes(q, n, e, ops)
  BY <1>1, <1>4, <1>7, <1>8, <1>9, <1>10, <1>11, Zenon DEF Resumes
<1> QED
  BY <1>12 DEF q

\* A list of operations for one emitter that is well formed.
OpsFit(ops) ==
    /\ \A j, k \in 1 .. Len(ops) : j < k => BeforeOp(ops[j], ops[k])
    /\ \A k \in 1 .. Len(ops) : k + 1 <= Len(ops) => NextOp(ops[k], ops[k + 1])
    /\ Len(ops) > 0 => ops[Len(ops)] # "add"

\* What a call goes on with is well formed if the seam is.
LEMMA ProceedFits ==
  ASSUME WellFormed(prog), NEW n \in Nat, n <= Len(prog), NEW e, NEW ops, NEW q,
         Resumes(q, n, e, ops),
         OpsFit(ops),
         \A j \in 1 .. Len(ops), k \in n + 1 .. Len(prog) :
            Before([op |-> ops[j], e |-> e], prog[k]),
         Len(ops) > 0 /\ n < Len(prog) =>
            Follows([op |-> ops[Len(ops)], e |-> e], prog[n + 1])
  PROVE  WellFormed(q)
<1>1. /\ q \in Seq(Step) /\ DOMAIN prog = 1 .. Len(prog) /\ DOMAIN q = 1 .. Len(q)
      /\ Len(q) = Len(ops) + Len(prog) - n
      /\ \A k \in 1 .. Len(ops) : q[k] = [op |-> ops[k], e |-> e]
      /\ \A k \in Len(ops) + 1 .. Len(q) : q[k] = prog[k - Len(ops) + n]
  BY DEF Resumes
<1>2. Len(prog) \in Nat /\ Len(ops) \in Nat /\ Len(q) \in Nat
  BY DEF Resumes
<1> DEFINE old(k) == k - Len(ops) + n
<1>3. ASSUME NEW k \in 1 .. Len(q), k > Len(ops)
      PROVE  old(k) \in n + 1 .. Len(prog) /\ old(k) \in DOMAIN prog /\ q[k] = prog[old(k)]
  <2>1. k \in Int /\ Len(ops) \in Int /\ Len(prog) \in Int /\ n \in Int
    BY <1>2
  <2>2. k \in Len(ops) + 1 .. Len(q) /\ k <= Len(ops) + Len(prog) - n
    BY <1>1, <1>3, <2>1
  <2>3. old(k) \in n + 1 .. Len(prog)
    BY <1>3, <2>1, <2>2
  <2>4. old(k) \in 1 .. Len(prog)
    BY <2>1, <2>3
  <2> QED
    BY <1>1, <2>2, <2>3, <2>4
<1>4. ASSUME NEW j \in 1 .. Len(q), NEW k \in 1 .. Len(q), j < k
      PROVE  Before(q[j], q[k])
  <2>0. j \in Int /\ k \in Int /\ Len(ops) \in Int
    BY <1>2
  <2>1. CASE k <= Len(ops)
    <3>2. j \in 1 .. Len(ops) /\ k \in 1 .. Len(ops)
      BY <1>2, <1>4, <2>1
    <3>1. BeforeOp(ops[j], ops[k])
      BY <3>2, <1>4 DEF OpsFit
    <3>3. q[j] = [op |-> ops[j], e |-> e] /\ q[k] = [op |-> ops[k], e |-> e]
      BY <1>1, <3>2
    <3> QED
      BY <3>1, <3>3 DEF Before
  <2>2. CASE j <= Len(ops) /\ k > Len(ops)
    <3>3. j \in 1 .. Len(ops)
      BY <2>0, <2>2
    <3>1. q[j] = [op |-> ops[j], e |-> e]
      BY <1>1, <3>3
    <3>2. old(k) \in n + 1 .. Len(prog) /\ q[k] = prog[old(k)]
      BY <1>3, <2>2
    <3> QED
      BY <3>1, <3>2, <3>3
  <2>3. CASE j > Len(ops)
    <3>1. old(j) \in DOMAIN prog /\ q[j] = prog[old(j)]
      BY <1>3, <2>3
    <3>2. k > Len(ops)
      BY <1>2, <1>4, <2>3
    <3>4. old(k) \in DOMAIN prog /\ q[k] = prog[old(k)]
      BY <1>3, <3>2
    <3>3. old(j) < old(k)
      BY <1>2, <1>4
    <3> QED
      BY <3>1, <3>3, <3>4 DEF WellFormed
  <2>4. k <= Len(ops) \/ (j <= Len(ops) /\ k > Len(ops)) \/ j > Len(ops)
    BY <2>0
  <2> QED
    BY <2>1, <2>2, <2>3, <2>4, Zenon
<1>5. ASSUME NEW k \in 1 .. Len(q), k + 1 \in 1 .. Len(q)
      PROVE  Follows(q[k], q[k + 1])
  <2>0. k \in Int /\ Len(ops) \in Int
    BY <1>2
  <2>1. CASE k + 1 <= Len(ops)
    <3>1. k \in 1 .. Len(ops) /\ k + 1 \in 1 .. Len(ops)
      BY <1>2, <1>5, <2>1
    <3>2. NextOp(ops[k], ops[k + 1])
      BY <3>1, <2>1 DEF OpsFit
    <3>3. q[k] = [op |-> ops[k], e |-> e] /\ q[k + 1] = [op |-> ops[k + 1], e |-> e]
      BY <1>1, <3>1
    <3> QED
      BY <3>2, <3>3 DEF Follows
  <2>2. CASE k = Len(ops)
    <3>1. q[k] = [op |-> ops[Len(ops)], e |-> e] /\ Len(ops) > 0
      BY <1>1, <1>2, <1>5, <2>2
    <3>2. old(k + 1) = n + 1 /\ n < Len(prog) /\ q[k + 1] = prog[old(k + 1)]
      BY <1>1, <1>2, <1>3, <1>5, <2>2
    <3> QED
      BY <3>1, <3>2
  <2>3. CASE k > Len(ops)
    <3>1. old(k) \in DOMAIN prog /\ q[k] = prog[old(k)]
      BY <1>3, <2>3
    <3>2. k + 1 \in 1 .. Len(q) /\ k + 1 > Len(ops)
      BY <1>5, <2>0, <2>3
    <3>4. old(k + 1) \in DOMAIN prog /\ q[k + 1] = prog[old(k + 1)]
      BY <1>3, <3>2
    <3>3. old(k + 1) = old(k) + 1
      BY <1>2
    <3> QED
      BY <3>1, <3>3, <3>4 DEF WellFormed
  <2>4. k + 1 <= Len(ops) \/ k = Len(ops) \/ k > Len(ops)
    BY <2>0
  <2> QED
    BY <2>1, <2>2, <2>3, <2>4, Zenon
<1>6. ASSUME NEW k \in 1 .. Len(q), q[k].op = "add"
      PROVE  k + 1 \in 1 .. Len(q)
  <2>1. CASE k <= Len(ops)
    <3>0. k \in 1 .. Len(ops)
      BY <1>2, <2>1
    <3>1. ops[k] = "add"
      <4>1. q[k] = [op |-> ops[k], e |-> e]
        BY <1>1, <3>0
      <4> QED
        BY <4>1, <1>6
    <3>2. k + 1 <= Len(ops)
      BY <1>2, <3>0, <3>1 DEF OpsFit
    <3> QED
      BY <1>1, <1>2, <3>2
  <2>2. CASE k > Len(ops)
    <3>1. old(k) \in DOMAIN prog /\ prog[old(k)].op = "add"
      BY <1>3, <1>6, <2>2
    <3>2. old(k) + 1 \in 1 .. Len(prog)
      BY <1>1, <3>1 DEF WellFormed
    <3> QED
      BY <1>1, <1>2, <3>2
  <2> QED
    BY <1>2, <2>1, <2>2
<1> QED
  BY <1>1, <1>4, <1>5, <1>6 DEF WellFormed

\* The operation comes after the head.
Later(op, e) == \E k \in 2 .. Len(prog) : prog[k] = [op |-> op, e |-> e]
Has(ops, op) == \E k \in 1 .. Len(ops) : ops[k] = op

\* What may come after the head.
LEMMA AfterHead ==
  ASSUME TypeOK, WellFormed(prog), prog # <<>>
  PROVE  /\ \A op, e : In(op, e) <=> (Head(prog).op = op /\ E = e) \/ Later(op, e)
         /\ \A op, e : Later(op, e) => Before(Head(prog), [op |-> op, e |-> e])
         /\ \A op, e : E = e /\ Later(op, e) => BeforeOp(Head(prog).op, op)
         /\ \A op, e : e # E /\ Later(op, e) =>
               Head(prog).op \in {"wait", "release", "simulate"} /\ op \notin {"take", "render"}
<1>1. /\ Len(prog) \in Nat /\ Len(prog) > 0 /\ DOMAIN prog = 1 .. Len(prog)
      /\ Head(prog) = prog[1] /\ prog[1] \in Step
  BY HeadOfProg DEF TypeOK
<1>2. prog[1] = [op |-> Head(prog).op, e |-> E]
  BY <1>1 DEF E, Step
<1>3. ASSUME NEW op, NEW e PROVE In(op, e) <=> (Head(prog).op = op /\ E = e) \/ Later(op, e)
  <2>1. ASSUME NEW k \in 1 .. Len(prog) PROVE k = 1 \/ k \in 2 .. Len(prog)
    BY <1>1
  <2>2. 1 \in 1 .. Len(prog) /\ \A k \in 2 .. Len(prog) : k \in 1 .. Len(prog)
    BY <1>1
  <2>3. prog[1] = [op |-> op, e |-> e] <=> Head(prog).op = op /\ E = e
    BY <1>2
  <2> QED
    BY <1>1, <2>1, <2>2, <2>3 DEF In, Later
<1>4. ASSUME NEW op, NEW e, Later(op, e) PROVE Before(Head(prog), [op |-> op, e |-> e])
  <2>1. PICK k \in 2 .. Len(prog) : prog[k] = [op |-> op, e |-> e]
    BY <1>4 DEF Later
  <2>2. Before(prog[1], prog[k])
    <3>1. k \in DOMAIN prog /\ 1 \in DOMAIN prog /\ 1 < k
      BY <1>1
    <3> QED
      BY <3>1 DEF WellFormed
  <2> QED
    BY <1>1, <2>1, <2>2
<1>5. ASSUME NEW op, NEW e, Later(op, e)
      PROVE  /\ E = e => BeforeOp(Head(prog).op, op)
             /\ E # e => Head(prog).op \in {"wait", "release", "simulate"} /\ op \notin {"take", "render"}
  BY <1>4, <1>5 DEF Before, E
<1> QED
  BY <1>3, <1>4, <1>5

\* The head of a call is done, and other operations come first.
LEMMA StepOn ==
  ASSUME TypeOK, WellFormed(prog), prog # <<>>, NEW ops \in Seq(Ops),
         prog' = Do(ops, E) \o Tail(prog)
  PROVE  /\ prog' \in Seq(Step)
         /\ \A op, e : In(op, e)' <=> (E = e /\ Has(ops, op)) \/ Later(op, e)
         /\ \A k \in DOMAIN prog' :
               \/ k \in 1 .. Len(ops) /\ prog'[k] = [op |-> ops[k], e |-> E]
               \/ /\ k > Len(ops) /\ k - Len(ops) + 1 \in DOMAIN prog
                  /\ prog'[k] = prog[k - Len(ops) + 1]
         /\ Len(ops) > 0 => Head(prog') = [op |-> ops[1], e |-> E] /\ prog' # <<>>
<1>1. /\ Len(prog) \in Nat /\ Len(prog) > 0 /\ E \in Emitters /\ Len(ops) \in Nat
      /\ IsRest(Tail(prog), 1)
  BY HeadOfProg DEF IsRest
<1>2. /\ prog' \in Seq(Step) /\ DOMAIN prog = 1 .. Len(prog) /\ DOMAIN (prog') = 1 .. Len(prog')
      /\ Len(prog') = Len(ops) + Len(prog) - 1
      /\ \A k \in 1 .. Len(ops) : prog'[k] = [op |-> ops[k], e |-> E]
      /\ \A k \in Len(ops) + 1 .. Len(prog') : prog'[k] = prog[k - Len(ops) + 1]
      /\ \A k \in 1 + 1 .. Len(prog) : prog'[k + Len(ops) - 1] = prog[k]
  <2>1. Resumes(Do(ops, E) \o Tail(prog), 1, E, ops)
    BY <1>1, Proceed
  <2> QED
    BY <2>1 DEF Resumes
<1>3. Len(prog') \in Nat
  BY <1>2
<1>4. ASSUME NEW k \in 1 .. Len(prog')
      PROVE  \/ k \in 1 .. Len(ops) /\ prog'[k] = [op |-> ops[k], e |-> E]
             \/ /\ k > Len(ops) /\ k - Len(ops) + 1 \in 2 .. Len(prog)
                /\ prog'[k] = prog[k - Len(ops) + 1]
  <2>1. CASE k <= Len(ops)
    <3>1. k \in 1 .. Len(ops)
      BY <1>1, <1>3, <2>1
    <3> QED
      BY <1>2, <3>1
  <2>2. CASE k > Len(ops)
    <3>1. k \in Len(ops) + 1 .. Len(prog') /\ k - Len(ops) + 1 \in 2 .. Len(prog)
      BY <1>1, <1>2, <1>3, <2>2
    <3> QED
      BY <1>2, <2>2, <3>1
  <2>3. k <= Len(ops) \/ k > Len(ops)
    BY <1>1, <1>3
  <2> QED
    BY <2>1, <2>2, <2>3, Zenon
<1>5. ASSUME NEW op, NEW e PROVE In(op, e)' <=> (E = e /\ Has(ops, op)) \/ Later(op, e)
  <2>1. ASSUME In(op, e)' PROVE (E = e /\ Has(ops, op)) \/ Later(op, e)
    <3>1. PICK k \in 1 .. Len(prog') : prog'[k] = [op |-> op, e |-> e]
      BY <1>2, <2>1 DEF In
    <3>2. CASE k \in 1 .. Len(ops) /\ prog'[k] = [op |-> ops[k], e |-> E]
      <4>1. [op |-> ops[k], e |-> E] = [op |-> op, e |-> e]
        BY <3>1, <3>2
      <4>2. ops[k] = op /\ E = e
        BY <4>1
      <4> QED
        BY <3>2, <4>2 DEF Has
    <3>3. CASE k - Len(ops) + 1 \in 2 .. Len(prog) /\ prog'[k] = prog[k - Len(ops) + 1]
      BY <3>1, <3>3 DEF Later
    <3> QED
      BY <1>4, <3>2, <3>3
  <2>2. ASSUME E = e, Has(ops, op) PROVE In(op, e)'
    <3>1. PICK k \in 1 .. Len(ops) : ops[k] = op
      BY <2>2 DEF Has
    <3>2. prog'[k] = [op |-> op, e |-> e]
      BY <1>2, <2>2, <3>1
    <3>3. k \in DOMAIN prog'
      BY <1>1, <1>2
    <3> QED
      BY <3>2, <3>3 DEF In
  <2>3. ASSUME Later(op, e) PROVE In(op, e)'
    <3>1. PICK k \in 2 .. Len(prog) : prog[k] = [op |-> op, e |-> e]
      BY <2>3 DEF Later
    <3>2. prog'[k + Len(ops) - 1] = [op |-> op, e |-> e]
      BY <1>2, <3>1
    <3>3. k + Len(ops) - 1 \in DOMAIN prog'
      BY <1>1, <1>2
    <3> QED
      BY <3>2, <3>3 DEF In
  <2> QED
    BY <2>1, <2>2, <2>3
<1>6. ASSUME Len(ops) > 0 PROVE Head(prog') = [op |-> ops[1], e |-> E] /\ prog' # <<>>
  <2>1. Len(prog') > 0 /\ 1 \in 1 .. Len(ops)
    BY <1>1, <1>2, <1>6
  <2>2. prog' # <<>> /\ Head(prog') = prog'[1]
    BY <1>2, <2>1, HeadTailProperties, EmptySeq
  <2> QED
    BY <1>2, <2>1, <2>2
<1>7. \A k \in 2 .. Len(prog) : k \in DOMAIN prog
  BY <1>1, <1>2
<1> QED
  BY <1>2, <1>4, <1>5, <1>6, <1>7

\* The seam of such a step.
LEMMA StepFits ==
  ASSUME TypeOK, WellFormed(prog), prog # <<>>, NEW ops \in Seq(Ops),
         prog' = Do(ops, E) \o Tail(prog), OpsFit(ops),
         \A j \in 1 .. Len(ops) : \A op, e :
            Later(op, e) => Before([op |-> ops[j], e |-> E], [op |-> op, e |-> e]),
         Len(ops) > 0 /\ Len(prog) > 1 => Follows([op |-> ops[Len(ops)], e |-> E], prog[2])
  PROVE  WellFormed(prog')
<1>1. /\ Len(prog) \in Nat /\ Len(prog) > 0 /\ E \in Emitters /\ Len(ops) \in Nat
      /\ IsRest(Tail(prog), 1)
  BY HeadOfProg DEF IsRest
<1>2. Resumes(prog', 1, E, ops)
  BY <1>1, Proceed
<1>3. 1 \in Nat /\ 1 <= Len(prog)
  BY <1>1
<1>4. ASSUME NEW j \in 1 .. Len(ops), NEW k \in 1 + 1 .. Len(prog)
      PROVE  Before([op |-> ops[j], e |-> E], prog[k])
  <2>0. k \in 2 .. Len(prog) /\ k \in 1 .. Len(prog)
    BY <1>1
  <2>1. prog[k] \in Step
    <3>1. prog \in Seq(Step)
      BY DEF TypeOK, Step
    <3> QED
      BY <2>0, <3>1
  <2>2. prog[k] = [op |-> prog[k].op, e |-> prog[k].e]
    BY <2>1 DEF Step
  <2>3. Later(prog[k].op, prog[k].e)
    BY <2>0, <2>2 DEF Later
  <2>4. Before([op |-> ops[j], e |-> E], [op |-> prog[k].op, e |-> prog[k].e])
    BY <2>3
  <2> QED
    BY <2>2, <2>4
<1>5. Len(ops) > 0 /\ 1 < Len(prog) => Follows([op |-> ops[Len(ops)], e |-> E], prog[1 + 1])
  BY <1>1
<1> QED
  BY <1>2, <1>3, <1>4, <1>5, ProceedFits

\* The lists the code makes are well formed.
LEMMA ListFits ==
     /\ StopTarget \o <<"simulate">> = <<"wait", "release", "simulate">>
     /\ StopTarget \o <<"stopped">> = <<"wait", "release", "stopped">>
     /\ <<"set_cursor">> \o <<"i_start">> \o Dispatch
           = <<"set_cursor", "i_start", "wait", "add", "store">>
     /\ StopTarget \o <<"wait", "stopped">> = <<"wait", "release", "wait", "stopped">>
     /\ <<>> \o <<"wait", "stopped">> = <<"wait", "stopped">>
     /\ <<>> \o <<"fsm", "deferred", "footer">> = <<"fsm", "deferred", "footer">>
     /\ (<<"wait", "set_cursor">> \o <<>>) \o <<"fsm", "deferred", "footer">> = <<"wait", "set_cursor", "fsm", "deferred", "footer">>
     /\ (<<"wait", "set_cursor">> \o (<<"fill_all", "rewind_target">> \o Dispatch)) \o <<"fsm", "deferred", "footer">>
           = <<"wait", "set_cursor", "fill_all", "rewind_target", "wait", "add", "store", "fsm", "deferred", "footer">>
<1> USE DEF StopTarget, Dispatch, Ops
<1>1. StopTarget \o <<"simulate">> = <<"wait", "release", "simulate">>
  <2>0. StopTarget \in Seq(Ops) /\ <<"simulate">> \in Seq(Ops) /\ <<"wait", "release", "simulate">> \in Seq(Ops)
    OBVIOUS
  <2>1. StopTarget \o <<"simulate">> \in Seq(Ops)
    BY <2>0, ConcatProperties
  <2>2. Len(StopTarget \o <<"simulate">>) = Len(<<"wait", "release", "simulate">>)
    OBVIOUS
  <2>3. \A k \in 1 .. Len(<<"wait", "release", "simulate">>) : (StopTarget \o <<"simulate">>)[k] = <<"wait", "release", "simulate">>[k]
    OBVIOUS
  <2> QED
    BY <2>0, <2>1, <2>2, <2>3, SeqEqual
<1>2. StopTarget \o <<"stopped">> = <<"wait", "release", "stopped">>
  <2>0. StopTarget \in Seq(Ops) /\ <<"stopped">> \in Seq(Ops) /\ <<"wait", "release", "stopped">> \in Seq(Ops)
    OBVIOUS
  <2>1. StopTarget \o <<"stopped">> \in Seq(Ops)
    BY <2>0, ConcatProperties
  <2>2. Len(StopTarget \o <<"stopped">>) = Len(<<"wait", "release", "stopped">>)
    OBVIOUS
  <2>3. \A k \in 1 .. Len(<<"wait", "release", "stopped">>) : (StopTarget \o <<"stopped">>)[k] = <<"wait", "release", "stopped">>[k]
    OBVIOUS
  <2> QED
    BY <2>0, <2>1, <2>2, <2>3, SeqEqual
<1>3. <<"set_cursor">> \o <<"i_start">> \o Dispatch = <<"set_cursor", "i_start", "wait", "add", "store">>
  <2>0. <<"set_cursor">> \in Seq(Ops) /\ <<"i_start">> \in Seq(Ops) /\ Dispatch \in Seq(Ops) /\ <<"set_cursor", "i_start", "wait", "add", "store">> \in Seq(Ops)
    OBVIOUS
  <2>4. <<"set_cursor">> \o <<"i_start">> \in Seq(Ops)
    BY <2>0, ConcatProperties
  <2>1. <<"set_cursor">> \o <<"i_start">> \o Dispatch \in Seq(Ops)
    BY <2>0, <2>4, ConcatProperties
  <2>2. Len(<<"set_cursor">> \o <<"i_start">> \o Dispatch) = Len(<<"set_cursor", "i_start", "wait", "add", "store">>)
    OBVIOUS
  <2>3. \A k \in 1 .. Len(<<"set_cursor", "i_start", "wait", "add", "store">>) : (<<"set_cursor">> \o <<"i_start">> \o Dispatch)[k] = <<"set_cursor", "i_start", "wait", "add", "store">>[k]
    OBVIOUS
  <2> QED
    BY <2>0, <2>1, <2>2, <2>3, SeqEqual
<1>4. StopTarget \o <<"wait", "stopped">> = <<"wait", "release", "wait", "stopped">>
  <2>0. StopTarget \in Seq(Ops) /\ <<"wait", "stopped">> \in Seq(Ops) /\ <<"wait", "release", "wait", "stopped">> \in Seq(Ops)
    OBVIOUS
  <2>1. StopTarget \o <<"wait", "stopped">> \in Seq(Ops)
    BY <2>0, ConcatProperties
  <2>2. Len(StopTarget \o <<"wait", "stopped">>) = Len(<<"wait", "release", "wait", "stopped">>)
    OBVIOUS
  <2>3. \A k \in 1 .. Len(<<"wait", "release", "wait", "stopped">>) : (StopTarget \o <<"wait", "stopped">>)[k] = <<"wait", "release", "wait", "stopped">>[k]
    OBVIOUS
  <2> QED
    BY <2>0, <2>1, <2>2, <2>3, SeqEqual
<1>5. <<>> \o <<"wait", "stopped">> = <<"wait", "stopped">>
  OBVIOUS
<1>6. <<>> \o <<"fsm", "deferred", "footer">> = <<"fsm", "deferred", "footer">>
  OBVIOUS
<1>7. (<<"wait", "set_cursor">> \o <<>>) \o <<"fsm", "deferred", "footer">> = <<"wait", "set_cursor", "fsm", "deferred", "footer">>
  <2>0. /\ <<"wait", "set_cursor">> \in Seq(Ops)
        /\ <<>> \in Seq(Ops)
        /\ <<"fsm", "deferred", "footer">> \in Seq(Ops)
        /\ <<"wait", "set_cursor", "fsm", "deferred", "footer">> \in Seq(Ops)
    OBVIOUS
  <2>4. <<"wait", "set_cursor">> \o <<>> \in Seq(Ops)
    BY <2>0, ConcatProperties
  <2>1. (<<"wait", "set_cursor">> \o <<>>) \o <<"fsm", "deferred", "footer">> \in Seq(Ops)
    BY <2>0, <2>4, ConcatProperties
  <2>2. Len((<<"wait", "set_cursor">> \o <<>>) \o <<"fsm", "deferred", "footer">>) = Len(<<"wait", "set_cursor", "fsm", "deferred", "footer">>)
    OBVIOUS
  <2>3. \A k \in 1 .. Len(<<"wait", "set_cursor", "fsm", "deferred", "footer">>) : ((<<"wait", "set_cursor">> \o <<>>) \o <<"fsm", "deferred", "footer">>)[k] = <<"wait", "set_cursor", "fsm", "deferred", "footer">>[k]
    OBVIOUS
  <2> QED
    BY <2>0, <2>1, <2>2, <2>3, SeqEqual
<1>8. (<<"wait", "set_cursor">> \o (<<"fill_all", "rewind_target">> \o Dispatch)) \o <<"fsm", "deferred", "footer">> = <<"wait", "set_cursor", "fill_all", "rewind_target", "wait", "add", "store", "fsm", "deferred", "footer">>
  <2>0. /\ <<"wait", "set_cursor">> \in Seq(Ops)
        /\ <<"fill_all", "rewind_target">> \in Seq(Ops)
        /\ Dispatch \in Seq(Ops)
        /\ <<"fsm", "deferred", "footer">> \in Seq(Ops)
        /\ <<"wait", "set_cursor", "fill_all", "rewind_target", "wait", "add", "store", "fsm", "deferred", "footer">> \in Seq(Ops)
    OBVIOUS
  <2>4. <<"fill_all", "rewind_target">> \o Dispatch \in Seq(Ops)
    BY <2>0, ConcatProperties
  <2>5. <<"wait", "set_cursor">> \o (<<"fill_all", "rewind_target">> \o Dispatch) \in Seq(Ops)
    BY <2>0, <2>4, ConcatProperties
  <2>1. (<<"wait", "set_cursor">> \o (<<"fill_all", "rewind_target">> \o Dispatch)) \o <<"fsm", "deferred", "footer">> \in Seq(Ops)
    BY <2>0, <2>4, <2>5, ConcatProperties
  <2>2. Len((<<"wait", "set_cursor">> \o (<<"fill_all", "rewind_target">> \o Dispatch)) \o <<"fsm", "deferred", "footer">>) = Len(<<"wait", "set_cursor", "fill_all", "rewind_target", "wait", "add", "store", "fsm", "deferred", "footer">>)
    OBVIOUS
  <2>3. \A k \in 1 .. Len(<<"wait", "set_cursor", "fill_all", "rewind_target", "wait", "add", "store", "fsm", "deferred", "footer">>) : ((<<"wait", "set_cursor">> \o (<<"fill_all", "rewind_target">> \o Dispatch)) \o <<"fsm", "deferred", "footer">>)[k] = <<"wait", "set_cursor", "fill_all", "rewind_target", "wait", "add", "store", "fsm", "deferred", "footer">>[k]
    OBVIOUS
  <2> QED
    BY <2>0, <2>1, <2>2, <2>3, SeqEqual
<1> QED
  BY <1>1, <1>2, <1>3, <1>4, <1>5, <1>6, <1>7, <1>8

\* The list is well formed and names these operations.
ListOf(l, n, S) ==
    /\ l \in Seq(Ops) /\ Len(l) = n /\ OpsFit(l)
    /\ \A op : Has(l, op) <=> op \in S

\* The lists of operations that the code makes, as they are after a step.
LEMMA Lists ==
     /\ ListOf(<<>>, 0, {})
     /\ ListOf(<<"set_cursor">>, 1, {"set_cursor"})
     /\ ListOf(<<"wait", "release", "simulate">>, 3, {"wait", "release", "simulate"})
     /\ ListOf(<<"wait", "release", "stopped">>, 3, {"wait", "release", "stopped"})
     /\ ListOf(<<"set_cursor", "i_start", "wait", "add", "store">>, 5,
               {"set_cursor", "i_start", "wait", "add", "store"})
     /\ ListOf(<<"wait", "stopped">>, 2, {"wait", "stopped"})
     /\ ListOf(<<"wait", "release", "wait", "stopped">>, 4,
               {"wait", "release", "stopped"})
     /\ ListOf(<<"wait", "delete">>, 2, {"wait", "delete"})
     /\ ListOf(<<"fsm", "deferred", "footer">>, 3, {"fsm", "deferred", "footer"})
     /\ ListOf(<<"wait", "set_cursor", "fsm", "deferred", "footer">>, 5,
               {"wait", "set_cursor", "fsm", "deferred", "footer"})
     /\ ListOf(<<"wait", "set_cursor", "fill_all", "rewind_target", "wait", "add", "store", "fsm", "deferred", "footer">>, 10,
               {"wait", "set_cursor", "fill_all", "rewind_target", "add", "store", "fsm", "deferred", "footer"})
     /\ ListOf(<<"render">>, 1, {"render"})
<1> USE DEF ListOf, OpsFit, Has, BeforeOp, NextOp, Ops
<1>0. ListOf(<<>>, 0, {})
  OBVIOUS
<1>1. ListOf(<<"set_cursor">>, 1, {"set_cursor"})
  OBVIOUS
<1>2. ListOf(<<"wait", "release", "simulate">>, 3, {"wait", "release", "simulate"})
  OBVIOUS
<1>3. ListOf(<<"wait", "release", "stopped">>, 3, {"wait", "release", "stopped"})
  OBVIOUS
<1>4. ListOf(<<"set_cursor", "i_start", "wait", "add", "store">>, 5, {"set_cursor", "i_start", "wait", "add", "store"})
  <2>1. <<"set_cursor", "i_start", "wait", "add", "store">> \in Seq(Ops) /\ Len(<<"set_cursor", "i_start", "wait", "add", "store">>) = 5
    OBVIOUS
  <2>2. OpsFit(<<"set_cursor", "i_start", "wait", "add", "store">>)
    OBVIOUS
  <2>3. \A op : Has(<<"set_cursor", "i_start", "wait", "add", "store">>, op) <=> op \in {"set_cursor", "i_start", "wait", "add", "store"}
    OBVIOUS
  <2> QED
    BY <2>1, <2>2, <2>3
<1>5. ListOf(<<"wait", "stopped">>, 2, {"wait", "stopped"})
  OBVIOUS
<1>6. ListOf(<<"wait", "release", "wait", "stopped">>, 4, {"wait", "release", "stopped"})
  <2>1. <<"wait", "release", "wait", "stopped">> \in Seq(Ops) /\ Len(<<"wait", "release", "wait", "stopped">>) = 4
    OBVIOUS
  <2>2. OpsFit(<<"wait", "release", "wait", "stopped">>)
    OBVIOUS
  <2>3. \A op : Has(<<"wait", "release", "wait", "stopped">>, op) <=> op \in {"wait", "release", "stopped"}
    OBVIOUS
  <2> QED
    BY <2>1, <2>2, <2>3
<1>7. ListOf(<<"wait", "delete">>, 2, {"wait", "delete"})
  OBVIOUS
<1>8. ListOf(<<"fsm", "deferred", "footer">>, 3, {"fsm", "deferred", "footer"})
  OBVIOUS
<1>9. ListOf(<<"wait", "set_cursor", "fsm", "deferred", "footer">>, 5, {"wait", "set_cursor", "fsm", "deferred", "footer"})
  <2>1. <<"wait", "set_cursor", "fsm", "deferred", "footer">> \in Seq(Ops) /\ Len(<<"wait", "set_cursor", "fsm", "deferred", "footer">>) = 5
    OBVIOUS
  <2>2. OpsFit(<<"wait", "set_cursor", "fsm", "deferred", "footer">>)
    OBVIOUS
  <2>3. \A op : Has(<<"wait", "set_cursor", "fsm", "deferred", "footer">>, op) <=> op \in {"wait", "set_cursor", "fsm", "deferred", "footer"}
    OBVIOUS
  <2> QED
    BY <2>1, <2>2, <2>3
<1>10. ListOf(<<"wait", "set_cursor", "fill_all", "rewind_target", "wait", "add", "store", "fsm", "deferred", "footer">>, 10, {"wait", "set_cursor", "fill_all", "rewind_target", "add", "store", "fsm", "deferred", "footer"})
  <2>1. <<"wait", "set_cursor", "fill_all", "rewind_target", "wait", "add", "store", "fsm", "deferred", "footer">> \in Seq(Ops) /\ Len(<<"wait", "set_cursor", "fill_all", "rewind_target", "wait", "add", "store", "fsm", "deferred", "footer">>) = 10
    OBVIOUS
  <2>2. OpsFit(<<"wait", "set_cursor", "fill_all", "rewind_target", "wait", "add", "store", "fsm", "deferred", "footer">>)
    OBVIOUS
  <2>3. \A op : Has(<<"wait", "set_cursor", "fill_all", "rewind_target", "wait", "add", "store", "fsm", "deferred", "footer">>, op) <=> op \in {"wait", "set_cursor", "fill_all", "rewind_target", "add", "store", "fsm", "deferred", "footer"}
    OBVIOUS
  <2> QED
    BY <2>1, <2>2, <2>3
<1>11. ListOf(<<"render">>, 1, {"render"})
  OBVIOUS
<1> QED
  BY <1>0, <1>1, <1>2, <1>3, <1>4, <1>5, <1>6, <1>7, <1>8, <1>9, <1>10, <1>11

\* The blocks a voice takes: a wait before each.
LEMMA RepeatList ==
  ASSUME NEW n \in Nat
  PROVE  /\ Repeat(ObtainBlock, n) \in Seq(Ops) /\ Len(Repeat(ObtainBlock, n)) = 2 * n
         /\ \A k \in 1 .. 2 * n :
               Repeat(ObtainBlock, n)[k] = IF k % 2 = 1 THEN "wait" ELSE "take"
         /\ OpsFit(Repeat(ObtainBlock, n))
         /\ \A op : Has(Repeat(ObtainBlock, n), op) => op \in {"wait", "take"}
<1> DEFINE l == Repeat(ObtainBlock, n)
<1>1. Len(ObtainBlock) = 2 /\ ObtainBlock[1] = "wait" /\ ObtainBlock[2] = "take"
  BY DEF ObtainBlock
<1>2. l = [k \in 1 .. 2 * n |-> ObtainBlock[((k - 1) % 2) + 1]]
  <2>1. n * Len(ObtainBlock) = 2 * n
    BY <1>1
  <2> QED
    BY <1>1, <2>1 DEF Repeat
<1>3. 2 * n \in Nat
  OBVIOUS
<1> HIDE DEF l
<1>4. ASSUME NEW k \in 1 .. 2 * n PROVE l[k] = IF k % 2 = 1 THEN "wait" ELSE "take"
  <2>1. l[k] = ObtainBlock[((k - 1) % 2) + 1]
    BY <1>2
  <2>2. k % 2 = 1 => (k - 1) % 2 = 0
    OBVIOUS
  <2>3. k % 2 # 1 => (k - 1) % 2 = 1
    OBVIOUS
  <2> QED
    BY <1>1, <2>1, <2>2, <2>3
<1>5. l \in Seq(Ops)
  <2>1. \A k \in 1 .. 2 * n : ObtainBlock[((k - 1) % 2) + 1] \in Ops
    BY <1>2, <1>4 DEF Ops
  <2> QED
    BY <1>2, <1>3, <2>1, IsASeq
<1>6. Len(l) = 2 * n
  BY <1>2, <1>3
<1>7. OpsFit(l)
  <2>1. ASSUME NEW j \in 1 .. Len(l), NEW k \in 1 .. Len(l) PROVE BeforeOp(l[j], l[k])
    BY <1>4, <1>6 DEF BeforeOp
  <2>2. ASSUME NEW k \in 1 .. Len(l), k + 1 <= Len(l) PROVE NextOp(l[k], l[k + 1])
    <3>1. k \in 1 .. 2 * n /\ k + 1 \in 1 .. 2 * n
      BY <1>6, <2>2
    <3>2. k % 2 = 1 => (k + 1) % 2 # 1
      OBVIOUS
    <3>3. k % 2 # 1 => (k + 1) % 2 = 1
      OBVIOUS
    <3> QED
      BY <1>4, <3>1, <3>2, <3>3 DEF NextOp
  <2>3. Len(l) > 0 => l[Len(l)] # "add"
    BY <1>4, <1>6
  <2> QED
    BY <2>1, <2>2, <2>3 DEF OpsFit
<1>8. \A op : Has(l, op) => op \in {"wait", "take"}
  BY <1>4, <1>6 DEF Has
<1> QED
  BY <1>4, <1>5, <1>6, <1>7, <1>8 DEF l

\* What a rendered voice does: it takes n blocks and has new ones decoded.
LEMMA RenderList ==
  ASSUME NEW n \in Nat
  PROVE  LET l == Repeat(ObtainBlock, n) \o Dispatch IN
         /\ l \in Seq(Ops) /\ Len(l) = (2 * n) + 3 /\ OpsFit(l) /\ l[1] = "wait"
         /\ \A k \in 1 .. Len(l) : l[k] = "take" => k <= 2 * n
         /\ \A op : Has(l, op) => op \in {"wait", "take", "add", "store"}
         /\ Has(l, "add")
<1> DEFINE a == Repeat(ObtainBlock, n)
           l == a \o Dispatch
<1>0. 2 * n \in Nat
  OBVIOUS
<1>1. /\ a \in Seq(Ops) /\ Len(a) = 2 * n
      /\ \A k \in 1 .. 2 * n : a[k] = IF k % 2 = 1 THEN "wait" ELSE "take"
      /\ OpsFit(a)
  BY RepeatList
<1> HIDE DEF a
<1>2. Dispatch \in Seq(Ops) /\ Len(Dispatch) = 3
      /\ Dispatch[1] = "wait" /\ Dispatch[2] = "add" /\ Dispatch[3] = "store"
  BY DEF Dispatch, Ops
<1>3. l \in Seq(Ops) /\ Len(l) = (2 * n) + 3
  <2>1. l \in Seq(Ops) /\ Len(l) = Len(a) + Len(Dispatch)
    BY <1>1, <1>2, ConcatProperties, Zenon
  <2> QED
    BY <1>1, <1>2, <2>1
<1>4. \A k \in 1 .. Len(l) : l[k] = IF k <= 2 * n THEN a[k] ELSE Dispatch[k - 2 * n]
  <2>1. /\ Len(l) = Len(a) + Len(Dispatch)
        /\ \A k \in 1 .. Len(a) + Len(Dispatch) :
              l[k] = IF k <= Len(a) THEN a[k] ELSE Dispatch[k - Len(a)]
    BY <1>1, <1>2, ConcatProperties, Zenon
  <2> QED
    BY <1>1, <2>1, Zenon
<1> HIDE DEF l
<1>5. ASSUME NEW k \in 1 .. Len(l)
      PROVE  /\ k <= 2 * n => l[k] = IF k % 2 = 1 THEN "wait" ELSE "take"
             /\ k = (2 * n) + 1 => l[k] = "wait"
             /\ k = (2 * n) + 2 => l[k] = "add"
             /\ k = (2 * n) + 3 => l[k] = "store"
             /\ k <= 2 * n \/ k = (2 * n) + 1 \/ k = (2 * n) + 2 \/ k = (2 * n) + 3
  <2>1. k \in Int /\ k >= 1 /\ k <= (2 * n) + 3
    BY <1>0, <1>3
  <2>2. k <= 2 * n => k \in 1 .. 2 * n /\ l[k] = a[k]
    BY <1>0, <1>4, <2>1
  <2>3. k > 2 * n => l[k] = Dispatch[k - 2 * n]
    BY <1>0, <1>4, <2>1
  <2>4. k <= 2 * n \/ k = (2 * n) + 1 \/ k = (2 * n) + 2 \/ k = (2 * n) + 3
    BY <1>0, <2>1
  <2> QED
    BY <1>0, <1>1, <1>2, <2>2, <2>3, <2>4
<1>6. ASSUME NEW j \in 1 .. Len(l), NEW k \in 1 .. Len(l), j < k PROVE BeforeOp(l[j], l[k])
  <2>1. l[j] \in {"wait", "take", "add", "store"} /\ l[k] \in {"wait", "take", "add", "store"}
    BY <1>5
  <2>2. l[k] = "take" => l[j] \in {"wait", "take"}
    BY <1>0, <1>1, <1>3, <1>5, <1>6
  <2> QED
    BY <2>1, <2>2 DEF BeforeOp
<1>7. ASSUME NEW k \in 1 .. Len(l), k + 1 <= Len(l) PROVE NextOp(l[k], l[k + 1])
  <2>1. k + 1 \in 1 .. Len(l) /\ k \in Int
    BY <1>0, <1>1, <1>3, <1>7
  <2>2. k % 2 = 1 => (k + 1) % 2 # 1
    BY <2>1
  <2>3. k % 2 # 1 => (k + 1) % 2 = 1
    BY <2>1
  <2>4. (2 * n) % 2 = 0
    OBVIOUS
  <2> QED
    BY <1>0, <1>1, <1>3, <1>5, <2>1, <2>2, <2>3, <2>4 DEF NextOp
<1>8. l[1] = "wait" /\ l[Len(l)] = "store"
  <2>1. 1 \in 1 .. Len(l) /\ Len(l) \in 1 .. Len(l)
    BY <1>0, <1>1, <1>3
  <2> QED
    BY <1>0, <1>1, <1>3, <1>5, <2>1
<1>9. OpsFit(l)
  BY <1>6, <1>7, <1>8 DEF OpsFit
<1>10. \A op : Has(l, op) => op \in {"wait", "take", "add", "store"}
  BY <1>5 DEF Has
<1>11. Has(l, "add")
  <2>1. (2 * n) + 2 \in 1 .. Len(l)
    BY <1>0, <1>1, <1>3
  <2> QED
    BY <1>5, <2>1 DEF Has
<1>12. \A k \in 1 .. Len(l) : l[k] = "take" => k <= 2 * n
  BY <1>5
<1> QED
  BY <1>3, <1>8, <1>9, <1>10, <1>11, <1>12 DEF l, a

-----------------------------------------------------------------------------
(* Indices of the ring of blocks.                                          *)

\* No multiple of the ring's size lies strictly between zero and the size.
LEMMA NoMultiple ==
  ASSUME NEW k \in Int
  PROVE  ~(0 < Prefill * k /\ Prefill * k < Prefill)
<1>1. k > 0 => Prefill * k >= Prefill
  BY SoundEmitterAssumption, SMTT(30)
<1>2. k <= 0 => Prefill * k <= 0
  BY SoundEmitterAssumption, SMTT(30)
<1> QED
  BY <1>1, <1>2, SoundEmitterAssumption, SMT

\* A position is whole turns of the ring and its index.
LEMMA Turns ==
  ASSUME NEW n \in Int
  PROVE  /\ Slot(n) \in 0 .. Prefill - 1 /\ Slot(n) \in Int
         /\ \E k \in Int : n = (Prefill * k) + Slot(n)
<1>0. Prefill \in Nat /\ Prefill > 0
  BY SoundEmitterAssumption
<1>1. n = (Prefill * (n \div Prefill)) + (n % Prefill) /\ n \div Prefill \in Int
  BY <1>0, SMTT(30)
<1>2. n % Prefill \in 0 .. Prefill - 1
  BY <1>0, Z3
<1>3. n % Prefill \in Int
  BY <1>0, <1>2, SMT
<1> QED
  BY <1>1, <1>2, <1>3 DEF Slot

\* Positions whole turns apart have the same index.
LEMMA SlotRepeats ==
  ASSUME NEW a \in Int, NEW b \in Int, NEW k \in Int, a = b + (Prefill * k)
  PROVE  Slot(a) = Slot(b)
<1>0. Prefill \in Nat /\ Prefill > 0
  BY SoundEmitterAssumption
<1>1. PICK x \in Int : a = (Prefill * x) + Slot(a)
  BY Turns
<1>2. PICK y \in Int : b = (Prefill * y) + Slot(b)
  BY Turns
<1>3. Slot(a) \in 0 .. Prefill - 1 /\ Slot(b) \in 0 .. Prefill - 1
  BY Turns
<1>4. Prefill * (x - y - k) = Slot(b) - Slot(a)
  BY <1>0, <1>1, <1>2, <1>3, SMTT(30)
<1>5. Prefill * (y + k - x) = Slot(a) - Slot(b)
  BY <1>0, <1>1, <1>2, <1>3, SMTT(30)
<1>6. ~(0 < Prefill * (x - y - k) /\ Prefill * (x - y - k) < Prefill)
  BY NoMultiple
<1>7. ~(0 < Prefill * (y + k - x) /\ Prefill * (y + k - x) < Prefill)
  BY NoMultiple
<1> QED
  BY <1>0, <1>3, <1>4, <1>5, <1>6, <1>7

\* Two positions less than one turn apart have different indices.
LEMMA SlotsDiffer ==
  ASSUME NEW a \in Int, NEW b \in Int, a < b, b < a + Prefill
  PROVE  Slot(a) # Slot(b)
<1> SUFFICES ASSUME Slot(a) = Slot(b) PROVE FALSE
  OBVIOUS
<1>0. Prefill \in Nat /\ Prefill > 0
  BY SoundEmitterAssumption
<1>1. PICK x \in Int : a = (Prefill * x) + Slot(a)
  BY Turns
<1>2. PICK y \in Int : b = (Prefill * y) + Slot(b)
  BY Turns
<1>3. Slot(a) \in Int
  BY Turns
<1>4. Prefill * (y - x) = b - a
  BY <1>0, <1>1, <1>2, <1>3, SMTT(30)
<1> QED
  BY <1>0, <1>4, NoMultiple

\* An index moves on as its position does.
LEMMA SlotOfSlot ==
  ASSUME NEW a \in Int, NEW k \in Int
  PROVE  Slot(Slot(a) + k) = Slot(a + k)
<1>1. PICK x \in Int : a = (Prefill * x) + Slot(a)
  BY Turns
<1>2. Slot(a) \in Int
  BY Turns
<1>3. Prefill \in Int
  BY SoundEmitterAssumption
<1>4. a + k = (Slot(a) + k) + (Prefill * x) /\ Slot(a) + k \in Int /\ a + k \in Int
  BY <1>1, <1>2, <1>3, SMTT(30)
<1> QED
  BY <1>4, SlotRepeats

\* The first turn's positions are their indices.
LEMMA SlotSmall ==
  ASSUME NEW a \in 0 .. Prefill - 1
  PROVE  Slot(a) = a
<1> QED
  BY SoundEmitterAssumption DEF Slot

-----------------------------------------------------------------------------
(* The initial states, and the steps of the decoding tasks.                *)

\* No emitter lives and no call runs.
LEMMA InitIInv == Init => IInv
<1> SUFFICES ASSUME Init PROVE IInv
  OBVIOUS
<1> USE DEF Init
<1>1. Prefill \in Nat /\ Prefill > 0 /\ 0 \in 0 .. Prefill - 1 /\ 0 \in 0 .. Prefill
  BY SoundEmitterAssumption
<1>2. Unborn \in Emitter
  <2>1. [b \in 0 .. Prefill - 1 |-> Prefill] \in [0 .. Prefill - 1 -> 0 .. Prefill]
    BY <1>1
  <2> QED
    BY <1>1, <2>1 DEF Unborn, Emitter, States
<1>3. NoTask \in [pc : {"none", "queued", "loop", "done"}, next : 0 .. Prefill - 1]
  BY <1>1 DEF NoTask
<1>4. TypeOK
  BY <1>2, <1>3 DEF TypeOK, Held
<1>5. \A e \in Emitters : em[e] = Unborn /\ ~Decoding(e) /\ prefill_task[e] = "none" /\ task[e].pc = "none"
  BY DEF Decoding, NoTask
<1>6. \A op, e : ~In(op, e)
  BY DEF In
<1>7. \A e \in Emitters : em[e].state = "Unborn" /\ em[e].target = None /\ em[e].filled_blocks = 0
  BY <1>5 DEF Unborn
<1>8. WellFormed(prog) /\ Pointed /\ Quiet /\ Lives
  BY <1>5, <1>6, <1>7 DEF WellFormed, Pointed, Quiet, Lives, Playing, At
<1>9. Voices /\ Rendered
  BY <1>6, <1>7, SoundEmitterAssumption DEF Voices, Rendered, Playing, Plays
<1>10. Ring
  BY <1>5, <1>6, <1>7 DEF Ring, InOrder, Playing
<1>11. Enough
  BY DEF Enough, At
<1> QED
  BY <1>4, <1>8, <1>9, <1>10, <1>11 DEF IInv

-----------------------------------------------------------------------------
(* The decoding tasks.                                                     *)

\* What does not touch the call, the voices or the states keeps most.
LEMMA BackgroundKeeps ==
  ASSUME IInv, UNCHANGED <<tg, prog, phase, todo>>,
         \A e \in Emitters : em'[e].state = em[e].state /\ em'[e].target = em[e].target,
         \A e \in Emitters : Decoding(e)' => Decoding(e)
  PROVE  WellFormed(prog') /\ Quiet' /\ Lives' /\ Voices' /\ Rendered'
<1>1. WellFormed(prog) /\ Quiet /\ Lives /\ Voices /\ Rendered /\ TypeOK
  BY DEF IInv
<1>2. \A op, e : In(op, e)' <=> In(op, e)
  BY DEF In
<1>3. E' = E /\ (prog # <<>> => E \in Emitters)
  BY <1>1, HeadOfProg DEF E
<1>4. \A e \in Emitters : /\ Playing(e)' <=> Playing(e)
                          /\ Plays(e)' <=> Plays(e)
                          /\ Rendering(e)' <=> Rendering(e)
  BY DEF Playing, Plays, Rendering
<1>5. WellFormed(prog')
  BY <1>1
<1>6. Quiet'
  BY <1>1, <1>2, <1>3 DEF Quiet
<1>7. Lives'
  BY <1>1, <1>2, <1>4 DEF Lives
<1>8. Voices'
  BY <1>1, <1>2, <1>4 DEF Voices
<1>9. Rendered'
  <2>1. todo \in SUBSET Emitters
    BY <1>1 DEF TypeOK
  <2> QED
    BY <1>1, <1>2, <1>4, <2>1 DEF Rendered
<1> QED
  BY <1>5, <1>6, <1>7, <1>8, <1>9

\* The fields of an emitter and of its task.
LEMMA Fields ==
  ASSUME TypeOK, NEW e \in Emitters
  PROVE  /\ Prefill \in Nat /\ Prefill > 0 /\ Submit \in Nat /\ Submit > 0 /\ Prefill >= Submit
         /\ em[e] \in Emitter /\ em[e].state \in States /\ em[e].target \in Targets \cup {None}
         /\ em[e].bRewind \in BOOLEAN /\ em[e].bStopping \in BOOLEAN
         /\ em[e].current_block \in 0 .. Prefill - 1 /\ em[e].filled_blocks \in 0 .. Prefill
         /\ em[e].temp_buf \in [0 .. Prefill - 1 -> 0 .. Prefill]
         /\ task[e].pc \in {"none", "queued", "loop", "done"} /\ task[e].next \in 0 .. Prefill - 1
         /\ task[e] \in [pc : {"none", "queued", "loop", "done"}, next : 0 .. Prefill - 1]
         /\ prefill_task[e] \in Held
<1>1. Prefill \in Nat /\ Prefill > 0 /\ Submit \in Nat /\ Submit > 0 /\ Prefill >= Submit
  BY SoundEmitterAssumption
<1>2. em[e] \in Emitter
  BY DEF TypeOK
<1>3. task[e] \in [pc : {"none", "queued", "loop", "done"}, next : 0 .. Prefill - 1]
  BY DEF TypeOK
<1>4. prefill_task[e] \in Held
  BY DEF TypeOK
<1> QED
  BY <1>1, <1>2, <1>3, <1>4 DEF Emitter

\* The steps of a call are steps.
LEMMA Entries ==
  ASSUME TypeOK
  PROVE  /\ DOMAIN prog = 1 .. Len(prog) /\ Len(prog) \in Nat
         /\ \A k \in DOMAIN prog : prog[k] \in Step /\ prog[k].e \in Emitters /\ prog[k].op \in Ops
<1>1. prog \in Seq(Step)
  BY DEF TypeOK, Step
<1>2. \A k \in DOMAIN prog : prog[k] \in Step
  BY <1>1
<1> QED
  BY <1>1, <1>2 DEF Step

\* A task begins where the ring ends: its next block is the first free one.
LEMMA TaskBeginsIInv ==
  ASSUME IInv, NEW e \in Emitters, TaskBegins(e)
  PROVE  IInv'
<1> USE DEF TaskBegins, TaskStep
<1>1. TypeOK /\ Pointed /\ Ring /\ Enough
  BY DEF IInv
<1>2. /\ task[e].pc = "queued" /\ UNCHANGED <<em, tg, prog, phase, todo, prefill_task>>
      /\ task' = [task EXCEPT ![e] = [task[e] EXCEPT !.pc = "loop",
                                !.next = Slot(em[e].current_block + em[e].filled_blocks)]]
  OBVIOUS
<1>3. em[e].current_block + em[e].filled_blocks \in Int
  BY <1>1, Fields
<1>4. Slot(em[e].current_block + em[e].filled_blocks) \in 0 .. Prefill - 1
  BY <1>3, Turns
<1> DEFINE r == [task[e] EXCEPT !.pc = "loop", !.next = Slot(em[e].current_block + em[e].filled_blocks)]
<1>5. r \in [pc : {"none", "queued", "loop", "done"}, next : 0 .. Prefill - 1]
  BY <1>1, <1>4, Fields
<1>6. /\ r.pc = "loop" /\ r.next = Slot(em[e].current_block + em[e].filled_blocks)
  BY <1>1, Fields
<1> HIDE DEF r
<1>7. task' = [task EXCEPT ![e] = r]
  BY <1>2 DEF r
<1>8. task'[e] = r /\ \A x \in Emitters : x # e => task'[x] = task[x]
  BY <1>1, <1>7 DEF TypeOK
<1>9. TypeOK'
  BY <1>1, <1>2, <1>5, <1>7 DEF TypeOK
<1>10. \A x \in Emitters : Decoding(x)' <=> Decoding(x)
  BY <1>2, <1>6, <1>8 DEF Decoding
<1>11. WellFormed(prog') /\ Quiet' /\ Lives' /\ Voices' /\ Rendered'
  BY <1>2, <1>10, BackgroundKeeps
<1>12. Pointed'
  BY <1>1, <1>2, <1>10 DEF Pointed, At, E
<1>13. Ring'
  <2>1. \A op, x : In(op, x)' <=> In(op, x)
    BY <1>2 DEF In
  <2>2. \A x \in Emitters : /\ InOrder(x)' /\ (Playing(x)' <=> Playing(x)) /\ (Full(x)' <=> Full(x))
    BY <1>1, <1>2 DEF Ring, InOrder, Playing, Full
  <2>3. \A x \in Emitters : task'[x].pc = "loop" =>
           task'[x].next = Slot(em'[x].current_block + em'[x].filled_blocks)
    BY <1>1, <1>2, <1>6, <1>8 DEF Ring
  <2> QED
    BY <1>1, <1>10, <2>1, <2>2, <2>3 DEF Ring
<1>14. Enough'
  <2>1. \A k \in DOMAIN prog : Stocked(k)' <=> Stocked(k)
    BY <1>1, <1>2, <1>10, Entries DEF Stocked, At
  <2>2. Full(E)' <=> Full(E)
    BY <1>2 DEF Full, E
  <2> QED
    BY <1>1, <1>2, <2>1, <2>2 DEF Enough, At
<1> QED
  BY <1>9, <1>11, <1>12, <1>13, <1>14 DEF IInv

\* A decoded block comes after those of the ring, which stay in order.
LEMMA DecodeIInv ==
  ASSUME IInv, NEW e \in Emitters, Decode(e)
  PROVE  IInv'
<1>1. TypeOK /\ Pointed /\ Ring /\ Enough
  BY DEF IInv
<1> DEFINE f == em[e].filled_blocks
           c == em[e].current_block
           n == task[e].next
           buf == [b \in 0 .. Prefill - 1 |->
                     IF b = n THEN 0
                     ELSE IF em[e].temp_buf[b] = Prefill THEN Prefill ELSE em[e].temp_buf[b] + 1]
           r == [em[e] EXCEPT !.filled_blocks = f + 1, !.temp_buf = buf]
           t == [task[e] EXCEPT !.next = Slot(n + 1)]
<1>2. /\ Prefill \in Nat /\ Prefill > 0 /\ f \in 0 .. Prefill /\ c \in 0 .. Prefill - 1
      /\ n \in 0 .. Prefill - 1 /\ em[e].temp_buf \in [0 .. Prefill - 1 -> 0 .. Prefill]
      /\ em[e] \in Emitter /\ task[e].pc = "loop" /\ f < Prefill
      /\ task[e] \in [pc : {"none", "queued", "loop", "done"}, next : 0 .. Prefill - 1]
      /\ em[e].filled_blocks = f /\ em[e].current_block = c
  BY <1>1, Fields DEF Decode
<1>3. em' = [em EXCEPT ![e] = r] /\ task' = [task EXCEPT ![e] = t]
  <2>1. DOMAIN em[e].temp_buf = 0 .. Prefill - 1
    BY <1>2
  <2>2. em' = [em EXCEPT ![e].filled_blocks = @ + 1,
                ![e].temp_buf = [b \in DOMAIN @ |->
                   IF b = n THEN 0 ELSE IF @[b] = Prefill THEN Prefill ELSE @[b] + 1]]
    BY DEF Decode
  <2> QED
    BY <2>1, <2>2 DEF Decode, TaskStep
<1> HIDE DEF f, c, n
<1>0. /\ f \in Int /\ f >= 0 /\ f < Prefill /\ c \in Int /\ c >= 0 /\ c < Prefill /\ n \in Int
      /\ Prefill \in Int
  BY <1>2
<1>4. UNCHANGED <<tg, prog, phase, todo, prefill_task>>
  BY DEF Decode, TaskStep
<1>5. Slot(n + 1) \in 0 .. Prefill - 1
  <2>1. n + 1 \in Int
    BY <1>2
  <2> QED
    BY <2>1, Turns
<1>6. /\ t \in [pc : {"none", "queued", "loop", "done"}, next : 0 .. Prefill - 1]
      /\ t.pc = "loop" /\ t.next = Slot(n + 1)
  BY <1>2, <1>5
<1>7. buf \in [0 .. Prefill - 1 -> 0 .. Prefill]
  <2>1. \A b \in 0 .. Prefill - 1 : em[e].temp_buf[b] \in 0 .. Prefill
    BY <1>2
  <2>2. ASSUME NEW m \in 0 .. Prefill
        PROVE  (IF m = Prefill THEN Prefill ELSE m + 1) \in 0 .. Prefill /\ 0 \in 0 .. Prefill
    BY <1>0
  <2> QED
    BY <2>1, <2>2
<1>8. \A b \in 0 .. Prefill - 1 :
         /\ b = n => buf[b] = 0
         /\ b # n /\ em[e].temp_buf[b] # Prefill => buf[b] = em[e].temp_buf[b] + 1
  OBVIOUS
<1> HIDE DEF buf, t
<1>9. /\ r \in Emitter /\ r.state = em[e].state /\ r.target = em[e].target
      /\ r.filled_blocks = f + 1 /\ r.current_block = c /\ r.temp_buf = buf
  <2>1. f + 1 \in 0 .. Prefill
    BY <1>0
  <2> QED
    BY <1>2, <1>7, <2>1 DEF Emitter
<1> HIDE DEF r
<1>10. /\ em'[e] = r /\ \A x \in Emitters : x # e => em'[x] = em[x]
       /\ task'[e] = t /\ \A x \in Emitters : x # e => task'[x] = task[x]
  BY <1>1, <1>3 DEF TypeOK
<1>11. TypeOK'
  BY <1>1, <1>3, <1>4, <1>6, <1>9 DEF TypeOK
<1>12. \A x \in Emitters : Decoding(x)' <=> Decoding(x)
  BY <1>2, <1>6, <1>10 DEF Decoding
<1>13. \A x \in Emitters : em'[x].state = em[x].state /\ em'[x].target = em[x].target
  BY <1>9, <1>10
<1>14. WellFormed(prog') /\ Quiet' /\ Lives' /\ Voices' /\ Rendered'
  BY <1>4, <1>12, <1>13, BackgroundKeeps
<1>15. Pointed'
  BY <1>1, <1>4, <1>12 DEF Pointed, At, E
<1>16. Decoding(e) /\ n = Slot(c + f)
  BY <1>1, <1>2 DEF Decoding, Ring, n
<1>17. InOrder(e)'
  <2>1. ASSUME NEW k \in 0 .. f PROVE buf[Slot(c + k)] = f - k
    <3>1. c + k \in Int /\ c + f \in Int /\ Slot(c + k) \in 0 .. Prefill - 1
      <4>1. c + k \in Int /\ c + f \in Int
        BY <1>0
      <4> QED
        BY <4>1, Turns
    <3>2. CASE k = f
      BY <1>0, <1>8, <1>16, <3>1, <3>2
    <3>3. CASE k < f
      <4>1. Slot(c + k) # n
        <5>1. c + k < c + f /\ c + f < (c + k) + Prefill
          BY <1>0, <3>3
        <5> QED
          BY <1>16, <3>1, <5>1, SlotsDiffer
      <4>2. em[e].temp_buf[Slot(c + k)] = f - 1 - k
        <5>1. k \in 0 .. f - 1
          BY <1>0, <3>3
        <5> QED
          BY <1>1, <1>2, <5>1 DEF Ring, InOrder
      <4>3. f - 1 - k # Prefill /\ (f - 1 - k) + 1 = f - k
        BY <1>0, <3>3
      <4> QED
        BY <1>8, <3>1, <4>1, <4>2, <4>3
    <3> QED
      BY <1>0, <3>2, <3>3
  <2>2. ASSUME NEW k \in 0 .. (f + 1) - 1 PROVE r.temp_buf[Slot(r.current_block + k)] = r.filled_blocks - 1 - k
    <3>1. k \in 0 .. f /\ (f + 1) - 1 - k = f - k
      BY <1>0
    <3> QED
      BY <1>9, <2>1, <3>1
  <2> QED
    BY <1>9, <1>10, <2>2 DEF InOrder
<1>18. t.next = Slot(r.current_block + r.filled_blocks)
  <2>1. c + f \in Int /\ 1 \in Int /\ (c + f) + 1 = c + (f + 1)
    BY <1>0
  <2>2. Slot(Slot(c + f) + 1) = Slot((c + f) + 1)
    BY <2>1, SlotOfSlot
  <2> QED
    BY <1>6, <1>9, <1>16, <2>1, <2>2
<1>19. Ring'
  <2>1. \A op, x : In(op, x)' <=> In(op, x)
    BY <1>4 DEF In
  <2>2. ASSUME NEW x \in Emitters, x # e
        PROVE  /\ InOrder(x)' /\ (Playing(x)' <=> Playing(x)) /\ (Full(x)' <=> Full(x))
               /\ task'[x].pc = "loop" => task'[x].next = Slot(em'[x].current_block + em'[x].filled_blocks)
    BY <1>1, <1>10, <2>2 DEF Ring, InOrder, Playing, Full
  <2>3. \A x \in Emitters : In("take", x) \/ In("fill_all", x) \/ In("rewind_target", x) => In("add", x)
    BY <1>1 DEF Ring
  <2>4. \A x \in Emitters : Playing(x) => Decoding(x) \/ Full(x) \/ In("add", x)
    BY <1>1 DEF Ring
  <2> QED
    BY <1>10, <1>12, <1>16, <1>17, <1>18, <2>1, <2>2, <2>3, <2>4 DEF Ring
<1>20. Enough'
  <2>1. ASSUME NEW k \in DOMAIN prog, prog[k].op = "take" PROVE Stocked(k)'
    <3>1. prog[k].e \in Emitters
      BY <1>1, Entries
    <3>2. Stocked(k)
      BY <1>1, <2>1 DEF Enough
    <3> QED
      BY <1>4, <1>10, <1>12, <1>16, <3>1, <3>2 DEF Stocked, At
  <2>2. At("rewind_target") => E \in Emitters /\ E # e
    <3>1. At("rewind_target") => E \in Emitters /\ ~Decoding(E)
      BY <1>1, HeadOfProg DEF IInv, Quiet, At
    <3> QED
      BY <1>16, <3>1
  <2> QED
    BY <1>1, <1>4, <1>10, <2>1, <2>2 DEF Enough, At, Full, E
<1> QED
  BY <1>11, <1>14, <1>15, <1>19, <1>20 DEF IInv

\* The task is done when the ring is full, and clears the pointer.
LEMMA TaskClearsIInv ==
  ASSUME IInv, NEW e \in Emitters, TaskClears(e)
  PROVE  IInv'
<1>1. TypeOK /\ Pointed /\ Ring /\ Enough
  BY DEF IInv
<1> DEFINE t == [task[e] EXCEPT !.pc = "done"]
<1>2. /\ task[e].pc = "loop" /\ em[e].filled_blocks >= Prefill
      /\ UNCHANGED <<em, tg, prog, phase, todo>>
      /\ prefill_task' = [prefill_task EXCEPT ![e] = "none"]
      /\ task' = [task EXCEPT ![e] = t]
  BY DEF TaskClears, TaskStep
<1>3. /\ t \in [pc : {"none", "queued", "loop", "done"}, next : 0 .. Prefill - 1]
      /\ t.pc = "done" /\ t.next = task[e].next
  BY <1>1, Fields
<1> HIDE DEF t
<1>4. /\ task'[e] = t /\ \A x \in Emitters : x # e => task'[x] = task[x]
      /\ \A x \in Emitters : x # e => prefill_task'[x] = prefill_task[x]
  BY <1>1, <1>2 DEF TypeOK
<1>5. TypeOK'
  BY <1>1, <1>2, <1>3 DEF TypeOK, Held
<1>6. /\ Decoding(e) /\ ~Decoding(e)'
      /\ \A x \in Emitters : x # e => (Decoding(x)' <=> Decoding(x))
  BY <1>2, <1>3, <1>4 DEF Decoding
<1>7. WellFormed(prog') /\ Quiet' /\ Lives' /\ Voices' /\ Rendered'
  BY <1>2, <1>6, BackgroundKeeps
<1>8. Pointed'
  BY <1>1, <1>2, <1>4, <1>6 DEF Pointed, At, E
<1>9. em[e].filled_blocks = Prefill /\ Prefill \in Nat /\ Submit \in Nat /\ Submit <= Prefill
  BY <1>1, <1>2, Fields
<1>10. Full(e)'
  BY <1>2, <1>9 DEF Full
<1>11. Ring'
  <2>1. \A op, x : In(op, x)' <=> In(op, x)
    BY <1>2 DEF In
  <2>2. \A x \in Emitters : InOrder(x)' /\ (Playing(x)' <=> Playing(x)) /\ (Full(x)' <=> Full(x))
    BY <1>1, <1>2 DEF Ring, InOrder, Playing, Full
  <2>3. \A x \in Emitters : task'[x].pc = "loop" =>
           task'[x].next = Slot(em'[x].current_block + em'[x].filled_blocks)
    BY <1>1, <1>2, <1>3, <1>4 DEF Ring
  <2> QED
    BY <1>1, <1>6, <1>10, <2>1, <2>2, <2>3 DEF Ring
<1>12. Enough'
  <2>1. ASSUME NEW k \in DOMAIN prog, prog[k].op = "take" PROVE Stocked(k)'
    <3>1. prog[k].e \in Emitters /\ k \in Nat
      BY <1>1, Entries
    <3>2. Stocked(k)
      BY <1>1, <2>1 DEF Enough
    <3>3. CASE prog[k].e = e
      <4>1. k <= 2 * Submit /\ ~At("take")
        BY <1>6, <3>2, <3>3 DEF Stocked
      <4>2. k <= 2 * Prefill
        BY <1>9, <3>1, <4>1
      <4> QED
        BY <1>2, <1>6, <1>9, <3>3, <4>1, <4>2 DEF Stocked, At
    <3>4. CASE prog[k].e # e
      BY <1>2, <1>6, <3>1, <3>2, <3>4 DEF Stocked, At
    <3> QED
      BY <3>3, <3>4
  <2> QED
    BY <1>1, <1>2, <2>1 DEF Enough, At, Full, E
<1> QED
  BY <1>5, <1>7, <1>8, <1>11, <1>12 DEF IInv

\* The rest of the background: the task ends, its slot is reused.
LEMMA SlotStepIInv ==
  ASSUME IInv, NEW e \in Emitters, TaskEnds(e) \/ Reuse(e) \/ ForeignEnds(e)
  PROVE  IInv'
<1>1. TypeOK /\ Pointed /\ Ring /\ Enough
  BY DEF IInv
<1>2. /\ UNCHANGED <<em, tg, prog, phase, todo>>
      /\ \/ task' = task
         \/ task[e].pc = "done" /\ task' = [task EXCEPT ![e] = NoTask] /\ prefill_task' = prefill_task
      /\ \/ prefill_task' = prefill_task
         \/ \E p \in {"foreign", "buried", "none"} :
                /\ prefill_task' = [prefill_task EXCEPT ![e] = p]
                /\ task[e].pc = "none" \/ prefill_task[e] # "own"
  BY DEF TaskEnds, Reuse, ForeignEnds, TaskStep
<1>3. /\ NoTask \in [pc : {"none", "queued", "loop", "done"}, next : 0 .. Prefill - 1]
      /\ NoTask.pc = "none"
  BY <1>1, Fields DEF NoTask
<1>4. TypeOK'
  BY <1>1, <1>2, <1>3 DEF TypeOK, Held
<1>5. \A x \in Emitters : (Decoding(x)' <=> Decoding(x)) /\ (task'[x].pc = "loop" => task'[x] = task[x])
  BY <1>1, <1>2, <1>3 DEF Decoding, TypeOK
<1>6. WellFormed(prog') /\ Quiet' /\ Lives' /\ Voices' /\ Rendered'
  BY <1>2, <1>5, BackgroundKeeps
<1>7. Pointed'
  <2>1. ASSUME NEW x \in Emitters, Decoding(x)
        PROVE  prefill_task'[x] = "own" \/ (At("store") /\ E = x)
    <3>1. prefill_task[x] = "own" \/ (At("store") /\ E = x)
      BY <1>1, <2>1 DEF Pointed
    <3>2. prefill_task'[x] = prefill_task[x] \/ (x = e /\ (task[e].pc = "none" \/ prefill_task[e] # "own"))
      BY <1>1, <1>2 DEF TypeOK
    <3>3. task[x].pc # "none"
      BY <2>1 DEF Decoding
    <3> QED
      BY <3>1, <3>2, <3>3
  <2> QED
    BY <1>2, <1>5, <2>1 DEF Pointed, At, E
<1>8. Ring'
  <2>1. \A op, x : In(op, x)' <=> In(op, x)
    BY <1>2 DEF In
  <2>2. \A x \in Emitters : InOrder(x)' /\ (Playing(x)' <=> Playing(x)) /\ (Full(x)' <=> Full(x))
    BY <1>1, <1>2 DEF Ring, InOrder, Playing, Full
  <2>3. \A x \in Emitters : task'[x].pc = "loop" =>
           task'[x].next = Slot(em'[x].current_block + em'[x].filled_blocks)
    BY <1>1, <1>2, <1>5 DEF Ring
  <2> QED
    BY <1>1, <1>5, <2>1, <2>2, <2>3 DEF Ring
<1>9. Enough'
  <2>1. \A k \in DOMAIN prog : Stocked(k)' <=> Stocked(k)
    BY <1>1, <1>2, <1>5, Entries DEF Stocked, At
  <2>2. Full(E)' <=> Full(E)
    BY <1>2 DEF Full, E
  <2> QED
    BY <1>1, <1>2, <2>1, <2>2 DEF Enough, At
<1> QED
  BY <1>4, <1>6, <1>7, <1>8, <1>9 DEF IInv

-----------------------------------------------------------------------------
(* How a call goes on: the parts of the invariant, for most of its steps.  *)

\* A step that is done and leaves the rest of the call.
LEMMA PopFacts ==
  ASSUME TypeOK, WellFormed(prog), prog # <<>>, prog' = Do(<<>>, E) \o Tail(prog)
  PROVE  /\ prog' \in Seq(Step) /\ WellFormed(prog')
         /\ \A op, e : In(op, e)' <=> Later(op, e)
         /\ \A k \in DOMAIN prog' : k + 1 \in DOMAIN prog /\ prog'[k] = prog[k + 1]
         /\ prog' # <<>> => Head(prog') \in Step /\ Follows(Head(prog), Head(prog'))
<1>1. ListOf(<<>>, 0, {})
  BY Lists
<1>2. /\ <<>> \in Seq(Ops) /\ Len(<<>>) = 0 /\ OpsFit(<<>>) /\ \A op : ~Has(<<>>, op)
  BY <1>1 DEF ListOf
<1>3. /\ prog' \in Seq(Step)
      /\ \A op, e : In(op, e)' <=> Later(op, e)
      /\ \A k \in DOMAIN prog' :
            \/ k \in 1 .. 0
            \/ k > 0 /\ k - 0 + 1 \in DOMAIN prog /\ prog'[k] = prog[k - 0 + 1]
  BY <1>2, StepOn
<1>4. ASSUME NEW k \in DOMAIN prog' PROVE k + 1 \in DOMAIN prog /\ prog'[k] = prog[k + 1] /\ k \in Nat
  <2>1. k \in Nat
    BY <1>3
  <2>2. k - 0 + 1 = k + 1 /\ ~(k \in 1 .. 0)
    BY <2>1
  <2> QED
    BY <1>3, <2>1, <2>2
<1>5. WellFormed(prog')
  <2>1. \A j \in 1 .. Len(<<>>) : \A op, e :
           Later(op, e) => Before([op |-> <<>>[j], e |-> E], [op |-> op, e |-> e])
    BY <1>2
  <2>2. Len(<<>>) > 0 /\ Len(prog) > 1 => Follows([op |-> <<>>[Len(<<>>)], e |-> E], prog[2])
    BY <1>2
  <2> QED
    BY <1>2, <2>1, <2>2, StepFits
<1>6. ASSUME prog' # <<>> PROVE Head(prog') \in Step /\ Follows(Head(prog), Head(prog'))
  <2>1. Len(prog') \in Nat /\ Len(prog') > 0 /\ DOMAIN (prog') = 1 .. Len(prog')
    BY <1>3, <1>6, EmptySeq
  <2>2. 1 \in DOMAIN prog' /\ Head(prog') = prog'[1] /\ prog'[1] \in Step
    BY <1>3, <2>1
  <2>3. 1 + 1 \in DOMAIN prog /\ prog'[1] = prog[1 + 1]
    BY <1>4, <2>2
  <2>4. 1 \in DOMAIN prog /\ Head(prog) = prog[1]
    BY HeadOfProg
  <2> QED
    BY <2>2, <2>3, <2>4 DEF WellFormed
<1> QED
  BY <1>3, <1>4, <1>5, <1>6

\* N are the operations that come first, of the emitter at hand.
GoesOn(N) ==
    /\ \A op, e : In(op, e)' => Later(op, e) \/ (E = e /\ op \in N)
    /\ \A op, e : Later(op, e) /\ op # "store" => In(op, e)'
    /\ \A op \in N, e \in Emitters : E = e => In(op, e)'

\* The states and the voices.
LEMMA LivesGoOn ==
  ASSUME IInv, prog # <<>>, NEW N, GoesOn(N), UNCHANGED <<tg, phase, todo>>,
         \A e \in Emitters : em'[e].target = em[e].target,
         \A e \in Emitters : Playing(e)' <=> Playing(e),
         \A e \in Emitters : In("delete", e)' => em'[e].state = "Stopped",
         \A e \in Emitters : Decoding(e)' => Decoding(e) \/ Playing(e),
         Head(prog).op \notin {"release", "simulate", "stopped", "i_start", "delete", "render"},
         N \cap {"i_start", "fsm", "fill_all", "rewind_target", "render"} = {},
         "add" \in N => Playing(E),
         "release" \in N => "simulate" \in N \/ "stopped" \in N,
         Plays(E) /\ ("simulate" \in N \/ "stopped" \in N) => "release" \in N,
         phase = "render" => N \subseteq {"wait", "take", "add", "store"}
  PROVE  Lives' /\ Voices' /\ Rendered'
<1>1. TypeOK /\ WellFormed(prog) /\ Lives /\ Voices /\ Rendered
  BY DEF IInv
<1>2. E \in Emitters /\ Head(prog).op \in Ops
  BY <1>1, HeadOfProg
<1>3. \A op, e : In(op, e) <=> (Head(prog).op = op /\ E = e) \/ Later(op, e)
  BY <1>1, AfterHead
<1>4. \A e \in Emitters : (Plays(e)' <=> Plays(e)) /\ (Rendering(e)' <=> Rendering(e))
  BY DEF Plays, Rendering
<1>5. \A op, e : In(op, e)' => In(op, e) \/ (E = e /\ op \in N)
  BY <1>3 DEF GoesOn
<1>6. \A op, e : In(op, e) /\ op # "store" => In(op, e)' \/ (Head(prog).op = op /\ E = e)
  BY <1>3 DEF GoesOn
<1>7. \A op \in N, e \in Emitters : E = e => In(op, e)'
  BY DEF GoesOn
<1>8. Lives'
  <2>1. \A e \in Emitters : Decoding(e)' \/ In("add", e)' => Playing(e)'
    BY <1>1, <1>5 DEF Lives
  <2>2. \A e \in Emitters : In("i_start", e)' => Playing(e)' /\ ~Plays(e)'
    BY <1>1, <1>4, <1>5 DEF Lives
  <2>3. \A e \in Emitters : In("i_start", e)' \/ In("fsm", e)' => phase' = "update" /\ e \notin todo'
    BY <1>1, <1>5 DEF Lives
  <2> QED
    BY <2>1, <2>2, <2>3 DEF Lives
<1>9. Voices'
  <2>1. \A e \in Emitters, t \in Targets : em'[e].target = t <=> tg'[t].emitter = e
    BY <1>1 DEF Voices
  <2>2. ASSUME NEW e \in Emitters PROVE Plays(e)' => Playing(e)'
    BY <1>1, <1>4 DEF Voices
  <2>3. ASSUME NEW e \in Emitters, Playing(e)', ~Plays(e)'
        PROVE  In("i_start", e)' \/ In("simulate", e)' \/ In("stopped", e)'
    <3>1. In("i_start", e) \/ In("simulate", e) \/ In("stopped", e)
      BY <1>1, <1>4, <2>3 DEF Voices
    <3> QED
      BY <1>6, <3>1
  <2>4. ASSUME NEW e \in Emitters, In("release", e)' PROVE In("simulate", e)' \/ In("stopped", e)'
    <3>1. CASE In("release", e)
      <4>1. In("simulate", e) \/ In("stopped", e)
        BY <1>1, <3>1 DEF Voices
      <4> QED
        BY <1>6, <4>1
    <3>2. CASE E = e /\ "release" \in N
      BY <1>7, <3>2
    <3> QED
      BY <1>5, <2>4, <3>1, <3>2
  <2>5. ASSUME NEW e \in Emitters, Plays(e)', In("simulate", e)' \/ In("stopped", e)'
        PROVE  In("release", e)'
    <3>1. CASE In("simulate", e) \/ In("stopped", e)
      <4>1. In("release", e)
        BY <1>1, <1>4, <2>5, <3>1 DEF Voices
      <4> QED
        BY <1>6, <4>1
    <3>2. CASE E = e /\ ("simulate" \in N \/ "stopped" \in N)
      BY <1>4, <1>7, <2>5, <3>2
    <3> QED
      BY <1>5, <2>5, <3>1, <3>2
  <2> QED
    BY <2>1, <2>2, <2>3, <2>4, <2>5 DEF Voices
<1>10. Rendered'
  <2>0. todo \subseteq Emitters
    BY <1>1 DEF TypeOK
  <2>1. ASSUME NEW e \in Emitters, In("fill_all", e)' \/ In("rewind_target", e)'
        PROVE  Plays(e)' /\ Rendering(e)'
    BY <1>1, <1>4, <1>5, <2>1 DEF Rendered
  <2>2. ASSUME NEW e \in Emitters, In("render", e)' PROVE Plays(e)' /\ phase' = "render"
    BY <1>1, <1>4, <1>5, <2>2 DEF Rendered
  <2>3. /\ phase' = "game" => \A e \in Emitters : Plays(e)' => Rendering(e)'
        /\ phase' = "update" => \A e \in todo' : Plays(e)' => Rendering(e)'
        /\ phase' = "render" => \A e \in todo' : Plays(e)'
    BY <1>1, <1>4, <2>0 DEF Rendered
  <2>4. ASSUME phase' = "render", NEW e \in Emitters, Plays(e)'
        PROVE  e \in todo' \/ Rendering(e)' \/ In("render", e)'
    BY <1>1, <1>4, <1>6, <2>4 DEF Rendered
  <2>5. ASSUME phase' = "render", NEW op \in Ops, NEW e \in Emitters, In(op, e)'
        PROVE  op \in {"render", "wait", "take", "add", "store"}
    BY <1>1, <1>5, <2>5 DEF Rendered
  <2> QED
    BY <2>1, <2>2, <2>3, <2>4, <2>5 DEF Rendered
<1> QED
  BY <1>8, <1>9, <1>10

\* The pointers.
LEMMA PointedGoesOn ==
  ASSUME IInv, ~At("store"), \A e \in Emitters : Decoding(e)' => Decoding(e),
         UNCHANGED prefill_task
  PROVE  Pointed'
<1>1. Pointed
  BY DEF IInv
<1> QED
  BY <1>1 DEF Pointed

\* The waits, when a step is done.
LEMMA QuietPops ==
  ASSUME IInv, prog # <<>>, prog' = Do(<<>>, E) \o Tail(prog),
         \A e \in Emitters : Decoding(e)' => Decoding(e),
         Head(prog).op = "wait" => ~Decoding(E)
  PROVE  Quiet'
<1>1. TypeOK /\ WellFormed(prog) /\ Quiet
  BY DEF IInv
<1>2. /\ \A op, e : In(op, e)' <=> Later(op, e)
      /\ prog' # <<>> => Head(prog') \in Step /\ Follows(Head(prog), Head(prog'))
  BY <1>1, PopFacts
<1>3. \A op, e : In(op, e) <=> (Head(prog).op = op /\ E = e) \/ Later(op, e)
  BY <1>1, AfterHead
<1>4. \A e \in Emitters : In("i_start", e)' => ~Decoding(e)'
  BY <1>1, <1>2, <1>3 DEF Quiet
<1>5. ASSUME prog' # <<>>,
             Head(prog').op \in {"add", "set_cursor", "fill_all", "rewind_target", "take",
                                 "release", "simulate", "stopped", "delete"}
      PROVE  ~Decoding(E)'
  <2>1. Head(prog).e = Head(prog').e /\ NextOp(Head(prog).op, Head(prog').op)
    BY <1>2, <1>5 DEF Follows
  <2>2. Head(prog).op \in {"wait", "set_cursor", "fill_all", "release"}
    BY <1>5, <2>1 DEF NextOp
  <2>3. ~Decoding(E) /\ E \in Emitters
    BY <1>1, <2>2, HeadOfProg DEF Quiet
  <2>4. E' = E
    BY <2>1 DEF E
  <2>5. PICK e \in Emitters : e = E
    BY <2>3
  <2>6. ~Decoding(e)'
    BY <2>3, <2>5
  <2> QED
    BY <2>4, <2>5, <2>6 DEF Decoding
<1> QED
  BY <1>4, <1>5 DEF Quiet

\* The waits, when other operations come first.
LEMMA QuietPushes ==
  ASSUME IInv, prog # <<>>, NEW ops \in Seq(Ops), Len(ops) > 0, prog' = Do(ops, E) \o Tail(prog),
         \A e \in Emitters : Decoding(e)' => Decoding(e),
         ops[1] = "wait" \/ ~Decoding(E),
         Has(ops, "i_start") => ~Decoding(E)
  PROVE  Quiet'
<1>1. TypeOK /\ WellFormed(prog) /\ Quiet
  BY DEF IInv
<1>2. /\ \A op, e : In(op, e)' <=> (E = e /\ Has(ops, op)) \/ Later(op, e)
      /\ Head(prog') = [op |-> ops[1], e |-> E]
  BY <1>1, StepOn
<1>3. \A op, e : In(op, e) <=> (Head(prog).op = op /\ E = e) \/ Later(op, e)
  BY <1>1, AfterHead
<1>4. \A e \in Emitters : In("i_start", e)' => ~Decoding(e)'
  BY <1>1, <1>2, <1>3 DEF Quiet
<1>5. E' = E /\ Head(prog').op = ops[1] /\ E \in Emitters
  <2>1. E \in Emitters
    BY <1>1, HeadOfProg
  <2>2. Head(prog').e = E /\ Head(prog').op = ops[1]
    <3>1. PICK h : h = [op |-> ops[1], e |-> E]
      OBVIOUS
    <3>2. Head(prog') = h
      BY <1>2, <3>1
    <3>3. h.e = E /\ h.op = ops[1]
      BY <3>1
    <3> QED
      BY <3>2, <3>3, Zenon
  <2>3. E' = Head(prog').e
    BY DEF E
  <2> QED
    BY <2>1, <2>2, <2>3
<1>6. PICK e \in Emitters : e = E
  BY <1>5
<1>7. Decoding(E)' => Decoding(e)'
  BY <1>5, <1>6 DEF Decoding
<1>8. Decoding(E)' => ops[1] = "wait"
  BY <1>6, <1>7
<1> QED
  BY <1>4, <1>5, <1>8 DEF Quiet

\* The rings, when no block is decoded or taken.
LEMMA RingGoesOn ==
  ASSUME IInv, prog # <<>>, NEW N, GoesOn(N), UNCHANGED task, Head(prog).op # "add",
         \A e \in Emitters : /\ em'[e].filled_blocks = em[e].filled_blocks
                             /\ em'[e].current_block = em[e].current_block
                             /\ em'[e].temp_buf = em[e].temp_buf,
         \A e \in Emitters : Playing(e)' => Playing(e) \/ (E = e /\ "add" \in N),
         "take" \in N \/ "fill_all" \in N \/ "rewind_target" \in N =>
            "add" \in N \/ Head(prog).op = "rewind_target"
  PROVE  Ring'
<1>1. TypeOK /\ WellFormed(prog) /\ Ring
  BY DEF IInv
<1>2. \A op, e : In(op, e) <=> (Head(prog).op = op /\ E = e) \/ Later(op, e)
  BY <1>1, AfterHead
<1>3. \A op, e : In(op, e)' => In(op, e) \/ (E = e /\ op \in N)
  BY <1>2 DEF GoesOn
<1>4. \A e \in Emitters : In("add", e) => In("add", e)'
  BY <1>2 DEF GoesOn
<1>5. \A op \in N, e \in Emitters : E = e => In(op, e)'
  BY DEF GoesOn
<1>6. \A e \in Emitters :
         /\ InOrder(e)' /\ (Full(e)' <=> Full(e)) /\ (Decoding(e)' <=> Decoding(e))
         /\ task'[e].pc = "loop" => task'[e].next = Slot(em'[e].current_block + em'[e].filled_blocks)
  BY <1>1 DEF Ring, InOrder, Full, Decoding
<1>7. \A e \in Emitters : Playing(e)' => Decoding(e)' \/ Full(e)' \/ In("add", e)'
  BY <1>1, <1>4, <1>5, <1>6 DEF Ring
<1>8. ASSUME NEW e \in Emitters, In("take", e)' \/ In("fill_all", e)' \/ In("rewind_target", e)'
      PROVE  In("add", e)'
  <2>1. CASE In("take", e) \/ In("fill_all", e) \/ In("rewind_target", e)
    BY <1>1, <1>4, <2>1 DEF Ring
  <2>2. CASE E = e /\ ("take" \in N \/ "fill_all" \in N \/ "rewind_target" \in N)
    <3>1. CASE "add" \in N
      BY <1>5, <2>2, <3>1
    <3>2. CASE Head(prog).op = "rewind_target"
      <4>1. In("rewind_target", e)
        BY <1>2, <2>2, <3>2
      <4> QED
        BY <1>1, <1>4, <4>1 DEF Ring
    <3> QED
      BY <2>2, <3>1, <3>2
  <2> QED
    BY <1>3, <1>8, <2>1, <2>2
<1> QED
  BY <1>6, <1>7, <1>8 DEF Ring

\* The stock, when no block is going to be taken.
LEMMA EnoughNoTakes ==
  ASSUME prog' \in Seq(Step), \A e \in Emitters : ~In("take", e)', ~At("rewind_target")'
  PROVE  Enough'
<1>1. ASSUME NEW k \in DOMAIN prog', prog'[k].op = "take" PROVE FALSE
  <2>1. prog'[k] \in Step
    OBVIOUS
  <2>2. prog'[k] = [op |-> "take", e |-> prog'[k].e] /\ prog'[k].e \in Emitters
    BY <1>1, <2>1 DEF Step
  <2> QED
    BY <2>2 DEF In
<1> QED
  BY <1>1 DEF Enough

-----------------------------------------------------------------------------
(* The steps of a call.                                                    *)

\* A step that is done and changes at most a state or a flag.
LEMMA CallPops ==
  ASSUME IInv, prog # <<>>, prog' = Do(<<>>, E) \o Tail(prog),
         UNCHANGED <<tg, task, phase, todo>>,
         em' \in [Emitters -> Emitter],
         prefill_task' \in [Emitters -> Held],
         \A e \in Emitters : /\ em'[e].filled_blocks = em[e].filled_blocks
                             /\ em'[e].current_block = em[e].current_block
                             /\ em'[e].temp_buf = em[e].temp_buf
                             /\ em'[e].target = em[e].target,
         \A e \in Emitters : Playing(e)' <=> Playing(e),
         Head(prog).op = "fsm" \/ \A e \in Emitters : em'[e].state = em[e].state,
         Head(prog).op \in {"wait", "store", "set_cursor", "fsm", "deferred", "footer"},
         Head(prog).op = "wait" => ~Decoding(E),
         Pointed'
  PROVE  IInv'
<1>1. TypeOK /\ WellFormed(prog) /\ Lives /\ Ring /\ Enough
  BY DEF IInv
<1>2. /\ prog' \in Seq(Step) /\ WellFormed(prog')
      /\ \A op, e : In(op, e)' <=> Later(op, e)
      /\ \A k \in DOMAIN prog' : k + 1 \in DOMAIN prog /\ prog'[k] = prog[k + 1]
      /\ prog' # <<>> => Head(prog') \in Step /\ Follows(Head(prog), Head(prog'))
  BY <1>1, PopFacts
<1>3. /\ \A op, e : In(op, e) <=> (Head(prog).op = op /\ E = e) \/ Later(op, e)
      /\ \A op, e : Later(op, e) => Before(Head(prog), [op |-> op, e |-> e])
      /\ \A op, e : E = e /\ Later(op, e) => BeforeOp(Head(prog).op, op)
      /\ \A op, e : e # E /\ Later(op, e) =>
            Head(prog).op \in {"wait", "release", "simulate"} /\ op \notin {"take", "render"}
  BY <1>1, AfterHead
<1>4. GoesOn({})
  BY <1>2 DEF GoesOn
<1>5. \A e \in Emitters : Decoding(e)' <=> Decoding(e)
  BY DEF Decoding
<1>6. TypeOK'
  BY <1>1, <1>2 DEF TypeOK, Step
<1>7. Quiet'
  BY <1>5, QuietPops
<1>8. \A e \in Emitters : In("delete", e)' => em'[e].state = "Stopped"
  <2>1. ASSUME NEW e \in Emitters, Head(prog).op = "fsm" PROVE ~Later("delete", e)
    <3>1. ~BeforeOp("fsm", "delete")
      BY DEF BeforeOp
    <3> QED
      BY <1>3, <2>1, <3>1
  <2> QED
    BY <1>1, <1>2, <1>3, <2>1 DEF Lives
<1>9. Lives' /\ Voices' /\ Rendered'
  BY <1>4, <1>5, <1>8, LivesGoOn
<1>10. Ring'
  BY <1>4, RingGoesOn
<1>11. ~At("rewind_target")'
  BY <1>2 DEF At, Follows, NextOp
<1>12. CASE Head(prog).op # "wait"
  <2>1. \A e \in Emitters : ~Later("take", e)
    BY <1>3, <1>12 DEF BeforeOp
  <2>2. Enough'
    BY <1>2, <1>11, <2>1, EnoughNoTakes
  <2> QED
    BY <1>2, <1>6, <1>7, <1>9, <1>10, <2>2 DEF IInv
<1>13. CASE Head(prog).op = "wait"
  <2>1. ASSUME NEW k \in DOMAIN prog', prog'[k].op = "take" PROVE Stocked(k)'
    <3>1. k + 1 \in DOMAIN prog /\ prog'[k] = prog[k + 1] /\ k \in Nat
      BY <1>2
    <3>2. prog'[k] \in Step
      BY <1>2
    <3>3. prog'[k].e = E
      <4>1. PICK x \in Emitters : x = prog'[k].e
        BY <3>2 DEF Step
      <4>2. prog'[k] = [op |-> "take", e |-> x]
        BY <2>1, <3>2, <4>1 DEF Step
      <4>3. In("take", x)'
        BY <4>2 DEF In
      <4>4. Later("take", x)
        BY <1>2, <4>3
      <4> QED
        BY <1>3, <4>1, <4>4
    <3>4. ~Decoding(E) /\ Stocked(k + 1)
      BY <1>1, <1>13, <2>1, <3>1 DEF Enough
    <3>5. E \in Emitters
      BY <1>1, HeadOfProg
    <3>6. k + 1 <= 2 * em[E].filled_blocks /\ em[E].filled_blocks \in Nat
      <4>1. ~At("take")
        BY <1>13 DEF At
      <4>2. k + 1 <= 2 * em[E].filled_blocks - 0
        BY <3>1, <3>3, <3>4, <4>1 DEF Stocked
      <4>3. em[E].filled_blocks \in Nat
        BY <1>1, <3>5, Fields
      <4> QED
        BY <3>1, <4>2, <4>3
    <3>7. k <= 2 * em[E].filled_blocks - 1 /\ k <= 2 * em[E].filled_blocks - 0
      BY <3>1, <3>6
    <3>8. PICK e \in Emitters : e = E
      BY <3>5
    <3>9. prog'[k].e = e /\ ~Decoding(e)' /\ em'[e].filled_blocks = em[E].filled_blocks
      BY <1>5, <3>3, <3>4, <3>8
    <3> QED
      BY <3>7, <3>9 DEF Stocked
  <2>2. Enough'
    BY <1>11, <2>1 DEF Enough
  <2> QED
    BY <1>2, <1>6, <1>7, <1>9, <1>10, <2>2 DEF IInv
<1> QED
  BY <1>12, <1>13

\* A wait is over when the pointer names no task that runs, and the pointer of
\* a task that decodes names it.
LEMMA WaitPrefillIInv == IInv /\ WaitPrefill => IInv'
<1> SUFFICES ASSUME IInv, WaitPrefill PROVE IInv'
  OBVIOUS
<1>1. TypeOK /\ Pointed
  BY DEF IInv
<1>2. /\ prog # <<>> /\ Head(prog).op = "wait" /\ prog' = Do(<<>>, E) \o Tail(prog)
      /\ UNCHANGED <<em, tg, task, prefill_task, phase, todo>>
      /\ prefill_task[E] = "none" \/ (prefill_task[E] = "own" /\ task[E].pc = "none")
  BY DEF WaitPrefill, At, Then
<1>3. ~Decoding(E)
  <2>1. E \in Emitters
    BY <1>1, <1>2, HeadOfProg
  <2>2. ~At("store")
    BY <1>2 DEF At
  <2>3. Decoding(E) => prefill_task[E] = "own" /\ task[E].pc # "none"
    BY <1>1, <2>1, <2>2 DEF Pointed, Decoding
  <2> QED
    BY <1>2, <2>3
<1>4. Pointed'
  <2>1. ~At("store")
    BY <1>2 DEF At
  <2>2. \A e \in Emitters : Decoding(e)' => Decoding(e)
    BY <1>2 DEF Decoding
  <2> QED
    BY <1>2, <2>1, <2>2, PointedGoesOn
<1>5. /\ em' \in [Emitters -> Emitter]
      /\ prefill_task' \in [Emitters -> Held]
  BY <1>1, <1>2 DEF TypeOK
<1>6. \A e \in Emitters : Playing(e)' <=> Playing(e)
  BY <1>2 DEF Playing
<1> QED
  BY <1>2, <1>3, <1>4, <1>5, <1>6, CallPops

\* dispatch_prefill lets the pointer name the task it has added.
LEMMA StoreTaskIInv == IInv /\ StoreTask => IInv'
<1> SUFFICES ASSUME IInv, StoreTask PROVE IInv'
  OBVIOUS
<1>1. TypeOK /\ Pointed
  BY DEF IInv
<1>2. /\ prog # <<>> /\ Head(prog).op = "store" /\ prog' = Do(<<>>, E) \o Tail(prog)
      /\ UNCHANGED <<em, tg, task, phase, todo>>
      /\ prefill_task' = [prefill_task EXCEPT ![E] = "own"]
  BY DEF StoreTask, At, Then
<1>3. E \in Emitters
  BY <1>1, <1>2, HeadOfProg
<1>4. Pointed'
  <2>1. \A e \in Emitters : prefill_task[e] = "own" \/ E = e => prefill_task'[e] = "own"
    BY <1>1, <1>2 DEF TypeOK
  <2>2. \A e \in Emitters : Decoding(e)' => prefill_task'[e] = "own"
    BY <1>1, <1>2, <2>1 DEF Decoding, Pointed
  <2> QED
    BY <2>2 DEF Pointed
<1>5. /\ em' \in [Emitters -> Emitter]
      /\ prefill_task' \in [Emitters -> Held]
  BY <1>1, <1>2 DEF TypeOK, Held
<1>6. \A e \in Emitters : Playing(e)' <=> Playing(e)
  BY <1>2 DEF Playing
<1> QED
  BY <1>2, <1>4, <1>5, <1>6, CallPops

\* A step that changes the fields of the emitter at hand.
LEMMA EmitterSet ==
  ASSUME TypeOK, prog # <<>>, NEW r, em' = [em EXCEPT ![E] = r]
  PROVE  /\ \A e \in Emitters : em'[e] = IF E = e THEN r ELSE em[e]
         /\ r \in Emitter => em' \in [Emitters -> Emitter]
<1>1. E \in Emitters
  BY HeadOfProg
<1>2. PICK x \in Emitters : x = E
  BY <1>1
<1>3. em' = [em EXCEPT ![x] = r] /\ em \in [Emitters -> Emitter]
  BY <1>2 DEF TypeOK
<1>4. \A e \in Emitters : em'[e] = IF x = e THEN r ELSE em[e]
  BY <1>3
<1> QED
  BY <1>2, <1>3, <1>4

\* A step that is done and changes at most a state, and no pointer.
LEMMA EmitterPops ==
  ASSUME IInv, prog # <<>>, prog' = Do(<<>>, E) \o Tail(prog),
         UNCHANGED <<tg, task, prefill_task, phase, todo>>,
         NEW r \in Emitter, em' = [em EXCEPT ![E] = r],
         r.filled_blocks = em[E].filled_blocks, r.current_block = em[E].current_block,
         r.temp_buf = em[E].temp_buf, r.target = em[E].target,
         (r.state = "Playing") = (em[E].state = "Playing"),
         Head(prog).op = "fsm" \/ r.state = em[E].state,
         Head(prog).op \in {"set_cursor", "fsm", "deferred", "footer"}
  PROVE  IInv'
<1>1. TypeOK
  BY DEF IInv
<1>2. E \in Emitters
  BY <1>1, HeadOfProg
<1>3. /\ \A e \in Emitters : em'[e] = IF E = e THEN r ELSE em[e]
      /\ em' \in [Emitters -> Emitter]
  BY <1>1, EmitterSet
<1>4. \A e \in Emitters : /\ em'[e].filled_blocks = em[e].filled_blocks
                          /\ em'[e].current_block = em[e].current_block
                          /\ em'[e].temp_buf = em[e].temp_buf
                          /\ em'[e].target = em[e].target
  BY <1>3
<1>5. \A e \in Emitters : Playing(e)' <=> Playing(e)
  BY <1>3 DEF Playing
<1>6. Head(prog).op = "fsm" \/ \A e \in Emitters : em'[e].state = em[e].state
  BY <1>3
<1>7. prefill_task' \in [Emitters -> Held]
  BY <1>1 DEF TypeOK
<1>8. Pointed'
  <2>1. ~At("store")
    BY DEF At
  <2>2. \A e \in Emitters : Decoding(e)' => Decoding(e)
    BY DEF Decoding
  <2> QED
    BY <2>1, <2>2, PointedGoesOn
<1> QED
  BY <1>3, <1>4, <1>5, <1>6, <1>7, <1>8, CallPops

\* set_cursor leaves the fields of the emitter alone.
LEMMA SetCursorIInv == IInv /\ SetCursor => IInv'
<1> SUFFICES ASSUME IInv, SetCursor PROVE IInv'
  OBVIOUS
<1>1. /\ prog # <<>> /\ Head(prog).op = "set_cursor" /\ prog' = Do(<<>>, E) \o Tail(prog)
      /\ UNCHANGED <<tg, task, prefill_task, phase, todo>>
      /\ em' = [em EXCEPT ![E] = em[E]]
  BY DEF SetCursor, EmitterStep, At, Then
<1>2. em[E] \in Emitter
  BY <1>1, HeadOfProg, Fields DEF IInv
<1> QED
  BY <1>1, <1>2, EmitterPops

\* The first two steps are done.
LEMMA PopTwice ==
  ASSUME TypeOK, WellFormed(prog), prog # <<>>, Head(prog).op = "add", prog' = Tail(Tail(prog))
  PROVE  /\ prog' \in Seq(Step) /\ WellFormed(prog')
         /\ \A op, e : In(op, e)' => Later(op, e)
         /\ \A op, e : Later(op, e) /\ op # "store" => In(op, e)'
         /\ prog' # <<>> => \E x \in Step : x.op = "store" /\ Follows(x, Head(prog'))
<1>1. /\ prog \in Seq(Step) /\ Len(prog) \in Nat /\ DOMAIN prog = 1 .. Len(prog)
      /\ 1 \in DOMAIN prog /\ prog[1] = Head(prog)
      /\ Tail(prog) \in Seq(Step) /\ Len(Tail(prog)) = Len(prog) - 1
      /\ \A k \in 1 .. Len(prog) - 1 : Tail(prog)[k] = prog[k + 1]
      /\ E \in Emitters
  BY HeadOfProg DEF TypeOK, Step
<1>2. 1 + 1 \in DOMAIN prog
  BY <1>1 DEF WellFormed
<1>3. Follows(prog[1], prog[1 + 1])
  BY <1>1, <1>2 DEF WellFormed
<1>4. prog[1 + 1].op = "store" /\ Len(prog) >= 2
  BY <1>1, <1>2, <1>3 DEF Follows, NextOp
<1> DEFINE s == Tail(prog)
           rest == Tail(s)
<1>5. s # <<>> /\ Len(s) \in Nat
  BY <1>1, <1>4, EmptySeq
<1>6. /\ rest \in Seq(Step) /\ Len(rest) = Len(s) - 1
      /\ \A k \in 1 .. Len(s) - 1 : rest[k] = s[k + 1]
  BY <1>1, <1>5
<1> HIDE DEF rest
<1>7. Len(rest) = Len(prog) - 2 /\ \A k \in 1 .. Len(rest) : rest[k] = prog[k + 2]
  <2>1. Len(rest) = Len(prog) - 2
    BY <1>1, <1>6
  <2>2. ASSUME NEW k \in 1 .. Len(rest) PROVE rest[k] = prog[k + 2]
    <3>1. k \in 1 .. Len(s) - 1 /\ k + 1 \in 1 .. Len(prog) - 1 /\ (k + 1) + 1 = k + 2
      BY <1>1, <2>1
    <3> QED
      BY <1>1, <1>6, <3>1
  <2> QED
    BY <2>1, <2>2
<1>8. IsRest(rest, 2)
  BY <1>4, <1>6, <1>7 DEF IsRest
<1>9. ListOf(<<>>, 0, {})
  BY Lists
<1>10. /\ <<>> \in Seq(Ops) /\ Len(<<>>) = 0 /\ OpsFit(<<>>)
  BY <1>9 DEF ListOf
<1>11. Resumes(Do(<<>>, E) \o rest, 2, E, <<>>)
  BY <1>1, <1>8, <1>10, Proceed
<1>12. Do(<<>>, E) \o rest = rest
  <2>1. Do(<<>>, E) \in Seq(Step) /\ Len(Do(<<>>, E)) = 0
    BY <1>1, <1>10, DoSteps
  <2>2. Do(<<>>, E) = <<>>
    BY <2>1, EmptySeq
  <2> QED
    BY <1>6, <2>2, ConcatEmptySeq
<1>13. Resumes(prog', 2, E, <<>>)
  BY <1>11, <1>12 DEF rest
<1>14. WellFormed(prog')
  <2>1. \A j \in 1 .. Len(<<>>), k \in 2 + 1 .. Len(prog) : Before([op |-> <<>>[j], e |-> E], prog[k])
    BY <1>10
  <2>2. Len(<<>>) > 0 /\ 2 < Len(prog) => Follows([op |-> <<>>[Len(<<>>)], e |-> E], prog[2 + 1])
    BY <1>10
  <2>3. 2 \in Nat /\ 2 <= Len(prog)
    BY <1>4
  <2> QED
    BY <1>10, <1>13, <2>1, <2>2, <2>3, ProceedFits
<1>15. /\ prog' \in Seq(Step) /\ DOMAIN (prog') = 1 .. Len(prog') /\ Len(prog') = Len(prog) - 2
       /\ \A k \in 1 .. Len(prog') : prog'[k] = prog[k + 2]
  BY <1>6, <1>7 DEF rest
<1>16. \A op, e : In(op, e)' => Later(op, e)
  BY <1>1, <1>15 DEF In, Later
<1>17. ASSUME NEW op, NEW e, Later(op, e), op # "store" PROVE In(op, e)'
  <2>1. PICK k \in 2 .. Len(prog) : prog[k] = [op |-> op, e |-> e]
    BY <1>17 DEF Later
  <2>2. k # 2
    BY <1>4, <1>17, <2>1
  <2>3. k - 2 \in 1 .. Len(prog') /\ (k - 2) + 2 = k
    BY <1>1, <1>15, <2>2
  <2>4. prog'[k - 2] = prog[k]
    BY <1>15, <2>3
  <2> QED
    BY <1>15, <2>1, <2>3, <2>4 DEF In
<1>18. ASSUME prog' # <<>> PROVE \E x \in Step : x.op = "store" /\ Follows(x, Head(prog'))
  <2>1. Len(prog') \in Nat /\ Len(prog') > 0
    BY <1>15, <1>18, EmptySeq
  <2>2. 1 \in 1 .. Len(prog') /\ Head(prog') = prog'[1]
    BY <1>15, <2>1
  <2>3. prog'[1] = prog[2 + 1] /\ 2 \in DOMAIN prog /\ 2 + 1 \in DOMAIN prog
    BY <1>1, <1>15, <2>1, <2>2
  <2>4. Follows(prog[2], prog[2 + 1]) /\ prog[2] \in Step
    BY <1>1, <2>3 DEF WellFormed
  <2> QED
    BY <1>4, <2>2, <2>3, <2>4
<1> QED
  BY <1>14, <1>15, <1>16, <1>17, <1>18

\* Behind a task that is added there is nothing but its store, of what needs a
\* wait of its own.
LEMMA AfterAdd ==
  ASSUME IInv, prog # <<>>, Head(prog).op = "add"
  PROVE  /\ \A op, e : Later(op, e) => E = e
         /\ \A e : /\ ~Later("take", e) /\ ~Later("fill_all", e) /\ ~Later("rewind_target", e)
                   /\ ~Later("i_start", e)
         /\ Playing(E) /\ E \in Emitters /\ ~Decoding(E) /\ ~At("store")
<1>1. TypeOK /\ WellFormed(prog) /\ Lives /\ Quiet
  BY DEF IInv
<1>2. /\ \A op, e : In(op, e) <=> (Head(prog).op = op /\ E = e) \/ Later(op, e)
      /\ \A op, e : E = e /\ Later(op, e) => BeforeOp(Head(prog).op, op)
      /\ \A op, e : e # E /\ Later(op, e) =>
            Head(prog).op \in {"wait", "release", "simulate"} /\ op \notin {"take", "render"}
  BY <1>1, AfterHead
<1>3. \A op, e : Later(op, e) => E = e
  BY <1>2
<1>4. ~BeforeOp("add", "take") /\ ~BeforeOp("add", "fill_all") /\ ~BeforeOp("add", "rewind_target")
      /\ ~BeforeOp("add", "i_start")
  BY DEF BeforeOp
<1>5. \A e : /\ ~Later("take", e) /\ ~Later("fill_all", e) /\ ~Later("rewind_target", e)
             /\ ~Later("i_start", e)
  BY <1>2, <1>3, <1>4
<1>6. E \in Emitters
  BY <1>1, HeadOfProg
<1>7. ~Decoding(E)
  BY <1>1 DEF Quiet
<1>8. Playing(E)
  <2>1. PICK e \in Emitters : e = E
    BY <1>6
  <2>2. In("add", e)
    BY <1>2, <2>1
  <2>3. Playing(e)
    BY <1>1, <2>2 DEF Lives
  <2> QED
    BY <2>1, <2>3
<1>9. ~At("store")
  BY DEF At
<1> QED
  BY <1>3, <1>5, <1>6, <1>7, <1>8, <1>9

\* What both branches of AddTask keep.
LEMMA AddKeeps ==
  ASSUME IInv, prog # <<>>, Head(prog).op = "add", GoesOn({}),
         UNCHANGED <<em, tg, prefill_task, phase, todo>>,
         \A e \in Emitters : E # e => (Decoding(e)' <=> Decoding(e)) /\ task'[e] = task[e],
         task' # task => Decoding(E)' /\ \A e \in Emitters : E = e => Decoding(e)' /\ task'[e].pc = "queued",
         task' = task => Full(E),
         prog' \in Seq(Step), ~At("rewind_target")'
  PROVE  Lives' /\ Voices' /\ Rendered' /\ Ring' /\ Enough'
<1>1. TypeOK /\ WellFormed(prog) /\ Ring
  BY DEF IInv
<1>2. /\ \A op, e : Later(op, e) => E = e
      /\ \A e : ~Later("take", e) /\ ~Later("fill_all", e) /\ ~Later("rewind_target", e)
      /\ Playing(E) /\ E \in Emitters /\ ~Decoding(E)
  BY AfterAdd
<1>3. \A e \in Emitters : Playing(e)' <=> Playing(e)
  BY DEF Playing
<1>4. \A op, e : In(op, e)' => Later(op, e)
  BY DEF GoesOn
<1>5. /\ \A op, e : In(op, e) <=> (Head(prog).op = op /\ E = e) \/ Later(op, e)
      /\ \A op, e : E = e /\ Later(op, e) => BeforeOp(Head(prog).op, op)
  BY <1>1, AfterHead
<1>6. \A e \in Emitters : In("delete", e)' => em'[e].state = "Stopped"
  BY <1>4, <1>5 DEF IInv, Lives
<1>7. \A e \in Emitters : Decoding(e)' => Decoding(e) \/ Playing(e)
  BY <1>2
<1>8. Lives' /\ Voices' /\ Rendered'
  BY <1>3, <1>6, <1>7, LivesGoOn
<1>9. Ring'
  <2>1. \A e \in Emitters : InOrder(e)' /\ (Full(e)' <=> Full(e))
    BY <1>1 DEF Ring, InOrder, Full
  <2>2. \A e \in Emitters : task'[e].pc = "loop" =>
           task'[e].next = Slot(em'[e].current_block + em'[e].filled_blocks)
    BY <1>1 DEF Ring
  <2>3. ASSUME NEW e \in Emitters, Playing(e)' PROVE Decoding(e)' \/ Full(e)' \/ In("add", e)'
    <3>1. CASE E = e
      <4>1. CASE task' = task
        BY <2>1, <3>1, <4>1
      <4>2. CASE task' # task
        BY <3>1, <4>2
      <4> QED
        BY <4>1, <4>2
    <3>2. CASE E # e
      <4>1. Decoding(e) \/ Full(e) \/ In("add", e)
        BY <1>1, <1>3, <2>3 DEF Ring
      <4>2. In("add", e) => In("add", e)'
        BY <1>5, <3>2 DEF GoesOn
      <4> QED
        BY <2>1, <3>2, <4>1, <4>2
    <3> QED
      BY <3>1, <3>2
  <2>4. \A e \in Emitters : ~In("take", e)' /\ ~In("fill_all", e)' /\ ~In("rewind_target", e)'
    BY <1>2, <1>4
  <2> QED
    BY <2>1, <2>2, <2>3, <2>4 DEF Ring
<1>10. \A e \in Emitters : ~In("take", e)'
  BY <1>2, <1>4
<1>11. Enough'
  BY <1>10, EnoughNoTakes
<1> QED
  BY <1>8, <1>9, <1>11

\* dispatch_prefill adds a task unless the ring is full.
LEMMA AddTaskIInv == IInv /\ AddTask => IInv'
<1> SUFFICES ASSUME IInv, AddTask PROVE IInv'
  OBVIOUS
<1>1. TypeOK /\ WellFormed(prog) /\ Pointed /\ Quiet
  BY DEF IInv
<1>2. prog # <<>> /\ Head(prog).op = "add" /\ UNCHANGED <<em, tg, prefill_task>>
  BY DEF AddTask, At
<1>3. /\ \A op, e : Later(op, e) => E = e
      /\ \A e : ~Later("i_start", e)
      /\ Playing(E) /\ E \in Emitters /\ ~Decoding(E) /\ ~At("store")
  BY <1>2, AfterAdd
<1>4. CASE em[E].filled_blocks >= Prefill
  <2>1. prog' = Tail(Tail(prog)) /\ UNCHANGED <<task, phase, todo>>
    BY <1>4 DEF AddTask
  <2>2. /\ prog' \in Seq(Step) /\ WellFormed(prog')
        /\ \A op, e : In(op, e)' => Later(op, e)
        /\ \A op, e : Later(op, e) /\ op # "store" => In(op, e)'
        /\ prog' # <<>> => \E x \in Step : x.op = "store" /\ Follows(x, Head(prog'))
    BY <1>1, <1>2, <2>1, PopTwice
  <2>3. GoesOn({})
    BY <2>2 DEF GoesOn
  <2>4. prog' # <<>> => Head(prog').op \notin {"add", "set_cursor", "fill_all", "rewind_target", "take",
                                               "release", "simulate", "stopped", "delete"}
    BY <2>2 DEF Follows, NextOp
  <2>5. \A e \in Emitters : Decoding(e)' <=> Decoding(e)
    BY <2>1 DEF Decoding
  <2>6. Quiet'
    BY <1>3, <2>2, <2>4 DEF Quiet
  <2>7. Full(E)
    BY <1>1, <1>3, <1>4, Fields DEF Full
  <2>8. ~At("rewind_target")'
    BY <2>4 DEF At
  <2>9. Lives' /\ Voices' /\ Rendered' /\ Ring' /\ Enough'
    BY <1>2, <2>1, <2>2, <2>3, <2>5, <2>7, <2>8, AddKeeps
  <2>10. TypeOK'
    BY <1>1, <1>2, <2>1, <2>2 DEF TypeOK, Step
  <2>11. Pointed'
    BY <1>2, <1>3, <2>5, PointedGoesOn
  <2> QED
    BY <2>2, <2>6, <2>9, <2>10, <2>11 DEF IInv
<1>5. CASE ~(em[E].filled_blocks >= Prefill)
  <2> DEFINE t == [NoTask EXCEPT !.pc = "queued"]
  <2>1. /\ prog' = Do(<<>>, E) \o Tail(prog) /\ UNCHANGED <<phase, todo>>
        /\ task' = [task EXCEPT ![E] = t]
    BY <1>5 DEF AddTask, Then
  <2>2. t \in [pc : {"none", "queued", "loop", "done"}, next : 0 .. Prefill - 1] /\ t.pc = "queued"
    BY <1>1, <1>3, Fields DEF NoTask
  <2> HIDE DEF t
  <2>3. \A e \in Emitters : task'[e] = IF E = e THEN t ELSE task[e]
    <3>1. PICK x \in Emitters : x = E
      BY <1>3
    <3>2. task' = [task EXCEPT ![x] = t]
      BY <2>1, <3>1
    <3>3. \A e \in Emitters : task'[e] = IF x = e THEN t ELSE task[e]
      BY <1>1, <3>2 DEF TypeOK
    <3> QED
      BY <3>1, <3>3
  <2>4. /\ prog' \in Seq(Step) /\ WellFormed(prog')
        /\ \A op, e : In(op, e)' <=> Later(op, e)
        /\ prog' # <<>> => Head(prog') \in Step /\ Follows(Head(prog), Head(prog'))
    BY <1>1, <1>2, <2>1, PopFacts
  <2>5. prog' # <<>>
    <3>1. 1 \in DOMAIN prog /\ Head(prog) = prog[1] /\ Len(prog) \in Nat
          /\ DOMAIN prog = 1 .. Len(prog)
          /\ Tail(prog) \in Seq(Step) /\ Len(Tail(prog)) = Len(prog) - 1
      BY <1>1, <1>2, HeadOfProg, Entries
    <3>2. 1 + 1 \in DOMAIN prog
      BY <1>1, <1>2, <3>1 DEF WellFormed
    <3>3. Later("store", E)
      <4>1. Follows(prog[1], prog[1 + 1]) /\ prog[1 + 1] \in Step
        BY <1>1, <3>1, <3>2, Entries DEF WellFormed
      <4>2. prog[1 + 1].op = "store" /\ prog[1 + 1].e = E
        BY <1>2, <3>1, <4>1 DEF Follows, NextOp, E
      <4>3. prog[1 + 1] = [op |-> "store", e |-> E]
        BY <4>1, <4>2 DEF Step
      <4>4. 1 + 1 \in 2 .. Len(prog)
        BY <3>1, <3>2
      <4> QED
        BY <4>3, <4>4 DEF Later
    <3>4. PICK x \in Emitters : x = E
      BY <1>3
    <3>5. In("store", x)'
      BY <2>4, <3>3, <3>4
    <3> QED
      BY <3>5 DEF In
  <2>6. Head(prog').op = "store" /\ Head(prog').e = E
    BY <1>2, <2>4, <2>5 DEF Follows, NextOp, E
  <2>7. GoesOn({})
    BY <2>4 DEF GoesOn
  <2>8. \A e \in Emitters : /\ E # e => (Decoding(e)' <=> Decoding(e)) /\ task'[e] = task[e]
                            /\ E = e => Decoding(e)' /\ task'[e].pc = "queued"
    BY <2>2, <2>3 DEF Decoding
  <2>9. E' = E
    BY <2>6 DEF E
  <2>10. Decoding(E)' /\ task' # task
    <3>1. PICK x \in Emitters : x = E
      BY <1>3
    <3>2. Decoding(x)' /\ ~Decoding(x)
      BY <1>3, <2>8, <3>1
    <3>3. Decoding(E)'
      BY <2>9, <3>1, <3>2 DEF Decoding
    <3> QED
      BY <3>2, <3>3 DEF Decoding
  <2>11. Quiet'
    BY <1>3, <2>4, <2>6 DEF Quiet
  <2>12. ~At("rewind_target")'
    BY <2>6 DEF At
  <2>13. Lives' /\ Voices' /\ Rendered' /\ Ring' /\ Enough'
    BY <1>2, <2>1, <2>4, <2>7, <2>8, <2>10, <2>12, AddKeeps
  <2>14. TypeOK'
    <3>1. task' \in [Emitters -> [pc : {"none", "queued", "loop", "done"}, next : 0 .. Prefill - 1]]
      BY <1>1, <2>1, <2>2 DEF TypeOK
    <3> QED
      BY <1>1, <1>2, <2>1, <2>4, <3>1 DEF TypeOK, Step
  <2>15. Pointed'
    <3>1. ASSUME NEW e \in Emitters, Decoding(e)'
          PROVE  prefill_task'[e] = "own" \/ (At("store") /\ E = e)'
      <4>1. CASE E = e
        BY <2>5, <2>6, <4>1 DEF At, E
      <4>2. CASE E # e
        BY <1>1, <1>2, <1>3, <2>8, <3>1, <4>2 DEF Pointed
      <4> QED
        BY <4>1, <4>2
    <3> QED
      BY <3>1 DEF Pointed
  <2> QED
    BY <2>4, <2>11, <2>13, <2>14, <2>15 DEF IInv
<1> QED
  BY <1>4, <1>5

\* The ring filled from its start.
LEMMA FillAllBlocksIInv == IInv /\ FillAllBlocks => IInv'
<1> SUFFICES ASSUME IInv, FillAllBlocks PROVE IInv'
  OBVIOUS
<1>1. TypeOK /\ WellFormed(prog) /\ Pointed /\ Quiet /\ Lives /\ Ring
  BY DEF IInv
<1> DEFINE buf == [b \in 0 .. Prefill - 1 |-> Prefill - 1 - b]
           r == [em[E] EXCEPT !.current_block = 0, !.filled_blocks = Prefill, !.temp_buf = buf]
<1>2. /\ prog # <<>> /\ Head(prog).op = "fill_all" /\ prog' = Do(<<>>, E) \o Tail(prog)
      /\ em' = [em EXCEPT ![E] = r] /\ UNCHANGED <<tg, task, prefill_task, phase, todo>>
  BY DEF FillAllBlocks, EmitterStep, At, Then
<1>3. E \in Emitters /\ ~Decoding(E)
  BY <1>1, <1>2, HeadOfProg DEF Quiet
<1>4. Prefill \in Nat /\ Prefill > 0 /\ em[E] \in Emitter
  BY <1>1, <1>3, Fields
<1>5. buf \in [0 .. Prefill - 1 -> 0 .. Prefill] /\ \A b \in 0 .. Prefill - 1 : buf[b] = Prefill - 1 - b
  <2>1. \A b \in 0 .. Prefill - 1 : Prefill - 1 - b \in 0 .. Prefill
    BY <1>4
  <2> QED
    BY <2>1
<1> HIDE DEF buf
<1>6. /\ r \in Emitter /\ r.state = em[E].state /\ r.target = em[E].target
      /\ r.filled_blocks = Prefill /\ r.current_block = 0 /\ r.temp_buf = buf
  <2>1. 0 \in 0 .. Prefill - 1 /\ Prefill \in 0 .. Prefill
    BY <1>4
  <2> QED
    BY <1>4, <1>5, <2>1 DEF Emitter
<1> HIDE DEF r
<1>7. /\ \A e \in Emitters : em'[e] = IF E = e THEN r ELSE em[e]
      /\ em' \in [Emitters -> Emitter]
  BY <1>1, <1>2, <1>6, EmitterSet
<1>8. /\ prog' \in Seq(Step) /\ WellFormed(prog')
      /\ \A op, e : In(op, e)' <=> Later(op, e)
      /\ prog' # <<>> => Head(prog') \in Step /\ Follows(Head(prog), Head(prog'))
  BY <1>1, <1>2, PopFacts
<1>9. /\ \A op, e : In(op, e) <=> (Head(prog).op = op /\ E = e) \/ Later(op, e)
      /\ \A op, e : E = e /\ Later(op, e) => BeforeOp(Head(prog).op, op)
      /\ \A op, e : e # E /\ Later(op, e) =>
            Head(prog).op \in {"wait", "release", "simulate"} /\ op \notin {"take", "render"}
  BY <1>1, <1>2, AfterHead
<1>10. GoesOn({})
  BY <1>8 DEF GoesOn
<1>11. \A e \in Emitters : Decoding(e)' <=> Decoding(e)
  BY <1>2 DEF Decoding
<1>12. \A e \in Emitters : em'[e].target = em[e].target /\ em'[e].state = em[e].state
  BY <1>6, <1>7
<1>13. \A e \in Emitters : Playing(e)' <=> Playing(e)
  BY <1>12 DEF Playing
<1>14. TypeOK'
  BY <1>1, <1>2, <1>7, <1>8 DEF TypeOK, Step
<1>15. Pointed'
  <2>1. ~At("store")
    BY <1>2 DEF At
  <2> QED
    BY <1>2, <1>11, <2>1, PointedGoesOn
<1>16. Quiet'
  BY <1>2, <1>11, QuietPops
<1>17. Lives' /\ Voices' /\ Rendered'
  <2>1. \A e \in Emitters : In("delete", e)' => em'[e].state = "Stopped"
    BY <1>1, <1>8, <1>9, <1>12 DEF Lives
  <2> QED
    BY <1>2, <1>10, <1>11, <1>12, <1>13, <2>1, LivesGoOn
<1>18. Ring'
  <2>1. ASSUME NEW e \in Emitters
        PROVE  /\ InOrder(e)'
               /\ task'[e].pc = "loop" => task'[e].next = Slot(em'[e].current_block + em'[e].filled_blocks)
               /\ Playing(e)' => Decoding(e)' \/ Full(e)' \/ In("add", e)'
    <3>1. CASE E = e
      <4>1. em'[e] = r /\ Full(e)'
        BY <1>6, <1>7, <3>1 DEF Full
      <4>2. task'[e].pc # "loop"
        BY <1>2, <1>3, <3>1 DEF Decoding
      <4>3. ASSUME NEW k \in 0 .. Prefill - 1 PROVE buf[Slot(0 + k)] = Prefill - 1 - k
        <5>1. 0 + k = k /\ Slot(k) = k
          BY <1>4, SlotSmall
        <5> QED
          BY <1>5, <5>1
      <4> QED
        BY <1>6, <4>1, <4>2, <4>3 DEF InOrder
    <3>2. CASE E # e
      <4>1. em'[e] = em[e] /\ task'[e] = task[e]
        BY <1>2, <1>7, <3>2
      <4>2. InOrder(e)' /\ (Full(e)' <=> Full(e))
        BY <1>1, <4>1 DEF Ring, InOrder, Full
      <4>3. In("add", e) => In("add", e)'
        BY <1>8, <1>9, <3>2
      <4> QED
        BY <1>1, <1>11, <1>13, <4>1, <4>2, <4>3 DEF Ring
    <3> QED
      BY <3>1, <3>2
  <2>2. \A e \in Emitters : In("take", e)' \/ In("fill_all", e)' \/ In("rewind_target", e)' => In("add", e)'
    BY <1>1, <1>2, <1>8, <1>9 DEF Ring
  <2> QED
    BY <2>1, <2>2 DEF Ring
<1>19. Enough'
  <2>1. ~BeforeOp("fill_all", "take")
    BY DEF BeforeOp
  <2>2. \A e \in Emitters : ~In("take", e)'
    BY <1>2, <1>8, <1>9, <2>1
  <2>3. ASSUME NEW k \in DOMAIN prog', prog'[k].op = "take" PROVE FALSE
    <3>1. prog'[k] \in Step
      BY <1>8
    <3>2. prog'[k] = [op |-> "take", e |-> prog'[k].e] /\ prog'[k].e \in Emitters
      BY <2>3, <3>1 DEF Step
    <3> QED
      BY <2>2, <3>2 DEF In
  <2>4. At("rewind_target")' => Full(E)'
    <3>1. ASSUME prog' # <<>> PROVE E' = E
      BY <1>2, <1>8, <3>1 DEF Follows, E
    <3>2. PICK x \in Emitters : x = E
      BY <1>3
    <3>3. em'[x].filled_blocks = Prefill
      BY <1>6, <1>7, <3>2
    <3>4. E' = x => Full(E)'
      BY <3>3 DEF Full
    <3> QED
      BY <3>1, <3>2, <3>4 DEF At
  <2> QED
    BY <2>3, <2>4 DEF Enough
<1> QED
  BY <1>8, <1>14, <1>15, <1>16, <1>17, <1>18, <1>19 DEF IInv

\* A block that is taken is there.
LEMMA BlockThere ==
  ASSUME IInv, At("take")
  PROVE  /\ E \in Emitters /\ ~Decoding(E) /\ em[E].filled_blocks \in Nat /\ em[E].filled_blocks > 0
<1>1. TypeOK /\ Quiet /\ Enough /\ prog # <<>> /\ Head(prog).op = "take"
  BY DEF IInv, At
<1>2. E \in Emitters /\ ~Decoding(E)
  BY <1>1, HeadOfProg DEF Quiet
<1>3. em[E].filled_blocks \in Nat
  BY <1>1, <1>2, Fields
<1>4. 1 \in DOMAIN prog /\ prog[1] = Head(prog)
  BY <1>1, HeadOfProg
<1>5. Stocked(1) /\ prog[1].e = E
  BY <1>1, <1>4 DEF Enough, E
<1>6. 1 <= 2 * em[E].filled_blocks - 1
  BY <1>2, <1>5 DEF Stocked
<1> QED
  BY <1>2, <1>3, <1>6

\* obtain_block takes the oldest block of the ring, which is there.
LEMMA TakeBlockIInv == IInv /\ TakeBlock => IInv'
<1> SUFFICES ASSUME IInv, TakeBlock PROVE IInv'
  OBVIOUS
<1>1. TypeOK /\ WellFormed(prog) /\ Pointed /\ Quiet /\ Lives /\ Ring /\ Enough
  BY DEF IInv
<1> DEFINE f == em[E].filled_blocks
           c == em[E].current_block
           buf == [em[E].temp_buf EXCEPT ![c] = Prefill]
           r == [em[E] EXCEPT !.current_block = Slot(c + 1), !.filled_blocks = f - 1, !.temp_buf = buf]
<1>2. /\ prog # <<>> /\ Head(prog).op = "take" /\ prog' = Do(<<>>, E) \o Tail(prog)
      /\ UNCHANGED <<tg, task, prefill_task, phase, todo>> /\ At("take")
  BY DEF TakeBlock, EmitterStep, At, Then
<1>3. E \in Emitters /\ ~Decoding(E) /\ f \in Nat /\ f > 0
  BY <1>2, BlockThere
<1>4. /\ Prefill \in Nat /\ Prefill > 0 /\ em[E] \in Emitter /\ f \in 0 .. Prefill
      /\ c \in 0 .. Prefill - 1 /\ em[E].temp_buf \in [0 .. Prefill - 1 -> 0 .. Prefill]
  BY <1>1, <1>3, Fields
<1>5. em' = [em EXCEPT ![E] = r]
  <2>1. em' = [em EXCEPT ![E] = [em[E] EXCEPT !.current_block = Slot(@ + 1), !.filled_blocks = @ - 1,
                                    !.temp_buf[em[E].current_block] = Prefill]]
    BY DEF TakeBlock, EmitterStep
  <2> QED
    BY <1>4, <2>1 DEF Emitter
<1>6. em[E].filled_blocks = f /\ em[E].current_block = c
  OBVIOUS
<1> HIDE DEF f, c
<1>7. /\ f \in Int /\ f > 0 /\ f <= Prefill /\ c \in Int /\ c >= 0 /\ c < Prefill /\ Prefill \in Int
  BY <1>3, <1>4
<1>8. /\ buf \in [0 .. Prefill - 1 -> 0 .. Prefill]
      /\ \A b \in 0 .. Prefill - 1 : b # c => buf[b] = em[E].temp_buf[b]
  <2>1. Prefill \in 0 .. Prefill
    BY <1>7
  <2> QED
    BY <1>4, <2>1
<1> HIDE DEF buf
<1>9. Slot(c + 1) \in 0 .. Prefill - 1
  <2>1. c + 1 \in Int
    BY <1>7
  <2> QED
    BY <2>1, Turns
<1>10. /\ r \in Emitter /\ r.state = em[E].state /\ r.target = em[E].target
       /\ r.filled_blocks = f - 1 /\ r.current_block = Slot(c + 1) /\ r.temp_buf = buf
  <2>1. f - 1 \in 0 .. Prefill
    BY <1>7
  <2> QED
    BY <1>4, <1>8, <1>9, <2>1 DEF Emitter
<1> HIDE DEF r
<1>11. /\ \A e \in Emitters : em'[e] = IF E = e THEN r ELSE em[e]
       /\ em' \in [Emitters -> Emitter]
  BY <1>1, <1>2, <1>5, <1>10, EmitterSet
<1>12. /\ prog' \in Seq(Step) /\ WellFormed(prog')
       /\ \A op, e : In(op, e)' <=> Later(op, e)
       /\ \A k \in DOMAIN prog' : k + 1 \in DOMAIN prog /\ prog'[k] = prog[k + 1]
       /\ prog' # <<>> => Head(prog') \in Step /\ Follows(Head(prog), Head(prog'))
  BY <1>1, <1>2, PopFacts
<1>13. /\ \A op, e : In(op, e) <=> (Head(prog).op = op /\ E = e) \/ Later(op, e)
       /\ \A op, e : E = e /\ Later(op, e) => BeforeOp(Head(prog).op, op)
       /\ \A op, e : e # E /\ Later(op, e) =>
             Head(prog).op \in {"wait", "release", "simulate"} /\ op \notin {"take", "render"}
  BY <1>1, <1>2, AfterHead
<1>14. GoesOn({})
  BY <1>12 DEF GoesOn
<1>15. \A e \in Emitters : Decoding(e)' <=> Decoding(e)
  BY <1>2 DEF Decoding
<1>16. \A e \in Emitters : em'[e].target = em[e].target /\ em'[e].state = em[e].state
  BY <1>10, <1>11
<1>17. \A e \in Emitters : Playing(e)' <=> Playing(e)
  BY <1>16 DEF Playing
<1>18. TypeOK'
  BY <1>1, <1>2, <1>11, <1>12 DEF TypeOK, Step
<1>19. Pointed'
  <2>1. ~At("store")
    BY <1>2 DEF At
  <2> QED
    BY <1>2, <1>15, <2>1, PointedGoesOn
<1>20. Quiet'
  BY <1>2, <1>15, QuietPops
<1>21. Lives' /\ Voices' /\ Rendered'
  <2>1. \A e \in Emitters : In("delete", e)' => em'[e].state = "Stopped"
    BY <1>1, <1>12, <1>13, <1>16 DEF Lives
  <2> QED
    BY <1>2, <1>14, <1>15, <1>16, <1>17, <2>1, LivesGoOn
<1>22. \A e \in Emitters : In("add", e) => In("add", e)'
  BY <1>2, <1>12, <1>13
<1>23. ASSUME NEW k \in 0 .. (f - 1) - 1 PROVE buf[Slot(Slot(c + 1) + k)] = (f - 1) - 1 - k
  <2>1. /\ c + 1 \in Int /\ k \in Int /\ (c + 1) + k = c + (k + 1) /\ c + (k + 1) \in Int
        /\ k + 1 \in 0 .. f - 1 /\ f - 1 - (k + 1) = (f - 1) - 1 - k
        /\ c < c + (k + 1) /\ c + (k + 1) < c + Prefill
    BY <1>7
  <2>2. Slot(Slot(c + 1) + k) = Slot(c + (k + 1)) /\ Slot(c + (k + 1)) \in 0 .. Prefill - 1
    BY <2>1, SlotOfSlot, Turns
  <2>3. Slot(c + (k + 1)) # c
    <3>1. Slot(c) = c
      BY <1>4, SlotSmall
    <3> QED
      BY <1>7, <2>1, <3>1, SlotsDiffer
  <2>4. em[E].temp_buf[Slot(c + (k + 1))] = f - 1 - (k + 1)
    BY <1>1, <1>3, <1>6, <2>1 DEF Ring, InOrder
  <2> QED
    BY <1>8, <2>1, <2>2, <2>3, <2>4
<1>24. Ring'
  <2>1. ASSUME NEW e \in Emitters
        PROVE  /\ InOrder(e)'
               /\ task'[e].pc = "loop" => task'[e].next = Slot(em'[e].current_block + em'[e].filled_blocks)
               /\ Playing(e)' => Decoding(e)' \/ Full(e)' \/ In("add", e)'
    <3>1. CASE E = e
      <4>1. em'[e] = r
        BY <1>11, <3>1
      <4>2. task'[e].pc # "loop"
        BY <1>2, <1>3, <3>1 DEF Decoding
      <4>3. In("add", e)'
        BY <1>1, <1>2, <1>13, <1>22, <3>1 DEF Ring
      <4> QED
        BY <1>10, <1>23, <4>1, <4>2, <4>3 DEF InOrder
    <3>2. CASE E # e
      <4>1. em'[e] = em[e] /\ task'[e] = task[e]
        BY <1>2, <1>11, <3>2
      <4>2. InOrder(e)' /\ (Full(e)' <=> Full(e))
        BY <1>1, <4>1 DEF Ring, InOrder, Full
      <4> QED
        BY <1>1, <1>15, <1>17, <1>22, <4>1, <4>2 DEF Ring
    <3> QED
      BY <3>1, <3>2
  <2>2. \A e \in Emitters : In("take", e)' \/ In("fill_all", e)' \/ In("rewind_target", e)' => In("add", e)'
    BY <1>1, <1>12, <1>13, <1>22 DEF Ring
  <2> QED
    BY <2>1, <2>2 DEF Ring
<1>25. Enough'
  <2>1. ASSUME NEW k \in DOMAIN prog', prog'[k].op = "take" PROVE Stocked(k)'
    <3>1. k + 1 \in DOMAIN prog /\ prog'[k] = prog[k + 1] /\ k \in Nat /\ prog'[k] \in Step
      BY <1>12
    <3>2. prog'[k].e = E
      <4>1. PICK x \in Emitters : x = prog'[k].e
        BY <3>1 DEF Step
      <4>2. prog'[k] = [op |-> "take", e |-> x]
        BY <2>1, <3>1, <4>1 DEF Step
      <4>3. In("take", x)'
        BY <4>2 DEF In
      <4> QED
        BY <1>12, <1>13, <4>1, <4>3
    <3>3. Stocked(k + 1)
      BY <1>1, <2>1, <3>1 DEF Enough
    <3>4. k + 1 <= 2 * f - 1
      BY <1>2, <1>3, <1>6, <3>1, <3>2, <3>3 DEF Stocked
    <3>5. k <= 2 * (f - 1) - 0
      BY <1>7, <3>1, <3>4
    <3>6. ~At("take")'
      BY <1>2, <1>12 DEF At, Follows, NextOp
    <3>7. PICK e \in Emitters : e = E
      BY <1>3
    <3>8. prog'[k].e = e /\ ~Decoding(e)' /\ em'[e].filled_blocks = f - 1
      BY <1>3, <1>10, <1>11, <1>15, <3>2, <3>7
    <3> QED
      BY <3>5, <3>6, <3>8 DEF Stocked
  <2>2. ~At("rewind_target")'
    BY <1>2, <1>12 DEF At, Follows, NextOp
  <2> QED
    BY <2>1, <2>2 DEF Enough
<1> QED
  BY <1>12, <1>18, <1>19, <1>20, <1>21, <1>24, <1>25 DEF IInv

\* stop_target parts an emitter and its voice.
LEMMA ReleaseIInv == IInv /\ Release => IInv'
<1> SUFFICES ASSUME IInv, Release PROVE IInv'
  OBVIOUS
<1>1. TypeOK /\ WellFormed(prog) /\ Pointed /\ Quiet /\ Lives /\ Voices /\ Rendered /\ Ring /\ Enough
  BY DEF IInv
<1> DEFINE r == [em[E] EXCEPT !.target = None]
           u == em[E].target
<1>2. /\ prog # <<>> /\ Head(prog).op = "release" /\ prog' = Do(<<>>, E) \o Tail(prog)
      /\ UNCHANGED <<task, prefill_task, phase, todo>>
      /\ em' = [em EXCEPT ![E].target = None]
      /\ tg' = [t \in Targets |-> IF t = u THEN [emitter |-> None, rendering |-> FALSE] ELSE tg[t]]
  BY DEF Release, At, Then
<1>3. E \in Emitters /\ ~Decoding(E)
  BY <1>1, <1>2, HeadOfProg DEF Quiet
<1>4. em' = [em EXCEPT ![E] = r]
  BY <1>1, <1>2, <1>3 DEF TypeOK
<1>5. em[E] \in Emitter /\ u \in Targets \cup {None} /\ None \notin Targets /\ None \notin Emitters
  BY <1>1, <1>3, Fields, SoundEmitterAssumption
<1>6. /\ r \in Emitter /\ r.target = None /\ r.state = em[E].state
      /\ r.filled_blocks = em[E].filled_blocks /\ r.current_block = em[E].current_block
      /\ r.temp_buf = em[E].temp_buf
  BY <1>5 DEF Emitter
<1> HIDE DEF r
<1>7. /\ \A e \in Emitters : em'[e] = IF E = e THEN r ELSE em[e]
      /\ em' \in [Emitters -> Emitter]
  BY <1>1, <1>2, <1>4, <1>6, EmitterSet
<1>8. /\ prog' \in Seq(Step) /\ WellFormed(prog')
      /\ \A op, e : In(op, e)' <=> Later(op, e)
      /\ prog' # <<>> => Head(prog') \in Step /\ Follows(Head(prog), Head(prog'))
  BY <1>1, <1>2, PopFacts
<1>9. /\ \A op, e : In(op, e) <=> (Head(prog).op = op /\ E = e) \/ Later(op, e)
      /\ \A op, e : E = e /\ Later(op, e) => BeforeOp(Head(prog).op, op)
      /\ \A op, e : e # E /\ Later(op, e) =>
            Head(prog).op \in {"wait", "release", "simulate"} /\ op \notin {"take", "render"}
  BY <1>1, <1>2, AfterHead
<1>10. GoesOn({})
  BY <1>8 DEF GoesOn
<1>11. \A e \in Emitters : Decoding(e)' <=> Decoding(e)
  BY <1>2 DEF Decoding
<1>12. \A e \in Emitters : /\ em'[e].state = em[e].state
                           /\ em'[e].filled_blocks = em[e].filled_blocks
                           /\ em'[e].current_block = em[e].current_block
                           /\ em'[e].temp_buf = em[e].temp_buf
                           /\ em'[e].target = IF E = e THEN None ELSE em[e].target
  BY <1>6, <1>7
<1>13. \A e \in Emitters : Playing(e)' <=> Playing(e)
  BY <1>12 DEF Playing
<1>14. \A e \in Emitters, t \in Targets : em[e].target = t <=> tg[t].emitter = e
  BY <1>1 DEF Voices
<1>15. \A e \in Emitters : Plays(e)' => E # e /\ Plays(e)
  BY <1>12 DEF Plays
<1>16. ASSUME NEW e \in Emitters, Plays(e)' PROVE Rendering(e)' <=> Rendering(e)
  <2>1. E # e /\ em'[e].target = em[e].target /\ em[e].target # None
    BY <1>12, <1>15, <1>16 DEF Plays
  <2>2. PICK t \in Targets : t = em[e].target
    BY <1>1, <2>1, Fields
  <2>3. t # u
    BY <1>3, <1>14, <2>1, <2>2
  <2>4. tg'[t] = tg[t]
    BY <1>2, <2>2, <2>3
  <2> QED
    BY <2>1, <2>2, <2>4 DEF Rendering
<1>17. TypeOK'
  <2>1. [emitter |-> None, rendering |-> FALSE] \in [emitter : Emitters \cup {None}, rendering : BOOLEAN]
    OBVIOUS
  <2>2. tg' \in [Targets -> [emitter : Emitters \cup {None}, rendering : BOOLEAN]]
    BY <1>1, <1>2, <2>1 DEF TypeOK
  <2> QED
    BY <1>1, <1>2, <1>7, <1>8, <2>2 DEF TypeOK, Step
<1>18. Pointed'
  <2>1. ~At("store")
    BY <1>2 DEF At
  <2> QED
    BY <1>2, <1>11, <2>1, PointedGoesOn
<1>19. Quiet'
  BY <1>2, <1>11, QuietPops
<1>20. Lives'
  <2>1. \A e \in Emitters : ~Plays(e) => ~Plays(e)'
    BY <1>15
  <2> QED
    BY <1>1, <1>2, <1>8, <1>9, <1>11, <1>12, <1>13, <2>1 DEF Lives
<1>21. Voices'
  <2>1. ASSUME NEW e \in Emitters, NEW t \in Targets PROVE em'[e].target = t <=> tg'[t].emitter = e
    <3>1. CASE t = u
      <4>1. tg'[t].emitter = None
        BY <1>2, <3>1
      <4>2. em'[e].target # t
        BY <1>3, <1>5, <1>12, <1>14, <3>1
      <4> QED
        BY <1>5, <4>1, <4>2
    <3>2. CASE t # u
      <4>1. tg'[t] = tg[t]
        BY <1>2, <3>2
      <4> QED
        BY <1>3, <1>5, <1>12, <1>14, <3>2, <4>1
    <3> QED
      BY <3>1, <3>2
  <2>2. \A e \in Emitters : Plays(e)' => Playing(e)'
    BY <1>1, <1>13, <1>15 DEF Voices
  <2>3. ASSUME NEW e \in Emitters, Playing(e)', ~Plays(e)'
        PROVE  In("i_start", e)' \/ In("simulate", e)' \/ In("stopped", e)'
    <3>1. In("i_start", e) \/ In("simulate", e) \/ In("stopped", e)
      <4>1. CASE E = e
        BY <1>1, <1>2, <1>9, <4>1 DEF Voices
      <4>2. CASE E # e
        <5>1. ~Plays(e)
          BY <1>12, <2>3, <4>2 DEF Plays
        <5> QED
          BY <1>1, <1>13, <2>3, <5>1 DEF Voices
      <4> QED
        BY <4>1, <4>2
    <3> QED
      BY <1>2, <1>8, <1>9, <3>1
  <2>4. \A e \in Emitters : In("release", e)' => In("simulate", e)' \/ In("stopped", e)'
    BY <1>1, <1>2, <1>8, <1>9 DEF Voices
  <2>5. \A e \in Emitters : Plays(e)' /\ (In("simulate", e)' \/ In("stopped", e)') => In("release", e)'
    BY <1>1, <1>2, <1>8, <1>9, <1>15 DEF Voices
  <2> QED
    BY <2>1, <2>2, <2>3, <2>4, <2>5 DEF Voices
<1>22. Rendered'
  <2>0. todo \subseteq Emitters /\ phase # "render"
    <3>1. PICK x \in Emitters : x = E
      BY <1>3
    <3>2. In("release", x) /\ "release" \in Ops
      BY <1>2, <1>9, <3>1 DEF Ops
    <3> QED
      BY <1>1, <3>2 DEF TypeOK, Rendered
  <2>1. ASSUME NEW e \in Emitters, In("fill_all", e)' \/ In("rewind_target", e)'
        PROVE  Plays(e)' /\ Rendering(e)'
    <3>1. E # e
      <4>1. ~BeforeOp("release", "fill_all") /\ ~BeforeOp("release", "rewind_target")
        BY DEF BeforeOp
      <4> QED
        BY <1>2, <1>8, <1>9, <2>1, <4>1
    <3>2. Plays(e) /\ Rendering(e)
      BY <1>1, <1>8, <1>9, <2>1 DEF Rendered
    <3>3. Plays(e)'
      BY <1>12, <3>1, <3>2 DEF Plays
    <3> QED
      BY <1>16, <3>2, <3>3
  <2>2. \A e \in Emitters : ~In("render", e)'
    BY <1>1, <1>2, <1>8, <1>9, <2>0 DEF Rendered
  <2>3. /\ phase' = "game" => \A e \in Emitters : Plays(e)' => Rendering(e)'
        /\ phase' = "update" => \A e \in todo' : Plays(e)' => Rendering(e)'
    BY <1>1, <1>2, <1>15, <1>16, <2>0 DEF Rendered
  <2> QED
    BY <1>2, <2>0, <2>1, <2>2, <2>3 DEF Rendered
<1>23. Ring'
  BY <1>2, <1>10, <1>12, <1>13, RingGoesOn
<1>24. Enough'
  <2>1. ~BeforeOp("release", "take")
    BY DEF BeforeOp
  <2>2. \A e \in Emitters : ~In("take", e)'
    BY <1>2, <1>8, <1>9, <2>1
  <2>3. ~At("rewind_target")'
    BY <1>2, <1>8 DEF At, Follows, NextOp
  <2> QED
    BY <1>8, <2>2, <2>3, EnoughNoTakes
<1> QED
  BY <1>8, <1>17, <1>18, <1>19, <1>20, <1>21, <1>22, <1>23, <1>24 DEF IInv

\* A step that ends the playing of an emitter, or the emitter.
LEMMA SettleIInv ==
  ASSUME IInv, prog # <<>>, prog' = Do(<<>>, E) \o Tail(prog),
         Head(prog).op \in {"simulate", "stopped", "delete"},
         UNCHANGED <<tg, task, prefill_task, phase, todo>>,
         NEW r \in Emitter, em' = [em EXCEPT ![E] = r],
         r.state # "Playing",
         r.target = em[E].target \/ r.target = None,
         \A k \in 0 .. r.filled_blocks - 1 :
            r.temp_buf[Slot(r.current_block + k)] = r.filled_blocks - 1 - k
  PROVE  IInv'
<1>1. TypeOK /\ WellFormed(prog) /\ Pointed /\ Quiet /\ Lives /\ Voices /\ Rendered /\ Ring /\ Enough
  BY DEF IInv
<1>3. E \in Emitters /\ ~Decoding(E)
  BY <1>1, HeadOfProg DEF Quiet
<1>7. /\ \A e \in Emitters : em'[e] = IF E = e THEN r ELSE em[e]
      /\ em' \in [Emitters -> Emitter]
  BY <1>1, EmitterSet
<1>8. /\ prog' \in Seq(Step) /\ WellFormed(prog')
      /\ \A op, e : In(op, e)' <=> Later(op, e)
      /\ prog' # <<>> => Head(prog') \in Step /\ Follows(Head(prog), Head(prog'))
  BY <1>1, PopFacts
<1>9. /\ \A op, e : In(op, e) <=> (Head(prog).op = op /\ E = e) \/ Later(op, e)
      /\ \A op, e : E = e /\ Later(op, e) => BeforeOp(Head(prog).op, op)
      /\ \A op, e : e # E /\ Later(op, e) =>
            Head(prog).op \in {"wait", "release", "simulate"} /\ op \notin {"take", "render"}
  BY <1>1, AfterHead
<1>10. \A e \in Emitters : E = e =>
          /\ ~Later("add", e) /\ ~Later("take", e) /\ ~Later("fill_all", e) /\ ~Later("rewind_target", e)
          /\ ~Later("delete", e) /\ ~Later("i_start", e) /\ ~Later("fsm", e) /\ ~Later("release", e)
  <2>1. \A op \in {"add", "take", "fill_all", "rewind_target", "delete", "i_start", "fsm", "release"} :
           ~BeforeOp(Head(prog).op, op)
    BY DEF BeforeOp
  <2> QED
    BY <1>9, <2>1
<1>11. \A e \in Emitters : Decoding(e)' <=> Decoding(e)
  BY DEF Decoding
<1>12. ~Plays(E)
  <2>1. CASE Head(prog).op = "delete"
    <3>1. em[E].state = "Stopped"
      BY <1>1, <1>3, <1>9, <2>1 DEF Lives
    <3> QED
      BY <1>1, <1>3, <3>1 DEF Voices, Playing
  <2>2. CASE Head(prog).op \in {"simulate", "stopped"}
    <3>1. ~In("release", E)
      BY <1>3, <1>9, <1>10, <2>2
    <3> QED
      BY <1>1, <1>3, <1>9, <2>2, <3>1 DEF Voices
  <2> QED
    BY <2>1, <2>2
<1>13. em[E].target = None /\ r.target = None
  BY <1>12 DEF Plays
<1>14. \A e \in Emitters : em'[e].target = em[e].target /\ (E # e => em'[e] = em[e])
  BY <1>7, <1>13
<1>15. \A e \in Emitters : Playing(e)' <=> E # e /\ Playing(e)
  BY <1>7 DEF Playing
<1>16. \A e \in Emitters : (Plays(e)' <=> Plays(e)) /\ (Rendering(e)' <=> Rendering(e))
  BY <1>14 DEF Plays, Rendering
<1>17. phase # "render"
  <2>1. PICK x \in Emitters : x = E
    BY <1>3
  <2>2. In(Head(prog).op, x) /\ Head(prog).op \in Ops
    BY <1>1, <1>9, <2>1, HeadOfProg
  <2> QED
    BY <1>1, <2>2 DEF Rendered
<1>18. TypeOK'
  BY <1>1, <1>7, <1>8 DEF TypeOK, Step
<1>19. Pointed'
  <2>1. ~At("store")
    BY DEF At
  <2> QED
    BY <1>11, <2>1, PointedGoesOn
<1>20. Quiet'
  BY <1>11, QuietPops
<1>21. Lives'
  <2>1. ASSUME NEW e \in Emitters
        PROVE  /\ Decoding(e)' \/ In("add", e)' => Playing(e)'
               /\ In("delete", e)' => em'[e].state = "Stopped"
               /\ In("i_start", e)' => Playing(e)' /\ ~Plays(e)'
               /\ In("i_start", e)' \/ In("fsm", e)' => phase' = "update" /\ e \notin todo'
    <3>1. CASE E = e
      BY <1>1, <1>3, <1>8, <1>10, <1>11, <3>1
    <3>2. CASE E # e
      BY <1>1, <1>8, <1>9, <1>11, <1>14, <1>15, <1>16, <3>2 DEF Lives
    <3> QED
      BY <3>1, <3>2
  <2> QED
    BY <2>1 DEF Lives
<1>22. Voices'
  <2>1. \A e \in Emitters, t \in Targets : em'[e].target = t <=> tg'[t].emitter = e
    BY <1>1, <1>14 DEF Voices
  <2>2. ASSUME NEW e \in Emitters
        PROVE  /\ Plays(e)' => Playing(e)'
               /\ Playing(e)' /\ ~Plays(e)' => In("i_start", e)' \/ In("simulate", e)' \/ In("stopped", e)'
               /\ In("release", e)' => In("simulate", e)' \/ In("stopped", e)'
               /\ Plays(e)' /\ (In("simulate", e)' \/ In("stopped", e)') => In("release", e)'
    <3>1. CASE E = e
      BY <1>8, <1>10, <1>12, <1>15, <1>16, <3>1
    <3>2. CASE E # e
      BY <1>1, <1>8, <1>9, <1>15, <1>16, <3>2 DEF Voices
    <3> QED
      BY <3>1, <3>2
  <2> QED
    BY <2>1, <2>2 DEF Voices
<1>23. Rendered'
  <2>0. todo \subseteq Emitters
    BY <1>1 DEF TypeOK
  <2>1. \A e \in Emitters : In("fill_all", e)' \/ In("rewind_target", e)' => Plays(e)' /\ Rendering(e)'
    BY <1>1, <1>8, <1>9, <1>16 DEF Rendered
  <2>2. \A e \in Emitters : ~In("render", e)'
    BY <1>1, <1>8, <1>9, <1>17 DEF Rendered
  <2> QED
    BY <1>1, <1>16, <1>17, <2>0, <2>1, <2>2 DEF Rendered
<1>24. Ring'
  <2>1. ASSUME NEW e \in Emitters
        PROVE  /\ InOrder(e)'
               /\ task'[e].pc = "loop" => task'[e].next = Slot(em'[e].current_block + em'[e].filled_blocks)
               /\ Playing(e)' => Decoding(e)' \/ Full(e)' \/ In("add", e)'
               /\ In("take", e)' \/ In("fill_all", e)' \/ In("rewind_target", e)' => In("add", e)'
    <3>1. CASE E = e
      <4>1. em'[e] = r /\ task'[e].pc # "loop" /\ ~Playing(e)'
        BY <1>3, <1>7, <1>15, <3>1 DEF Decoding
      <4>2. InOrder(e)'
        BY <4>1 DEF InOrder
      <4> QED
        BY <1>8, <1>10, <3>1, <4>1, <4>2
    <3>2. CASE E # e
      <4>1. em'[e] = em[e] /\ task'[e] = task[e]
        BY <1>14, <3>2
      <4>2. InOrder(e)' /\ (Full(e)' <=> Full(e))
        BY <1>1, <4>1 DEF Ring, InOrder, Full
      <4> QED
        BY <1>1, <1>8, <1>9, <1>11, <1>15, <3>2, <4>1, <4>2 DEF Ring
    <3> QED
      BY <3>1, <3>2
  <2> QED
    BY <2>1 DEF Ring
<1>25. Enough'
  <2>2. \A e \in Emitters : ~In("take", e)'
    BY <1>8, <1>9, <1>10
  <2>3. ~At("rewind_target")'
    BY <1>8 DEF At, Follows, NextOp
  <2> QED
    BY <1>8, <2>2, <2>3, EnoughNoTakes
<1> QED
  BY <1>8, <1>18, <1>19, <1>20, <1>21, <1>22, <1>23, <1>24, <1>25 DEF IInv

\* After the voice is stopped the state changes.
LEMMA SimulateIInv == IInv /\ (Simulate \/ Stopped) => IInv'
<1> SUFFICES ASSUME IInv, Simulate \/ Stopped PROVE IInv'
  OBVIOUS
<1>1. TypeOK /\ Ring
  BY DEF IInv
<1>2. PICK s \in {"Simulating", "Stopped"} :
        /\ prog # <<>> /\ Head(prog).op \in {"simulate", "stopped"} /\ prog' = Do(<<>>, E) \o Tail(prog)
        /\ em' = [em EXCEPT ![E] = [em[E] EXCEPT !.state = s]]
        /\ UNCHANGED <<tg, task, prefill_task, phase, todo>>
  BY DEF Simulate, Stopped, EmitterStep, At, Then
<1> DEFINE r == [em[E] EXCEPT !.state = s]
<1>3. E \in Emitters
  BY <1>1, <1>2, HeadOfProg
<1>4. em[E] \in Emitter
  BY <1>1, <1>3, Fields
<1>5. /\ r \in Emitter /\ r.state # "Playing" /\ r.target = em[E].target
      /\ r.filled_blocks = em[E].filled_blocks /\ r.current_block = em[E].current_block
      /\ r.temp_buf = em[E].temp_buf
  BY <1>4 DEF Emitter, States
<1> HIDE DEF r
<1>6. \A k \in 0 .. r.filled_blocks - 1 :
            r.temp_buf[Slot(r.current_block + k)] = r.filled_blocks - 1 - k
  BY <1>1, <1>3, <1>5 DEF Ring, InOrder
<1>7. em' = [em EXCEPT ![E] = r]
  BY <1>2 DEF r
<1> QED
  BY <1>2, <1>5, <1>6, <1>7, SettleIInv

\* The destructor leaves an address that is free.
LEMMA DeleteIInv == IInv /\ Delete => IInv'
<1> SUFFICES ASSUME IInv, Delete PROVE IInv'
  OBVIOUS
<1>1. TypeOK
  BY DEF IInv
<1>2. /\ prog # <<>> /\ Head(prog).op = "delete" /\ prog' = Do(<<>>, E) \o Tail(prog)
      /\ em' = [em EXCEPT ![E] = Unborn] /\ UNCHANGED <<tg, task, prefill_task, phase, todo>>
  BY DEF Delete, EmitterStep, At, Then
<1>3. E \in Emitters
  BY <1>1, <1>2, HeadOfProg
<1>4. Prefill \in Nat /\ Prefill > 0
  BY <1>1, <1>3, Fields
<1>5. Unborn \in Emitter
  BY <1>4 DEF Unborn, Emitter, States
<1>6. /\ Unborn.state # "Playing" /\ Unborn.target = None /\ Unborn.filled_blocks = 0
  BY DEF Unborn
<1>7. \A k \in 0 .. Unborn.filled_blocks - 1 :
            Unborn.temp_buf[Slot(Unborn.current_block + k)] = Unborn.filled_blocks - 1 - k
  BY <1>6
<1> QED
  BY <1>2, <1>5, <1>6, <1>7, SettleIInv

\* What comes after the start of an emitter.
LEMMA AfterIStart ==
  ASSUME IInv, prog # <<>>, Head(prog).op = "i_start"
  PROVE  /\ \A op, e : Later(op, e) => E = e
         /\ \A e : /\ ~Later("take", e) /\ ~Later("fill_all", e) /\ ~Later("rewind_target", e)
                   /\ ~Later("i_start", e) /\ ~Later("simulate", e) /\ ~Later("stopped", e)
                   /\ ~Later("render", e)
         /\ \A e \in Emitters : ~Later("release", e)
         /\ Playing(E) /\ ~Plays(E) /\ E \in Emitters /\ ~Decoding(E) /\ ~At("store")
         /\ phase = "update" /\ E \notin todo
<1>1. TypeOK /\ WellFormed(prog) /\ Quiet /\ Lives /\ Voices
  BY DEF IInv
<1>2. /\ \A op, e : In(op, e) <=> (Head(prog).op = op /\ E = e) \/ Later(op, e)
      /\ \A op, e : E = e /\ Later(op, e) => BeforeOp(Head(prog).op, op)
      /\ \A op, e : e # E /\ Later(op, e) =>
            Head(prog).op \in {"wait", "release", "simulate"} /\ op \notin {"take", "render"}
  BY <1>1, AfterHead
<1>3. \A op, e : Later(op, e) => E = e
  BY <1>2
<1>4. \A op \in {"take", "fill_all", "rewind_target", "i_start", "simulate", "stopped", "render"} :
         ~BeforeOp(Head(prog).op, op)
  BY DEF BeforeOp
<1>5. \A e : /\ ~Later("take", e) /\ ~Later("fill_all", e) /\ ~Later("rewind_target", e)
             /\ ~Later("i_start", e) /\ ~Later("simulate", e) /\ ~Later("stopped", e)
             /\ ~Later("render", e)
  BY <1>2, <1>3, <1>4
<1>6. E \in Emitters
  BY <1>1, HeadOfProg
<1>7. In("i_start", E)
  BY <1>2
<1>8. \A e \in Emitters : ~Later("release", e)
  BY <1>1, <1>2, <1>5 DEF Voices
<1>9. ~At("store")
  BY DEF At
<1>10. Playing(E) /\ ~Plays(E) /\ ~Decoding(E) /\ phase = "update" /\ E \notin todo
  BY <1>1, <1>6, <1>7 DEF Quiet, Lives
<1> QED
  BY <1>3, <1>5, <1>6, <1>8, <1>9, <1>10

\* A start on a target that is free.
LEMMA IStartFreeIInv ==
  ASSUME IInv, prog # <<>>, Head(prog).op = "i_start", NEW t \in Targets, tg[t].emitter = None,
         prog' = Do(<<>>, E) \o Tail(prog), UNCHANGED <<task, prefill_task, phase, todo>>,
         em' = [em EXCEPT ![E].target = t],
         tg' = [tg EXCEPT ![t] = [emitter |-> E, rendering |-> FALSE]]
  PROVE  IInv'
<1>1. TypeOK /\ WellFormed(prog) /\ Pointed /\ Quiet /\ Lives /\ Voices /\ Rendered /\ Ring /\ Enough
  BY DEF IInv
<1> DEFINE r == [em[E] EXCEPT !.target = t]
<1>2. /\ \A op, e : Later(op, e) => E = e
      /\ \A e : /\ ~Later("take", e) /\ ~Later("fill_all", e) /\ ~Later("rewind_target", e)
                /\ ~Later("i_start", e) /\ ~Later("simulate", e) /\ ~Later("stopped", e)
                /\ ~Later("render", e)
      /\ \A e \in Emitters : ~Later("release", e)
      /\ Playing(E) /\ ~Plays(E) /\ E \in Emitters /\ ~Decoding(E) /\ ~At("store")
      /\ phase = "update" /\ E \notin todo
  BY AfterIStart
<1>3. em[E] \in Emitter /\ None \notin Targets /\ None \notin Emitters
  BY <1>1, <1>2, Fields, SoundEmitterAssumption
<1>4. em' = [em EXCEPT ![E] = r]
  BY <1>1, <1>2 DEF TypeOK
<1>5. /\ r \in Emitter /\ r.target = t /\ r.state = em[E].state
      /\ r.filled_blocks = em[E].filled_blocks /\ r.current_block = em[E].current_block
      /\ r.temp_buf = em[E].temp_buf
  BY <1>3 DEF Emitter
<1> HIDE DEF r
<1>7. /\ \A e \in Emitters : em'[e] = IF E = e THEN r ELSE em[e]
      /\ em' \in [Emitters -> Emitter]
  BY <1>1, <1>4, <1>5, EmitterSet
<1>8. /\ prog' \in Seq(Step) /\ WellFormed(prog')
      /\ \A op, e : In(op, e)' <=> Later(op, e)
      /\ prog' # <<>> => Head(prog') \in Step /\ Follows(Head(prog), Head(prog'))
  BY <1>1, PopFacts
<1>9. \A op, e : In(op, e) <=> (Head(prog).op = op /\ E = e) \/ Later(op, e)
  BY <1>1, AfterHead
<1>10. GoesOn({})
  BY <1>8 DEF GoesOn
<1>11. \A e \in Emitters : Decoding(e)' <=> Decoding(e)
  BY DEF Decoding
<1>12. \A e \in Emitters : /\ em'[e].state = em[e].state
                           /\ em'[e].filled_blocks = em[e].filled_blocks
                           /\ em'[e].current_block = em[e].current_block
                           /\ em'[e].temp_buf = em[e].temp_buf
                           /\ em'[e].target = IF E = e THEN t ELSE em[e].target
  BY <1>5, <1>7
<1>13. \A e \in Emitters : Playing(e)' <=> Playing(e)
  BY <1>12 DEF Playing
<1>14. /\ \A e \in Emitters, x \in Targets : em[e].target = x <=> tg[x].emitter = e
       /\ \A x \in Targets : x # t => tg'[x] = tg[x]
       /\ tg'[t] = [emitter |-> E, rendering |-> FALSE]
  BY <1>1 DEF Voices, TypeOK
<1>15. \A e \in Emitters : Plays(e)' <=> E = e \/ Plays(e)
  BY <1>3, <1>12 DEF Plays
<1>16. ASSUME NEW e \in Emitters, Plays(e) PROVE E # e /\ (Rendering(e)' <=> Rendering(e))
  <2>1. E # e /\ em'[e].target = em[e].target /\ em[e].target # None
    BY <1>2, <1>12, <1>16 DEF Plays
  <2>2. PICK x \in Targets : x = em[e].target
    BY <1>1, <2>1, Fields
  <2>3. x # t
    BY <1>3, <1>14, <2>1, <2>2
  <2>4. tg'[x] = tg[x]
    BY <1>14, <2>3
  <2> QED
    BY <2>1, <2>2, <2>4 DEF Rendering
<1>17. TypeOK'
  <2>1. [emitter |-> E, rendering |-> FALSE] \in [emitter : Emitters \cup {None}, rendering : BOOLEAN]
    BY <1>2
  <2>2. tg' \in [Targets -> [emitter : Emitters \cup {None}, rendering : BOOLEAN]]
    BY <1>1, <2>1 DEF TypeOK
  <2> QED
    BY <1>1, <1>7, <1>8, <2>2 DEF TypeOK, Step
<1>18. Pointed'
  BY <1>2, <1>11, PointedGoesOn
<1>19. Quiet'
  BY <1>11, QuietPops
<1>20. Lives'
  BY <1>1, <1>2, <1>8, <1>9, <1>11, <1>12, <1>13 DEF Lives
<1>21. Voices'
  <2>1. ASSUME NEW e \in Emitters, NEW x \in Targets PROVE em'[e].target = x <=> tg'[x].emitter = e
    <3>1. CASE x = t
      <4>1. tg'[x].emitter = E
        BY <1>14, <3>1
      <4>2. em'[e].target = x <=> E = e
        BY <1>3, <1>12, <1>14, <3>1
      <4> QED
        BY <4>1, <4>2
    <3>2. CASE x # t
      <4>1. tg'[x] = tg[x]
        BY <1>14, <3>2
      <4>2. em[E].target = None
        BY <1>2 DEF Plays
      <4>3. em'[e].target = x <=> em[e].target = x
        BY <1>3, <1>12, <3>2, <4>2
      <4> QED
        BY <1>14, <4>1, <4>3
    <3> QED
      BY <3>1, <3>2
  <2>2. \A e \in Emitters : Plays(e)' => Playing(e)'
    BY <1>1, <1>2, <1>13, <1>15 DEF Voices
  <2>3. \A e \in Emitters : Playing(e)' /\ ~Plays(e)' =>
           In("i_start", e)' \/ In("simulate", e)' \/ In("stopped", e)'
    BY <1>1, <1>8, <1>9, <1>13, <1>15 DEF Voices
  <2> QED
    BY <1>2, <1>8, <2>1, <2>2, <2>3 DEF Voices
<1>22. Rendered'
  <2>1. \A e \in todo : Plays(e)' => Rendering(e)'
    BY <1>1, <1>2, <1>15, <1>16 DEF Rendered, TypeOK
  <2> QED
    BY <1>2, <1>8, <2>1 DEF Rendered
<1>23. Ring'
  BY <1>10, <1>12, <1>13, RingGoesOn
<1>24. Enough'
  <2>2. \A e \in Emitters : ~In("take", e)'
    BY <1>2, <1>8
  <2>3. ~At("rewind_target")'
    BY <1>8 DEF At, Follows, NextOp
  <2> QED
    BY <1>8, <2>2, <2>3, EnoughNoTakes
<1> QED
  BY <1>8, <1>17, <1>18, <1>19, <1>20, <1>21, <1>22, <1>23, <1>24 DEF IInv

\* A start that takes a target away from another emitter.
LEMMA IStartRivalIInv ==
  ASSUME IInv, prog # <<>>, Head(prog).op = "i_start", NEW t \in Targets, NEW x, x = tg[t].emitter,
         x # None, prog' = Do(StopTarget \o <<"simulate">>, x) \o prog,
         UNCHANGED <<em, tg, task, prefill_task, phase, todo>>
  PROVE  IInv'
<1>1. TypeOK /\ WellFormed(prog) /\ Pointed /\ Quiet /\ Lives /\ Voices /\ Rendered /\ Ring /\ Enough
  BY DEF IInv
<1> DEFINE ops == <<"wait", "release", "simulate">>
<1>2. /\ \A op, e : Later(op, e) => E = e
      /\ \A e : /\ ~Later("take", e) /\ ~Later("fill_all", e) /\ ~Later("rewind_target", e)
                /\ ~Later("i_start", e) /\ ~Later("simulate", e) /\ ~Later("stopped", e)
                /\ ~Later("render", e)
      /\ Playing(E) /\ ~Plays(E) /\ E \in Emitters /\ ~Decoding(E) /\ ~At("store")
      /\ phase = "update" /\ E \notin todo
  BY AfterIStart
<1>3. StopTarget \o <<"simulate">> = ops
  BY ListFits
<1>4. /\ ops \in Seq(Ops) /\ Len(ops) = 3 /\ OpsFit(ops)
      /\ \A op : Has(ops, op) <=> op \in {"wait", "release", "simulate"}
  BY Lists DEF ListOf
<1>5. ops[1] = "wait" /\ ops[2] = "release" /\ ops[3] = "simulate"
  OBVIOUS
<1>6. prog' = Do(ops, x) \o prog
  BY <1>3
<1> HIDE DEF ops
<1>7. x \in Emitters /\ Plays(x) /\ x # E /\ Playing(x)
  <2>1. x \in Emitters /\ None \notin Targets
    BY <1>1, SoundEmitterAssumption DEF TypeOK
  <2>2. em[x].target = t
    BY <1>1, <2>1 DEF Voices
  <2>3. Plays(x)
    BY <2>1, <2>2 DEF Plays
  <2> QED
    BY <1>1, <1>2, <2>1, <2>3 DEF Voices
<1>8. /\ Len(prog) \in Nat /\ Len(prog) > 0 /\ DOMAIN prog = 1 .. Len(prog) /\ Head(prog) = prog[1]
      /\ prog \in Seq(Step) /\ prog[1] \in Step
  BY <1>1, HeadOfProg DEF TypeOK, Step
<1>9. Resumes(prog', 0, x, ops)
  <2>1. IsRest(prog, 0)
    BY <1>8 DEF IsRest
  <2> QED
    BY <1>1, <1>4, <1>6, <1>7, <2>1, Proceed
<1>10. \A op, e : In(op, e) <=> (Head(prog).op = op /\ E = e) \/ Later(op, e)
  BY <1>1, AfterHead
<1>11. \A k \in DOMAIN prog : prog[k] \in Step /\ prog[k].e = E /\ prog[k].op \notin {"take", "render"}
  <2>1. ASSUME NEW k \in DOMAIN prog
        PROVE  prog[k] \in Step /\ prog[k].e = E /\ prog[k].op \notin {"take", "render"}
    <3>1. prog[k] \in Step
      BY <1>8
    <3>2. prog[k] = [op |-> prog[k].op, e |-> prog[k].e]
      BY <3>1 DEF Step
    <3>3. In(prog[k].op, prog[k].e)
      BY <3>2 DEF In
    <3> QED
      BY <1>2, <1>10, <3>1, <3>3
  <2> QED
    BY <2>1
<1>12. WellFormed(prog')
  <2>1. \A j \in 1 .. Len(ops), k \in 0 + 1 .. Len(prog) : Before([op |-> ops[j], e |-> x], prog[k])
    <3>1. ASSUME NEW j \in 1 .. Len(ops), NEW k \in 1 .. Len(prog)
          PROVE  Before([op |-> ops[j], e |-> x], prog[k])
      <4>1. ops[j] \in {"wait", "release", "simulate"}
        BY <1>4, <1>5
      <4> QED
        BY <1>7, <1>8, <1>11, <4>1 DEF Before
    <3> QED
      BY <3>1
  <2>2. Follows([op |-> ops[Len(ops)], e |-> x], prog[0 + 1])
    <3>1. [op |-> ops[Len(ops)], e |-> x].op = "simulate" /\ [op |-> ops[Len(ops)], e |-> x].e = x
      BY <1>4, <1>5
    <3>2. prog[1].e = E /\ prog[1].op = "i_start" /\ 0 + 1 = 1
      BY <1>8 DEF E
    <3> QED
      BY <1>7, <3>1, <3>2 DEF Follows
  <2>3. 0 \in Nat /\ 0 <= Len(prog)
    BY <1>8
  <2> QED
    BY <1>1, <1>4, <1>9, <2>1, <2>2, <2>3, ProceedFits
<1>13. /\ prog' \in Seq(Step) /\ Len(prog') = 3 + Len(prog) /\ DOMAIN (prog') = 1 .. Len(prog')
       /\ \A k \in 1 .. 3 : prog'[k] = [op |-> ops[k], e |-> x]
       /\ \A k \in 4 .. Len(prog') : prog'[k] = prog[k - 3]
       /\ \A k \in 1 .. Len(prog) : prog'[k + 3] = prog[k]
  <2>1. /\ prog' \in Seq(Step) /\ Len(prog') = 3 + Len(prog) - 0 /\ DOMAIN (prog') = 1 .. Len(prog')
        /\ \A k \in 1 .. 3 : prog'[k] = [op |-> ops[k], e |-> x]
        /\ \A k \in 3 + 1 .. Len(prog') : prog'[k] = prog[k - 3 + 0]
        /\ \A k \in 0 + 1 .. Len(prog) : prog'[k + 3 - 0] = prog[k]
    BY <1>4, <1>9 DEF Resumes
  <2> QED
    BY <1>8, <2>1
<1>14. \A op, e : In(op, e)' <=> In(op, e) \/ (e = x /\ op \in {"wait", "release", "simulate"})
  <2>1. ASSUME NEW op, NEW e, In(op, e)'
        PROVE  In(op, e) \/ (e = x /\ op \in {"wait", "release", "simulate"})
    <3>1. PICK k \in 1 .. Len(prog') : prog'[k] = [op |-> op, e |-> e]
      BY <1>13, <2>1 DEF In
    <3>2. CASE k \in 1 .. 3
      <4>1. [op |-> ops[k], e |-> x] = [op |-> op, e |-> e]
        BY <1>13, <3>1, <3>2
      <4> QED
        BY <1>5, <3>2, <4>1
    <3>3. CASE k \in 4 .. Len(prog')
      <4>1. prog[k - 3] = [op |-> op, e |-> e] /\ k - 3 \in 1 .. Len(prog)
        BY <1>8, <1>13, <3>1, <3>3
      <4> QED
        BY <1>8, <4>1 DEF In
    <3> QED
      BY <1>8, <1>13, <3>2, <3>3
  <2>2. ASSUME NEW op, NEW e, In(op, e) PROVE In(op, e)'
    <3>1. PICK k \in 1 .. Len(prog) : prog[k] = [op |-> op, e |-> e]
      BY <1>8, <2>2 DEF In
    <3>2. prog'[k + 3] = [op |-> op, e |-> e] /\ k + 3 \in 1 .. Len(prog')
      BY <1>8, <1>13, <3>1
    <3> QED
      BY <1>13, <3>2 DEF In
  <2>3. ASSUME NEW op \in {"wait", "release", "simulate"} PROVE In(op, x)'
    <3>1. PICK k \in 1 .. 3 : ops[k] = op
      BY <1>5
    <3>2. prog'[k] = [op |-> op, e |-> x] /\ k \in 1 .. Len(prog')
      BY <1>8, <1>13, <3>1
    <3> QED
      BY <1>13, <3>2 DEF In
  <2> QED
    BY <2>1, <2>2, <2>3
<1>15. prog' # <<>> /\ Head(prog').op = "wait"
  <2>1. prog'[1] = [op |-> "wait", e |-> x] /\ Len(prog') > 0
    BY <1>5, <1>8, <1>13
  <2> QED
    BY <1>13, <2>1
<1>16. \A e \in Emitters : (Decoding(e)' <=> Decoding(e)) /\ (Playing(e)' <=> Playing(e))
                          /\ (Plays(e)' <=> Plays(e)) /\ (Rendering(e)' <=> Rendering(e))
                          /\ (Full(e)' <=> Full(e)) /\ (InOrder(e)' <=> InOrder(e))
  BY DEF Decoding, Playing, Plays, Rendering, Full, InOrder
<1>17. TypeOK'
  BY <1>1, <1>13 DEF TypeOK, Step
<1>18. Pointed'
  BY <1>2, <1>16, PointedGoesOn
<1>19. Quiet'
  BY <1>1, <1>14, <1>15, <1>16 DEF Quiet
<1>20. Lives'
  BY <1>1, <1>14, <1>16 DEF Lives
<1>21. Voices'
  BY <1>1, <1>7, <1>14, <1>16 DEF Voices
<1>22. Rendered'
  BY <1>1, <1>2, <1>14, <1>16 DEF Rendered, TypeOK
<1>23. Ring'
  BY <1>1, <1>14, <1>16 DEF Ring
<1>24. Enough'
  <2>1. \A e \in Emitters : ~In("take", e)'
    BY <1>2, <1>10, <1>14
  <2>2. ~At("rewind_target")'
    BY <1>15 DEF At
  <2> QED
    BY <1>13, <2>1, <2>2, EnoughNoTakes
<1> QED
  BY <1>12, <1>17, <1>18, <1>19, <1>20, <1>21, <1>22, <1>23, <1>24 DEF IInv

\* i_start gives the emitter a free voice, or makes one free first.
LEMMA IStartIInv == IInv /\ IStart => IInv'
<1> SUFFICES ASSUME IInv, IStart PROVE IInv'
  OBVIOUS
<1>1. /\ prog # <<>> /\ Head(prog).op = "i_start" /\ UNCHANGED <<task, prefill_task>>
      /\ \E t \in Targets :
           \/ /\ tg[t].emitter = None /\ prog' = Do(<<>>, E) \o Tail(prog) /\ UNCHANGED <<phase, todo>>
              /\ em' = [em EXCEPT ![E].target = t]
              /\ tg' = [tg EXCEPT ![t] = [emitter |-> E, rendering |-> FALSE]]
           \/ /\ tg[t].emitter # None
              /\ prog' = Do(StopTarget \o <<"simulate">>, tg[t].emitter) \o prog
              /\ UNCHANGED <<em, tg, phase, todo>>
  BY DEF IStart, At, Then
<1>2. PICK t \in Targets :
           \/ /\ tg[t].emitter = None /\ prog' = Do(<<>>, E) \o Tail(prog) /\ UNCHANGED <<phase, todo>>
              /\ em' = [em EXCEPT ![E].target = t]
              /\ tg' = [tg EXCEPT ![t] = [emitter |-> E, rendering |-> FALSE]]
           \/ /\ tg[t].emitter # None
              /\ prog' = Do(StopTarget \o <<"simulate">>, tg[t].emitter) \o prog
              /\ UNCHANGED <<em, tg, phase, todo>>
  BY <1>1
<1>3. CASE tg[t].emitter = None
  BY <1>1, <1>2, <1>3, IStartFreeIInv
<1>4. CASE tg[t].emitter # None
  <2>1. PICK x : x = tg[t].emitter
    OBVIOUS
  <2> QED
    BY <1>1, <1>2, <1>4, <2>1, IStartRivalIInv
<1> QED
  BY <1>3, <1>4

\* What comes after the steps of update that change the state, and what holds
\* of the emitter by then.
LEMMA AfterFsm ==
  ASSUME IInv, prog # <<>>, Head(prog).op \in {"fsm", "deferred", "footer"}
  PROVE  /\ \A op, e : Later(op, e) => E = e /\ op \in {"deferred", "footer"}
         /\ E \in Emitters /\ phase # "render" /\ ~At("store")
         /\ Plays(E) <=> Playing(E)
         /\ Playing(E) => Decoding(E) \/ Full(E)
         /\ Decoding(E) => Playing(E)
         /\ Head(prog).op = "fsm" => phase = "update" /\ E \notin todo
<1>1. TypeOK /\ WellFormed(prog) /\ Lives /\ Voices /\ Rendered /\ Ring
  BY DEF IInv
<1>2. /\ \A op, e : In(op, e) <=> (Head(prog).op = op /\ E = e) \/ Later(op, e)
      /\ \A op, e : E = e /\ Later(op, e) => BeforeOp(Head(prog).op, op)
      /\ \A op, e : e # E /\ Later(op, e) =>
            Head(prog).op \in {"wait", "release", "simulate"} /\ op \notin {"take", "render"}
  BY <1>1, AfterHead
<1>3. \A op : BeforeOp(Head(prog).op, op) => op \in {"deferred", "footer"}
  BY DEF BeforeOp
<1>4. \A op, e : Later(op, e) => E = e
  BY <1>2
<1>5. \A op, e : Later(op, e) => op \in {"deferred", "footer"}
  BY <1>2, <1>3, <1>4
<1>6. E \in Emitters /\ Head(prog).op \in Ops
  BY <1>1, HeadOfProg
<1>7. \A op \in {"add", "i_start", "simulate", "stopped", "release"} : ~In(op, E)
  BY <1>2, <1>5
<1>8. PICK x \in Emitters : x = E
  BY <1>6
<1>9. In(Head(prog).op, x)
  BY <1>2, <1>8
<1>10. phase # "render"
  BY <1>1, <1>6, <1>9 DEF Rendered
<1>11. (Plays(E) <=> Playing(E)) /\ (Decoding(E) => Playing(E)) /\ (Playing(E) => Decoding(E) \/ Full(E))
  BY <1>1, <1>6, <1>7 DEF Voices, Lives, Ring
<1>12. ~At("store")
  BY DEF At
<1>13. Head(prog).op = "fsm" => phase = "update" /\ E \notin todo
  BY <1>1, <1>8, <1>9 DEF Lives
<1> QED
  BY <1>4, <1>5, <1>6, <1>10, <1>11, <1>12, <1>13

\* The ring and the target of the emitter at hand stay.
Keeps(r) ==
    /\ r \in Emitter /\ r.target = em[E].target
    /\ r.filled_blocks = em[E].filled_blocks /\ r.current_block = em[E].current_block
    /\ r.temp_buf = em[E].temp_buf

\* The operations ops, which are those of N, fit a state.
Puts(state, ops, N) ==
    /\ ops \in Seq(Ops) /\ OpsFit(ops) /\ Len(ops) > 0 /\ \A op : Has(ops, op) <=> op \in N
    /\ N \cap {"fsm", "deferred", "footer", "render", "take", "rewind_target", "fill_all"} = {}
    /\ ops[1] = "wait" \/ ~Decoding(E)
    /\ Decoding(E) \/ "add" \in N \/ Plays(E) => state = "Playing"
    /\ "delete" \in N => state = "Stopped"
    /\ "i_start" \in N => state = "Playing" /\ ~Plays(E) /\ ~Decoding(E) /\ Head(prog).op = "fsm"
    /\ "release" \in N => "simulate" \in N \/ "stopped" \in N
    /\ Plays(E) /\ ("simulate" \in N \/ "stopped" \in N) => "release" \in N
    /\ state = "Playing" => Plays(E) \/ "i_start" \in N
    /\ state = "Playing" => Decoding(E) \/ Full(E) \/ "add" \in N

\* Operations that update puts first for the emitter at hand.
LEMMA CallPushes ==
  ASSUME IInv, prog # <<>>, Head(prog).op \in {"fsm", "deferred", "footer"},
         UNCHANGED <<tg, task, prefill_task, phase, todo>>,
         NEW r, em' = [em EXCEPT ![E] = r], Keeps(r),
         NEW ops, NEW N, prog' = Do(ops, E) \o Tail(prog), Puts(r.state, ops, N)
  PROVE  IInv'
<1>0. /\ r \in Emitter /\ r.target = em[E].target
      /\ r.filled_blocks = em[E].filled_blocks /\ r.current_block = em[E].current_block
      /\ r.temp_buf = em[E].temp_buf
      /\ N \cap {"fsm", "deferred", "footer", "render", "take", "rewind_target", "fill_all"} = {}
      /\ ops[1] = "wait" \/ ~Decoding(E)
      /\ Decoding(E) \/ "add" \in N \/ Plays(E) => r.state = "Playing"
      /\ "delete" \in N => r.state = "Stopped"
      /\ "i_start" \in N => r.state = "Playing" /\ ~Plays(E) /\ ~Decoding(E) /\ Head(prog).op = "fsm"
      /\ "release" \in N => "simulate" \in N \/ "stopped" \in N
      /\ Plays(E) /\ ("simulate" \in N \/ "stopped" \in N) => "release" \in N
      /\ r.state = "Playing" => Plays(E) \/ "i_start" \in N
      /\ r.state = "Playing" => Decoding(E) \/ Full(E) \/ "add" \in N
  BY DEF Keeps, Puts
<1>1. TypeOK /\ WellFormed(prog) /\ Pointed /\ Quiet /\ Lives /\ Voices /\ Rendered /\ Ring /\ Enough
  BY DEF IInv
<1>2. /\ \A op, e : Later(op, e) => E = e /\ op \in {"deferred", "footer"}
      /\ E \in Emitters /\ phase # "render" /\ ~At("store")
      /\ Head(prog).op = "fsm" => phase = "update" /\ E \notin todo
  BY AfterFsm
<1>3. /\ ops \in Seq(Ops) /\ OpsFit(ops) /\ Len(ops) > 0 /\ Len(ops) \in Nat
      /\ \A op : Has(ops, op) <=> op \in N
  <2>1. ops \in Seq(Ops) /\ OpsFit(ops) /\ Len(ops) > 0 /\ \A op : Has(ops, op) <=> op \in N
    BY DEF Puts
  <2> QED
    BY <2>1
<1>4. \A j \in 1 .. Len(ops) : ops[j] \in N
  BY <1>3 DEF Has
<1>5. \A op, e : In(op, e) <=> (Head(prog).op = op /\ E = e) \/ Later(op, e)
  BY <1>1, AfterHead
<1>6. /\ prog' \in Seq(Step)
      /\ \A op, e : In(op, e)' <=> (E = e /\ op \in N) \/ Later(op, e)
      /\ Head(prog') = [op |-> ops[1], e |-> E] /\ prog' # <<>>
  BY <1>1, <1>3, StepOn
<1>7. WellFormed(prog')
  <2>1. ASSUME NEW j \in 1 .. Len(ops), NEW op, NEW e, Later(op, e)
        PROVE  Before([op |-> ops[j], e |-> E], [op |-> op, e |-> e])
    <3>1. E = e /\ op \in {"deferred", "footer"}
      BY <1>2, <2>1
    <3>2. ops[j] \notin {"fsm", "deferred", "footer", "render"}
      BY <1>0, <1>4
    <3>3. BeforeOp(ops[j], op)
      BY <3>1, <3>2 DEF BeforeOp
    <3> QED
      BY <3>1, <3>3 DEF Before
  <2>2. ASSUME Len(prog) > 1 PROVE Follows([op |-> ops[Len(ops)], e |-> E], prog[2])
    <3>0. prog \in Seq(Step) /\ 2 \in 2 .. Len(prog) /\ 2 \in 1 .. Len(prog)
      <4>1. prog \in Seq(Step) /\ Len(prog) \in Nat
        BY <1>1, HeadOfProg DEF TypeOK, Step
      <4> QED
        BY <2>2, <4>1
    <3>1. prog[2] \in Step /\ 2 \in 2 .. Len(prog)
      BY <3>0
    <3>2. prog[2] = [op |-> prog[2].op, e |-> prog[2].e]
      BY <3>1 DEF Step
    <3>3. Later(prog[2].op, prog[2].e)
      BY <3>1, <3>2 DEF Later
    <3>4. prog[2].e = E /\ prog[2].op \in {"deferred", "footer"}
      BY <1>2, <3>3
    <3>5. ops[Len(ops)] \in N /\ ops[Len(ops)] # "add"
      BY <1>3, <1>4 DEF OpsFit
    <3>6. NextOp(ops[Len(ops)], prog[2].op)
      BY <1>0, <3>4, <3>5 DEF NextOp
    <3> QED
      BY <3>4, <3>6 DEF Follows
  <2> QED
    BY <1>1, <1>3, <2>1, <2>2, StepFits
<1>8. /\ \A e \in Emitters : em'[e] = IF E = e THEN r ELSE em[e]
      /\ em' \in [Emitters -> Emitter]
  BY <1>0, <1>1, EmitterSet
<1>9. \A e \in Emitters : Decoding(e)' <=> Decoding(e)
  BY DEF Decoding
<1>10. \A e \in Emitters : /\ em'[e].filled_blocks = em[e].filled_blocks
                           /\ em'[e].current_block = em[e].current_block
                           /\ em'[e].temp_buf = em[e].temp_buf
                           /\ em'[e].target = em[e].target
  BY <1>0, <1>8
<1>11. \A e \in Emitters : /\ (Plays(e)' <=> Plays(e)) /\ (Rendering(e)' <=> Rendering(e))
                           /\ (Full(e)' <=> Full(e)) /\ (InOrder(e)' <=> InOrder(e))
  BY <1>10 DEF Plays, Rendering, Full, InOrder
<1>12. \A e \in Emitters : E # e => (Playing(e)' <=> Playing(e)) /\ em'[e] = em[e]
  BY <1>8 DEF Playing
<1>13. \A e \in Emitters : E = e => (Playing(e)' <=> r.state = "Playing") /\ em'[e] = r
  BY <1>8 DEF Playing
<1>14. TypeOK'
  BY <1>1, <1>6, <1>8 DEF TypeOK, Step
<1>15. Pointed'
  BY <1>2, <1>9, PointedGoesOn
<1>16. Quiet'
  BY <1>0, <1>3, <1>9, QuietPushes
<1>17. \A e \in Emitters : E # e => \A op : ~In(op, e)' /\ ~In(op, e)
  BY <1>2, <1>5, <1>6
<1>18. \A e \in Emitters : E = e => \A op : op \notin {"deferred", "footer"} => (In(op, e)' <=> op \in N)
  BY <1>2, <1>6
<1>19. Lives'
  <2>1. ASSUME NEW e \in Emitters
        PROVE  /\ Decoding(e)' \/ In("add", e)' => Playing(e)'
               /\ In("delete", e)' => em'[e].state = "Stopped"
               /\ In("i_start", e)' => Playing(e)' /\ ~Plays(e)'
               /\ In("i_start", e)' \/ In("fsm", e)' => phase' = "update" /\ e \notin todo'
    <3>1. CASE E = e
      BY <1>0, <1>2, <1>9, <1>11, <1>13, <1>18, <3>1
    <3>2. CASE E # e
      BY <1>1, <1>9, <1>11, <1>12, <1>17, <3>2 DEF Lives
    <3> QED
      BY <3>1, <3>2
  <2> QED
    BY <2>1 DEF Lives
<1>20. Voices'
  <2>1. \A e \in Emitters, t \in Targets : em'[e].target = t <=> tg'[t].emitter = e
    BY <1>1, <1>10 DEF Voices
  <2>2. ASSUME NEW e \in Emitters
        PROVE  /\ Plays(e)' => Playing(e)'
               /\ Playing(e)' /\ ~Plays(e)' => In("i_start", e)' \/ In("simulate", e)' \/ In("stopped", e)'
               /\ In("release", e)' => In("simulate", e)' \/ In("stopped", e)'
               /\ Plays(e)' /\ (In("simulate", e)' \/ In("stopped", e)') => In("release", e)'
    <3>1. CASE E = e
      BY <1>0, <1>11, <1>13, <1>18, <3>1
    <3>2. CASE E # e
      BY <1>1, <1>11, <1>12, <1>17, <3>2 DEF Voices
    <3> QED
      BY <3>1, <3>2
  <2> QED
    BY <2>1, <2>2 DEF Voices
<1>21. Rendered'
  <2>0. todo \subseteq Emitters
    BY <1>1 DEF TypeOK
  <2>1. \A e \in Emitters : ~In("render", e)' /\ ~In("fill_all", e)' /\ ~In("rewind_target", e)'
    BY <1>0, <1>17, <1>18
  <2> QED
    BY <1>1, <1>2, <1>11, <2>0, <2>1 DEF Rendered
<1>22. Ring'
  <2>1. ASSUME NEW e \in Emitters
        PROVE  /\ InOrder(e)'
               /\ task'[e].pc = "loop" => task'[e].next = Slot(em'[e].current_block + em'[e].filled_blocks)
               /\ Playing(e)' => Decoding(e)' \/ Full(e)' \/ In("add", e)'
               /\ In("take", e)' \/ In("fill_all", e)' \/ In("rewind_target", e)' => In("add", e)'
    <3>0. InOrder(e)' /\ (task'[e].pc = "loop" => task'[e].next = Slot(em'[e].current_block + em'[e].filled_blocks))
      BY <1>1, <1>10, <1>11 DEF Ring
    <3>1. CASE E = e
      BY <1>0, <1>9, <1>11, <1>13, <1>18, <3>0, <3>1
    <3>2. CASE E # e
      BY <1>1, <1>9, <1>11, <1>12, <1>17, <3>0, <3>2 DEF Ring
    <3> QED
      BY <3>1, <3>2
  <2> QED
    BY <2>1 DEF Ring
<1>23. Enough'
  <2>1. \A e \in Emitters : ~In("take", e)'
    BY <1>0, <1>17, <1>18
  <2>2. ~At("rewind_target")'
    <3>1. Head(prog').op \in N
      BY <1>3, <1>4, <1>6
    <3> QED
      BY <1>0, <3>1 DEF At
  <2> QED
    BY <1>6, <2>1, <2>2, EnoughNoTakes
<1> QED
  BY <1>7, <1>14, <1>15, <1>16, <1>19, <1>20, <1>21, <1>22, <1>23 DEF IInv

\* The record of the emitter at hand with another state.
LEMMA StateSet ==
  ASSUME TypeOK, prog # <<>>, NEW s \in States
  PROVE  Keeps([em[E] EXCEPT !.state = s]) /\ [em[E] EXCEPT !.state = s].state = s
<1>1. em[E] \in Emitter
  BY HeadOfProg, Fields
<1> QED
  BY <1>1 DEF Emitter, Keeps

\* The switch changes the state without more to do.
LEMMA BecomePops ==
  ASSUME IInv, At("fsm"), NEW s \in States, Become(s, <<>>), (s = "Playing") = Playing(E)
  PROVE  IInv'
<1> DEFINE r == [em[E] EXCEPT !.state = s]
<1>1. /\ prog # <<>> /\ Head(prog).op = "fsm" /\ prog' = Do(<<>>, E) \o Tail(prog)
      /\ em' = [em EXCEPT ![E] = r] /\ UNCHANGED <<tg, task, prefill_task, phase, todo>>
  BY DEF Become, EmitterStep, At, Then
<1>2. Keeps(r) /\ r.state = s
  BY <1>1, StateSet DEF IInv
<1> HIDE DEF r
<1>3. (r.state = "Playing") = (em[E].state = "Playing")
  BY <1>2 DEF Playing
<1> QED
  BY <1>1, <1>2, <1>3, EmitterPops DEF Keeps

\* The switch puts these operations first.
LEMMA BecomePuts ==
  ASSUME IInv, At("fsm"), NEW s \in States, NEW ops, Become(s, ops), NEW N, Puts(s, ops, N)
  PROVE  IInv'
<1> DEFINE r == [em[E] EXCEPT !.state = s]
<1>1. /\ prog # <<>> /\ Head(prog).op \in {"fsm", "deferred", "footer"} /\ prog' = Do(ops, E) \o Tail(prog)
      /\ em' = [em EXCEPT ![E] = r] /\ UNCHANGED <<tg, task, prefill_task, phase, todo>>
  BY DEF Become, EmitterStep, At, Then
<1>2. Keeps(r) /\ r.state = s
  BY <1>1, StateSet DEF IInv
<1> HIDE DEF r
<1>3. Puts(r.state, ops, N)
  BY <1>2
<1> QED
  BY <1>1, <1>2, <1>3, CallPushes, Zenon

\* The switch stops the voice, and the state changes after the wait.
LEMMA BecomeQuiet ==
  ASSUME IInv, At("fsm"), em[E].state = "Playing", NEW op \in {"simulate", "stopped"},
         Become("Playing", StopTarget \o <<op>>)
  PROVE  IInv'
<1>1. PICK ops : ops = StopTarget \o <<op>>
  OBVIOUS
<1>2. PICK N : N = {"wait", "release", op}
  OBVIOUS
<1>3. ops = <<"wait", "release", op>>
  BY <1>1, ListFits
<1>4. ListOf(ops, 3, N) /\ ops[1] = "wait"
  <2>1. CASE op = "simulate"
    BY <1>2, <1>3, <2>1, Lists
  <2>2. CASE op = "stopped"
    BY <1>2, <1>3, <2>2, Lists
  <2> QED
    BY <2>1, <2>2
<1>5. Plays(E) /\ (Decoding(E) \/ Full(E))
  <2>1. prog # <<>> /\ Head(prog).op = "fsm"
    BY DEF At
  <2> QED
    BY <2>1, AfterFsm DEF Playing
<1>6. Puts("Playing", ops, N)
  BY <1>2, <1>3, <1>4, <1>5 DEF Puts, ListOf
<1>7. "Playing" \in States /\ Become("Playing", ops)
  BY <1>1 DEF States
<1> QED
  BY <1>6, <1>7, BecomePuts

\* The switch starts the emitter.
LEMMA StartIInv ==
  ASSUME IInv, At("fsm"), em[E].state # "Playing", Start(<<"set_cursor">>)
  PROVE  IInv'
<1>1. PICK ops : ops = <<"set_cursor">> \o <<"i_start">> \o Dispatch
  OBVIOUS
<1>2. PICK N : N = {"set_cursor", "i_start", "wait", "add", "store"}
  OBVIOUS
<1>3. ops = <<"set_cursor", "i_start", "wait", "add", "store">>
  BY <1>1, ListFits
<1>4. ListOf(ops, 5, N)
  BY <1>2, <1>3, Lists
<1>5. ~Plays(E) /\ ~Decoding(E) /\ Head(prog).op = "fsm"
  <2>1. prog # <<>> /\ Head(prog).op = "fsm"
    BY DEF At
  <2> QED
    BY <2>1, AfterFsm DEF Playing
<1>6. Puts("Playing", ops, N)
  BY <1>2, <1>3, <1>4, <1>5 DEF Puts, ListOf
<1>7. "Playing" \in States /\ Become("Playing", ops)
  BY <1>1 DEF States, Start
<1> QED
  BY <1>6, <1>7, BecomePuts

\* A simulated sound moves its cursor.
LEMMA BecomeMoves ==
  ASSUME IInv, At("fsm"), em[E].state = "Simulating", Become("Simulating", <<"set_cursor">>)
  PROVE  IInv'
<1>1. PICK ops : ops = <<"set_cursor">>
  OBVIOUS
<1>2. PICK N : N = {"set_cursor"}
  OBVIOUS
<1>4. ListOf(ops, 1, N)
  BY <1>1, <1>2, Lists
<1>5. ~Plays(E) /\ ~Decoding(E) /\ Head(prog).op = "fsm"
  <2>1. prog # <<>> /\ Head(prog).op = "fsm"
    BY DEF At
  <2> QED
    BY <2>1, AfterFsm DEF Playing
<1>6. Puts("Simulating", ops, N)
  BY <1>2, <1>4, <1>5 DEF Puts, ListOf
<1>7. "Simulating" \in States /\ Become("Simulating", ops)
  BY <1>1 DEF States
<1> QED
  BY <1>6, <1>7, BecomePuts

\* The switch over the state, for each of its branches.
LEMMA FsmIInv == IInv /\ Fsm => IInv'
<1> SUFFICES ASSUME IInv, Fsm PROVE IInv'
  OBVIOUS
<1> DEFINE s == em[E].state
<1>1. At("fsm") /\ s \in States
  <2>1. At("fsm") /\ prog # <<>> /\ TypeOK
    BY DEF IInv, Fsm, At
  <2>2. E \in Emitters
    BY <2>1, HeadOfProg
  <2> QED
    BY <2>1, <2>2, Fields
<1>2. \/ Become(s, <<>>)
      \/ s = "StartingDelayed" /\ Become("Starting", <<>>)
      \/ s = "Starting" /\ (Start(<<"set_cursor">>) \/ Become("Simulating", <<>>))
      \/ s = "Playing" /\ Become(s, StopTarget \o <<"simulate">>)
      \/ s = "Playing" /\ Become(s, StopTarget \o <<"stopped">>)
      \/ s = "Simulating" /\ Become("Stopped", <<>>)
      \/ s = "Simulating" /\ (Start(<<"set_cursor">>) \/ Become(s, <<"set_cursor">>))
  BY DEF Fsm
<1>3. {"Starting", "Simulating", "Stopped"} \subseteq States
  BY DEF States
<1>4. CASE Become(s, <<>>)
  BY <1>1, <1>4, BecomePops DEF Playing
<1>5. CASE s = "StartingDelayed" /\ Become("Starting", <<>>)
  BY <1>1, <1>3, <1>5, BecomePops DEF Playing
<1>6. CASE s = "Starting" /\ Become("Simulating", <<>>)
  BY <1>1, <1>3, <1>6, BecomePops DEF Playing
<1>7. CASE s = "Simulating" /\ Become("Stopped", <<>>)
  BY <1>1, <1>3, <1>7, BecomePops DEF Playing
<1>8. CASE s \in {"Starting", "Simulating"} /\ Start(<<"set_cursor">>)
  BY <1>1, <1>8, StartIInv
<1>9. CASE s = "Playing" /\ Become(s, StopTarget \o <<"simulate">>)
  BY <1>1, <1>9, BecomeQuiet
<1>10. CASE s = "Playing" /\ Become(s, StopTarget \o <<"stopped">>)
  BY <1>1, <1>10, BecomeQuiet
<1>11. CASE s = "Simulating" /\ Become(s, <<"set_cursor">>)
  BY <1>1, <1>11, BecomeMoves
<1> QED
  BY <1>2, <1>4, <1>5, <1>6, <1>7, <1>8, <1>9, <1>10, <1>11

\* A stop that was deferred takes place, or does not yet.
LEMMA DeferredIInv == IInv /\ Deferred => IInv'
<1> SUFFICES ASSUME IInv, Deferred PROVE IInv'
  OBVIOUS
<1>1. TypeOK
  BY DEF IInv
<1>2. /\ prog # <<>> /\ Head(prog).op = "deferred" /\ UNCHANGED <<tg, task, prefill_task, phase, todo>>
      /\ \/ em' = [em EXCEPT ![E] = em[E]] /\ prog' = Do(<<>>, E) \o Tail(prog)
         \/ /\ em' = [em EXCEPT ![E] = [em[E] EXCEPT !.bRewind = FALSE]]
            /\ prog' = Do(IStop(E), E) \o Tail(prog)
  BY DEF Deferred, EmitterStep, At, Then
<1>3. em[E] \in Emitter
  BY <1>1, <1>2, HeadOfProg, Fields
<1>4. CASE em' = [em EXCEPT ![E] = em[E]] /\ prog' = Do(<<>>, E) \o Tail(prog)
  BY <1>2, <1>3, <1>4, EmitterPops
<1>5. CASE /\ em' = [em EXCEPT ![E] = [em[E] EXCEPT !.bRewind = FALSE]]
           /\ prog' = Do(IStop(E), E) \o Tail(prog)
  <2> DEFINE r == [em[E] EXCEPT !.bRewind = FALSE]
  <2>1. Keeps(r) /\ r.state = em[E].state
    BY <1>3 DEF Emitter, Keeps
  <2>2. em' = [em EXCEPT ![E] = r]
    BY <1>5
  <2> HIDE DEF r
  <2>3. /\ Plays(E) <=> r.state = "Playing"
        /\ r.state = "Playing" => Decoding(E) \/ Full(E)
        /\ Decoding(E) => r.state = "Playing"
    BY <1>2, <2>1, AfterFsm DEF Playing
  <2>4. PICK ops : ops = IStop(E)
    OBVIOUS
  <2>5. CASE em[E].target = None
    <3>1. ops = <<"wait", "stopped">>
      BY <2>4, <2>5, ListFits DEF IStop
    <3>2. PICK N : N = {"wait", "stopped"}
      OBVIOUS
    <3>3. ListOf(ops, 2, N) /\ ops[1] = "wait"
      BY <3>1, <3>2, Lists
    <3>5. ~Plays(E)
      BY <2>5 DEF Plays
    <3>4. Puts(r.state, ops, N)
      BY <2>3, <3>2, <3>3, <3>5 DEF Puts, ListOf
    <3>6. prog' = Do(ops, E) \o Tail(prog) /\ Head(prog).op \in {"fsm", "deferred", "footer"}
      BY <1>2, <1>5, <2>4
    <3> QED
      BY <1>2, <2>1, <2>2, <3>4, <3>6, CallPushes, Zenon
  <2>6. CASE em[E].target # None
    <3>1. ops = <<"wait", "release", "wait", "stopped">>
      BY <2>4, <2>6, ListFits DEF IStop
    <3>2. PICK N : N = {"wait", "release", "stopped"}
      OBVIOUS
    <3>3. ListOf(ops, 4, N) /\ ops[1] = "wait"
      BY <3>1, <3>2, Lists
    <3>4. Puts(r.state, ops, N)
      BY <2>3, <3>2, <3>3 DEF Puts, ListOf
    <3>5. prog' = Do(ops, E) \o Tail(prog) /\ Head(prog).op \in {"fsm", "deferred", "footer"}
      BY <1>2, <1>5, <2>4
    <3> QED
      BY <1>2, <2>1, <2>2, <3>4, <3>5, CallPushes, Zenon
  <2> QED
    BY <2>5, <2>6
<1> QED
  BY <1>2, <1>4, <1>5

\* A stopped emitter is deleted at the end of its update.
LEMMA FooterIInv == IInv /\ Footer => IInv'
<1> SUFFICES ASSUME IInv, Footer PROVE IInv'
  OBVIOUS
<1>1. TypeOK
  BY DEF IInv
<1>2. /\ prog # <<>> /\ Head(prog).op = "footer" /\ UNCHANGED <<tg, task, prefill_task, phase, todo>>
      /\ em' = [em EXCEPT ![E] = em[E]]
      /\ prog' = Do(IF em[E].state = "Stopped" THEN <<"wait", "delete">> ELSE <<>>, E) \o Tail(prog)
  BY DEF Footer, EmitterStep, At, Then
<1>3. em[E] \in Emitter
  BY <1>1, <1>2, HeadOfProg, Fields
<1>4. CASE em[E].state = "Stopped"
  <2>1. PICK ops : ops = <<"wait", "delete">>
    OBVIOUS
  <2>2. PICK N : N = {"wait", "delete"}
    OBVIOUS
  <2>3. ListOf(ops, 2, N) /\ ops[1] = "wait" /\ prog' = Do(ops, E) \o Tail(prog)
    BY <1>2, <1>4, <2>1, <2>2, Lists
  <2>5. ~Plays(E) /\ ~Decoding(E)
    BY <1>2, <1>4, AfterFsm DEF Playing
  <2>6. PICK r : r = em[E]
    OBVIOUS
  <2>7. Puts(r.state, ops, N)
    BY <1>4, <2>2, <2>3, <2>5, <2>6 DEF Puts, ListOf
  <2>8. Keeps(r) /\ em' = [em EXCEPT ![E] = r] /\ Head(prog).op \in {"fsm", "deferred", "footer"}
    BY <1>2, <1>3, <2>6 DEF Keeps
  <2> QED
    BY <1>2, <2>3, <2>7, <2>8, CallPushes, Zenon
<1>5. CASE em[E].state # "Stopped"
  BY <1>2, <1>3, <1>5, EmitterPops
<1> QED
  BY <1>4, <1>5

\* A rewound voice takes its blocks from a ring that is full.
LEMMA RewindTargetIInv == IInv /\ RewindTarget => IInv'
<1> SUFFICES ASSUME IInv, RewindTarget PROVE IInv'
  OBVIOUS
<1>1. TypeOK /\ WellFormed(prog) /\ Pointed /\ Quiet /\ Lives /\ Voices /\ Rendered /\ Ring /\ Enough
  BY DEF IInv
<1>2. PICK ops : ops = Repeat(ObtainBlock, Submit)
  OBVIOUS
<1>3. /\ prog # <<>> /\ Head(prog).op = "rewind_target" /\ prog' = Do(ops, E) \o Tail(prog)
      /\ em' = [em EXCEPT ![E] = em[E]] /\ UNCHANGED <<tg, task, prefill_task, phase, todo>>
  BY <1>2 DEF RewindTarget, EmitterStep, At, Then
<1>4. E \in Emitters /\ Submit \in Nat /\ Submit > 0 /\ Prefill \in Nat /\ Prefill >= Submit
  BY <1>1, <1>3, HeadOfProg, SoundEmitterAssumption
<1>5. em' = em
  BY <1>1, <1>3, <1>4 DEF TypeOK
<1>6. /\ ops \in Seq(Ops) /\ Len(ops) = 2 * Submit /\ OpsFit(ops) /\ Len(ops) > 0 /\ Len(ops) \in Nat
      /\ \A k \in 1 .. 2 * Submit : ops[k] = IF k % 2 = 1 THEN "wait" ELSE "take"
      /\ \A op : Has(ops, op) => op \in {"wait", "take"}
  <2>1. /\ ops \in Seq(Ops) /\ Len(ops) = 2 * Submit /\ OpsFit(ops)
        /\ \A k \in 1 .. 2 * Submit : ops[k] = IF k % 2 = 1 THEN "wait" ELSE "take"
        /\ \A op : Has(ops, op) => op \in {"wait", "take"}
    BY <1>2, <1>4, RepeatList
  <2> QED
    BY <1>4, <2>1
<1>7. ops[1] = "wait" /\ ops[2] = "take" /\ ops[2 * Submit] = "take"
  <2>1. 1 \in 1 .. 2 * Submit /\ 2 \in 1 .. 2 * Submit /\ 2 * Submit \in 1 .. 2 * Submit
    BY <1>4
  <2>2. 1 % 2 = 1 /\ 2 % 2 = 0 /\ (2 * Submit) % 2 = 0
    BY <1>4
  <2> QED
    BY <1>6, <2>1, <2>2
<1>8. Has(ops, "wait") /\ Has(ops, "take")
  <2>1. 1 \in 1 .. Len(ops) /\ 2 \in 1 .. Len(ops)
    BY <1>4, <1>6
  <2> QED
    BY <1>7, <2>1 DEF Has
<1>9. /\ \A op, e : In(op, e) <=> (Head(prog).op = op /\ E = e) \/ Later(op, e)
      /\ \A op, e : E = e /\ Later(op, e) => BeforeOp(Head(prog).op, op)
      /\ \A op, e : Later(op, e) => E = e
  BY <1>1, <1>3, AfterHead
<1>10. \A op, e : Later(op, e) => /\ E = e
                                  /\ op \notin {"take", "i_start", "fill_all", "rewind_target", "render"}
  <2>1. \A op \in {"take", "i_start", "fill_all", "rewind_target", "render"} :
           ~BeforeOp(Head(prog).op, op)
    BY <1>3 DEF BeforeOp
  <2> QED
    BY <1>9, <2>1
<1>11. /\ prog' \in Seq(Step)
       /\ \A op, e : In(op, e)' <=> (E = e /\ Has(ops, op)) \/ Later(op, e)
       /\ \A k \in DOMAIN prog' :
            \/ k \in 1 .. Len(ops) /\ prog'[k] = [op |-> ops[k], e |-> E]
            \/ /\ k > Len(ops) /\ k - Len(ops) + 1 \in DOMAIN prog
               /\ prog'[k] = prog[k - Len(ops) + 1]
       /\ Head(prog') = [op |-> ops[1], e |-> E] /\ prog' # <<>>
  BY <1>1, <1>3, <1>6, StepOn
<1>12. WellFormed(prog')
  <2>1. ASSUME NEW j \in 1 .. Len(ops), NEW op, NEW e, Later(op, e)
        PROVE  Before([op |-> ops[j], e |-> E], [op |-> op, e |-> e])
    <3>1. ops[j] \in {"wait", "take"}
      BY <1>6
    <3>2. E = e /\ op \notin {"take", "i_start", "fill_all", "rewind_target", "render"}
      BY <1>10, <2>1
    <3>3. BeforeOp(ops[j], op)
      BY <3>1, <3>2 DEF BeforeOp
    <3> QED
      BY <3>2, <3>3 DEF Before
  <2>2. ASSUME Len(prog) > 1 PROVE Follows([op |-> ops[Len(ops)], e |-> E], prog[2])
    <3>1. prog \in Seq(Step) /\ Len(prog) \in Nat /\ Head(prog) = prog[1]
      BY <1>1, <1>3, HeadOfProg DEF TypeOK, Step
    <3>2. 1 \in DOMAIN prog /\ 1 + 1 \in DOMAIN prog /\ 1 + 1 = 2
      BY <2>2, <3>1
    <3>3. Follows(prog[1], prog[2])
      BY <1>1, <3>2 DEF WellFormed
    <3>4. prog[2].op = "wait" /\ prog[2].e = E
      BY <1>3, <3>1, <3>3 DEF Follows, NextOp, E
    <3>5. NextOp("take", "wait")
      BY DEF NextOp
    <3> QED
      BY <1>6, <1>7, <3>4, <3>5 DEF Follows
  <2> QED
    BY <1>1, <1>3, <1>6, <2>1, <2>2, StepFits
<1>13. PICK N : N = {"wait", "take"}
  OBVIOUS
<1>14. GoesOn(N)
  BY <1>6, <1>8, <1>11, <1>13 DEF GoesOn
<1>15. \A e \in Emitters : (Decoding(e)' <=> Decoding(e)) /\ (Playing(e)' <=> Playing(e))
  BY <1>3, <1>5 DEF Decoding, Playing
<1>16. TypeOK'
  BY <1>1, <1>3, <1>5, <1>11 DEF TypeOK, Step
<1>17. Pointed'
  <2>1. ~At("store")
    BY <1>3 DEF At
  <2> QED
    BY <1>3, <1>15, <2>1, PointedGoesOn
<1>18. ~Has(ops, "i_start")
  BY <1>6
<1>19. Quiet'
  BY <1>3, <1>6, <1>7, <1>15, <1>18, QuietPushes
<1>20. Lives' /\ Voices' /\ Rendered'
  <2>1. \A e \in Emitters : In("delete", e)' => em'[e].state = "Stopped"
    BY <1>1, <1>5, <1>6, <1>9, <1>11 DEF Lives
  <2>2. /\ N \cap {"i_start", "fsm", "fill_all", "rewind_target", "render"} = {}
        /\ "add" \notin N /\ "release" \notin N /\ "simulate" \notin N /\ "stopped" \notin N
        /\ N \subseteq {"wait", "take", "add", "store"}
    BY <1>13
  <2> QED
    BY <1>3, <1>5, <1>14, <1>15, <2>1, <2>2, LivesGoOn
<1>21. Ring'
  BY <1>3, <1>5, <1>14, <1>15, RingGoesOn
<1>22. Enough'
  <2>0. PICK x \in Emitters : x = E
    BY <1>4
  <2>1. Full(x) /\ ~Decoding(x)
    BY <1>1, <1>3, <2>0 DEF Enough, Quiet, At
  <2>2. em'[x].filled_blocks = Prefill /\ ~Decoding(x)'
    BY <1>5, <1>15, <2>1 DEF Full
  <2>3. ~At("take")' /\ ~At("rewind_target")'
    BY <1>7, <1>11 DEF At
  <2>4. ASSUME NEW k \in DOMAIN prog', prog'[k].op = "take" PROVE Stocked(k)'
    <3>1. k \in 1 .. Len(ops) /\ prog'[k] = [op |-> ops[k], e |-> E]
      <4>1. CASE /\ k > Len(ops) /\ k - Len(ops) + 1 \in DOMAIN prog
                 /\ prog'[k] = prog[k - Len(ops) + 1]
        <5>1. prog'[k] \in Step
          BY <1>11
        <5>2. prog'[k] = [op |-> "take", e |-> prog'[k].e]
          BY <2>4, <5>1 DEF Step
        <5>3. k \in Nat /\ Len(prog) \in Nat /\ DOMAIN prog = 1 .. Len(prog)
          <6>1. DOMAIN prog' = 1 .. Len(prog') /\ Len(prog') \in Nat
            BY <1>11
          <6> QED
            BY <1>1, <1>3, <6>1, Entries
        <5>4. k - Len(ops) + 1 \in 2 .. Len(prog)
          BY <1>6, <4>1, <5>3
        <5>5. Later("take", prog'[k].e)
          BY <4>1, <5>2, <5>4 DEF Later
        <5> QED
          BY <1>10, <5>5
      <4> QED
        BY <1>11, <4>1
    <3>2. prog'[k].e = x
      BY <2>0, <3>1
    <3>3. k \in Nat /\ k <= 2 * Prefill
      BY <1>4, <1>6, <3>1
    <3>4. k <= 2 * em'[x].filled_blocks - 0
      BY <1>4, <2>2, <3>3
    <3> QED
      BY <2>2, <2>3, <3>2, <3>4 DEF Stocked
  <2> QED
    BY <2>3, <2>4 DEF Enough
<1> QED
  BY <1>11, <1>12, <1>16, <1>17, <1>19, <1>20, <1>21, <1>22 DEF IInv

\* A rendered voice takes no more blocks than the ring has or the task brings.
LEMMA RenderIInv == IInv /\ Render => IInv'
<1> SUFFICES ASSUME IInv, Render PROVE IInv'
  OBVIOUS
<1>1. TypeOK /\ WellFormed(prog) /\ Pointed /\ Quiet /\ Lives /\ Voices /\ Rendered /\ Ring /\ Enough
  BY DEF IInv
<1> DEFINE t == em[E].target
<1>2. /\ prog # <<>> /\ Head(prog).op = "render" /\ UNCHANGED <<em, task, prefill_task, phase, todo>>
      /\ tg' = [tg EXCEPT ![t].rendering = TRUE]
      /\ \E n \in 0 .. Submit : prog' = Do(Repeat(ObtainBlock, n) \o Dispatch, E) \o Tail(prog)
  <2>1. Submit \in Nat
    BY SoundEmitterAssumption
  <2>2. PICK n \in IF tg[t].rendering THEN 0 .. Submit ELSE {Submit} :
           prog' = Do(Repeat(ObtainBlock, n) \o Dispatch, E) \o Tail(prog) /\ UNCHANGED <<phase, todo>>
    BY DEF Render, Then
  <2>3. n \in 0 .. Submit
    BY <2>1, <2>2
  <2> QED
    BY <2>2, <2>3 DEF Render, At
<1>3. E \in Emitters /\ Submit \in Nat /\ Submit > 0 /\ Prefill \in Nat /\ Prefill >= Submit
  BY <1>1, <1>2, HeadOfProg, SoundEmitterAssumption
<1>4. PICK n \in 0 .. Submit : prog' = Do(Repeat(ObtainBlock, n) \o Dispatch, E) \o Tail(prog)
  BY <1>2
<1>5. PICK ops : ops = Repeat(ObtainBlock, n) \o Dispatch
  OBVIOUS
<1>6. prog' = Do(ops, E) \o Tail(prog)
  BY <1>4, <1>5
<1>7. /\ ops \in Seq(Ops) /\ Len(ops) = (2 * n) + 3 /\ OpsFit(ops) /\ ops[1] = "wait"
      /\ \A k \in 1 .. Len(ops) : ops[k] = "take" => k <= 2 * n
      /\ \A op : Has(ops, op) => op \in {"wait", "take", "add", "store"}
      /\ Has(ops, "add")
  <2>1. n \in Nat
    BY <1>3
  <2> QED
    BY <1>5, <2>1, RenderList
<1>8. Len(ops) \in Nat /\ Len(ops) > 0
  BY <1>3, <1>7
<1>9. /\ \A op, e : In(op, e) <=> (Head(prog).op = op /\ E = e) \/ Later(op, e)
      /\ \A op, e : ~Later(op, e)
  <2>1. \A op : ~BeforeOp(Head(prog).op, op)
    BY <1>2 DEF BeforeOp
  <2> QED
    BY <1>1, <1>2, <2>1, AfterHead
<1>10. Len(prog) \in Nat /\ Len(prog) = 1
  <2>1. prog \in Seq(Step) /\ Len(prog) \in Nat /\ Len(prog) > 0
    BY <1>1, <1>2, HeadOfProg DEF TypeOK, Step
  <2>2. ASSUME Len(prog) > 1 PROVE FALSE
    <3>1. 2 \in 1 .. Len(prog) /\ 2 \in 2 .. Len(prog)
      BY <2>1, <2>2
    <3>2. prog[2] \in Step
      BY <2>1, <3>1
    <3>3. prog[2] = [op |-> prog[2].op, e |-> prog[2].e]
      BY <3>2 DEF Step
    <3>4. Later(prog[2].op, prog[2].e)
      BY <3>1, <3>3 DEF Later
    <3> QED
      BY <1>9, <3>4
  <2>3. Len(prog) \in Nat /\ Len(prog) > 0 /\ ~(Len(prog) > 1)
    BY <2>1, <2>2
  <2>4. \A m \in Nat : m > 0 /\ ~(m > 1) => m = 1
    OBVIOUS
  <2> QED
    BY <2>3, <2>4
<1>11. /\ prog' \in Seq(Step)
       /\ \A op, e : In(op, e)' <=> E = e /\ Has(ops, op)
       /\ \A k \in DOMAIN prog' :
            \/ k \in 1 .. Len(ops) /\ prog'[k] = [op |-> ops[k], e |-> E]
            \/ /\ k > Len(ops) /\ k - Len(ops) + 1 \in DOMAIN prog
               /\ prog'[k] = prog[k - Len(ops) + 1]
       /\ Head(prog') = [op |-> ops[1], e |-> E] /\ prog' # <<>>
  BY <1>1, <1>2, <1>6, <1>7, <1>8, <1>9, StepOn
<1>12. WellFormed(prog')
  <2>1. ~(Len(prog) > 1)
    BY <1>10
  <2> QED
    BY <1>1, <1>2, <1>6, <1>7, <1>9, <2>1, StepFits
<1>13. PICK x \in Emitters : x = E
  BY <1>3
<1>14. Plays(x) /\ phase = "render" /\ Playing(x) /\ t \in Targets /\ em[x].target = t
  <2>1. In("render", x)
    BY <1>2, <1>9, <1>13
  <2>2. Plays(x) /\ phase = "render"
    BY <1>1, <2>1 DEF Rendered
  <2>3. em[x].target \in Targets \cup {None}
    BY <1>1, Fields
  <2> QED
    BY <1>1, <1>13, <2>2, <2>3 DEF Voices, Plays
<1>15. tg[t] \in [emitter : Emitters \cup {None}, rendering : BOOLEAN]
  BY <1>1, <1>14 DEF TypeOK
<1>16. PICK g : g = [tg[t] EXCEPT !.rendering = TRUE]
  OBVIOUS
<1>17. /\ g \in [emitter : Emitters \cup {None}, rendering : BOOLEAN]
       /\ g.emitter = tg[t].emitter /\ g.rendering = TRUE
  BY <1>15, <1>16
<1>18. /\ \A u \in Targets : tg'[u] = IF u = t THEN g ELSE tg[u]
       /\ tg' \in [Targets -> [emitter : Emitters \cup {None}, rendering : BOOLEAN]]
  BY <1>1, <1>2, <1>14, <1>16, <1>17 DEF TypeOK
<1>19. \A e \in Emitters : /\ (Decoding(e)' <=> Decoding(e)) /\ (Playing(e)' <=> Playing(e))
                           /\ (Plays(e)' <=> Plays(e)) /\ (Full(e)' <=> Full(e))
                           /\ (InOrder(e)' <=> InOrder(e))
  BY <1>2 DEF Decoding, Playing, Plays, Full, InOrder
<1>20. Rendering(x)' /\ \A e \in Emitters : Plays(e) /\ Rendering(e) => Rendering(e)'
  <2>1. Rendering(x)'
    BY <1>2, <1>14, <1>17, <1>18 DEF Rendering
  <2>2. ASSUME NEW e \in Emitters, Plays(e), Rendering(e) PROVE Rendering(e)'
    <3>1. em[e].target \in Targets
      BY <1>1, <2>2, Fields DEF Plays
    <3> QED
      BY <1>2, <1>17, <1>18, <2>2, <3>1 DEF Rendering
  <2> QED
    BY <2>1, <2>2
<1>21. TypeOK'
  BY <1>1, <1>2, <1>11, <1>18 DEF TypeOK, Step
<1>22. Pointed'
  <2>1. ~At("store")
    BY <1>2 DEF At
  <2> QED
    BY <1>2, <1>19, <2>1, PointedGoesOn
<1>23. Quiet'
  <2>1. ~Has(ops, "i_start")
    BY <1>7
  <2> QED
    BY <1>2, <1>6, <1>7, <1>8, <1>19, <2>1, QuietPushes
<1>24. \A op, e : In(op, e)' => e = x /\ op \in {"wait", "take", "add", "store"}
  BY <1>7, <1>11, <1>13
<1>25. \A op, e : In(op, e) => e = x /\ op = "render"
  BY <1>2, <1>9, <1>13
<1>26. Lives'
  BY <1>1, <1>14, <1>19, <1>24 DEF Lives
<1>27. Voices'
  <2>1. \A e \in Emitters, u \in Targets : em'[e].target = u <=> tg'[u].emitter = e
    BY <1>1, <1>2, <1>17, <1>18 DEF Voices
  <2>2. \A e \in Emitters : Playing(e) => Plays(e)
    BY <1>1, <1>25 DEF Voices
  <2> QED
    BY <1>1, <1>19, <1>24, <2>1, <2>2 DEF Voices
<1>28. Rendered'
  <2>1. \A e \in Emitters : Plays(e)' => e \in todo' \/ Rendering(e)'
    BY <1>1, <1>2, <1>14, <1>19, <1>20, <1>25 DEF Rendered
  <2>2. phase' = "render" /\ \A e \in todo' : Plays(e)'
    BY <1>1, <1>2, <1>14, <1>19 DEF Rendered, TypeOK
  <2> QED
    BY <1>24, <2>1, <2>2 DEF Rendered
<1>29. In("add", x)'
  <2>1. \E k \in DOMAIN prog' : prog'[k] = [op |-> "add", e |-> x]
    <3>1. PICK y : y = x
      OBVIOUS
    <3>2. In("add", y)'
      BY <1>7, <1>11, <1>13, <3>1
    <3> QED
      BY <3>1, <3>2 DEF In
  <2> QED
    BY <2>1 DEF In
<1>30. Ring'
  <2>1. ASSUME NEW e \in Emitters
        PROVE  /\ InOrder(e)'
               /\ task'[e].pc = "loop" => task'[e].next = Slot(em'[e].current_block + em'[e].filled_blocks)
               /\ Playing(e)' => Decoding(e)' \/ Full(e)' \/ In("add", e)'
               /\ In("take", e)' \/ In("fill_all", e)' \/ In("rewind_target", e)' => In("add", e)'
    <3>1. InOrder(e)' /\ (task'[e].pc = "loop" => task'[e].next = Slot(em'[e].current_block + em'[e].filled_blocks))
      BY <1>1, <1>2, <1>19 DEF Ring
    <3>2. Playing(e)' => Decoding(e)' \/ Full(e)' \/ In("add", e)'
      BY <1>1, <1>19, <1>25 DEF Ring
    <3> QED
      BY <1>24, <1>29, <3>1, <3>2
  <2> QED
    BY <2>1 DEF Ring
<1>31. Enough'
  <2>1. Decoding(x) \/ em[x].filled_blocks = Prefill
    BY <1>1, <1>14, <1>25 DEF Ring, Full
  <2>2. ~At("take")' /\ ~At("rewind_target")'
    BY <1>7, <1>11 DEF At
  <2>3. ASSUME NEW k \in DOMAIN prog', prog'[k].op = "take" PROVE Stocked(k)'
    <3>1. k \in 1 .. Len(ops) /\ prog'[k] = [op |-> ops[k], e |-> E]
      <4>1. CASE /\ k > Len(ops) /\ k - Len(ops) + 1 \in DOMAIN prog
                 /\ prog'[k] = prog[k - Len(ops) + 1]
        <5>1. DOMAIN prog' = 1 .. Len(prog') /\ Len(prog') \in Nat /\ DOMAIN prog = 1 .. Len(prog)
          BY <1>1, <1>11, Entries
        <5> QED
          BY <1>8, <1>10, <4>1, <5>1
      <4> QED
        BY <1>11, <4>1
    <3>2. prog'[k].e = x /\ ops[k] = "take"
      BY <1>13, <2>3, <3>1
    <3>3. k \in Nat /\ k <= 2 * Submit /\ k <= 2 * Prefill
      BY <1>3, <1>7, <3>1, <3>2
    <3>4. Decoding(x)' \/ (em'[x].filled_blocks = Prefill /\ k <= 2 * em'[x].filled_blocks - 0)
      BY <1>2, <1>3, <1>19, <2>1, <3>3
    <3> QED
      BY <2>2, <3>2, <3>3, <3>4 DEF Stocked
  <2> QED
    BY <2>2, <2>3 DEF Enough
<1> QED
  BY <1>11, <1>12, <1>21, <1>22, <1>23, <1>26, <1>27, <1>28, <1>30, <1>31 DEF IInv

-----------------------------------------------------------------------------
(* Between two calls.                                                      *)

\* With nothing to do, what the parts of the invariant say.
LEMMA WhenIdle ==
  ASSUME IInv, prog = <<>>
  PROVE  /\ \A op, e : ~In(op, e)
         /\ \A e \in Emitters : Decoding(e) => prefill_task[e] = "own" /\ Playing(e)
         /\ \A e \in Emitters : Plays(e) <=> Playing(e)
         /\ \A e \in Emitters : Playing(e) => Decoding(e) \/ Full(e)
<1>1. Pointed /\ Lives /\ Voices /\ Ring
  BY DEF IInv
<1>2. DOMAIN prog = {}
  OBVIOUS
<1>3. \A op, e : ~In(op, e)
  BY <1>2 DEF In
<1>4. ~At("store")
  BY DEF At
<1> QED
  BY <1>1, <1>3, <1>4 DEF Pointed, Lives, Voices, Ring

\* A step of a pass or of the game that leaves nothing to do.
LEMMA IdleIInv ==
  ASSUME IInv, prog = <<>>, UNCHANGED <<tg, task, prefill_task, prog>>, TypeOK', Rendered',
         \A e \in Emitters : /\ em'[e].target = em[e].target
                             /\ Playing(e)' <=> Playing(e)
                             /\ \/ /\ em'[e].filled_blocks = em[e].filled_blocks
                                   /\ em'[e].current_block = em[e].current_block
                                   /\ em'[e].temp_buf = em[e].temp_buf
                                \/ ~Playing(e) /\ em'[e].filled_blocks = 0
  PROVE  IInv'
<1>1. TypeOK /\ WellFormed(prog) /\ Pointed /\ Quiet /\ Lives /\ Voices /\ Rendered /\ Ring /\ Enough
  BY DEF IInv
<1>2. /\ \A op, e : ~In(op, e)
      /\ \A e \in Emitters : Decoding(e) => prefill_task[e] = "own" /\ Playing(e)
      /\ \A e \in Emitters : Plays(e) <=> Playing(e)
      /\ \A e \in Emitters : Playing(e) => Decoding(e) \/ Full(e)
  BY WhenIdle
<1>3. \A op, e : ~In(op, e)'
  BY <1>2 DEF In
<1>4. \A e \in Emitters : (Decoding(e)' <=> Decoding(e)) /\ (Plays(e)' <=> Plays(e))
  BY DEF Decoding, Plays
<1>5. WellFormed(prog') /\ prog' = <<>> /\ DOMAIN prog' = {}
  BY <1>1
<1>6. Pointed' /\ Quiet' /\ Lives'
  BY <1>2, <1>3, <1>4, <1>5 DEF Pointed, Quiet, Lives
<1>7. Voices'
  BY <1>1, <1>2, <1>3, <1>4 DEF Voices
<1>8. Ring'
  <2>1. ASSUME NEW e \in Emitters
        PROVE  /\ InOrder(e)'
               /\ task'[e].pc = "loop" => task'[e].next = Slot(em'[e].current_block + em'[e].filled_blocks)
               /\ Playing(e)' => Decoding(e)' \/ Full(e)'
    <3>1. CASE /\ em'[e].filled_blocks = em[e].filled_blocks
               /\ em'[e].current_block = em[e].current_block
               /\ em'[e].temp_buf = em[e].temp_buf
      <4>1. InOrder(e)' /\ (Full(e)' <=> Full(e))
        BY <1>1, <3>1 DEF Ring, InOrder, Full
      <4>2. task'[e].pc = "loop" => task'[e].next = Slot(em'[e].current_block + em'[e].filled_blocks)
        BY <1>1, <3>1 DEF Ring
      <4> QED
        BY <1>2, <1>4, <4>1, <4>2
    <3>2. CASE ~Playing(e) /\ em'[e].filled_blocks = 0
      <4>1. InOrder(e)'
        BY <3>2 DEF InOrder
      <4>2. task'[e].pc # "loop"
        BY <1>2, <3>2 DEF Decoding
      <4> QED
        BY <3>2, <4>1, <4>2
    <3> QED
      BY <3>1, <3>2
  <2> QED
    BY <1>3, <2>1 DEF Ring
<1>9. Enough'
  BY <1>5 DEF Enough, At
<1> QED
  BY <1>5, <1>6, <1>7, <1>8, <1>9 DEF IInv

\* The passes of the mixer over the emitters begin and end.
LEMMA PassesIdle == IInv /\ (UpdateBegins \/ RenderBegins \/ FrameEnds) => IInv'
<1> SUFFICES ASSUME IInv, UpdateBegins \/ RenderBegins \/ FrameEnds PROVE IInv'
  OBVIOUS
<1>1. TypeOK /\ Rendered
  BY DEF IInv
<1>2. prog = <<>> /\ UNCHANGED <<em, tg, task, prefill_task, prog>>
  BY DEF UpdateBegins, RenderBegins, FrameEnds, Idle
<1>3. \A op, e : ~In(op, e) /\ ~In(op, e)'
  BY <1>2, WhenIdle DEF In
<1>4. \A e \in Emitters : (Plays(e)' <=> Plays(e)) /\ (Rendering(e)' <=> Rendering(e)) /\ (Playing(e)' <=> Playing(e))
  BY <1>2 DEF Plays, Rendering, Playing
<1>5. TypeOK' /\ Rendered'
  <2>1. CASE UpdateBegins
    <3>1. phase = "game" /\ phase' = "update" /\ todo' \subseteq Emitters
      BY <2>1 DEF UpdateBegins
    <3> QED
      BY <1>1, <1>2, <1>3, <1>4, <3>1 DEF TypeOK, Rendered
  <2>2. CASE RenderBegins
    <3>1. phase' = "render" /\ todo' = {e \in Emitters : Plays(e)}
      BY <2>2 DEF RenderBegins
    <3> QED
      BY <1>1, <1>2, <1>3, <1>4, <3>1 DEF TypeOK, Rendered
  <2>3. CASE FrameEnds
    <3>1. phase = "render" /\ todo = {} /\ phase' = "game" /\ todo' = {}
      BY <2>3 DEF FrameEnds
    <3> QED
      BY <1>1, <1>2, <1>3, <1>4, <3>1 DEF TypeOK, Rendered
  <2> QED
    BY <2>1, <2>2, <2>3
<1> QED
  BY <1>2, <1>4, <1>5, IdleIInv

\* The game sets flags of an emitter, or takes one that is free.
LEMMA CallIdle ==
  ASSUME IInv, NEW e \in Emitters, NEW r \in Emitter, Call(e, r), UNCHANGED prog,
         r.target = em[e].target, (r.state = "Playing") = (em[e].state = "Playing"),
         \/ /\ r.filled_blocks = em[e].filled_blocks /\ r.current_block = em[e].current_block
            /\ r.temp_buf = em[e].temp_buf
         \/ em[e].state # "Playing" /\ r.filled_blocks = 0
  PROVE  IInv'
<1>1. TypeOK /\ Rendered
  BY DEF IInv
<1>2. /\ prog = <<>> /\ UNCHANGED <<tg, task, prefill_task, phase, todo, prog>>
      /\ phase # "render" /\ todo = {} /\ em' = [em EXCEPT ![e] = r]
  BY DEF Call, Idle
<1>3. /\ \A x \in Emitters : em'[x] = IF x = e THEN r ELSE em[x]
      /\ em' \in [Emitters -> Emitter]
  BY <1>1, <1>2 DEF TypeOK
<1>4. \A op, x : ~In(op, x) /\ ~In(op, x)'
  BY <1>2, WhenIdle DEF In
<1>5. \A x \in Emitters : em'[x].target = em[x].target /\ (Playing(x)' <=> Playing(x))
  BY <1>3 DEF Playing
<1>6. \A x \in Emitters : (Plays(x)' <=> Plays(x)) /\ (Rendering(x)' <=> Rendering(x))
  BY <1>2, <1>5 DEF Plays, Rendering
<1>7. TypeOK'
  BY <1>1, <1>2, <1>3 DEF TypeOK
<1>8. Rendered'
  BY <1>1, <1>2, <1>4, <1>6 DEF Rendered
<1>9. \A x \in Emitters : \/ /\ em'[x].filled_blocks = em[x].filled_blocks
                             /\ em'[x].current_block = em[x].current_block
                             /\ em'[x].temp_buf = em[x].temp_buf
                          \/ ~Playing(x) /\ em'[x].filled_blocks = 0
  BY <1>3 DEF Playing
<1> QED
  BY <1>2, <1>5, <1>7, <1>8, <1>9, IdleIInv

\* The game starts a sound, restarts it or lets it fade out.
LEMMA PlayIInv ==
  ASSUME IInv, NEW e \in Emitters, Play(e) \/ PlayAgain(e) \/ StopDeferred(e)
  PROVE  IInv'
<1>1. TypeOK /\ Voices
  BY DEF IInv
<1>2. em[e] \in Emitter /\ Prefill \in Nat /\ Prefill > 0
  BY <1>1, Fields
<1>3. CASE Play(e)
  <2>1. PICK s \in {"Starting", "StartingDelayed"} : Call(e, [Unborn EXCEPT !.state = s])
    BY <1>3 DEF Play
  <2>2. em[e].state = "Unborn" /\ UNCHANGED prog
    BY <1>3 DEF Play
  <2> DEFINE r == [Unborn EXCEPT !.state = s]
  <2>3. Unborn \in Emitter /\ Unborn.target = None /\ Unborn.filled_blocks = 0
    BY <1>2 DEF Unborn, Emitter, States
  <2>4. r \in Emitter /\ r.target = None /\ r.filled_blocks = 0 /\ r.state = s
    BY <2>3 DEF Emitter, States
  <2>5. Call(e, r)
    BY <2>1
  <2> HIDE DEF r
  <2>6. em[e].target = None
    BY <1>1, <2>2 DEF Voices, Plays, Playing
  <2> QED
    BY <2>2, <2>4, <2>5, <2>6, CallIdle
<1>4. CASE PlayAgain(e)
  <2>1. PICK r : r = [em[e] EXCEPT !.bStopping = FALSE, !.bRewind = TRUE]
    OBVIOUS
  <2>2. Call(e, r) /\ UNCHANGED prog
    BY <1>4, <2>1 DEF PlayAgain
  <2>3. /\ r \in Emitter /\ r.target = em[e].target /\ r.state = em[e].state
        /\ r.filled_blocks = em[e].filled_blocks /\ r.current_block = em[e].current_block
        /\ r.temp_buf = em[e].temp_buf
    BY <1>2, <2>1 DEF Emitter
  <2> QED
    BY <2>2, <2>3, CallIdle
<1>5. CASE StopDeferred(e)
  <2>1. PICK r : r = [em[e] EXCEPT !.bStopping = TRUE]
    OBVIOUS
  <2>2. Call(e, r) /\ UNCHANGED prog
    BY <1>5, <2>1 DEF StopDeferred
  <2>3. /\ r \in Emitter /\ r.target = em[e].target /\ r.state = em[e].state
        /\ r.filled_blocks = em[e].filled_blocks /\ r.current_block = em[e].current_block
        /\ r.temp_buf = em[e].temp_buf
    BY <1>2, <2>1 DEF Emitter
  <2> QED
    BY <2>2, <2>3, CallIdle
<1> QED
  BY <1>3, <1>4, <1>5

\* The operations ops, which are those of N, may open a call for e.
Opens(e, ops, N) ==
    /\ ops \in Seq(Ops) /\ OpsFit(ops) /\ Len(ops) > 0 /\ \A op : Has(ops, op) <=> op \in N
    /\ ops[1] \in {"wait", "fsm", "render"} /\ N \cap {"take", "i_start", "delete"} = {}
    /\ "add" \in N => Plays(e)
    /\ "fsm" \in N => phase = "update" /\ e \notin todo'
    /\ "release" \in N => "simulate" \in N \/ "stopped" \in N
    /\ Plays(e) /\ ("simulate" \in N \/ "stopped" \in N) => "release" \in N
    /\ "fill_all" \in N \/ "rewind_target" \in N => Plays(e) /\ Rendering(e) /\ "add" \in N
    /\ "render" \in N => Plays(e)
    /\ IF phase = "render" THEN N = {"render"} /\ todo' = todo \ {e}
       ELSE "render" \notin N /\ todo' \subseteq todo

\* A call that is nothing but a list of operations.
LEMMA OpenCall ==
  ASSUME TypeOK, prog = <<>>, NEW e \in Emitters, NEW ops \in Seq(Ops), Len(ops) > 0, OpsFit(ops),
         prog' = Do(ops, e)
  PROVE  /\ prog' \in Seq(Step) /\ WellFormed(prog') /\ prog' # <<>>
         /\ Head(prog') = [op |-> ops[1], e |-> e]
         /\ \A op, x : In(op, x)' <=> x = e /\ Has(ops, op)
<1>1. /\ prog' \in Seq(Step) /\ Len(prog') = Len(ops) /\ Len(ops) \in Nat
      /\ \A k \in 1 .. Len(ops) : prog'[k] = [op |-> ops[k], e |-> e]
  BY DoSteps
<1>2. DOMAIN prog' = 1 .. Len(ops) /\ 1 \in 1 .. Len(ops)
  BY <1>1
<1>3. prog' # <<>> /\ Head(prog') = [op |-> ops[1], e |-> e]
  BY <1>1, <1>2
<1>4. ASSUME NEW op, NEW x PROVE In(op, x)' <=> x = e /\ Has(ops, op)
  <2>1. ASSUME NEW k \in 1 .. Len(ops) PROVE prog'[k] = [op |-> op, e |-> x] <=> x = e /\ ops[k] = op
    <3>1. prog'[k] = [op |-> ops[k], e |-> e]
      BY <1>1
    <3>2. [op |-> ops[k], e |-> e] = [op |-> op, e |-> x] <=> x = e /\ ops[k] = op
      OBVIOUS
    <3> QED
      BY <3>1, <3>2
  <2> QED
    BY <1>2, <2>1 DEF In, Has
<1>5. WellFormed(prog')
  <2>1. ASSUME NEW j \in 1 .. Len(ops), NEW k \in 1 .. Len(ops), j < k PROVE Before(prog'[j], prog'[k])
    <3>1. BeforeOp(ops[j], ops[k])
      BY <2>1 DEF OpsFit
    <3>2. prog'[j] = [op |-> ops[j], e |-> e] /\ prog'[k] = [op |-> ops[k], e |-> e]
      BY <1>1
    <3> QED
      BY <3>1, <3>2 DEF Before
  <2>2. ASSUME NEW k \in 1 .. Len(ops), k + 1 \in 1 .. Len(ops) PROVE Follows(prog'[k], prog'[k + 1])
    <3>1. NextOp(ops[k], ops[k + 1])
      BY <1>1, <2>2 DEF OpsFit
    <3>2. prog'[k] = [op |-> ops[k], e |-> e] /\ prog'[k + 1] = [op |-> ops[k + 1], e |-> e]
      BY <1>1, <2>2
    <3> QED
      BY <3>1, <3>2 DEF Follows
  <2>3. ASSUME NEW k \in 1 .. Len(ops), prog'[k].op = "add" PROVE k + 1 \in 1 .. Len(ops)
    <3>1. ops[k] = "add"
      <4>1. prog'[k] = [op |-> ops[k], e |-> e]
        BY <1>1
      <4> QED
        BY <2>3, <4>1
    <3>2. k # Len(ops)
      BY <3>1 DEF OpsFit
    <3> QED
      BY <1>1, <3>2
  <2> QED
    BY <1>2, <2>1, <2>2, <2>3 DEF WellFormed
<1> QED
  BY <1>1, <1>3, <1>4, <1>5

\* A call begins.
LEMMA CallOpens ==
  ASSUME IInv, prog = <<>>, NEW e \in Emitters, NEW r \in Emitter, em' = [em EXCEPT ![e] = r],
         r.target = em[e].target, r.state = em[e].state,
         r.filled_blocks = em[e].filled_blocks, r.current_block = em[e].current_block,
         r.temp_buf = em[e].temp_buf,
         UNCHANGED <<tg, task, prefill_task, phase>>,
         NEW ops, NEW N, prog' = Do(ops, e), Opens(e, ops, N)
  PROVE  IInv'
<1>1. TypeOK /\ WellFormed(prog) /\ Pointed /\ Quiet /\ Lives /\ Voices /\ Rendered /\ Ring /\ Enough
  BY DEF IInv
<1>2. /\ \A op, x : ~In(op, x)
      /\ \A x \in Emitters : Decoding(x) => prefill_task[x] = "own" /\ Playing(x)
      /\ \A x \in Emitters : Plays(x) <=> Playing(x)
      /\ \A x \in Emitters : Playing(x) => Decoding(x) \/ Full(x)
  BY WhenIdle
<1>3. /\ ops \in Seq(Ops) /\ OpsFit(ops) /\ Len(ops) > 0 /\ \A op : Has(ops, op) <=> op \in N
      /\ ops[1] \in {"wait", "fsm", "render"} /\ N \cap {"take", "i_start", "delete"} = {}
      /\ "add" \in N => Plays(e)
      /\ "fsm" \in N => phase = "update" /\ e \notin todo'
      /\ "release" \in N => "simulate" \in N \/ "stopped" \in N
      /\ Plays(e) /\ ("simulate" \in N \/ "stopped" \in N) => "release" \in N
      /\ "fill_all" \in N \/ "rewind_target" \in N => Plays(e) /\ Rendering(e) /\ "add" \in N
      /\ "render" \in N => Plays(e)
      /\ IF phase = "render" THEN N = {"render"} /\ todo' = todo \ {e}
         ELSE "render" \notin N /\ todo' \subseteq todo
  BY DEF Opens
<1>4. /\ prog' \in Seq(Step) /\ WellFormed(prog') /\ prog' # <<>>
      /\ Head(prog') = [op |-> ops[1], e |-> e]
      /\ \A op, x : In(op, x)' <=> x = e /\ op \in N
  BY <1>1, <1>3, OpenCall
<1>5. /\ \A x \in Emitters : em'[x] = IF x = e THEN r ELSE em[x]
      /\ em' \in [Emitters -> Emitter]
  BY <1>1 DEF TypeOK
<1>6. \A x \in Emitters : /\ em'[x].target = em[x].target /\ em'[x].state = em[x].state
                          /\ em'[x].filled_blocks = em[x].filled_blocks
                          /\ em'[x].current_block = em[x].current_block
                          /\ em'[x].temp_buf = em[x].temp_buf
  BY <1>5
<1>7. \A x \in Emitters : /\ (Decoding(x)' <=> Decoding(x)) /\ (Playing(x)' <=> Playing(x))
                          /\ (Plays(x)' <=> Plays(x)) /\ (Full(x)' <=> Full(x))
                          /\ (InOrder(x)' <=> InOrder(x)) /\ (Rendering(x)' <=> Rendering(x))
  BY <1>6 DEF Decoding, Playing, Plays, Full, InOrder, Rendering
<1>8. todo' \subseteq todo /\ todo \subseteq Emitters
  BY <1>1, <1>3 DEF TypeOK
<1>9. TypeOK'
  BY <1>1, <1>4, <1>5, <1>8 DEF TypeOK, Step
<1>10. Pointed'
  BY <1>2, <1>7 DEF Pointed
<1>11. Quiet'
  <2>1. Head(prog').op \in {"wait", "fsm", "render"}
    BY <1>3, <1>4
  <2>2. \A x \in Emitters : ~In("i_start", x)'
    BY <1>3, <1>4
  <2> QED
    BY <2>1, <2>2 DEF Quiet
<1>12. Lives'
  BY <1>2, <1>3, <1>4, <1>7 DEF Lives
<1>13. Voices'
  <2>1. \A x \in Emitters, t \in Targets : em'[x].target = t <=> tg'[t].emitter = x
    BY <1>1, <1>6 DEF Voices
  <2> QED
    BY <1>2, <1>3, <1>4, <1>7, <2>1 DEF Voices
<1>14. Rendered'
  <2>1. CASE phase = "render"
    <3>1. \A op, x : In(op, x)' <=> x = e /\ op = "render"
      BY <1>3, <1>4, <2>1
    <3>2. \A x \in Emitters : Plays(x) => x \in todo \/ Rendering(x)
      BY <1>1, <1>2, <2>1 DEF Rendered
    <3>3. Plays(e) /\ todo' = todo \ {e} /\ \A x \in todo : Plays(x)
      BY <1>1, <1>3, <2>1 DEF Rendered
    <3> QED
      BY <1>7, <1>8, <2>1, <3>1, <3>2, <3>3 DEF Rendered
  <2>2. CASE phase # "render"
    <3>1. \A x \in Emitters : ~In("render", x)'
      BY <1>3, <1>4, <2>2
    <3> QED
      BY <1>1, <1>3, <1>4, <1>7, <1>8, <2>2, <3>1 DEF Rendered
  <2> QED
    BY <2>1, <2>2
<1>15. Ring'
  BY <1>1, <1>2, <1>3, <1>4, <1>6, <1>7 DEF Ring
<1>16. Enough'
  <2>1. \A x \in Emitters : ~In("take", x)'
    BY <1>3, <1>4
  <2>2. ~At("rewind_target")'
    BY <1>3, <1>4 DEF At
  <2> QED
    BY <1>4, <2>1, <2>2, EnoughNoTakes
<1> QED
  BY <1>4, <1>9, <1>10, <1>11, <1>12, <1>13, <1>14, <1>15, <1>16 DEF IInv

\* The game stops a sound at once.
LEMMA StopNowIInv ==
  ASSUME IInv, NEW e \in Emitters, StopNow(e)
  PROVE  IInv'
<1>1. TypeOK
  BY DEF IInv
<1>2. PICK r : r = [em[e] EXCEPT !.bRewind = FALSE]
  OBVIOUS
<1>3. /\ prog = <<>> /\ UNCHANGED <<tg, task, prefill_task, phase, todo>>
      /\ phase # "render" /\ em' = [em EXCEPT ![e] = r] /\ prog' = Do(IStop(e), e)
  BY <1>2 DEF StopNow, Call, Idle
<1>4. em[e] \in Emitter
  BY <1>1, Fields
<1>5. /\ r \in Emitter /\ r.target = em[e].target /\ r.state = em[e].state
      /\ r.filled_blocks = em[e].filled_blocks /\ r.current_block = em[e].current_block
      /\ r.temp_buf = em[e].temp_buf
  BY <1>2, <1>4 DEF Emitter
<1>6. PICK ops : ops = IStop(e)
  OBVIOUS
<1>7. CASE em[e].target = None
  <2>1. ops = <<"wait", "stopped">>
    BY <1>6, <1>7, ListFits DEF IStop
  <2>2. PICK N : N = {"wait", "stopped"}
    OBVIOUS
  <2>3. ListOf(ops, 2, N) /\ ops[1] = "wait"
    BY <2>1, <2>2, Lists
  <2>4. Opens(e, ops, N)
    BY <1>3, <1>7, <2>2, <2>3 DEF Opens, ListOf, Plays
  <2> QED
    BY <1>3, <1>5, <1>6, <2>4, CallOpens
<1>8. CASE em[e].target # None
  <2>1. ops = <<"wait", "release", "wait", "stopped">>
    BY <1>6, <1>8, ListFits DEF IStop
  <2>2. PICK N : N = {"wait", "release", "stopped"}
    OBVIOUS
  <2>3. ListOf(ops, 4, N) /\ ops[1] = "wait"
    BY <2>1, <2>2, Lists
  <2>4. Opens(e, ops, N)
    BY <1>3, <2>2, <2>3 DEF Opens, ListOf
  <2> QED
    BY <1>3, <1>5, <1>6, <2>4, CallOpens
<1> QED
  BY <1>7, <1>8

\* The rendering of an emitter begins.
LEMMA RenderEmitterIInv ==
  ASSUME IInv, NEW e \in Emitters, RenderEmitter(e)
  PROVE  IInv'
<1>1. TypeOK /\ Rendered
  BY DEF IInv
<1>2. PICK r : r = em[e]
  OBVIOUS
<1>3. PICK ops : ops = <<"render">>
  OBVIOUS
<1>4. /\ prog = <<>> /\ UNCHANGED <<em, tg, task, prefill_task, phase>>
      /\ phase = "render" /\ prog' = Do(ops, e) /\ todo' = todo \ {e} /\ e \in todo
  BY <1>3 DEF RenderEmitter, Idle
<1>5. em' = [em EXCEPT ![e] = r] /\ r \in Emitter
  BY <1>1, <1>2, <1>4, Fields DEF TypeOK
<1>6. PICK N : N = {"render"}
  OBVIOUS
<1>7. ListOf(ops, 1, N) /\ ops[1] = "render"
  BY <1>3, <1>6, Lists
<1>8. Plays(e)
  BY <1>1, <1>4 DEF Rendered
<1>9. Opens(e, ops, N)
  BY <1>4, <1>6, <1>7, <1>8 DEF Opens, ListOf
<1> QED
  BY <1>2, <1>4, <1>5, <1>9, CallOpens

\* The update of an emitter begins, with the rewind that was asked for.
LEMMA UpdateEmitterIInv ==
  ASSUME IInv, NEW e \in Emitters, UpdateEmitter(e)
  PROVE  IInv'
<1>1. TypeOK /\ Rendered
  BY DEF IInv
<1>2. PICK r : r = [em[e] EXCEPT !.bRewind = FALSE]
  OBVIOUS
<1>3. PICK ops : ops = Rewind(e) \o <<"fsm", "deferred", "footer">>
  OBVIOUS
<1>4. /\ prog = <<>> /\ UNCHANGED <<tg, task, prefill_task, phase>>
      /\ phase = "update" /\ prog' = Do(ops, e) /\ todo' = todo \ {e} /\ e \in todo
      /\ em' = [em EXCEPT ![e] = r]
  BY <1>1, <1>2, <1>3 DEF UpdateEmitter, Idle, TypeOK
<1>5. em[e] \in Emitter
  BY <1>1, Fields
<1>6. /\ r \in Emitter /\ r.target = em[e].target /\ r.state = em[e].state
      /\ r.filled_blocks = em[e].filled_blocks /\ r.current_block = em[e].current_block
      /\ r.temp_buf = em[e].temp_buf
  BY <1>2, <1>5 DEF Emitter
<1>7. Plays(e) => Rendering(e)
  BY <1>1, <1>4 DEF Rendered
<1>8. CASE ~em[e].bRewind
  <2>1. ops = <<"fsm", "deferred", "footer">>
    BY <1>3, <1>8, ListFits DEF Rewind
  <2>2. PICK N : N = {"fsm", "deferred", "footer"}
    OBVIOUS
  <2>3. ListOf(ops, 3, N) /\ ops[1] = "fsm"
    BY <2>1, <2>2, Lists
  <2>4. Opens(e, ops, N)
    BY <1>4, <2>2, <2>3 DEF Opens, ListOf
  <2> QED
    BY <1>4, <1>6, <2>4, CallOpens
<1>9. CASE em[e].bRewind /\ em[e].target = None
  <2>1. ops = <<"wait", "set_cursor", "fsm", "deferred", "footer">>
    BY <1>3, <1>9, ListFits DEF Rewind
  <2>2. PICK N : N = {"wait", "set_cursor", "fsm", "deferred", "footer"}
    OBVIOUS
  <2>3. ListOf(ops, 5, N) /\ ops[1] = "wait"
    BY <2>1, <2>2, Lists
  <2>4. Opens(e, ops, N)
    BY <1>4, <2>2, <2>3 DEF Opens, ListOf
  <2> QED
    BY <1>4, <1>6, <2>4, CallOpens
<1>10. CASE em[e].bRewind /\ em[e].target # None
  <2>1. ops = <<"wait", "set_cursor", "fill_all", "rewind_target", "wait", "add", "store", "fsm", "deferred", "footer">>
    BY <1>3, <1>10, ListFits DEF Rewind
  <2>2. PICK N : N = {"wait", "set_cursor", "fill_all", "rewind_target", "add", "store", "fsm", "deferred", "footer"}
    OBVIOUS
  <2>3. ListOf(ops, 10, N) /\ ops[1] = "wait"
    BY <2>1, <2>2, Lists
  <2>4. Plays(e)
    BY <1>10 DEF Plays
  <2>5. Opens(e, ops, N)
    BY <1>4, <1>7, <2>2, <2>3, <2>4 DEF Opens, ListOf
  <2> QED
    BY <1>4, <1>6, <2>5, CallOpens
<1> QED
  BY <1>8, <1>9, <1>10

-----------------------------------------------------------------------------
(* The theorems.                                                           *)

\* Every step of the mixer, the game, the decoding tasks and the slots keeps
\* the invariant.
LEMMA NextIInv == IInv /\ [Next]_vars => IInv'
<1> SUFFICES ASSUME IInv, [Next]_vars PROVE IInv'
  OBVIOUS
<1>1. CASE Mixer
  <2>1. CASE WaitPrefill \/ AddTask \/ StoreTask \/ SetCursor \/ FillAllBlocks \/ TakeBlock
    BY <2>1, WaitPrefillIInv, AddTaskIInv, StoreTaskIInv, SetCursorIInv, FillAllBlocksIInv, TakeBlockIInv, Zenon
  <2>2. CASE RewindTarget \/ Release \/ Simulate \/ Stopped \/ IStart
    BY <2>2, RewindTargetIInv, ReleaseIInv, SimulateIInv, IStartIInv, Zenon
  <2>3. CASE Fsm \/ Deferred \/ Footer \/ Delete \/ Render
    BY <2>3, FsmIInv, DeferredIInv, FooterIInv, DeleteIInv, RenderIInv, Zenon
  <2> QED
    BY <1>1, <2>1, <2>2, <2>3, Zenon DEF Mixer
<1>2. CASE Passes
  <2>1. CASE UpdateBegins \/ RenderBegins \/ FrameEnds
    BY <2>1, PassesIdle
  <2>2. ASSUME NEW e \in Emitters, UpdateEmitter(e) \/ RenderEmitter(e) PROVE IInv'
    BY <2>2, UpdateEmitterIInv, RenderEmitterIInv
  <2> QED
    BY <1>2, <2>1, <2>2 DEF Passes
<1>3. CASE Game
  <2>1. ASSUME NEW e \in Emitters, Play(e) \/ PlayAgain(e) \/ StopDeferred(e) \/ StopNow(e) PROVE IInv'
    BY <2>1, PlayIInv, StopNowIInv
  <2> QED
    BY <1>3, <2>1 DEF Game
<1>4. ASSUME NEW e \in Emitters, Decoder(e) \/ Reuse(e) \/ ForeignEnds(e) PROVE IInv'
  BY <1>4, TaskBeginsIInv, DecodeIInv, TaskClearsIInv, SlotStepIInv DEF Decoder
<1>5. CASE UNCHANGED vars
  <2>1. UNCHANGED <<em, tg, task, prefill_task, prog, phase, todo>>
    BY <1>5 DEF vars
  <2>2. \A op, e : In(op, e)' <=> In(op, e)
    BY <2>1 DEF In
  <2>3. UNCHANGED <<TypeOK, WellFormed(prog), Pointed, Quiet, Lives, Voices, Rendered>>
    BY <2>1 DEF TypeOK, WellFormed, Pointed, Quiet, Lives, Voices, Rendered, In, Decoding, Playing,
                Plays, Rendering, At, E
  <2>4. UNCHANGED <<Ring, Enough>>
    BY <2>1 DEF Ring, InOrder, Full, Decoding, Playing, In, Enough, Stocked, At, E
  <2> QED
    BY <2>3, <2>4 DEF IInv
<1> QED
  BY <1>1, <1>2, <1>3, <1>4, <1>5 DEF Next

\* The invariant holds in every reachable state, for any emitters and voices
\* and any lengths of the ring and of a submission that fits it.
THEOREM Invariance == Spec => []IInv
<1>1. Init => IInv
  BY InitIInv
<1>2. IInv /\ [Next]_vars => IInv'
  BY NextIInv
<1> QED
  BY <1>1, <1>2, PTL DEF Spec

\* The types of the emitters, the voices, the tasks and the running call of
\* the mixer (SoundRender_Emitter, SoundRender_Target).
THEOREM TypeCorrect == Spec => []TypeOK
<1>1. IInv => TypeOK
  BY DEF IInv
<1> QED
  BY <1>1, Invariance, PTL

\* The mixer never touches an emitter that a task decodes for: wait_prefill in
\* SoundRender_Emitter.cpp is in every place where it is needed, and the
\* pointer it looks at never misses a running task.
THEOREM Handover == Spec => []DecoderHandover
<1>1. IInv => DecoderHandover
  <2> SUFFICES ASSUME IInv PROVE DecoderHandover
    OBVIOUS
  <2>1. TypeOK /\ WellFormed(prog) /\ Quiet
    BY DEF IInv
  <2>2. ASSUME prog # <<>>, Head(prog).op = "i_start" PROVE ~Decoding(E)
    <3>1. PICK x \in Emitters : x = E
      BY <2>1, <2>2, HeadOfProg
    <3>2. In("i_start", x)
      BY <2>1, <2>2, <3>1, AfterHead
    <3> QED
      BY <2>1, <3>1, <3>2 DEF Quiet
  <2> QED
    BY <2>1, <2>2 DEF Quiet, DecoderHandover
<1> QED
  BY <1>1, Invariance, PTL

\* fill_block runs for a playing emitter only, so that the end of the data
\* never finds it in a state it has no answer for (SoundRender_Emitter.cpp).
THEOREM OnlyPlayingDecodes == Spec => []DecodesWhilePlaying
<1>1. IInv => DecodesWhilePlaying
  BY DEF IInv, Lives, Playing, DecodesWhilePlaying
<1> QED
  BY <1>1, Invariance, PTL

\* obtain_block hands the voice the blocks in the order they were decoded, and
\* one that is there (SoundRender_Emitter.cpp).
THEOREM OrderKept == Spec => []BlocksInOrder
<1>1. IInv => BlocksInOrder
  <2> SUFFICES ASSUME IInv PROVE BlocksInOrder
    OBVIOUS
  <2>1. \A e \in Emitters : InOrder(e)
    BY DEF IInv, Ring
  <2>2. At("take") => em[E].filled_blocks > 0
    BY BlockThere
  <2> QED
    BY <2>1, <2>2 DEF BlocksInOrder, InOrder
<1> QED
  BY <1>1, Invariance, PTL

\* start and stop_target keep an emitter and its voice pointing at each other,
\* and a voice that is rewound has been rendered before (SoundRender_Core_StartStop.cpp,
\* SoundRender_Emitter_StartStop.cpp, SoundRender_TargetA.cpp).
THEOREM VoicesAgree == Spec => []TargetMatch
<1>1. IInv => TargetMatch
  <2> SUFFICES ASSUME IInv PROVE TargetMatch
    OBVIOUS
  <2>1. TypeOK /\ WellFormed(prog) /\ Voices /\ Rendered
    BY DEF IInv
  <2>2. \A e \in Emitters, t \in Targets : em[e].target = t <=> tg[t].emitter = e
    BY <2>1 DEF Voices
  <2>3. prog = <<>> => \A e \in Emitters : Plays(e) <=> em[e].state = "Playing"
    BY WhenIdle DEF Playing
  <2>4. ASSUME At("rewind_target") PROVE tg[em[E].target].rendering
    <3>1. prog # <<>> /\ Head(prog).op = "rewind_target"
      BY <2>4 DEF At
    <3>2. PICK x \in Emitters : x = E
      BY <2>1, <3>1, HeadOfProg
    <3>3. In("rewind_target", x)
      BY <2>1, <3>1, <3>2, AfterHead
    <3>4. Rendering(x)
      BY <2>1, <3>3 DEF Rendered
    <3> QED
      BY <3>2, <3>4 DEF Rendering
  <2> QED
    BY <2>2, <2>3, <2>4 DEF TargetMatch
<1> QED
  BY <1>1, Invariance, PTL
=============================================================================

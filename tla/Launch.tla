------------------------------- MODULE Launch -------------------------------
(***************************************************************************)
(* What a lowered program makes the machine do (src/include/lower.h,       *)
(* src/src/codegen/code_gen_cpu.cc, src/src/codegen/code_gen_cuda.cc).  A  *)
(* launch is a sequence of phases: a statement outside of all parallel     *)
(* loops, a kernel, or a parallel region.  A phase gives every warp its    *)
(* code; a warp of a GPU is some threads of a block in lockstep, and a     *)
(* warp of a CPU is an iteration of the parallel loops.                    *)
(***************************************************************************)
EXTENDS Sync

\* A target: "gpu", with the size of a warp, or "cpu".
CPU == [gpu |-> FALSE, warp |-> 1]
GPU(warpSize) == [gpu |-> TRUE, warp |-> warpSize]

\* lower: the passes that are about parallel loops, in their order.
Lower(p, dims, target) ==
  With(Racing(p), LAMBDA racing :
  With(LoopCarried(p, dims, racing), LAMBDA items :
  With(SyncReduction(p, dims, racing, target.gpu), LAMBDA q :
    IF target.gpu
    THEN UNION {MakeSync(NormalizeThreads(MultiplexBuffers(r)), target.warp) : r \in LowerGPU(q, items)}
    ELSE LowerCPU(q, items))))

(***************************************************************************)
(* Who runs an event, and whose the cells are that it uses.                *)
(***************************************************************************)
ParallelAxes(e) == SelectSeq([x \in DOMAIN e.par |-> x], LAMBDA x : e.par[x])
OnGPU(e, target) == target.gpu /\ ParallelAxes(e) # <<>>
KernelLoop(p, e) == Head(SelectSeq(Each(e.loops, LAMBDA l : Find(p, l)), LAMBDA l : l.par))
Thread(p, e, target) ==
  IF OnGPU(e, target)
  THEN [block |-> <<e.env[IterOf("block")]>>,
        thread |-> <<e.env[IterOf("y")] * ScopeLen(KernelLoop(p, e), "x") + e.env[IterOf("x")]>>]
  ELSE [block |-> <<>>, thread |-> Each(ParallelAxes(e), LAMBDA x : e.at[x])]
\* All threads that are started, whether or not they have something to do.
Threads(p, events, target) ==
  LET e == CHOOSE x \in events : TRUE
      len(scope) == ScopeLen(KernelLoop(p, e), scope)
  IN IF OnGPU(e, target)
     THEN {[block |-> <<b>>, thread |-> <<t>>] : b \in 0 .. len("block") - 1, t \in 0 .. len("x") * len("y") - 1}
     ELSE {Thread(p, x, target) : x \in events}
WarpOf(t, target) ==
  [t EXCEPT !.thread = IF target.gpu /\ t.block # <<>> THEN <<@[1] \div target.warp>> ELSE @]

\* Shared memory is of a block; local variables and those that a parallel loop
\* defines on a CPU are of a thread; the rest is of all.  A private workspace
\* hides the shared one.
Owns(p, loops) == UNION {IF "own" \in DOMAIN Find(p, l) THEN Find(p, l).own ELSE {} : l \in ToSet(loops)}
Owner(p, v, e, t) ==
  LET d == CHOOSE x \in Defs(p) : x.var = v
  IN IF v \notin {x.var : x \in Defs(p)} THEN <<>>
     ELSE CASE d.mtype = "shared" -> t.block
            [] d.mtype = "local" -> t.block \o t.thread
            [] d.mtype = "cpu" -> IF v \in Owns(p, e.loops) \/ \E l \in ToSet(ForsTo(p, d.id)) : l.par THEN t.thread ELSE <<>>
            [] OTHER -> <<>>
Owned(p, e, t) ==
  LET own(a) == [a EXCEPT !.inst = Owner(p, a.v, e, t)]
  IN [id |-> e.id, src |-> e.src, op |-> e.op, uses |-> e.uses, w |-> own(e.w), r |-> Each(e.r, own),
      thread |-> t, atomic |-> IsSync(Find(p, e.id))]

(***************************************************************************)
(* The phases: runs of events before which no other parallel loop begins.  *)
(***************************************************************************)
PhaseKey(e) == LET axes == ParallelAxes(e) IN IF axes = <<>> THEN e.at ELSE SubSeq(e.at, 1, axes[1] - 1)
Serial(e) == Each([x \in DOMAIN e.at |-> x], LAMBDA x : IF x \in DOMAIN e.par /\ e.par[x] THEN 0 ELSE e.at[x])
InTurn(S) ==
  Each([n \in 1 .. Cardinality(S) |-> n], LAMBDA n : CHOOSE s \in S : Cardinality({t \in S : LexLess(t, s)}) = n - 1)
\* The code of a warp: in every step, what its threads do at once.
Code(p, events, target) ==
  LET thread(e) == Thread(p, e, target)
      of(w) == {e \in events : WarpOf(thread(e), target) = w}
      steps(E) == With({Serial(e) : e \in E}, InTurn)
      step(E, at) == {Owned(p, e, thread(e)) : e \in {x \in E : Serial(x) = at}}
  IN Graph({WarpOf(t, target) : t \in Threads(p, events, target)},
           LAMBDA w : With(of(w), LAMBDA E : Each(steps(E), LAMBDA at : step(E, at))))
Private(p, events, target) ==
  UNION {LET o == Owned(p, e, Thread(p, e, target))
         IN {a \in {o.w} \cup ToSet(o.r) : a.v \in Owns(p, e.loops)} : e \in events}
Phase(p, events, target) ==
  [code |-> Code(p, events, target), private |-> Private(p, events, target),
   threads |-> Threads(p, events, target)]
Phases(p, target) ==
  LET add(acc, e) == IF acc # <<>> /\ PhaseKey(Last(acc)[1]) = PhaseKey(e)
                     THEN Append(Front(acc), Append(Last(acc), e)) ELSE Append(acc, <<e>>)
  IN Each(FoldLeft(add, <<>>, Events(p)), LAMBDA run : Phase(p, ToSet(run), target))

Locals(p) == {d.var : d \in Defs(p)}
Shapes(p, dims) == Graph(Locals(p), LAMBDA v : DimsOf(p, None, v)) @@ dims

\* The launch of a program, with what it should compute.
Launched(c, p) ==
  [name |-> c.name, target |-> c.target, phases |-> Phases(p, c.target), locals |-> Locals(p),
   shapes |-> Shapes(p, c.dims), expected |-> Meaning(c.program)]
=============================================================================

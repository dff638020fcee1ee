------------------------------- MODULE Kernel -------------------------------
(***************************************************************************)
(* Launches run: the warps of a kernel, and the threads of a CPU, advance  *)
(* in any order between the barriers that makeSync has put, and update     *)
(* what they share by compare and swap (atomicUpdate in                    *)
(* src/runtime/cpu_runtime.h).  What they compute has to be what the       *)
(* program computes in the order of its text.                              *)
(*                                                                         *)
(* The module is about control.  Launches, and what their statements do    *)
(* to memory, are parameters: Launch and Program define them.              *)
(***************************************************************************)
EXTENDS Integers, Sequences, FiniteSets, SequencesExt, TLC

CONSTANTS
  Cases, Lowered(_), \* programs with their targets, and the launches they are lowered to
  Machine,           \* all warps that a launch has
  Holds(_, _, _),    \* what a cell holds: the memory, the cell, the local variables
  Does(_, _, _),     \* the memory after an event: the memory, the event, the local variables
  Plus(_, _),        \* sums that are added up
  Result(_, _),      \* what the memory holds at the end, without local variables
  WarpAt(_, _)       \* the warp of a thread, on a target

VARIABLES
  launch,  \* the launch
  phase,   \* the number of its phase
  pc,      \* the steps that every warp has done
  mem,     \* what the cells hold
  old,     \* xOld of the warps that are inside of atomicUpdate
  seen     \* the accesses of every warp since it flushed its memory
machine == <<launch, phase, pc, mem, old, seen>>

CodeNow == launch.phases[phase].code
Running == {w \in DOMAIN pc : pc[w] < Len(CodeNow[w])}
Step(w) == CodeNow[w][pc[w] + 1]
OpOf(step) == (CHOOSE e \in step : TRUE).op
IsBarrier(step) == OpOf(step) = "__syncthreads"
IsAccess(step) == OpOf(step) \in {"Store", "ReduceTo"}
Value(cell) == Holds(mem, cell, launch.locals)
Accesses(e) == {[cell |-> e.w, thread |-> e.thread, writes |-> TRUE, atomic |-> e.atomic]}
               \cup {[cell |-> a, thread |-> e.thread, writes |-> FALSE, atomic |-> FALSE] : a \in ToSet(e.r)}
Accessed(step) == IF IsAccess(step) THEN UNION {Accesses(e) : e \in step} ELSE {}
Conflict(a, b) == a.cell = b.cell /\ (a.writes \/ b.writes) /\ ~(a.atomic /\ b.atomic)

\* A phase begins: its warps are at their first step, and every thread of an
\* OpenMP reduction has the neutral value.
BeginPhase(n, cells) ==
  LET warps == DOMAIN launch.phases[n].code
  IN /\ phase' = n
     /\ pc' = [w \in warps |-> 0]
     /\ old' = <<>>
     /\ seen' = [w \in warps |-> {}]
     /\ mem' = [c \in launch.phases[n].private |-> [base |-> <<"neutral">>, added |-> <<>>]] @@ cells
LaunchInit ==
  /\ \E c \in Cases : launch \in Lowered(c)
  /\ phase = 0
  /\ pc = <<>>
  /\ mem = <<>>
  /\ old = <<>>
  /\ seen = <<>>
\* All is done: OpenMP adds the private workspaces to the shared ones, and the
\* next phase begins.
Shared(c) == [c EXCEPT !.inst = <<>>]
Join ==
  LET privates == IF phase = 0 THEN {} ELSE launch.phases[phase].private
      shared == {Shared(c) : c \in privates}
      sum(c) == FoldSet(LAMBDA x, acc : Plus(acc, Value(x).added), Value(c).added, {x \in privates : Shared(x) = c})
  IN /\ phase < Len(launch.phases)
     /\ phase > 0 => Running = {}
     /\ UNCHANGED launch
     /\ BeginPhase(phase + 1, [c \in shared |-> [Value(c) EXCEPT !.added = sum(c)]] @@ mem)

StepOn(w) == pc' = [pc EXCEPT ![w] = @ + 1]
Flush(w) == seen' = [seen EXCEPT ![w] = {}]
Notice(w) == seen' = [seen EXCEPT ![w] = @ \cup Accessed(Step(w))]

\* What the threads of a warp do at once: all read before any writes.
Performed(w) ==
  FoldSet(LAMBDA e, m : (e.w :> Does(mem, e, launch.locals)[e.w]) @@ m, mem, Step(w))
\* The atomic instructions of a GPU are performed one after the other.
OneByOne(w) == FoldSet(LAMBDA e, m : Does(m, e, launch.locals), mem, Step(w))

NeedsCAS(w) == ~launch.target.gpu /\ \E e \in Step(w) : e.atomic
Access(w) ==
  /\ w \in Running /\ IsAccess(Step(w)) /\ ~NeedsCAS(w)
  /\ mem' = IF \A e \in Step(w) : e.atomic THEN OneByOne(w) ELSE Performed(w)
  /\ StepOn(w) /\ Notice(w)
  /\ UNCHANGED <<launch, phase, old>>

\* atomicUpdate: the value is read, and written when it is still the same.
Update(w) == CHOOSE e \in Step(w) : TRUE
Load(w) ==
  /\ w \in Running /\ IsAccess(Step(w)) /\ NeedsCAS(w) /\ w \notin DOMAIN old
  /\ old' = [v \in DOMAIN old \cup {w} |-> IF v = w THEN Value(Update(w).w) ELSE old[v]]
  /\ UNCHANGED <<launch, phase, pc, mem, seen>>
Swapped(w, expected) == Does((Update(w).w :> expected) @@ mem, Update(w), launch.locals)[Update(w).w]
Exchanged(w) ==
  /\ mem' = (Update(w).w :> Swapped(w, old[w])) @@ mem
  /\ old' = [v \in DOMAIN old \ {w} |-> old[v]]
  /\ StepOn(w) /\ Notice(w)
  /\ UNCHANGED <<launch, phase>>
Same(w) == Value(Update(w).w) = old[w]
\* Mutants of Exchange and Retry: no comparison, and no new value to compare with.
WithoutCompare(w) == w \in DOMAIN old /\ Exchanged(w)
NoReload(w) == w \in DOMAIN old /\ ~Same(w) /\ UNCHANGED machine
Exchange(w) == w \in DOMAIN old /\ Same(w) /\ Exchanged(w)
Retry(w) ==
  /\ w \in DOMAIN old /\ ~Same(w)
  /\ old' = [old EXCEPT ![w] = Value(Update(w).w)]
  /\ UNCHANGED <<launch, phase, pc, mem, seen>>

\* __syncwarp: threads in lockstep only have to see each other's writes.
SyncWarp(w) ==
  /\ w \in Running /\ OpOf(Step(w)) = "__syncwarp"
  /\ StepOn(w) /\ Flush(w)
  /\ UNCHANGED <<launch, phase, mem, old>>
\* __syncthreads: all warps of the block have come to a barrier.
BlockOf(w) == {v \in DOMAIN pc : v.block = w.block}
SyncThreads(w) ==
  /\ w \in Running
  /\ \A v \in BlockOf(w) : v \in Running /\ IsBarrier(Step(v))
  /\ pc' = [v \in DOMAIN pc |-> IF v \in BlockOf(w) THEN pc[v] + 1 ELSE pc[v]]
  /\ seen' = [v \in DOMAIN seen |-> IF v \in BlockOf(w) THEN {} ELSE seen[v]]
  /\ UNCHANGED <<launch, phase, mem, old>>

WarpStep(w) == Access(w) \/ Load(w) \/ Exchange(w) \/ Retry(w) \/ SyncWarp(w) \/ SyncThreads(w)
Done == phase = Len(launch.phases) /\ (phase > 0 => Running = {})
LaunchNext == Join \/ (\E w \in DOMAIN pc : WarpStep(w)) \/ (Done /\ UNCHANGED machine)
\* The threads of a machine all advance, each at its own pace.
LaunchFairness == WF_machine(Join) /\ \A w \in Machine : WF_machine(w \in DOMAIN pc /\ WarpStep(w))
LaunchSpec == LaunchInit /\ [][LaunchNext]_machine /\ LaunchFairness

(***************************************************************************)
(* Properties                                                              *)
(***************************************************************************)

\* No two warps are about to access one cell, one of them to write it, unless
\* both do it atomically: makeSync has put a barrier, and the reductions have
\* been made parallel, wherever the text orders two threads.
Ordered ==
  \A v, w \in Running : v # w => \A a \in Accessed(Step(v)), b \in Accessed(Step(w)) : ~Conflict(a, b)

\* A thread does not read what another thread of its warp has written, or
\* write what it has read, before the warp flushes its memory.
Flushed ==
  \A w \in Running : \A a \in seen[w], b \in Accessed(Step(w)) : a.thread # b.thread => ~Conflict(a, b)

\* A barrier is reached by all threads of a warp together: no branch that
\* makeSync leaves whole lets some of them pass it by.
ThreadsOf(l, n, w) == {t \in l.phases[n].threads : WarpAt(t, l.target) = w}
Together ==
  \A w \in Running :
    IsBarrier(Step(w)) => {e.thread : e \in Step(w)} = ThreadsOf(launch, phase, w)

\* The barriers and flushes that makeSync puts are enough, and reached by all.
Synchronized == Ordered /\ Flushed /\ Together

\* What makeSync has to find in a launch before it runs, for it to be Synchronized
\* in whatever order its warps advance.  Of two accesses that conflict, those of
\* two warps are in one block, with different numbers of barriers before them, and
\* those of two threads of a warp are not in one stretch between two flushes; all
\* threads of a warp are at its barriers; and all warps of a block have as many.
BarriersIn(steps, n) == Cardinality({k \in 1 .. n : IsBarrier(steps[k])})
IsFlush(step) == OpOf(step) \in {"__syncwarp", "__syncthreads"}
Listed(s) == Len(s) \in Nat /\ DOMAIN s = 1 .. Len(s)
KeptApart(code, v, m, w, n, a, b) ==
  /\ v # w => v.block = w.block /\ BarriersIn(code[v], m) # BarriersIn(code[w], n)
  /\ v = w /\ m < n /\ a.thread # b.thread => \E k \in m .. n : IsFlush(code[w][k])
Separated(code) ==
  \A v, w \in DOMAIN code : \A m \in DOMAIN code[v], n \in DOMAIN code[w] :
    \A a \in Accessed(code[v][m]), b \in Accessed(code[w][n]) : Conflict(a, b) => KeptApart(code, v, m, w, n, a, b)
Whole(l, n) ==
  \A w \in DOMAIN l.phases[n].code : \A step \in ToSet(l.phases[n].code[w]) :
    IsBarrier(step) => {e.thread : e \in step} = ThreadsOf(l, n, w)
Level(code) ==
  \A v, w \in DOMAIN code : v.block = w.block => BarriersIn(code[v], Len(code[v])) = BarriersIn(code[w], Len(code[w]))
Placed(l) ==
  /\ Listed(l.phases)
  /\ \A n \in DOMAIN l.phases :
       LET code == l.phases[n].code
       IN /\ \A w \in DOMAIN code : Listed(code[w])
          /\ Separated(code) /\ Whole(l, n) /\ Level(code)
BarriersPlaced == phase = 0 => Placed(launch)

\* Every access is inside of the variable, as the passes have enlarged,
\* shrunk or made it.
Inside ==
  \A w \in Running : \A a \in Accessed(Step(w)) :
    LET shape == launch.shapes[a.cell.v]
    IN Len(a.cell.i) = Len(shape) /\ \A n \in DOMAIN shape : a.cell.i[n] \in 0 .. shape[n] - 1

\* When all is done the memory holds what the source program computes in the
\* order of its text: no update is lost, and no workspace is left out.
SameResult == Inside /\ (Done => Result(mem, launch.locals) = launch.expected)

\* The machine comes to the end: no warp waits at a barrier for a warp that
\* never comes there, and atomicUpdate does not retry forever.
Completes == <>Done
=============================================================================

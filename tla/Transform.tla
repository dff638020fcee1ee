----------------------------- MODULE Transform -----------------------------
(***************************************************************************)
(* A program under Schedule: any sequence of transformations (modules      *)
(* Loops and Memory), and lowering when it is done.  A transformation that *)
(* refuses throws InvalidSchedule and is undone (module Schedule), so it   *)
(* is no step here.                                                        *)
(***************************************************************************)
EXTENDS Loops, Memory

CONSTANTS
  Programs,     \* the programs that may be scheduled, each with a bound on
                \* the transformations
  Factors,      \* the factors and shifts of a split
  Shifts,
  Gaps          \* which known gaps of the checks the caller reaches: see Within

VARIABLES
  prog,     \* ast()
  meaning,  \* history: what the program meant before it was scheduled
  left      \* transformations that may follow
vars == <<prog, meaning, left>>

(***************************************************************************)
(* The gaps: situations in which a transformation accepts a program it     *)
(* should refuse.  Without them in Gaps, the caller stays within the rest. *)
(***************************************************************************)
\* A variable that is both reduced and otherwise used in the loop.
ReducedAndUsed(p, loop) ==
  \E x, y \in Leaves(Find(p, loop)) :
    /\ x.op = "ReduceTo"
    /\ x.w.v \in {a.v : a \in ToSet(y.r)} \/ (y.op = "Store" /\ y.w.v = x.w.v)
\* The range of inner changes with outer.
Triangular(p, outer, inner) == Find(p, outer).iter \in ItersOf(Find(p, inner).begin)
\* A parallel or vectorized loop is around or in the statement.
NearParallel(p, id) ==
  \E l \in Loops(p) : (l.par \/ l.vec) /\ (Has(l, id) \/ Has(Find(p, id), l.id))
\* The definitions of outer that MergeFor drops.
Dropped(p, outer, inner) ==
  \E d \in Defs(Find(p, outer)) : ~Has(Find(p, inner), d.id) /\ ~Covers(d, inner)
Within(gap, happens) == gap \in Gaps \/ ~happens

Init ==
  \E p \in Programs :
    /\ prog = p[1]
    /\ meaning = Meaning(prog)
    /\ left = p[2]

\* Statements are named by their IDs, so a program in which two have the same
\* one is scheduled no further.
UniqueIds(p) == Cardinality(Ids(p)) = Len(Nodes(p))
Ready == left > 0 /\ UniqueIds(prog)
Become(p) ==
  /\ prog' = p
  /\ left' = left - 1
  /\ UNCHANGED meaning

Split(l, k, sh) ==
  /\ Within("shifted", sh # 0 /\ l.step # 1)
  /\ \E p \in SplitOf(prog, l.id, k, -1, sh) \cup SplitOf(prog, l.id, -1, k, sh) : Become(p)
Reorder(o, i) ==
  /\ Nest(prog, {o, i}) # <<>>
  /\ Has(Find(prog, o), i)
  /\ Within("following", Following(prog, o, i))
  /\ Within("triangular", Triangular(prog, o, i))
  /\ Within("filled", FilledBetween(prog, o, i))
  /\ Within("reduced", ReducedAndUsed(prog, o))
  /\ Within("parallel", NearParallel(prog, o))
  /\ \E p \in ReorderOf(prog, <<i, o>>) : Become(p)
Merge(o, i) ==
  /\ Nest(prog, {o, i}) # <<>>
  /\ Has(Find(prog, o), i)
  /\ Within("following", Following(prog, o, i) \/ Dropped(prog, o, i))
  /\ Within("triangular", Triangular(prog, o, i))
  /\ \E p \in MergeOf(prog, o, i) : Become(p)
Fuse(id0, id1) == \E p \in FuseOf(prog, id0, id1) : Become(p)
Fission(loop, splitter, before) ==
  /\ Within("parallel", NearParallel(prog, loop))
  /\ {} \notin ToSet(Halves(prog, loop, splitter, before))  \* it only renames otherwise
  /\ \E p \in FissionOf(prog, loop, splitter, before, <<"fission.0", "fission.1">>) : Become(p)
Swap(order) == \E p \in SwapOf(prog, order) : Become(p)
Parallelize(loop) ==
  /\ Within("reduced", ReducedAndUsed(prog, loop))
  /\ \E p \in ParallelizeOf(prog, loop) : Become(p)
Vectorize(loop) == \E p \in VectorizeOf(prog, loop) : Become(p)
Unroll(loop) == \E p \in UnrollOf(prog, loop) : Become(p)
Blend(loop) ==
  /\ Within("parallel", NearParallel(prog, loop))
  /\ Within("reduced", ReducedAndUsed(prog, loop))
  /\ \E p \in BlendOf(prog, loop) : Become(p)
Cache(id, v) ==
  /\ Within("parallel", NearParallel(prog, id))
  /\ \E p \in CacheOf(prog, id, v) : Become(p)
CacheReduction(id, v) == \E p \in CacheReductionOf(prog, id, v) : Become(p)
VarSplit(d, dim, k) == \E p \in VarSplitOf(prog, d, dim, k) : Become(p)
VarMerge(d, dim) == \E p \in VarMergeOf(prog, d, dim) : Become(p)
VarReorder(d, order) == \E p \in VarReorderOf(prog, d, order) : Become(p)
Lower == Ready /\ \E p \in LowerOf(prog) : Become(p)

\* What a transformation can be asked to do; nothing if no more may follow.
Scheduled == {l \in Loops(prog) : Ready}
Statements == {s \in ToSet(Nodes(prog)) : Ready}
Variables == {d \in Defs(prog) : Ready}
Parts(l) == {s \in ToSet(Nodes(l.body)) : Leaves(s) # {}}
Next ==
  \/ \E l \in Scheduled, k \in Factors, sh \in Shifts : Split(l, k, sh)
  \/ \E l \in Scheduled : \E m \in Scheduled \ {l} : Reorder(l.id, m.id)
  \/ \E l \in Scheduled : \E m \in Scheduled \ {l} : Merge(l.id, m.id)
  \/ \E l \in Scheduled : \E m \in Scheduled \ {l} : Fuse(l.id, m.id)
  \/ \E l \in Scheduled, b \in BOOLEAN : \E s \in Parts(l) : Fission(l.id, s.id, b)
  \/ \E s \in Statements : \E t \in Statements \ {s} : Swap(<<s.id, t.id>>)
  \/ \E l \in Scheduled : Parallelize(l.id)
  \/ \E l \in Scheduled : Vectorize(l.id)
  \/ \E l \in Scheduled : Unroll(l.id)
  \/ \E l \in Scheduled : Blend(l.id)
  \/ \E s \in Statements : \E v \in AllUses(s) : Cache(s.id, v)
  \/ \E s \in Statements : \E v \in AllUses(s) : CacheReduction(s.id, v)
  \/ \E d \in Variables : \E dim \in 1 .. Rank(prog, d), k \in Factors : VarSplit(d, dim, k)
  \/ \E d \in Variables : \E dim \in 1 .. Rank(prog, d) - 1 : VarMerge(d, dim)
  \/ \E d \in {x \in Variables : Rank(prog, x) = 2} : VarReorder(d, <<2, 1>>)
  \/ Lower

Spec == Init /\ [][Next]_vars

(***************************************************************************)
(* Properties.                                                             *)
(***************************************************************************)
\* The AST stays a program: what a node uses, iterators and variables that the
\* program defines, is defined around it (symbol_table.h throws otherwise).
ItersIn(n) ==
  CASE n.k = "Leaf" -> UNION {ItersOf(e) : e \in ToSet(n.uses) \cup UNION {ToSet(a.i) : a \in ToSet(n.r) \cup {n.w}}}
    [] n.k = "If" -> ItersOf(n.cond)
    [] n.k = "For" -> ItersOf(n.begin)
    [] OTHER -> {}
WellFormed ==
  \A n \in ToSet(Nodes(prog)) :
       LET around == ToSet(Front(Path(prog, n.id)))
       IN /\ ItersIn(n) \subseteq {l.iter : l \in {t \in around : t.k = "For"}}
          /\ n.k = "Leaf" => AllUses(n) \cap {d.var : d \in Defs(prog)} \subseteq {d.var : d \in {t \in around : t.k = "Def"}}

\* Whatever was done to it, the program still computes what it computed before.
SameMeaning == WellFormed /\ Meaning(prog) = meaning

\* Iterations of a parallel loop conflict in nothing but reductions, and those
\* of a vectorized loop in nothing at all: the lanes run at once.
NoRace ==
  \A l \in {t \in Loops(prog) : t.par \/ t.vec} :
    LET A == SubAST(prog, Points(prog), l.id)
        outer == OuterLoops(prog, l.id)
    IN \A a, b \in A :
         (/\ IsWrite(a) /\ DepAll(a, b, TRUE) /\ Along(a, b, l.id, "Different")
          /\ \A o \in outer : Along(a, b, o, "Same"))
         => ~l.vec /\ a.kind = "ReduceTo" /\ b.kind = "ReduceTo"
=============================================================================

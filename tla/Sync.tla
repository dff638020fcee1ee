-------------------------------- MODULE Sync --------------------------------
(***************************************************************************)
(* makeSync (src/src/pass/gpu/make_sync.cc): the barriers of a kernel.     *)
(* The dependences between threads are found once; then the program is     *)
(* walked through in the order of the text.  A dependence is "visiting"    *)
(* from its earlier statement on, and settled by the first barrier after   *)
(* that; a barrier that not all threads would reach splits the branches    *)
(* around it.                                                              *)
(***************************************************************************)
EXTENDS Gpu

\* FindAllThreads: whether the threads that a dimension tells apart, and the
\* inner dimensions, are always in one warp.
ThreadLoops(p) == {l \in ParallelLoops(p) : l.scope \in ThreadScopes}
InWarp(l, warpSize) ==
  LET lens == {<<x.id, x.len>> : x \in ThreadLoops(l)}
  IN warpSize % FoldSet(LAMBDA x, n : x[2] * n, 1, lens) = 0

(***************************************************************************)
(* The dependences: from the access that comes first to the later one,     *)
(* the innermost statement and loop around both, and whether a barrier of  *)
(* the warp is enough.                                                     *)
(***************************************************************************)
CommonPath(p, a, b) ==
  LET s == Path(p, a)
      t == Path(p, b)
  IN SubSeq(s, 1, Max({n \in DOMAIN s \cap DOMAIN t : s[n].id = t[n].id}))
IsShared(p, v) == \A d \in Defs(p) : d.var = v => d.mtype \in {"shared", "global"}
Atomic(p, a) == a.kind = "ReduceTo" /\ IsSync(Find(p, a.id))
CrossThreadDeps(p, warpSize) ==
  LET A == {a \in Points(p) : IsShared(p, a.v)}
      pair(l, e) ==
        /\ \E t \in ToSet(CommonPath(p, l.id, e.id)) : t \in ThreadLoops(p)
        /\ ~(Atomic(p, l) /\ Atomic(p, e)) /\ <<l.id, l.n>> # <<e.id, e.n>>
      dep(l, e, loop) ==
        LET common == CommonPath(p, l.id, e.id)
        IN [later |-> l.id, earlier |-> e.id, lca |-> Last(common).id,
            loop |-> Last(SelectSeq(common, LAMBDA t : t.k = "For")).id, warp |-> InWarp(loop, warpSize)]
      of(loop) == {<<x[1][1].id, x[1][2].id>> : x \in Reported(Accepted(Related(A, FALSE, FALSE), pair), {{<<loop.id, "Different">>}})}
  IN UNION {{dep([id |-> x[1]], [id |-> x[2]], loop) : x \in of(loop)} : loop \in ThreadLoops(p)}

(***************************************************************************)
(* MakeSync.  c holds the dependences "visiting" and "synced", the barrier *)
(* to put "before" a loop, and the "cuts": branches that a barrier splits. *)
(***************************************************************************)
Barrier(id, due) ==
  Leaf(Append(id, "sync"), IF \A d \in due : d.warp THEN "__syncwarp" ELSE "__syncthreads", At("", <<>>), <<>>, <<>>)
\* The dependences that end at s: "later" is the statement, "loop" the loop around both.
DueToBlock(c, end, s) == {d \in c.visiting \ c.synced : d[end] = s.id /\ ~d.warp}
Due(c, end, s) == {d \in c.visiting \ c.synced : d[end] = s.id}
\* A mutant of Settle: a barrier of the warp settles what waits for the block.
SettleAll(c, due) == [c EXCEPT !.synced = @ \cup c.visiting]
Settle(c, due) ==
  [c EXCEPT !.synced = @ \cup {d \in c.visiting : (\E x \in due : ~x.warp) \/ d.warp}]
VariantIfs(p, id) ==
  {t.id : t \in {x \in ToSet(Front(Path(p, id))) : x.k = "If" /\ \E l \in ThreadLoops(p) : Varies(x.cond, l)}}
\* markSyncForSplitting: not for a barrier of a warp.
MarkCuts(c, p, id, sync, needWarp) ==
  IF needWarp THEN c ELSE [c EXCEPT !.cuts = @ \cup VariantIfs(p, id) \X {sync.id}]
NeedWarp(due) == \E d \in due : d.warp

\* visit(For): the dependences from one iteration to the next, and what was
\* put off until the loop was known.
AtLoopEnd(p, s, c) ==
  LET due == Due(c, "loop", s)
      sync == Barrier(s.id, due)
      ended == IF due = {} THEN c
               ELSE [MarkCuts(Settle(c, due), p, s.id, sync, NeedWarp(due))
                       EXCEPT !.out.body = Block(Append(s.id, "end"), <<@, sync>>)]
  IN IF s.id \notin DOMAIN c.before THEN ended
     ELSE [MarkCuts(ended, p, s.id, c.before[s.id], NeedWarp(due))
             EXCEPT !.out = Block(Append(s.id, "before"), <<c.before[s.id], @>>)]

\* CopyParts: the condition goes to the parts between the barriers.  A loop
\* around a barrier runs for all threads then: its range must not depend on them.
HasSplitter(t, splitters) == \E x \in Leaves(t) : x.id \in splitters
RECURSIVE CopyParts(_, _, _)
CopyParts(t, cond, splitters) ==
  LET part(x) == IF HasSplitter(x, splitters) THEN CopyParts(x, cond, splitters)
                 ELSE IF t.k = "Seq" THEN If(Append(x.id, "part"), cond, x) ELSE x
  IN WithKids(t, Each(Kids(t), part))
Dynamic(t, splitters) ==
  \E f \in Loops(t) : ~f.par /\ f.begin[1] # "n" /\ HasSplitter(f, splitters)
AtBranch(s, c) ==
  LET splitters == {x[2] : x \in {y \in c.cuts : y[1] = s.id}}
  IN IF splitters = {} THEN c
     ELSE IF Dynamic(c.out.body, splitters) THEN [c EXCEPT !.error = TRUE]
     ELSE [c EXCEPT !.out = CopyParts(c.out.body, s.cond, splitters)]

\* visitStmt: a barrier before the later statement, outside of the loops that
\* only the later statement is in.
BeforeStmt(p, s, c) ==
  LET due == Due(c, "later", s)
      sync == Barrier(s.id, due)
      path == Path(p, s.id)
      target == Max({n \in DOMAIN path : \E d \in due : d.lca = path[n].id} \cup {0})
      loops == {n \in target + 1 .. Len(path) - 1 : path[n].k = "For"}
  IN IF due = {} THEN c
     ELSE IF loops # {} THEN [Settle(c, due) EXCEPT !.before = (path[Min(loops)].id :> sync) @@ @]
     ELSE [MarkCuts(Settle(c, due), p, s.id, sync, NeedWarp(due))
             EXCEPT !.out = Block(Append(s.id, "seq"), <<sync, @>>)]
Leave(p, s, c) ==
  [c EXCEPT !.visiting = @ \cup {d \in c.deps \ c.synced : d.earlier = s.id}]

RECURSIVE Visit(_, _, _)
Visit(p, s, c) ==
  LET kid(acc, t) == With(Visit(p, t, acc.c), LAMBDA x : [c |-> x, kids |-> Append(acc.kids, x.out)])
      inner == Through(kid, [c |-> c, kids |-> <<>>], Kids(s))
      here == [inner.c EXCEPT !.out = WithKids(s, inner.kids)]
      done == CASE s.k = "For" -> AtLoopEnd(p, s, here) [] s.k = "If" -> AtBranch(s, here) [] OTHER -> here
  IN Leave(p, s, BeforeStmt(p, s, done))

\* InvalidProgram: the empty set.
MakeSync(p, warpSize) ==
  With(Visit(p, p, [deps |-> CrossThreadDeps(p, warpSize), visiting |-> {}, synced |-> {}, before |-> None,
                    cuts |-> {}, error |-> FALSE, out |-> p]), LAMBDA c :
    IF c.error THEN {} ELSE {MergeAndHoistIf(c.out)})
=============================================================================

-------------------------------- MODULE Gpu --------------------------------
(***************************************************************************)
(* Passes that make a kernel of a program for a GPU (src/src/pass/gpu/     *)
(* multiplex_buffers.cc, normalize_threads.cc, make_sync.cc, and           *)
(* src/src/pass/merge_and_hoist_if.cc).  A kernel has one loop for the     *)
(* blocks and one for every dimension of the threads; what the passes      *)
(* before left to chance is ordered by barriers.                           *)
(***************************************************************************)
EXTENDS Reduction

RECURSIVE Fixpoint(_, _)
Fixpoint(F(_), x) == With(F(x), LAMBDA y : IF y = x THEN x ELSE Fixpoint(F, y))

(***************************************************************************)
(* multiplexBuffers: a variable that a loop of threads or blocks defines   *)
(* gets a dimension for that loop, if what is stored varies with the loop  *)
(* and a dependence crosses it.                                            *)
(***************************************************************************)
CondsTo(p, id) == {t.cond : t \in {x \in ToSet(Front(Path(p, id))) : x.k = "If"}}
ItersAt(p, leaf) ==
  UNION {ItersOf(e) : e \in ToSet(leaf.uses) \cup CondsTo(p, leaf.id)
                           \cup UNION {ToSet(a.i) : a \in ToSet(leaf.r) \cup {leaf.w}}}
VariantVars(p, loop) ==
  LET varies(leaf, S) == loop.iter \in ItersAt(p, leaf) \/ \E a \in ToSet(leaf.r) : a.v \in S
  IN Fixpoint(LAMBDA S : {leaf.w.v : leaf \in {x \in Leaves(p) : varies(x, S)}}, {})
Affecting(p, d) ==
  LET around == SelectSeq(ForsTo(p, d.id), LAMBDA l : l.par)
      A == {a \in Points(p) : a.v = d.var}
      shares(l) == d.mtype = "global" \/ (d.mtype = "shared" /\ l.scope \in ThreadScopes)
      crossed(l) == FindAllDeps(A, {{<<l.id, "Different">>}}, TRUE, FALSE) # {}
  IN SelectSeq(around, LAMBDA l : shares(l) /\ d.var \in VariantVars(p, l) /\ crossed(l))
MultiplexBuffers(p) ==
  LET one(q, d) ==
        With(Affecting(p, d), LAMBDA loops :
          LET at(a) == IF a.v = d.var THEN [a EXCEPT !.i = Each(loops, LAMBDA l : V(l.iter)) \o @] ELSE a
          IN Mutate(q, LAMBDA t :
               IF t.id = d.id THEN [t EXCEPT !.shape = Each(loops, LAMBDA l : l.len) \o @]
               ELSE IF t.k = "Leaf" THEN [t EXCEPT !.w = at(@), !.r = Each(@, at)] ELSE t))
  IN FoldLeft(one, p, SetToSeq(Defs(p)))

(***************************************************************************)
(* mergeAndHoistIf.                                                        *)
(***************************************************************************)
Flatten(t) ==
  IF t.k # "Seq" THEN t
  ELSE With(FlattenSeq(Each(t.stmts, LAMBDA s : IF s.k = "Seq" THEN s.stmts ELSE <<s>>)), LAMBDA stmts :
         IF Len(stmts) = 1 THEN stmts[1] ELSE [t EXCEPT !.stmts = stmts])
MergeIf(stmts, s) ==
  IF stmts # <<>> /\ s.k = "If" /\ Last(stmts).k = "If" /\ Last(stmts).cond = s.cond
  THEN Append(Front(stmts), [Last(stmts) EXCEPT !.body = Block(Append(s.id, "merged"), <<@, s.body>>)])
  ELSE Append(stmts, s)
Hoistable(t) == t.body.k = "If" /\ (t.k = "For" => t.iter \notin ItersOf(t.body.cond))
MergeOrHoistIf(t) ==
  IF t.k = "Seq" THEN Flatten([t EXCEPT !.stmts = FoldLeft(MergeIf, <<>>, @)])
  ELSE IF t.k \in {"Def", "For"} /\ Hoistable(t) THEN [t.body EXCEPT !.body = [t EXCEPT !.body = t.body.body]]
  ELSE t
MergeAndHoistIf(p) == Fixpoint(LAMBDA q : Mutate(Mutate(q, Flatten), MergeOrHoistIf), p)

(***************************************************************************)
(* normalizeThreads, with the shrinkFor that bounds the new loops: every   *)
(* statement of a kernel is in a loop of each scope, under the conditions  *)
(* of the loops that it was in, or alone in the first thread.              *)
(***************************************************************************)
Scopes == {"x", "y", "block"}
IterOf(scope) == IF scope = "block" THEN ".blockIdx.x" ELSE ".threadIdx." \o scope
ScopeLen(s, scope) == Max({l.len : l \in {x \in Loops(s) : x.par /\ x.scope = scope}} \cup {1})
Under(id, cond, always, s) == IF always THEN s ELSE If(id, cond, s)
RECURSIVE Normalized(_, _, _, _)
Normalized(s, map, inside, len) ==
  LET sub(e) == Subst(e, map)
      alone(t, scope) == Under(Append(t.id, scope), Op("=", V(IterOf(scope)), N(0)), len[scope] = 1, t)
  IN IF s.k = "Leaf" THEN FoldSet(LAMBDA scope, t : alone(t, scope), MapNode(s, sub), Scopes \ inside)
     ELSE IF s.k = "For" /\ s.par
     THEN LET iter == V(IterOf(s.scope))
              new == s.iter :> (IF s.begin = N(0) THEN iter ELSE Op("+", iter, sub(s.begin)))
          IN Under(s.id, Op("<", iter, N(s.len)), s.len = len[s.scope],
                   Normalized(s.body, new @@ map, inside \cup {s.scope}, len))
     ELSE WithKids(MapNode(s, sub), Each(Kids(s), LAMBDA t : Normalized(t, map, inside, len)))
KernelOf(s) ==
  LET len == [scope \in Scopes |-> ScopeLen(s, scope)]
      loop(scope, b) == Parallel(scope, For(Append(s.id, IterOf(scope)), IterOf(scope), N(0), len[scope], 1, b))
  IN FoldRight(loop, <<"block", "y", "x">>, Normalized(s, None, {}, len))
StartsKernel(s) == (s.k = "For" /\ s.par) \/ (s.k = "Def" /\ s.mtype \in {"local", "shared"})
NormalizeThreads(p) ==
  LET RECURSIVE Outside(_)
      Outside(s) == IF StartsKernel(s) THEN KernelOf(s) ELSE WithKids(s, Each(Kids(s), Outside))
  IN MergeAndHoistIf(Outside(p))
=============================================================================

-------------------------------- MODULE Loops --------------------------------
(***************************************************************************)
(* The transformations of loops (src/src/schedule/*.cc), each as the set   *)
(* of programs it makes of a program: one, or none if it throws            *)
(* InvalidSchedule.  Lengths of loops are constants, a loop has no         *)
(* "no_deps" hint, a branch has no else, all memory is of the CPU.         *)
(***************************************************************************)
EXTENDS Passes

(***************************************************************************)
(* CheckLoopOrder: S is the set of loops of a nest, with no other loop     *)
(* between them.  Outer to inner, and the StmtSeqs between the ends.       *)
(***************************************************************************)
LoopPath(p, id) == SelectSeq(Path(p, id), LAMBDA t : t.k = "For")
Nest(p, S) ==
  LET ofSet(path) == SubSeq(path, Max({1, Len(path) - Cardinality(S) + 1}), Len(path))
      isNest(path) == Len(path) = Cardinality(S) /\ {t.id : t \in ToSet(path)} = S
      nests == {q \in {ofSet(LoopPath(p, l)) : l \in S} : isNest(q)}
  IN With(nests, LAMBDA found : IF found = {} THEN <<>> ELSE CHOOSE q \in found : TRUE)
OuterLoops(p, id) == {t.id : t \in ToSet(Front(LoopPath(p, id)))}
SeqsBetween(p, outer, inner) == SelectSeq(Path(Find(p, outer), inner), LAMBDA t : t.k = "Seq")

(***************************************************************************)
(* Transformations.                                                        *)
(***************************************************************************)
CeilDiv(a, b) == (a + b - 1) \div b

\* Splitter::visit(Var): nth is the number of the iteration.
SplitBody(l, nth, shift) ==
  SubstAll(l.body, l.iter :> Op("-", Op("+", l.begin, Op("*", nth, N(l.step))), N(shift)))
\* Splitter, with a factor or, if nparts is not -1, with a number of parts.
Splitter(l, givenFactor, givenNparts, shift) ==
  LET shiftedLen == l.len + shift
      factor == IF givenFactor # -1 THEN givenFactor ELSE CeilDiv(shiftedLen, givenNparts)
      nparts == IF givenFactor # -1 THEN CeilDiv(shiftedLen, givenFactor) ELSE givenNparts
      iter0 == l.iter \o ".0"
      iter1 == l.iter \o ".1"
      nth == Op("+", Op("*", V(iter0), N(factor)), V(iter1))
      body == If(Append(l.id, "guard"), Op("&", Op(">=", nth, N(shift)), Op("<", nth, N(shiftedLen))),
                 SplitBody(l, nth, shift))
      loop(name, iter, len, b) ==
        [For(Append(l.id, name), iter, N(0), len, 1, b) EXCEPT !.par = l.par, !.vec = l.vec]
  IN loop("split.0", iter0, nparts, loop("split.1", iter1, factor, body))
SplitOf(p, loop, factor, nparts, shift) ==
  {Simplify(Replace(p, loop, LAMBDA t : Splitter(t, factor, nparts, shift)))}

\* What is before and after inner in outer runs if cond holds; inner itself is
\* replaced by its body.
Guard(t, n, cond) ==
  LET only(part, name) ==
        IF part = <<>> THEN <<>>
        ELSE <<If(Append(part[1].id, name), cond, OneOrSeq(Append(part[1].id, "seq"), part))>>
  IN OneOrSeq(t.id, only(SubSeq(t.stmts, 1, n - 1), "before") \o <<t.stmts[n]>>
                    \o only(SubSeq(t.stmts, n + 1, Len(t.stmts)), "after"))
Perfected(outer, inner, cond) ==
  With(SeqsBetween(outer, outer.id, inner.id), LAMBDA seqs :
    Mutate(outer.body, LAMBDA t :
      With(SelectSeq(seqs, LAMBDA s : s.id = t.id), LAMBDA old :
        CASE t.id = inner.id -> t.body
          [] old # <<>> -> Guard(t, CHOOSE n \in DOMAIN old[1].stmts : Has(old[1].stmts[n], inner.id), cond)
          [] OTHER -> t)))

\* Reorder: inner becomes the outer loop of the two.
Exchange(p, outerId, innerId) ==
  With(Find(p, innerId), LAMBDA inner :
    Replace(p, outerId, LAMBDA t :
      [inner EXCEPT !.body =
        [t EXCEPT !.body = Perfected(t, inner, Op("=", V(inner.iter), inner.begin))]]))
NotLexLess(outers, order) ==
  {{<<o, "Same">> : o \in outers} \cup {<<order[j], "Same">> : j \in 1 .. i - 1} \cup {<<order[i], "Inv">>} :
     i \in DOMAIN order}
RECURSIVE BubbleSort(_, _, _, _)
BubbleSort(p, cur, dst, j) ==
  LET pos(id) == CHOOSE n \in DOMAIN dst : dst[n] = id
      sorted == \A n \in 1 .. Len(cur) - 1 : pos(cur[n]) < pos(cur[n + 1])
      next == IF j + 1 < Len(cur) THEN j + 1 ELSE 1
  IN IF sorted THEN <<p>>
     ELSE IF pos(cur[j]) < pos(cur[j + 1]) THEN BubbleSort(p, cur, dst, next)
     ELSE IF Find(p, cur[j + 1]).par /\ \E s \in ToSet(SeqsBetween(p, cur[j], cur[j + 1])) : Len(s.stmts) > 1
     THEN <<>>  \* InvalidSchedule: imperfect nesting
     ELSE BubbleSort(Exchange(p, cur[j], cur[j + 1]),
                     [cur EXCEPT ![j] = cur[j + 1], ![j + 1] = cur[j]], dst, next)
\* As ReorderNest, but blind to the statements around the inner loops.
ReorderNestOfLoops(p, cur, dst) ==
  IF FindAllDeps(SubAST(p, Points(p), cur[1]), NotLexLess(OuterLoops(p, cur[1]), dst), TRUE, TRUE) # {} THEN {}
  ELSE ToSet(BubbleSort(p, cur, dst, 1))
ReorderNest(p, cur, dst) ==
  LET seqs == Each(SeqsBetween(p, cur[1], Last(cur)), LAMBDA t : t.id)
  IN IF cur = <<>> THEN {}
     ELSE IF FindAllDeps(SubAST(p, Points(p), cur[1]), NotLexLess(OuterLoops(p, cur[1]), seqs \o dst), TRUE, TRUE) # {}
     THEN {}
     ELSE ToSet(BubbleSort(p, cur, dst, 1))
ReorderOf(p, dst) == ReorderNest(p, Each(Nest(p, ToSet(dst)), LAMBDA t : t.id), dst)

\* What reordering misses: statements of outer that follow inner run once the
\* first iteration of inner is done, and a variable that is defined between the
\* two is filled in that iteration only.
Following(p, outer, inner) ==
  \E s \in ToSet(SeqsBetween(p, outer, inner)) : ~Has(Last(s.stmts), inner)
FilledBetween(p, outer, inner) ==
  \E d \in Defs(Find(p, outer)) : Covers(d, inner) /\ SeqsBetween(p, d.id, inner) # <<>>

\* MergeFor, which also drops the definitions in outer that are not in inner.
MergeFor(outer, inner) ==
  LET iter == "m." \o outer.iter \o "." \o inner.iter
      m == V(iter)
      len == N(inner.len)
      nth(l, n) == l.iter :> Op("+", l.begin, Op("*", n, N(l.step)))
      out == [outer EXCEPT !.body = SubstAll(@, nth(outer, Op("/", m, len)))]
      sub == Replace(out, inner.id, LAMBDA t : [t EXCEPT !.body = SubstAll(@, nth(inner, Op("%", m, len)))])
      dropped == Mutate(sub, LAMBDA t : IF t.k = "Def" /\ ~Has(inner, t.id) THEN t.body ELSE t)
  IN For(<<"merge">> \o outer.id \o inner.id, iter, N(0), outer.len * inner.len, 1,
         Perfected(dropped, inner, Op("=", Op("%", m, len), N(0))))
MergeNest(p, o, i) ==
  With(Hoist(p, LAMBDA q : DefIds(q, LAMBDA d : Has(Find(q, o), d.id) /\ Covers(d, i))), LAMBDA ast :
    Replace(ast, o, LAMBDA t : MergeFor(t, Find(t, i))))
MergeOf(p, loop1, loop2) ==
  {MergeNest(p, n[1].id, n[2].id) : n \in {Nest(p, {loop1, loop2})} \ {<<>>}}

\* findLoopInScopes: the loop id, with only branches around it.
InScopes(s, id) == Has(s, id) /\ \A t \in ToSet(Front(Path(s, id))) : t.k = "If"
FuseFor(s0, s1, id0, id1) ==
  LET l0 == Find(s0, id0)
      l1 == Find(s1, id1)
      new(l) == SubstAll(l.body, l.iter :> Op("+", Op("*", V(l0.iter), N(l.step)), l.begin))
  IN For(<<"fuse">> \o id0 \o id1, l0.iter, N(0), l0.len, 1,
         Block(<<"fused">> \o id0 \o id1,
               <<Wrap(Front(Path(s0, id0)), new(l0)), Wrap(Front(Path(s1, id1)), new(l1))>>))
\* The positions <<s, n>> of the two, one after the other in the StmtSeq s.
Adjacent(ast, id0, id1) ==
  {<<s, n>> \in {t \in ToSet(Nodes(ast)) : t.k = "Seq"} \X (1 .. Len(Nodes(ast))) :
     n + 1 \in DOMAIN s.stmts /\ InScopes(s.stmts[n], id0) /\ InScopes(s.stmts[n + 1], id1)}
FuseAt(ast, s, n, id0, id1) ==
  LET fused == FuseFor(s.stmts[n], s.stmts[n + 1], id0, id1)
      made == Replace(ast, s.id, LAMBDA t :
                [t EXCEPT !.stmts = SubSeq(@, 1, n - 1) \o <<fused>> \o SubSeq(@, n + 2, Len(@))])
      from(a, id) == a.id \in Ids(Find(ast, id))
  IN With(made, LAMBDA q :
       IF FindDeps(Points(q), LAMBDA l, e : from(e, id1) /\ from(l, id0),
                   {{<<<<"fuse">> \o id0 \o id1, "Normal">>}}) # {} THEN {}
       ELSE {RemoveDead(Sink(Simplify(q)))})
FuseOf(p, id0, id1) ==
  With(Flatten(Hoist(p, LAMBDA q : DefIds(q, LAMBDA d : Covers(d, id0) # Covers(d, id1)))), LAMBDA ast :
    IF Find(ast, id0).len # Find(ast, id1).len THEN {}
    ELSE UNION {FuseAt(ast, x[1], x[2], id0, id1) : x \in Adjacent(ast, id0, id1)})

\* AddDimToVar: d gets a dimension for each loop of add.
AddDim(p, d, add) ==
  LET index(id) == LET l == Find(p, id) IN Op("/", Op("-", V(l.iter), l.begin), N(l.step))
      ren(a) == IF a.v = d.var THEN [a EXCEPT !.i = Each(add, index) \o @] ELSE a
  IN Replace(p, d.id, LAMBDA t :
       Mutate(t, LAMBDA x : IF x.k # "Leaf" THEN x
                            ELSE [x EXCEPT !.w = ren(@), !.r = Each(@, ren)]))
\* FissionFor: the part of a loop with the leaves of keep, under new IDs unless
\* the suffix is empty.  What a definition that is dropped was around is marked
\* a second time.
NewId(t, suffix) == IF suffix = "" THEN t ELSE [t EXCEPT !.id = Append(@, suffix)]
Part(loop, keep, suffix) ==
  LET new(t) == NewId(t, suffix)
  IN Mutate(loop, LAMBDA t :
       CASE t.k = "Leaf" /\ t.id \notin keep -> Nothing(new(t).id)
         [] t.k = "Def" /\ t.var \notin AllUses(t.body) -> new(t.body)
         [] OTHER -> new(t))
\* ast is the program after hoisting, "found" the dependences from the second
\* part to the first: one along a loop needs a dimension for it.
FissionWith(p, ast, loop, first, second, affected, found, suffixes) ==
  LET loopOf(f) == (CHOOSE c \in f[2] : TRUE)[1]
      isDef(d, f) == d.var = f[1][1].v /\ Has(d, f[1][1].id)
      harmful(variance) == {f \in found : \/ <<f[1][1].v, loopOf(f)>> \in variance
                                          \/ IsWrite(f[1][1]) /\ IsWrite(f[1][2])}
      toAdd(d, harm) == SelectSeq(affected, LAMBDA id : \E f \in harm : isDef(d, f) /\ loopOf(f) = id)
      widened(harm) == FoldLeft(LAMBDA q, d : AddDim(q, d, toAdd(d, harm)), ast, SetToSeq(Defs(ast)))
  IN IF \E f \in found : ~\E d \in Defs(Find(p, loopOf(f))) : isDef(d, f) THEN {}
     ELSE {MergeAndHoistIf(Replace(widened(harmful(Variance(ast))), loop, LAMBDA t :
             Block(Append(loop, "fission"), <<Part(t, first, suffixes[1]), Part(t, second, suffixes[2])>>)))}
FissionInto(p, loop, first, second, suffixes) ==
  LET crossing(t) == t.k # "Leaf" /\ Ids(t) \cap first # {} /\ Ids(t) \cap second # {}
  IN With(Each(SelectSeq(Nodes(Find(p, loop)), LAMBDA t : t.k = "For" /\ crossing(t)), LAMBDA t : t.id), LAMBDA affected :
     With(Hoist(p, LAMBDA q : DefIds(q, LAMBDA d : Has(Find(q, loop), d.id) /\ crossing(d))), LAMBDA ast :
       FissionWith(p, ast, loop, first, second, affected,
         FindDeps(SubAST(ast, Points(ast), loop), LAMBDA l, e : e.id \in second /\ l.id \in first,
                  {{<<id, "Normal">>} : id \in ToSet(affected)}), suffixes)))
\* The splitter is the last statement of the first part or, if before, the
\* first one of the second.
Halves(p, loop, splitter, before) ==
  LET leaves == Each(SelectSeq(Nodes(Find(p, loop)), LAMBDA t : t.k = "Leaf"), LAMBDA t : t.id)
      of == {n \in DOMAIN leaves : Has(Find(p, splitter), leaves[n])}
  IN With(IF before THEN Min(of) - 1 ELSE Max(of), LAMBDA cut :
       <<{leaves[n] : n \in 1 .. cut}, {leaves[n] : n \in cut + 1 .. Len(leaves)}>>)
FissionOf(p, loop, splitter, before, suffixes) ==
  With(Halves(p, loop, splitter, before), LAMBDA h : FissionInto(p, loop, h[1], h[2], suffixes))

\* The statements of order are the ones of s from "start" on.  SwapBlindly does
\* not check what they access.
SwapBlindly(ast, s, start, order) ==
  {Sink(Replace(ast, s.id, LAMBDA t :
     [t EXCEPT !.stmts = SubSeq(@, 1, start - 1)
          \o Each(order, LAMBDA id : Find(ast, id)) \o SubSeq(@, start + Len(order), Len(@))]))}
SwapIn(ast, s, start, order) ==
  LET made == Replace(ast, s.id, LAMBDA t :
                [t EXCEPT !.stmts = SubSeq(@, 1, start - 1)
                     \o Each(order, LAMBDA id : Find(ast, id)) \o SubSeq(@, start + Len(order), Len(@))])
      place(stmts, a) == CHOOSE n \in DOMAIN stmts : Has(stmts[n], a.id)
      moved(a) == \E id \in ToSet(order) : Has(Find(ast, id), a.id)
      news == Each(order, LAMBDA id : Find(ast, id))
      flipped(l, e) == moved(l) /\ moved(e) /\ (place(s.stmts, l) < place(s.stmts, e)) # (place(news, l) < place(news, e))
  IN With(made, LAMBDA q :
       IF FindDeps(Points(q), LAMBDA l, e : flipped(l, e), {{}}) # {} THEN {} ELSE {Sink(q)})
SwapOf(p, order) ==
  LET covers(d) == {id \in ToSet(order) : Covers(d, id)}
      starts(s) == {n \in 1 .. Len(s.stmts) - Len(order) + 1 :
                      {t.id : t \in ToSet(SubSeq(s.stmts, n, n + Len(order) - 1))} = ToSet(order)}
  IN With(Flatten(Hoist(p, LAMBDA q : DefIds(q, LAMBDA d : covers(d) \notin {{}, ToSet(order)}))), LAMBDA ast :
       UNION {UNION {SwapIn(ast, s, n, order) : n \in starts(s)} : s \in {t \in ToSet(Nodes(ast)) : t.k = "Seq"}})

ParallelizeOf(p, loop) ==
  IF FindAllDeps(SubAST(p, Points(p), loop),
              {{<<loop, "Normal">>} \cup {<<o, "Same">> : o \in OuterLoops(p, loop)}}, TRUE, TRUE) # {} THEN {}
  ELSE {Replace(p, loop, LAMBDA t : [t EXCEPT !.par = TRUE])}

\* As VectorizeOf, but lets the lanes add to one element.
VectorizeReductions(p, loop) ==
  LET ast == Replace(p, loop, LAMBDA t : [t EXCEPT !.vec = TRUE])
  IN IF FindAllDeps(SubAST(ast, Points(ast), loop), {{<<loop, "Normal">>}}, TRUE, TRUE) # {} THEN {} ELSE {ast}
VectorizeOf(p, loop) ==
  LET ast == Replace(p, loop, LAMBDA t : [t EXCEPT !.vec = TRUE])
  IN IF FindAllDeps(SubAST(ast, Points(ast), loop), {{<<loop, "Normal">>}}, FALSE, TRUE) # {} THEN {}
     ELSE {ast}

\* ImmediateUnroll: the body once for each iteration, under new IDs.
UnrollOf(p, loop) ==
  LET copy(l, n) == Mutate(SubstAll(l.body, l.iter :> Op("+", l.begin, Op("*", N(n), N(l.step)))),
                           LAMBDA t : [t EXCEPT !.id = @ \o <<"unroll", ToString(n)>>])
  IN With(Simplify(p), LAMBDA ast :
       IF ~Has(ast, loop) THEN {}
       ELSE {RemoveWrites(Replace(ast, loop, LAMBDA l :
               Block(Append(loop, "unroll"), Each([n \in 1 .. l.len |-> n - 1], LAMBDA n : copy(l, n)))), EveryVar)})

(***************************************************************************)
(* BlendPass: every leaf is repeated for each iteration of the loop,       *)
(* within the branches that depend on it (env); the loops and branches     *)
(* that do not stay around the copies.  A copy keeps the ID of the leaf.   *)
(***************************************************************************)
RECURSIVE BlendIn(_, _, _, _, _)
BlendIn(s, l, env, offsets, copied) ==
  LET at(n, t) == SubstAll(FoldLeft(SubstAll, t, offsets), l.iter :> Op("+", l.begin, N(n * l.step)))
      own(n, t) == FoldLeft(LAMBDA x, v : RenameVar(x, v, v \o "." \o ToString(n)), t,
                            SetToSeq(copied \cap AllUses(t)))
      fresh(n, t) == Mutate(t, LAMBDA x : IF x.k = "Leaf" THEN x ELSE [x EXCEPT !.id = @ \o <<ToString(n)>> \o s.id])
      below(e) == BlendIn(s.body, l, e, offsets, copied)
      offset == s.iter :> Op("+", Op("*", V(s.iter), N(s.step)), s.begin)
  IN CASE s.k = "Leaf" ->
            Block(Append(s.id, "blend"),
                  Each([n \in 1 .. l.len |-> n - 1], LAMBDA n : fresh(n, at(n, Wrap(env, own(n, s))))))
       [] s.k = "Seq" ->
            [s EXCEPT !.stmts = Each(@, LAMBDA t : BlendIn(t, l, env, offsets, copied))]
       [] s.k \in {"For", "If"} /\ (env # <<>> \/ (s.k = "If" /\ l.iter \in ItersOf(s.cond))) ->
            below(Append(env, s))
       [] s.k = "If" ->  \* curIter_ is what the last leaf left
            [at(l.len, [s EXCEPT !.body = Nothing(s.id)]) EXCEPT !.body = below(env)]
       [] s.k = "For" ->
            [s EXCEPT !.begin = N(0), !.step = 1, !.body = BlendIn(@, l, env, <<offset>> \o offsets, copied)]
       [] s.k = "Def" ->
            IF s.var \in copied
            THEN FoldLeft(LAMBDA b, n : Def(Append(s.id, ToString(n)), s.var \o "." \o ToString(n), b),
                          below(env), [n \in 1 .. l.len |-> l.len - n])
            ELSE [s EXCEPT !.body = below(env)]
BlendOf(p, loop) ==
  LET scopes(l) == {t.id : t \in {x \in ToSet(Nodes(l.body)) : x.k \in {"For", "Seq"}}}
      variant(l, variance) == {d.var : d \in {x \in Defs(l) : <<x.var, loop>> \in variance}}
  IN With(Simplify(p), LAMBDA ast :
       IF ~Has(ast, loop) THEN {}
       ELSE IF FindAllDeps(SubAST(ast, Points(ast), loop),
                        {{<<loop, "Normal">>, <<sc, "Inv">>} : sc \in scopes(Find(ast, loop))}, TRUE, TRUE) # {} THEN {}
       ELSE {Replace(ast, loop, LAMBDA t : BlendIn(t.body, t, <<>>, <<>>, variant(t, Variance(ast))))})
=============================================================================

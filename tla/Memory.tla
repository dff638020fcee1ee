------------------------------- MODULE Memory -------------------------------
(***************************************************************************)
(* The transformations of variables (src/src/schedule/cache.cc,            *)
(* var_split.cc, var_merge.cc, var_reorder.cc), each as the set of         *)
(* programs it makes.  A variable has no shape here: what a dimension      *)
(* holds is what is accessed.  All memory is of the CPU.                   *)
(***************************************************************************)
EXTENDS Passes

(***************************************************************************)
(* compAccessBound: in each dimension the bounds of the accesses in id, as *)
(* functions of the iterators outside of it, and the lengths they have;    *)
(* and when there are any accesses.                                        *)
(***************************************************************************)
\* A: the accesses; iters: the iterators around; all: the values they have.
BoundOf(A, iters, all) ==
  LET within(a) == Each(iters, LAMBDA x : a.env[x])
      dim(d, outer) ==
        With(Graph(outer, LAMBDA o : {a.i[d] : a \in {x \in A : within(x) = o}}), LAMBDA at :
          [lower |-> Table(Each(iters, V), Graph(all, LAMBDA o : IF o \in outer THEN Min(at[o]) ELSE 0)),
           lens |-> {Max(at[o]) - Min(at[o]) + 1 : o \in outer}])
  IN With({within(a) : a \in A}, LAMBDA outer :
       [none |-> A = {}, always |-> outer = all, cond |-> Op("=", Table(Each(iters, V), Graph(all, LAMBDA o : IF o \in outer THEN 1 ELSE 0)), N(1)),
        dims |-> IF A = {} THEN <<>>
                 ELSE Each([d \in DOMAIN (CHOOSE a \in A : TRUE).i |-> d], LAMBDA d : dim(d, outer))])
AccessBound(p, id, A) ==
  With(SelectSeq(Front(Path(p, id)), LAMBDA t : t.k = "For"), LAMBDA around :
    LET iters == Each(around, LAMBDA t : t.iter)
    IN BoundOf(A, iters, {Each(iters, LAMBDA x : env[x]) : env \in FoldLeft(RangeEnvs, {None}, around)}))
Uniform(bound) == \A d \in DOMAIN bound.dims : Cardinality(bound.dims[d].lens) = 1

\* makeNestedLoops over the bound, around a leaf that moves one element.
NestedLoops(id, name, bound, leaf) ==
  LET dims == bound.dims
      iter(d) == "." \o name \o ".i" \o ToString(d)
      loop(d, b) == For(Append(id, ToString(d)), iter(d), dims[d].lower, CHOOSE n \in dims[d].lens : TRUE, 1, b)
      nest == FoldRight(loop, [d \in DOMAIN dims |-> d], leaf)
  IN IF bound.always THEN nest ELSE If(Append(id, "cond"), bound.cond, nest)
Indices(name, bound) == Each([d \in DOMAIN bound.dims |-> d], LAMBDA d : V("." \o name \o ".i" \o ToString(d)))
Move(id, op, src, to, from, idx) ==
  [Leaf(id, op, At(to, idx), IF from = "" THEN <<>> ELSE <<At(from, idx)>>, <<>>) EXCEPT !.src = <<src>>]

\* MakeCacheVar: inside the statement, the variable is the new one.
Defined(p, id, v) == \A d \in Defs(p) : d.var = v => Has(d.body, id)
\* InvalidProgram: the symbol table refuses a variable in one of the same name.
Shadows(p, id, new) == \E d \in Defs(p) : d.var = new /\ (Has(d, id) \/ Has(Find(p, id), d.id))
CacheVar(p, id, v, new) == Simplify(Replace(p, id, LAMBDA t : RenameVar(t, v, new)))
\* MakeFillAndFlush and MakeInitAndReduce: what is done before and after.
Around(ast, id, new, before, after) ==
  RemoveWrites(Simplify(Replace(ast, id, LAMBDA t :
    Def(Append(id, new), new, Block(id \o <<new, "seq">>, <<before, t>> \o after)))), LAMBDA w : w = new)
MovesOf(id, new, name, op, src, to, from, bound) ==
  LET leaf == id \o <<new, name>>
  IN NestedLoops(leaf, new, bound, Move(leaf, op, src, to, from, Indices(new, bound)))
FillAndFlush(ast, id, v, new, all, writes) ==
  IF ~Uniform(all) \/ ~Uniform(writes) THEN {}
  ELSE {Around(ast, id, new, MovesOf(id, new, "fill", "Store", "copy", new, v, all),
               IF writes.none THEN <<>> ELSE <<MovesOf(id, new, "flush", "Store", "copy", v, new, writes)>>)}
InitAndReduce(ast, id, v, new, all) ==
  IF all.none \/ ~Uniform(all) THEN {}
  ELSE {Around(ast, id, new, MovesOf(id, new, "init", "Store", "neutral", new, "", all),
               <<MovesOf(id, new, "reduce", "ReduceTo", "copy", v, new, all)>>)}
Accesses(p, id, v) == {a \in SubAST(p, Points(p), id) : a.v = v}
CacheOf(p, id, v) ==
  LET new == v \o ".c"
  IN With(CacheVar(p, id, v, new), LAMBDA ast :
       IF ~Defined(p, id, v) \/ Shadows(p, id, new) \/ ~Has(ast, id) THEN {}
       ELSE With(Accesses(ast, id, new), LAMBDA A :
         FillAndFlush(ast, id, v, new, AccessBound(ast, id, A), AccessBound(ast, id, {a \in A : IsWrite(a)}))))
CacheReductionOf(p, id, v) ==
  LET new == v \o ".r"
  IN With(CacheVar(p, id, v, new), LAMBDA ast :
       IF ~Defined(p, id, v) \/ Shadows(p, id, new) \/ ~Has(ast, id) THEN {}
       ELSE With(Accesses(ast, id, new), LAMBDA A :
         IF \E a \in A : a.kind # "ReduceTo" THEN {} ELSE InitAndReduce(ast, id, v, new, AccessBound(ast, id, A))))

(***************************************************************************)
(* Layouts: F gives the new indices of an access of a definition.          *)
(***************************************************************************)
Relayout(p, d, F(_)) ==
  LET ren(a) == IF a.v = d.var THEN [a EXCEPT !.i = F(@)] ELSE a
  IN Replace(p, d.id, LAMBDA t :
       Mutate(t, LAMBDA x : IF x.k # "Leaf" THEN x ELSE [x EXCEPT !.w = ren(@), !.r = Each(@, ren)]))
Extent(p, d, dim) == 1 + Max({a.i[dim] : a \in {x \in Points(p) : x.v = d.var /\ Has(d, x.id)}})
Rank(p, d) == Min({Len(a.i) : a \in {x \in Points(p) : x.v = d.var /\ Has(d, x.id)}} \cup {9})
VarSplitOf(p, d, dim, factor) ==
  {Relayout(p, d, LAMBDA i : SubSeq(i, 1, dim - 1) \o <<Op("/", i[dim], N(factor)), Op("%", i[dim], N(factor))>>
                             \o SubSeq(i, dim + 1, Len(i)))}
VarMergeOf(p, d, dim) ==
  {Relayout(p, d, LAMBDA i : SubSeq(i, 1, dim - 1) \o <<Op("+", Op("*", i[dim], N(Extent(p, d, dim + 1))), i[dim + 1])>>
                             \o SubSeq(i, dim + 2, Len(i)))}
VarReorderOf(p, d, order) == {Relayout(p, d, LAMBDA i : Each(order, LAMBDA n : i[n]))}
=============================================================================

----------------------------- MODULE Reduction -----------------------------
(***************************************************************************)
(* Parallel reductions (src/src/pass/make_parallel_reduction.cc,           *)
(* src/src/pass/cpu/lower_parallel_reduction.cc, src/src/pass/gpu/         *)
(* lower_parallel_reduction.cc).  Reductions of several iterations of a    *)
(* parallel loop to one element become either synchronized updates or      *)
(* reductions to a workspace of each thread, that are added up later.      *)
(*                                                                         *)
(* A parallel loop has a "scope": "openmp", "block", "y" or "x" (the       *)
(* dimensions of the threads of a block); a definition has an "mtype" and  *)
(* a "shape"; a leaf that updates in a synchronized way has a "sync".      *)
(***************************************************************************)
EXTENDS Deps

Parallel(scope, f) == [scope |-> scope] @@ [f EXCEPT !.par = TRUE]
InMemory(mtype, shape, d) == [mtype |-> mtype, shape |-> shape] @@ d
Synced(leaf) == [sync |-> TRUE] @@ leaf
IsSync(leaf) == "sync" \in DOMAIN leaf
ThreadScopes == {"x", "y"}

ForsTo(p, id) == SelectSeq(Front(Path(p, id)), LAMBDA t : t.k = "For")
Members(s, S) == SelectSeq(s, LAMBDA x : x \in S)
\* The leaves of a set of leaves, in the order of the text.
InOrder(p, S) == Members(Nodes(p), S)

\* findLoopVariance: an index varies with the loops of its iterators.
Varies(idx, loop) == loop.iter \in ItersOf(idx)
\* isDenseOver: the iterator, plus or minus a constant.
Dense(idx, loop) ==
  \/ idx = V(loop.iter)
  \/ idx[1] \in {"+", "-"} /\ V(loop.iter) \in {idx[2], idx[3]} /\ "n" \in {idx[2][1], idx[3][1]}

(***************************************************************************)
(* makeParallelReduction: the parallel loops over which reductions meet in *)
(* an element.  Between the threads of a block, two different statements   *)
(* are left to makeSync.                                                   *)
(***************************************************************************)
ParallelLoops(p) == {l \in Loops(p) : l.par}
Racing(p) ==
  LET A == {a \in Points(p) : a.kind = "ReduceTo"}
      dir(l) == {<<l.id, "Different">>} \cup {<<o.id, "Same">> : o \in ToSet(ForsTo(p, l.id))}
      deps(l) == {x[1] : x \in FindAllDeps(A, {dir(l)}, FALSE, TRUE)}
      found(l) == {x \in deps(l) : l.scope \notin ThreadScopes \/ x[1].id = x[2].id}
  IN With(UNION {{<<x[n].id, l>> : x \in found(l), n \in {1, 2}} : l \in ParallelLoops(p)}, LAMBDA S :
       Graph({leaf \in Leaves(p) : \E x \in S : x[1] = leaf.id}, LAMBDA leaf : {x[2] : x \in {y \in S : y[1] = leaf.id}}))

\* MakeLoopCarriedReduction: which of them must be synchronized.
Random(leaf, loops) == \E l \in loops : \E idx \in ToSet(leaf.w.i) : Varies(idx, l)
UsesSync(leaf, loops) == Random(leaf, loops) \/ \E l \in loops : l.scope = "block"

(***************************************************************************)
(* The others: what a loop adds up, and between which indices, that are    *)
(* expressions of the iterators around the loop.  Nothing is known of an   *)
(* index that is read from a table, and the bound is then the size.        *)
(***************************************************************************)
DimsOf(p, dims, v) ==
  IF \E d \in Defs(p) : d.var = v THEN (CHOOSE d \in Defs(p) : d.var = v).shape ELSE dims[v]
Bounds(p, dims, loop, leaf, n) ==
  LET idx == leaf.w.i[n]
      inner == ToSet(ForsTo(loop, leaf.id))
      at(F(_)) == Subst(idx, Graph({l.iter : l \in inner}, LAMBDA x : F(CHOOSE l \in inner : l.iter = x)))
      last(l) == Op("+", l.begin, N((l.len - 1) * l.step))
      dim == N(DimsOf(p, dims, leaf.w.v)[n])
  IN IF idx[1] = "table" /\ \E l \in inner : Varies(idx, l) THEN <<N(0), dim>>
     ELSE <<Op("max", N(0), at(LAMBDA l : l.begin)), Op("min", dim, at(last))>>
Widest(p, dims, loop, leaves) ==
  LET of(n) == {Bounds(p, dims, loop, leaf, n) : leaf \in leaves}
      fold(op, S) == LET s == SetToSeq(S) IN FoldLeft(LAMBDA e, x : Op(op, e, x), Head(s), Tail(s))
      rank == Len((CHOOSE leaf \in leaves : TRUE).w.i)
  IN [begins |-> Each([n \in 1 .. rank |-> n], LAMBDA n : fold("min", {b[1] : b \in of(n)})),
      ends |-> Each([n \in 1 .. rank |-> n], LAMBDA n : Op("+", fold("max", {b[2] : b \in of(n)}), N(1)))]
\* The reductions_ of every loop, by the variable they reduce to.
LoopCarried(p, dims, racing) ==
  LET carried(l) == {leaf \in DOMAIN racing : l \in racing[leaf] /\ ~UsesSync(leaf, racing[leaf])}
      vars(l) == {leaf.w.v : leaf \in carried(l)}
      item(l, v) == With({leaf \in carried(l) : leaf.w.v = v}, LAMBDA leaves : Widest(p, dims, l, leaves))
      loops == {l \in ParallelLoops(p) : carried(l) # {}}
  IN Graph({l.id : l \in loops}, LAMBDA id : Graph(vars(Find(p, id)), LAMBDA v : item(Find(p, id), v)))

(***************************************************************************)
(* MakeSyncReduction: a synchronized reduction goes to a cache first, over *)
(* the outermost of the serial loops around it that its element does not   *)
(* vary with, and the cache is added in a synchronized way.  A dimension   *)
(* that is walked through densely inside that loop is kept in the cache.   *)
(***************************************************************************)
SerialLoopsOver(p, leaf) ==
  LET inward == Reverse(ForsTo(p, leaf.id))
  IN SubSeq(inward, 1, Min({n \in DOMAIN inward : inward[n].par} \cup {Len(inward) + 1}) - 1)
CachedOver(p, leaf) ==
  LET varying(l) == {idx \in ToSet(leaf.w.i) : Varies(idx, l)}
      indirect(l) == \E idx \in varying(l) : ~Dense(idx, l)
  IN With(SerialLoopsOver(p, leaf), LAMBDA serial :
       LET stop == Min({n \in DOMAIN serial : indirect(serial[n])} \cup {Len(serial) + 1})
       IN SubSeq(serial, 1, Max({n \in 1 .. stop - 1 : varying(serial[n]) = {}} \cup {0})))
CacheOf(p, leaf) ==
  LET over == CachedOver(p, leaf)
      keep == Each(leaf.w.i, LAMBDA idx : \E l \in ToSet(over) : Varies(idx, l))
  IN [loop |-> Last(over).id, v |-> leaf.w.v, keep |-> keep,
      target |-> [n \in DOMAIN keep |-> IF keep[n] THEN N(0) ELSE leaf.w.i[n]]]
Kept(keep, s) == LET dims == SelectSeq([n \in DOMAIN keep |-> n], LAMBDA n : keep[n]) IN Each(dims, LAMBDA n : s[n])

\* makeNestedLoops over a shape, around what F makes of the indices.
Nested(id, name, shape, F(_)) ==
  LET iter(d) == "." \o name \o ".i" \o ToString(d)
      loop(d, b) == For(Append(id, ToString(d)), iter(d), N(0), shape[d], 1, b)
      dims == [d \in DOMAIN shape |-> d]
  IN FoldRight(loop, dims, F(Each(dims, LAMBDA d : V(iter(d)))))
Moved(id, op, src, to, from) == [Leaf(id, op, to, from, <<>>) EXCEPT !.src = <<src>>]
Neutral(id, to) == Moved(id, "Store", "neutral", to, <<>>)
AddTo(id, to, from) == Moved(id, "ReduceTo", "copy", to, <<from>>)

\* canResideInGPULocal: not if the element is a random one.
LocalMType(gpu, random) == IF ~gpu THEN "cpu" ELSE IF random THEN "global" ELSE "local"
WithCache(t, name, mtype, shape, c) ==
  LET id == Append(t.id, name)
      nth(n) == Cardinality({x \in 1 .. n : c.keep[x]})
      to(idx) == At(c.v, [n \in DOMAIN c.keep |-> IF c.keep[n] THEN idx[nth(n)] ELSE c.target[n]])
  IN InMemory(mtype, shape, Def(id, name, Block(Append(id, "seq"),
       <<Nested(Append(id, "init"), name, shape, LAMBDA idx : Neutral(Append(id, "init"), At(name, idx))), t,
         Nested(Append(id, "flush"), name, shape, LAMBDA idx : Synced(AddTo(Append(id, "flush"), to(idx), At(name, idx))))>>)))
CacheName(p, leaves, c) == c.v \o ".sync_cache." \o Head(InOrder(p, leaves)).id[1]
\* What is redirected to its cache, and what is synchronized where it is.
WithCaches(p, dims, racing, gpu, caches, toSync) ==
  LET sharing(c) == {leaf \in DOMAIN caches : caches[leaf] = c}
      name(c) == CacheName(p, sharing(c), c)
      random(c) == \E leaf \in sharing(c) : Random(leaf, racing[leaf])
      wrap(t, c) == WithCache(t, name(c), LocalMType(gpu, random(c)), Kept(c.keep, DimsOf(p, dims, c.v)), c)
      at(t) == {caches[leaf] : leaf \in {x \in DOMAIN caches : caches[x].loop = t.id}}
  IN Mutate(p, LAMBDA t :
       IF t \in DOMAIN caches THEN [t EXCEPT !.w = At(name(caches[t]), Kept(caches[t].keep, t.w.i))]
       ELSE IF t \in toSync THEN Synced(t)
       ELSE IF t.k = "For" THEN FoldLeft(wrap, t, SetToSeq(at(t)))
       ELSE t)
SyncReduction(p, dims, racing, gpu) ==
  With({leaf \in DOMAIN racing : UsesSync(leaf, racing[leaf])}, LAMBDA toSync :
  With({leaf \in toSync : CachedOver(p, leaf) # <<>>}, LAMBDA cached :
  With(Graph(cached, LAMBDA leaf : CacheOf(p, leaf)), LAMBDA caches :
    WithCaches(p, dims, racing, gpu, caches, toSync))))

(***************************************************************************)
(* lowerParallelReduction: a reduction that is not synchronized goes to    *)
(* the workspace of the loop that carries it.  The result is the set of    *)
(* what the pass makes: empty if it ends with an error.                    *)
(***************************************************************************)
Workspace(l, v) == "__reduce_" \o l.iter \o "_" \o v
\* reducedBy: looked up by the name of the variable alone.
ReducedBy(p, items, leaf) ==
  {l \in ToSet(ForsTo(p, leaf.id)) : l.id \in DOMAIN items /\ leaf.w.v \in DOMAIN items[l.id]}
Unsynced(p) == {leaf \in Leaves(p) : leaf.op = "ReduceTo" /\ ~IsSync(leaf)}
ManyScopes(p, items) == \E leaf \in Unsynced(p) : Cardinality(ReducedBy(p, items, leaf)) > 1
Relative(item, idx) == [n \in DOMAIN idx |-> Op("-", idx[n], item.begins[n])]
Absolute(item, idx) == [n \in DOMAIN idx |-> Op("+", item.begins[n], idx[n])]
Nth(l) == Op("-", V(l.iter), l.begin)
Redirected(p, items, leaf, own) ==
  LET l == CHOOSE x \in ReducedBy(p, items, leaf) : TRUE
      v == leaf.w.v
  IN [leaf EXCEPT !.w = At(Workspace(l, v), (IF own THEN <<>> ELSE <<Nth(l)>>) \o Relative(items[l.id][v], leaf.w.i))]
\* The lengths, which are the same for all values of the iterators around.
ShapeOf(item) ==
  LET len(n) == Op("-", item.ends[n], item.begins[n])
  IN Each([n \in DOMAIN item.begins |-> n], LAMBDA n : Eval(len(n), [x \in ItersOf(len(n)) |-> 0]))

\* On a CPU: loops that are collapsed to one reduce once, and OpenMP gives
\* every thread a workspace of its own ("own") and adds them to the shared one.
Collapsed(p, items) ==
  {id \in DOMAIN items : \E o \in ParallelLoops(p) : o.id \in DOMAIN items /\ o.body.id = id}
WithWorkspaceCPU(id, l, v, item, t) ==
  LET name == Workspace(l, v)
      sub(x) == id \o <<v, x>>
      flush(idx) == AddTo(sub("flush"), At(v, Absolute(item, idx)), At(name, idx))
  IN InMemory("cpu", ShapeOf(item), Def(sub("def"), name, Block(sub("seq"),
       <<Nested(sub("init"), name, ShapeOf(item), LAMBDA idx : Neutral(sub("init"), At(name, idx))), t,
         Nested(sub("flush"), name, ShapeOf(item), flush)>>)))
LowerCPU(p, items) ==
  LET inner == Collapsed(p, items)
      outer(id) == CHOOSE o \in DOMAIN items : Find(p, o).body.id = id
      live == [id \in DOMAIN items \ inner |-> items[id]]
      wrap(t) == FoldLeft(LAMBDA s, v : WithWorkspaceCPU(t.id, t, v, live[t.id][v], s),
                          [own |-> {Workspace(t, v) : v \in DOMAIN live[t.id]}] @@ t, SetToSeq(DOMAIN live[t.id]))
  IN IF (\E id \in inner : items[id] # items[outer(id)]) \/ ManyScopes(p, live) THEN {}
     ELSE {Mutate(p, LAMBDA t :
             IF t \in Unsynced(p) /\ ReducedBy(p, live, t) # {} THEN Redirected(p, live, t, TRUE)
             ELSE IF t.id \in DOMAIN live THEN wrap(t) ELSE t)}

\* On a GPU: the threads add their elements of the workspace up in pairs.
CeilLog2(n) == CHOOSE c \in 0 .. n : 2 ^ c >= n /\ (c = 0 \/ 2 ^ (c - 1) < n)
BinaryReduction(id, l, name, shape) ==
  LET count == CeilLog2(l.len)
      k == Table(<<V("__reduce_p")>>, [q \in {<<n>> : n \in 0 .. count} |-> 2 ^ q[1]])
      leaf(idx) == AddTo(Append(id, "reduce"), At(name, <<Nth(l)>> \o idx), At(name, <<Op("+", Nth(l), k)>> \o idx))
      cond == Op("&", Op("=", Op("%", Nth(l), Op("*", k, N(2))), N(0)), Op("<", Op("+", Nth(l), k), N(l.len)))
  IN For(Append(id, "tree"), "__reduce_p", N(0), count, 1,
         If(Append(id, "pairs"), cond, Nested(Append(id, "reduce"), name, shape, leaf)))
InWorkspaceGPU(id, l, v, item, body) ==
  LET name == Workspace(l, v)
      sub(x) == id \o <<v, x>>
      flush(idx) == AddTo(sub("flush"), At(v, Absolute(item, idx)), At(name, <<N(0)>> \o idx))
  IN Block(sub("seq"),
       <<Nested(sub("init"), name, ShapeOf(item), LAMBDA idx : Neutral(sub("init"), At(name, <<Nth(l)>> \o idx))), body,
         BinaryReduction(id \o <<v>>, l, name, ShapeOf(item)),
         If(sub("first"), Op("=", Nth(l), N(0)), Nested(sub("flush"), name, ShapeOf(item), flush))>>)
LowerGPU(p, items) ==
  LET vars(t) == SetToSeq(DOMAIN items[t.id])
      body(t) == FoldLeft(LAMBDA b, v : InWorkspaceGPU(t.id, t, v, items[t.id][v], b), t.body, vars(t))
  IN IF ManyScopes(p, items) THEN {}
     ELSE {Mutate(p, LAMBDA t :
             IF t \in Unsynced(p) /\ ReducedBy(p, items, t) # {} THEN Redirected(p, items, t, FALSE)
             ELSE IF t.id \in DOMAIN items
             THEN FoldLeft(LAMBDA s, v : InMemory("shared", <<t.len>> \o ShapeOf(items[t.id][v]),
                                                  Def(t.id \o <<v, "def">>, Workspace(t, v), s)),
                           [t EXCEPT !.body = body(t)], vars(t))
             ELSE t)}
=============================================================================

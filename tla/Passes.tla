------------------------------- MODULE Passes -------------------------------
(***************************************************************************)
(* The passes that the transformations of Schedule use (src/src/pass,      *)
(* src/src/analyze/find_loop_variance.cc, hoist_selected_var.cc), as       *)
(* functions from programs to programs.  simplify is modelled by what it   *)
(* does to statements, not to expressions; propOneTimeUse,                 *)
(* tensorPropConst, removeWrites and shrinkVar, which rewrite values and   *)
(* shapes, are left out.                                                   *)
(***************************************************************************)
EXTENDS Deps

\* A variable is local, AccessType::Cache, unless its definition says otherwise.
IsCache(d) == "atype" \in DOMAIN d => d.atype = "cache"

RangeEnvs(envs, l) ==
  {(l.iter :> Eval(l.begin, e) + t * l.step) @@ e : e \in envs, t \in 0 .. l.len - 1}
Wrap(ifs, s) == FoldRight(LAMBDA t, b : [t EXCEPT !.body = b], ifs, s)
OneOrSeq(id, stmts) == IF Len(stmts) = 1 THEN stmts[1] ELSE Block(id, stmts)
Fresh(v, used) == CHOOSE x \in {v \o "." \o ToString(n) : n \in 1 .. Cardinality(used) + 1} : x \notin used

Flatten(p) ==
  Mutate(p, LAMBDA t :
    CASE t.k = "Seq" ->
           OneOrSeq(t.id, FlattenSeq(Each(t.stmts, LAMBDA x : IF x.k = "Seq" THEN x.stmts ELSE <<x>>)))
      [] t.k = "Leaf" -> t
      [] OTHER -> IF IsEmpty(t.body) THEN Nothing(t.id) ELSE t)

\* Loops that run once or never and conditions that are always or never true.
RECURSIVE SimplifyIn(_, _)
SimplifyIn(s, envs) ==
  CASE s.k = "For" /\ s.len <= 0 -> Nothing(s.id)
    [] s.k = "For" /\ s.len = 1 -> SimplifyIn(SubstAll(s.body, s.iter :> s.begin), envs)
    [] s.k = "For" /\ s.len > 1 -> [s EXCEPT !.body = SimplifyIn(@, RangeEnvs(envs, s))]
    [] s.k = "If" ->
         With({e \in envs : Eval(s.cond, e)}, LAMBDA true :
           IF true = envs THEN SimplifyIn(s.body, envs)
           ELSE IF true = {} THEN Nothing(s.id)
           ELSE [s EXCEPT !.body = SimplifyIn(@, true)])
    [] OTHER -> WithKids(s, Each(Kids(s), LAMBDA t : SimplifyIn(t, envs)))
Simplify(p) == Flatten(SimplifyIn(p, {None}))

\* hoistSelectedVar: moves the definitions Selected(q) of q outwards, one at a time.
Lift(t, all) ==
  CASE t.k \in {"For", "If"} -> [t.body EXCEPT !.body = [t EXCEPT !.body = t.body.body]]
    [] t.k = "Seq" ->
         LET n == CHOOSE m \in DOMAIN t.stmts : t.stmts[m].k = "Def" /\ t.stmts[m].id \in all
             d == t.stmts[n]
             others == UNION {AllUses(t.stmts[m]) : m \in DOMAIN t.stmts \ {n}}
         IN With(IF d.var \in others THEN Fresh(d.var, AllUses(t)) ELSE d.var, LAMBDA v :
              [d EXCEPT !.var = v, !.body = [t EXCEPT !.stmts[n] = RenameVar(d.body, d.var, v)]])
LiftOne(q, all) ==
  With({t \in ToSet(Nodes(q)) :
          t.k \in {"For", "If", "Seq"} /\ \E d \in ToSet(Kids(t)) : d.k = "Def" /\ d.id \in all}, LAMBDA over :
    IF over = {} THEN q ELSE Replace(q, (CHOOSE t \in over : TRUE).id, LAMBDA t : Lift(t, all)))
Hoist(p, Selected(_)) ==
  LET RECURSIVE H(_)
      H(q) == With(LiftOne(q, Selected(q)), LAMBDA r : IF r = q THEN q ELSE H(r))
  IN H(p)
Covers(d, id) == Has(d.body, id)
DefIds(q, P(_)) == {d.id : d \in {x \in Defs(q) : P(x)}}

(***************************************************************************)
(* findLoopVariance: the pairs of a variable and a loop for which it is    *)
(* Variant or stays Unknown.  Everything is Unknown at first; what no      *)
(* store makes vary is Invariant.                                          *)
(***************************************************************************)
LoopOfIter(path, x) == {l.id : l \in {t \in ToSet(path) : t.k = "For" /\ t.iter = x}}
VariesBy(p, x, L, known) ==
  LET path == Path(p, x.id)
      around == {t.id : t \in {y \in ToSet(path) : y.k = "For"}}
      exprs == ToSet(x.uses) \cup ToSet(x.w.i) \cup UNION {ToSet(a.i) : a \in ToSet(x.r)}
               \cup {t.cond : t \in {y \in ToSet(path) : y.k = "If"}}
  IN \/ \E it \in UNION {ItersOf(e) : e \in exprs} : L \in LoopOfIter(path, it)
     \/ L \in around /\ \E a \in ToSet(x.r) : <<a.v, L>> \in known
     \/ x.op = "ReduceTo" /\ \E n \in DOMAIN path :
          /\ path[n].id = L /\ ~\E m \in n + 1 .. Len(path) : path[m].k = "Def" /\ path[m].var = x.w.v
Variance(p) ==
  LET all == AllUses(p) \X {l.id : l \in Loops(p)}
      RECURSIVE Fix(_)
      Fix(known) ==
        With({c \in known : \E x \in Leaves(p) : x.w.v = c[1] /\ VariesBy(p, x, c[2], known)},
             LAMBDA next : IF next = known THEN known ELSE Fix(next))
  IN Fix(all)

\* sinkVar: a definition moves inwards where that loses no value.
LoopCarried(p, d) ==
  LET A == {a \in Points(p) : a.v = d.var /\ Has(d, a.id)}
  IN {l.id : l \in {t \in Loops(p) : FindAllDeps(A, {{<<t.id, "Normal">>}}, FALSE, TRUE) # {}}}
RECURSIVE Core(_)
Core(s) == IF s.k = "Def" THEN Core(s.body) ELSE s
\* b is what d is around, "using" the statements of b that use d.
SinkOver(p, d, b, using, variance) ==
  CASE d.var \notin AllUses(b) -> b
    [] b.k = "Seq" /\ Max(using) - Min(using) + 1 < Len(b.stmts) ->
         [b EXCEPT !.stmts = SubSeq(@, 1, Min(using) - 1)
            \o <<[d EXCEPT !.body = OneOrSeq(Append(b.id, "sink"), SubSeq(b.stmts, Min(using), Max(using)))]>>
            \o SubSeq(@, Max(using) + 1, Len(@))]
    [] b.k = "If" \/ (b.k = "For" /\ (<<d.var, b.id>> \notin variance \/ b.id \notin LoopCarried(p, d))) ->
         [b EXCEPT !.body = [d EXCEPT !.body = b.body]]
    [] OTHER -> [d EXCEPT !.body = b]
SinkInto(p, d, variance) ==
  With(Core(d.body), LAMBDA b :
    With(SinkOver(p, d, b, {n \in DOMAIN Kids(b) : d.var \in AllUses(Kids(b)[n])}, variance), LAMBDA new :
      IF new.id = d.id THEN d ELSE Replace(d.body, b.id, LAMBDA t : new)))
Sink(p) ==
  LET RECURSIVE S(_, _)
      S(q, variance) ==
        With({m \in {<<d, SinkInto(q, d, variance)>> : d \in {x \in Defs(q) : IsCache(x)}} : m[1] # m[2]}, LAMBDA moves :
          IF moves = {} THEN q
          ELSE With(CHOOSE m \in moves : TRUE, LAMBDA m :
                 S(Replace(q, m[1].id, LAMBDA t : m[2]), variance)))
  IN With(Variance(p), LAMBDA variance : S(p, variance))

\* removeDeadVar: a variable that only its own statements read.
Written(d) == "atype" \in DOMAIN d /\ d.atype \in {"output", "inout"}
RECURSIVE RemoveDead(_)
RemoveDead(p) ==
  With({d \in Defs(p) : ~Written(d) /\ \A x \in Leaves(d) : x.w.v # d.var => d.var \notin {a.v : a \in ToSet(x.r)}}, LAMBDA dead :
    IF dead = {} THEN Flatten(p)
    ELSE With(CHOOSE y \in dead : TRUE, LAMBDA d :
      RemoveDead(Mutate(p, LAMBDA t :
        IF t.id = d.id THEN t.body
        ELSE IF t.k = "Leaf" /\ Has(d, t.id) /\ t.w.v = d.var THEN Nothing(t.id) ELSE t))))

MergeIfs(stmts) ==
  FoldLeft(LAMBDA done, s :
    IF done # <<>> /\ s.k = "If" /\ Last(done).k = "If" /\ Last(done).cond = s.cond
    THEN Append(Front(done), [Last(done) EXCEPT !.body = Block(Append(s.id, "merge"), <<@, s.body>>)])
    ELSE Append(done, s), <<>>, stmts)
\* mergeAndHoistIf; conditions read no variable here.
MergeAndHoistIf(p) ==
  LET once(q) ==
        Mutate(q, LAMBDA t :
          CASE t.k = "Seq" -> OneOrSeq(t.id, MergeIfs(t.stmts))
            [] t.k = "Def" /\ t.body.k = "If" -> [t.body EXCEPT !.body = [t EXCEPT !.body = t.body.body]]
            [] t.k = "For" /\ t.body.k = "If" /\ t.iter \notin ItersOf(t.body.cond) ->
                 [t.body EXCEPT !.body = [t EXCEPT !.body = t.body.body]]
            [] OTHER -> t)
      RECURSIVE Fix(_)
      Fix(q) == With(once(q), LAMBDA r : IF r = q THEN q ELSE Fix(r))
  IN With(Flatten(p), Fix)

\* MoveOutFirstOrLastIter: a branch that only the first or the last iteration takes.
MoveOut(p) ==
  LET edge(l, iteration, b) ==
        LET at == Op("+", l.begin, N(iteration * l.step))
            envs == RangeEnvs({[x \in ItersOf(b.cond) \ {l.iter} |-> 0]}, l)
        IN IF b.k = "If" /\ ItersOf(b.cond) \subseteq {l.iter} /\ ItersOf(l.begin) = {}
              /\ \A e \in envs : Eval(b.cond, e) <=> e[l.iter] = Eval(at, None)
           THEN <<SubstAll(b.body, l.iter :> at)>> ELSE <<>>
  IN Mutate(p, LAMBDA l :
       IF l.k # "For" THEN l
       ELSE IF l.body.k # "Seq" THEN l
       ELSE LET stmts == l.body.stmts
                rest(front) == IF front = <<>> THEN stmts ELSE Tail(stmts)
                left(front, back) == IF back = <<>> THEN rest(front) ELSE Front(rest(front))
            IN With(edge(l, 0, stmts[1]), LAMBDA front :
               With(edge(l, l.len - 1, Last(rest(front))), LAMBDA back :
                 OneOrSeq(Append(l.id, "out"),
                          front \o <<[l EXCEPT !.body = [@ EXCEPT !.stmts = left(front, back)]]>> \o back))))

RECURSIVE HoistOverSeq(_)
HoistOverSeq(q) ==
  With(Flatten(q), LAMBDA p :
  With({t \in ToSet(Nodes(p)) : t.k = "Seq" /\ \E d \in ToSet(t.stmts) : d.k = "Def"}, LAMBDA over :
    IF over = {} THEN p
    ELSE HoistOverSeq(Replace(p, (CHOOSE t \in over : TRUE).id, LAMBDA t : Lift(t, Ids(t))))))

(***************************************************************************)
(* removeWrites: a store that is overwritten before it is read (Type 1),   *)
(* and one that writes the same place in every iteration of loops, which   *)
(* is left to their last iterations (Type 2).  That a reduction absorbs    *)
(* the store before it is left out: it rewrites values.                    *)
(***************************************************************************)
Overwrites(A) == Nearest(Accepted(Related(A, FALSE, TRUE), LAMBDA l, e : l.kind = "Store" /\ IsWrite(e)))
UsesOf(A) == Nearest(Related(A, FALSE, TRUE))
Unread(overwrites, uses) ==
  LET read(a, w) == a.kind # "Store" /\ <<a.id, a.n>> # <<w, 0>>
      after(w) == {<<x[1].id, x[1].n>> : x \in {y \in uses : y[2].id = w /\ IsWrite(y[2]) /\ read(y[1], w)}}
      before(w) == {<<x[2].id, x[2].n>> : x \in {y \in uses : y[1].id = w /\ IsWrite(y[1]) /\ read(y[2], w)}}
  IN {x \in overwrites : after(x[2].id) \cap before(x[1].id) = {}}
Killed(A, unread) ==
  LET gone == {x[2] : x \in unread}
  IN {x[2].id : x \in {y \in unread : y[1].id # y[2].id /\ \A a \in A : a.id = y[2].id /\ IsWrite(a) => a \in gone}}
Redundant(A) ==
  With(Overwrites(A), LAMBDA overwrites :
    Killed(A, Unread(overwrites, UsesOf({a \in A : \E x \in overwrites : x[1].v = a.v}))))
\* The loops, from the inside, that write the same place in every iteration.
SamePlace(path, w) ==
  LET def == {n \in DOMAIN path : path[n].k = "Def" /\ path[n].var = w.v}
      varies == UNION {ItersOf(e) : e \in ToSet(w.i) \cup {t.cond : t \in {y \in ToSet(path) : y.k = "If"}}}
  IN Reverse(SelectSeq([n \in DOMAIN path |->
       IF path[n].k = "For" /\ \A d \in def : d < n THEN path[n] ELSE Nothing(<<>>)],
       LAMBDA t : t.k = "For" /\ ~t.par /\ t.iter \notin varies))
LastOf(l) == Op("=", V(l.iter), Op("+", l.begin, N((l.len - 1) * l.step)))
\* A read in the innermost of the loops keeps a store in all of them.
Guarded(uses, q, s) ==
  With(SamePlace(Path(q, s.id), s.w), LAMBDA loops :
    IF s.op # "Store" \/ loops = <<>> THEN <<>>
    ELSE IF \E x \in uses : x[2].id = s.id /\ x[2].kind = "Store" /\ x[1].kind # "Store" /\ Has(loops[1], x[1].id)
    THEN <<>> ELSE loops)
Rewritten(q, A, redundant, uses) ==
  Mutate(q, LAMBDA s :
    IF s.k # "Leaf" THEN s
    ELSE IF s.id \in redundant THEN Nothing(s.id)
    ELSE IF s.w.v \notin {a.v : a \in A} THEN s
    ELSE With(Guarded(uses, q, s), LAMBDA loops :
      IF loops = <<>> THEN s
      ELSE If(Append(s.id, "last"), FoldLeft(LAMBDA c, l : Op("&", c, LastOf(l)), LastOf(loops[1]), Tail(loops)), s)))
RemovedAt(q, A) == With(Flatten(Rewritten(q, A, Redundant(A), UsesOf(A))), Sink)
RemoveWrites(p, Only(_)) ==
  With(HoistOverSeq(p), LAMBDA q : With({a \in Points(q) : Only(a.v)}, LAMBDA A : RemovedAt(q, A)))

\* lower(), as far as its passes are modelled.
EveryVar(v) == TRUE
LowerOf(p) ==
  {RemoveDead(With(MergeAndHoistIf(With(MoveOut(Simplify(RemoveDead(p))), Sink)), LAMBDA q : RemoveWrites(q, EveryVar)))}
=============================================================================

------------------------------ MODULE Program ------------------------------
(***************************************************************************)
(* Programs as Schedule transforms them (src/include/stmt.h): an AST of    *)
(* loops, sequences, branches, variable definitions, stores and            *)
(* reductions, and what running it in the order of the text computes.      *)
(*                                                                         *)
(* A value is the term that computes it: the statement, the values of the  *)
(* iterators it uses, and what it read.  A cell holds a stored term and    *)
(* the bag of the terms that were added to it since, so that two orders of *)
(* the same additions are the same value, and nothing else is.             *)
(***************************************************************************)
EXTENDS Integers, Sequences, SequencesExt, FiniteSets, FiniteSetsExt, TLC

\* F of x, which TLC evaluates once, and before F.
With(x, F(_)) == CHOOSE r \in {F(y) : y \in {x}} : TRUE

\* The sequence of F(s[n]).
Each(s, F(_)) ==
  LET RECURSIVE E(_)
      E(n) == IF n = 0 THEN <<>> ELSE Append(E(n - 1), F(s[n]))
  IN E(Len(s))

\* F from the left, every intermediate value computed: a long sequence is
\* halved, so that TLC does not nest as deep as it is long.
Through(F(_, _), acc, s) ==
  LET RECURSIVE T(_, _, _)
      T(a, from, to) ==
        IF from > to THEN a
        ELSE IF from = to THEN F(a, s[from])
        ELSE LET half == (from + to) \div 2
             IN CHOOSE r \in {T(b, half + 1, to) : b \in {T(a, from, half)}} : TRUE
  IN T(acc, 1, Len(s))

None == [x \in {} |-> 0]
\* The function from S that F gives, with every value computed.
Graph(S, F(_)) == FoldSet(LAMBDA x, f : (x :> F(x)) @@ f, None, S)

\* Expressions: constants, iterators, binary operators, and functions that are
\* given by their graph, as tuples.
N(n) == <<"n", n>>
V(x) == <<"v", x>>
Op(o, a, b) == <<o, a, b>>
Table(args, graph) == <<"table", args, graph>>

Apply(op, a, b) ==
  CASE op = "+" -> a + b
    [] op = "-" -> a - b
    [] op = "*" -> a * b
    [] op = "/" -> a \div b
    [] op = "%" -> a % b
    [] op = "=" -> a = b
    [] op = "<" -> a < b
    [] op = ">=" -> a >= b
    [] op = "&" -> a /\ b
    [] op = "min" -> IF a < b THEN a ELSE b
    [] op = "max" -> IF a < b THEN b ELSE a
RECURSIVE Eval(_, _)
Eval(e, env) ==
  CASE e[1] = "n" -> e[2]
    [] e[1] = "v" -> env[e[2]]
    [] e[1] = "table" -> e[3][Each(e[2], LAMBDA a : Eval(a, env))]
    [] OTHER -> Apply(e[1], Eval(e[2], env), Eval(e[3], env))

RECURSIVE ItersOf(_)
ItersOf(e) ==
  CASE e[1] = "n" -> {}
    [] e[1] = "v" -> {e[2]}
    [] e[1] = "table" -> UNION {ItersOf(a) : a \in ToSet(e[2])}
    [] OTHER -> ItersOf(e[2]) \cup ItersOf(e[3])

\* f gives the expression that replaces an iterator.
RECURSIVE Subst(_, _)
Subst(e, f) ==
  CASE e[1] = "n" -> e
    [] e[1] = "v" -> IF e[2] \in DOMAIN f THEN f[e[2]] ELSE e
    [] e[1] = "table" -> Table(Each(e[2], LAMBDA a : Subst(a, f)), e[3])
    [] OTHER -> <<e[1], Subst(e[2], f), Subst(e[3], f)>>

(***************************************************************************)
(* Statements.  A Leaf is a Store or a ReduceTo: it writes w and reads the *)
(* sequence r; "uses" are the iterators its value depends on, and "src"    *)
(* says which computation it is, however often it is copied: <<"copy">>  *)
(* is what was read, <<"neutral">> the neutral value of the reductions.    *)
(***************************************************************************)
For(id, iter, begin, len, step, body) ==
  [k |-> "For", id |-> id, iter |-> iter, begin |-> begin, len |-> len, step |-> step,
   par |-> FALSE, vec |-> FALSE, body |-> body]
Block(id, stmts) == [k |-> "Seq", id |-> id, stmts |-> stmts]
If(id, cond, body) == [k |-> "If", id |-> id, cond |-> cond, body |-> body]
Def(id, var, body) == [k |-> "Def", id |-> id, var |-> var, body |-> body]
Leaf(id, op, w, r, uses) ==
  [k |-> "Leaf", id |-> id, src |-> id, op |-> op, w |-> w, r |-> r, uses |-> uses]
At(v, idx) == [v |-> v, i |-> idx]

Kids(s) ==
  CASE s.k = "Leaf" -> <<>>
    [] s.k = "Seq" -> s.stmts
    [] OTHER -> <<s.body>>
WithKids(s, kids) ==
  CASE s.k = "Leaf" -> s
    [] s.k = "Seq" -> [s EXCEPT !.stmts = kids]
    [] OTHER -> [s EXCEPT !.body = kids[1]]

\* Mutator: F is applied to every node, the children first.
Mutate(s, F(_)) ==
  LET RECURSIVE M(_)
      M(t) == F(WithKids(t, Each(Kids(t), M)))
  IN M(s)

RECURSIVE Nodes(_)
Nodes(s) == <<s>> \o FlattenSeq(Each(Kids(s), Nodes))

\* From s down to the statement id, both included; empty if s has no such one.
RECURSIVE Path(_, _)
Path(s, id) ==
  IF s.id = id THEN <<s>>
  ELSE With(FlattenSeq(Each(Kids(s), LAMBDA t : Path(t, id))),
            LAMBDA below : IF below = <<>> THEN <<>> ELSE <<s>> \o below)

Ids(s) == {n.id : n \in ToSet(Nodes(s))}
Has(s, id) == id \in Ids(s)
Find(s, id) == CHOOSE n \in ToSet(Nodes(s)) : n.id = id
Loops(s) == {n \in ToSet(Nodes(s)) : n.k = "For"}
Defs(s) == {n \in ToSet(Nodes(s)) : n.k = "Def"}
Leaves(s) == {n \in ToSet(Nodes(s)) : n.k = "Leaf"}
IsEmpty(s) == s.k = "Seq" /\ s.stmts = <<>>
Nothing(id) == Block(id, <<>>)
Replace(s, id, G(_)) == Mutate(s, LAMBDA t : IF t.id = id THEN G(t) ELSE t)

AllUses(s) == {a.v : a \in UNION {ToSet(x.r) \cup {x.w} : x \in Leaves(s)}}

\* F is applied to every expression of a node.
MapAccess(a, F(_)) == [a EXCEPT !.i = Each(@, F)]
MapNode(t, F(_)) ==
  CASE t.k = "Leaf" -> [t EXCEPT !.w = MapAccess(@, F),
                                 !.r = Each(@, LAMBDA a : MapAccess(a, F)),
                                 !.uses = Each(@, F)]
    [] t.k = "If" -> [t EXCEPT !.cond = F(@)]
    [] t.k = "For" -> [t EXCEPT !.begin = F(@)]
    [] OTHER -> t
\* f replaces iterators, but not inside a loop that gives one a new meaning.
RECURSIVE SubstAll(_, _)
SubstAll(s, f) ==
  LET g == IF s.k = "For" THEN [x \in DOMAIN f \ {s.iter} |-> f[x]] ELSE f
  IN WithKids(MapNode(s, LAMBDA e : Subst(e, f)), Each(Kids(s), LAMBDA t : SubstAll(t, g)))
RenameVar(s, v, to) ==
  Mutate(s, LAMBDA t :
    IF t.k # "Leaf" THEN t
    ELSE LET ren(a) == IF a.v = v THEN [a EXCEPT !.v = to] ELSE a
         IN [t EXCEPT !.w = ren(@), !.r = Each(@, ren)])

(***************************************************************************)
(* The instances of the leaves, in the order of the text.  "at" is when:   *)
(* the position of the outermost statement, the iteration of the outermost *)
(* loop, and so on; "inst" tells the instances of a variable apart.        *)
(***************************************************************************)
RECURSIVE Walk(_, _)
Walk(s, c) ==
  LET here == Append(c.at, 2 * c.pos[s.id])
      value(e) == Eval(e, c.env)
      cell(a) == [v |-> a.v, i |-> Each(a.i, value),
                  inst |-> IF a.v \in DOMAIN c.inst THEN c.inst[a.v] ELSE <<>>]
  IN CASE s.k = "Leaf" ->
            <<[id |-> s.id, src |-> s.src, op |-> s.op, w |-> cell(s.w),
               r |-> Each(s.r, cell), uses |-> Each(s.uses, value),
               at |-> here, env |-> c.env, loops |-> c.loops, par |-> c.par, seqs |-> c.seqs]>>
       [] s.k = "Seq" ->
            FlattenSeq(Each(s.stmts, LAMBDA t : Walk(t, [c EXCEPT !.seqs = (s.id :> Len(here)) @@ @])))
       [] s.k = "If" -> IF Eval(s.cond, c.env) THEN Walk(s.body, c) ELSE <<>>
       [] s.k = "Def" -> Walk(s.body, [c EXCEPT !.inst = (s.var :> here) @@ @])
       [] s.k = "For" ->
            LET begin == value(s.begin)
                Iteration(t) ==
                  Walk(s.body, [c EXCEPT !.env = (s.iter :> begin + (t - 1) * s.step) @@ @,
                                         !.at = Append(here, t),
                                         !.loops = Append(@, s.id),
                                         !.par = @ \o <<FALSE, s.par>>])
            IN FlattenSeq(Each([t \in 1 .. s.len |-> t], Iteration))
Positions(p) ==
  FoldLeft(LAMBDA pos, t : (t.id :> Cardinality(DOMAIN pos)) @@ pos, None, Nodes(p))
Events(p) ==
  Walk(p, [env |-> None, at |-> <<>>, loops |-> <<>>, par |-> <<>>, seqs |-> None, inst |-> None,
           pos |-> Positions(p)])

Held(mem, cell, locals) ==
  IF cell \in DOMAIN mem THEN mem[cell]
  ELSE [base |-> IF cell.v \in locals THEN <<"undefined">> ELSE <<"input", cell.v, cell.i>>,
        added |-> None]
Sums(a, b) ==
  Graph(DOMAIN a \cup DOMAIN b,
        LAMBDA t : (IF t \in DOMAIN a THEN a[t] ELSE 0) + (IF t \in DOMAIN b THEN b[t] ELSE 0))
Perform(mem, e, locals) ==
  LET read == Each(e.r, LAMBDA a : Held(mem, a, locals))
      term == <<"term", e.src, e.uses, read>>
      stored == IF e.src = <<"copy">> THEN read[1]
                ELSE [base |-> IF e.src = <<"neutral">> THEN <<"neutral">> ELSE term, added |-> None]
      sum == IF e.src = <<"copy">> /\ read[1].base = <<"neutral">> THEN read[1].added ELSE term :> 1
      new == IF e.op = "Store" THEN stored ELSE [Held(mem, e.w, locals) EXCEPT !.added = Sums(@, sum)]
  IN (e.w :> new) @@ mem

\* What changes in the variables that the program does not define.
Outcome(end, locals) ==
  Graph({x \in DOMAIN end : x.v \notin locals /\ end[x] # Held(None, x, locals)}, LAMBDA cell : end[cell])
Meaning(p) ==
  LET locals == {d.var : d \in Defs(p)}
      step(mem, e) == Perform(mem, e, locals)
  IN Outcome(Through(step, None, Events(p)), locals)
=============================================================================

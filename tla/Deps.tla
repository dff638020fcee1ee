-------------------------------- MODULE Deps --------------------------------
(***************************************************************************)
(* Dependence analysis (src/src/analyze/deps.cc, src/include/analyze/      *)
(* deps.h).  The code describes the accesses of a statement by maps from   *)
(* iteration vectors to indices and computes with the maps; the ranges are *)
(* known here, so a map is the set of its points: the instances of the     *)
(* accesses.  The positions that makes the code's vectors shorter (trivial *)
(* scopes, loads that share a coordinate, private axes) change no answer   *)
(* and are left out, and so are external variables and "no_deps" hints.    *)
(***************************************************************************)
EXTENDS Program

\* FindAccessPoint: the reads of a statement come before its write.
\* "serial" is makeSerialToAll: it leaves out the iterations of parallel loops.
Point(e, n) ==
  LET a == IF n = 0 THEN e.w ELSE e.r[n]
      at == [e.at EXCEPT ![Len(e.at)] = @ + (IF n = 0 THEN 1 ELSE 0)]
  IN [id |-> e.id, n |-> n, kind |-> IF n = 0 THEN e.op ELSE "Load", v |-> a.v, i |-> a.i, inst |-> a.inst,
      at |-> at, serial |-> Each([x \in DOMAIN at |-> x], LAMBDA x : IF x \in DOMAIN e.par /\ e.par[x] THEN 0 ELSE at[x]),
      env |-> e.env, loops |-> e.loops, seqs |-> e.seqs]
Points(p) == UNION {{Point(e, n) : n \in DOMAIN e.r \cup {0}} : e \in ToSet(Events(p))}

IsWrite(a) == a.kind # "Load"

LexLess(s, t) ==
  \E x \in DOMAIN s \cap DOMAIN t : s[x] < t[x] /\ \A y \in 1 .. x - 1 : s[y] = t[y]
Before(a, b) == LexLess(a.serial, b.serial)

\* depAll, with makeEraseVarDefConstraint if eraseOutsideVarDef_ is set.
SameVar(a, b) == a.v = b.v /\ a.inst[Len(a.inst)] = b.inst[Len(b.inst)]
DepAll(l, e, erase) ==
  /\ l.v = e.v /\ l.i = e.i /\ l.at # e.at
  /\ IF erase THEN l.inst = e.inst ELSE l.inst = e.inst \/ SameVar(l, e)

\* The earlier points that are not overwritten before l, of those considered.
LatestEarlier(l, E) ==
  LET past == {e \in E : Before(e, l)}
  IN {e \in E : e.serial = l.serial} \cup {e \in past : \A o \in past : ~Before(e, o)}
\* The later points that overwrite e first.
EarliestLater(e, L) ==
  LET future == {l \in L : Before(e, l)}
  IN {l \in L : l.serial = e.serial} \cup {l \in future : \A o \in future : ~Before(o, l)}

\* makeConstraintOfSingleLoop: scope is a loop or a StmtSeq.
AxisOf(a, scope) ==
  IF scope \in DOMAIN a.seqs THEN a.seqs[scope]
  ELSE 2 * (CHOOSE n \in DOMAIN a.loops : a.loops[n] = scope)
InScope(a, scope) == scope \in DOMAIN a.seqs \/ scope \in ToSet(a.loops)
Along(l, e, scope, dir) ==
  /\ InScope(l, scope) /\ InScope(e, scope)
  /\ LET x == l.at[AxisOf(l, scope)]
         y == e.at[AxisOf(e, scope)]
     IN CASE dir = "Normal" -> y < x
          [] dir = "Inv" -> y > x
          [] dir = "Same" -> y = x
          [] dir = "Different" -> y # x

(***************************************************************************)
(* FindDeps: the dependences between the points of A that Pair accepts,    *)
(* along one of the direction vectors of dirs (sets of pairs of a scope    *)
(* and a direction).  checkDepLatestEarlier and checkDepEarliestLater      *)
(* filter first and look for the nearest point then; ignoreWAW leaves out  *)
(* the pairs of reductions.                                                *)
(***************************************************************************)
Related(A, ignoreWAW, erase) ==
  UNION {With({a \in A : a.v = c[1] /\ a.i = c[2]}, LAMBDA B : {x \in B \X B : LET l == x[1] e == x[2] IN
           /\ IsWrite(l) \/ IsWrite(e)
           /\ ~(ignoreWAW /\ l.kind = "ReduceTo" /\ e.kind = "ReduceTo")
           /\ DepAll(l, e, erase)}) : c \in {<<a.v, a.i>> : a \in {b \in A : IsWrite(b)}}}
Accepted(rel, Pair(_, _)) == {x \in rel : Pair(x[1], x[2])}
Nearest(rel) ==
  LET earlier(l) == {x[2] : x \in {y \in rel : y[1] = l /\ IsWrite(y[2])}}
      later(e) == {x[1] : x \in {y \in rel : y[2] = e}}
  IN UNION {{l} \X LatestEarlier(l, earlier(l)) : l \in {x[1] : x \in rel}}
     \cup UNION {EarliestLater(e, later(e)) \X {e} : e \in {y \in {x[2] : x \in rel} : ~IsWrite(y)}}
Reported(rel, dirs) ==
  {<<x, d>> \in Nearest(rel) \X dirs : \A c \in d : Along(x[1], x[2], c[1], c[2])}
FindAllDeps(A, dirs, ignoreWAW, erase) == Reported(Related(A, ignoreWAW, erase), dirs)
FindDeps(A, Pair(_, _), dirs) == Reported(Accepted(Related(A, TRUE, TRUE), Pair), dirs)

\* filterSubAST: the points in the statement id.
SubAST(p, A, id) ==
  LET ids == Ids(Find(p, id))
  IN {a \in A : a.id \in ids}
=============================================================================

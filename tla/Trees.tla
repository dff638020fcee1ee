-------------------------------- MODULE Trees --------------------------------
(***************************************************************************)
(* Where statements are (src/src/ast.cc), and what the schedules that are  *)
(* made of schedules find in a program: the loop to fuse, the parts of a   *)
(* loop, nests, and the dependences that loops carry.                      *)
(***************************************************************************)
EXTENDS Loops

\* dir is -1 for what comes before and 1 for what comes after.
CtrlFlow == {"For", "If"}
RECURSIVE Inward(_, _)
Inward(t, dir) ==
  IF t.k \in CtrlFlow \/ Kids(t) = <<>> THEN t
  ELSE Inward(IF dir = 1 THEN Kids(t)[1] ELSE Last(Kids(t)), dir)
\* prevInCtrlFlow and nextInCtrlFlow, as a set of at most one.
Neighbor(p, id, dir) ==
  With(Path(p, id), LAMBDA path :
    LET kids(n) == Kids(path[n - 1])
        next(n) == dir + (CHOOSE m \in DOMAIN kids(n) : kids(n)[m].id = path[n].id)
        stops == {n \in 2 .. Len(path) : next(n) \in DOMAIN kids(n) \/ path[n - 1].k \in CtrlFlow}
    IN {Inward(kids(n)[next(n)], dir).id : n \in {m \in stops : next(m) \in DOMAIN kids(m) /\ m = Max(stops)}})
IsAncestorOf(p, a, b) == a # b /\ Has(Find(p, a), b)
IsBefore(p, a, b) ==
  With(Each(Nodes(p), LAMBDA t : t.id), LAMBDA ids :
    /\ ~Has(Find(p, a), b) /\ ~Has(Find(p, b), a)
    /\ \E n \in DOMAIN ids : ids[n] = a /\ b \in ToSet(SubSeq(ids, n, Len(ids))))
ParentCtrlFlow(p, id) ==
  With(SelectSeq(Front(Path(p, id)), LAMBDA t : t.k \in CtrlFlow), LAMBDA around :
    IF around = <<>> THEN {} ELSE {Last(around).id})
\* "<For><-(!<For><-)*id" and the like: what has the loop id, or none if it is
\* <<>>, as the nearest loop around it.
Directly(p, id, kinds) ==
  LET loops(t) == SelectSeq(Front(Path(p, t.id)), LAMBDA s : s.k = "For")
      nearest(t) == With(loops(t), LAMBDA up : IF up = <<>> THEN <<>> ELSE Last(up).id)
  IN Each(SelectSeq(Nodes(p), LAMBDA t : t.k \in kinds /\ nearest(t) = id), LAMBDA t : t.id)
LoopsIn(p, id) == Directly(p, id, {"For"})
PartsOf(p, id) == Directly(p, id, {"For", "Leaf"})
LoopIDs(p) == {l.id : l \in Loops(p)}
StatementIDs(p) == {s.id : s \in {t \in ToSet(Nodes(p)) : t.k \in {"For", "If", "Leaf"}}}
IsFor(p, id) == Find(p, id).k = "For"
InParallel(p, id) == Find(p, id).par

NewSuffix(p, id, name) ==
  CHOOSE x \in {name \o ToString(n) : n \in 0 .. Len(Nodes(p))} : Append(id, x) \notin Ids(p)

\* fuse(loop0): the loop that follows, with only trivial scopes between.
RECURSIVE FirstLoop(_)
FirstLoop(t) ==
  IF t.k = "For" THEN {t.id}
  ELSE IF Kids(t) = <<>> THEN {} ELSE FirstLoop(Kids(t)[1])
NextLoop(p, loop) ==
  With(Path(p, loop), LAMBDA path :
    LET next(n) == 1 + (CHOOSE m \in DOMAIN Kids(path[n - 1]) : Kids(path[n - 1])[m].id = path[n].id)
        stops == {n \in 2 .. Len(path) : next(n) \in DOMAIN Kids(path[n - 1]) \/ path[n - 1].k = "For"}
    IN UNION {FirstLoop(Kids(path[n - 1])[next(n)]) :
                n \in {m \in stops : next(m) \in DOMAIN Kids(path[m - 1]) /\ m = Max(stops)}})

\* autoReorder: what a loop carries, 0 if nothing, 1 if reductions only.
DepLevel(p) ==
  LET deps == FindAllDeps(Points(p), {{<<l.id, "Normal">>} : l \in Loops(p)}, FALSE, TRUE)
      along(id) == {x[1] : x \in {y \in deps : \E c \in y[2] : c[1] = id}}
      reduces(x) == x[1].kind = "ReduceTo" /\ x[2].kind = "ReduceTo"
  IN Graph({l.id : l \in Loops(p)},
           LAMBDA id : IF along(id) = {} THEN 0 ELSE IF \A x \in along(id) : reduces(x) THEN 1 ELSE 2)
RECURSIVE PerfectNest(_, _)
PerfectNest(p, id) ==
  With(LoopsIn(p, id), LAMBDA inner : <<id>> \o (IF Len(inner) = 1 THEN PerfectNest(p, inner[1]) ELSE <<>>))
\* A nest with statements that reordering misses.
Uneven(p) ==
  \E l, m \in LoopIDs(p) : IsAncestorOf(p, l, m) /\ (Following(p, l, m) \/ FilledBetween(p, l, m))
=============================================================================

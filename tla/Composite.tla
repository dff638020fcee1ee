----------------------------- MODULE Composite -----------------------------
(***************************************************************************)
(* The schedules that are made of schedules: moveTo, fuse with the next    *)
(* loop, autoReorder, autoFissionFuse and autoParallelize (src/src/        *)
(* schedule/*.cc), on the stack of open transactions of Schedule.  What    *)
(* they try is in a transaction, which is committed or, on                 *)
(* InvalidSchedule, undone; autoFissionFuse has two open while moveTo runs *)
(* in it, which opens one of its own.  Other errors are not caught.        *)
(*                                                                         *)
(* The module is about control.  Programs, where their statements are, and *)
(* the schedules that are not made of others are parameters: Trees and     *)
(* Loops define them.                                                      *)
(***************************************************************************)
EXTENDS Integers, Sequences, FiniteSets, SequencesExt, TLC

CONSTANTS
  Programs,   \* the programs to schedule, each with the composites to try
  Gaps,       \* known gaps that are reached: "open" if fuse is asked for a loop that
              \* it cannot fuse, "reorder" if autoReorder sees a nest that reorder
              \* should not accept
  Computes(_),          \* what a program computes
  \* The schedules: the set of what they make of a program, empty if invalid.
  Swap(_, _), Fission(_, _, _, _, _), Fuse(_, _, _), Reorder(_, _), Merge(_, _, _),
  Parallelize(_, _),
  \* The statements and loops of a program, by ID.
  Statements(_), AllLoops(_), Exists(_, _), IsLoop(_, _), IsParallel(_, _), Suffix(_, _, _),
  \* What is next to a statement, and around it: sets of at most one.
  NextTo(_, _, _), Around(_, _), LoopAfter(_, _),
  \* The order of two statements.
  Above(_, _, _), Precedes(_, _, _),
  \* The loops and the parts that are directly in a loop, and nests of loops.
  InnerLoops(_, _), Parts(_, _), SubNest(_, _), Levels(_), Odd(_)

VARIABLES
  open,    \* openTrans_: the AST of every open transaction
  call,    \* the composite that runs, with its local variables, or how it ended
  begun    \* history: the AST when it was called
vars == <<open, call, begun>>

Top(stack) == stack[Len(stack)]
Below(stack) == SubSeq(stack, 1, Len(stack) - 1)
SetTop(stack, p) == [stack EXCEPT ![Len(stack)] = p]
Begin(stack) == Append(stack, Top(stack))
Commit(stack) == SetTop(Below(stack), Top(stack))
\* A mutant of Abort: what was changed stays.
AbortKeeping(stack) == Commit(stack)
Abort(stack) == Below(stack)
AST == Top(open)

\* A call returns, or throws InvalidSchedule or another error.
End(how, stack) ==
  /\ open' = stack
  /\ call' = [op |-> "ended", how |-> how, last |-> call]
  /\ UNCHANGED begun
Continue(stack, frame) ==
  /\ open' = stack
  /\ call' = frame
  /\ UNCHANGED begun

Init ==
  \E c \in Programs :
    /\ open = <<c[1]>>
    /\ call = [op |-> "new", tries |-> c[2]]
    /\ begun = c[1]

(***************************************************************************)
(* moveTo: m has the statement to move, its side of dst, and the ID that   *)
(* its body has by now.  dir is -1 for up and 1 for down.                  *)
(***************************************************************************)
Far(dir) == IF dir = -1 THEN "Before" ELSE "After"
\* What has to pass dst: the statement itself, or what is next to it.
Edge(p, s, m, dir) == IF m.side = Far(dir) \/ NextTo(p, s, dir) = {} THEN {s} ELSE NextTo(p, s, dir)
Beyond(p, x, m, dir) == IF dir = -1 THEN Precedes(p, m.dst, x) ELSE Precedes(p, x, m.dst)
\* A mutant of Moving: content inside dst.
MovingBeside(p, s, m, dir) == \E x \in Edge(p, s, m, dir) : Beyond(p, x, m, dir)
\* movingUp and movingDown.
Moving(p, s, m, dir) ==
  IF Above(p, m.dst, s) THEN m.side = Far(dir) ELSE \E x \in Edge(p, s, m, dir) : Beyond(p, x, m, dir)
\* The statements on the way, from s on: the nth of them, as a set of at most one.
Way(p, s, m, dir) ==
  LET at[n \in 0 .. Cardinality(Statements(p))] ==
        IF n = 0 THEN {s}
        ELSE UNION {IF Moving(p, x, m, dir) THEN NextTo(p, x, dir) ELSE {} : x \in at[n - 1]}
  IN at
Passed(p, s, m, dir) ==
  LET way == Way(p, s, m, dir)
  IN [n \in {k \in DOMAIN way \ {0} : way[k] # {}} |-> CHOOSE x \in way[n] : TRUE]
\* The statement to leave; none if there is nothing around it.
AtEnd(p, s, m, dir) == NextTo(p, s, dir) = {} /\ Moving(p, s, m, dir)
Outermost(p, s, m, dir) ==
  LET out[n \in 0 .. Cardinality(Statements(p))] ==
        IF n = 0 THEN {s} ELSE UNION {IF AtEnd(p, x, m, dir) THEN Around(p, x) ELSE {} : x \in out[n - 1]}
  IN {x \in UNION {out[n] : n \in DOMAIN out} : ~AtEnd(p, x, m, dir)}
\* What a step comes to: another AST to go on with, or how the call ends.
Stepped(p, m, how) == [how |-> how, ast |-> p, m |-> m]
Leave(p, m, l, dir) ==
  LET suffix == Suffix(p, l, "move")
      suffixes == IF dir = -1 THEN <<suffix, "">> ELSE <<"", suffix>>
      new == [stmt |-> Append(l, suffix), body |-> Append(m.stmt, suffix), side |-> m.side, dst |-> m.dst]
  IN {Stepped(q, new, IF Exists(q, new.stmt) THEN "on" ELSE "error") :
        q \in Fission(p, l, m.stmt, dir = 1, suffixes)}
SwapPast(p, m, dir) ==
  LET passed == Passed(p, m.stmt, m, dir)
      order == IF dir = -1 THEN <<m.stmt>> \o Reverse(passed) ELSE Append(passed, m.stmt)
  IN {Stepped(q, m, "on") : q \in Swap(p, order)}
Go(p, m, dir) ==
  IF NextTo(p, m.stmt, dir) # {} THEN SwapPast(p, m, dir)
  ELSE LET out == Outermost(p, m.stmt, m, dir)
       IN IF out = {} THEN {Stepped(p, m, "error")}
          ELSE UNION {Leave(p, m, l, dir) : l \in {x \in out : IsLoop(p, x)}}
OrInvalid(results, p, m) == IF results = {} THEN {Stepped(p, m, "invalid")} ELSE results
\* One round of the loop of moveTo.
MoveOnce(p, m) ==
  IF ~Exists(p, m.stmt) \/ ~Exists(p, m.dst) THEN {Stepped(p, m, "error")}
  ELSE IF Moving(p, m.stmt, m, -1) THEN OrInvalid(Go(p, m, -1), p, m)
  ELSE IF Moving(p, m.stmt, m, 1) THEN OrInvalid(Go(p, m, 1), p, m)
  ELSE {Stepped(p, m, "returned")}
Move(stmt, side, dst) == [stmt |-> stmt, body |-> stmt, side |-> side, dst |-> dst]

\* "caller" is the frame of autoFissionFuse, or none if the user has called.
MoveCall(m, caller) == [op |-> "moveTo", m |-> m, caller |-> caller]
MoveTo(stmt, side, dst) == Continue(Begin(open), MoveCall(Move(stmt, side, dst), <<>>))
MoveEnds(how, stack) ==
  \/ call.caller = <<>> /\ End(how, stack)
  \/ call.caller # <<>> /\ Continue(stack, [call.caller[1] EXCEPT !.moved = <<[how |-> how, m |-> call.m]>>])
MoveStep ==
  /\ call.op = "moveTo"
  /\ \E r \in MoveOnce(AST, call.m) :
       \/ r.how = "on" /\ Continue(SetTop(open, r.ast), MoveCall(r.m, call.caller))
       \/ r.how = "returned" /\ MoveEnds("returned", Commit(open))
       \/ r.how = "invalid" /\ MoveEnds("invalid", Abort(open))
       \/ r.how = "error" /\ End("error", SetTop(open, r.ast))

(***************************************************************************)
(* fuse(loop0), with the loop that follows.  What the inner fuse throws is *)
(* not caught: the transaction that is open here stays open.               *)
(***************************************************************************)
FuseNext(loop) ==
  /\ \E next \in {LoopAfter(AST, loop)} :
       \/ next = {} /\ End("invalid", Abort(Begin(open)))
       \/ \E id \in next : \E q \in Fuse(AST, loop, id) : End("returned", Commit(SetTop(Begin(open), q)))
       \/ /\ "open" \in Gaps
          /\ \E id \in next : Fuse(AST, loop, id) = {}
          /\ End("invalid", Begin(open))

(***************************************************************************)
(* autoReorder: loops without dependences come first in their nests, then  *)
(* those with reductions only.  The levels are those of the first AST.     *)
(***************************************************************************)
Sorted(nest, level) ==
  LET at(n) == SelectSeq(nest, LAMBDA id : level[id] = n)
  IN at(0) \o at(1) \o at(2)
ReorderCall(level, todo) == [op |-> "autoReorder", level |-> level, todo |-> todo]
AutoReorder ==
  /\ "reorder" \in Gaps \/ ~Odd(AST)
  /\ Continue(open, ReorderCall(Levels(AST), InnerLoops(AST, <<>>)))
Reordered(p, nest, level) ==
  LET sorted == Sorted(nest, level)
  IN IF sorted = nest \/ Reorder(p, sorted) = {} THEN {p} ELSE Reorder(p, sorted)
ReorderStep ==
  /\ call.op = "autoReorder"
  /\ \/ call.todo = <<>> /\ End("returned", open)
     \/ /\ call.todo # <<>>
        /\ \E nest \in {SubNest(AST, Head(call.todo))} : \E q \in Reordered(AST, nest, call.level) :
             Continue(SetTop(open, q), ReorderCall(call.level, InnerLoops(q, Last(nest)) \o Tail(call.todo)))

(***************************************************************************)
(* autoParallelize on a CPU: the outer loops are merged, if that goes, and *)
(* parallelized.  How many can be merged is found out in a transaction     *)
(* that is aborted.  A loop that was merged is not found again, so that it *)
(* is two at most.  "todo" has the loops, each with the number of loops to *)
(* merge once that is known, "trial" what is done in a transaction.        *)
(***************************************************************************)
ParallelizeCall(todo, trial) == [op |-> "autoParallelize", todo |-> todo, trial |-> trial]
Counting(root) == [op |-> "count", root |-> root]
CountAll(loops) == [n \in DOMAIN loops |-> Counting(loops[n])]
Merging(root, level) == [op |-> "merge", root |-> root, level |-> level]
Dropping(level) == [op |-> "drop", level |-> level]
Trying(level, loop) == [op |-> "parallelize", level |-> level, loop |-> loop]
AutoParallelize ==
  LET roots == InnerLoops(AST, <<>>)
      outer(l) == IF Len(InnerLoops(AST, l)) > 1 THEN InnerLoops(AST, l) ELSE <<l>>
  IN Continue(open, ParallelizeCall(CountAll(FlattenSeq([n \in DOMAIN roots |-> outer(roots[n])])), <<>>))

MergedPair(root, inner) == <<"merge">> \o root \o inner
MergeInner(p, root) == Merge(p, root, InnerLoops(p, root)[1])
MergeIfOne(p, root) ==
  IF Len(InnerLoops(p, root)) = 1 /\ ~IsParallel(p, InnerLoops(p, root)[1]) THEN MergeInner(p, root) ELSE {}
\* How many loops can be merged, and with what result.
Counted(p, root) ==
  IF IsParallel(p, root) THEN {<<0, p>>}
  ELSE IF MergeIfOne(p, root) = {} THEN {<<1, p>>}
  ELSE {2} \X MergeIfOne(p, root)
\* The loop that is next, and the trial for it, by what is done.
Visited(op) ==
  IF call.op = "autoParallelize" /\ call.trial = <<>> /\ call.todo # <<>>
  THEN {t \in {Head(call.todo)} : t.op = op} ELSE {}
Trial(op) == IF call.op = "autoParallelize" /\ call.trial # <<>> THEN {t \in {call.trial[1]} : t.op = op} ELSE {}
Begun(stack, trial) == Continue(stack, ParallelizeCall(call.todo, <<trial>>))
Instead(stack, items) == Continue(stack, ParallelizeCall(items \o Tail(call.todo), <<>>))
CountMerges ==
  \E t \in Visited("count") : \E c \in Counted(AST, t.root) : Begun(SetTop(Begin(open), c[2]), Dropping(c[1]))
DropMerges == \E t \in Trial("drop") : Instead(Abort(open), <<Merging(Head(call.todo).root, t.level)>>)
MergeLoops ==
  \E t \in Visited("merge") :
    \/ t.level = 2 /\ \E q \in MergeInner(AST, t.root) :
         Begun(SetTop(Begin(open), q), Trying(2, MergedPair(t.root, InnerLoops(AST, t.root)[1])))
    \/ t.level = 1 /\ Begun(Begin(open), Trying(1, t.root))
    \/ t.level = 0 /\ Instead(open, CountAll(InnerLoops(AST, t.root)))
ParallelizeLoop ==
  \E t \in Trial("parallelize") :
    \/ \E q \in Parallelize(AST, t.loop) : Instead(Commit(SetTop(open, q)), <<>>)
    \/ Parallelize(AST, t.loop) = {} /\ Instead(Abort(open), <<Merging(Head(call.todo).root, t.level - 1)>>)
ParallelizeDone ==
  call.op = "autoParallelize" /\ call.trial = <<>> /\ call.todo = <<>> /\ End("returned", open)

(***************************************************************************)
(* autoFissionFuse: random decisions to fission every loop before each of  *)
(* its parts but the first, inner loops first, and to fuse consecutive     *)
(* loops that were not just fissioned from one.  "todo" is the stack of    *)
(* the recursive calls, "from" is fissionFrom, "trial" the pair that is    *)
(* moved together in a transaction, and "moved" what moveTo came to.       *)
(***************************************************************************)
FissionFuseCall(from, todo, trial) ==
  [op |-> "autoFissionFuse", from |-> from, todo |-> todo, trial |-> trial, moved |-> <<>>]
Fissioning(loop) == [op |-> "fission", loop |-> loop]
Parting(loop) == [op |-> "parts", loop |-> loop]
Splitting(loop, left, n) == [op |-> "split", loop |-> loop, left |-> left, n |-> n]
Fusing(loop) == [op |-> "fuse", loop |-> loop]
Pairing(left, last, lastId) == [op |-> "pair", left |-> left, last |-> last, lastId |-> lastId]
\* One of the pair is being moved: last before the next loop, or that after last.
Joining(side, pair) == [side |-> side, pair |-> pair]
FissionAll(loops) == [n \in DOMAIN loops |-> Fissioning(loops[n])]
AutoFissionFuse ==
  Continue(open, FissionFuseCall(<<>>, Append(FissionAll(InnerLoops(AST, <<>>)), Fusing(<<>>)), <<>>))
\* The task that is done next, and what it leaves to do in its place.
Tasks(op) ==
  IF call.op = "autoFissionFuse" /\ call.trial = <<>> /\ call.todo # <<>>
  THEN {t \in {Head(call.todo)} : t.op = op} ELSE {}
Then(stack, items, from) == Continue(stack, FissionFuseCall(from, items \o Tail(call.todo), <<>>))
TryFission ==
  \/ \E t \in Tasks("fission") :
       Then(open, Append(FissionAll(InnerLoops(AST, t.loop)), Parting(t.loop)), call.from)
  \/ \E t \in Tasks("parts") : Then(open, <<Splitting(t.loop, Tail(Parts(AST, t.loop)), 0)>>, call.from)
  \/ \E t \in Tasks("split") : t.left = <<>> /\ Then(open, <<>>, (t.loop :> t.loop) @@ call.from)
FissionStep(decided) ==
  \E t \in {x \in Tasks("split") : x.left # <<>>} :
    LET new == "part" \o ToString(t.n)
        rest(n) == <<Splitting(t.loop, Tail(t.left), n)>>
        results == Fission(AST, t.loop, Head(t.left), TRUE, <<new, "">>)
    IN \/ ~decided /\ Then(open, rest(t.n), call.from)
       \/ decided /\ results = {} /\ Then(Abort(Begin(open)), rest(t.n), call.from)
       \/ decided /\ \E q \in results :
            Then(Commit(SetTop(Begin(open), q)), rest(t.n + 1), (Append(t.loop, new) :> t.loop) @@ call.from)

\* The recursion of tryFuse: into the last loop, or again into the first ones.
Again(t) == IF t.last = <<>> THEN <<>> ELSE <<Fusing(<<>>)>>
Deeper(t) == IF t.last = <<>> THEN <<>> ELSE <<Fusing(t.last)>>
TryFuse ==
  \/ \E t \in Tasks("fuse") : Then(open, <<Pairing(InnerLoops(AST, t.loop), <<>>, <<>>)>>, call.from)
  \/ \E t \in Tasks("pair") : t.left = <<>> /\ Then(open, Deeper(t), call.from)
Apart(t) ==
  \/ t.last = <<>>
  \/ ~Exists(AST, t.lastId)
  \/ {Head(t.left), t.lastId} \subseteq DOMAIN call.from /\ call.from[Head(t.left)] = call.from[t.lastId]
\* The loop that is next, or none if it is no longer there.
PairOn(t, last, lastId) == Pairing(Tail(t.left), last, lastId)
\* moveTo is called for one of a pair.
Joined(stack, m, side, pair) ==
  Continue(stack, MoveCall(m, <<FissionFuseCall(call.from, call.todo, <<Joining(side, pair)>>)>>))
FuseStep(decided) ==
  \E t \in {x \in Tasks("pair") : x.left # <<>>} :
    LET loop == Head(t.left)
    IN \/ ~Exists(AST, loop) /\ Then(open, <<PairOn(t, t.last, t.lastId)>>, call.from)
       \/ Exists(AST, loop) /\ (Apart(t) \/ ~decided) /\ Then(open, <<PairOn(t, loop, loop)>>, call.from)
       \/ /\ Exists(AST, loop) /\ ~Apart(t) /\ decided
          /\ Joined(Begin(Begin(open)), Move(t.lastId, "Before", loop), "Before", t)

\* moveTo has returned, or both ways are invalid.  The IDs that it returned
\* stay in use when the rest fails.
FusedPair(id0, id1) == <<"fuse">> \o id0 \o id1
JoinTrial == IF call.op = "autoFissionFuse" /\ call.trial # <<>> THEN {call.trial[1]} ELSE {}
Refused(pair, id) == Then(Abort(open), <<Fusing(pair.last), PairOn(pair, Head(pair.left), id)>>, call.from)
Settled(t, got) ==
  LET loop == Head(t.pair.left)
      id0 == IF t.side = "Before" THEN got.m.body ELSE t.pair.lastId
      id1 == IF t.side = "After" THEN got.m.body ELSE loop
      fused == FusedPair(id0, id1)
  IN \/ got.how = "returned" /\ \E q \in Fuse(AST, id0, id1) :
          Then(Commit(SetTop(open, q)), <<PairOn(t.pair, fused, fused)>>, call.from)
     \/ got.how = "returned" /\ Fuse(AST, id0, id1) = {} /\ Refused(t.pair, id1)
     \/ got.how = "invalid" /\ t.side = "Before"
        /\ Joined(Begin(open), Move(loop, "After", t.pair.lastId), "After", t.pair)
     \/ got.how = "invalid" /\ t.side = "After" /\ Refused(t.pair, loop)
JoinStep == \E t \in JoinTrial : \E got \in {call.moved[1]} : Settled(t, got)
FissionFuseDone ==
  call.op = "autoFissionFuse" /\ call.trial = <<>> /\ call.todo = <<>> /\ End("returned", open)

-----------------------------------------------------------------------------
\* A call, or the next pass of autoSchedule.
Asked(op) ==
  \/ call.op = "new" /\ op \in call.tries
  \/ /\ call.op = "ended" /\ call.how = "returned"
     /\ <<call.last.op, op>> \in {<<"autoFissionFuse", "autoReorder">>, <<"autoReorder", "autoParallelize">>}
Next ==
  \/ Asked("moveTo") /\ \E s, d \in Statements(AST), side \in {"Before", "After"} : MoveTo(s, side, d)
  \/ MoveStep
  \/ Asked("fuse") /\ \E l \in AllLoops(AST) : FuseNext(l)
  \/ Asked("autoReorder") /\ AutoReorder
  \/ ReorderStep
  \/ Asked("autoParallelize") /\ AutoParallelize
  \/ CountMerges \/ DropMerges \/ MergeLoops \/ ParallelizeLoop
  \/ ParallelizeDone
  \/ Asked("autoFissionFuse") /\ AutoFissionFuse
  \/ TryFission
  \/ \E decided \in BOOLEAN : FissionStep(decided)
  \/ TryFuse
  \/ \E decided \in BOOLEAN : FuseStep(decided)
  \/ JoinStep
  \/ FissionFuseDone
  \/ call.op = "ended" /\ UNCHANGED vars

\* One thread runs a call to its end: as WF_vars(Next), for a Next that is never
\* stuck and changes nothing only once the call has ended.
Fairness == []<>(call.op = "ended") \/ []<><<TRUE>>_vars
Spec == Init /\ [][Next]_vars /\ Fairness

(***************************************************************************)
(* Properties.                                                             *)
(***************************************************************************)
Ended(how) == call.op = "ended" /\ call.how = how
\* A schedule is a transaction (schedule.h:149): however it ends, but for errors
\* that no schedule handles, its transaction is closed.
Balanced == Ended("returned") \/ Ended("invalid") => Len(open) = 1

\* One that throws InvalidSchedule has changed nothing, however many of its
\* transformations had worked.
Restored == Ended("invalid") => AST = begun

\* Both together are what schedule.h:149 promises of a schedule.
Transactional == Balanced /\ Restored

\* Composites keep the meaning of the program in every open transaction, but for
\* that in which autoParallelize has merged loops: merge may put what follows the
\* inner loop too early, and what is merged so must not be committed.
Lasting == IF call.op = "autoParallelize" THEN {1} ELSE DOMAIN open
SameMeaning == \A n \in Lasting : Computes(open[n]) = Computes(begun)

\* moveTo (schedule.h:545): the statement it returns is on the side of dst that
\* was asked for, with nothing between the two but what is around dst.
Beside(p, m) ==
  LET toward == IF m.side = "Before" THEN 1 ELSE -1
  IN \/ m.stmt = m.dst \/ Above(p, m.stmt, m.dst)
     \/ \E x \in NextTo(p, m.stmt, toward) : x = m.dst \/ Above(p, x, m.dst)
\* This rests on the order of statements being that of a tree: of two, one is
\* around the other or comes first, and what is next to s comes before whatever
\* s comes before, or is it, or is around it.
Orderly(p) ==
  \A s, d \in Statements(p) :
    /\ s = d \/ Above(p, s, d) \/ Above(p, d, s) \/ Precedes(p, s, d) \/ Precedes(p, d, s)
    /\ \A x \in NextTo(p, s, 1) : Precedes(p, s, d) => x = d \/ Above(p, x, d) \/ Precedes(p, x, d)
    /\ \A x \in NextTo(p, s, -1) : Precedes(p, d, s) => x = d \/ Above(p, x, d) \/ Precedes(p, d, x)
Moved == Ended("returned") /\ call.last.op = "moveTo" => Beside(AST, call.last.m)

\* A call ends: the loop of moveTo does not move a statement to and fro, and
\* the recursion of the automatic schedules gets to smaller loops.
Ends == <>[](call.op = "ended")
=============================================================================

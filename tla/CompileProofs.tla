---------------------------- MODULE CompileProofs ----------------------------
(***************************************************************************)
(* Theorems about the two ends of a compilation: the composites that       *)
(* schedule a program (Composite), and the launches that it is lowered to  *)
(* (Kernel).  What lies between them, and the data of both, is parameters  *)
(* of the two modules, so that the theorems hold of any transformations    *)
(* and any launches that do what the hypotheses say.                       *)
(***************************************************************************)
EXTENDS Composite, Kernel, SequenceTheorems, FiniteSetTheorems, TLAPS

(***************************************************************************)
(* The last and the other elements of short sequences.                     *)
(***************************************************************************)
LEMMA BelowTuples ==
  ASSUME NEW a, NEW b, NEW c
  PROVE  Below(<<a, b>>) = <<a>> /\ Below(<<a, b, c>>) = <<a, b>>
<1>1. <<a, b>> \in Seq({a, b, c}) /\ <<a, b, c>> \in Seq({a, b, c})
  OBVIOUS
<1>2. Len(<<a, b>>) - 1 = 1 /\ Len(<<a, b, c>>) - 1 = 2
  OBVIOUS
<1>3. SubSeq(<<a, b>>, 1, 1) = <<a>>
  <2>. DEFINE t == SubSeq(<<a, b>>, 1, 1)
  <2>1. t \in Seq({a, b, c}) /\ Len(t) = 1 /\ t[1] = a
    BY <1>1, SubSeqProperties
  <2>2. <<a>> \in Seq({a, b, c}) /\ Len(<<a>>) = 1
    OBVIOUS
  <2>. HIDE DEF t
  <2>3. t = <<a>>
    BY <2>1, <2>2, SeqEqual
  <2>. QED BY <2>3 DEF t
<1>4. SubSeq(<<a, b, c>>, 1, 2) = <<a, b>>
  <2>. DEFINE t == SubSeq(<<a, b, c>>, 1, 2)
  <2>1. t \in Seq({a, b, c}) /\ Len(t) = 2 /\ t[1] = a /\ t[2] = b
    BY <1>1, SubSeqProperties
  <2>. HIDE DEF t
  <2>2. t = <<a, b>>
    BY <1>1, <2>1, SeqEqual
  <2>. QED BY <2>2 DEF t
<1>. QED BY <1>2, <1>3, <1>4 DEF Below

(***************************************************************************)
(* Control: how many transactions are open, by what runs.                  *)
(***************************************************************************)
IsOne(s) == s = <<s[1]>>
IsTwo(s) == s = <<s[1], s[2]>>
IsThree(s) == s = <<s[1], s[2], s[3]>>

\* moveTo is called by autoFissionFuse, in the trial of a pair.
Pending(f) == f = FissionFuseCall(f.from, f.todo, <<f.trial[1]>>)
Moves ==
  /\ call = MoveCall(call.m, call.caller)
  /\ \/ call.caller = <<>> /\ IsTwo(open) /\ open[1] = begun
     \/ IsOne(call.caller) /\ Pending(call.caller[1]) /\ IsThree(open)
\* A transaction of the user, and that of a trial.
Tries == IF call.trial = <<>> THEN IsOne(open) ELSE IsTwo(open)
Has0 == open = <<begun>>
Closed ==
  CASE call.how = "returned" -> IsOne(open)
    [] call.how = "invalid" -> Has0 \/ ("open" \in Gaps /\ open = <<begun, begun>>)
    [] call.how = "error" -> TRUE
Shape ==
  \/ call.op = "new" /\ Has0
  \/ call.op = "moveTo" /\ Moves
  \/ call.op = "autoReorder" /\ IsOne(open)
  \/ call.op \in {"autoParallelize", "autoFissionFuse"} /\ Tries
  \/ call.op = "ended" /\ call.how \in {"returned", "invalid", "error"} /\ Closed


LEMMA OneOps ==
  ASSUME NEW s, IsOne(s)
  PROVE  /\ Top(s) = s[1] /\ Begin(s) = <<s[1], s[1]>>
         /\ \A x : SetTop(s, x) = <<x>>
<1>. DEFINE a == s[1]
<1>1. s = <<a>>
  BY DEF IsOne
<1>. HIDE DEF a
<1>2. Top(s) = a /\ \A x : SetTop(s, x) = <<x>>
  BY <1>1 DEF Top, SetTop
<1>3. Append(<<a>>, a) = <<a, a>>
  <2>1. <<a>> \in Seq({a}) /\ Len(<<a>>) = 1 /\ <<a>>[1] = a /\ <<a, a>> \in Seq({a}) /\ Len(<<a, a>>) = 2
    OBVIOUS
  <2>. DEFINE t == Append(<<a>>, a)
  <2>2. t \in Seq({a}) /\ Len(t) = 2 /\ t[1] = a /\ t[2] = a
    BY <2>1, AppendProperties
  <2>. HIDE DEF t
  <2>3. t = <<a, a>>
    BY <2>1, <2>2, SeqEqual
  <2>. QED BY <2>3 DEF t
<1>4. Begin(s) = <<a, a>>
  BY <1>1, <1>2, <1>3 DEF Begin
<1>. QED BY <1>2, <1>4 DEF a

LEMMA TwoOps ==
  ASSUME NEW s, IsTwo(s)
  PROVE  /\ Top(s) = s[2] /\ Begin(s) = <<s[1], s[2], s[2]>>
         /\ Abort(s) = <<s[1]>> /\ Commit(s) = <<s[2]>>
         /\ \A x : SetTop(s, x) = <<s[1], x>>
<1>. DEFINE a == s[1]
            b == s[2]
<1>1. s = <<a, b>>
  BY DEF IsTwo
<1>. HIDE DEF a, b
<1>2. Top(s) = b /\ \A x : SetTop(s, x) = <<a, x>>
  BY <1>1 DEF Top, SetTop
<1>3. Append(<<a, b>>, b) = <<a, b, b>>
  <2>1. <<a, b>> \in Seq({a, b}) /\ Len(<<a, b>>) = 2 /\ <<a, b>>[1] = a /\ <<a, b>>[2] = b
    OBVIOUS
  <2>2. <<a, b, b>> \in Seq({a, b}) /\ Len(<<a, b, b>>) = 3
    OBVIOUS
  <2>. DEFINE t == Append(<<a, b>>, b)
  <2>3. t \in Seq({a, b}) /\ Len(t) = 3 /\ t[1] = a /\ t[2] = b /\ t[3] = b
    BY <2>1, AppendProperties
  <2>. HIDE DEF t
  <2>4. t = <<a, b, b>>
    BY <2>2, <2>3, SeqEqual
  <2>. QED BY <2>4 DEF t
<1>4. Begin(s) = <<a, b, b>>
  BY <1>1, <1>2, <1>3 DEF Begin
<1>5. Below(s) = <<a>>
  BY <1>1, BelowTuples
<1>6. Commit(s) = <<b>>
  BY <1>2, <1>5 DEF Commit, SetTop
<1>. QED BY <1>2, <1>4, <1>5, <1>6 DEF a, b, Abort

LEMMA ThreeOps ==
  ASSUME NEW s, IsThree(s)
  PROVE  /\ Top(s) = s[3] /\ Abort(s) = <<s[1], s[2]>> /\ Commit(s) = <<s[1], s[3]>>
         /\ \A x : SetTop(s, x) = <<s[1], s[2], x>>
<1>. DEFINE a == s[1]
            b == s[2]
            c == s[3]
<1>1. s = <<a, b, c>>
  BY DEF IsThree
<1>. HIDE DEF a, b, c
<1>2. Top(s) = c /\ \A x : SetTop(s, x) = <<a, b, x>>
  BY <1>1 DEF Top, SetTop
<1>3. Below(s) = <<a, b>>
  BY <1>1, BelowTuples
<1>4. Commit(s) = <<a, c>>
  BY <1>2, <1>3 DEF Commit, SetTop
<1>. QED BY <1>2, <1>3, <1>4 DEF a, b, c, Abort

LEMMA Tuples ==
  /\ \A a : IsOne(<<a>>)
  /\ \A a, b : IsTwo(<<a, b>>)
  /\ \A a, b, c : IsThree(<<a, b, c>>)
BY DEF IsOne, IsTwo, IsThree

LEMMA EndShape ==
  ASSUME NEW how \in {"returned", "invalid", "error"}, NEW stack, End(how, stack),
         how = "returned" => IsOne(stack),
         how = "invalid" => stack = <<begun>> \/ ("open" \in Gaps /\ stack = <<begun, begun>>)
  PROVE  Shape'
<1>1. call'.op = "ended" /\ call'.how = how /\ open' = stack /\ begun' = begun
  BY DEF End
<1>2. Closed'
  BY <1>1 DEF Closed, Has0, IsOne
<1>. QED BY <1>1, <1>2 DEF Shape

LEMMA TriesShape ==
  ASSUME NEW stack, NEW frame, Continue(stack, frame),
         frame.op \in {"autoParallelize", "autoFissionFuse"},
         IF frame.trial = <<>> THEN IsOne(stack) ELSE IsTwo(stack)
  PROVE  Shape'
<1>1. call' = frame /\ open' = stack
  BY DEF Continue
<1>2. Tries'
  BY <1>1 DEF Tries, IsOne, IsTwo
<1>. QED BY <1>1, <1>2 DEF Shape

LEMMA MoveStepShape ==
  ASSUME Shape, MoveStep
  PROVE  Shape'
<1>1. PICK r \in MoveOnce(AST, call.m) :
        \/ r.how = "on" /\ Continue(SetTop(open, r.ast), MoveCall(r.m, call.caller))
        \/ r.how = "returned" /\ MoveEnds("returned", Commit(open))
        \/ r.how = "invalid" /\ MoveEnds("invalid", Abort(open))
        \/ r.how = "error" /\ End("error", SetTop(open, r.ast))
  BY DEF MoveStep
<1>2. Moves
  BY DEF Shape, MoveStep
<1>3. CASE r.how = "on"
  <2>1. open' = SetTop(open, r.ast) /\ call' = MoveCall(r.m, call.caller) /\ begun' = begun
    BY <1>1, <1>3 DEF Continue
  <2>2. call'.op = "moveTo" /\ call'.m = r.m /\ call'.caller = call.caller
    BY <2>1 DEF MoveCall
  <2>3. call.caller = <<>> /\ IsTwo(open) /\ open[1] = begun => IsTwo(open') /\ open'[1] = begun'
    <3>. SUFFICES ASSUME IsTwo(open), open[1] = begun PROVE IsTwo(open') /\ open'[1] = begun'
      OBVIOUS
    <3>1. open' = <<open[1], r.ast>>
      BY <2>1, TwoOps
    <3>. QED BY <2>1, <3>1, Tuples
  <2>4. IsThree(open) => IsThree(open')
    BY <2>1, ThreeOps, Tuples
  <2>5. Moves'
    BY <1>2, <2>1, <2>2, <2>3, <2>4 DEF Moves
  <2>. QED BY <2>2, <2>5 DEF Shape
<1>4. ASSUME NEW how \in {"returned", "invalid"}, NEW stack, MoveEnds(how, stack),
             how = "returned" => stack = Commit(open), how = "invalid" => stack = Abort(open)
      PROVE  Shape'
  <2>1. CASE call.caller = <<>>
    <3>1. End(how, stack)
      BY <1>4, <2>1 DEF MoveEnds
    <3>2. IsTwo(open) /\ open[1] = begun
      BY <1>2, <2>1 DEF Moves, IsOne
    <3>3. Commit(open) = <<open[2]>> /\ Abort(open) = <<begun>>
      BY <3>2, TwoOps
    <3>4. IsOne(Commit(open))
      BY <3>3, Tuples
    <3>. QED BY <1>4, <3>1, <3>3, <3>4, EndShape
  <2>2. CASE call.caller # <<>>
    <3>. DEFINE f == call.caller[1]
    <3>1. Continue(stack, [f EXCEPT !.moved = <<[how |-> how, m |-> call.m]>>])
      BY <1>4, <2>2 DEF MoveEnds
    <3>2. IsThree(open) /\ Pending(f)
      BY <1>2, <2>2 DEF Moves
    <3>3. Commit(open) = <<open[1], open[3]>> /\ Abort(open) = <<open[1], open[2]>>
      BY <3>2, ThreeOps
    <3>4. stack = <<open[1], open[3]>> \/ stack = <<open[1], open[2]>>
      BY <1>4, <3>3
    <3>5. IsTwo(stack)
      BY <3>4, Tuples
    <3>6. [f EXCEPT !.moved = <<[how |-> how, m |-> call.m]>>].op = "autoFissionFuse"
      BY <3>2 DEF Pending, FissionFuseCall
    <3>7. [f EXCEPT !.moved = <<[how |-> how, m |-> call.m]>>].trial # <<>>
      BY <3>2 DEF Pending, FissionFuseCall
    <3>. QED BY <3>1, <3>5, <3>6, <3>7, TriesShape
  <2>. QED BY <2>1, <2>2
<1>5. CASE r.how = "error"
  BY <1>1, <1>5, EndShape
<1>. QED BY <1>1, <1>3, <1>4, <1>5

\* The stacks that the automatic schedules come to.
LEMMA TrialStacks ==
  ASSUME IsOne(open)
  PROVE  /\ IsTwo(Begin(open))
         /\ IsOne(Abort(Begin(open)))
         /\ \A q : IsOne(SetTop(open, q)) /\ IsTwo(SetTop(Begin(open), q)) /\ IsOne(Commit(SetTop(Begin(open), q)))
<1>1. Begin(open) = <<open[1], open[1]>> /\ \A q : SetTop(open, q) = <<q>>
  BY OneOps
<1>2. IsTwo(Begin(open)) /\ \A q : IsOne(SetTop(open, q))
  BY <1>1, Tuples
<1>3. IsOne(Abort(Begin(open)))
  BY <1>2, TwoOps, Tuples
<1>4. \A q : IsTwo(SetTop(Begin(open), q))
  BY <1>2, TwoOps, Tuples
<1>5. \A q : IsOne(Commit(SetTop(Begin(open), q)))
  BY <1>4, TwoOps, Tuples
<1>. QED BY <1>2, <1>3, <1>4, <1>5

LEMMA TriedStacks ==
  ASSUME IsTwo(open)
  PROVE  /\ IsOne(Abort(open)) /\ IsThree(Begin(open))
         /\ \A q : IsOne(Commit(SetTop(open, q)))
<1>1. IsOne(Abort(open)) /\ IsThree(Begin(open))
  BY TwoOps, Tuples
<1>2. \A q : IsTwo(SetTop(open, q))
  BY TwoOps, Tuples
<1>3. \A q : IsOne(Commit(SetTop(open, q)))
  BY <1>2, TwoOps, Tuples
<1>. QED BY <1>1, <1>3

LEMMA FuseNextShape ==
  ASSUME Has0, NEW loop, FuseNext(loop)
  PROVE  Shape'
<1>1. IsOne(open) /\ open[1] = begun
  BY Tuples DEF Has0
<1>2. Begin(open) = <<begun, begun>>
  BY <1>1, OneOps
<1>3. IsTwo(Begin(open)) /\ Begin(open)[1] = begun
  BY <1>2, Tuples
<1>4. Abort(Begin(open)) = <<begun>>
  BY <1>3, TwoOps
<1>5. \A q : IsOne(Commit(SetTop(Begin(open), q)))
  BY <1>1, TrialStacks
<1>. QED BY <1>2, <1>4, <1>5, EndShape DEF FuseNext

LEMMA ReorderShape ==
  ASSUME NEW stack, NEW level, NEW todo, IsOne(stack), Continue(stack, ReorderCall(level, todo))
  PROVE  Shape'
<1>1. call'.op = "autoReorder" /\ open' = stack
  BY DEF Continue, ReorderCall
<1>. QED BY <1>1 DEF Shape, IsOne

LEMMA ReorderStepShape ==
  ASSUME Shape, ReorderStep
  PROVE  Shape'
<1>1. IsOne(open)
  BY DEF Shape, ReorderStep
<1>2. CASE End("returned", open)
  BY <1>1, <1>2, EndShape
<1>3. ASSUME NEW q, NEW level, NEW todo, Continue(SetTop(open, q), ReorderCall(level, todo))
      PROVE  Shape'
  <2>1. SetTop(open, q) = <<q>>
    BY <1>1, OneOps
  <2>2. IsOne(SetTop(open, q))
    BY <2>1, Tuples
  <2>. QED BY <1>3, <2>2, ReorderShape
<1>. QED BY <1>2, <1>3 DEF ReorderStep

LEMMA ParallelizeShape ==
  ASSUME NEW stack, NEW todo, NEW trial, Continue(stack, ParallelizeCall(todo, trial)),
         IF trial = <<>> THEN IsOne(stack) ELSE IsTwo(stack)
  PROVE  Shape'
<1>1. ParallelizeCall(todo, trial).op = "autoParallelize" /\ ParallelizeCall(todo, trial).trial = trial
  BY DEF ParallelizeCall
<1>. QED BY <1>1, TriesShape

LEMMA ParallelizeStepsShape ==
  ASSUME Shape, CountMerges \/ DropMerges \/ MergeLoops \/ ParallelizeLoop \/ ParallelizeDone
  PROVE  Shape'
<1>1. ASSUME NEW stack, NEW t, Begun(stack, t), IsTwo(stack)
      PROVE  Shape'
  BY <1>1, ParallelizeShape DEF Begun
<1>2. ASSUME NEW stack, NEW items, Instead(stack, items), IsOne(stack)
      PROVE  Shape'
  BY <1>2, ParallelizeShape DEF Instead
<1>3. ASSUME NEW op, NEW t \in Visited(op)
      PROVE  IsOne(open)
  BY <1>3 DEF Visited, Shape, Tries
<1>4. ASSUME NEW op, NEW t \in Trial(op)
      PROVE  IsTwo(open)
  BY <1>4 DEF Trial, Shape, Tries
<1>5. CASE CountMerges
  BY <1>1, <1>3, <1>5, TrialStacks DEF CountMerges
<1>6. CASE DropMerges
  BY <1>2, <1>4, <1>6, TriedStacks DEF DropMerges
<1>7. CASE MergeLoops
  BY <1>1, <1>2, <1>3, <1>7, TrialStacks DEF MergeLoops
<1>8. CASE ParallelizeLoop
  BY <1>2, <1>4, <1>8, TriedStacks DEF ParallelizeLoop
<1>9. CASE ParallelizeDone
  BY <1>9, EndShape DEF ParallelizeDone, Shape, Tries
<1>. QED BY <1>5, <1>6, <1>7, <1>8, <1>9

LEMMA FissionFuseShape ==
  ASSUME NEW stack, NEW from, NEW todo, NEW trial, Continue(stack, FissionFuseCall(from, todo, trial)),
         IF trial = <<>> THEN IsOne(stack) ELSE IsTwo(stack)
  PROVE  Shape'
<1>1. FissionFuseCall(from, todo, trial).op = "autoFissionFuse" /\ FissionFuseCall(from, todo, trial).trial = trial
  BY DEF FissionFuseCall
<1>. QED BY <1>1, TriesShape

LEMMA JoinedShape ==
  ASSUME NEW stack, NEW m, NEW side, NEW pair, Joined(stack, m, side, pair), IsThree(stack)
  PROVE  Shape'
<1>. DEFINE f == FissionFuseCall(call.from, call.todo, <<Joining(side, pair)>>)
<1>1. open' = stack /\ call' = MoveCall(m, <<f>>)
  BY DEF Joined, Continue
<1>2. call'.op = "moveTo" /\ call'.m = m /\ call'.caller = <<f>>
  BY <1>1 DEF MoveCall
<1>3. f.from = call.from /\ f.todo = call.todo /\ f.trial = <<Joining(side, pair)>>
  BY DEF FissionFuseCall
<1>4. f.trial[1] = Joining(side, pair)
  BY <1>3
<1>5. Pending(f)
  BY <1>3, <1>4 DEF Pending
<1>6. IsOne(call'.caller) /\ Pending(call'.caller[1])
  BY <1>2, <1>5 DEF IsOne
<1>7. Moves'
  BY <1>1, <1>2, <1>6 DEF Moves, IsThree
<1>. QED BY <1>2, <1>7 DEF Shape

\* What a step of autoFissionFuse comes to, by the transactions that it leaves.
ThenOn(stack) == \E items, from : Then(stack, items, from)
JoinedOn(stack) == \E m, side, pair : Joined(stack, m, side, pair)

LEMMA FissionOutcome ==
  ASSUME NEW decided, FissionStep(decided)
  PROVE  /\ Tasks("split") # {}
         /\ \/ ThenOn(open) \/ ThenOn(Abort(Begin(open)))
            \/ \E loop, at, before, suffixes : \E q \in Fission(AST, loop, at, before, suffixes) :
                 ThenOn(Commit(SetTop(Begin(open), q)))
BY ZenonT(60) DEF FissionStep, ThenOn

LEMMA FuseOutcome ==
  ASSUME NEW decided, FuseStep(decided)
  PROVE  Tasks("pair") # {} /\ (ThenOn(open) \/ JoinedOn(Begin(Begin(open))))
BY ZenonT(60) DEF FuseStep, ThenOn, JoinedOn

LEMMA JoinOutcome ==
  ASSUME JoinStep
  PROVE  /\ JoinTrial # {}
         /\ \/ ThenOn(Abort(open)) \/ JoinedOn(Begin(open))
            \/ \E id0, id1 : \E q \in Fuse(AST, id0, id1) : ThenOn(Commit(SetTop(open, q)))
<1>1. JoinTrial # {}
  BY Zenon DEF JoinStep
<1>2. PICK t, got : Settled(t, got)
  BY Zenon DEF JoinStep
<1>3. \A pair, id : Refused(pair, id) => ThenOn(Abort(open))
  BY Zenon DEF Refused, ThenOn
<1>4. \A m, side, pair : Joined(Begin(open), m, side, pair) => JoinedOn(Begin(open))
  BY Zenon DEF JoinedOn
<1>5. \A items, id0, id1 : \A q \in Fuse(AST, id0, id1) :
        Then(Commit(SetTop(open, q)), items, call.from) => ThenOn(Commit(SetTop(open, q)))
  BY Zenon DEF ThenOn
<1>. QED BY <1>1, <1>2, <1>3, <1>4, <1>5, ZenonT(60) DEF Settled

LEMMA FissionFuseStepsShape ==
  ASSUME Shape,
         \/ TryFission \/ \E decided \in BOOLEAN : FissionStep(decided)
         \/ TryFuse \/ \E decided \in BOOLEAN : FuseStep(decided)
         \/ JoinStep \/ FissionFuseDone
  PROVE  Shape'
<1>1. ASSUME NEW stack, NEW items, NEW from, Then(stack, items, from), IsOne(stack)
      PROVE  Shape'
  BY <1>1, FissionFuseShape DEF Then
<1>2. ASSUME NEW op, NEW t \in Tasks(op)
      PROVE  IsOne(open)
  BY <1>2 DEF Tasks, Shape, Tries
<1>3. CASE TryFission
  BY <1>1, <1>2, <1>3 DEF TryFission
<1>4. ASSUME NEW decided \in BOOLEAN, FissionStep(decided)
      PROVE  Shape'
  <2>1. IsOne(open)
    BY <1>2, <1>4, FissionOutcome
  <2>2. IsOne(Abort(Begin(open))) /\ \A q : IsOne(Commit(SetTop(Begin(open), q)))
    BY <2>1, TrialStacks
  <2>. QED BY <1>1, <1>4, <2>1, <2>2, FissionOutcome DEF ThenOn
<1>5. CASE TryFuse
  BY <1>1, <1>2, <1>5 DEF TryFuse
<1>6. ASSUME NEW decided \in BOOLEAN, FuseStep(decided)
      PROVE  Shape'
  <2>1. IsOne(open)
    BY <1>2, <1>6, FuseOutcome
  <2>2. IsTwo(Begin(open))
    BY <2>1, TrialStacks
  <2>3. IsThree(Begin(Begin(open)))
    BY <2>2, TwoOps, Tuples
  <2>4. CASE ThenOn(open)
    BY <1>1, <2>1, <2>4 DEF ThenOn
  <2>5. CASE JoinedOn(Begin(Begin(open)))
    BY <2>3, <2>5, JoinedShape DEF JoinedOn
  <2>. QED BY <1>6, <2>4, <2>5, FuseOutcome
<1>7. CASE JoinStep
  <2>1. IsTwo(open)
    <3>1. call.op = "autoFissionFuse" /\ call.trial # <<>>
      BY <1>7, JoinOutcome DEF JoinTrial
    <3>. QED BY <3>1 DEF Shape, Tries
  <2>2. IsOne(Abort(open)) /\ IsThree(Begin(open)) /\ \A q : IsOne(Commit(SetTop(open, q)))
    BY <2>1, TriedStacks
  <2>3. CASE JoinedOn(Begin(open))
    BY <2>2, <2>3, JoinedShape DEF JoinedOn
  <2>. QED BY <1>1, <1>7, <2>2, <2>3, JoinOutcome DEF ThenOn
<1>8. CASE FissionFuseDone
  BY <1>8, EndShape DEF FissionFuseDone, Shape, Tries
<1>. QED BY <1>3, <1>4, <1>5, <1>6, <1>7, <1>8

\* A user calls what autoSchedule calls too, and that on a schedule that has returned.
LEMMA AskedOne ==
  ASSUME Shape, NEW op, Asked(op)
  PROVE  IsOne(open) /\ (op \in {"moveTo", "fuse"} => Has0)
<1>1. Has0 => IsOne(open)
  BY DEF Has0, IsOne
<1>. QED BY <1>1 DEF Asked, Shape, Closed

LEMMA StepShape ==
  ASSUME Shape, [Next]_vars
  PROVE  Shape'
<1>1. ASSUME Asked("moveTo"), NEW s, NEW side, NEW d, MoveTo(s, side, d)
      PROVE  Shape'
  <2>1. open' = Begin(open) /\ call' = MoveCall(Move(s, side, d), <<>>) /\ begun' = begun
    BY <1>1 DEF MoveTo, Continue
  <2>2. call'.op = "moveTo" /\ call'.m = Move(s, side, d) /\ call'.caller = <<>>
    BY <2>1 DEF MoveCall
  <2>3. open = <<begun>>
    BY <1>1, AskedOne DEF Has0
  <2>4. open' = <<begun, begun>>
    BY <2>1, <2>3, OneOps, Tuples
  <2>5. IsTwo(open') /\ open'[1] = begun'
    BY <2>1, <2>4, Tuples
  <2>6. Moves'
    BY <2>1, <2>2, <2>5 DEF Moves
  <2>. QED BY <2>2, <2>6 DEF Shape
<1>2. CASE MoveStep
  BY <1>2, MoveStepShape
<1>3. CASE Asked("fuse") /\ \E l \in AllLoops(AST) : FuseNext(l)
  BY <1>3, AskedOne, FuseNextShape
<1>4. CASE Asked("autoReorder") /\ AutoReorder
  BY <1>4, AskedOne, ReorderShape DEF AutoReorder
<1>5. CASE ReorderStep
  BY <1>5, ReorderStepShape
<1>6. CASE Asked("autoParallelize") /\ AutoParallelize
  BY <1>6, AskedOne, ParallelizeShape DEF AutoParallelize
<1>7. CASE CountMerges \/ DropMerges \/ MergeLoops \/ ParallelizeLoop \/ ParallelizeDone
  BY <1>7, ParallelizeStepsShape
<1>8. CASE Asked("autoFissionFuse") /\ AutoFissionFuse
  BY <1>8, AskedOne, FissionFuseShape DEF AutoFissionFuse
<1>9. CASE \/ TryFission \/ \E decided \in BOOLEAN : FissionStep(decided)
           \/ TryFuse \/ \E decided \in BOOLEAN : FuseStep(decided)
           \/ JoinStep \/ FissionFuseDone
  BY <1>9, FissionFuseStepsShape
<1>10. CASE UNCHANGED vars
  BY <1>10 DEF vars, Shape, Has0, Moves, Tries, Closed, IsOne, IsTwo, IsThree, Pending
<1>. QED BY <1>1, <1>2, <1>3, <1>4, <1>5, <1>6, <1>7, <1>8, <1>9, <1>10 DEF Next

LEMMA SpecShape == Spec => []Shape
<1>1. Init => Shape
  BY DEF Init, Shape, Has0
<1>2. Shape /\ [Next]_vars => Shape'
  BY StepShape
<1>. QED BY <1>1, <1>2, PTL DEF Spec

\* A schedule that is made of schedules is a transaction (schedule.h:149): when it
\* has returned or has thrown InvalidSchedule, all that it, or what it calls, has
\* opened is closed, and after InvalidSchedule the program is the one it was.  It
\* holds of every program and of whatever the schedules it is made of may do,
\* but for fuse, which leaves its transaction open when the inner fuse throws.
THEOREM TransactionalTheorem ==
  ASSUME "open" \notin Gaps
  PROVE  Spec => []Transactional
<1>1. Shape => Transactional
  <2>1. IsOne(open) => Len(open) = 1
    BY DEF IsOne
  <2>2. Has0 => IsOne(open) /\ AST = begun
    BY Tuples, OneOps DEF Has0, AST
  <2>. QED BY <2>1, <2>2 DEF Shape, Closed, Transactional, Balanced, Restored, Ended
<1>. QED BY <1>1, SpecShape, PTL

(***************************************************************************)
(* Data: what programs the transactions hold.                              *)
(***************************************************************************)
\* A set of programs that the schedules do not leave.  What merge makes counts
\* only once it is parallelized, and reorder only on nests it does not misjudge.
Keeps(K) ==
  \A p \in K :
    /\ \A order : Swap(p, order) \subseteq K
    /\ \A loop, at, before, suffixes : Fission(p, loop, at, before, suffixes) \subseteq K
    /\ \A loop0, loop1 : Fuse(p, loop0, loop1) \subseteq K
    /\ \A loop : Parallelize(p, loop) \subseteq K
    /\ \A root, inner : \A q \in Merge(p, root, inner) : Parallelize(q, MergedPair(root, inner)) \subseteq K
    /\ ~Odd(p) => \A nest : \A q \in Reorder(p, nest) : q \in K /\ ~Odd(q)

\* What is tried is to parallelize a loop as it is, or one that was just merged.
Promised(t, p, q) ==
  IF t.level = 2 THEN \E root, inner : q \in Merge(p, root, inner) /\ t.loop = MergedPair(root, inner) ELSE q = p
Within(K) ==
  /\ open[1] \in K
  /\ call.op = "autoReorder" => ~Odd(open[1])
  /\ IF call.op = "autoParallelize" THEN \A t \in Trial("parallelize") : Promised(t, open[1], open[2])
     ELSE \A n \in DOMAIN open : open[n] \in K

LEMMA AllIn ==
  ASSUME NEW K
  PROVE  /\ \A a : a \in K => \A n \in DOMAIN <<a>> : <<a>>[n] \in K
         /\ \A a, b : a \in K /\ b \in K => \A n \in DOMAIN <<a, b>> : <<a, b>>[n] \in K
         /\ \A a, b, c : a \in K /\ b \in K /\ c \in K => \A n \in DOMAIN <<a, b, c>> : <<a, b, c>>[n] \in K
OBVIOUS

LEMMA MoveOnceIn ==
  ASSUME NEW K, Keeps(K), NEW p \in K, NEW m, NEW r \in MoveOnce(p, m)
  PROVE  r.ast \in K
<1>1. \A q, n, how : Stepped(q, n, how).ast = q
  BY DEF Stepped
<1>2. ASSUME NEW dir, NEW x \in SwapPast(p, m, dir)
      PROVE  x.ast \in K
  <2>1. \E order : x \in {Stepped(q, m, "on") : q \in Swap(p, order)}
    BY <1>2, Zenon DEF SwapPast
  <2>. QED BY <1>1, <2>1 DEF Keeps
<1>3. ASSUME NEW dir, NEW l, NEW x \in Leave(p, m, l, dir)
      PROVE  x.ast \in K
  <2>. DEFINE suffix == Suffix(p, l, "move")
              suffixes == IF dir = -1 THEN <<suffix, "">> ELSE <<"", suffix>>
              new == [stmt |-> Append(l, suffix), body |-> Append(m.stmt, suffix), side |-> m.side, dst |-> m.dst]
              results == Fission(p, l, m.stmt, dir = 1, suffixes)
  <2>1. x \in {Stepped(q, new, IF Exists(q, new.stmt) THEN "on" ELSE "error") : q \in results}
    BY <1>3, Zenon DEF Leave
  <2>2. results \subseteq K
    BY Zenon DEF Keeps
  <2>. HIDE DEF new, results
  <2>. QED BY <1>1, <2>1, <2>2
<1>4. ASSUME NEW dir, NEW x \in Go(p, m, dir)
      PROVE  x.ast \in K
  BY <1>1, <1>2, <1>3, <1>4 DEF Go
<1>5. ASSUME NEW dir, NEW x \in OrInvalid(Go(p, m, dir), p, m)
      PROVE  x.ast \in K
  BY <1>1, <1>4, <1>5 DEF OrInvalid
<1>. QED BY <1>1, <1>5 DEF MoveOnce

\* A step that leaves all open transactions in K.
LEMMA WithinAll ==
  ASSUME NEW K, NEW stack, NEW frame, Continue(stack, frame), frame.op \notin {"autoReorder", "autoParallelize"},
         \A n \in DOMAIN stack : stack[n] \in K, IsOne(stack) \/ IsTwo(stack) \/ IsThree(stack)
  PROVE  Within(K)'
<1>1. stack[1] \in K
  BY DEF IsOne, IsTwo, IsThree
<1>. QED BY <1>1 DEF Within, Continue

LEMMA WithinEnd ==
  ASSUME NEW K, NEW stack, NEW how, End(how, stack),
         \A n \in DOMAIN stack : stack[n] \in K, IsOne(stack) \/ IsTwo(stack) \/ IsThree(stack)
  PROVE  Within(K)'
<1>1. stack[1] \in K
  BY DEF IsOne, IsTwo, IsThree
<1>2. call'.op = "ended" /\ open' = stack
  BY DEF End
<1>. QED BY <1>1, <1>2 DEF Within

\* The stacks of a transaction, by what they are made of.
LEMMA StackIn ==
  ASSUME NEW K, NEW s, \A n \in DOMAIN s : s[n] \in K, NEW q \in K
  PROVE  /\ IsOne(s) => /\ Top(s) \in K
                        /\ IsTwo(Begin(s)) /\ \A n \in DOMAIN Begin(s) : Begin(s)[n] \in K
                        /\ IsOne(SetTop(s, q)) /\ \A n \in DOMAIN SetTop(s, q) : SetTop(s, q)[n] \in K
         /\ IsTwo(s) => /\ Top(s) \in K
                        /\ IsThree(Begin(s)) /\ \A n \in DOMAIN Begin(s) : Begin(s)[n] \in K
                        /\ IsTwo(SetTop(s, q)) /\ \A n \in DOMAIN SetTop(s, q) : SetTop(s, q)[n] \in K
                        /\ IsOne(Abort(s)) /\ \A n \in DOMAIN Abort(s) : Abort(s)[n] \in K
                        /\ IsOne(Commit(s)) /\ \A n \in DOMAIN Commit(s) : Commit(s)[n] \in K
         /\ IsThree(s) => /\ Top(s) \in K
                          /\ IsThree(SetTop(s, q)) /\ \A n \in DOMAIN SetTop(s, q) : SetTop(s, q)[n] \in K
                          /\ IsTwo(Abort(s)) /\ \A n \in DOMAIN Abort(s) : Abort(s)[n] \in K
                          /\ IsTwo(Commit(s)) /\ \A n \in DOMAIN Commit(s) : Commit(s)[n] \in K
<1>1. CASE IsOne(s)
  <2>1. s[1] \in K
    BY <1>1 DEF IsOne
  <2>2. Top(s) = s[1] /\ Begin(s) = <<s[1], s[1]>> /\ SetTop(s, q) = <<q>>
    BY <1>1, OneOps
  <2>3. ~IsTwo(s) /\ ~IsThree(s)
    BY <1>1 DEF IsOne, IsTwo, IsThree
  <2>. QED BY <2>1, <2>2, <2>3, Tuples, AllIn
<1>2. CASE IsTwo(s)
  <2>1. s[1] \in K /\ s[2] \in K
    BY <1>2 DEF IsTwo
  <2>2. /\ Top(s) = s[2] /\ Begin(s) = <<s[1], s[2], s[2]>> /\ SetTop(s, q) = <<s[1], q>>
        /\ Abort(s) = <<s[1]>> /\ Commit(s) = <<s[2]>>
    BY <1>2, TwoOps
  <2>3. ~IsOne(s) /\ ~IsThree(s)
    BY <1>2 DEF IsOne, IsTwo, IsThree
  <2>. QED BY <2>1, <2>2, <2>3, Tuples, AllIn
<1>3. CASE IsThree(s)
  <2>1. s[1] \in K /\ s[2] \in K /\ s[3] \in K
    BY <1>3 DEF IsThree
  <2>2. /\ Top(s) = s[3] /\ SetTop(s, q) = <<s[1], s[2], q>>
        /\ Abort(s) = <<s[1], s[2]>> /\ Commit(s) = <<s[1], s[3]>>
    BY <1>3, ThreeOps
  <2>3. ~IsOne(s) /\ ~IsTwo(s)
    BY <1>3 DEF IsOne, IsTwo, IsThree
  <2>. QED BY <2>1, <2>2, <2>3, Tuples, AllIn
<1>. QED BY <1>1, <1>2, <1>3

LEMMA MoveStepWithin ==
  ASSUME NEW K, Keeps(K), Shape, Within(K), MoveStep
  PROVE  Within(K)'
<1>1. PICK r \in MoveOnce(AST, call.m) :
        \/ r.how = "on" /\ Continue(SetTop(open, r.ast), MoveCall(r.m, call.caller))
        \/ r.how = "returned" /\ MoveEnds("returned", Commit(open))
        \/ r.how = "invalid" /\ MoveEnds("invalid", Abort(open))
        \/ r.how = "error" /\ End("error", SetTop(open, r.ast))
  BY DEF MoveStep
<1>2. Moves /\ (IsTwo(open) \/ IsThree(open))
  BY DEF Shape, MoveStep, Moves
<1>3. (\A n \in DOMAIN open : open[n] \in K) /\ open[1] \in K
  BY DEF Within, MoveStep
<1>4. AST \in K
  BY <1>2, <1>3, StackIn DEF AST
<1>5. r.ast \in K
  BY <1>1, <1>4, MoveOnceIn
<1>. DEFINE Good(stack) ==
       (\A n \in DOMAIN stack : stack[n] \in K) /\ (IsOne(stack) \/ IsTwo(stack) \/ IsThree(stack))
<1>6. Good(SetTop(open, r.ast)) /\ Good(Commit(open)) /\ Good(Abort(open))
  BY <1>2, <1>3, <1>5, StackIn
<1>7. ASSUME NEW how, NEW stack, MoveEnds(how, stack), Good(stack)
      PROVE  Within(K)'
  <2>1. CASE call.caller = <<>>
    BY <1>7, <2>1, WithinEnd DEF MoveEnds
  <2>2. CASE call.caller # <<>>
    <3>. DEFINE f == [call.caller[1] EXCEPT !.moved = <<[how |-> how, m |-> call.m]>>]
    <3>1. Continue(stack, f)
      BY <1>7, <2>2 DEF MoveEnds
    <3>2. Pending(call.caller[1])
      BY <1>2, <2>2 DEF Moves
    <3>3. f.op = "autoFissionFuse"
      BY <3>2 DEF Pending, FissionFuseCall
    <3>. HIDE DEF f
    <3>. QED BY <1>7, <3>1, <3>3, WithinAll
  <2>. QED BY <2>1, <2>2
<1>8. MoveCall(r.m, call.caller).op = "moveTo"
  BY DEF MoveCall
<1>. HIDE DEF Good
<1>9. ASSUME Continue(SetTop(open, r.ast), MoveCall(r.m, call.caller))
      PROVE  Within(K)'
  BY <1>6, <1>8, <1>9, WithinAll DEF Good
<1>10. ASSUME End("error", SetTop(open, r.ast))
       PROVE  Within(K)'
  BY <1>6, <1>10, WithinEnd DEF Good
<1>. QED BY <1>1, <1>6, <1>7, <1>9, <1>10

LEMMA FuseNextWithin ==
  ASSUME NEW K, Keeps(K), Has0, \A n \in DOMAIN open : open[n] \in K, NEW loop, FuseNext(loop)
  PROVE  Within(K)'
<1>1. IsOne(open) /\ open[1] \in K
  BY Tuples DEF Has0
<1>2. AST \in K /\ IsTwo(Begin(open)) /\ \A n \in DOMAIN Begin(open) : Begin(open)[n] \in K
  BY <1>1, StackIn DEF AST
<1>3. IsOne(Abort(Begin(open))) /\ \A n \in DOMAIN Abort(Begin(open)) : Abort(Begin(open))[n] \in K
  BY <1>1, <1>2, StackIn
<1>4. ASSUME NEW q \in K
      PROVE  /\ IsOne(Commit(SetTop(Begin(open), q)))
             /\ \A n \in DOMAIN Commit(SetTop(Begin(open), q)) : Commit(SetTop(Begin(open), q))[n] \in K
  <2>1. IsTwo(SetTop(Begin(open), q)) /\ \A n \in DOMAIN SetTop(Begin(open), q) : SetTop(Begin(open), q)[n] \in K
    BY <1>2, StackIn
  <2>. QED BY <1>1, <2>1, StackIn
<1>5. \A id : \A q \in Fuse(AST, loop, id) : q \in K
  BY <1>2 DEF Keeps
<1>6. CASE End("invalid", Abort(Begin(open)))
  BY <1>3, <1>6, WithinEnd
<1>7. CASE End("invalid", Begin(open))
  BY <1>2, <1>7, WithinEnd
<1>8. ASSUME NEW q \in K, End("returned", Commit(SetTop(Begin(open), q)))
      PROVE  Within(K)'
  BY <1>4, <1>8, WithinEnd
<1>. QED BY <1>5, <1>6, <1>7, <1>8 DEF FuseNext

LEMMA ReorderStepWithin ==
  ASSUME NEW K, Keeps(K), Shape, Within(K), ReorderStep
  PROVE  Within(K)'
<1>1. IsOne(open) /\ open[1] \in K /\ ~Odd(open[1]) /\ \A n \in DOMAIN open : open[n] \in K
  BY DEF Shape, ReorderStep, Within
<1>2. AST = open[1]
  BY <1>1, OneOps DEF AST
<1>3. CASE End("returned", open)
  BY <1>1, <1>3, WithinEnd
<1>4. ASSUME NEW nest, NEW level, NEW todo, NEW q \in Reordered(AST, nest, call.level),
             Continue(SetTop(open, q), ReorderCall(level, todo))
      PROVE  Within(K)'
  <2>1. q \in K /\ ~Odd(q)
    BY <1>1, <1>2, <1>4 DEF Reordered, Keeps
  <2>2. SetTop(open, q) = <<q>>
    BY <1>1, OneOps
  <2>3. open' = <<q>> /\ call'.op = "autoReorder"
    BY <1>4, <2>2 DEF Continue, ReorderCall
  <2>. QED BY <2>1, <2>3, AllIn DEF Within
<1>. QED BY <1>3, <1>4 DEF ReorderStep

LEMMA ParallelizeWithin ==
  ASSUME NEW K, NEW stack, NEW todo, NEW trial, Continue(stack, ParallelizeCall(todo, trial)),
         stack[1] \in K,
         trial = <<>> \/ trial[1].op # "parallelize" \/ Promised(trial[1], stack[1], stack[2])
  PROVE  Within(K)'
<1>1. open' = stack /\ call'.op = "autoParallelize" /\ call'.trial = trial
  BY DEF Continue, ParallelizeCall
<1>2. \A t \in Trial("parallelize")' : Promised(t, stack[1], stack[2])
  BY <1>1 DEF Trial
<1>. QED BY <1>1, <1>2 DEF Within

LEMMA ParallelizeStepsWithin ==
  ASSUME NEW K, Keeps(K), Shape, Within(K),
         CountMerges \/ DropMerges \/ MergeLoops \/ ParallelizeLoop \/ ParallelizeDone
  PROVE  Within(K)'
<1>1. ASSUME NEW stack, NEW t, Begun(stack, t), stack[1] \in K,
             t.op # "parallelize" \/ Promised(t, stack[1], stack[2])
      PROVE  Within(K)'
  BY <1>1, ParallelizeWithin DEF Begun
<1>2. ASSUME NEW stack, NEW items, Instead(stack, items), stack[1] \in K
      PROVE  Within(K)'
  BY <1>2, ParallelizeWithin DEF Instead
<1>3. open[1] \in K
  BY DEF Within
<1>4. ASSUME NEW op, NEW t \in Visited(op)
      PROVE  IsOne(open) /\ AST = open[1]
  BY <1>4, OneOps DEF Visited, Shape, Tries, AST
<1>5. ASSUME NEW op, NEW t \in Trial(op)
      PROVE  IsTwo(open) /\ AST = open[2]
  BY <1>5, TwoOps DEF Trial, Shape, Tries, AST
<1>6. ASSUME IsOne(open)
      PROVE  Begin(open) = <<open[1], open[1]>> /\ \A q : SetTop(Begin(open), q) = <<open[1], q>>
  <2>1. Begin(open) = <<open[1], open[1]>>
    BY <1>6, OneOps
  <2>2. IsTwo(Begin(open)) /\ Begin(open)[1] = open[1]
    BY <2>1, Tuples
  <2>. QED BY <2>1, <2>2, TwoOps
<1>7. CASE CountMerges
  <2>1. PICK t \in Visited("count") : \E c \in Counted(AST, t.root) :
               Begun(SetTop(Begin(open), c[2]), Dropping(c[1]))
    BY <1>7 DEF CountMerges
  <2>2. PICK c : Begun(SetTop(Begin(open), c[2]), Dropping(c[1]))
    BY <2>1
  <2>3. SetTop(Begin(open), c[2])[1] = open[1]
    BY <1>4, <1>6, <2>1
  <2>4. Dropping(c[1]).op # "parallelize"
    BY DEF Dropping
  <2>. QED BY <1>1, <1>3, <2>2, <2>3, <2>4
<1>8. CASE DropMerges
  <2>1. PICK t \in Trial("drop") : \E items : Instead(Abort(open), items)
    BY <1>8 DEF DropMerges
  <2>2. Abort(open)[1] = open[1]
    BY <1>5, <2>1, TwoOps
  <2>. QED BY <1>2, <1>3, <2>1, <2>2
<1>9. CASE MergeLoops
  <2>1. PICK t \in Visited("merge") :
          \/ \E q \in MergeInner(AST, t.root) :
               Begun(SetTop(Begin(open), q), Trying(2, MergedPair(t.root, InnerLoops(AST, t.root)[1])))
          \/ Begun(Begin(open), Trying(1, t.root))
          \/ \E items : Instead(open, items)
    BY <1>9 DEF MergeLoops
  <2>2. AST = open[1] /\ Begin(open) = <<open[1], open[1]>> /\ \A q : SetTop(Begin(open), q) = <<open[1], q>>
    BY <1>4, <1>6, <2>1
  <2>3. ASSUME NEW q \in MergeInner(AST, t.root),
               Begun(SetTop(Begin(open), q), Trying(2, MergedPair(t.root, InnerLoops(AST, t.root)[1])))
        PROVE  Within(K)'
    <3>. DEFINE u == Trying(2, MergedPair(t.root, InnerLoops(AST, t.root)[1]))
                stack == SetTop(Begin(open), q)
    <3>1. u.level = 2 /\ u.loop = MergedPair(t.root, InnerLoops(AST, t.root)[1])
      BY DEF Trying
    <3>2. q \in Merge(open[1], t.root, InnerLoops(AST, t.root)[1])
      BY <2>2, <2>3 DEF MergeInner
    <3>3. stack[1] = open[1] /\ stack[2] = q
      BY <2>2
    <3>4. Promised(u, stack[1], stack[2])
      BY <3>1, <3>2, <3>3 DEF Promised
    <3>. HIDE DEF u, stack
    <3>5. Begun(stack, u)
      BY <2>3 DEF u, stack
    <3>. QED BY <1>1, <1>3, <3>3, <3>4, <3>5
  <2>4. ASSUME Begun(Begin(open), Trying(1, t.root))
        PROVE  Within(K)'
    <3>1. Trying(1, t.root).level = 1
      BY DEF Trying
    <3>2. Begin(open)[1] = open[1] /\ Begin(open)[2] = open[1]
      BY <2>2
    <3>3. Promised(Trying(1, t.root), Begin(open)[1], Begin(open)[2])
      BY <3>1, <3>2 DEF Promised
    <3>. QED BY <1>1, <1>3, <2>4, <3>2, <3>3
  <2>. QED BY <1>2, <1>3, <2>1, <2>3, <2>4
<1>10. CASE ParallelizeLoop
  <2>1. PICK t \in Trial("parallelize") :
          \/ \E q \in Parallelize(AST, t.loop) : Instead(Commit(SetTop(open, q)), <<>>)
          \/ \E items : Instead(Abort(open), items)
    BY <1>10 DEF ParallelizeLoop
  <2>2. IsTwo(open) /\ AST = open[2]
    BY <1>5, <2>1
  <2>3. Abort(open)[1] = open[1]
    BY <2>2, TwoOps
  <2>4. Promised(t, open[1], open[2])
    BY <2>1 DEF Within, Trial
  <2>5. Parallelize(AST, t.loop) \subseteq K
    <3>1. CASE t.level = 2
      BY <1>3, <2>2, <2>4, <3>1 DEF Promised, Keeps
    <3>2. CASE t.level # 2
      BY <1>3, <2>2, <2>4, <3>2 DEF Promised, Keeps
    <3>. QED BY <3>1, <3>2
  <2>6. ASSUME NEW q
        PROVE  Commit(SetTop(open, q))[1] = q
    <3>1. SetTop(open, q) = <<open[1], q>>
      BY <2>2, TwoOps
    <3>2. IsTwo(SetTop(open, q)) /\ SetTop(open, q)[2] = q
      BY <3>1, Tuples
    <3>. QED BY <3>2, TwoOps
  <2>. QED BY <1>2, <1>3, <2>1, <2>3, <2>5, <2>6
<1>11. CASE ParallelizeDone
  <2>1. IsOne(open)
    BY <1>11 DEF ParallelizeDone, Shape, Tries
  <2>2. \A n \in DOMAIN open : open[n] \in K
    BY <1>3, <2>1, AllIn DEF IsOne
  <2>. QED BY <1>11, <2>1, <2>2, WithinEnd DEF ParallelizeDone
<1>. QED BY <1>7, <1>8, <1>9, <1>10, <1>11

LEMMA FissionFuseStepsWithin ==
  ASSUME NEW K, Keeps(K), Shape, Within(K),
         \/ TryFission \/ \E decided \in BOOLEAN : FissionStep(decided)
         \/ TryFuse \/ \E decided \in BOOLEAN : FuseStep(decided)
         \/ JoinStep \/ FissionFuseDone
  PROVE  Within(K)'
<1>. DEFINE Good(stack) ==
       (\A n \in DOMAIN stack : stack[n] \in K) /\ (IsOne(stack) \/ IsTwo(stack) \/ IsThree(stack))
<1>1. ASSUME NEW stack, NEW items, NEW from, Then(stack, items, from), Good(stack)
      PROVE  Within(K)'
  <2>1. \A todo : FissionFuseCall(from, todo, <<>>).op = "autoFissionFuse"
    BY DEF FissionFuseCall
  <2>. QED BY <1>1, <2>1, WithinAll DEF Then
<1>2. ASSUME NEW stack, NEW m, NEW side, NEW pair, Joined(stack, m, side, pair), Good(stack)
      PROVE  Within(K)'
  <2>1. \A caller : MoveCall(m, caller).op = "moveTo"
    BY DEF MoveCall
  <2>. QED BY <1>2, <2>1, WithinAll DEF Joined
<1>3. call.op = "autoFissionFuse" /\ Tries /\ open[1] \in K /\ \A n \in DOMAIN open : open[n] \in K
  <2>1. call.op = "autoFissionFuse"
    BY FissionOutcome, FuseOutcome, JoinOutcome DEF TryFission, TryFuse, FissionFuseDone, Tasks, JoinTrial
  <2>. QED BY <2>1 DEF Shape, Within
<1>4. ASSUME NEW op, NEW t \in Tasks(op)
      PROVE  IsOne(open)
  BY <1>3, <1>4 DEF Tasks, Tries
<1>5. ASSUME IsOne(open)
      PROVE  /\ Good(open) /\ AST \in K /\ Good(Abort(Begin(open))) /\ Good(Begin(Begin(open)))
             /\ \A q \in K : Good(Commit(SetTop(Begin(open), q)))
  <2>1. AST \in K /\ IsTwo(Begin(open)) /\ \A n \in DOMAIN Begin(open) : Begin(open)[n] \in K
    BY <1>3, <1>5, StackIn DEF AST
  <2>2. Good(Abort(Begin(open))) /\ Good(Begin(Begin(open)))
    BY <1>3, <2>1, StackIn
  <2>3. ASSUME NEW q \in K
        PROVE  Good(Commit(SetTop(Begin(open), q)))
    <3>1. IsTwo(SetTop(Begin(open), q)) /\ \A n \in DOMAIN SetTop(Begin(open), q) : SetTop(Begin(open), q)[n] \in K
      BY <2>1, StackIn
    <3>. QED BY <1>3, <3>1, StackIn
  <2>. QED BY <1>3, <1>5, <2>1, <2>2, <2>3
<1>6. ASSUME IsTwo(open)
      PROVE  /\ AST \in K /\ Good(Abort(open)) /\ Good(Begin(open))
             /\ \A q \in K : Good(Commit(SetTop(open, q)))
  <2>1. AST \in K /\ Good(Abort(open)) /\ Good(Begin(open))
    BY <1>3, <1>6, StackIn DEF AST
  <2>2. ASSUME NEW q \in K
        PROVE  Good(Commit(SetTop(open, q)))
    <3>1. IsTwo(SetTop(open, q)) /\ \A n \in DOMAIN SetTop(open, q) : SetTop(open, q)[n] \in K
      BY <1>3, <1>6, StackIn
    <3>. QED BY <1>3, <3>1, StackIn
  <2>. QED BY <2>1, <2>2
<1>. HIDE DEF Good
<1>7. CASE TryFission
  BY <1>1, <1>4, <1>5, <1>7 DEF TryFission
<1>8. ASSUME NEW decided \in BOOLEAN, FissionStep(decided)
      PROVE  Within(K)'
  <2>1. IsOne(open)
    BY <1>4, <1>8, FissionOutcome
  <2>2. \A loop, at, before, suffixes : Fission(AST, loop, at, before, suffixes) \subseteq K
    BY <1>5, <2>1 DEF Keeps
  <2>3. \A stack : Good(stack) /\ ThenOn(stack) => Within(K)'
    BY <1>1 DEF ThenOn
  <2>. QED BY <1>5, <1>8, <2>1, <2>2, <2>3, FissionOutcome
<1>9. CASE TryFuse
  BY <1>1, <1>4, <1>5, <1>9 DEF TryFuse
<1>10. ASSUME NEW decided \in BOOLEAN, FuseStep(decided)
       PROVE  Within(K)'
  <2>1. IsOne(open)
    BY <1>4, <1>10, FuseOutcome
  <2>2. Good(open) /\ Good(Begin(Begin(open)))
    BY <1>5, <2>1
  <2>3. CASE ThenOn(open)
    BY <1>1, <2>2, <2>3 DEF ThenOn
  <2>4. CASE JoinedOn(Begin(Begin(open)))
    BY <1>2, <2>2, <2>4 DEF JoinedOn
  <2>. QED BY <1>10, <2>3, <2>4, FuseOutcome
<1>11. CASE JoinStep
  <2>1. IsTwo(open)
    BY <1>3, <1>11, JoinOutcome DEF JoinTrial, Tries
  <2>2. \A id0, id1 : Fuse(AST, id0, id1) \subseteq K
    BY <1>6, <2>1 DEF Keeps
  <2>3. \A stack : Good(stack) /\ ThenOn(stack) => Within(K)'
    BY <1>1 DEF ThenOn
  <2>4. CASE JoinedOn(Begin(open))
    BY <1>2, <1>6, <2>1, <2>4 DEF JoinedOn
  <2>. QED BY <1>6, <1>11, <2>1, <2>2, <2>3, <2>4, JoinOutcome
<1>12. CASE FissionFuseDone
  <2>1. IsOne(open)
    BY <1>3, <1>12 DEF FissionFuseDone, Tries
  <2>. QED BY <1>3, <1>12, <2>1, WithinEnd DEF FissionFuseDone
<1>. QED BY <1>7, <1>8, <1>9, <1>10, <1>11, <1>12

LEMMA StepWithin ==
  ASSUME NEW K, Keeps(K), "reorder" \notin Gaps, Shape, Within(K), [Next]_vars
  PROVE  Within(K)'
<1>1. ASSUME NEW op, Asked(op)
      PROVE  /\ IsOne(open) /\ AST = open[1] /\ AST \in K /\ \A n \in DOMAIN open : open[n] \in K
             /\ op \in {"moveTo", "fuse"} => Has0
  <2>1. IsOne(open) /\ (op \in {"moveTo", "fuse"} => Has0)
    BY <1>1, AskedOne
  <2>. QED BY <2>1, OneOps, AllIn DEF Within, AST, IsOne
<1>2. ASSUME Asked("moveTo"), NEW s, NEW side, NEW d, MoveTo(s, side, d)
      PROVE  Within(K)'
  <2>1. IsTwo(Begin(open)) /\ \A n \in DOMAIN Begin(open) : Begin(open)[n] \in K
    BY <1>1, <1>2, StackIn
  <2>2. MoveCall(Move(s, side, d), <<>>).op = "moveTo"
    BY DEF MoveCall
  <2>. QED BY <1>2, <2>1, <2>2, WithinAll DEF MoveTo
<1>3. CASE MoveStep
  BY <1>3, MoveStepWithin
<1>4. CASE Asked("fuse") /\ \E l \in AllLoops(AST) : FuseNext(l)
  BY <1>1, <1>4, FuseNextWithin
<1>5. CASE Asked("autoReorder") /\ AutoReorder
  <2>1. open' = open /\ call'.op = "autoReorder" /\ ~Odd(AST)
    BY <1>5 DEF AutoReorder, Continue, ReorderCall
  <2>. QED BY <1>1, <1>5, <2>1 DEF Within
<1>6. CASE ReorderStep
  BY <1>6, ReorderStepWithin
<1>7. CASE Asked("autoParallelize") /\ AutoParallelize
  BY <1>1, <1>7, ParallelizeWithin DEF AutoParallelize
<1>8. CASE CountMerges \/ DropMerges \/ MergeLoops \/ ParallelizeLoop \/ ParallelizeDone
  BY <1>8, ParallelizeStepsWithin
<1>9. CASE Asked("autoFissionFuse") /\ AutoFissionFuse
  <2>1. \A todo : FissionFuseCall(<<>>, todo, <<>>).op = "autoFissionFuse"
    BY DEF FissionFuseCall
  <2>. QED BY <1>1, <1>9, <2>1, WithinAll DEF AutoFissionFuse
<1>10. CASE \/ TryFission \/ \E decided \in BOOLEAN : FissionStep(decided)
            \/ TryFuse \/ \E decided \in BOOLEAN : FuseStep(decided)
            \/ JoinStep \/ FissionFuseDone
  BY <1>10, FissionFuseStepsWithin
<1>11. CASE UNCHANGED vars
  BY <1>11 DEF vars, Within, Trial
<1>. QED BY <1>2, <1>3, <1>4, <1>5, <1>6, <1>7, <1>8, <1>9, <1>10, <1>11 DEF Next

LEMMA SameBegun ==
  ASSUME [Next]_vars
  PROVE  begun' = begun
<1>1. \A how, stack : End(how, stack) => begun' = begun
  BY DEF End
<1>2. \A frame, stack : Continue(stack, frame) => begun' = begun
  BY DEF Continue
<1>3. \A stack : ThenOn(stack) => begun' = begun
  BY <1>2, Zenon DEF ThenOn, Then
<1>4. \A stack : JoinedOn(stack) => begun' = begun
  BY <1>2, Zenon DEF JoinedOn, Joined
<1>5. CASE (\E s, d \in Statements(AST), side \in {"Before", "After"} : MoveTo(s, side, d)) \/ MoveStep
  BY <1>1, <1>2, <1>5, Zenon DEF MoveTo, MoveStep, MoveEnds
<1>6. CASE (\E l \in AllLoops(AST) : FuseNext(l)) \/ AutoReorder \/ ReorderStep
  BY <1>1, <1>2, <1>6, Zenon DEF FuseNext, AutoReorder, ReorderStep
<1>7. CASE AutoParallelize \/ CountMerges \/ DropMerges \/ MergeLoops \/ ParallelizeLoop \/ ParallelizeDone
  <2>1. \A stack, items : Instead(stack, items) => begun' = begun
    BY <1>2, Zenon DEF Instead
  <2>2. \A stack, trial : Begun(stack, trial) => begun' = begun
    BY <1>2, Zenon DEF Begun
  <2>. QED BY <1>1, <1>2, <1>7, <2>1, <2>2, Zenon
           DEF AutoParallelize, CountMerges, DropMerges, MergeLoops, ParallelizeLoop, ParallelizeDone
<1>8. CASE AutoFissionFuse \/ TryFission \/ TryFuse \/ FissionFuseDone
  BY <1>1, <1>2, <1>8, Zenon DEF AutoFissionFuse, TryFission, TryFuse, FissionFuseDone, Then
<1>9. CASE \E decided \in BOOLEAN : FissionStep(decided) \/ FuseStep(decided)
  BY <1>3, <1>4, <1>9, FissionOutcome, FuseOutcome
<1>10. CASE JoinStep
  BY <1>3, <1>4, <1>10, JoinOutcome
<1>11. CASE UNCHANGED vars
  BY <1>11 DEF vars
<1>. QED BY <1>5, <1>6, <1>7, <1>8, <1>9, <1>10, <1>11 DEF Next

\* The programs of G that compute what b does.
Alike(G, b) == {p \in G : Computes(p) = Computes(b)}

\* Composites keep the meaning of every program, if each schedule that they are
\* made of does: what moveTo, fuse, autoReorder, autoParallelize and
\* autoFissionFuse try, undo, commit or leave open when they throw, computes in
\* every open transaction what the program computed that they were called for.
\* The transformations may be any that keep the meaning of the programs in some
\* set G and do not leave it.  Merge is not asked to, since it may not: it is
\* enough that what parallelize accepts of a merged loop is right, because
\* autoParallelize commits nothing else.
THEOREM SameMeaningTheorem ==
  ASSUME NEW G, \A c \in Programs : c[1] \in G, \A b : Keeps(Alike(G, b)), "reorder" \notin Gaps
  PROVE  Spec => []SameMeaning
<1>. DEFINE Inv == begun \in G /\ Within(Alike(G, begun))
<1>1. Init => Inv
  <2>. SUFFICES ASSUME Init PROVE Inv
    OBVIOUS
  <2>1. begun \in Alike(G, begun) /\ open = <<begun>> /\ call.op = "new" /\ begun \in G
    BY DEF Init, Alike
  <2>. QED BY <2>1, AllIn DEF Within
<1>2. Inv /\ Shape /\ [Next]_vars => Inv'
  <2>. SUFFICES ASSUME Inv, Shape, [Next]_vars PROVE Inv'
    OBVIOUS
  <2>1. PICK b : b = begun
    OBVIOUS
  <2>2. begun' = begun
    BY SameBegun
  <2>3. Within(Alike(G, b))'
    BY <2>1, StepWithin
  <2>. QED BY <2>1, <2>2, <2>3
<1>3. Inv => SameMeaning
  BY DEF Within, Alike, SameMeaning, Lasting
<1>. HIDE DEF Inv
<1>. QED BY <1>1, <1>2, <1>3, SpecShape, PTL DEF Spec

(***************************************************************************)
(* moveTo: where the statement is when no direction is left to move it in. *)
(***************************************************************************)
\* Sides and statements that moveTo is called with, and goes on with.
Fit(p, m) ==
  /\ m.side \in {"Before", "After"}
  /\ \A id \in {m.stmt, m.dst} : Exists(p, id) => id \in Statements(p)

\* Programs G in which the order is that of a tree, and which swap and fission do
\* not leave; they make no loop, branch or leaf something else.
Stays(G) ==
  \A p \in G :
    /\ Orderly(p)
    /\ \A order : \A q \in Swap(p, order) :
         q \in G /\ \A id \in Statements(p) : Exists(q, id) => id \in Statements(q)
    /\ \A loop, at, before, suffixes : \A q \in Fission(p, loop, at, before, suffixes) :
         /\ q \in G /\ \A id \in Statements(p) : Exists(q, id) => id \in Statements(q)
         /\ \A x \in {suffixes[1], suffixes[2]} :
              Exists(q, Append(loop, x)) => Append(loop, x) \in Statements(q)

LEMMA Arrived ==
  ASSUME NEW p, NEW m, Orderly(p), m.side \in {"Before", "After"}, m.stmt \in Statements(p), m.dst \in Statements(p),
         ~Moving(p, m.stmt, m, -1), ~Moving(p, m.stmt, m, 1)
  PROVE  Beside(p, m)
<1>. DEFINE s == m.stmt
            d == m.dst
<1>1. Far(-1) = "Before" /\ Far(1) = "After"
  BY DEF Far
<1>2. ~Above(p, d, s)
  BY <1>1 DEF Moving
<1>3. \A x \in Edge(p, s, m, 1) : ~Precedes(p, x, d)
  BY <1>2 DEF Moving, Beyond
<1>4. \A x \in Edge(p, s, m, -1) : ~Precedes(p, d, x)
  BY <1>2 DEF Moving, Beyond
<1>5. CASE s = d \/ Above(p, s, d)
  BY <1>5 DEF Beside
<1>6. CASE Precedes(p, s, d)
  <2>1. m.side = "Before" /\ NextTo(p, s, 1) # {}
    BY <1>1, <1>3, <1>6 DEF Edge
  <2>2. PICK x \in NextTo(p, s, 1) : ~Precedes(p, x, d)
    BY <1>1, <1>3, <2>1 DEF Edge
  <2>3. x = d \/ Above(p, x, d)
    BY <1>6, <2>2 DEF Orderly
  <2>. QED BY <2>1, <2>3 DEF Beside
<1>7. CASE Precedes(p, d, s)
  <2>1. m.side = "After" /\ NextTo(p, s, -1) # {}
    BY <1>1, <1>4, <1>7 DEF Edge
  <2>2. PICK x \in NextTo(p, s, -1) : ~Precedes(p, d, x)
    BY <1>1, <1>4, <2>1 DEF Edge
  <2>3. x = d \/ Above(p, x, d)
    BY <1>7, <2>2 DEF Orderly
  <2>. QED BY <2>1, <2>3 DEF Beside
<1>. QED BY <1>2, <1>5, <1>6, <1>7 DEF Orderly

LEMMA MoveOnceFits ==
  ASSUME NEW G, Stays(G), NEW p \in G, NEW m, Fit(p, m), NEW r \in MoveOnce(p, m)
  PROVE  /\ r.how = "on" => r.ast \in G /\ Fit(r.ast, r.m)
         /\ r.how = "returned" => Beside(p, m)
<1>1. \A q, n, how : Stepped(q, n, how).ast = q /\ Stepped(q, n, how).m = n /\ Stepped(q, n, how).how = how
  BY DEF Stepped
<1>. DEFINE Good(x) == x.how # "returned" /\ (x.how = "on" => x.ast \in G /\ Fit(x.ast, x.m))
<1>2. CASE ~Exists(p, m.stmt) \/ ~Exists(p, m.dst)
  BY <1>1, <1>2 DEF MoveOnce
<1>3. CASE Exists(p, m.stmt) /\ Exists(p, m.dst)
  <2>1. m.stmt \in Statements(p) /\ m.dst \in Statements(p)
    BY <1>3 DEF Fit
  <2>2. ASSUME NEW dir, NEW x \in SwapPast(p, m, dir)
        PROVE  Good(x)
    <3>1. PICK order : x \in {Stepped(q, m, "on") : q \in Swap(p, order)}
      BY <2>2, Zenon DEF SwapPast
    <3>2. PICK q \in Swap(p, order) : x = Stepped(q, m, "on")
      BY <3>1
    <3>3. q \in G /\ \A id \in Statements(p) : Exists(q, id) => id \in Statements(q)
      BY <3>2 DEF Stays
    <3>4. Fit(q, m)
      BY <2>1, <3>3 DEF Fit
    <3>. QED BY <1>1, <3>2, <3>3, <3>4
  <2>3. ASSUME NEW dir, NEW l, NEW x \in Leave(p, m, l, dir)
        PROVE  Good(x)
    <3>. DEFINE suffix == Suffix(p, l, "move")
                suffixes == IF dir = -1 THEN <<suffix, "">> ELSE <<"", suffix>>
                new == [stmt |-> Append(l, suffix), body |-> Append(m.stmt, suffix), side |-> m.side, dst |-> m.dst]
                results == Fission(p, l, m.stmt, dir = 1, suffixes)
    <3>1. x \in {Stepped(q, new, IF Exists(q, new.stmt) THEN "on" ELSE "error") : q \in results}
      BY <2>3, Zenon DEF Leave
    <3>2. suffix \in {suffixes[1], suffixes[2]}
      OBVIOUS
    <3>4. new.stmt = Append(l, suffix) /\ new.dst = m.dst /\ new.side = m.side
      OBVIOUS
    <3>5. \A q \in results :
            /\ q \in G /\ \A id \in Statements(p) : Exists(q, id) => id \in Statements(q)
            /\ \A y \in {suffixes[1], suffixes[2]} :
                 Exists(q, Append(l, y)) => Append(l, y) \in Statements(q)
      <4>. DEFINE at == m.stmt
                  before == (dir = 1)
      <4>1. \A q \in Fission(p, l, at, before, suffixes) :
              /\ q \in G /\ \A id \in Statements(p) : Exists(q, id) => id \in Statements(q)
              /\ \A y \in {suffixes[1], suffixes[2]} : Exists(q, Append(l, y)) => Append(l, y) \in Statements(q)
        <5>. HIDE DEF at, before, suffixes
        <5>. QED BY Zenon DEF Stays
      <4>. QED BY <4>1, Zenon
    <3>. HIDE DEF suffixes, results, new
    <3>6. \A q \in results : q \in G /\ Fit(q, new)
      BY <2>1, <3>2, <3>4, <3>5 DEF Fit
    <3>7. PICK q \in results : x = Stepped(q, new, IF Exists(q, new.stmt) THEN "on" ELSE "error")
      BY <3>1
    <3>8. x.ast = q /\ x.m = new /\ x.how \in {"on", "error"}
      BY <1>1, <3>7
    <3>. QED BY <3>6, <3>8
  <2>. HIDE DEF Good
  <2>4. ASSUME NEW n, NEW how \in {"error", "invalid"}
        PROVE  Good(Stepped(p, n, how))
    BY <1>1 DEF Good
  <2>5. ASSUME NEW dir, NEW x \in Go(p, m, dir)
        PROVE  Good(x)
    BY <2>2, <2>3, <2>4, <2>5 DEF Go
  <2>6. ASSUME NEW dir, NEW x \in OrInvalid(Go(p, m, dir), p, m)
        PROVE  Good(x)
    BY <2>4, <2>5, <2>6 DEF OrInvalid
  <2>7. CASE Moving(p, m.stmt, m, -1) \/ Moving(p, m.stmt, m, 1)
    <3>1. Good(r)
      BY <1>3, <2>6, <2>7 DEF MoveOnce
    <3>. QED BY <3>1 DEF Good
  <2>8. CASE ~Moving(p, m.stmt, m, -1) /\ ~Moving(p, m.stmt, m, 1)
    <3>1. r = Stepped(p, m, "returned")
      BY <1>3, <2>8 DEF MoveOnce
    <3>2. Beside(p, m)
      BY <2>1, <2>8, Arrived DEF Stays, Fit
    <3>. QED BY <1>1, <3>1, <3>2
  <2>. QED BY <2>7, <2>8
<1>. QED BY <1>2, <1>3

Going(G) ==
  /\ begun \in G /\ (call.op = "new" => AST = begun)
  /\ call.op = "moveTo" /\ call.caller = <<>> => AST \in G /\ Fit(AST, call.m)
  /\ Moved

LEMMA MoveStepGoing ==
  ASSUME NEW G, Stays(G), Shape, Going(G), MoveStep
  PROVE  Going(G)'
<1>1. PICK r \in MoveOnce(AST, call.m) :
        \/ r.how = "on" /\ Continue(SetTop(open, r.ast), MoveCall(r.m, call.caller))
        \/ r.how = "returned" /\ MoveEnds("returned", Commit(open))
        \/ r.how = "invalid" /\ MoveEnds("invalid", Abort(open))
        \/ r.how = "error" /\ End("error", SetTop(open, r.ast))
  BY DEF MoveStep
<1>2. Moves /\ call.op = "moveTo"
  BY DEF Shape, MoveStep
<1>3. begun' = begun
  BY <1>1 DEF MoveEnds, Continue, End
<1>4. CASE call.caller = <<>>
  <2>1. IsTwo(open) /\ AST \in G /\ Fit(AST, call.m)
    BY <1>2, <1>4 DEF Moves, IsOne, Going
  <2>2. CASE r.how = "on"
    <3>1. open' = SetTop(open, r.ast) /\ call' = MoveCall(r.m, call.caller)
      BY <1>1, <2>2 DEF Continue
    <3>2. call'.op = "moveTo" /\ call'.m = r.m
      BY <3>1 DEF MoveCall
    <3>3. open' = <<open[1], r.ast>>
      BY <2>1, <3>1, TwoOps
    <3>4. IsTwo(open') /\ open'[2] = r.ast
      BY <3>3, Tuples
    <3>5. AST' = r.ast
      BY <3>4, TwoOps DEF AST
    <3>6. r.ast \in G /\ Fit(r.ast, r.m)
      BY <1>1, <2>1, <2>2, MoveOnceFits
    <3>. QED BY <1>3, <3>2, <3>5, <3>6 DEF Going, Moved, Ended
  <2>3. CASE r.how = "returned"
    <3>1. open' = Commit(open) /\ call'.op = "ended" /\ call'.last = call
      BY <1>1, <1>4, <2>3 DEF MoveEnds, End
    <3>2. open' = <<open[2]>> /\ AST = open[2]
      BY <2>1, <3>1, TwoOps DEF AST
    <3>3. IsOne(open') /\ open'[1] = open[2]
      BY <3>2, Tuples
    <3>4. AST' = AST
      BY <3>2, <3>3, OneOps DEF AST
    <3>5. Beside(AST, call.m)
      BY <1>1, <2>1, <2>3, MoveOnceFits
    <3>6. Moved'
      BY <3>1, <3>4, <3>5 DEF Moved
    <3>. QED BY <1>3, <3>1, <3>6 DEF Going
  <2>4. CASE r.how \in {"invalid", "error"}
    <3>1. call'.op = "ended" /\ call'.how # "returned"
      BY <1>1, <1>4, <2>4 DEF MoveEnds, End
    <3>. QED BY <1>3, <3>1 DEF Going, Moved, Ended
  <2>. QED BY <1>1, <2>2, <2>3, <2>4
<1>5. CASE call.caller # <<>>
  <2>1. Pending(call.caller[1])
    BY <1>2, <1>5 DEF Moves
  <2>2. ASSUME NEW how, NEW stack, MoveEnds(how, stack)
        PROVE  call'.op = "autoFissionFuse"
    BY <1>5, <2>1, <2>2 DEF MoveEnds, Continue, Pending, FissionFuseCall
  <2>3. \/ call'.op = "autoFissionFuse"
        \/ call'.op = "moveTo" /\ call'.caller # <<>>
        \/ call'.op = "ended" /\ call'.how = "error"
    BY <1>1, <1>5, <2>2 DEF Continue, MoveCall, End
  <2>. QED BY <1>3, <2>3 DEF Going, Moved, Ended
<1>. QED BY <1>4, <1>5

\* What moveTo promises (schedule.h:545): the statement that it returns is on the
\* side of dst that was asked for, with nothing between the two but what is around
\* dst.  The loop of moveTo does not look for that: it ends when the statement is
\* to move neither up nor down.  In programs whose statements are ordered as in a
\* tree the one implies the other, whatever was swapped and fissioned on the way.
THEOREM MovedTheorem ==
  ASSUME NEW G, \A c \in Programs : c[1] \in G, Stays(G)
  PROVE  Spec => []Moved
<1>1. Init => Going(G)
  <2>. SUFFICES ASSUME Init PROVE Going(G)
    OBVIOUS
  <2>1. begun \in G /\ Has0 /\ call.op = "new"
    BY DEF Init, Has0
  <2>2. AST = begun
    BY <2>1, Tuples, OneOps DEF Has0, AST
  <2>. QED BY <2>1, <2>2 DEF Going, Moved, Ended
<1>2. Going(G) /\ Shape /\ [Next]_vars => Going(G)'
  <2>. SUFFICES ASSUME Going(G), Shape, [Next]_vars PROVE Going(G)'
    OBVIOUS
  <2>1. ASSUME Asked("moveTo"), NEW s \in Statements(AST), NEW d \in Statements(AST), NEW side \in {"Before", "After"},
               MoveTo(s, side, d)
        PROVE  Going(G)'
    <3>1. open' = Begin(open) /\ call' = MoveCall(Move(s, side, d), <<>>) /\ begun' = begun
      BY <2>1 DEF MoveTo, Continue
    <3>2. call'.op = "moveTo" /\ call'.m = Move(s, side, d)
      BY <3>1 DEF MoveCall
    <3>3. IsOne(open) /\ Has0
      BY <2>1, AskedOne
    <3>4. AST = begun /\ open' = <<begun, begun>>
      BY <3>1, <3>3, Tuples, OneOps DEF Has0, AST
    <3>5. AST' = begun
      BY <3>4, Tuples, TwoOps DEF AST
    <3>6. Fit(begun, Move(s, side, d))
      BY <2>1, <3>4 DEF Fit, Move
    <3>. QED BY <3>1, <3>2, <3>5, <3>6 DEF Going, Moved, Ended
  <2>2. CASE MoveStep
    BY <2>2, MoveStepGoing
  <2>3. ASSUME begun' = begun, call'.op \notin {"new", "ended"},
               call'.op = "moveTo" => call'.caller # <<>>
        PROVE  Going(G)'
    BY <2>3 DEF Going, Moved, Ended
  <2>4. ASSUME NEW how, NEW stack, End(how, stack), call.op # "moveTo"
        PROVE  Going(G)'
    BY <2>4 DEF End, Going, Moved
  <2>5. ASSUME NEW stack, NEW frame, Continue(stack, frame), frame.op \in {"autoReorder", "autoParallelize", "autoFissionFuse"}
        PROVE  Going(G)'
    BY <2>3, <2>5 DEF Continue
  <2>6. ASSUME NEW level, NEW todo, NEW trial, NEW from
        PROVE  /\ ReorderCall(level, todo).op = "autoReorder" /\ ParallelizeCall(todo, trial).op = "autoParallelize"
               /\ FissionFuseCall(from, todo, trial).op = "autoFissionFuse"
    BY DEF ReorderCall, ParallelizeCall, FissionFuseCall
  <2>7. CASE Asked("fuse") /\ \E l \in AllLoops(AST) : FuseNext(l)
    <3>1. call.op # "moveTo"
      BY <2>7 DEF Asked
    <3>. QED BY <2>4, <2>7, <3>1 DEF FuseNext
  <2>8. CASE Asked("autoReorder") /\ AutoReorder
    BY <2>5, <2>6, <2>8 DEF AutoReorder
  <2>9. CASE ReorderStep
    BY <2>4, <2>5, <2>6, <2>9 DEF ReorderStep
  <2>10. CASE Asked("autoParallelize") /\ AutoParallelize
    BY <2>5, <2>6, <2>10 DEF AutoParallelize
  <2>11. CASE CountMerges \/ DropMerges \/ MergeLoops \/ ParallelizeLoop \/ ParallelizeDone
    <3>1. CASE ParallelizeDone
      BY <2>4, <3>1 DEF ParallelizeDone
    <3>2. ASSUME NEW stack, NEW t, Begun(stack, t)
          PROVE  Going(G)'
      BY <2>5, <2>6, <3>2 DEF Begun
    <3>3. ASSUME NEW stack, NEW items, Instead(stack, items)
          PROVE  Going(G)'
      BY <2>5, <2>6, <3>3 DEF Instead
    <3>. QED BY <2>11, <3>1, <3>2, <3>3 DEF CountMerges, DropMerges, MergeLoops, ParallelizeLoop
  <2>12. CASE Asked("autoFissionFuse") /\ AutoFissionFuse
    BY <2>5, <2>6, <2>12 DEF AutoFissionFuse
  <2>13. ASSUME NEW stack, NEW items, NEW from, Then(stack, items, from)
         PROVE  Going(G)'
    BY <2>5, <2>6, <2>13 DEF Then
  <2>14. ASSUME NEW stack, NEW m, NEW side, NEW pair, Joined(stack, m, side, pair)
         PROVE  Going(G)'
    <3>1. PICK caller : call' = MoveCall(m, <<caller>>) /\ begun' = begun
      BY <2>14 DEF Joined, Continue
    <3>2. call'.op = "moveTo" /\ call'.caller # <<>>
      BY <3>1 DEF MoveCall
    <3>. QED BY <2>3, <3>1, <3>2
  <2>15. CASE TryFission \/ TryFuse
    BY <2>13, <2>15 DEF TryFission, TryFuse
  <2>16. ASSUME NEW decided \in BOOLEAN, FissionStep(decided) \/ FuseStep(decided)
         PROVE  Going(G)'
    BY <2>13, <2>14, <2>16, FissionOutcome, FuseOutcome DEF ThenOn, JoinedOn
  <2>17. CASE JoinStep
    BY <2>13, <2>14, <2>17, JoinOutcome DEF ThenOn, JoinedOn
  <2>18. CASE FissionFuseDone
    BY <2>4, <2>18 DEF FissionFuseDone
  <2>19. CASE UNCHANGED vars
    BY <2>19 DEF vars, Going, Moved, Ended, AST
  <2>. QED BY <2>1, <2>2, <2>7, <2>8, <2>9, <2>10, <2>11, <2>12, <2>15, <2>16, <2>17, <2>18, <2>19 DEF Next
<1>3. Going(G) => Moved
  BY DEF Going
<1>. QED BY <1>1, <1>2, <1>3, SpecShape, PTL DEF Spec

(***************************************************************************)
(* The number of barriers that a warp has passed.                          *)
(***************************************************************************)
LEMMA NextBarrier ==
  ASSUME NEW steps, NEW n \in Nat
  PROVE  /\ BarriersIn(steps, n) \in Nat
         /\ IsBarrier(steps[n + 1]) => BarriersIn(steps, n + 1) = BarriersIn(steps, n) + 1
         /\ ~IsBarrier(steps[n + 1]) => BarriersIn(steps, n + 1) = BarriersIn(steps, n)
<1>. DEFINE B(m) == {k \in 1 .. m : IsBarrier(steps[k])}
<1>1. IsFiniteSet(B(n)) /\ Cardinality(B(n)) \in Nat
  <2>1. IsFiniteSet(1 .. n)
    BY FS_Interval
  <2>. QED BY <2>1, FS_Subset, FS_CardinalityType
<1>2. n + 1 \notin B(n)
  OBVIOUS
<1>3. IsBarrier(steps[n + 1]) => B(n + 1) = B(n) \cup {n + 1}
  OBVIOUS
<1>4. ~IsBarrier(steps[n + 1]) => B(n + 1) = B(n)
  OBVIOUS
<1>. HIDE DEF B
<1>5. Cardinality(B(n) \cup {n + 1}) = Cardinality(B(n)) + 1
  BY <1>1, <1>2, FS_AddElement
<1>6. \A m : BarriersIn(steps, m) = Cardinality(B(m))
  BY DEF BarriersIn, B
<1>. QED BY <1>1, <1>3, <1>4, <1>5, <1>6

LEMMA MoreBarriers ==
  ASSUME NEW steps, NEW m \in Nat, NEW n \in Nat, m <= n
  PROVE  BarriersIn(steps, m) <= BarriersIn(steps, n)
<1>. DEFINE B(x) == {k \in 1 .. x : IsBarrier(steps[k])}
<1>1. IsFiniteSet(B(n)) /\ B(m) \subseteq B(n)
  <2>1. IsFiniteSet(1 .. n)
    BY FS_Interval
  <2>. QED BY <2>1, FS_Subset
<1>2. Cardinality(B(m)) <= Cardinality(B(n))
  BY <1>1, FS_Subset
<1>. QED BY <1>2 DEF BarriersIn

(***************************************************************************)
(* The invariant: where the warps of a launch are.                         *)
(***************************************************************************)
\* Every warp is somewhere in its code.
Places ==
  /\ phase \in Nat
  /\ phase = 0 => pc = <<>> /\ old = <<>> /\ seen = <<>>
  /\ phase > 0 =>
       /\ phase \in DOMAIN launch.phases
       /\ DOMAIN pc = DOMAIN CodeNow /\ DOMAIN seen = DOMAIN CodeNow
       /\ \A w \in DOMAIN pc : pc[w] \in 0 .. Len(CodeNow[w])
\* Warps that are in atomicUpdate are at it.
Updating == \A w \in DOMAIN old : w \in Running /\ IsAccess(Step(w)) /\ NeedsCAS(w)
\* The warps of a block have passed as many barriers.
InStep ==
  \A v, w \in DOMAIN pc : v.block = w.block => BarriersIn(CodeNow[v], pc[v]) = BarriersIn(CodeNow[w], pc[w])
\* What a warp has accessed since it flushed its memory, it has accessed since then.
Recent ==
  \A w \in DOMAIN pc : \A a \in seen[w] :
    \E m \in 1 .. pc[w] : a \in Accessed(CodeNow[w][m]) /\ \A k \in m .. pc[w] : ~IsFlush(CodeNow[w][k])
KInv == Placed(launch) /\ Places /\ Updating /\ InStep /\ Recent

LEMMA Here ==
  ASSUME KInv, NEW w \in DOMAIN pc
  PROVE  /\ phase \in Nat /\ phase > 0 /\ phase \in DOMAIN launch.phases
         /\ DOMAIN pc = DOMAIN CodeNow /\ DOMAIN seen = DOMAIN CodeNow
         /\ pc[w] \in Nat /\ pc[w] <= Len(CodeNow[w]) /\ Len(CodeNow[w]) \in Nat
         /\ DOMAIN CodeNow[w] = 1 .. Len(CodeNow[w])
         /\ Separated(CodeNow) /\ Whole(launch, phase) /\ Level(CodeNow)
         /\ w \in Running => pc[w] + 1 \in DOMAIN CodeNow[w]
<1>1. phase # 0
  BY DEF KInv, Places
<1>2. /\ phase \in Nat /\ phase > 0 /\ phase \in DOMAIN launch.phases
      /\ DOMAIN pc = DOMAIN CodeNow /\ DOMAIN seen = DOMAIN CodeNow /\ pc[w] \in 0 .. Len(CodeNow[w])
  BY <1>1 DEF KInv, Places
<1>3. Listed(CodeNow[w]) /\ Separated(CodeNow) /\ Whole(launch, phase) /\ Level(CodeNow)
  BY <1>2 DEF KInv, Placed, CodeNow
<1>. QED BY <1>2, <1>3 DEF Listed, Running

\* A step that is not a barrier keeps the warp in its block's pace.
LEMMA StepOnKeeps ==
  ASSUME KInv, NEW w \in Running, ~IsBarrier(Step(w)), StepOn(w), UNCHANGED <<launch, phase>>,
         DOMAIN seen' = DOMAIN seen
  PROVE  Placed(launch)' /\ Places' /\ InStep'
<1>1. w \in DOMAIN pc /\ pc[w] < Len(CodeNow[w])
  BY DEF Running
<1>2. CodeNow' = CodeNow /\ DOMAIN pc' = DOMAIN pc /\ pc'[w] = pc[w] + 1
      /\ \A v \in DOMAIN pc : v # w => pc'[v] = pc[v]
  BY <1>1 DEF CodeNow, StepOn
<1>3. phase \in Nat /\ phase > 0 /\ pc[w] \in Nat /\ Len(CodeNow[w]) \in Nat
  BY <1>1, Here
<1>4. \A v \in DOMAIN pc : pc[v] \in 0 .. Len(CodeNow[v])
  BY <1>3 DEF KInv, Places
<1>5. Places'
  <2>1. \A v \in DOMAIN pc' : pc'[v] \in 0 .. Len(CodeNow[v])
    BY <1>1, <1>2, <1>3, <1>4
  <2>. QED BY <1>2, <1>3, <2>1 DEF KInv, Places
<1>6. BarriersIn(CodeNow[w], pc[w] + 1) = BarriersIn(CodeNow[w], pc[w])
  BY <1>3, NextBarrier DEF Step
<1>7. \A v \in DOMAIN pc : BarriersIn(CodeNow'[v], pc'[v]) = BarriersIn(CodeNow[v], pc[v])
  BY <1>2, <1>6
<1>8. InStep'
  BY <1>2, <1>7 DEF KInv, InStep
<1>. QED BY <1>5, <1>8 DEF KInv

LEMMA AccessIsPlain ==
  ASSUME NEW step, IsAccess(step)
  PROVE  ~IsBarrier(step) /\ ~IsFlush(step)
BY DEF IsAccess, IsBarrier, IsFlush

LEMMA NoticeKeeps ==
  ASSUME KInv, NEW w \in Running, IsAccess(Step(w)), StepOn(w), Notice(w), UNCHANGED <<launch, phase>>
  PROVE  Placed(launch)' /\ Places' /\ InStep' /\ Recent'
<1>1. w \in DOMAIN pc /\ w \in DOMAIN seen /\ pc[w] \in Nat
  BY Here DEF Running
<1>2. CodeNow' = CodeNow /\ DOMAIN pc' = DOMAIN pc /\ pc'[w] = pc[w] + 1
      /\ \A v \in DOMAIN pc : v # w => pc'[v] = pc[v] /\ seen'[v] = seen[v]
  BY <1>1, Here DEF CodeNow, StepOn, Notice
<1>3. seen'[w] = seen[w] \cup Accessed(Step(w)) /\ DOMAIN seen' = DOMAIN seen
  BY <1>1 DEF Notice
<1>4. ~IsFlush(CodeNow[w][pc[w] + 1]) /\ ~IsBarrier(Step(w))
  BY AccessIsPlain DEF Step
<1>5. ASSUME NEW a \in seen'[w]
      PROVE  \E m \in 1 .. pc'[w] : a \in Accessed(CodeNow[w][m]) /\ \A k \in m .. pc'[w] : ~IsFlush(CodeNow[w][k])
  <2>1. CASE a \in seen[w]
    <3>1. PICK m \in 1 .. pc[w] : a \in Accessed(CodeNow[w][m]) /\ \A k \in m .. pc[w] : ~IsFlush(CodeNow[w][k])
      BY <1>1, <2>1 DEF KInv, Recent
    <3>2. \A k \in m .. pc[w] + 1 : k \in m .. pc[w] \/ k = pc[w] + 1
      BY <1>1
    <3>3. m \in 1 .. pc'[w] /\ \A k \in m .. pc'[w] : ~IsFlush(CodeNow[w][k])
      BY <1>1, <1>2, <1>4, <3>1, <3>2
    <3>. QED BY <3>1, <3>3
  <2>2. CASE a \in Accessed(Step(w))
    <3>1. pc'[w] \in 1 .. pc'[w] /\ a \in Accessed(CodeNow[w][pc'[w]]) /\ \A k \in pc'[w] .. pc'[w] : ~IsFlush(CodeNow[w][k])
      BY <1>1, <1>2, <1>4, <2>2 DEF Step
    <3>. QED BY <3>1
  <2>. QED BY <1>3, <1>5, <2>1, <2>2
<1>6. Recent'
  BY <1>2, <1>5 DEF KInv, Recent
<1>. QED BY <1>3, <1>4, <1>6, StepOnKeeps

\* Warps that are in atomicUpdate stay at it while others advance.
LEMMA OthersUpdate ==
  ASSUME Updating, NEW S, UNCHANGED <<launch, phase>>, DOMAIN pc' = DOMAIN pc,
         \A v \in DOMAIN pc \ S : pc'[v] = pc[v], DOMAIN old' \subseteq DOMAIN old \ S
  PROVE  Updating'
<1>1. CodeNow' = CodeNow
  BY DEF CodeNow
<1>2. \A v \in DOMAIN old' : v \in Running /\ IsAccess(Step(v)) /\ NeedsCAS(v) /\ v \in DOMAIN pc /\ pc'[v] = pc[v]
  BY DEF Updating, Running
<1>3. \A v \in DOMAIN old' : v \in Running' /\ Step(v)' = Step(v)
  BY <1>1, <1>2 DEF Running, Step
<1>. QED BY <1>2, <1>3 DEF Updating, NeedsCAS

LEMMA AccessKeeps ==
  ASSUME KInv, NEW w, Access(w)
  PROVE  KInv'
<1>1. w \in Running /\ IsAccess(Step(w)) /\ ~NeedsCAS(w) /\ StepOn(w) /\ Notice(w) /\ UNCHANGED <<launch, phase, old>>
  BY DEF Access
<1>2. w \notin DOMAIN old /\ w \in DOMAIN pc
  BY <1>1 DEF KInv, Updating, Running
<1>3. DOMAIN pc' = DOMAIN pc /\ \A v \in DOMAIN pc \ {w} : pc'[v] = pc[v]
  BY <1>1, <1>2 DEF StepOn
<1>4. Updating'
  <2>1. DOMAIN old' \subseteq DOMAIN old \ {w}
    BY <1>1, <1>2
  <2>. QED BY <1>1, <1>3, <2>1, OthersUpdate DEF KInv
<1>. QED BY <1>1, <1>4, NoticeKeeps DEF KInv

\* Steps that do not advance a warp.
LEMMA StaysKeeps ==
  ASSUME KInv, UNCHANGED <<launch, phase, pc, seen>>, DOMAIN old' # {} => DOMAIN pc # {},
         \A v \in DOMAIN old' : v \in Running /\ IsAccess(Step(v)) /\ NeedsCAS(v),
         phase = 0 => old' = old
  PROVE  KInv'
<1>1. CodeNow' = CodeNow
  BY DEF CodeNow
<1>2. Running' = Running /\ \A v : Step(v)' = Step(v)
  BY <1>1 DEF Running, Step
<1>3. Updating'
  BY <1>2 DEF Updating, NeedsCAS
<1>4. Places' /\ InStep' /\ Recent'
  BY <1>1 DEF KInv, Places, InStep, Recent
<1>. QED BY <1>3, <1>4 DEF KInv

LEMMA UpdateKeeps ==
  ASSUME KInv, NEW w \in DOMAIN pc, Load(w) \/ Exchange(w) \/ Retry(w)
  PROVE  KInv'
<1>1. phase # 0
  BY Here
<1>2. CASE Load(w)
  <2>1. DOMAIN old' \subseteq DOMAIN old \cup {w}
    BY <1>2 DEF Load
  <2>2. \A v \in DOMAIN old' : v \in Running /\ IsAccess(Step(v)) /\ NeedsCAS(v)
    BY <1>2, <2>1 DEF Load, KInv, Updating
  <2>. QED BY <1>1, <1>2, <2>2, StaysKeeps DEF Load
<1>3. CASE Exchange(w)
  <2>1. w \in DOMAIN old /\ StepOn(w) /\ Notice(w) /\ UNCHANGED <<launch, phase>>
        /\ DOMAIN old' = DOMAIN old \ {w}
    BY <1>3 DEF Exchange, Exchanged
  <2>2. w \in Running /\ IsAccess(Step(w))
    BY <2>1 DEF KInv, Updating
  <2>3. DOMAIN pc' = DOMAIN pc /\ \A v \in DOMAIN pc \ {w} : pc'[v] = pc[v]
    BY <2>1 DEF StepOn
  <2>4. Updating'
    BY <2>1, <2>3, OthersUpdate DEF KInv
  <2>. QED BY <2>1, <2>2, <2>4, NoticeKeeps DEF KInv
<1>4. CASE Retry(w)
  <2>1. DOMAIN old' = DOMAIN old
    BY <1>4 DEF Retry
  <2>. QED BY <1>1, <1>4, <2>1, StaysKeeps DEF Retry, KInv, Updating
<1>. QED BY <1>2, <1>3, <1>4

LEMMA SyncWarpKeeps ==
  ASSUME KInv, NEW w, SyncWarp(w)
  PROVE  KInv'
<1>1. w \in Running /\ w \in DOMAIN pc /\ OpOf(Step(w)) = "__syncwarp" /\ StepOn(w) /\ Flush(w)
      /\ UNCHANGED <<launch, phase, old>>
  BY DEF SyncWarp, Running
<1>2. ~IsBarrier(Step(w)) /\ ~IsAccess(Step(w)) /\ w \in DOMAIN seen
  BY <1>1, Here DEF IsBarrier, IsAccess
<1>3. DOMAIN pc' = DOMAIN pc /\ \A v \in DOMAIN pc \ {w} : pc'[v] = pc[v]
  BY <1>1 DEF StepOn
<1>4. Updating'
  <2>1. DOMAIN old' \subseteq DOMAIN old \ {w}
    BY <1>1, <1>2 DEF KInv, Updating
  <2>. QED BY <1>1, <1>3, <2>1, OthersUpdate DEF KInv
<1>5. seen'[w] = {} /\ DOMAIN seen' = DOMAIN seen /\ \A v \in DOMAIN pc \ {w} : seen'[v] = seen[v]
  BY <1>1, <1>2, Here DEF Flush
<1>6. Recent'
  <2>1. CodeNow' = CodeNow
    BY <1>1 DEF CodeNow
  <2>. QED BY <1>3, <1>5, <2>1 DEF KInv, Recent
<1>. QED BY <1>1, <1>2, <1>4, <1>5, <1>6, StepOnKeeps DEF KInv

\* A barrier is passed by the whole block at once.
LEMMA SyncThreadsKeeps ==
  ASSUME KInv, NEW w, SyncThreads(w)
  PROVE  KInv'
<1>1. /\ w \in DOMAIN pc /\ \A v \in BlockOf(w) : v \in Running /\ IsBarrier(Step(v))
      /\ pc' = [v \in DOMAIN pc |-> IF v \in BlockOf(w) THEN pc[v] + 1 ELSE pc[v]]
      /\ seen' = [v \in DOMAIN seen |-> IF v \in BlockOf(w) THEN {} ELSE seen[v]]
      /\ UNCHANGED <<launch, phase, mem, old>>
  BY DEF SyncThreads, Running
<1>2. DOMAIN pc' = DOMAIN pc /\ DOMAIN seen' = DOMAIN seen /\ CodeNow' = CodeNow
      /\ \A v \in DOMAIN pc \ BlockOf(w) : pc'[v] = pc[v]
  BY <1>1 DEF CodeNow
<1>3. ASSUME NEW v \in DOMAIN pc
      PROVE  pc[v] \in Nat /\ pc[v] <= Len(CodeNow[v]) /\ Len(CodeNow[v]) \in Nat /\ phase \in Nat /\ phase > 0
             /\ (v \in BlockOf(w) => pc[v] < Len(CodeNow[v]))
    BY <1>1, Here DEF Running
<1>4. Places'
  <2>1. \A v \in DOMAIN pc' : pc'[v] \in 0 .. Len(CodeNow[v])
    BY <1>1, <1>3
  <2>. QED BY <1>1, <1>2, <1>3, <2>1 DEF KInv, Places
<1>5. Updating'
  <2>1. DOMAIN old' \subseteq DOMAIN old \ BlockOf(w)
    BY <1>1, AccessIsPlain DEF KInv, Updating
  <2>. QED BY <1>1, <1>2, <2>1, OthersUpdate DEF KInv
<1>6. InStep'
  <2>1. ASSUME NEW v \in DOMAIN pc
        PROVE  BarriersIn(CodeNow[v], pc'[v])
               = IF v \in BlockOf(w) THEN BarriersIn(CodeNow[v], pc[v]) + 1 ELSE BarriersIn(CodeNow[v], pc[v])
    BY <1>1, <1>3, NextBarrier DEF Step
  <2>2. \A u, v \in DOMAIN pc : u.block = v.block => (u \in BlockOf(w) <=> v \in BlockOf(w))
    BY DEF BlockOf
  <2>3. \A u, v \in DOMAIN pc : u.block = v.block => BarriersIn(CodeNow[u], pc[u]) = BarriersIn(CodeNow[v], pc[v])
    BY DEF KInv, InStep
  <2>. QED BY <1>2, <2>1, <2>2, <2>3 DEF InStep
<1>7. Recent'
  <2>1. ASSUME NEW v \in DOMAIN pc, NEW a \in seen'[v]
        PROVE  v \notin BlockOf(w) /\ a \in seen[v] /\ pc'[v] = pc[v]
    BY <1>1, <2>1, Here
  <2>. QED BY <1>2, <2>1 DEF KInv, Recent
<1>. QED BY <1>1, <1>4, <1>5, <1>6, <1>7 DEF KInv

LEMMA JoinKeeps ==
  ASSUME KInv, Join
  PROVE  KInv'
<1>. DEFINE code == launch.phases[phase + 1].code
<1>1. /\ phase' = phase + 1 /\ launch' = launch /\ pc' = [w \in DOMAIN code |-> 0]
      /\ old' = <<>> /\ seen' = [w \in DOMAIN code |-> {}] /\ phase < Len(launch.phases)
  BY DEF Join, BeginPhase
<1>2. phase \in Nat /\ Len(launch.phases) \in Nat /\ DOMAIN launch.phases = 1 .. Len(launch.phases)
  BY DEF KInv, Placed, Listed, Places
<1>3. phase' \in Nat /\ phase' > 0 /\ phase' \in DOMAIN launch'.phases /\ CodeNow' = code
  BY <1>1, <1>2 DEF CodeNow
<1>4. \A w \in DOMAIN code : Len(code[w]) \in Nat
  BY <1>1, <1>2 DEF KInv, Placed, Listed
<1>5. DOMAIN pc' = DOMAIN code /\ DOMAIN seen' = DOMAIN code /\ DOMAIN old' = {}
      /\ \A w \in DOMAIN code : pc'[w] = 0 /\ seen'[w] = {}
  BY <1>1
<1>. HIDE DEF code
<1>6. Places' /\ Updating' /\ Recent'
  BY <1>3, <1>4, <1>5 DEF Places, Updating, Recent
<1>7. InStep'
  <2>1. \A steps : BarriersIn(steps, 0) = 0
    <3>1. \A steps : {k \in 1 .. 0 : IsBarrier(steps[k])} = {}
      OBVIOUS
    <3>. QED BY <3>1, FS_EmptySet DEF BarriersIn
  <2>. QED BY <1>3, <1>5, <2>1 DEF InStep
<1>. QED BY <1>1, <1>6, <1>7 DEF KInv

LEMMA KernelInv ==
  ASSUME \A c \in Cases : \A l \in Lowered(c) : Placed(l)
  PROVE  LaunchSpec => []KInv
<1>1. LaunchInit => KInv
  <2>. SUFFICES ASSUME LaunchInit PROVE KInv
    OBVIOUS
  <2>1. Placed(launch) /\ DOMAIN pc = {} /\ DOMAIN old = {}
    BY DEF LaunchInit
  <2>. QED BY <2>1 DEF LaunchInit, KInv, Places, Updating, InStep, Recent
<1>2. KInv /\ [LaunchNext]_machine => KInv'
  <2>. SUFFICES ASSUME KInv, [LaunchNext]_machine PROVE KInv'
    OBVIOUS
  <2>1. CASE UNCHANGED machine
    BY <2>1, StaysKeeps DEF machine, KInv, Updating, Running
  <2>2. ASSUME NEW w \in DOMAIN pc, WarpStep(w)
        PROVE  KInv'
    BY <2>2, AccessKeeps, UpdateKeeps, SyncWarpKeeps, SyncThreadsKeeps DEF WarpStep
  <2>. QED BY <2>1, <2>2, JoinKeeps DEF LaunchNext
<1>. QED BY <1>1, <1>2, PTL DEF LaunchSpec

\* Whatever the order in which the warps of a launch advance, no two of them race,
\* no thread reads what another of its warp has not flushed, and barriers are
\* reached by whole warps, if the barriers are placed as BarriersPlaced says: that
\* is about the code alone, and needs no execution.  It holds of launches with any
\* number of warps, steps and phases.
THEOREM SynchronizedTheorem ==
  ASSUME \A c \in Cases : \A l \in Lowered(c) : Placed(l)
  PROVE  LaunchSpec => []Synchronized
<1>1. KInv => Synchronized
  <2>. SUFFICES ASSUME KInv PROVE Synchronized
    OBVIOUS
  <2>1. ASSUME NEW w \in Running
        PROVE  /\ w \in DOMAIN CodeNow /\ w \in DOMAIN pc /\ pc[w] \in Nat
               /\ pc[w] + 1 \in DOMAIN CodeNow[w] /\ Step(w) = CodeNow[w][pc[w] + 1]
               /\ Separated(CodeNow) /\ Whole(launch, phase)
    BY Here DEF Running, Step
  <2>2. \A step : \A a \in Accessed(step) : IsAccess(step)
    BY DEF Accessed
  <2>3. Ordered
    <3>. SUFFICES ASSUME NEW v \in Running, NEW w \in Running, v # w,
                         NEW a \in Accessed(Step(v)), NEW b \in Accessed(Step(w)), Conflict(a, b)
                  PROVE  FALSE
      BY DEF Ordered
    <3>1. v.block = w.block /\ BarriersIn(CodeNow[v], pc[v] + 1) # BarriersIn(CodeNow[w], pc[w] + 1)
      BY <2>1 DEF Separated, KeptApart
    <3>2. ~IsBarrier(Step(v)) /\ ~IsBarrier(Step(w))
      BY <2>2, AccessIsPlain
    <3>3. BarriersIn(CodeNow[v], pc[v] + 1) = BarriersIn(CodeNow[v], pc[v])
      BY <2>1, <3>2, NextBarrier
    <3>4. BarriersIn(CodeNow[w], pc[w] + 1) = BarriersIn(CodeNow[w], pc[w])
      BY <2>1, <3>2, NextBarrier
    <3>. QED BY <2>1, <3>1, <3>3, <3>4 DEF KInv, InStep
  <2>4. Flushed
    <3>. SUFFICES ASSUME NEW w \in Running, NEW a \in seen[w], NEW b \in Accessed(Step(w)),
                         a.thread # b.thread, Conflict(a, b)
                  PROVE  FALSE
      BY DEF Flushed
    <3>1. PICK m \in 1 .. pc[w] : a \in Accessed(CodeNow[w][m]) /\ \A k \in m .. pc[w] : ~IsFlush(CodeNow[w][k])
      BY <2>1 DEF KInv, Recent
    <3>2. m \in DOMAIN CodeNow[w] /\ m < pc[w] + 1
      BY <2>1, Here
    <3>3. PICK k \in m .. pc[w] + 1 : IsFlush(CodeNow[w][k])
      BY <2>1, <3>1, <3>2 DEF Separated, KeptApart
    <3>4. ~IsFlush(CodeNow[w][pc[w] + 1])
      BY <2>1, <2>2, AccessIsPlain
    <3>. QED BY <2>1, <3>1, <3>2, <3>3, <3>4
  <2>5. Together
    BY <2>1 DEF Together, Whole, CodeNow, ToSet
  <2>. QED BY <2>3, <2>4, <2>5 DEF Synchronized
<1>. QED BY <1>1, KernelInv, PTL

\* Some warp can go on: it is not at a barrier, or all of its block are.
Unblocked ==
  Running # {} => \E w \in Running : ~IsBarrier(Step(w)) \/ \A v \in BlockOf(w) : v \in Running /\ IsBarrier(Step(v))

\* Warps do not wait for each other in a circle: as long as one has not come to
\* its end, one can go on, if the barriers that makeSync has put are as many for
\* all warps of a block.
THEOREM UnblockedTheorem ==
  ASSUME \A c \in Cases : \A l \in Lowered(c) : Placed(l)
  PROVE  LaunchSpec => []Unblocked
<1>1. KInv => Unblocked
  <2>. SUFFICES ASSUME KInv, NEW w \in Running, \A v \in Running : IsBarrier(Step(v)),
                       NEW v \in BlockOf(w), v \notin Running
                PROVE  FALSE
    BY DEF Unblocked
  <2>1. /\ w \in DOMAIN pc /\ v \in DOMAIN pc /\ v.block = w.block
        /\ pc[v] \in Nat /\ pc[w] \in Nat /\ Len(CodeNow[w]) \in Nat
        /\ pc[w] + 1 <= Len(CodeNow[w]) /\ pc[v] = Len(CodeNow[v]) /\ DOMAIN pc = DOMAIN CodeNow /\ Level(CodeNow)
    BY Here DEF Running, BlockOf
  <2>2. BarriersIn(CodeNow[w], pc[w] + 1) = BarriersIn(CodeNow[w], pc[w]) + 1 /\ BarriersIn(CodeNow[w], pc[w]) \in Nat
    BY <2>1, NextBarrier DEF Step
  <2>3. BarriersIn(CodeNow[w], pc[w] + 1) <= BarriersIn(CodeNow[w], Len(CodeNow[w]))
    BY <2>1, MoreBarriers
  <2>4. BarriersIn(CodeNow[w], Len(CodeNow[w])) = BarriersIn(CodeNow[v], pc[v])
    BY <2>1 DEF Level
  <2>5. BarriersIn(CodeNow[v], pc[v]) = BarriersIn(CodeNow[w], pc[w])
    BY <2>1 DEF KInv, InStep
  <2>6. BarriersIn(CodeNow[w], Len(CodeNow[w])) \in Nat
    BY <2>1, NextBarrier
  <2>. QED BY <2>2, <2>3, <2>4, <2>5, <2>6
<1>. QED BY <1>1, KernelInv, PTL
=============================================================================

----------------------------- MODULE TuneProofs -----------------------------
(***************************************************************************)
(* How a tuning ends, for any number of threads, trials and programs: no   *)
(* batch is measured that is not complete, and the RandCtx is left in      *)
(* inference mode.  What a batch decides, whatever the interleaving of its *)
(* threads: that depends on what was known when it began and on the draws  *)
(* of each thread.  And what is learnt: the sweeps of observeTrace count   *)
(* what a comparison of all pairs of traces would, since along the sorted  *)
(* map the common beginning with the new trace only grows towards it.      *)
(***************************************************************************)
EXTENDS Tune, WellFoundedInduction, FiniteSetTheorems, TLAPS

\* Every set of numbers that is not empty has a least one, so that a set which has 0,
\* and n + 1 where it has n, has all of them.
LEMMA LeastNat ==
  ASSUME NEW S \in SUBSET Nat, S # {}
  PROVE  \E n \in S : \A m \in S : n <= m
<1>. DEFINE R == {p \in Nat \X Nat : p[1] < p[2]}
<1>1. IsWellFoundedOn(R, Nat)
  BY NatLessThanWellFounded DEF OpToRel
<1>2. PICK n \in S : \A m \in S : <<m, n>> \notin R
  <2>. HIDE DEF R
  <2>. QED BY <1>1, WFMin
<1>3. \A m \in S : ~(m < n)
  BY <1>2
<1>. QED BY <1>3

LEMMA InductNat ==
  ASSUME NEW S, 0 \in S, \A n \in Nat : n \in S => n + 1 \in S
  PROVE  Nat \subseteq S
<1>. SUFFICES ASSUME Nat \ S # {}
              PROVE  FALSE
  OBVIOUS
<1>1. PICK n \in Nat \ S : \A m \in Nat \ S : n <= m
  BY LeastNat
<1>2. n # 0 /\ n - 1 \in Nat
  OBVIOUS
<1>3. n - 1 \in S
  BY <1>1, <1>2
<1>. QED BY <1>2, <1>3

\* An iteration that was begun was finished, or is under way, or threw; and
\* while nothing has been thrown every thread is still in the loop.
IInv ==
  /\ phase \in {"idle", "schedule", "parallel", "measure"}
  /\ started \subseteq Trials
  /\ cur \in [Threads -> 0 .. BatchSize]
  /\ except \in BOOLEAN
  /\ ~except => left = {}
  /\ ~except => \A j \in started : j \in made \/ \E k \in Threads : cur[k] = j
  /\ made \subseteq Trials
  /\ phase \in {"idle", "schedule"} => isInfer
  /\ phase = "measure" => made = Trials

LEMMA Sizes == BatchSize \in Nat /\ Owner \in [Trials -> Threads]
BY TuneAssumption DEF TuneAssumption

\* Min is only Min of a set of numbers that has a least one: all have.
LEMMA MinIn ==
  ASSUME NEW S, S \subseteq Nat, S # {}
  PROVE  Min(S) \in S /\ \A n \in S : Min(S) <= n
BY LeastNat DEF Min

LEMMA MineIn ==
  ASSUME NEW k \in Threads, Mine(k) # {}
  PROVE  Min(Mine(k)) \in Mine(k) /\ \A j \in Mine(k) : Min(Mine(k)) <= j
<1>1. Mine(k) \subseteq Nat
  BY Sizes DEF Mine, Trials
<1> QED BY <1>1, MinIn

LEMMA NewRegionInv ==
  ASSUME NewRegion
  PROVE  /\ started' \subseteq Trials
         /\ cur' \in [Threads -> 0 .. BatchSize]
         /\ except' = FALSE /\ left' = {}
         /\ \A j \in started' : j \in made' \/ \E k \in Threads : cur'[k] = j
         /\ made' \subseteq Trials
BY Sizes DEF NewRegion

LEMMA Inductive == Spec => []IInv
<1> USE Sizes
<1>1. Init => IInv
  <2> SUFFICES ASSUME Init PROVE IInv
    OBVIOUS
  <2>1. /\ phase = "idle" /\ started = {} /\ made = {} /\ except = FALSE /\ left = {}
        /\ cur = [k \in Threads |-> 0] /\ isInfer = TRUE
    BY DEF Init
  <2>2. cur \in [Threads -> 0 .. BatchSize]
    BY <2>1
  <2> QED BY <2>1, <2>2 DEF IInv
<1>2. IInv /\ [Next]_vars => IInv'
  <2> SUFFICES ASSUME IInv, [Next]_vars PROVE IInv'
    OBVIOUS
  <2>1. ASSUME NEW p \in Programs, StartTune(p) PROVE IInv'
    BY <2>1, NewRegionInv DEF StartTune, IInv
  <2>2. ASSUME NEW p \in Programs, StartSchedule(p) PROVE IInv'
    BY <2>2 DEF StartSchedule, IInv, region, mode
  <2>3. CASE EndSchedule
    BY <2>3, NewRegionInv DEF EndSchedule, IInv, mode
  <2>4. ASSUME NEW k \in Threads, Begin(k) PROVE IInv'
    <3> DEFINE j == Min(Mine(k))
    <3>1. j \in Trials
      BY <2>4, MineIn DEF Begin, Mine
    <3> HIDE DEF j
    <3>2. /\ cur' = [cur EXCEPT ![k] = j] /\ started' = started \cup {j} /\ cur[k] = 0
          /\ phase = "parallel"
          /\ UNCHANGED <<phase, isInfer, made, except, left>>
      BY <2>4 DEF Begin, mode, j
    <3>3. ~except' => \A i \in started' : i \in made' \/ \E h \in Threads : cur'[h] = i
      <4> SUFFICES ASSUME ~except, NEW i \in started', i \notin made
                   PROVE  \E h \in Threads : cur'[h] = i
        BY <3>2
      <4>1. CASE i = j
        BY <4>1, <3>2 DEF IInv
      <4>2. CASE i # j
        <5>1. PICK h \in Threads : cur[h] = i
          BY <4>2, <3>2 DEF IInv
        <5>2. i # 0
          BY <3>1, <3>2, <4>2 DEF IInv, Trials
        <5> QED BY <5>1, <5>2, <3>2 DEF IInv
      <4> QED BY <4>1, <4>2
    <3>4. cur' \in [Threads -> 0 .. BatchSize]
      BY <3>1, <3>2 DEF IInv, Trials
    <3>5. started' \subseteq Trials
      BY <3>1, <3>2 DEF IInv
    <3> QED BY <3>2, <3>3, <3>4, <3>5 DEF IInv
  <2>5. ASSUME NEW k \in Threads, Decide(k) PROVE IInv'
    BY <2>5 DEF Decide, IInv, mode
  <2>6. ASSUME NEW k \in Threads, Finish(k) PROVE IInv'
    <3>1. /\ cur' = [cur EXCEPT ![k] = 0] /\ made' = made \cup {cur[k]}
          /\ cur[k] # 0 /\ phase = "parallel"
          /\ UNCHANGED <<phase, isInfer, started, except, left>>
      BY <2>6 DEF Finish, mode
    <3>2. cur[k] \in Trials
      BY <3>1 DEF IInv, Trials
    <3>3. ~except' => \A i \in started' : i \in made' \/ \E h \in Threads : cur'[h] = i
      BY <3>1 DEF IInv
    <3>4. cur' \in [Threads -> 0 .. BatchSize]
      BY <3>1 DEF IInv
    <3>5. made' \subseteq Trials
      BY <3>1, <3>2 DEF IInv
    <3> QED BY <3>1, <3>3, <3>4, <3>5 DEF IInv
  <2>7. ASSUME NEW k \in Threads, Throw(k) PROVE IInv'
    BY <2>7 DEF Throw, IInv, mode, Raised
  <2>8. ASSUME NEW k \in Threads, Leave(k) PROVE IInv'
    BY <2>8 DEF Leave, IInv, mode
  <2>9. ASSUME Rethrow PROVE IInv'
    BY <2>9, NewRegionInv DEF Rethrow, IInv, Restored
  <2>10. CASE Join
    <3>1. CASE except
      BY <2>9, <2>10, <3>1 DEF Join
    <3>2. CASE ~except
      <4>1. /\ phase' = "measure"
            /\ UNCHANGED <<isInfer, started, made, except, left, cur>>
        BY <2>10, <3>2 DEF Join, mode, region
      <4>2. \A k \in Threads : cur[k] = 0 /\ Mine(k) = {}
        BY <2>10, <3>2 DEF Join, IInv
      <4>3. ASSUME NEW j \in Trials PROVE j \in made
        <5>1. Owner[j] \in Threads
          OBVIOUS
        <5>2. j \in started
          BY <5>1, <4>2 DEF Mine
        <5>3. j # 0
          BY DEF Trials
        <5> QED BY <5>2, <5>3, <4>2, <3>2 DEF IInv
      <4> QED BY <4>1, <4>3 DEF IInv
    <3> QED BY <3>1, <3>2 DEF IInv
  <2>11. CASE Measure
    BY <2>11 DEF Measure, IInv, mode, region
  <2>12. CASE MeasureThrows
    BY <2>9, <2>12 DEF MeasureThrows
  <2>13. CASE NextBatch
    BY <2>13, NewRegionInv DEF NextBatch, IInv, mode
  <2>14. CASE EndTune
    BY <2>14, NewRegionInv DEF EndTune, IInv
  <2>15. CASE UNCHANGED vars
    BY <2>15 DEF vars, IInv, mode, region
  <2> QED
    BY <2>1, <2>2, <2>3, <2>4, <2>5, <2>6, <2>7, <2>8, <2>10, <2>11, <2>12, <2>13, <2>14, <2>15
    DEF Next
<1> QED BY <1>1, <1>2, PTL DEF Spec

\* No Driver is measured unless the parallel loop has made all of them,
\* whichever iterations throw, in whichever threads.
THEOREM BatchesComplete == Spec => []AllMade
<1>1. IInv => AllMade
  BY DEF IInv, AllMade
<1> QED BY <1>1, Inductive, PTL

\* Outside of tuneAutoSchedule the RandCtx is in inference mode.
THEOREM BackToInference == Spec => []InferOutside
<1>1. IInv => InferOutside
  BY DEF IInv, InferOutside
<1> QED BY <1>1, Inductive, PTL


-----------------------------------------------------------------------------
\* What is known in the batch differs from what was known when it began only
\* in variables that are new, and these are what they would have been.
Fresh(d) == InitObs(IF d[1] = "metadata" THEN DepDiff[d[2]] ELSE d[2])

Learnt ==
  /\ tot = before.tot
  /\ \A d \in DOMAIN before.obs : d \in DOMAIN obs /\ obs[d] = before.obs[d]
  /\ \A d \in DOMAIN obs \ DOMAIN before.obs : obs[d] = Fresh(d)

Decision == [ctx : Contexts, value : Vals]

Typed ==
  /\ prog \in Programs
  /\ matches \in BOOLEAN
  /\ path \in [Threads -> Seq(Decision)]
  /\ trials \in [Trials -> Seq(Decision)]
  /\ drawn \in [Threads -> Seq(Draws)]

\* A thread takes its iterations in order, and is in the last one or between two.
InOrder ==
  /\ made \subseteq started
  /\ \A k \in Threads : cur[k] # 0 =>
       /\ cur[k] \in started \ made /\ Owner[cur[k]] = k
       /\ \A i \in started : Owner[i] = k => i <= cur[k]
  /\ \A i \in started : i \notin made => cur[Owner[i]] = i
  /\ \A i \in started, m \in Trials \ started : Owner[i] = Owner[m] => i < m

\* The trace of an iteration that was begun, so far.
Taken(j) == IF j \in made THEN trials[j] ELSE path[Owner[j]]

Decided(j) ==
  \A n \in DOMAIN Taken(j) :
    /\ Taken(j)[n].ctx = Asked(prog, SubSeq(Taken(j), 1, n - 1))
    /\ ~matches => Taken(j)[n].value = MostLikely(before, Taken(j)[n].ctx)

Earlier(j) == {i \in started : i < j /\ Owner[i] = Owner[j]}

\* first[j] of the draws of its thread were made before iteration j.
Turn(first, j) ==
  /\ Earlier(j) = {} => first[j] = 0
  /\ \A i \in Earlier(j) :
       (\A h \in Earlier(j) : h <= i) => first[j] = first[i] + Len(Taken(i))
  /\ first[j] + Len(Taken(j)) <= Len(drawn[Owner[j]])
  /\ (\A i \in started : Owner[i] = Owner[j] => i <= j)
       => Len(drawn[Owner[j]]) = first[j] + Len(Taken(j))
  /\ \A n \in DOMAIN Taken(j) :
       Taken(j)[n].value = Sampled(before, Taken(j)[n].ctx, drawn[Owner[j]][first[j] + n])

Turns(first) ==
  /\ \A j \in started : Turn(first, j)
  /\ \A k \in Threads : (\A j \in started : Owner[j] # k) => drawn[k] = <<>>

\* What is true of the iterations of a batch.
Batch ==
  /\ InOrder
  /\ \A j \in started : Decided(j)
  /\ matches => \E first \in [Trials -> Nat] : Turns(first)

\* The invariant behind Reproducible.
RInv ==
  /\ Typed
  /\ phase \in {"parallel", "measure"} => ~isInfer
  /\ phase = "parallel" => Learnt
  /\ phase \in {"parallel", "measure"} /\ ~except => Batch

LEMMA AppendKeeps ==
  ASSUME NEW S, NEW s \in Seq(S), NEW x \in S
  PROVE  /\ Append(s, x) \in Seq(S)
         /\ Len(Append(s, x)) = Len(s) + 1
         /\ \A n \in 1 .. Len(s) : Append(s, x)[n] = s[n]
         /\ Append(s, x)[Len(s) + 1] = x
         /\ \A n \in 1 .. Len(s) + 1 : SubSeq(Append(s, x), 1, n - 1) = SubSeq(s, 1, n - 1)
         /\ SubSeq(s, 1, Len(s)) = s
<1>1. /\ Append(s, x) \in Seq(S) /\ Len(Append(s, x)) = Len(s) + 1
      /\ \A n \in 1 .. Len(s) : Append(s, x)[n] = s[n]
      /\ Append(s, x)[Len(s) + 1] = x
  OBVIOUS
<1>2. ASSUME NEW n \in 1 .. Len(s) + 1
      PROVE  SubSeq(Append(s, x), 1, n - 1) = SubSeq(s, 1, n - 1)
  <2>1. Len(s) \in Nat
    OBVIOUS
  <2>2. \A i \in 1 .. n - 1 : Append(s, x)[i] = s[i]
    BY <1>1, <2>1
  <2> QED BY <2>1, <2>2, <1>1
<1>3. SubSeq(s, 1, Len(s)) = s
  OBVIOUS
<1> QED BY <1>1, <1>2, <1>3

LEMMA CondsOf ==
  ASSUME NEW c
  PROVE  /\ ToSet(Conds(c)) = {<<"metadata", c>>, <<"defDiff", DepDiff[c]>>}
         /\ Conds(c)[1] \in ToSet(Conds(c)) /\ Conds(c)[2] \in ToSet(Conds(c))
         /\ \A d \in ToSet(Conds(c)) : Fresh(d) = InitObs(DepDiff[c])
<1>1. /\ DOMAIN Conds(c) = {1, 2}
      /\ Conds(c)[1] = <<"metadata", c>> /\ Conds(c)[2] = <<"defDiff", DepDiff[c]>>
  BY DEF Conds
<1>2. ToSet(Conds(c)) = {<<"metadata", c>>, <<"defDiff", DepDiff[c]>>}
  BY <1>1 DEF ToSet
<1>3. \A d \in ToSet(Conds(c)) : Fresh(d) = InitObs(DepDiff[c])
  BY <1>2 DEF Fresh
<1> QED BY <1>1, <1>2, <1>3

\* Learning nothing means deciding the same.
LEMMA DecidesSame ==
  ASSUME Learnt, NEW c
  PROVE  LET l == [tot |-> tot, obs |-> obs] IN
         /\ MostLikely(l, c) = MostLikely(before, c)
         /\ \A draw : Sampled(l, c, draw) = Sampled(before, c, draw)
<1> DEFINE l == [tot |-> tot, obs |-> obs]
<1>1. ASSUME NEW d \in ToSet(Conds(c)) PROVE Known(obs, c)[d] = Known(before.obs, c)[d]
  <2>1. Fresh(d) = InitObs(DepDiff[c])
    BY CondsOf
  <2> QED BY <2>1 DEF Known, Learnt
<1>2. ASSUME NEW v PROVE Weight(l, c, v) = Weight(before, c, v)
  BY <1>1, CondsOf DEF Weight, Learnt
<1> HIDE DEF l
<1>3. /\ MostLikely(l, c) = MostLikely(before, c)
      /\ \A draw : Sampled(l, c, draw) = Sampled(before, c, draw)
  BY <1>2 DEF MostLikely, Sampled
<1> QED BY <1>3 DEF l

LEMMA StillLearnt ==
  ASSUME Learnt, NEW c, obs' = Known(obs, c), UNCHANGED <<tot, before>>
  PROVE  Learnt'
<1>1. \A d \in DOMAIN before.obs : d \in DOMAIN obs' /\ obs'[d] = before.obs[d]
  BY DEF Learnt, Known
<1>2. ASSUME NEW d \in DOMAIN obs' \ DOMAIN before.obs PROVE obs'[d] = Fresh(d)
  BY CondsOf DEF Learnt, Known
<1> QED BY <1>1, <1>2 DEF Learnt, Fresh, InitObs

LEMMA NewBatch ==
  ASSUME NewRegion, prog' \in Programs, matches' \in BOOLEAN
  PROVE  Typed' /\ Learnt' /\ Batch'
<1>1. /\ started' = {} /\ made' = {}
      /\ cur' = [k \in Threads |-> 0]
      /\ path' = [k \in Threads |-> <<>>]
      /\ trials' = [j \in Trials |-> <<>>]
      /\ drawn' = [k \in Threads |-> <<>>]
      /\ before' = [tot |-> tot', obs |-> obs']
  BY DEF NewRegion
<1>2. Typed'
  BY <1>1 DEF Typed
<1>3. Learnt'
  BY <1>1 DEF Learnt
<1>4. InOrder' /\ \A j \in started' : Decided(j)'
  BY <1>1 DEF InOrder
<1>5. (\E first \in [Trials -> Nat] : Turns(first))'
  <2>1. [j \in Trials |-> 0] \in [Trials -> Nat]
    OBVIOUS
  <2>2. \A first : Turns(first)'
    BY <1>1 DEF Turns
  <2> QED BY <2>1, <2>2
<1> QED BY <1>2, <1>3, <1>4, <1>5 DEF Batch

\* What a thread is doing may also change without the batch being touched.
LEMMA SameBatch ==
  ASSUME UNCHANGED <<prog, matches, started, made, cur, path, trials, drawn, before>>
  PROVE  (Typed => Typed') /\ (Batch => Batch')
<1>1. Typed => Typed'
  BY DEF Typed
<1>2. InOrder => InOrder'
  BY DEF InOrder
<1>3. ASSUME NEW j PROVE Taken(j)' = Taken(j)
  BY DEF Taken
<1>4. ASSUME NEW j, Decided(j) PROVE Decided(j)'
  BY <1>3, <1>4 DEF Decided, Asked, MostLikely, Weight, Known
<1>5. ASSUME NEW first, NEW j, Turn(first, j) PROVE Turn(first, j)'
  BY <1>3, <1>5 DEF Turn, Earlier, Sampled, Weight, Known
<1>6. ASSUME NEW first, Turns(first) PROVE Turns(first)'
  BY <1>5, <1>6 DEF Turns
<1> QED BY <1>1, <1>2, <1>4, <1>6 DEF Batch

LEMMA BeginBatch ==
  ASSUME IInv, Typed, Batch, NEW k \in Threads, Begin(k)
  PROVE  Typed' /\ Batch'
<1>0. PICK j : j = Min(Mine(k))
  OBVIOUS
<1>1. /\ j \in Trials \ started /\ Owner[j] = k
      /\ \A m \in Trials \ started : Owner[m] = k => j <= m
  BY <1>0, MineIn DEF Begin, Mine
<1>2. /\ cur[k] = 0 /\ cur' = [cur EXCEPT ![k] = j] /\ started' = started \cup {j}
      /\ path' = [path EXCEPT ![k] = <<>>]
      /\ UNCHANGED <<prog, matches, made, trials, drawn, before>>
  BY <1>0 DEF Begin, mode
<1>3. Typed'
  BY <1>2 DEF Typed
<1>4. /\ started \subseteq Trials /\ Trials \subseteq Nat /\ j \in Nat /\ cur \in [Threads -> 0 .. BatchSize]
      /\ Owner \in [Trials -> Threads]
  BY <1>1, Sizes DEF IInv, Trials
<1>5. \A i \in started : Owner[i] = k => i < j /\ i \in made
  BY <1>1, <1>2, <1>4 DEF Batch, InOrder, Trials
<1>6. j \notin made
  BY <1>1 DEF Batch, InOrder
<1>7. InOrder'
  BY <1>1, <1>2, <1>4, <1>5, <1>6 DEF Batch, InOrder, Trials
<1>8. ASSUME NEW i \in started PROVE Taken(i)' = Taken(i)
  BY <1>2, <1>4, <1>5 DEF Taken, Typed
<1>9. Taken(j)' = <<>>
  BY <1>1, <1>2, <1>6 DEF Taken, Typed
<1>10. ASSUME NEW i \in started' PROVE Decided(i)'
  <2>1. CASE i = j
    BY <1>9, <2>1 DEF Decided
  <2>2. CASE i # j
    <3>1. i \in started /\ Decided(i)
      BY <1>2, <2>2 DEF Batch
    <3>2. \A c, t : /\ MostLikely(before, c)' = MostLikely(before, c)
                   /\ Asked(prog, t)' = Asked(prog, t)
      BY <1>2 DEF MostLikely, Weight, Known, Asked
    <3>3. Taken(i)' = Taken(i) /\ matches' = matches
      BY <3>1, <1>2, <1>8
    <3> QED BY <3>1, <3>2, <3>3 DEF Decided
  <2> QED BY <2>1, <2>2
<1>11. ASSUME matches PROVE (\E first \in [Trials -> Nat] : Turns(first))'
  <2>1. PICK first \in [Trials -> Nat] : Turns(first)
    BY <1>11 DEF Batch
  <2>2. Len(drawn[k]) \in Nat
    BY DEF Typed
  <2>3. PICK now \in [Trials -> Nat] : now[j] = Len(drawn[k]) /\ \A i \in started : now[i] = first[i]
    <3> DEFINE g == [first EXCEPT ![j] = Len(drawn[k])]
    <3>1. g \in [Trials -> Nat] /\ g[j] = Len(drawn[k]) /\ \A i \in started : g[i] = first[i]
      BY <1>1, <1>4, <2>2
    <3> QED BY <3>1
  <2>4. ASSUME NEW i \in started PROVE Earlier(i)' = Earlier(i) /\ Earlier(i) \subseteq started
    BY <1>1, <1>2, <1>4, <1>5 DEF Earlier
  <2>5. ASSUME NEW i \in started PROVE Turn(now, i)'
    <3>1. Turn(first, i)
      BY <2>1 DEF Turns
    <3>2. ASSUME \A h \in started' : Owner[h] = Owner[i] => h <= i
          PROVE  \A h \in started : Owner[h] = Owner[i] => h <= i
      BY <1>2, <3>2
    <3>3. \A c, d : Sampled(before, c, d)' = Sampled(before, c, d)
      BY <1>2 DEF Sampled, Weight, Known
    <3>4. /\ Taken(i)' = Taken(i) /\ now[i] = first[i] /\ drawn' = drawn
          /\ Earlier(i)' = Earlier(i)
          /\ \A h \in Earlier(i) : Taken(h)' = Taken(h) /\ now[h] = first[h]
      BY <2>3, <2>4, <1>2, <1>8
    <3> QED BY <3>1, <3>2, <3>3, <3>4 DEF Turn
  <2>6. Turn(now, j)'
    <3>1. Earlier(j)' = {i \in started : Owner[i] = k}
      <4>1. Earlier(j)' = {i \in started \cup {j} : i < j /\ Owner[i] = k}
        BY <1>1, <1>2 DEF Earlier
      <4>2. ~ (j < j)
        BY <1>4
      <4> QED BY <4>1, <4>2, <1>5
    <3>2. ASSUME Earlier(j)' = {} PROVE now[j] = 0
      <4>1. drawn[k] = <<>>
        BY <3>1, <3>2, <2>1 DEF Turns
      <4> QED BY <4>1, <2>3
    <3>3. ASSUME NEW i \in Earlier(j)', \A h \in Earlier(j)' : h <= i
          PROVE  now[j] = now[i] + Len(Taken(i)')
      <4>1. i \in started /\ Owner[i] = k /\ \A h \in started : Owner[h] = k => h <= i
        BY <3>1, <3>3
      <4>2. Len(drawn[k]) = first[i] + Len(Taken(i))
        BY <4>1, <2>1 DEF Turns, Turn
      <4> QED BY <4>1, <4>2, <2>3, <1>8
    <3>4. Len(Taken(j)') = 0 /\ DOMAIN (Taken(j)') = {}
      BY <1>9
    <3>5. now[j] = Len(drawn'[Owner[j]]) /\ now[j] \in Nat
      BY <2>2, <2>3, <1>1, <1>2
    <3> QED BY <3>2, <3>3, <3>4, <3>5 DEF Turn
  <2>7. ASSUME NEW h \in Threads, \A i \in started' : Owner[i] # h PROVE drawn'[h] = <<>>
    BY <1>2, <2>1, <2>7 DEF Turns
  <2>8. Turns(now)'
    BY <1>2, <2>5, <2>6, <2>7 DEF Turns
  <2> QED BY <2>3, <2>8
<1> QED BY <1>2, <1>3, <1>7, <1>10, <1>11 DEF Batch

LEMMA DecideStep ==
  ASSUME Typed, NEW k \in Threads, Decide(k)
  PROVE  LET c == Asked(prog, path[k])
             l == [tot |-> tot, obs |-> obs]
         IN /\ c \in Contexts
            /\ obs' = Known(obs, c)
            /\ \E v \in Vals :
                 /\ path' = [path EXCEPT ![k] = Append(@, [ctx |-> c, value |-> v])]
                 /\ \/ /\ isInfer \/ ~matches
                       /\ v = MostLikely(l, c)
                       /\ drawn' = drawn
                    \/ /\ ~isInfer /\ matches
                       /\ \E draw \in Draws :
                            /\ v = Sampled(l, c, draw)
                            /\ drawn' = [drawn EXCEPT ![k] = Append(@, draw)]
<1> DEFINE c == Asked(prog, path[k])
           l == [tot |-> tot, obs |-> obs]
<1>1. c \in Contexts
  <2>1. [n \in DOMAIN path[k] |-> path[k][n].value] \in DOMAIN Asks[prog]
    BY DEF Decide, Complete
  <2>2. Asks[prog] \in [DOMAIN Asks[prog] -> Contexts]
    BY TuneAssumption DEF TuneAssumption, Typed
  <2> QED BY <2>1, <2>2 DEF Asked
<1>2. obs' = Known(obs, c)
  BY DEF Decide
<1>3. MostLikely(l, c) \in Vals /\ \A draw : Sampled(l, c, draw) \in Vals
  BY DEF MostLikely, Sampled, Vals
<1>4. CASE isInfer \/ ~matches
  <2>1. /\ path' = [path EXCEPT ![k] = Append(@, [ctx |-> c, value |-> MostLikely(l, c)])]
        /\ drawn' = drawn
    BY <1>4 DEF Decide
  <2> HIDE DEF c, l
  <2>2. \E v \in Vals :
          /\ path' = [path EXCEPT ![k] = Append(@, [ctx |-> c, value |-> v])]
          /\ v = MostLikely(l, c)
    BY <2>1, <1>3
  <2>3. /\ c \in Contexts
        /\ obs' = Known(obs, c)
        /\ \E v \in Vals :
             /\ path' = [path EXCEPT ![k] = Append(@, [ctx |-> c, value |-> v])]
             /\ \/ /\ isInfer \/ ~matches
                   /\ v = MostLikely(l, c)
                   /\ drawn' = drawn
                \/ /\ ~isInfer /\ matches
                   /\ \E draw \in Draws :
                        /\ v = Sampled(l, c, draw)
                        /\ drawn' = [drawn EXCEPT ![k] = Append(@, draw)]
    BY <2>1, <2>2, <1>4, <1>1, <1>2
  <2> QED BY <2>3 DEF c, l
<1>5. CASE ~isInfer /\ matches
  <2>1. PICK draw \in Draws :
          /\ path' = [path EXCEPT ![k] = Append(@, [ctx |-> c, value |-> Sampled(l, c, draw)])]
          /\ drawn' = [drawn EXCEPT ![k] = Append(@, draw)]
    BY <1>5 DEF Decide
  <2> HIDE DEF c, l
  <2>2. PICK v \in Vals : v = Sampled(l, c, draw)
    BY <1>3
  <2>3. /\ c \in Contexts
        /\ obs' = Known(obs, c)
        /\ \E w \in Vals :
             /\ path' = [path EXCEPT ![k] = Append(@, [ctx |-> c, value |-> w])]
             /\ \/ /\ isInfer \/ ~matches
                   /\ w = MostLikely(l, c)
                   /\ drawn' = drawn
                \/ /\ ~isInfer /\ matches
                   /\ \E d \in Draws :
                        /\ w = Sampled(l, c, d)
                        /\ drawn' = [drawn EXCEPT ![k] = Append(@, d)]
    BY <2>1, <2>2, <1>5, <1>1, <1>2
  <2> QED BY <2>3 DEF c, l
<1> QED BY <1>4, <1>5

LEMMA DecideTyped ==
  ASSUME Typed, NEW k \in Threads, Decide(k)
  PROVE  Typed'
<1>1. PICK d \in Decision : path' = [path EXCEPT ![k] = Append(@, d)]
  <2>1. PICK c \in Contexts, v \in Vals :
          path' = [path EXCEPT ![k] = Append(@, [ctx |-> c, value |-> v])]
    BY DecideStep
  <2> QED BY <2>1 DEF Decision
<1>2. drawn' = drawn \/ \E draw \in Draws : drawn' = [drawn EXCEPT ![k] = Append(@, draw)]
  BY DEF Decide
<1>3. UNCHANGED <<prog, matches, trials>>
  BY DEF Decide, mode
<1>4. path' \in [Threads -> Seq(Decision)]
  <2> HIDE DEF Decision
  <2> QED BY <1>1 DEF Typed
<1>5. drawn' \in [Threads -> Seq(Draws)]
  <2>1. CASE drawn' = drawn
    BY <2>1 DEF Typed
  <2>2. ASSUME NEW draw \in Draws, drawn' = [drawn EXCEPT ![k] = Append(@, draw)]
        PROVE  drawn' \in [Threads -> Seq(Draws)]
    <3>1. Append(drawn[k], draw) \in Seq(Draws)
      BY DEF Typed
    <3> QED BY <3>1, <2>2 DEF Typed
  <2> QED BY <2>1, <2>2, <1>2
<1> QED BY <1>3, <1>4, <1>5 DEF Typed

LEMMA DecideBatch ==
  ASSUME IInv, Typed, Learnt, Batch, ~isInfer, phase = "parallel", NEW k \in Threads, Decide(k)
  PROVE  Learnt' /\ Batch'
<1>1. PICK c \in Contexts, v \in Vals :
        /\ c = Asked(prog, path[k])
        /\ obs' = Known(obs, c)
        /\ path' = [path EXCEPT ![k] = Append(@, [ctx |-> c, value |-> v])]
        /\ \/ /\ ~matches
              /\ v = MostLikely(before, c)
              /\ drawn' = drawn
           \/ /\ matches
              /\ \E draw \in Draws :
                   /\ v = Sampled(before, c, draw)
                   /\ drawn' = [drawn EXCEPT ![k] = Append(@, draw)]
  <2> DEFINE l == [tot |-> tot, obs |-> obs]
  <2>1. PICK c \in Contexts : c = Asked(prog, path[k])
    BY DecideStep
  <2>2. MostLikely(l, c) = MostLikely(before, c) /\ \A r : Sampled(l, c, r) = Sampled(before, c, r)
    BY DecidesSame
  <2>3. /\ obs' = Known(obs, c)
        /\ \E v \in Vals :
             /\ path' = [path EXCEPT ![k] = Append(@, [ctx |-> c, value |-> v])]
             /\ \/ /\ isInfer \/ ~matches
                   /\ v = MostLikely(l, c)
                   /\ drawn' = drawn
                \/ /\ ~isInfer /\ matches
                   /\ \E draw \in Draws :
                        /\ v = Sampled(l, c, draw)
                        /\ drawn' = [drawn EXCEPT ![k] = Append(@, draw)]
    BY <2>1, DecideStep
  <2> HIDE DEF l
  <2>4. PICK v \in Vals :
          /\ path' = [path EXCEPT ![k] = Append(@, [ctx |-> c, value |-> v])]
          /\ \/ /\ ~matches
                /\ v = MostLikely(l, c)
                /\ drawn' = drawn
             \/ /\ matches
                /\ \E draw \in Draws :
                     /\ v = Sampled(l, c, draw)
                     /\ drawn' = [drawn EXCEPT ![k] = Append(@, draw)]
    BY <2>3, Zenon
  <2>5. /\ path' = [path EXCEPT ![k] = Append(@, [ctx |-> c, value |-> v])]
        /\ \/ /\ ~matches
              /\ v = MostLikely(before, c)
              /\ drawn' = drawn
           \/ /\ matches
              /\ \E draw \in Draws :
                   /\ v = Sampled(before, c, draw)
                   /\ drawn' = [drawn EXCEPT ![k] = Append(@, draw)]
    BY <2>2, <2>4, Zenon
  <2> QED BY <2>1, <2>3, <2>5, Zenon
<1>2. PICK j : j = cur[k]
  OBVIOUS
<1>3. j \in started \ made /\ Owner[j] = k /\ \A i \in started : Owner[i] = k => i <= j
  BY <1>2 DEF Decide, Scheduling, Batch, InOrder, IInv
<1>4. UNCHANGED <<prog, matches, started, made, cur, trials, before, tot>>
  BY DEF Decide, mode
<1>5. Learnt'
  BY <1>1, <1>4, StillLearnt
<1>6. InOrder'
  BY <1>4 DEF Batch, InOrder
<1>7. /\ started \subseteq Trials /\ Trials \subseteq Nat
      /\ Owner \in [Trials -> Threads]
  BY Sizes DEF IInv, Trials
<1>8. ASSUME NEW i \in started, i # j PROVE Taken(i)' = Taken(i)
  <2>1. i \notin made => Owner[i] # k
    BY <1>2, <1>8 DEF Batch, InOrder
  <2> QED BY <2>1, <1>1, <1>4, <1>7 DEF Taken, Typed
<1>9. PICK x \in Decision : x = [ctx |-> c, value |-> v]
  BY <1>1 DEF Decision
<1>10. PICK s \in Seq(Decision) : s = path[k]
  BY DEF Typed
<1>11. Taken(j) = s /\ Taken(j)' = Append(s, x)
  BY <1>1, <1>3, <1>4, <1>9, <1>10 DEF Taken, Typed
<1>12. /\ Len(s) \in Nat /\ Len(Append(s, x)) = Len(s) + 1
       /\ DOMAIN Append(s, x) = 1 .. Len(s) + 1 /\ DOMAIN s = 1 .. Len(s)
       /\ \A n \in 1 .. Len(s) : Append(s, x)[n] = s[n]
       /\ Append(s, x)[Len(s) + 1] = x
       /\ \A n \in 1 .. Len(s) + 1 : SubSeq(Append(s, x), 1, n - 1) = SubSeq(s, 1, n - 1)
       /\ SubSeq(s, 1, Len(s)) = s
  <2> HIDE DEF Decision
  <2> QED BY AppendKeeps
<1>13. \A d, t : /\ MostLikely(before, d)' = MostLikely(before, d)
                 /\ Asked(prog, t)' = Asked(prog, t)
  BY <1>4 DEF MostLikely, Weight, Known, Asked
<1>14. \A d, r : Sampled(before, d, r)' = Sampled(before, d, r)
  BY <1>4 DEF Sampled, Weight, Known
<1>15. ASSUME NEW i \in started PROVE Decided(i)'
  <2>1. Decided(i)
    BY DEF Batch
  <2>2. CASE i # j
    BY <2>1, <2>2, <1>4, <1>8, <1>13 DEF Decided
  <2>3. CASE i = j
    <3>1. ASSUME NEW n \in 1 .. Len(s) + 1
          PROVE  /\ Append(s, x)[n].ctx = Asked(prog, SubSeq(Append(s, x), 1, n - 1))
                 /\ ~matches => Append(s, x)[n].value = MostLikely(before, Append(s, x)[n].ctx)
      <4>1. CASE n = Len(s) + 1
        <5>1. SubSeq(Append(s, x), 1, n - 1) = s /\ Append(s, x)[n] = x
          BY <1>12, <4>1
        <5>2. x.ctx = c /\ x.value = v /\ c = Asked(prog, s)
          BY <1>1, <1>9, <1>10
        <5>3. ~matches => v = MostLikely(before, c)
          BY <1>1, Zenon
        <5>4. ~matches => x.value = MostLikely(before, x.ctx)
          BY <5>2, <5>3, Zenon
        <5> QED BY <5>1, <5>2, <5>4
      <4>2. CASE n # Len(s) + 1
        <5>1. n \in 1 .. Len(s)
          BY <4>2, <1>12
        <5>2. /\ SubSeq(Append(s, x), 1, n - 1) = SubSeq(s, 1, n - 1)
              /\ Append(s, x)[n] = s[n]
          BY <5>1, <1>12
        <5>3. /\ s[n].ctx = Asked(prog, SubSeq(s, 1, n - 1))
              /\ ~matches => s[n].value = MostLikely(before, s[n].ctx)
          BY <5>1, <2>1, <2>3, <1>11, <1>12 DEF Decided
        <5> QED BY <5>2, <5>3
      <4> QED BY <4>1, <4>2
    <3> QED BY <3>1, <2>3, <1>4, <1>11, <1>12, <1>13 DEF Decided
  <2> QED BY <2>2, <2>3
<1>16. ASSUME matches PROVE (\E first \in [Trials -> Nat] : Turns(first))'
  <2>1. PICK first \in [Trials -> Nat] : Turns(first)
    BY <1>16 DEF Batch
  <2>2. PICK draw \in Draws :
          v = Sampled(before, c, draw) /\ drawn' = [drawn EXCEPT ![k] = Append(@, draw)]
    BY <1>1, <1>16
  <2>3. PICK q \in Seq(Draws) : q = drawn[k]
    BY DEF Typed
  <2>4. /\ drawn'[k] = Append(q, draw) /\ Len(q) \in Nat
        /\ Len(Append(q, draw)) = Len(q) + 1
        /\ \A n \in 1 .. Len(q) : Append(q, draw)[n] = q[n]
        /\ Append(q, draw)[Len(q) + 1] = draw
        /\ \A h \in Threads : h # k => drawn'[h] = drawn[h]
    BY <2>2, <2>3 DEF Typed
  <2>5. \A i \in started : Earlier(i)' = Earlier(i)
    BY <1>4 DEF Earlier
  <2>6. \A i \in started : first[i] \in Nat /\ Owner[i] \in Threads /\ i \in Nat
    BY <1>7
  <2>7. ASSUME NEW i \in started PROVE j \notin Earlier(i) /\ Earlier(i) \subseteq started
    BY <1>3, <2>6 DEF Earlier
  <2>8. Turn(first, j)
    BY <1>3, <2>1 DEF Turns
  <2>9. Len(q) = first[j] + Len(s)
    BY <1>3, <1>11, <2>3, <2>8 DEF Turn
  <2> DEFINE f == first[j]
             a == Len(s)
             b == Len(q)
  <2>10. f \in Nat /\ a \in Nat /\ b \in Nat /\ b = f + a
    BY <1>3, <1>12, <2>4, <2>6, <2>9
  <2>11. \A n \in 1 .. a + 1 : n # a + 1 => n \in 1 .. a /\ f + n \in 1 .. b
    <3> HIDE DEF f, a, b
    <3> QED BY <2>10
  <2>12. f + (a + 1) = b + 1
    <3> HIDE DEF f, a, b
    <3> QED BY <2>10
  <2>13. Turn(first, j)'
    <3>1. ASSUME NEW n \in 1 .. Len(s) + 1
          PROVE  Append(s, x)[n].value = Sampled(before, Append(s, x)[n].ctx, Append(q, draw)[first[j] + n])
      <4>1. CASE n = Len(s) + 1
        <5>1. first[j] + n = Len(q) + 1
          BY <4>1, <2>12
        <5>2. Append(s, x)[n] = x /\ Append(q, draw)[first[j] + n] = draw
          BY <4>1, <5>1, <1>12, <2>4
        <5> QED BY <5>2, <1>9, <2>2
      <4>2. CASE n # Len(s) + 1
        <5>1. n \in 1 .. Len(s) /\ first[j] + n \in 1 .. Len(q)
          BY <4>2, <2>11
        <5>2. s[n].value = Sampled(before, s[n].ctx, q[first[j] + n])
          BY <5>1, <1>3, <1>11, <1>12, <2>3, <2>8 DEF Turn
        <5> QED BY <5>1, <5>2, <1>12, <2>4
      <4> QED BY <4>1, <4>2
    <3>2. ASSUME NEW i \in Earlier(j) PROVE Taken(i)' = Taken(i)
      BY <1>3, <1>8, <2>7
    <3>3. first[j] + Len(Append(s, x)) = Len(Append(q, draw))
      BY <1>12, <2>4, <2>12
    <3>4. first[j] + Len(Append(s, x)) <= Len(Append(q, draw))
      BY <3>3, <2>4
    <3>5. /\ Taken(j)' = Append(s, x) /\ drawn'[Owner[j]] = Append(q, draw)
          /\ Earlier(j)' = Earlier(j) /\ started' = started
      BY <1>3, <1>4, <1>11, <2>4, <2>5
    <3>6. /\ Earlier(j) = {} => first[j] = 0
          /\ \A i \in Earlier(j) :
               (\A h \in Earlier(j) : h <= i) => first[j] = first[i] + Len(Taken(i)')
      BY <2>8, <3>2 DEF Turn
    <3>7. \A n \in DOMAIN Append(s, x) :
            Append(s, x)[n].value
              = Sampled(before, Append(s, x)[n].ctx, Append(q, draw)[first[j] + n])'
      BY <3>1, <1>12, <1>14
    <3> QED BY <3>3, <3>4, <3>5, <3>6, <3>7 DEF Turn
  <2>14. ASSUME NEW i \in started, i # j PROVE Turn(first, i)'
    <3>1. Turn(first, i)
      BY <2>1 DEF Turns
    <3>2. ASSUME NEW h \in Earlier(i) PROVE Taken(h)' = Taken(h)
      BY <1>8, <2>7
    <3>3. Taken(i)' = Taken(i)
      BY <1>8, <2>14
    <3>4. Len(Taken(i)) \in Nat /\ DOMAIN Taken(i) = 1 .. Len(Taken(i))
      BY <1>7, <2>6 DEF Taken, Typed
    <3>5. CASE Owner[i] # k
      BY <3>1, <3>2, <3>3, <3>5, <2>4, <2>5, <2>6, <1>4, <1>14 DEF Turn
    <3>6. CASE Owner[i] = k
      <4>1. ~ (\A h \in started : Owner[h] = k => h <= i)
        BY <3>6, <1>3, <2>6, <2>14
      <4>2. first[i] + Len(Taken(i)) <= Len(q)
        BY <3>1, <3>6, <2>3 DEF Turn
      <4>3. \A n \in DOMAIN Taken(i) : Append(q, draw)[first[i] + n] = q[first[i] + n]
        BY <4>2, <3>4, <2>4, <2>6
      <4>4. first[i] + Len(Taken(i)) <= Len(q) + 1
        BY <4>2, <3>4, <2>4, <2>6
      <4>5. /\ Taken(i)' = Taken(i) /\ drawn'[Owner[i]] = Append(q, draw) /\ drawn[Owner[i]] = q
            /\ Earlier(i)' = Earlier(i) /\ started' = started
        BY <3>3, <3>6, <1>4, <2>3, <2>4, <2>5
      <4>6. /\ Earlier(i) = {} => first[i] = 0
            /\ \A m \in Earlier(i) :
                 (\A h \in Earlier(i) : h <= m) => first[i] = first[m] + Len(Taken(m)')
        BY <3>1, <3>2 DEF Turn
      <4>7. \A n \in DOMAIN Taken(i) :
              Taken(i)[n].value
                = Sampled(before, Taken(i)[n].ctx, Append(q, draw)[first[i] + n])
        BY <3>1, <4>3, <4>5 DEF Turn
      <4>8. first[i] + Len(Taken(i)) <= Len(Append(q, draw))
        BY <4>4, <2>4
      <4>9. PICK u : u = Taken(i)
        OBVIOUS
      <4>10. \A n \in DOMAIN u :
               u[n].value = Sampled(before, u[n].ctx, Append(q, draw)[first[i] + n])'
        BY <4>7, <4>9, <1>14
      <4>11. ~ (\A h \in started' : Owner[h] = Owner[i] => h <= i)
        BY <4>1, <4>5, <3>6
      <4> QED BY <4>5, <4>6, <4>8, <4>9, <4>10, <4>11 DEF Turn
    <3> QED BY <3>5, <3>6
  <2>15. ASSUME NEW h \in Threads, \A i \in started' : Owner[i] # h PROVE drawn'[h] = <<>>
    BY <1>3, <1>4, <2>1, <2>4, <2>15 DEF Turns
  <2>16. Turns(first)'
    BY <1>4, <2>13, <2>14, <2>15 DEF Turns
  <2> QED BY <2>16
<1> QED BY <1>4, <1>5, <1>6, <1>15, <1>16 DEF Batch

LEMMA FinishBatch ==
  ASSUME IInv, Typed, Batch, NEW k \in Threads, Finish(k)
  PROVE  Typed' /\ Batch'
<1>1. PICK j : j = cur[k]
  OBVIOUS
<1>2. j \in started \ made /\ j # 0 /\ Owner[j] = k /\ \A i \in started : Owner[i] = k => i <= j
  BY <1>1 DEF Finish, Batch, InOrder
<1>3. /\ trials' = [trials EXCEPT ![j] = path[k]] /\ made' = made \cup {j}
      /\ cur' = [cur EXCEPT ![k] = 0]
      /\ UNCHANGED <<prog, matches, started, path, drawn, before>>
  BY <1>1 DEF Finish, mode
<1>4. started \subseteq Trials /\ cur \in [Threads -> 0 .. BatchSize] /\ Owner \in [Trials -> Threads]
  BY Sizes DEF IInv
<1>5. Typed'
  BY <1>3 DEF Typed
<1>6. InOrder'
  <2>1. made' \subseteq started'
    BY <1>2, <1>3 DEF Batch, InOrder
  <2>2. ASSUME NEW h \in Threads, cur'[h] # 0
        PROVE  /\ cur'[h] \in started' \ made' /\ Owner[cur'[h]] = h
               /\ \A i \in started' : Owner[i] = h => i <= cur'[h]
    <3>1. h # k /\ cur'[h] = cur[h]
      BY <2>2, <1>3, <1>4
    <3> QED BY <2>2, <3>1, <1>2, <1>3 DEF Batch, InOrder
  <2>3. ASSUME NEW i \in started', i \notin made' PROVE cur'[Owner[i]] = i
    <3>1. i \in started /\ i \notin made /\ i # j
      BY <2>3, <1>3
    <3>2. cur[Owner[i]] = i
      BY <3>1 DEF Batch, InOrder
    <3>3. Owner[i] # k
      BY <3>1, <3>2, <1>1
    <3> QED BY <3>1, <3>2, <3>3, <1>3, <1>4
  <2>4. \A i \in started', m \in Trials \ started' : Owner[i] = Owner[m] => i < m
    BY <1>3 DEF Batch, InOrder
  <2> QED BY <2>1, <2>2, <2>3, <2>4 DEF InOrder
<1>7. ASSUME NEW i \in started PROVE Taken(i)' = Taken(i)
  BY <1>2, <1>3, <1>4 DEF Taken, Typed
<1>8. \A i \in started : Decided(i)'
  <2>1. \A c, t : /\ MostLikely(before, c)' = MostLikely(before, c)
                  /\ Asked(prog, t)' = Asked(prog, t)
    BY <1>3 DEF MostLikely, Weight, Known, Asked
  <2>2. ASSUME NEW i \in started, Decided(i) PROVE Decided(i)'
    BY <2>1, <2>2, <1>3, <1>7 DEF Decided
  <2> QED BY <2>2 DEF Batch
<1>9. ASSUME NEW first, Turns(first) PROVE Turns(first)'
  <2>1. \A c, r : Sampled(before, c, r)' = Sampled(before, c, r)
    BY <1>3 DEF Sampled, Weight, Known
  <2>2. ASSUME NEW i \in started PROVE Turn(first, i)'
    <3>1. Turn(first, i)
      BY <1>9 DEF Turns
    <3>2. Earlier(i)' = Earlier(i) /\ Earlier(i) \subseteq started
      BY <1>3 DEF Earlier
    <3>3. \A h \in Earlier(i) : Taken(h)' = Taken(h)
      BY <3>2, <1>7
    <3> QED BY <3>1, <3>2, <3>3, <2>1, <1>3, <1>7 DEF Turn
  <2> QED BY <2>2, <1>3, <1>9 DEF Turns
<1> QED BY <1>3, <1>5, <1>6, <1>8, <1>9 DEF Batch

LEMMA BatchesKept == Spec => []RInv
<1>1. Init => RInv
  <2> SUFFICES ASSUME Init PROVE RInv
    OBVIOUS
  <2>1. Typed /\ phase = "idle"
    BY Sizes DEF Init, Typed
  <2> QED BY <2>1 DEF RInv
<1>2. IInv /\ RInv /\ [Next]_vars => RInv'
  <2> SUFFICES ASSUME IInv, RInv, [Next]_vars PROVE RInv'
    OBVIOUS
  <2>1. ASSUME NewRegion, prog' \in Programs, matches' \in BOOLEAN,
               phase' \in {"parallel", "measure"} => ~isInfer'
        PROVE  RInv'
    BY <2>1, NewBatch DEF RInv
  <2>2. ASSUME UNCHANGED <<prog, matches, started, made, cur, path, trials, drawn, before,
                           isInfer, except>>,
               phase' = "parallel" => phase = "parallel" /\ UNCHANGED <<tot, obs>>,
               phase' = "measure" => phase \in {"parallel", "measure"}
        PROVE  RInv'
    <3>1. Typed'
      BY <2>2, SameBatch DEF RInv
    <3>2. phase' \in {"parallel", "measure"} => phase \in {"parallel", "measure"}
      BY <2>2
    <3>3. phase' \in {"parallel", "measure"} /\ ~except' => Batch'
      BY <3>2, <2>2, SameBatch DEF RInv
    <3>4. phase' = "parallel" => Learnt'
      BY <2>2 DEF RInv, Learnt, Fresh, InitObs
    <3> QED BY <3>1, <3>2, <3>3, <3>4, <2>2 DEF RInv
  <2>3. ASSUME NEW p \in Programs, StartTune(p) PROVE RInv'
    BY <2>3, <2>1 DEF StartTune
  <2>4. ASSUME NEW p \in Programs, StartSchedule(p) PROVE RInv'
    <3>1. /\ prog' \in Programs /\ phase' = "schedule"
          /\ UNCHANGED <<matches, path, trials, drawn>>
      BY <2>4 DEF StartSchedule, region, mode
    <3>2. Typed'
      BY <3>1 DEF RInv, Typed
    <3> QED BY <3>1, <3>2 DEF RInv
  <2>5. prog \in Programs /\ matches \in BOOLEAN
    BY DEF RInv, Typed
  <2>6. CASE EndSchedule
    BY <2>6, <2>1, <2>5 DEF EndSchedule, mode
  <2>7. ASSUME NEW k \in Threads, Begin(k) PROVE RInv'
    <3>1. phase = "parallel" /\ UNCHANGED <<phase, isInfer, except, tot, obs, before>>
      BY <2>7 DEF Begin, mode, learnt
    <3>2. ~except => Typed' /\ Batch'
      BY <2>7, <3>1, BeginBatch DEF RInv
    <3>3. Typed'
      BY <2>7 DEF RInv, Typed, Begin, mode
    <3>4. Learnt'
      BY <3>1 DEF RInv, Learnt, Fresh, InitObs
    <3> QED BY <3>1, <3>2, <3>3, <3>4 DEF RInv
  <2>8. ASSUME NEW k \in Threads, Decide(k) PROVE RInv'
    <3>1. UNCHANGED <<phase, isInfer, except, tot, before>> /\ obs' = Known(obs, Asked(prog, path[k]))
      BY <2>8 DEF Decide, mode
    <3>2. Typed'
      BY <2>8, DecideTyped DEF RInv
    <3>3. CASE phase = "parallel"
      <4>1. Learnt'
        BY <3>1, <3>3, StillLearnt DEF RInv
      <4>2. ~except => Batch'
        BY <2>8, <3>3, DecideBatch DEF RInv
      <4> QED BY <3>1, <3>2, <3>3, <4>1, <4>2 DEF RInv
    <3>4. CASE phase # "parallel"
      <4>1. phase = "schedule"
        BY <2>8, <3>4 DEF Decide, Scheduling
      <4> QED BY <3>1, <3>2, <4>1 DEF RInv
    <3> QED BY <3>3, <3>4
  <2>9. ASSUME NEW k \in Threads, Finish(k) PROVE RInv'
    <3>1. phase = "parallel" /\ UNCHANGED <<phase, isInfer, except, tot, obs, before>>
      BY <2>9 DEF Finish, mode, learnt
    <3>2. ~except => Batch'
      BY <2>9, <3>1, FinishBatch DEF RInv
    <3>3. Typed'
      BY <2>9 DEF RInv, Typed, Finish, mode
    <3>4. Learnt'
      BY <3>1 DEF RInv, Learnt, Fresh, InitObs
    <3> QED BY <3>1, <3>2, <3>3, <3>4 DEF RInv
  <2>10. ASSUME NEW k \in Threads, Throw(k) PROVE RInv'
    <3>1. /\ phase = "parallel" /\ except' = TRUE
          /\ UNCHANGED <<phase, isInfer, tot, obs, before, prog, matches, path, trials, drawn>>
      BY <2>10 DEF Throw, mode, learnt, Raised
    <3>2. Typed' /\ Learnt'
      BY <3>1 DEF RInv, Learnt, Fresh, InitObs, Typed
    <3> QED BY <3>1, <3>2 DEF RInv
  <2>11. ASSUME NEW k \in Threads, Leave(k) PROVE RInv'
    <3>1. UNCHANGED <<prog, matches, started, made, cur, path, trials, drawn, before, isInfer,
                      except, phase, tot, obs>>
      BY <2>11 DEF Leave, mode, learnt
    <3> QED BY <3>1, <2>2
  <2>12. ASSUME Rethrow PROVE RInv'
    BY <2>12, <2>1, <2>5 DEF Rethrow
  <2>13. CASE Join
    <3>1. CASE except
      BY <2>12, <2>13, <3>1 DEF Join
    <3>2. CASE ~except
      <4>1. /\ phase = "parallel" /\ phase' = "measure"
            /\ UNCHANGED <<prog, matches, started, made, cur, path, trials, drawn, before, isInfer,
                           except, tot, obs>>
        BY <2>13, <3>2 DEF Join, mode, learnt, region
      <4> QED BY <4>1, <2>2
    <3> QED BY <3>1, <3>2
  <2>14. CASE Measure
    <3>1. /\ phase = "measure"
          /\ UNCHANGED <<prog, matches, started, made, cur, path, trials, drawn, before, isInfer,
                         except, phase>>
      BY <2>14 DEF Measure, mode, region
    <3> QED BY <3>1, <2>2
  <2>15. CASE MeasureThrows
    BY <2>12, <2>15 DEF MeasureThrows
  <2>16. CASE NextBatch
    <3>1. phase = "measure" /\ UNCHANGED <<isInfer, prog, matches>> /\ NewRegion
      BY <2>16 DEF NextBatch, mode
    <3>2. ~isInfer
      BY <3>1 DEF RInv
    <3> QED BY <3>1, <3>2, <2>1, <2>5
  <2>17. CASE EndTune
    BY <2>17, <2>1, <2>5 DEF EndTune
  <2>18. CASE UNCHANGED vars
    <3>1. UNCHANGED <<prog, matches, started, made, cur, path, trials, drawn, before, isInfer,
                      except, phase, tot, obs>>
      BY <2>18 DEF vars, mode, learnt, region
    <3> QED BY <3>1, <2>2
  <2> QED
    BY <2>3, <2>4, <2>6, <2>7, <2>8, <2>9, <2>10, <2>11, <2>13, <2>14, <2>15, <2>16, <2>17, <2>18
    DEF Next
<1> QED BY <1>1, <1>2, Inductive, PTL DEF Spec

\* A batch decides the same in every interleaving of its threads: each decision
\* of a trial follows from what was known when the batch began and from one
\* draw of the trial's own thread, whose draws go to its trials in order.
THEOREM BatchesReproducible == Spec => []Reproducible
<1>1. IInv /\ RInv => Reproducible
  <2> SUFFICES ASSUME IInv, RInv, phase \in {"parallel", "measure"}, ~except
               PROVE  /\ \A j \in made : \A n \in DOMAIN trials[j] :
                           /\ trials[j][n].ctx = Asked(prog, SubSeq(trials[j], 1, n - 1))
                           /\ ~matches => trials[j][n].value = MostLikely(before, trials[j][n].ctx)
                      /\ matches =>
                           \E first \in [made -> UNION {0 .. Len(drawn[k]) : k \in Threads}] :
                             /\ InTurn(first)
                             /\ \A j \in made : \A n \in DOMAIN trials[j] :
                                  /\ first[j] + n <= Len(drawn[Owner[j]])
                                  /\ trials[j][n].value =
                                       Sampled(before, trials[j][n].ctx, drawn[Owner[j]][first[j] + n])
    BY DEF Reproducible
  <2>1. Batch /\ Typed
    BY DEF RInv
  <2>2. /\ made \subseteq started /\ started \subseteq Trials /\ Trials \subseteq Nat
        /\ Owner \in [Trials -> Threads]
    BY <2>1, Sizes DEF Batch, InOrder, IInv, Trials
  <2>3. ASSUME NEW j \in made PROVE Taken(j) = trials[j]
    BY DEF Taken
  <2>4. ASSUME NEW j \in made PROVE Decided(j)
    BY <2>1, <2>2 DEF Batch
  <2>5. ASSUME matches
        PROVE  \E first \in [made -> UNION {0 .. Len(drawn[k]) : k \in Threads}] :
                 /\ InTurn(first)
                 /\ \A j \in made : \A n \in DOMAIN trials[j] :
                      /\ first[j] + n <= Len(drawn[Owner[j]])
                      /\ trials[j][n].value =
                           Sampled(before, trials[j][n].ctx, drawn[Owner[j]][first[j] + n])
    <3>1. PICK g \in [Trials -> Nat] : Turns(g)
      BY <2>1, <2>5 DEF Batch
    <3>2. PICK first : first = [j \in made |-> g[j]]
      OBVIOUS
    <3>3. \A j \in made : first[j] = g[j] /\ g[j] \in Nat
      BY <3>2, <2>2
    <3>4. ASSUME NEW j \in made
          PROVE  /\ Len(trials[j]) \in Nat /\ DOMAIN trials[j] = 1 .. Len(trials[j])
                 /\ Len(drawn[Owner[j]]) \in Nat
                 /\ first[j] + Len(trials[j]) <= Len(drawn[Owner[j]])
      <4>1. first[j] + Len(trials[j]) <= Len(drawn[Owner[j]])
        BY <3>1, <3>3, <2>2, <2>3 DEF Turns, Turn
      <4>2. trials[j] \in Seq(Decision) /\ drawn[Owner[j]] \in Seq(Draws)
        BY <2>1, <2>2 DEF Typed
      <4> HIDE DEF Decision
      <4> QED BY <4>1, <4>2
    <3>5. first \in [made -> UNION {0 .. Len(drawn[k]) : k \in Threads}]
      <4>1. ASSUME NEW j \in made PROVE first[j] \in 0 .. Len(drawn[Owner[j]]) /\ Owner[j] \in Threads
        BY <3>3, <3>4, <2>2
      <4> QED BY <4>1, <3>2
    <3>6. ASSUME NEW j \in made
          PROVE  Earlier(j) = {i \in made : i < j /\ Owner[i] = Owner[j]}
      <4>1. ASSUME NEW i \in started, i < j, Owner[i] = Owner[j] PROVE i \in made
        <5>1. SUFFICES ASSUME i \notin made PROVE FALSE
          OBVIOUS
        <5>2. cur[Owner[i]] = i /\ Owner[i] \in Threads /\ i # 0
          BY <5>1, <2>1, <2>2 DEF Batch, InOrder, Trials
        <5>3. j <= i
          BY <5>2, <4>1, <2>1, <2>2 DEF Batch, InOrder
        <5> QED BY <5>3, <4>1, <2>2
      <4> QED BY <4>1, <2>2 DEF Earlier
    <3>7. InTurn(first)
      <4>1. ASSUME NEW j \in made
            PROVE  LET earlier == {i \in made : i < j /\ Owner[i] = Owner[j]} IN
                   /\ earlier = {} => first[j] = 0
                   /\ \A i \in earlier :
                        (\A h \in earlier : h <= i) => first[j] = first[i] + Len(trials[i])
        <5>1. Turn(g, j)
          BY <3>1, <2>2 DEF Turns
        <5>2. /\ Earlier(j) = {} => first[j] = 0
              /\ \A i \in Earlier(j) :
                   (\A h \in Earlier(j) : h <= i) => first[j] = g[i] + Len(Taken(i))
          BY <5>1, <3>3 DEF Turn
        <5>3. \A i \in Earlier(j) : g[i] = first[i] /\ Taken(i) = trials[i]
          BY <3>3, <3>6, <2>3
        <5> QED BY <5>2, <5>3, <3>6
      <4> QED BY <4>1 DEF InTurn
    <3>8. ASSUME NEW j \in made, NEW n \in DOMAIN trials[j]
          PROVE  /\ first[j] + n <= Len(drawn[Owner[j]])
                 /\ trials[j][n].value =
                      Sampled(before, trials[j][n].ctx, drawn[Owner[j]][first[j] + n])
      <4>1. first[j] + n <= Len(drawn[Owner[j]])
        BY <3>3, <3>4
      <4> QED BY <4>1, <3>1, <3>3, <2>2, <2>3 DEF Turns, Turn
    <3> QED BY <3>5, <3>7, <3>8
  <2> QED BY <2>3, <2>4, <2>5 DEF Decided
<1> QED BY <1>1, Inductive, BatchesKept, PTL

-----------------------------------------------------------------------------
Entry == [trace : Seq(Decision), time : Nat, stddev : Nat]

AtMost(t, u) == ~Before(u, t)

\* There are variables for all decisions of a trace.
Familiar(t) == \A n \in DOMAIN t : ToSet(Conds(t[n].ctx)) \subseteq DOMAIN obs

\* The traces are sorted, and no variable is made for a decision that has
\* already taught something.
PInv ==
  /\ addr \in Addresses
  /\ next \in 1 .. BatchSize + 1
  /\ tot \in [Vals -> Nat] /\ obs \in [DOMAIN obs -> [Vals -> Nat]]
  /\ traces \in Seq(Entry)
  /\ \A i, j \in DOMAIN traces : i < j => AtMost(traces[i].trace, traces[j].trace)
  /\ \A i \in DOMAIN traces : Familiar(traces[i].trace)
  /\ \A k \in Threads : Familiar(path[k])
  /\ \A j \in Trials : Familiar(trials[j])
  /\ PairwiseCounts

\* t and u have what is before d in common, and no more.
Parts(t, u, d) ==
  /\ d \in 1 .. Len(t) + 1 /\ d <= Len(u) + 1
  /\ \A k \in 1 .. d - 1 : t[k] = u[k]
  /\ d <= Len(t) /\ d <= Len(u) => t[d] # u[d]

LEMMA PartsOnce ==
  ASSUME NEW t \in Seq(Decision), NEW u \in Seq(Decision), NEW c, NEW d, Parts(t, u, c), Parts(t, u, d)
  PROVE  c = d
<1> HIDE DEF Decision
<1>1. /\ Len(t) \in Nat /\ Len(u) \in Nat /\ c \in Nat /\ d \in Nat
      /\ c >= 1 /\ d >= 1
      /\ c <= Len(t) + 1 /\ c <= Len(u) + 1 /\ d <= Len(t) + 1 /\ d <= Len(u) + 1
  BY DEF Parts
<1>2. ASSUME c < d PROVE FALSE
  <2>1. t[c] = u[c]
    BY <1>1, <1>2 DEF Parts
  <2> QED BY <2>1, <1>1, <1>2 DEF Parts
<1>3. ASSUME d < c PROVE FALSE
  <2>1. t[d] = u[d]
    BY <1>1, <1>3 DEF Parts
  <2> QED BY <2>1, <1>1, <1>3 DEF Parts
<1> QED BY <1>1, <1>2, <1>3

LEMMA PartsBoth ==
  ASSUME NEW t \in Seq(Decision), NEW u \in Seq(Decision), NEW d, Parts(t, u, d)
  PROVE  Parts(u, t, d)
<1> HIDE DEF Decision
<1>1. Len(t) \in Nat /\ Len(u) \in Nat
  OBVIOUS
<1> QED BY <1>1 DEF Parts

\* A search that begins in the part that is common finds where it ends.
LEMMA FirstDiffFrom ==
  ASSUME NEW t \in Seq(Decision), NEW u \in Seq(Decision), NEW d, Parts(t, u, d), NEW n \in 1 .. d
  PROVE  FirstDiff(t, u, n) = d
<1> HIDE DEF Decision
<1> DEFINE S == {k \in n .. Len(t) + 1 : k > Len(t) \/ k > Len(u) \/ t[k] # u[k]}
<1>1. Len(t) \in Nat /\ Len(u) \in Nat /\ d \in Nat /\ n \in Nat
  BY DEF Parts
<1>2. d \in S
  BY <1>1 DEF Parts
<1>3. S \subseteq Nat
  BY <1>1
<1>4. ASSUME NEW k \in S PROVE d <= k
  <2>1. k \in Nat /\ k >= n /\ k >= 1
    BY <1>1
  <2>2. ASSUME k < d PROVE FALSE
    <3>1. k \in 1 .. d - 1 /\ k <= Len(t) /\ k <= Len(u)
      BY <1>1, <2>1, <2>2 DEF Parts
    <3>2. t[k] = u[k]
      BY <3>1 DEF Parts
    <3> QED BY <3>1, <3>2, <1>1
  <2> QED BY <2>1, <2>2, <1>1
<1>5. FirstDiff(t, u, n) = Min(S)
  BY DEF FirstDiff
<1> HIDE DEF S
<1>6. Min(S) \in S /\ \A k \in S : Min(S) <= k
  BY <1>2, <1>3, MinIn
<1>7. Min(S) = d
  <2>1. PICK m : m = Min(S)
    OBVIOUS
  <2>2. m \in S /\ m <= d
    BY <1>2, <1>6, <2>1
  <2>3. m \in Nat /\ d <= m
    BY <1>3, <1>4, <2>2
  <2> QED BY <1>1, <2>1, <2>2, <2>3
<1> QED BY <1>5, <1>7

LEMMA PartsExist ==
  ASSUME NEW t \in Seq(Decision), NEW u \in Seq(Decision)
  PROVE  \E d : Parts(t, u, d)
<1> HIDE DEF Decision
<1> DEFINE S == {k \in 1 .. Len(t) + 1 : k > Len(t) \/ k > Len(u) \/ t[k] # u[k]}
<1>1. Len(t) \in Nat /\ Len(u) \in Nat
  OBVIOUS
<1>2. Len(t) + 1 \in S /\ S \subseteq Nat
  BY <1>1
<1>3. PICK d \in S : \A k \in S : d <= k
  BY <1>2, LeastNat
<1>4. d \in 1 .. Len(t) + 1 /\ (d <= Len(t) /\ d <= Len(u) => t[d] # u[d])
  BY <1>1
<1>5. ASSUME NEW k \in 1 .. d - 1 PROVE k <= Len(u) /\ t[k] = u[k]
  <2>1. k \in 1 .. Len(t) + 1 /\ k < d /\ k <= Len(t)
    BY <1>1, <1>4
  <2>2. k \notin S
    BY <1>3, <1>2, <2>1
  <2> QED BY <2>1, <2>2, <1>1
<1>6. d <= Len(u) + 1
  <2>1. ASSUME d > Len(u) + 1 PROVE FALSE
    <3>1. Len(u) + 1 \in 1 .. d - 1
      BY <1>1, <1>4, <2>1
    <3> QED BY <3>1, <1>5, <1>1
  <2> QED BY <2>1, <1>1, <1>4
<1> QED BY <1>4, <1>5, <1>6 DEF Parts

\* The order of the items of the traces.
Less(x, y) == addr[x.ctx] < addr[y.ctx] \/ (x.ctx = y.ctx /\ x.value < y.value)

LEMMA LessOrders ==
  ASSUME addr \in Addresses, NEW x \in Decision, NEW y \in Decision, NEW z \in Decision
  PROVE  /\ ~Less(x, x)
         /\ Less(x, y) => ~Less(y, x)
         /\ x # y => Less(x, y) \/ Less(y, x)
         /\ Less(x, y) /\ Less(y, z) => Less(x, z)
<1>1. addr \in [Contexts -> Nat] /\ \A c, d \in Contexts : addr[c] = addr[d] => c = d
  BY TuneAssumption DEF TuneAssumption
<1>2. /\ x.ctx \in Contexts /\ y.ctx \in Contexts /\ z.ctx \in Contexts
      /\ x.value \in Nat /\ y.value \in Nat /\ z.value \in Nat
      /\ (x.ctx = y.ctx /\ x.value = y.value => x = y)
  BY DEF Decision, Vals
<1>3. addr[x.ctx] \in Nat /\ addr[y.ctx] \in Nat /\ addr[z.ctx] \in Nat
  BY <1>1, <1>2
<1> QED BY <1>1, <1>2, <1>3 DEF Less

LEMMA AtMostIs ==
  ASSUME addr \in Addresses, NEW t \in Seq(Decision), NEW u \in Seq(Decision), NEW d, Parts(t, u, d)
  PROVE  AtMost(t, u) <=> d > Len(t) \/ (d <= Len(u) /\ Less(t[d], u[d]))
<1>1. Len(t) \in Nat /\ Len(u) \in Nat /\ d \in Nat /\ d >= 1
      /\ (d <= Len(t) /\ d <= Len(u) => t[d] # u[d])
  BY DEF Parts
<1>2. FirstDiff(u, t, 1) = d
  BY <1>1, PartsBoth, FirstDiffFrom
<1>3. Before(u, t) <=> d <= Len(t) /\ (d <= Len(u) => Less(u[d], t[d]))
  BY <1>2 DEF Before, Less
<1>4. ASSUME d <= Len(t), d <= Len(u) PROVE t[d] \in Decision /\ u[d] \in Decision
  <2> HIDE DEF Decision
  <2> QED BY <1>1, <1>4
<1>5. d <= Len(t) /\ d <= Len(u) => (Less(t[d], u[d]) <=> ~Less(u[d], t[d]))
  BY <1>1, <1>4, LessOrders
<1> QED BY <1>1, <1>3, <1>5 DEF AtMost

LEMMA AtMostTotal ==
  ASSUME addr \in Addresses, NEW t \in Seq(Decision), NEW u \in Seq(Decision), Before(t, u)
  PROVE  AtMost(t, u)
<1>1. PICK d : Parts(t, u, d)
  BY PartsExist
<1>2. Parts(u, t, d)
  BY <1>1, PartsBoth
<1>3. Len(t) \in Nat /\ Len(u) \in Nat /\ d \in Nat /\ d >= 1
      /\ (d <= Len(t) /\ d <= Len(u) => t[d] # u[d])
  BY <1>1 DEF Parts
<1>4. ~(d > Len(u) \/ (d <= Len(t) /\ Less(u[d], t[d])))
  BY <1>2, AtMostIs DEF AtMost
<1>5. ASSUME d <= Len(t), d <= Len(u) PROVE t[d] \in Decision /\ u[d] \in Decision
  <2> HIDE DEF Decision
  <2> QED BY <1>3, <1>5
<1>6. d <= Len(t) /\ d <= Len(u) => (Less(t[d], u[d]) \/ Less(u[d], t[d]))
  BY <1>3, <1>5, LessOrders
<1> QED BY <1>1, <1>3, <1>4, <1>6, AtMostIs

\* Of three traces in order, the outer two have in common what both have in
\* common with the one between them.
LEMMA Between ==
  ASSUME addr \in Addresses,
         NEW t \in Seq(Decision), NEW u \in Seq(Decision), NEW w \in Seq(Decision),
         AtMost(t, u), AtMost(u, w), NEW a, NEW b, Parts(t, u, a), Parts(u, w, b)
  PROVE  /\ AtMost(t, w)
         /\ \E d : Parts(t, w, d) /\ d <= a /\ d <= b
<1>1. /\ Len(t) \in Nat /\ Len(u) \in Nat /\ Len(w) \in Nat
      /\ a \in Nat /\ a >= 1 /\ a <= Len(t) + 1 /\ a <= Len(u) + 1
      /\ b \in Nat /\ b >= 1 /\ b <= Len(u) + 1 /\ b <= Len(w) + 1
  BY DEF Parts
<1>2. /\ \A k \in Nat : k >= 1 /\ k < a => t[k] = u[k]
      /\ \A k \in Nat : k >= 1 /\ k < b => u[k] = w[k]
      /\ a <= Len(t) /\ a <= Len(u) => t[a] # u[a]
      /\ b <= Len(u) /\ b <= Len(w) => u[b] # w[b]
  BY <1>1 DEF Parts
<1>3. /\ a > Len(t) \/ (a <= Len(u) /\ Less(t[a], u[a]))
      /\ b > Len(u) \/ (b <= Len(w) /\ Less(u[b], w[b]))
  BY AtMostIs
<1>4. \A k \in Nat : k >= 1 =>
        /\ k <= Len(t) => t[k] \in Decision
        /\ k <= Len(u) => u[k] \in Decision
        /\ k <= Len(w) => w[k] \in Decision
  <2> HIDE DEF Decision
  <2> QED BY <1>1
<1>5. ASSUME NEW d \in Nat, Parts(t, w, d), d <= a, d <= b,
             d > Len(t) \/ (d <= Len(w) /\ Less(t[d], w[d]))
      PROVE  AtMost(t, w) /\ \E c : Parts(t, w, c) /\ c <= a /\ c <= b
  BY <1>5, AtMostIs
<1>6. CASE a < b
  <2>1. a <= Len(u) /\ a <= Len(w) /\ u[a] = w[a]
    BY <1>1, <1>2, <1>6
  <2>2. Parts(t, w, a)
    BY <1>1, <1>2, <1>6, <2>1 DEF Parts
  <2> QED BY <1>1, <1>3, <1>5, <1>6, <2>1, <2>2
<1>7. CASE b < a
  <2>1. b <= Len(u) /\ b <= Len(t) /\ u[b] = t[b]
    BY <1>1, <1>2, <1>7
  <2>2. Parts(t, w, b)
    BY <1>1, <1>2, <1>7, <2>1 DEF Parts
  <2> QED BY <1>1, <1>3, <1>5, <1>7, <2>1, <2>2
<1>8. CASE a = b
  <2>1. CASE a > Len(t)
    <3>1. Parts(t, w, a)
      BY <1>1, <1>2, <1>8, <2>1 DEF Parts
    <3> QED BY <1>1, <1>5, <1>8, <2>1, <3>1
  <2>2. CASE a <= Len(t)
    <3>1. a <= Len(u) /\ a <= Len(w) /\ Less(t[a], u[a]) /\ Less(u[a], w[a])
      BY <1>1, <1>3, <1>8, <2>2
    <3>2. Less(t[a], w[a]) /\ t[a] # w[a]
      BY <1>1, <1>4, <2>2, <3>1, LessOrders
    <3>3. Parts(t, w, a)
      BY <1>1, <1>2, <1>8, <2>2, <3>1, <3>2 DEF Parts
    <3> QED BY <1>1, <1>5, <1>8, <3>1, <3>2, <3>3
  <2> QED BY <1>1, <2>1, <2>2
<1> QED BY <1>1, <1>6, <1>7, <1>8

-----------------------------------------------------------------------------
\* A counter that is increased at the steps that are in T.
LEMMA Tally ==
  ASSUME NEW n \in Nat, NEW a \in [0 .. n -> Nat], NEW T,
         \A k \in 1 .. n : a[k] = a[k - 1] + (IF k \in T THEN 1 ELSE 0)
  PROVE  a[n] = a[0] + Cardinality({k \in 1 .. n : k \in T})
<1> DEFINE In(m) == {k \in 1 .. m : k \in T}
           S == {m \in Nat : m <= n => IsFiniteSet(In(m)) /\ a[m] = a[0] + Cardinality(In(m))}
<1>1. 0 \in S
  <2>1. In(0) = {}
    OBVIOUS
  <2>2. a[0] \in Nat
    OBVIOUS
  <2> QED BY <2>1, <2>2, FS_EmptySet
<1>2. ASSUME NEW m \in Nat, m \in S PROVE m + 1 \in S
  <2> SUFFICES ASSUME m + 1 <= n
               PROVE  IsFiniteSet(In(m + 1)) /\ a[m + 1] = a[0] + Cardinality(In(m + 1))
    OBVIOUS
  <2>1. IsFiniteSet(In(m)) /\ a[m] = a[0] + Cardinality(In(m)) /\ a[0] \in Nat
    BY <1>2
  <2>2. Cardinality(In(m)) \in Nat
    BY <2>1, FS_CardinalityType
  <2>3. m + 1 \notin In(m)
    OBVIOUS
  <2>4. a[m + 1] = a[m] + (IF m + 1 \in T THEN 1 ELSE 0)
    <3>1. m + 1 \in 1 .. n /\ (m + 1) - 1 = m
      OBVIOUS
    <3> QED BY <3>1
  <2>5. CASE m + 1 \in T
    <3>1. In(m + 1) = In(m) \cup {m + 1}
      BY <2>5
    <3> HIDE DEF In
    <3>2. IsFiniteSet(In(m + 1)) /\ Cardinality(In(m + 1)) = Cardinality(In(m)) + 1
      BY <2>1, <2>3, <3>1, FS_AddElement
    <3> QED BY <2>1, <2>2, <2>4, <2>5, <3>2
  <2>6. CASE m + 1 \notin T
    <3>1. In(m + 1) = In(m)
      BY <2>6
    <3> HIDE DEF In
    <3> QED BY <2>1, <2>2, <2>4, <2>6, <3>1
  <2> QED BY <2>5, <2>6
<1>3. Nat \subseteq S
  <2> HIDE DEF S
  <2> QED BY <1>1, <1>2, InductNat
<1>4. n \in S
  BY <1>3
<1>5. a[n] = a[0] + Cardinality(In(n))
  BY <1>4
<1> QED BY <1>5

\* A comparison of e and f teaches e the decisions of W.
Lesson(e, f, W) ==
  /\ Faster(e, f)
  /\ \E n \in DOMAIN e.trace \cap DOMAIN f.trace : Parts(e.trace, f.trace, n) /\ e.trace[n] \in W

Taught(e, f, W) == Lesson(e, f, W) \/ Lesson(f, e, W)

\* How many of the traces of fs have taught decisions of W, with e.
TaughtBy(e, fs, W) == Cardinality({n \in 1 .. Len(fs) : Taught(e, fs[n], W)})

\* The decisions that one counter of a variable counts, and one of totCnt_.
OfCond(d, v) == {o \in Decision : o.value = v /\ d \in ToSet(Conds(o.ctx))}
OfValue(v) == {o \in Decision : o.value = v}

LEMMA FasterOneWay ==
  ASSUME NEW e \in Entry, NEW f \in Entry, Faster(e, f)
  PROVE  ~Faster(f, e)
<1>1. e.time \in Nat /\ e.stddev \in Nat /\ f.time \in Nat /\ f.stddev \in Nat
  BY DEF Entry
<1> QED BY <1>1 DEF Faster

LEMMA LessonIs ==
  ASSUME NEW e \in Entry, NEW f \in Entry, NEW d, Parts(e.trace, f.trace, d), NEW W
  PROVE  Lesson(e, f, W) <=>
           Faster(e, f) /\ d <= Len(e.trace) /\ d <= Len(f.trace) /\ e.trace[d] \in W
<1> HIDE DEF Decision
<1>1. e.trace \in Seq(Decision) /\ f.trace \in Seq(Decision)
  BY DEF Entry
<1>2. /\ Len(e.trace) \in Nat /\ DOMAIN e.trace = 1 .. Len(e.trace)
      /\ Len(f.trace) \in Nat /\ DOMAIN f.trace = 1 .. Len(f.trace)
  BY <1>1
<1>3. d \in Nat /\ d >= 1
  BY <1>2 DEF Parts
<1>4. d \in DOMAIN e.trace \cap DOMAIN f.trace <=> d <= Len(e.trace) /\ d <= Len(f.trace)
  BY <1>2, <1>3
<1>5. \A n : Parts(e.trace, f.trace, n) => n = d
  BY <1>1, PartsOnce
<1> QED BY <1>4, <1>5 DEF Lesson

\* What doObserve knows, with variables for the conditions in D.
Sums(D) == [common : Nat, tot : [Vals -> Nat], obs : [D -> [Vals -> Nat]]]

LEMMA CountedIs ==
  ASSUME NEW D, NEW s \in Sums(D), NEW o \in Decision
  PROVE  /\ Counted(s, o) \in Sums(D)
         /\ Counted(s, o).common = s.common
         /\ \A v \in Vals : Counted(s, o).tot[v] = s.tot[v] + (IF o \in OfValue(v) THEN 1 ELSE 0)
         /\ \A x \in D, v \in Vals :
              Counted(s, o).obs[x][v] = s.obs[x][v] + (IF o \in OfCond(x, v) THEN 1 ELSE 0)
<1>1. /\ s.common \in Nat /\ s.tot \in [Vals -> Nat] /\ s.obs \in [D -> [Vals -> Nat]]
      /\ DOMAIN s.obs = D
  BY DEF Sums
<1>2. o.value \in Vals
  BY DEF Decision
<1> DEFINE T == [s.tot EXCEPT ![o.value] = @ + 1]
           O == [d \in DOMAIN s.obs |->
                   IF d \in ToSet(Conds(o.ctx)) THEN [s.obs[d] EXCEPT ![o.value] = @ + 1]
                   ELSE s.obs[d]]
<1>3. /\ Counted(s, o) = [s EXCEPT !.tot = T, !.obs = O]
  BY DEF Counted
<1>4. T \in [Vals -> Nat] /\ \A v \in Vals : T[v] = s.tot[v] + (IF o \in OfValue(v) THEN 1 ELSE 0)
  BY <1>1, <1>2 DEF OfValue
<1>5. ASSUME NEW x \in D
      PROVE  /\ O[x] \in [Vals -> Nat]
             /\ \A v \in Vals : O[x][v] = s.obs[x][v] + (IF o \in OfCond(x, v) THEN 1 ELSE 0)
  <2>1. s.obs[x] \in [Vals -> Nat]
    BY <1>1
  <2>2. CASE x \in ToSet(Conds(o.ctx))
    <3>1. O[x] = [s.obs[x] EXCEPT ![o.value] = @ + 1]
      BY <1>1, <2>2
    <3> HIDE DEF O
    <3> QED BY <2>1, <2>2, <1>2, <3>1 DEF OfCond
  <2>3. CASE x \notin ToSet(Conds(o.ctx))
    <3>1. O[x] = s.obs[x]
      BY <1>1, <2>3
    <3> HIDE DEF O
    <3> QED BY <2>1, <2>3, <3>1 DEF OfCond
  <2> QED BY <2>2, <2>3
<1>6. O \in [D -> [Vals -> Nat]]
  BY <1>1, <1>5
<1> HIDE DEF T, O
<1>7. /\ Counted(s, o).common = s.common /\ Counted(s, o).tot = T /\ Counted(s, o).obs = O
      /\ Counted(s, o) \in Sums(D)
  BY <1>1, <1>3, <1>4, <1>6 DEF Sums
<1> QED BY <1>4, <1>5, <1>7

\* doObserve counts what the comparison teaches, and finds how much e and f
\* have in common, if it begins where they do not differ yet.
LEMMA ComparedIs ==
  ASSUME NEW D, NEW s \in Sums(D), NEW e \in Entry, NEW f \in Entry,
         NEW d, Parts(e.trace, f.trace, d), s.common \in 1 .. d
  PROVE  /\ Compared(s, e, f) \in Sums(D)
         /\ Compared(s, e, f).common = d
         /\ \A v \in Vals :
              Compared(s, e, f).tot[v] = s.tot[v] + (IF Taught(e, f, OfValue(v)) THEN 1 ELSE 0)
         /\ \A x \in D, v \in Vals :
              Compared(s, e, f).obs[x][v] =
                s.obs[x][v] + (IF Taught(e, f, OfCond(x, v)) THEN 1 ELSE 0)
<1>1. e.trace \in Seq(Decision) /\ f.trace \in Seq(Decision)
  BY DEF Entry
<1>2. FirstDiff(e.trace, f.trace, s.common) = d
  BY <1>1, FirstDiffFrom
<1>3. d \in Nat /\ d >= 1 /\ Len(e.trace) \in Nat /\ Len(f.trace) \in Nat
  BY <1>1 DEF Parts
<1>4. PICK here : here = [s EXCEPT !.common = d]
  OBVIOUS
<1>5. here \in Sums(D) /\ here.common = d /\ here.tot = s.tot /\ here.obs = s.obs
  BY <1>3, <1>4 DEF Sums
<1>6. Compared(s, e, f) =
        IF d > Len(e.trace) \/ d > Len(f.trace) THEN here
        ELSE IF Faster(e, f) THEN Counted(here, e.trace[d])
        ELSE IF Faster(f, e) THEN Counted(here, f.trace[d])
        ELSE here
  BY <1>2, <1>4 DEF Compared
<1>7. Parts(f.trace, e.trace, d)
  BY <1>1, PartsBoth
<1>8. \A W : Lesson(e, f, W) <=>
               Faster(e, f) /\ d <= Len(e.trace) /\ d <= Len(f.trace) /\ e.trace[d] \in W
  BY LessonIs
<1>9. \A W : Lesson(f, e, W) <=>
               Faster(f, e) /\ d <= Len(e.trace) /\ d <= Len(f.trace) /\ f.trace[d] \in W
  BY <1>7, LessonIs
<1>10. s.tot \in [Vals -> Nat] /\ s.obs \in [D -> [Vals -> Nat]]
  BY DEF Sums
<1>11. CASE d > Len(e.trace) \/ d > Len(f.trace)
  <2>1. Compared(s, e, f) = here
    BY <1>6, <1>11
  <2>2. \A W : ~Taught(e, f, W)
    BY <1>3, <1>8, <1>9, <1>11 DEF Taught
  <2> QED BY <2>1, <2>2, <1>5, <1>10
<1>12. CASE d <= Len(e.trace) /\ d <= Len(f.trace)
  <2>1. e.trace[d] \in Decision /\ f.trace[d] \in Decision
    <3> HIDE DEF Decision
    <3> QED BY <1>1, <1>3, <1>12
  <2>2. CASE Faster(e, f)
    <3>1. Compared(s, e, f) = Counted(here, e.trace[d])
      BY <1>3, <1>6, <1>12, <2>2
    <3>2. \A W : Taught(e, f, W) <=> e.trace[d] \in W
      BY <1>8, <1>9, <1>12, <2>2, FasterOneWay DEF Taught
    <3> QED BY <3>1, <3>2, <2>1, <1>5, CountedIs
  <2>3. CASE ~Faster(e, f) /\ Faster(f, e)
    <3>1. Compared(s, e, f) = Counted(here, f.trace[d])
      BY <1>3, <1>6, <1>12, <2>3
    <3>2. \A W : Taught(e, f, W) <=> f.trace[d] \in W
      BY <1>8, <1>9, <1>12, <2>3 DEF Taught
    <3> QED BY <3>1, <3>2, <2>1, <1>5, CountedIs
  <2>4. CASE ~Faster(e, f) /\ ~Faster(f, e)
    <3>1. Compared(s, e, f) = here
      BY <1>6, <2>4
    <3>2. \A W : ~Taught(e, f, W)
      BY <1>8, <1>9, <2>4 DEF Taught
    <3> QED BY <3>1, <3>2, <1>5, <1>10
  <2> QED BY <2>2, <2>3, <2>4
<1> QED BY <1>3, <1>11, <1>12

\* What doObserve knows after each of the traces of fs.
Sweep(s, e, fs, r) ==
  r = [n \in 0 .. Len(fs) |-> IF n = 0 THEN s ELSE Compared(r[n - 1], e, fs[n])]

LEMMA SweepExists ==
  ASSUME NEW s, NEW e, NEW fs \in Seq(Entry)
  PROVE  \E r : Sweep(s, e, fs, r)
<1> HIDE DEF Entry
<1>1. Len(fs) \in Nat
  OBVIOUS
<1> DEFINE P(r, n) == /\ DOMAIN r = 0 .. n
                      /\ r = [m \in DOMAIN r |-> r[m]]
                      /\ r[0] = s
                      /\ \A m \in 1 .. n : r[m] = Compared(r[m - 1], e, fs[m])
           S == {n \in Nat : \E r : P(r, n)}
<1>2. 0 \in S
  <2>1. P([m \in 0 .. 0 |-> s], 0)
    OBVIOUS
  <2> QED BY <2>1
<1>3. ASSUME NEW n \in Nat, n \in S PROVE n + 1 \in S
  <2>1. PICK r : P(r, n)
    BY <1>3
  <2>2. PICK h : h = [m \in 0 .. n + 1 |-> IF m = n + 1 THEN Compared(r[n], e, fs[n + 1]) ELSE r[m]]
    OBVIOUS
  <2>3. h[n + 1] = Compared(r[n], e, fs[n + 1]) /\ \A m \in 0 .. n : h[m] = r[m]
    BY <2>2
  <2>4. \A m \in 1 .. n : m - 1 \in 0 .. n
    OBVIOUS
  <2>5. \A m \in 1 .. n + 1 : h[m] = Compared(h[m - 1], e, fs[m])
    <3> TAKE m \in 1 .. n + 1
    <3>1. CASE m = n + 1
      <4>1. m - 1 = n /\ h[n] = r[n]
        BY <2>3, <3>1
      <4> QED BY <2>3, <3>1, <4>1
    <3>2. CASE m \in 1 .. n
      <4>1. h[m] = r[m] /\ h[m - 1] = r[m - 1]
        BY <2>3, <2>4, <3>2
      <4> QED BY <2>1, <3>2, <4>1
    <3> QED BY <3>1, <3>2
  <2>6. h[0] = s
    BY <2>1, <2>3
  <2>7. DOMAIN h = 0 .. n + 1 /\ h = [m \in DOMAIN h |-> h[m]]
    BY <2>2
  <2>8. P(h, n + 1)
    BY <2>5, <2>6, <2>7
  <2> QED BY <2>8
<1>4. Nat \subseteq S
  <2> HIDE DEF S
  <2> QED BY <1>2, <1>3, InductNat
<1>5. PICK r : P(r, Len(fs))
  BY <1>1, <1>4
<1>6. \A m \in 0 .. Len(fs) : r[m] = IF m = 0 THEN s ELSE Compared(r[m - 1], e, fs[m])
  BY <1>1, <1>5
<1>7. Sweep(s, e, fs, r)
  BY <1>5, <1>6 DEF Sweep
<1> QED BY <1>7

\* The traces of fs have ever more in common with e.
Nearing(e, fs) ==
  \A m, n \in 1 .. Len(fs) : \A a, b :
    m < n /\ Parts(e.trace, fs[m].trace, a) /\ Parts(e.trace, fs[n].trace, b) => a <= b

\* A walk over such traces counts what each of them teaches.
LEMMA SweptIs ==
  ASSUME NEW D, NEW s \in Sums(D), s.common = 1, NEW e \in Entry, NEW fs \in Seq(Entry),
         Nearing(e, fs)
  PROVE  /\ Swept(s, e, fs) \in Sums(D)
         /\ \A v \in Vals :
              Swept(s, e, fs).tot[v] =
                s.tot[v] + TaughtBy(e, fs, OfValue(v))
         /\ \A x \in D, v \in Vals :
              Swept(s, e, fs).obs[x][v] =
                s.obs[x][v] + TaughtBy(e, fs, OfCond(x, v))
<1>1. PICK r : Sweep(s, e, fs, r)
  BY SweepExists
<1>2. PICK q : q = CHOOSE g : Sweep(s, e, fs, g)
  OBVIOUS
<1>3. Sweep(s, e, fs, q)
  BY <1>1, <1>2
<1>4. Swept(s, e, fs) = q[Len(fs)]
  BY <1>2 DEF Swept, Sweep
<1>5. PICK L : L = Len(fs)
  OBVIOUS
<1>6. L \in Nat /\ \A n \in 1 .. L : fs[n] \in Entry
  <2> HIDE DEF Entry
  <2> QED BY <1>5
<1>7. q[0] = s /\ \A n \in 1 .. L : q[n] = Compared(q[n - 1], e, fs[n])
  <2>1. \A n \in 0 .. L : q[n] = IF n = 0 THEN s ELSE Compared(q[n - 1], e, fs[n])
    BY <1>3, <1>5, Zenon DEF Sweep
  <2> QED BY <2>1, <1>6
<1>8. e.trace \in Seq(Decision) /\ \A n \in 1 .. L : fs[n].trace \in Seq(Decision)
  BY <1>6 DEF Entry
<1>9. \A n \in 1 .. L : \E d : Parts(e.trace, fs[n].trace, d)
  BY <1>8, PartsExist
<1> DEFINE Found(n) == /\ q[n] \in Sums(D)
                       /\ n = 0 => q[n].common = 1
                       /\ n # 0 => Parts(e.trace, fs[n].trace, q[n].common)
           S == {n \in Nat : n <= L => Found(n)}
<1>10. ASSUME NEW n \in 1 .. L, Found(n - 1)
       PROVE  \E d : Parts(e.trace, fs[n].trace, d) /\ q[n - 1].common \in 1 .. d
  <2>1. PICK d : Parts(e.trace, fs[n].trace, d)
    BY <1>9
  <2>2. d \in Nat /\ d >= 1
    BY <1>8, <2>1 DEF Parts
  <2>3. CASE n = 1
    BY <1>10, <2>1, <2>2, <2>3
  <2>4. CASE n # 1
    <3>1. n - 1 \in 1 .. L /\ n - 1 < n /\ n - 1 # 0
      BY <1>6, <2>4
    <3>2. Parts(e.trace, fs[n - 1].trace, q[n - 1].common)
      BY <1>10, <3>1
    <3>3. q[n - 1].common <= d
      BY <1>5, <2>1, <3>1, <3>2 DEF Nearing
    <3>4. q[n - 1].common \in Nat /\ q[n - 1].common >= 1
      BY <1>8, <3>1, <3>2 DEF Parts
    <3> QED BY <2>1, <2>2, <3>3, <3>4
  <2> QED BY <2>3, <2>4
<1>11. ASSUME NEW n \in 1 .. L, Found(n - 1)
       PROVE  /\ Found(n)
              /\ \A v \in Vals :
                   q[n].tot[v] = q[n - 1].tot[v] + (IF Taught(e, fs[n], OfValue(v)) THEN 1 ELSE 0)
              /\ \A x \in D, v \in Vals :
                   q[n].obs[x][v] =
                     q[n - 1].obs[x][v] + (IF Taught(e, fs[n], OfCond(x, v)) THEN 1 ELSE 0)
  <2>1. PICK d : Parts(e.trace, fs[n].trace, d) /\ q[n - 1].common \in 1 .. d
    BY <1>10, <1>11
  <2>2. q[n] = Compared(q[n - 1], e, fs[n]) /\ q[n - 1] \in Sums(D) /\ fs[n] \in Entry /\ n # 0
    BY <1>6, <1>7, <1>11
  <2> HIDE DEF Entry
  <2> QED BY <2>1, <2>2, ComparedIs
<1>12. Nat \subseteq S
  <2>1. 0 \in S
    BY <1>7
  <2>2. ASSUME NEW n \in Nat, n \in S PROVE n + 1 \in S
    <3>1. ASSUME n + 1 <= L PROVE Found(n + 1)
      <4>1. n + 1 \in 1 .. L /\ (n + 1) - 1 = n /\ Found(n)
        BY <1>6, <2>2, <3>1
      <4> HIDE DEF Found
      <4> QED BY <4>1, <1>11
    <3> QED BY <3>1
  <2> HIDE DEF S
  <2> QED BY <2>1, <2>2, InductNat
<1>13. \A n \in 0 .. L : Found(n)
  BY <1>6, <1>12
<1>14. \A n \in 0 .. L : q[n].tot \in [Vals -> Nat] /\ q[n].obs \in [D -> [Vals -> Nat]]
  BY <1>13 DEF Sums
<1>15. \A n \in 1 .. L : n - 1 \in 0 .. L /\ Found(n - 1)
  BY <1>6, <1>13
<1> HIDE DEF Found
<1>16. ASSUME NEW v \in Vals
       PROVE  q[L].tot[v] = s.tot[v] + TaughtBy(e, fs, OfValue(v))
  <2>1. PICK a : a = [n \in 0 .. L |-> q[n].tot[v]]
    OBVIOUS
  <2>2. PICK T : T = {n \in 1 .. L : Taught(e, fs[n], OfValue(v))}
    OBVIOUS
  <2>3. a \in [0 .. L -> Nat] /\ \A n \in 0 .. L : a[n] = q[n].tot[v]
    BY <1>14, <2>1
  <2>4. ASSUME NEW n \in 1 .. L PROVE a[n] = a[n - 1] + (IF n \in T THEN 1 ELSE 0)
    <3>1. n \in 0 .. L /\ n - 1 \in 0 .. L
      BY <1>6
    <3>2. a[n] = q[n].tot[v] /\ a[n - 1] = q[n - 1].tot[v]
      BY <2>3, <3>1
    <3>3. n \in T <=> Taught(e, fs[n], OfValue(v))
      BY <2>2
    <3>4. q[n].tot[v] = q[n - 1].tot[v] + (IF Taught(e, fs[n], OfValue(v)) THEN 1 ELSE 0)
      BY <1>11, <1>15
    <3> QED BY <3>2, <3>3, <3>4
  <2>5. a[L] = a[0] + Cardinality({n \in 1 .. L : n \in T})
    BY <1>6, <2>3, <2>4, Tally
  <2>6. {n \in 1 .. L : n \in T} = {n \in 1 .. Len(fs) : Taught(e, fs[n], OfValue(v))}
    BY <1>5, <2>2
  <2>7. a[L] = q[L].tot[v] /\ a[0] = s.tot[v]
    <3>1. L \in 0 .. L /\ 0 \in 0 .. L
      BY <1>6
    <3> QED BY <3>1, <1>7, <2>3
  <2> QED BY <2>5, <2>6, <2>7 DEF TaughtBy
<1>17. ASSUME NEW x \in D, NEW v \in Vals
       PROVE  q[L].obs[x][v] =
                s.obs[x][v] + TaughtBy(e, fs, OfCond(x, v))
  <2>1. PICK a : a = [n \in 0 .. L |-> q[n].obs[x][v]]
    OBVIOUS
  <2>2. PICK T : T = {n \in 1 .. L : Taught(e, fs[n], OfCond(x, v))}
    OBVIOUS
  <2>3. a \in [0 .. L -> Nat] /\ \A n \in 0 .. L : a[n] = q[n].obs[x][v]
    BY <1>14, <2>1
  <2>4. ASSUME NEW n \in 1 .. L PROVE a[n] = a[n - 1] + (IF n \in T THEN 1 ELSE 0)
    <3>1. n \in 0 .. L /\ n - 1 \in 0 .. L
      BY <1>6
    <3>2. a[n] = q[n].obs[x][v] /\ a[n - 1] = q[n - 1].obs[x][v]
      BY <2>3, <3>1
    <3>3. n \in T <=> Taught(e, fs[n], OfCond(x, v))
      BY <2>2
    <3>4. q[n].obs[x][v] = q[n - 1].obs[x][v] + (IF Taught(e, fs[n], OfCond(x, v)) THEN 1 ELSE 0)
      BY <1>11, <1>15
    <3> QED BY <3>2, <3>3, <3>4
  <2>5. a[L] = a[0] + Cardinality({n \in 1 .. L : n \in T})
    BY <1>6, <2>3, <2>4, Tally
  <2>6. {n \in 1 .. L : n \in T} = {n \in 1 .. Len(fs) : Taught(e, fs[n], OfCond(x, v))}
    BY <1>5, <2>2
  <2>7. a[L] = q[L].obs[x][v] /\ a[0] = s.obs[x][v]
    <3>1. L \in 0 .. L /\ 0 \in 0 .. L
      BY <1>6
    <3> QED BY <3>1, <1>7, <2>3
  <2> QED BY <2>5, <2>6, <2>7 DEF TaughtBy
<1>18. q[L] \in Sums(D)
  BY <1>6, <1>13 DEF Found
<1> QED BY <1>4, <1>5, <1>16, <1>17, <1>18

-----------------------------------------------------------------------------
LEMMA SameSize ==
  ASSUME NEW S, IsFiniteSet(S), NEW T, NEW f \in [S -> T],
         \A a, b \in S : f[a] = f[b] => a = b,
         \A t \in T : \E a \in S : f[a] = t
  PROVE  IsFiniteSet(T) /\ Cardinality(T) = Cardinality(S)
<1>1. f \in Bijection(S, T)
  BY DEF Bijection, Injection, Surjection, IsInjective
<1> QED BY <1>1, FS_Bijection DEF ExistsBijection

LEMMA InsertedIs ==
  ASSUME NEW R, NEW s \in Seq(R), NEW e \in R, NEW i \in 1 .. Len(s) + 1
  PROVE  /\ InsertAt(s, i, e) \in Seq(R)
         /\ Len(InsertAt(s, i, e)) = Len(s) + 1
         /\ InsertAt(s, i, e)[i] = e
         /\ \A k \in 1 .. Len(s) : /\ k < i => InsertAt(s, i, e)[k] = s[k]
                                   /\ k >= i => InsertAt(s, i, e)[k + 1] = s[k]
<1>1. Len(s) \in Nat /\ i \in Nat
  OBVIOUS
<1> DEFINE a == SubSeq(s, 1, i - 1)
           b == SubSeq(s, i, Len(s))
<1>2. /\ a \in Seq(R) /\ Len(a) = i - 1 /\ \A k \in 1 .. i - 1 : a[k] = s[k]
  BY <1>1
<1>3. /\ b \in Seq(R) /\ Len(b) = Len(s) - i + 1
      /\ \A k \in 1 .. Len(s) - i + 1 : b[k] = s[i + k - 1]
  BY <1>1
<1>4. InsertAt(s, i, e) = a \o <<e>> \o b
  BY DEF InsertAt
<1> HIDE DEF a, b
<1> DEFINE c == a \o <<e>>
<1>5. /\ c \in Seq(R) /\ Len(c) = i /\ c[i] = e /\ \A k \in 1 .. i - 1 : c[k] = s[k]
  BY <1>1, <1>2
<1> HIDE DEF c
<1>6. InsertAt(s, i, e) = c \o b
  BY <1>4 DEF c
<1>7. /\ c \o b \in Seq(R) /\ Len(c \o b) = Len(s) + 1
      /\ \A k \in 1 .. Len(c \o b) : (c \o b)[k] = IF k <= i THEN c[k] ELSE b[k - i]
  <2>1. c \in Seq(R) /\ b \in Seq(R)
    BY <1>3, <1>5
  <2>2. /\ c \o b \in Seq(R) /\ Len(c \o b) = Len(c) + Len(b)
        /\ \A k \in 1 .. Len(c) + Len(b) : (c \o b)[k] = IF k <= Len(c) THEN c[k] ELSE b[k - Len(c)]
    BY <2>1
  <2>3. Len(c) = i /\ Len(c) + Len(b) = Len(s) + 1
    BY <1>1, <1>3, <1>5
  <2> QED BY <2>2, <2>3
<1>8. (c \o b)[i] = e
  BY <1>1, <1>5, <1>7
<1>9. ASSUME NEW k \in 1 .. Len(s) PROVE /\ k < i => (c \o b)[k] = s[k]
                                         /\ k >= i => (c \o b)[k + 1] = s[k]
  <2>1. CASE k < i
    BY <1>1, <1>5, <1>7, <2>1
  <2>2. CASE k >= i
    <3>1. (c \o b)[k + 1] = b[k + 1 - i]
      BY <1>1, <1>7, <2>2
    <3>2. k + 1 - i \in 1 .. Len(s) - i + 1 /\ i + (k + 1 - i) - 1 = k
      BY <1>1, <2>2
    <3>3. b[k + 1 - i] = s[k]
      BY <1>3, <3>2
    <3> QED BY <1>1, <2>2, <3>1, <3>3
  <2> QED BY <1>1, <2>1, <2>2
<1> QED BY <1>6, <1>7, <1>8, <1>9

\* The comparisons of the traces of s that teach decisions of W.
Pairs(s, W) == {p \in (DOMAIN s) \X (DOMAIN s) : Lesson(s[p[1]], s[p[2]], W)}

LEMMA PairsFinite ==
  ASSUME NEW s \in Seq(Entry), NEW W
  PROVE  IsFiniteSet(Pairs(s, W)) /\ Cardinality(Pairs(s, W)) \in Nat
<1> HIDE DEF Entry
<1>1. IsFiniteSet(DOMAIN s)
  <2>1. DOMAIN s = 1 .. Len(s) /\ Len(s) \in Int /\ 1 \in Int
    OBVIOUS
  <2> QED BY <2>1, FS_Interval
<1>2. IsFiniteSet((DOMAIN s) \X (DOMAIN s))
  BY <1>1, FS_Product
<1>3. Pairs(s, W) \subseteq (DOMAIN s) \X (DOMAIN s)
  BY DEF Pairs
<1> QED BY <1>2, <1>3, FS_Subset, FS_CardinalityType

\* A trace that is inserted adds what its comparisons teach, wherever it is.
LEMMA PairsInserted ==
  ASSUME NEW s \in Seq(Entry), NEW e \in Entry, NEW i \in 1 .. Len(s) + 1, NEW W,
         NEW all, all = InsertAt(s, i, e)
  PROVE  /\ Cardinality(Pairs(all, W)) = Cardinality(Pairs(s, W)) + TaughtBy(e, all, W)
         /\ TaughtBy(e, all, W) \in Nat
<1> HIDE DEF Entry
<1>1. /\ all \in Seq(Entry) /\ Len(all) = Len(s) + 1 /\ all[i] = e
      /\ \A k \in 1 .. Len(s) : (k < i => all[k] = s[k]) /\ (k >= i => all[k + 1] = s[k])
  BY InsertedIs
<1>2. /\ Len(s) \in Nat /\ DOMAIN s = 1 .. Len(s) /\ DOMAIN all = 1 .. Len(s) + 1
      /\ \A k \in 1 .. Len(s) + 1 : all[k] \in Entry
  BY <1>1
<1>3. PICK N : N = Len(s)
  OBVIOUS
<1> DEFINE At(k) == IF k < i THEN k ELSE k + 1
<1>4. /\ \A k \in 1 .. N : At(k) \in 1 .. N + 1 /\ At(k) # i /\ all[At(k)] = s[k]
      /\ \A k, m \in 1 .. N : At(k) = At(m) => k = m
      /\ \A m \in 1 .. N + 1 : m # i => \E k \in 1 .. N : At(k) = m
  <2>1. ASSUME NEW k \in 1 .. N PROVE At(k) \in 1 .. N + 1 /\ At(k) # i /\ all[At(k)] = s[k]
    BY <1>1, <1>2, <1>3
  <2>2. \A k, m \in 1 .. N : At(k) = At(m) => k = m
    BY <1>2, <1>3
  <2>3. ASSUME NEW m \in 1 .. N + 1, m # i PROVE \E k \in 1 .. N : At(k) = m
    <3>1. CASE m < i
      BY <1>2, <1>3, <3>1
    <3>2. CASE m > i
      <4>1. m - 1 \in 1 .. N /\ At(m - 1) = m
        BY <1>2, <1>3, <3>2
      <4> QED BY <4>1
    <3> QED BY <1>2, <1>3, <2>3, <3>1, <3>2
  <2> QED BY <2>1, <2>2, <2>3
<1> HIDE DEF At
<1> DEFINE Old == {p \in Pairs(all, W) : p[1] # i /\ p[2] # i}
           New == {p \in Pairs(all, W) : p[1] = i \/ p[2] = i}
           B == {b \in 1 .. Len(all) : Taught(e, all[b], W)}
<1>5. Cardinality(Old) = Cardinality(Pairs(s, W))
  <2>1. PICK f : f = [p \in Pairs(s, W) |-> <<At(p[1]), At(p[2])>>]
    OBVIOUS
  <2>2. ASSUME NEW p \in Pairs(s, W)
        PROVE  /\ p = <<p[1], p[2]>> /\ p[1] \in 1 .. N /\ p[2] \in 1 .. N
               /\ f[p] = <<At(p[1]), At(p[2])>> /\ f[p] \in Old
    <3>1. p = <<p[1], p[2]>> /\ p[1] \in 1 .. N /\ p[2] \in 1 .. N /\ Lesson(s[p[1]], s[p[2]], W)
      BY <1>2, <1>3 DEF Pairs
    <3>2. f[p] = <<At(p[1]), At(p[2])>>
      BY <2>1
    <3>3. /\ At(p[1]) \in 1 .. N + 1 /\ At(p[1]) # i /\ all[At(p[1])] = s[p[1]]
          /\ At(p[2]) \in 1 .. N + 1 /\ At(p[2]) # i /\ all[At(p[2])] = s[p[2]]
      BY <1>4, <3>1
    <3> QED BY <3>1, <3>2, <3>3, <1>2, <1>3 DEF Pairs
  <2>3. ASSUME NEW p \in Pairs(s, W), NEW q \in Pairs(s, W), f[p] = f[q] PROVE p = q
    <3>1. At(p[1]) = At(q[1]) /\ At(p[2]) = At(q[2])
      BY <2>2, <2>3
    <3>2. p[1] = q[1] /\ p[2] = q[2]
      BY <1>4, <2>2, <3>1
    <3> QED BY <2>2, <3>2
  <2>4. ASSUME NEW t \in Old PROVE \E p \in Pairs(s, W) : f[p] = t
    <3>1. /\ t = <<t[1], t[2]>> /\ t[1] \in 1 .. N + 1 /\ t[2] \in 1 .. N + 1
          /\ t[1] # i /\ t[2] # i /\ Lesson(all[t[1]], all[t[2]], W)
      BY <1>2, <1>3 DEF Pairs
    <3>2. PICK k \in 1 .. N : At(k) = t[1]
      BY <1>4, <3>1
    <3>3. PICK m \in 1 .. N : At(m) = t[2]
      BY <1>4, <3>1
    <3>4. Lesson(s[k], s[m], W)
      BY <1>4, <3>1, <3>2, <3>3
    <3>5. <<k, m>> \in Pairs(s, W)
      BY <1>2, <1>3, <3>4 DEF Pairs
    <3>6. f[<<k, m>>] = t
      BY <2>1, <3>1, <3>2, <3>3, <3>5
    <3> QED BY <3>5, <3>6
  <2>5. f \in [Pairs(s, W) -> Old]
    BY <2>1, <2>2
  <2>6. IsFiniteSet(Pairs(s, W))
    BY PairsFinite
  <2> HIDE DEF Old
  <2> QED BY <2>3, <2>4, <2>5, <2>6, SameSize
<1>6. Cardinality(New) = Cardinality(B)
  <2>1. PICK f : f = [b \in B |-> IF Lesson(e, all[b], W) THEN <<i, b>> ELSE <<b, i>>]
    OBVIOUS
  <2>2. i \in 1 .. N + 1 /\ all[i] = e /\ ~Faster(e, e)
    BY <1>1, <1>2, <1>3, FasterOneWay
  <2>3. ASSUME NEW b \in B
        PROVE  /\ b \in 1 .. N + 1 /\ Taught(e, all[b], W) /\ b # i
               /\ f[b] = IF Lesson(e, all[b], W) THEN <<i, b>> ELSE <<b, i>>
    <3>1. b \in 1 .. N + 1 /\ Taught(e, all[b], W)
      BY <1>1, <1>3
    <3> QED BY <2>1, <2>2, <3>1 DEF Taught, Lesson
  <2>4. ASSUME NEW b \in B PROVE f[b] \in New
    <3>1. b \in 1 .. N + 1 /\ b # i /\ (Lesson(e, all[b], W) \/ Lesson(all[b], e, W))
      BY <2>3 DEF Taught
    <3>2. CASE Lesson(e, all[b], W)
      <4>1. f[b] = <<i, b>>
        BY <2>3, <3>2
      <4>2. <<i, b>> \in Pairs(all, W)
        BY <1>2, <1>3, <2>2, <3>1, <3>2 DEF Pairs
      <4> QED BY <4>1, <4>2
    <3>3. CASE ~Lesson(e, all[b], W)
      <4>1. f[b] = <<b, i>>
        BY <2>3, <3>3
      <4>2. <<b, i>> \in Pairs(all, W)
        BY <1>2, <1>3, <2>2, <3>1, <3>3 DEF Pairs
      <4> QED BY <4>1, <4>2
    <3> QED BY <3>2, <3>3
  <2>5. ASSUME NEW b \in B, NEW c \in B, f[b] = f[c] PROVE b = c
    <3>1. b # i /\ c # i /\ f[b] \in {<<i, b>>, <<b, i>>} /\ f[c] \in {<<i, c>>, <<c, i>>}
      BY <2>3
    <3> QED BY <2>5, <3>1
  <2>6. ASSUME NEW p \in New PROVE \E b \in B : f[b] = p
    <3>1. /\ p = <<p[1], p[2]>> /\ p[1] \in 1 .. N + 1 /\ p[2] \in 1 .. N + 1
          /\ p[1] = i \/ p[2] = i
          /\ Lesson(all[p[1]], all[p[2]], W)
      BY <1>2, <1>3 DEF Pairs
    <3>2. CASE p[1] = i
      <4>1. Lesson(e, all[p[2]], W)
        BY <2>2, <3>1, <3>2
      <4>2. p[2] \in B
        BY <1>1, <1>3, <3>1, <4>1 DEF Taught
      <4>3. f[p[2]] = p
        BY <2>3, <3>1, <3>2, <4>1, <4>2
      <4> QED BY <4>2, <4>3
    <3>3. CASE p[1] # i
      <4>1. p[2] = i /\ Lesson(all[p[1]], e, W)
        BY <2>2, <3>1, <3>3
      <4>2. p[1] \in B
        BY <1>1, <1>3, <3>1, <4>1 DEF Taught
      <4>3. ~Lesson(e, all[p[1]], W)
        BY <1>2, <1>3, <3>1, <4>1, FasterOneWay DEF Lesson
      <4>4. f[p[1]] = p
        BY <2>3, <3>1, <4>1, <4>2, <4>3
      <4> QED BY <4>2, <4>4
    <3> QED BY <3>2, <3>3
  <2>7. IsFiniteSet(B)
    <3>1. IsFiniteSet(1 .. Len(all)) /\ B \subseteq 1 .. Len(all)
      BY <1>1, <1>2, FS_Interval
    <3> HIDE DEF B
    <3> QED BY <3>1, FS_Subset
  <2>8. f \in [B -> New]
    BY <2>1, <2>4
  <2> HIDE DEF B, New
  <2> QED BY <2>5, <2>6, <2>7, <2>8, SameSize
<1>7. Old \cup New = Pairs(all, W) /\ Old \cap New = {}
  OBVIOUS
<1>8. IsFiniteSet(Pairs(all, W))
  BY <1>1, PairsFinite
<1>9. IsFiniteSet(Old) /\ IsFiniteSet(New)
  BY <1>7, <1>8, FS_Subset
<1>10. Cardinality(Pairs(s, W)) \in Nat
  BY PairsFinite
<1>11. Cardinality(New) \in Nat
  BY <1>9, FS_CardinalityType
<1> HIDE DEF Old, New, B
<1>12. Cardinality(Pairs(all, W)) = Cardinality(Old) + Cardinality(New)
  <2>1. Cardinality(Old \cup New) = Cardinality(Old) + Cardinality(New) - Cardinality(Old \cap New)
    BY <1>9, FS_Union
  <2>2. Cardinality(Old \cap New) = 0
    BY <1>7, FS_EmptySet
  <2>3. Cardinality(Old) \in Nat
    BY <1>5, <1>10
  <2>4. Cardinality(Old \cup New) = Cardinality(Old) + Cardinality(New)
    BY <1>11, <2>1, <2>2, <2>3
  <2> QED BY <1>7, <2>4
<1> QED BY <1>5, <1>6, <1>11, <1>12 DEF B, TaughtBy

\* What a decision counts in totCnt_ it counts in one of the two variables
\* for the condition defDiff.
LEMMA PairsOfDefDiff ==
  ASSUME NEW s \in Seq(Entry), NEW v \in Vals
  PROVE  \A n \in Nat :
           n + Cardinality(Pairs(s, OfValue(v))) =
             n + Cardinality(Pairs(s, OfCond(<<"defDiff", TRUE>>, v)))
               + Cardinality(Pairs(s, OfCond(<<"defDiff", FALSE>>, v)))
<1> DEFINE Y == Pairs(s, OfCond(<<"defDiff", TRUE>>, v))
           N == Pairs(s, OfCond(<<"defDiff", FALSE>>, v))
<1>1. ASSUME NEW o \in Decision
      PROVE  /\ o \in OfCond(<<"defDiff", TRUE>>, v) <=> o \in OfValue(v) /\ DepDiff[o.ctx] = TRUE
             /\ o \in OfCond(<<"defDiff", FALSE>>, v) <=> o \in OfValue(v) /\ DepDiff[o.ctx] = FALSE
  <2>1. ToSet(Conds(o.ctx)) = {<<"metadata", o.ctx>>, <<"defDiff", DepDiff[o.ctx]>>}
    BY CondsOf
  <2> QED BY <2>1 DEF OfCond, OfValue
<1>2. ASSUME NEW o \in Decision PROVE DepDiff[o.ctx] \in BOOLEAN
  BY TuneAssumption DEF TuneAssumption, Decision
<1>3. ASSUME NEW p \in (DOMAIN s) \X (DOMAIN s)
      PROVE  /\ Lesson(s[p[1]], s[p[2]], OfValue(v)) <=>
                  \/ Lesson(s[p[1]], s[p[2]], OfCond(<<"defDiff", TRUE>>, v))
                  \/ Lesson(s[p[1]], s[p[2]], OfCond(<<"defDiff", FALSE>>, v))
             /\ ~ /\ Lesson(s[p[1]], s[p[2]], OfCond(<<"defDiff", TRUE>>, v))
                  /\ Lesson(s[p[1]], s[p[2]], OfCond(<<"defDiff", FALSE>>, v))
  <2>1. PICK e, f : e = s[p[1]] /\ f = s[p[2]] /\ e \in Entry /\ f \in Entry
    <3> HIDE DEF Entry
    <3> QED OBVIOUS
  <2>2. e.trace \in Seq(Decision) /\ f.trace \in Seq(Decision)
    BY <2>1 DEF Entry
  <2>3. PICK d : Parts(e.trace, f.trace, d)
    BY <2>2, PartsExist
  <2>4. d \in Nat /\ d >= 1
    BY <2>2, <2>3 DEF Parts
  <2>5. d <= Len(e.trace) => e.trace[d] \in Decision
    <3> HIDE DEF Decision
    <3> QED BY <2>2, <2>4
  <2>6. \A W : Lesson(e, f, W) <=>
                 Faster(e, f) /\ d <= Len(e.trace) /\ d <= Len(f.trace) /\ e.trace[d] \in W
    BY <2>1, <2>3, LessonIs
  <2> QED BY <2>1, <2>5, <2>6, <1>1, <1>2
<1>4. Pairs(s, OfValue(v)) = Y \cup N /\ Y \cap N = {}
  BY <1>3 DEF Pairs
<1>5. IsFiniteSet(Y) /\ IsFiniteSet(N) /\ Cardinality(Y) \in Nat /\ Cardinality(N) \in Nat
  BY PairsFinite
<1> HIDE DEF Y, N
<1>6. Cardinality(Y \cup N) = Cardinality(Y) + Cardinality(N) - Cardinality(Y \cap N)
  BY <1>5, FS_Union
<1>7. Cardinality(Y \cap N) = 0
  BY <1>4, FS_EmptySet
<1>8. Cardinality(Pairs(s, OfValue(v))) = Cardinality(Y) + Cardinality(N)
  BY <1>4, <1>5, <1>6, <1>7
<1>9. \A n \in Nat : n + Cardinality(Pairs(s, OfValue(v))) = n + Cardinality(Y) + Cardinality(N)
  BY <1>5, <1>8
<1> QED BY <1>9 DEF Y, N

-----------------------------------------------------------------------------
LEMMA DownClosed ==
  ASSUME NEW n \in Nat, NEW S \in SUBSET (1 .. n), \A k \in S : \A j \in 1 .. n : j < k => j \in S
  PROVE  Cardinality(S) \in 0 .. n /\ \A k \in 1 .. n : k \in S <=> k <= Cardinality(S)
<1>1. PICK m \in Nat : /\ m >= 1 /\ m <= n + 1
                       /\ \A k \in 1 .. n : k \in S <=> k < m
  <2>1. CASE S = 1 .. n
    <3>1. \A k \in 1 .. n : k \in S <=> k < n + 1
      BY <2>1
    <3> QED BY <3>1
  <2>2. CASE S # 1 .. n
    <3>1. PICK R : R = (1 .. n) \ S
      OBVIOUS
    <3>2. R # {} /\ R \in SUBSET Nat
      <4>1. \E k \in 1 .. n : k \notin S
        BY <2>2
      <4>2. R # {}
        BY <3>1, <4>1
      <4>3. \A k \in R : k \in Nat
        BY <3>1
      <4> QED BY <4>2, <4>3
    <3>3. PICK m \in R : \A k \in R : m <= k
      BY <3>2, LeastNat
    <3>4. ASSUME NEW k \in 1 .. n PROVE k \in S <=> k < m
      <4>1. m \in 1 .. n /\ m \notin S
        BY <3>1, <3>3
      <4>2. k < m => k \in S
        BY <3>1, <3>3, <4>1
      <4>3. ASSUME k \in S, ~(k < m) PROVE FALSE
        <5>1. m < k
          BY <4>1, <4>3
        <5> QED BY <5>1, <4>1, <4>3
      <4> QED BY <4>2, <4>3
    <3>5. m \in Nat /\ m >= 1 /\ m <= n + 1
      BY <3>1, <3>3
    <3> QED BY <3>4, <3>5
  <2> QED BY <2>1, <2>2
<1>2. S = 1 .. m - 1
  <2>1. ASSUME NEW k \in S PROVE k \in 1 .. m - 1
    BY <1>1
  <2>2. ASSUME NEW k \in 1 .. m - 1 PROVE k \in S
    BY <1>1
  <2> QED BY <2>1, <2>2
<1>3. Cardinality(S) = m - 1
  <2>1. 1 \in Int /\ m - 1 \in Int
    OBVIOUS
  <2>2. Cardinality(1 .. m - 1) = IF 1 > m - 1 THEN 0 ELSE m - 1 - 1 + 1
    BY <2>1, FS_Interval
  <2> QED BY <1>1, <1>2, <2>2
<1> QED BY <1>1, <1>3

Sorted(s) == \A i, j \in DOMAIN s : i < j => AtMost(s[i].trace, s[j].trace)

\* emplace puts e between those that are not more than it and those that are.
LEMMA Placed ==
  ASSUME addr \in Addresses, traces \in Seq(Entry), Sorted(traces), NEW e \in Entry
  PROVE  /\ Place(e.trace) \in 1 .. Len(traces) + 1
         /\ \A k \in 1 .. Len(traces) :
              /\ k < Place(e.trace) => AtMost(traces[k].trace, e.trace)
              /\ k >= Place(e.trace) => AtMost(e.trace, traces[k].trace)
<1>1. /\ Len(traces) \in Nat /\ DOMAIN traces = 1 .. Len(traces)
      /\ \A k \in 1 .. Len(traces) : traces[k] \in Entry
  <2> HIDE DEF Entry
  <2> QED OBVIOUS
<1>2. e.trace \in Seq(Decision) /\ \A k \in 1 .. Len(traces) : traces[k].trace \in Seq(Decision)
  BY <1>1 DEF Entry
<1>3. PICK S : S = {k \in DOMAIN traces : ~Before(e.trace, traces[k].trace)}
  OBVIOUS
<1>4. /\ S \in SUBSET (1 .. Len(traces))
      /\ \A k \in 1 .. Len(traces) : k \in S <=> AtMost(traces[k].trace, e.trace)
  BY <1>1, <1>3 DEF AtMost
<1>5. ASSUME NEW k \in S, NEW j \in 1 .. Len(traces), j < k PROVE j \in S
  <2>1. AtMost(traces[j].trace, traces[k].trace) /\ AtMost(traces[k].trace, e.trace)
    BY <1>1, <1>4, <1>5 DEF Sorted
  <2>2. traces[j].trace \in Seq(Decision) /\ traces[k].trace \in Seq(Decision)
    BY <1>2, <1>4
  <2>3. PICK a, b : Parts(traces[j].trace, traces[k].trace, a) /\ Parts(traces[k].trace, e.trace, b)
    BY <1>2, <2>2, PartsExist
  <2>4. AtMost(traces[j].trace, e.trace)
    BY <1>2, <2>1, <2>2, <2>3, Between
  <2> QED BY <1>4, <2>4
<1>6. /\ Cardinality(S) \in 0 .. Len(traces)
      /\ \A k \in 1 .. Len(traces) : k \in S <=> k <= Cardinality(S)
  BY <1>1, <1>4, <1>5, DownClosed
<1>7. Place(e.trace) = Cardinality(S) + 1
  BY <1>3 DEF Place
<1>8. ASSUME NEW k \in 1 .. Len(traces), k \notin S PROVE AtMost(e.trace, traces[k].trace)
  BY <1>2, <1>4, <1>8, AtMostTotal DEF AtMost
<1> QED BY <1>1, <1>4, <1>6, <1>7, <1>8

LEMMA AtMostSelf ==
  ASSUME NEW t \in Seq(Decision)
  PROVE  AtMost(t, t)
<1> HIDE DEF Decision
<1>1. Len(t) \in Nat
  OBVIOUS
<1>2. Parts(t, t, Len(t) + 1)
  BY <1>1 DEF Parts
<1>3. FirstDiff(t, t, 1) = Len(t) + 1
  BY <1>1, <1>2, FirstDiffFrom
<1> QED BY <1>1, <1>3 DEF AtMost, Before

Added(e) == InsertAt(traces, Place(e.trace), e)

LEMMA StillSorted ==
  ASSUME addr \in Addresses, traces \in Seq(Entry), Sorted(traces), NEW e \in Entry
  PROVE  /\ Added(e) \in Seq(Entry) /\ Len(Added(e)) = Len(traces) + 1
         /\ Sorted(Added(e))
         /\ Added(e)[Place(e.trace)] = e
         /\ \A k \in DOMAIN Added(e) :
              Added(e)[k] = e \/ \E m \in DOMAIN traces : Added(e)[k] = traces[m]
<1> HIDE DEF Entry
<1>0. PICK all : all = Added(e)
  OBVIOUS
<1>1. PICK i : i = Place(e.trace)
  OBVIOUS
<1>2. /\ i \in 1 .. Len(traces) + 1
      /\ \A k \in 1 .. Len(traces) :
           /\ k < i => AtMost(traces[k].trace, e.trace)
           /\ k >= i => AtMost(e.trace, traces[k].trace)
  BY <1>1, Placed
<1>3. /\ all \in Seq(Entry) /\ Len(all) = Len(traces) + 1 /\ all[i] = e
      /\ \A k \in 1 .. Len(traces) : (k < i => all[k] = traces[k]) /\ (k >= i => all[k + 1] = traces[k])
  BY <1>0, <1>1, <1>2, InsertedIs DEF Added
<1>4. /\ Len(traces) \in Nat /\ DOMAIN traces = 1 .. Len(traces)
      /\ DOMAIN all = 1 .. Len(traces) + 1
  BY <1>3
<1>5. \A k \in 1 .. Len(traces) + 1 :
        /\ k < i => k \in 1 .. Len(traces) /\ all[k] = traces[k]
        /\ k > i => k - 1 \in 1 .. Len(traces) /\ k - 1 >= i /\ all[k] = traces[k - 1]
  <2> TAKE k \in 1 .. Len(traces) + 1
  <2>1. CASE k < i
    BY <1>2, <1>3, <1>4, <2>1
  <2>2. CASE k > i
    <3>1. k - 1 \in 1 .. Len(traces) /\ k - 1 >= i /\ (k - 1) + 1 = k
      BY <1>2, <1>4, <2>2
    <3>2. all[(k - 1) + 1] = traces[k - 1]
      BY <1>3, <3>1
    <3> QED BY <1>2, <1>4, <2>2, <3>1, <3>2
  <2> QED BY <1>2, <1>4, <2>1, <2>2
<1>6. ASSUME NEW j \in 1 .. Len(traces) + 1, NEW k \in 1 .. Len(traces) + 1, j < k
      PROVE  AtMost(all[j].trace, all[k].trace)
  <2>1. \A a, b \in 1 .. Len(traces) : a < b => AtMost(traces[a].trace, traces[b].trace)
    BY <1>4 DEF Sorted
  <2>2. CASE k < i
    <3>1. j \in 1 .. Len(traces) /\ k \in 1 .. Len(traces) /\ all[j] = traces[j] /\ all[k] = traces[k]
      BY <1>2, <1>4, <1>5, <1>6, <2>2
    <3> QED BY <2>1, <3>1, <1>6
  <2>3. CASE k = i
    <3>1. j \in 1 .. Len(traces) /\ j < i /\ all[j] = traces[j] /\ all[k] = e
      BY <1>3, <1>5, <1>6, <2>3
    <3> QED BY <1>2, <3>1
  <2>4. CASE k > i /\ j < i
    <3>1. /\ j \in 1 .. Len(traces) /\ all[j] = traces[j]
          /\ k - 1 \in 1 .. Len(traces) /\ k - 1 >= i /\ all[k] = traces[k - 1]
      BY <1>5, <2>4
    <3>2. j < k - 1
      BY <1>2, <1>4, <2>4, <3>1
    <3> QED BY <2>1, <3>1, <3>2
  <2>5. CASE k > i /\ j = i
    <3>1. /\ all[j] = e
          /\ k - 1 \in 1 .. Len(traces) /\ k - 1 >= i /\ all[k] = traces[k - 1]
      BY <1>3, <1>5, <2>5
    <3> QED BY <1>2, <3>1
  <2>6. CASE k > i /\ j > i
    <3>1. /\ j - 1 \in 1 .. Len(traces) /\ all[j] = traces[j - 1]
          /\ k - 1 \in 1 .. Len(traces) /\ all[k] = traces[k - 1] /\ j - 1 < k - 1
      BY <1>4, <1>5, <1>6, <2>6
    <3> QED BY <2>1, <3>1
  <2> QED BY <1>2, <1>4, <2>2, <2>3, <2>4, <2>5, <2>6
<1>7. Sorted(all)
  BY <1>4, <1>6 DEF Sorted
<1>8. \A k \in DOMAIN all : all[k] = e \/ \E m \in DOMAIN traces : all[k] = traces[m]
  <2> TAKE k \in DOMAIN all
  <2>1. k < i \/ k = i \/ k > i
    BY <1>2, <1>4
  <2> QED BY <2>1, <1>3, <1>4, <1>5
<1> QED BY <1>0, <1>1, <1>3, <1>7, <1>8

\* The traces that observeTrace walks upwards to e, and downwards.
Lower(all, i) == SubSeq(all, 1, i - 1)
Upper(all, i) == Reverse(SubSeq(all, i, Len(all)))

LEMMA WalksAre ==
  ASSUME NEW all \in Seq(Entry), NEW i \in 1 .. Len(all)
  PROVE  /\ Lower(all, i) \in Seq(Entry) /\ Upper(all, i) \in Seq(Entry)
         /\ Len(Lower(all, i)) = i - 1 /\ Len(Upper(all, i)) = Len(all) - i + 1
         /\ \A k \in 1 .. i - 1 : Lower(all, i)[k] = all[k]
         /\ \A k \in 1 .. Len(all) - i + 1 : Upper(all, i)[k] = all[Len(all) + 1 - k]
<1> HIDE DEF Entry
<1>0. PICK lower, upper : lower = Lower(all, i) /\ upper = Upper(all, i)
  OBVIOUS
<1>1. PICK L : L = Len(all)
  OBVIOUS
<1>2. L \in Nat /\ i \in Nat /\ i >= 1 /\ i <= L
  BY <1>1
<1>3. /\ lower \in Seq(Entry) /\ Len(lower) = i - 1
      /\ \A k \in 1 .. i - 1 : lower[k] = all[k]
  BY <1>0, <1>1, <1>2 DEF Lower
<1>4. PICK tail : tail = SubSeq(all, i, Len(all))
  OBVIOUS
<1>5. /\ tail \in Seq(Entry) /\ Len(tail) = L - i + 1
      /\ \A k \in 1 .. L - i + 1 : tail[k] = all[i + k - 1]
  BY <1>1, <1>2, <1>4
<1>6. upper = [k \in 1 .. Len(tail) |-> tail[(Len(tail) - k) + 1]]
  <2>1. upper = Reverse(tail)
    BY <1>0, <1>4 DEF Upper
  <2> QED BY <2>1, Zenon DEF Reverse
<1>7. ASSUME NEW k \in 1 .. L - i + 1 PROVE upper[k] = all[L + 1 - k] /\ upper[k] \in Entry
  <2>1. PICK j : j = (Len(tail) - k) + 1
    OBVIOUS
  <2>2. j \in 1 .. L - i + 1 /\ i + j - 1 = L + 1 - k /\ k \in 1 .. Len(tail)
    BY <1>2, <1>5, <2>1
  <2>3. tail[j] = all[L + 1 - k] /\ tail[j] \in Entry
    BY <1>5, <2>2
  <2>4. upper[k] = tail[j]
    BY <1>6, <2>1, <2>2
  <2> QED BY <2>3, <2>4
<1>8. upper \in Seq(Entry) /\ Len(upper) = L - i + 1
  <2>1. Len(tail) \in Nat /\ Len(tail) = L - i + 1
    BY <1>2, <1>5
  <2>2. \A k \in 1 .. Len(tail) : tail[(Len(tail) - k) + 1] \in Entry
    BY <1>6, <1>7, <2>1
  <2> QED BY <1>6, <2>1, <2>2
<1> QED BY <1>0, <1>1, <1>3, <1>7, <1>8

\* The two walks meet at e, and between them compare it with all the others.
LEMMA WalksMeet ==
  ASSUME NEW e \in Entry, NEW all \in Seq(Entry), NEW i \in 1 .. Len(all), NEW W
  PROVE  /\ TaughtBy(e, all, W) = TaughtBy(e, Lower(all, i), W) + TaughtBy(e, Upper(all, i), W)
         /\ TaughtBy(e, Lower(all, i), W) \in Nat
         /\ TaughtBy(e, Upper(all, i), W) \in Nat
<1> HIDE DEF Entry
<1>0. PICK lower, upper : lower = Lower(all, i) /\ upper = Upper(all, i)
  OBVIOUS
<1>1. PICK L : L = Len(all)
  OBVIOUS
<1>2. L \in Nat /\ i \in Nat /\ i >= 1 /\ i <= L
  BY <1>1
<1>3. Len(lower) = i - 1 /\ \A k \in 1 .. i - 1 : lower[k] = all[k]
  BY <1>0, WalksAre
<1>7. \A k \in 1 .. L - i + 1 : upper[k] = all[L + 1 - k]
  BY <1>0, <1>1, WalksAre
<1>8. Len(upper) = L - i + 1
  BY <1>0, <1>1, WalksAre
<1> DEFINE A == {b \in 1 .. L : Taught(e, all[b], W)}
           U == {k \in 1 .. i - 1 : Taught(e, lower[k], W)}
           V == {k \in 1 .. L - i + 1 : Taught(e, upper[k], W)}
           X == {b \in i .. L : Taught(e, all[b], W)}
<1>9. IsFiniteSet(U) /\ IsFiniteSet(V) /\ Cardinality(U) \in Nat /\ Cardinality(V) \in Nat
  <2>1. IsFiniteSet(1 .. i - 1) /\ IsFiniteSet(1 .. L - i + 1)
    BY <1>2, FS_Interval
  <2>2. U \subseteq 1 .. i - 1 /\ V \subseteq 1 .. L - i + 1
    OBVIOUS
  <2> HIDE DEF U, V
  <2> QED BY <2>1, <2>2, FS_Subset, FS_CardinalityType
<1>10. IsFiniteSet(X) /\ Cardinality(X) = Cardinality(V)
  <2>1. PICK f : f = [k \in V |-> L + 1 - k]
    OBVIOUS
  <2>2. ASSUME NEW k \in V PROVE f[k] = L + 1 - k /\ f[k] \in X /\ k \in 1 .. L - i + 1
    <3>1. k \in 1 .. L - i + 1 /\ Taught(e, all[L + 1 - k], W)
      BY <1>7
    <3>2. L + 1 - k \in i .. L
      BY <1>2, <3>1
    <3> QED BY <2>1, <3>1, <3>2
  <2>3. ASSUME NEW k \in V, NEW m \in V, f[k] = f[m] PROVE k = m
    BY <1>2, <2>2, <2>3
  <2>4. ASSUME NEW b \in X PROVE \E k \in V : f[k] = b
    <3>1. b \in i .. L /\ Taught(e, all[b], W)
      OBVIOUS
    <3>2. L + 1 - b \in 1 .. L - i + 1 /\ L + 1 - (L + 1 - b) = b
      BY <1>2, <3>1
    <3>3. L + 1 - b \in V
      BY <1>7, <3>1, <3>2
    <3>4. f[L + 1 - b] = b
      BY <2>1, <3>2, <3>3
    <3> QED BY <3>3, <3>4
  <2>5. f \in [V -> X]
    BY <2>1, <2>2
  <2> HIDE DEF V, X
  <2> QED BY <1>9, <2>3, <2>4, <2>5, SameSize
<1>11. A = U \cup X /\ U \cap X = {}
  <2>1. U = {k \in 1 .. i - 1 : Taught(e, all[k], W)}
    BY <1>3
  <2>2. U \cap X = {}
    BY <1>2
  <2>3. A = U \cup X
    BY <1>2, <2>1
  <2> QED BY <2>2, <2>3
<1> HIDE DEF A, U, V, X
<1>12. Cardinality(A) = Cardinality(U) + Cardinality(V)
  <2>1. Cardinality(U \cup X) = Cardinality(U) + Cardinality(X) - Cardinality(U \cap X)
    BY <1>9, <1>10, FS_Union
  <2>2. Cardinality(U \cap X) = 0
    BY <1>11, FS_EmptySet
  <2> QED BY <1>9, <1>10, <1>11, <2>1, <2>2
<1>13. Cardinality(A) = TaughtBy(e, all, W)
  BY <1>1 DEF A, TaughtBy
<1>14. Cardinality(U) = TaughtBy(e, lower, W)
  BY <1>3 DEF U, TaughtBy
<1>15. Cardinality(V) = TaughtBy(e, upper, W)
  BY <1>8 DEF V, TaughtBy
<1> QED BY <1>0, <1>9, <1>12, <1>13, <1>14, <1>15

\* observeTrace counts everything that the comparisons with e teach: the item
\* from which each comparison begins is never behind the one it looks for.
LEMMA ObservedIs ==
  ASSUME addr \in Addresses, tot \in [Vals -> Nat], obs \in [DOMAIN obs -> [Vals -> Nat]],
         traces \in Seq(Entry), Sorted(traces), NEW e \in Entry
  PROVE  /\ Observed(e).traces = Added(e)
         /\ Observed(e).tot \in [Vals -> Nat]
         /\ Observed(e).obs \in [DOMAIN obs -> [Vals -> Nat]]
         /\ \A v \in Vals :
              Observed(e).tot[v] = tot[v] + TaughtBy(e, Added(e), OfValue(v))
         /\ \A d \in DOMAIN obs, v \in Vals :
              Observed(e).obs[d][v] = obs[d][v] + TaughtBy(e, Added(e), OfCond(d, v))
<1>0. PICK all : all = Added(e)
  OBVIOUS
<1>1. PICK i : i = Place(e.trace)
  OBVIOUS
<1>2. PICK D : D = DOMAIN obs
  OBVIOUS
<1>3. /\ all \in Seq(Entry) /\ Len(all) = Len(traces) + 1 /\ Sorted(all) /\ all[i] = e
      /\ i \in 1 .. Len(traces) + 1
  BY <1>0, <1>1, StillSorted, Placed
<1>4. /\ i \in 1 .. Len(all) /\ i \in Nat /\ Len(all) \in Nat /\ DOMAIN all = 1 .. Len(all)
      /\ \A k \in 1 .. Len(all) : all[k] \in Entry
  <2> HIDE DEF Entry
  <2> QED BY <1>3
<1>5. PICK lower : lower = Lower(all, i)
  OBVIOUS
<1>6. PICK upper : upper = Upper(all, i)
  OBVIOUS
<1>7. /\ lower \in Seq(Entry) /\ upper \in Seq(Entry)
      /\ Len(lower) = i - 1 /\ Len(upper) = Len(all) - i + 1
      /\ \A k \in 1 .. i - 1 : lower[k] = all[k]
      /\ \A k \in 1 .. Len(all) - i + 1 : upper[k] = all[Len(all) + 1 - k]
  <2>1. all \in Seq(Entry) /\ i \in 1 .. Len(all)
    BY <1>3, <1>4
  <2> HIDE DEF Entry
  <2> QED BY <2>1, <1>5, <1>6, WalksAre
<1>8. \A k \in 1 .. Len(all) : all[k].trace \in Seq(Decision)
  BY <1>4 DEF Entry
<1>9. e.trace \in Seq(Decision)
  BY DEF Entry
<1>10. \A j, k \in 1 .. Len(all) : j <= k => AtMost(all[j].trace, all[k].trace)
  <2> TAKE j, k \in 1 .. Len(all)
  <2>1. CASE j < k
    BY <1>3, <1>4, <2>1 DEF Sorted
  <2>2. CASE j = k
    BY <1>8, <2>2, AtMostSelf
  <2> QED BY <1>4, <2>1, <2>2
<1>11. Nearing(e, lower)
  <2> SUFFICES ASSUME NEW m \in 1 .. Len(lower), NEW n \in 1 .. Len(lower), NEW a, NEW b, m < n,
                      Parts(e.trace, lower[m].trace, a), Parts(e.trace, lower[n].trace, b)
               PROVE  a <= b
    BY DEF Nearing
  <2>0. Len(all) \in Nat /\ i \in Nat /\ m \in Nat /\ n \in Nat
    BY <1>4
  <2>1. PICK t, u : t = all[m].trace /\ u = all[n].trace
    OBVIOUS
  <2>2. /\ m \in 1 .. Len(all) /\ n \in 1 .. Len(all)
        /\ lower[m].trace = t /\ lower[n].trace = u
        /\ t \in Seq(Decision) /\ u \in Seq(Decision)
        /\ AtMost(t, u) /\ AtMost(u, e.trace)
    <3>1. /\ m \in 1 .. Len(all) /\ n \in 1 .. Len(all) /\ m <= n /\ n <= i
          /\ m \in 1 .. i - 1 /\ n \in 1 .. i - 1
      BY <1>4, <1>7, <2>0
    <3>2. lower[m].trace = t /\ lower[n].trace = u
      BY <1>7, <2>1, <3>1
    <3>3. t \in Seq(Decision) /\ u \in Seq(Decision)
      BY <1>8, <2>1, <3>1
    <3>4. AtMost(t, u) /\ AtMost(u, e.trace)
      BY <1>3, <1>4, <1>10, <2>1, <3>1
    <3> QED BY <3>1, <3>2, <3>3, <3>4
  <2>3. Parts(t, e.trace, a) /\ Parts(u, e.trace, b)
    BY <1>9, <2>2, PartsBoth
  <2>4. PICK c : Parts(t, u, c)
    BY <2>2, PartsExist
  <2>5. PICK d : Parts(t, e.trace, d) /\ d <= b
    BY <1>9, <2>2, <2>3, <2>4, Between
  <2>6. a = d
    BY <1>9, <2>2, <2>3, <2>5, PartsOnce
  <2> QED BY <2>5, <2>6
<1>12. Nearing(e, upper)
  <2> SUFFICES ASSUME NEW m \in 1 .. Len(upper), NEW n \in 1 .. Len(upper), NEW a, NEW b, m < n,
                      Parts(e.trace, upper[m].trace, a), Parts(e.trace, upper[n].trace, b)
               PROVE  a <= b
    BY DEF Nearing
  <2>0. Len(all) \in Nat /\ i \in Nat /\ m \in Nat /\ n \in Nat
    BY <1>4
  <2>1. PICK j, k : j = Len(all) + 1 - m /\ k = Len(all) + 1 - n
    OBVIOUS
  <2>2. PICK t, u : t = all[j].trace /\ u = all[k].trace
    OBVIOUS
  <2>3. j \in 1 .. Len(all) /\ k \in 1 .. Len(all) /\ i <= k /\ k <= j
    BY <1>4, <1>7, <2>0, <2>1
  <2>4. /\ upper[m].trace = t /\ upper[n].trace = u
        /\ t \in Seq(Decision) /\ u \in Seq(Decision)
        /\ AtMost(e.trace, u) /\ AtMost(u, t)
    BY <1>3, <1>4, <1>7, <1>8, <1>10, <2>1, <2>2, <2>3
  <2>5. PICK c : Parts(u, t, c)
    BY <2>4, PartsExist
  <2>6. PICK d : Parts(e.trace, t, d) /\ d <= b
    BY <1>9, <2>4, <2>5, Between
  <2>7. a = d
    BY <1>9, <2>4, <2>6, PartsOnce
  <2> QED BY <2>6, <2>7
<1>13. PICK start : start = [common |-> 1, tot |-> tot, obs |-> obs]
  OBVIOUS
<1>14. start \in Sums(D) /\ start.common = 1 /\ start.tot = tot /\ start.obs = obs
  BY <1>2, <1>13 DEF Sums
<1>15. PICK up : up = Swept(start, e, lower)
  OBVIOUS
<1>16. /\ up \in Sums(D)
       /\ \A v \in Vals :
            up.tot[v] = tot[v] + TaughtBy(e, lower, OfValue(v))
       /\ \A d \in D, v \in Vals :
            up.obs[d][v] =
              obs[d][v] + TaughtBy(e, lower, OfCond(d, v))
  <2> HIDE DEF Entry
  <2> QED BY <1>7, <1>11, <1>14, <1>15, SweptIs
<1>17. PICK mid : mid = Restarted(up)
  OBVIOUS
<1>18. mid \in Sums(D) /\ mid.common = 1 /\ mid.tot = up.tot /\ mid.obs = up.obs
  BY <1>16, <1>17 DEF Restarted, Sums
<1>19. PICK down : down = Swept(mid, e, upper)
  OBVIOUS
<1>20. /\ down \in Sums(D)
       /\ \A v \in Vals :
            down.tot[v] =
              mid.tot[v] + TaughtBy(e, upper, OfValue(v))
       /\ \A d \in D, v \in Vals :
            down.obs[d][v] =
              mid.obs[d][v] + TaughtBy(e, upper, OfCond(d, v))
  <2> HIDE DEF Entry
  <2> QED BY <1>7, <1>12, <1>18, <1>19, SweptIs
<1>21. Observed(e) = [tot |-> down.tot, obs |-> down.obs, traces |-> all]
  BY <1>0, <1>1, <1>5, <1>6, <1>13, <1>15, <1>17, <1>19 DEF Observed, Added, Lower, Upper
<1>22. down.tot \in [Vals -> Nat] /\ down.obs \in [D -> [Vals -> Nat]]
  BY <1>20 DEF Sums
<1>23. ASSUME NEW W
       PROVE
         /\ TaughtBy(e, all, W) = TaughtBy(e, lower, W) + TaughtBy(e, upper, W)
         /\ TaughtBy(e, lower, W) \in Nat
         /\ TaughtBy(e, upper, W) \in Nat
  <2> HIDE DEF Entry
  <2> QED BY <1>3, <1>4, <1>5, <1>6, WalksMeet
<1>24. ASSUME NEW v \in Vals
       PROVE  down.tot[v] = tot[v] + TaughtBy(e, all, OfValue(v))
  <2>1. PICK x, y : /\ x = TaughtBy(e, lower, OfValue(v))
                    /\ y = TaughtBy(e, upper, OfValue(v))
    OBVIOUS
  <2>2. TaughtBy(e, all, OfValue(v)) = x + y
    BY <1>23, <2>1
  <2>3. x \in Nat /\ y \in Nat
    BY <1>23, <2>1
  <2>4. down.tot[v] = up.tot[v] + y /\ up.tot[v] = tot[v] + x
    BY <1>16, <1>18, <1>20, <2>1
  <2>5. tot[v] \in Nat
    OBVIOUS
  <2> QED BY <2>2, <2>3, <2>4, <2>5
<1>25. ASSUME NEW d \in D, NEW v \in Vals
       PROVE  down.obs[d][v] = obs[d][v] + TaughtBy(e, all, OfCond(d, v))
  <2>1. PICK x, y : /\ x = TaughtBy(e, lower, OfCond(d, v))
                    /\ y = TaughtBy(e, upper, OfCond(d, v))
    OBVIOUS
  <2>2. TaughtBy(e, all, OfCond(d, v)) = x + y
    BY <1>23, <2>1
  <2>3. x \in Nat /\ y \in Nat
    BY <1>23, <2>1
  <2>4. down.obs[d][v] = up.obs[d][v] + y /\ up.obs[d][v] = obs[d][v] + x
    BY <1>16, <1>18, <1>20, <2>1
  <2>5. obs[d][v] \in Nat
    BY <1>2
  <2> QED BY <2>2, <2>3, <2>4, <2>5
<1> QED BY <1>0, <1>2, <1>21, <1>22, <1>24, <1>25

\* The lessons of the traces of s, as PairwiseCounts has them.
LessonsOf(s, d, v) ==
  {p \in (DOMAIN s) \X (DOMAIN s) :
    LET e == s[p[1]]
        f == s[p[2]]
    IN /\ Faster(e, f)
       /\ \E n \in DOMAIN e.trace \cap DOMAIN f.trace :
            /\ SubSeq(e.trace, 1, n - 1) = SubSeq(f.trace, 1, n - 1)
            /\ e.trace[n] # f.trace[n]
            /\ e.trace[n].value = v
            /\ d \in ToSet(Conds(e.trace[n].ctx))}

LEMMA LessonsArePairs ==
  ASSUME NEW s \in Seq(Entry), NEW d, NEW v
  PROVE  LessonsOf(s, d, v) = Pairs(s, OfCond(d, v))
<1>1. ASSUME NEW e \in Entry, NEW f \in Entry
      PROVE  Lesson(e, f, OfCond(d, v)) <=>
               /\ Faster(e, f)
               /\ \E n \in DOMAIN e.trace \cap DOMAIN f.trace :
                    /\ SubSeq(e.trace, 1, n - 1) = SubSeq(f.trace, 1, n - 1)
                    /\ e.trace[n] # f.trace[n]
                    /\ e.trace[n].value = v
                    /\ d \in ToSet(Conds(e.trace[n].ctx))
  <2>1. PICK t, u : t = e.trace /\ u = f.trace /\ t \in Seq(Decision) /\ u \in Seq(Decision)
    BY DEF Entry
  <2>2. /\ Len(t) \in Nat /\ DOMAIN t = 1 .. Len(t) /\ Len(u) \in Nat /\ DOMAIN u = 1 .. Len(u)
        /\ \A n \in DOMAIN t : t[n] \in Decision
    <3> HIDE DEF Decision
    <3> QED BY <2>1
  <2>3. ASSUME NEW n \in DOMAIN t \cap DOMAIN u
        PROVE  SubSeq(t, 1, n - 1) = SubSeq(u, 1, n - 1) /\ t[n] # u[n] <=> Parts(t, u, n)
    <3>1. n \in Nat /\ n >= 1 /\ n <= Len(t) /\ n <= Len(u)
      BY <2>2
    <3>2. SubSeq(t, 1, n - 1) = SubSeq(u, 1, n - 1) <=> \A k \in 1 .. n - 1 : t[k] = u[k]
      <4> HIDE DEF Decision
      <4>1. /\ SubSeq(t, 1, n - 1) = [k \in 1 .. n - 1 |-> t[k]]
            /\ SubSeq(u, 1, n - 1) = [k \in 1 .. n - 1 |-> u[k]]
        BY <2>1, <2>2, <3>1
      <4> QED BY <4>1
    <3> QED BY <2>2, <3>1, <3>2 DEF Parts
  <2>4. ASSUME NEW n \in DOMAIN t \cap DOMAIN u
        PROVE  t[n] \in OfCond(d, v) <=> t[n].value = v /\ d \in ToSet(Conds(t[n].ctx))
    BY <2>2 DEF OfCond
  <2> HIDE DEF OfCond
  <2> QED BY <2>1, <2>3, <2>4 DEF Lesson
<1>2. \A k \in DOMAIN s : s[k] \in Entry
  <2> HIDE DEF Entry
  <2> QED OBVIOUS
<1> QED BY <1>1, <1>2 DEF LessonsOf, Pairs

LEMMA NoLessons ==
  ASSUME traces = <<>>, NEW d, NEW v
  PROVE  Cardinality(Lessons(d, v)) = 0
<1>1. Lessons(d, v) = {}
  BY DEF Lessons
<1> QED BY <1>1, FS_EmptySet

\* What PInv says stays true while nothing is decided or observed.
LEMMA SameCounts ==
  ASSUME PInv, UNCHANGED <<addr, learnt>>,
         next' \in 1 .. BatchSize + 1,
         \A k \in Threads : path'[k] = path[k] \/ path'[k] = <<>>,
         \A j \in Trials : \/ trials'[j] \in {trials[j], <<>>}
                           \/ \E k \in Threads : trials'[j] = path[k]
  PROVE  PInv'
<1>1. UNCHANGED <<tot, obs, traces>>
  BY DEF learnt
<1>2. ASSUME NEW t, NEW u PROVE AtMost(t, u)' = AtMost(t, u)
  BY DEF AtMost, Before
<1>3. ASSUME NEW t PROVE Familiar(t)' = Familiar(t)
  BY <1>1 DEF Familiar
<1>4. Familiar(<<>>)
  BY DEF Familiar
<1>5. PairwiseCounts'
  <2>1. ASSUME NEW d, NEW v PROVE Lessons(d, v)' = Lessons(d, v)
    BY <1>1 DEF Lessons
  <2>2. PairwiseCounts
    BY DEF PInv
  <2> QED BY <1>1, <2>1, <2>2 DEF PairwiseCounts
<1>6. \A i, j \in DOMAIN traces : i < j => AtMost(traces[i].trace, traces[j].trace)'
  BY <1>1, <1>2 DEF PInv
<1>7. \A i \in DOMAIN traces : Familiar(traces[i].trace)'
  BY <1>1, <1>3 DEF PInv
<1>8. \A k \in Threads : Familiar(path[k])'
  BY <1>3, <1>4 DEF PInv
<1>9. \A j \in Trials : Familiar(trials[j])'
  BY <1>3, <1>4 DEF PInv
<1>10. addr' \in Addresses /\ tot' \in [Vals -> Nat] /\ obs' \in [DOMAIN obs' -> [Vals -> Nat]]
       /\ traces' \in Seq(Entry)
  BY <1>1 DEF PInv
<1> QED BY <1>1, <1>5, <1>6, <1>7, <1>8, <1>9, <1>10 DEF PInv

LEMMA DecideCounts ==
  ASSUME PInv, Typed, NEW k \in Threads, Decide(k)
  PROVE  PInv'
<1>1. PICK c : c = Asked(prog, path[k])
  OBVIOUS
<1>2. PICK v : path' = [path EXCEPT ![k] = Append(path[k], [ctx |-> c, value |-> v])]
  BY <1>1 DEF Decide
<1>3. obs' = Known(obs, c) /\ UNCHANGED <<addr, tot, traces, trials, next>>
  BY <1>1 DEF Decide
<1>4. /\ DOMAIN obs' = DOMAIN obs \cup ToSet(Conds(c))
      /\ \A d \in DOMAIN obs : obs'[d] = obs[d]
      /\ \A d \in DOMAIN obs' \ DOMAIN obs : obs'[d] = Fresh(d)
  BY <1>3, CondsOf DEF Known
<1>5. obs' \in [DOMAIN obs' -> [Vals -> Nat]]
  <2>1. \A d : Fresh(d) \in [Vals -> Nat]
    BY DEF Fresh, InitObs
  <2>2. \A d \in DOMAIN obs' : obs'[d] \in [Vals -> Nat]
    BY <1>4, <2>1 DEF PInv
  <2>3. obs' = [d \in DOMAIN obs' |-> obs'[d]]
    BY <1>3 DEF Known
  <2> QED BY <2>2, <2>3
<1>6. ASSUME NEW t, Familiar(t) PROVE Familiar(t)'
  BY <1>4, <1>6 DEF Familiar
<1>7. ASSUME NEW h \in Threads PROVE Familiar(path[h])'
  <2>1. CASE h # k
    BY <1>2, <1>6, <2>1 DEF PInv, Typed
  <2>2. CASE h = k
    <3>1. PICK t : t = path[k]
      OBVIOUS
    <3>2. t \in Seq(Decision) /\ Familiar(t)
      BY <3>1 DEF PInv, Typed
    <3>3. PICK o : o = [ctx |-> c, value |-> v]
      OBVIOUS
    <3>4. path'[k] = Append(t, o)
      BY <1>2, <3>1, <3>3 DEF Typed
    <3>5. ASSUME NEW n \in DOMAIN Append(t, o) PROVE ToSet(Conds(Append(t, o)[n].ctx)) \subseteq DOMAIN obs'
      <4>1. /\ Len(t) \in Nat /\ DOMAIN t = 1 .. Len(t) /\ DOMAIN Append(t, o) = 1 .. Len(t) + 1
            /\ Append(t, o)[Len(t) + 1] = o /\ \A m \in 1 .. Len(t) : Append(t, o)[m] = t[m]
        <5> HIDE DEF Decision
        <5> QED BY <3>2
      <4>2. CASE n = Len(t) + 1
        <5>1. Append(t, o)[n].ctx = c
          BY <3>3, <4>1, <4>2
        <5> QED BY <1>4, <5>1
      <4>3. CASE n \in 1 .. Len(t)
        <5>1. Append(t, o)[n] = t[n] /\ n \in DOMAIN t
          BY <4>1, <4>3
        <5> QED BY <1>4, <3>2, <5>1 DEF Familiar
      <4> QED BY <4>1, <4>2, <4>3
    <3> QED BY <2>2, <3>4, <3>5 DEF Familiar
  <2> QED BY <2>1, <2>2
<1>8. ASSUME NEW d, NEW x PROVE Lessons(d, x)' = Lessons(d, x)
  BY <1>3 DEF Lessons
<1>9. ASSUME NEW d, d \notin DOMAIN obs, NEW x PROVE Cardinality(Lessons(d, x)) = 0
  <2>1. ASSUME NEW p \in Lessons(d, x) PROVE FALSE
    <3>1. PICK n \in DOMAIN traces[p[1]].trace : d \in ToSet(Conds(traces[p[1]].trace[n].ctx))
      BY DEF Lessons
    <3>2. p[1] \in DOMAIN traces
      BY DEF Lessons
    <3> QED BY <1>9, <3>1, <3>2 DEF PInv, Familiar
  <2>2. Lessons(d, x) = {}
    BY <2>1
  <2> QED BY <2>2, FS_EmptySet
<1>10. PairwiseCounts'
  <2>1. ASSUME NEW x \in Vals, NEW d \in DOMAIN obs'
        PROVE  obs'[d][x] = Fresh(d)[x] + Cardinality(Lessons(d, x))
    <3>1. CASE d \in DOMAIN obs
      BY <1>4, <3>1 DEF PInv, PairwiseCounts, Fresh
    <3>2. CASE d \notin DOMAIN obs
      <4>1. obs'[d] = Fresh(d) /\ Cardinality(Lessons(d, x)) = 0 /\ Fresh(d)[x] \in Nat
        BY <1>4, <1>9, <3>2 DEF Fresh, InitObs
      <4> QED BY <4>1
    <3> QED BY <3>1, <3>2
  <2>2. \A x \in Vals : tot'[x] = INIT_OBS + Cardinality(Lessons(<<"defDiff", TRUE>>, x))
                                           + Cardinality(Lessons(<<"defDiff", FALSE>>, x))
    BY <1>3 DEF PInv, PairwiseCounts
  <2> QED BY <1>8, <2>1, <2>2 DEF PairwiseCounts, Fresh
<1>11. ASSUME NEW t, NEW u PROVE AtMost(t, u)' = AtMost(t, u)
  BY <1>3 DEF AtMost, Before
<1>12. \A i, j \in DOMAIN traces : i < j => AtMost(traces[i].trace, traces[j].trace)'
  BY <1>3, <1>11 DEF PInv
<1>13. \A i \in DOMAIN traces : Familiar(traces[i].trace)'
  BY <1>3, <1>6 DEF PInv
<1>14. \A j \in Trials : Familiar(trials[j])'
  BY <1>3, <1>6 DEF PInv
<1> QED BY <1>3, <1>5, <1>7, <1>10, <1>12, <1>13, <1>14 DEF PInv

LEMMA MeasureCounts ==
  ASSUME PInv, Typed, Measure
  PROVE  PInv'
<1>1. PICK m \in Times :
        LET r == Observed([trace |-> trials[next], time |-> m[1], stddev |-> m[2]])
        IN tot' = r.tot /\ obs' = r.obs /\ traces' = r.traces
  BY DEF Measure
<1>2. PICK e : e = [trace |-> trials[next], time |-> m[1], stddev |-> m[2]]
  OBVIOUS
<1>3. tot' = Observed(e).tot /\ obs' = Observed(e).obs /\ traces' = Observed(e).traces
  BY <1>1, <1>2
<1>4. /\ next \in Trials /\ next' = next + 1 /\ next' \in 1 .. BatchSize + 1
      /\ UNCHANGED <<addr, path, trials>>
  BY Sizes DEF Measure, region, PInv, Trials
<1>5. e \in Entry /\ e.trace = trials[next]
  BY <1>2, <1>4, TuneAssumption DEF TuneAssumption, Entry, Typed
<1>6. /\ addr \in Addresses /\ tot \in [Vals -> Nat] /\ obs \in [DOMAIN obs -> [Vals -> Nat]]
      /\ traces \in Seq(Entry) /\ Sorted(traces)
  BY DEF PInv, Sorted
<1>7. PICK i : i = Place(e.trace)
  OBVIOUS
<1>8. PICK all : all = Added(e)
  OBVIOUS
<1>9. /\ i \in 1 .. Len(traces) + 1
      /\ all \in Seq(Entry) /\ Sorted(all)
      /\ \A k \in DOMAIN all : all[k] = e \/ \E h \in DOMAIN traces : all[k] = traces[h]
  <2>1. i \in 1 .. Len(traces) + 1
    BY <1>5, <1>6, <1>7, Placed
  <2> QED BY <1>5, <1>6, <1>8, <2>1, StillSorted
<1>10. /\ traces' = all
       /\ tot' \in [Vals -> Nat]
       /\ obs' \in [DOMAIN obs -> [Vals -> Nat]]
       /\ \A v \in Vals : tot'[v] = tot[v] + TaughtBy(e, all, OfValue(v))
       /\ \A d \in DOMAIN obs, v \in Vals : obs'[d][v] = obs[d][v] + TaughtBy(e, all, OfCond(d, v))
  BY <1>3, <1>5, <1>6, <1>8, ObservedIs
<1>11. DOMAIN obs' = DOMAIN obs
  BY <1>10
<1>12. ASSUME NEW t PROVE Familiar(t)' = Familiar(t)
  BY <1>11 DEF Familiar
<1>13. ASSUME NEW t, NEW u PROVE AtMost(t, u)' = AtMost(t, u)
  BY <1>4 DEF AtMost, Before
<1>14. ASSUME NEW d, NEW v
       PROVE  /\ Lessons(d, v) = Pairs(traces, OfCond(d, v))
              /\ Lessons(d, v)' = Pairs(all, OfCond(d, v))
  <2>1. Lessons(d, v) = LessonsOf(traces, d, v)
    BY DEF Lessons, LessonsOf
  <2>2. traces' \in Seq(Entry)
    BY <1>9, <1>10
  <2>3. Lessons(d, v)' = LessonsOf(traces', d, v)
    BY DEF Lessons, LessonsOf
  <2> QED BY <1>6, <1>10, <2>1, <2>2, <2>3, LessonsArePairs
<1>15. ASSUME NEW W
       PROVE  /\ Cardinality(Pairs(all, W)) = Cardinality(Pairs(traces, W)) + TaughtBy(e, all, W)
              /\ Cardinality(Pairs(all, W)) \in Nat /\ Cardinality(Pairs(traces, W)) \in Nat
              /\ TaughtBy(e, all, W) \in Nat
  BY <1>5, <1>6, <1>7, <1>8, <1>9, PairsInserted, PairsFinite DEF Added
<1>16. PairwiseCounts'
  <2>1. ASSUME NEW v \in Vals, NEW d \in DOMAIN obs'
        PROVE  obs'[d][v] = Fresh(d)[v] + Cardinality(Lessons(d, v)')
    <3>0. Fresh(d)[v] \in Nat
      BY DEF Fresh, InitObs
    <3>1. obs[d][v] = Fresh(d)[v] + Cardinality(Pairs(traces, OfCond(d, v)))
      BY <1>11, <1>14 DEF PInv, PairwiseCounts, Fresh
    <3>2. obs'[d][v] = obs[d][v] + TaughtBy(e, all, OfCond(d, v))
      BY <1>10, <1>11
    <3>3. /\ Cardinality(Pairs(all, OfCond(d, v))) =
               Cardinality(Pairs(traces, OfCond(d, v))) + TaughtBy(e, all, OfCond(d, v))
          /\ Cardinality(Pairs(traces, OfCond(d, v))) \in Nat
      BY <1>15
    <3>4. PICK x, y, z, w : /\ x = Cardinality(Pairs(traces, OfCond(d, v)))
                            /\ y = TaughtBy(e, all, OfCond(d, v))
                            /\ z = Fresh(d)[v] /\ w = Cardinality(Pairs(all, OfCond(d, v)))
      OBVIOUS
    <3>5. obs'[d][v] = z + x + y /\ w = x + y /\ x \in Nat /\ w \in Nat /\ z \in Nat
      BY <3>0, <3>1, <3>2, <3>3, <3>4, <1>15
    <3>6. y \in Nat
      BY <3>4, <1>15
    <3>7. Cardinality(Lessons(d, v)') = w
      BY <3>4, <1>14
    <3> QED BY <3>4, <3>5, <3>6, <3>7
  <2>2. ASSUME NEW v \in Vals
        PROVE  tot'[v] = INIT_OBS + Cardinality(Lessons(<<"defDiff", TRUE>>, v)')
                                  + Cardinality(Lessons(<<"defDiff", FALSE>>, v)')
    <3>1. tot[v] = INIT_OBS + Cardinality(Pairs(traces, OfValue(v)))
      <4>1. tot[v] = INIT_OBS + Cardinality(Lessons(<<"defDiff", TRUE>>, v))
                              + Cardinality(Lessons(<<"defDiff", FALSE>>, v))
        BY DEF PInv, PairwiseCounts
      <4>2. tot[v] = INIT_OBS + Cardinality(Pairs(traces, OfCond(<<"defDiff", TRUE>>, v)))
                              + Cardinality(Pairs(traces, OfCond(<<"defDiff", FALSE>>, v)))
        BY <4>1, <1>14
      <4> QED BY <1>6, <4>2, PairsOfDefDiff DEF INIT_OBS
    <3>2. tot'[v] = tot[v] + TaughtBy(e, all, OfValue(v))
      BY <1>10
    <3>3. /\ Cardinality(Pairs(all, OfValue(v))) =
               Cardinality(Pairs(traces, OfValue(v))) + TaughtBy(e, all, OfValue(v))
          /\ Cardinality(Pairs(traces, OfValue(v))) \in Nat
      BY <1>15
    <3>4. tot'[v] = INIT_OBS + Cardinality(Pairs(all, OfValue(v)))
      BY <3>1, <3>2, <3>3, <1>15 DEF INIT_OBS
    <3>5. tot'[v] = INIT_OBS + Cardinality(Pairs(all, OfCond(<<"defDiff", TRUE>>, v)))
                             + Cardinality(Pairs(all, OfCond(<<"defDiff", FALSE>>, v)))
      BY <1>9, <3>4, PairsOfDefDiff DEF INIT_OBS
    <3> QED BY <3>5, <1>14
  <2> QED BY <2>1, <2>2 DEF PairwiseCounts, Fresh
<1>17. \A j, k \in DOMAIN all : j < k => AtMost(all[j].trace, all[k].trace)'
  BY <1>9, <1>13 DEF Sorted
<1>18. \A k \in DOMAIN all : Familiar(all[k].trace)'
  <2>1. Familiar(e.trace)
    BY <1>4, <1>5 DEF PInv
  <2> QED BY <1>9, <1>12, <2>1 DEF PInv
<1> QED BY <1>4, <1>9, <1>10, <1>11, <1>12, <1>16, <1>17, <1>18 DEF PInv

LEMMA CountsKept == Spec => []PInv
<1>1. Init => PInv
  <2> SUFFICES ASSUME Init PROVE PInv
    OBVIOUS
  <2>1. /\ addr \in Addresses /\ next = 1 /\ tot = [v \in Vals |-> INIT_OBS]
        /\ obs = <<>> /\ traces = <<>>
        /\ path = [k \in Threads |-> <<>>] /\ trials = [j \in Trials |-> <<>>]
    BY DEF Init
  <2>2. DOMAIN obs = {} /\ DOMAIN traces = {} /\ obs \in [DOMAIN obs -> [Vals -> Nat]]
    BY <2>1
  <2>3. Familiar(<<>>)
    BY DEF Familiar
  <2>4. PairwiseCounts
    <3>1. \A d, v : Cardinality(Lessons(d, v)) = 0
      BY <2>1, NoLessons
    <3> QED BY <2>1, <2>2, <3>1 DEF PairwiseCounts, INIT_OBS
  <2>5. next \in 1 .. BatchSize + 1 /\ tot \in [Vals -> Nat] /\ traces \in Seq(Entry)
    BY <2>1, Sizes DEF INIT_OBS
  <2> QED BY <2>1, <2>2, <2>3, <2>4, <2>5 DEF PInv
<1>2. IInv /\ RInv /\ PInv /\ [Next]_vars => PInv'
  <2> SUFFICES ASSUME IInv, RInv, PInv, [Next]_vars PROVE PInv'
    OBVIOUS
  <2>0. Typed /\ next \in 1 .. BatchSize + 1 /\ 1 \in 1 .. BatchSize + 1
    BY Sizes DEF RInv, PInv
  <2>1. ASSUME NewRegion, UNCHANGED <<addr, learnt>> PROVE PInv'
    <3>1. next' = 1 /\ path' = [k \in Threads |-> <<>>] /\ trials' = [j \in Trials |-> <<>>]
      BY <2>1 DEF NewRegion
    <3> QED BY <2>0, <2>1, <3>1, SameCounts
  <2>2. ASSUME UNCHANGED <<addr, learnt, path, trials, next>> PROVE PInv'
    BY <2>0, <2>2, SameCounts
  <2>3. ASSUME NEW p \in Programs, StartTune(p) PROVE PInv'
    BY <2>1, <2>3 DEF StartTune
  <2>4. ASSUME NEW p \in Programs, StartSchedule(p) PROVE PInv'
    BY <2>2, <2>4 DEF StartSchedule, region
  <2>5. CASE EndSchedule
    BY <2>1, <2>5 DEF EndSchedule
  <2>6. ASSUME NEW k \in Threads, Begin(k) PROVE PInv'
    <3>1. path' = [path EXCEPT ![k] = <<>>] /\ UNCHANGED <<addr, learnt, trials, next>>
      BY <2>6 DEF Begin
    <3>2. \A h \in Threads : path'[h] = path[h] \/ path'[h] = <<>>
      BY <2>0, <3>1 DEF Typed
    <3> QED BY <2>0, <3>1, <3>2, SameCounts
  <2>7. ASSUME NEW k \in Threads, Decide(k) PROVE PInv'
    BY <2>0, <2>7, DecideCounts
  <2>8. ASSUME NEW k \in Threads, Finish(k) PROVE PInv'
    <3>1. trials' = [trials EXCEPT ![cur[k]] = path[k]] /\ UNCHANGED <<addr, learnt, path, next>>
      BY <2>8 DEF Finish
    <3>2. \A j \in Trials : trials'[j] = trials[j] \/ trials'[j] = path[k]
      BY <2>0, <3>1 DEF Typed
    <3> QED BY <2>0, <3>1, <3>2, SameCounts
  <2>9. ASSUME NEW k \in Threads, Throw(k) \/ Leave(k) PROVE PInv'
    BY <2>2, <2>9 DEF Throw, Leave
  <2>10. ASSUME Rethrow, UNCHANGED addr PROVE PInv'
    BY <2>1, <2>10 DEF Rethrow
  <2>11. CASE Join
    BY <2>2, <2>10, <2>11 DEF Join, Rethrow, region
  <2>12. CASE Measure
    BY <2>0, <2>12, MeasureCounts
  <2>13. CASE MeasureThrows
    BY <2>10, <2>13 DEF MeasureThrows, Rethrow
  <2>14. CASE NextBatch
    BY <2>1, <2>14 DEF NextBatch
  <2>15. CASE EndTune
    BY <2>1, <2>15 DEF EndTune
  <2>16. CASE UNCHANGED vars
    BY <2>2, <2>16 DEF vars, region
  <2> QED
    BY <2>3, <2>4, <2>5, <2>6, <2>7, <2>8, <2>9, <2>11, <2>12, <2>13, <2>14, <2>15, <2>16 DEF Next
<1> QED BY <1>1, <1>2, Inductive, BatchesKept, PTL DEF Spec

\* The random variables count what each pair of the observed traces teaches,
\* once, in whatever order the traces came, for any programs, measured times
\* and addresses of the variables.
THEOREM CountsArePairwise == Spec => []PairwiseCounts
<1>1. PInv => PairwiseCounts
  BY DEF PInv
<1> QED BY <1>1, CountsKept, PTL

=============================================================================

------------------------------- MODULE Search -------------------------------
(***************************************************************************)
(* AutoSchedule (src/src/auto_schedule/auto_schedule.cc): rounds of a      *)
(* search for the fastest schedule.  The first round makes the base        *)
(* sketches and measures random annotations of them.  Each later round     *)
(* measures the best predicted sketches of an evolution, and then some     *)
(* more random ones.                                                       *)
(*                                                                         *)
(* Sketches are shared objects: a population holds references, and one     *)
(* that is inherited twice is there twice.  Its schedule is cached in the  *)
(* object, and threads generate those of a population in parallel.         *)
(*                                                                         *)
(* A while(true) loop that draws until something is accepted is one step   *)
(* that draws what is accepted; Breedable says that there is such.         *)
(***************************************************************************)
EXTENDS Sketch, SequencesExt, FiniteSetsExt

CONSTANTS
  Inputs,       \* what is searched: target, rules, sub-programs and sizes
  Population,   \* EVOLUTIONARY_SEARCH_POPULATION
  InitExplore,  \* EVOLUTIONARY_SEARCH_INIT_EXPLORE_CNT
  InitExploit,  \* EVOLUTIONARY_SEARCH_INIT_EXPLOIT_CNT
  Iters,        \* EVOLUTIONARY_SEARCH_ITERS
  MaxUnchanged, \* turns without a new sketch that getRandPopulation takes
  NumThreads,   \* of an OpenMP region
  Durations,    \* what may be measured
  Forever,      \* the time of a sketch that could not be built or run
  Scores        \* what may be predicted

ASSUME SearchAssumption ==
  /\ \A i \in Inputs :
       /\ i.plat \in {CPU, GPU} /\ i.rules \subseteq Rules
       /\ i.subs \in Seq({NewSub(consumed) : consumed \in BOOLEAN})
       /\ \A n \in {i.n, i.exploit, i.explore, i.rounds} : n \in Nat
  /\ \A n \in {Population, InitExplore, InitExploit, MaxUnchanged, NumThreads} : n \in Nat \ {0}
  /\ Iters \in Nat
  /\ Durations \subseteq Nat /\ Forever \in Nat /\ \A d \in Durations : d < Forever
  /\ Scores \subseteq Nat \ {0}

VARIABLES
  input,    \* [plat, rules, subs, bad, n, exploit, explore, rounds]
  phase,    \* what the search does
  rounds,   \* the calls of searchOneRound that are left
  queue, bases,      \* q of genSketches, baseSketches_
  measured, hashes,  \* measuredSketches_ as <<sketch, made, time>>, measuredHashes_
  job,      \* what the random population is for: "first", "init" or "explore"
  rand, unchanged,   \* ret and roundUnchanged of getRandPopulation
  group,    \* the sketches that testAndAdd tests, as [sk, made]
  pop, objects,      \* v1: references, and the sketches behind them
  slot, doing,       \* the next slot to generate, and those that are generated
  iter, child,       \* i, and v2: a sketch, or the reference it was inherited from
  heap,     \* the best predicted sketches so far
  pred,     \* what was predicted of the sketches that were not measured
  seen      \* history: all sketches that were offered to the heap

evolution == <<pop, objects, slot, doing, iter, child, heap, pred, seen>>
random == <<job, rand, unchanged>>
results == <<measured, hashes>>
vars == <<input, phase, rounds, queue, bases, results, random, group, evolution>>

-----------------------------------------------------------------------------
NotMade == <<[sub |-> 0, part |-> "none", effect |-> "not made"]>>
Ungenerated(sk) == [sk |-> sk, made |-> NotMade]
Make(sk) == Generated(sk, input.plat, input.bad)
Values(os) == {o.sk : o \in os}

\* getBestTime
BestTime == IF measured = <<>> THEN Forever ELSE measured[1].time

\* An exception ends the round; so does its last step.
EndRound ==
  /\ phase' = "idle"
  /\ group' = <<>> /\ rand' = <<>> /\ job' = "none" /\ unchanged' = 0
  /\ pop' = <<>> /\ objects' = <<>> /\ slot' = 1 /\ iter' = 0 /\ child' = <<>>
  /\ heap' = {} /\ pred' = <<>> /\ seen' = {}
  /\ doing' = {}

\* The process dies or goes on with garbage.
Over(how) == phase' = how
Ended == {"undefined", "terminated"}

StartRandom(what) ==
  /\ phase' = "random" /\ job' = what
  /\ rand' = <<>> /\ unchanged' = 0

Wanted == CASE job = "first" -> input.n [] job = "init" -> InitExplore [] job = "explore" -> input.explore

-----------------------------------------------------------------------------
Init ==
  /\ input \in Inputs
  /\ phase = "idle" /\ rounds = input.rounds
  /\ queue = {} /\ bases = {}
  /\ measured = <<>> /\ hashes = {}
  /\ job = "none" /\ rand = <<>> /\ unchanged = 0 /\ group = <<>>
  /\ pop = <<>> /\ objects = <<>> /\ slot = 1 /\ iter = 0 /\ child = <<>>
  /\ heap = {} /\ pred = <<>> /\ seen = {}
  /\ doing = {}

SearchOneRound ==
  /\ phase = "idle" /\ rounds > 0
  /\ rounds' = rounds - 1
  /\ IF bases = {}
     THEN /\ phase' = "sketches" /\ job' = "first"
          /\ queue' = IF input.subs = <<>> THEN {} ELSE {NewSketch(input.subs)}
          /\ UNCHANGED <<rand, unchanged>>
     ELSE StartRandom("init") /\ UNCHANGED queue
  /\ UNCHANGED <<input, bases, results, group, evolution>>

\* One turn of genSketches: a sketch that no sub is left of is a base sketch.
\* In which order the sketches are taken makes no difference.
GenSketch ==
  /\ phase = "sketches"
  /\ \E sk \in queue :
       LET new == Expanded(sk, input.plat, input.rules)
           ready == {n \in new : n.now = 0}
       IN /\ bases' = bases \cup ready
          /\ queue' = (queue \ {sk}) \cup (new \ ready)
  /\ UNCHANGED <<input, phase, rounds, results, random, group, evolution>>

SketchesMade ==
  /\ phase = "sketches" /\ queue = {}
  /\ StartRandom("first")
  /\ UNCHANGED <<input, rounds, queue, bases, results, group, evolution>>

Space == UNION {Annotated(b, input.plat) : b \in bases}

\* Mutant: what was measured may be drawn again.
Undrawn == Space \ ToSet(rand)

Fresh == Space \ (hashes \cup ToSet(rand))

\* Mutant: turns without a new sketch are not counted.
NotCounted == unchanged
Counted == unchanged + 1

\* A turn of getRandPopulation draws Wanted sketches and keeps the new ones, in
\* order, here one by one; all that it draws may be used already.
RandomTurn ==
  /\ phase = "random" /\ Len(rand) < Wanted /\ unchanged <= MaxUnchanged
  /\ bases # {}
  /\ \/ \E sk \in Fresh : rand' = Append(rand, sk) /\ unchanged' = 0
     \/ Space # Fresh /\ unchanged' = Counted /\ UNCHANGED rand
  /\ UNCHANGED <<input, phase, rounds, queue, bases, results, job, group, evolution>>

\* baseSketches_[randomInt(-1)]
NothingToDraw ==
  /\ phase = "random" /\ Len(rand) < Wanted /\ bases = {}
  /\ Over("undefined")
  /\ UNCHANGED <<input, rounds, queue, bases, results, random, group, evolution>>

\* ASSERT(ret.size() == nRand)
TooFew ==
  /\ phase = "random" /\ Len(rand) < Wanted /\ unchanged > MaxUnchanged
  /\ EndRound
  /\ UNCHANGED <<input, rounds, queue, bases, results>>

\* Mutant: the slowest are kept.
KeptSlowest == SubSeq(measured, Max({1, Len(measured) - InitExploit + 1}), Len(measured))

\* The measured sketches that an evolution begins with and that are kept.
Kept == SubSeq(measured, 1, Min({Len(measured), InitExploit}))

RandomDone ==
  /\ phase = "random" /\ Len(rand) = Wanted
  /\ rand' = <<>> /\ unchanged' = 0
  /\ IF job = "init"
     THEN LET kept == Kept
              init == [n \in DOMAIN rand |-> Ungenerated(rand[n])]
                      \o [n \in DOMAIN kept |-> [sk |-> kept[n].sk, made |-> kept[n].made]]
          IN /\ measured' = kept
             /\ objects' = init /\ pop' = [n \in DOMAIN init |-> n]
             /\ phase' = "predict"
             /\ UNCHANGED group
     ELSE /\ group' = [n \in DOMAIN rand |-> Ungenerated(rand[n])]
          /\ phase' = "test"
          /\ UNCHANGED <<measured, pop, objects>>
  /\ UNCHANGED <<input, rounds, queue, bases, hashes, job, slot, doing, iter, child, heap, pred, seen>>

-----------------------------------------------------------------------------
\* getPrediction generates the schedules: a thread takes the next slot and
\* looks whether its sketch has a schedule,
Look ==
  /\ phase = "predict" /\ Cardinality(doing) < NumThreads /\ slot <= Len(pop)
  /\ slot' = slot + 1
  /\ doing' = IF objects[pop[slot]].made = NotMade THEN doing \cup {slot} ELSE doing
  /\ UNCHANGED <<input, phase, rounds, queue, bases, results, random, group,
                 pop, objects, iter, child, heap, pred, seen>>

\* caches a fork of the original schedule,
Fork(s) ==
  /\ phase = "predict" /\ objects[pop[s]].made = NotMade
  /\ objects' = [objects EXCEPT ![pop[s]].made = <<>>]
  /\ UNCHANGED <<input, phase, rounds, queue, bases, results, random, group,
                 pop, slot, doing, iter, child, heap, pred, seen>>

\* and applies the parts to it.  No exception may leave an OpenMP region.
Apply(s) ==
  /\ phase = "predict" /\ objects[pop[s]].made # NotMade
  /\ LET made == objects[pop[s]].made \o Make(objects[pop[s]].sk)
     IN /\ objects' = [objects EXCEPT ![pop[s]].made = made]
        /\ IF Throws(made) THEN Over("terminated") ELSE UNCHANGED phase
  /\ doing' = doing \ {s}
  /\ UNCHANGED <<input, rounds, queue, bases, results, random, group, pop, slot, iter, child, heap, pred, seen>>

AllMade == phase = "predict" /\ slot > Len(pop) /\ doing = {}

\* The features of a sketch cannot be had: lowering it throws.
NoFeature ==
  /\ AllMade
  /\ EndRound
  /\ UNCHANGED <<input, rounds, queue, bases, results>>

\* Mutant: the order of the heap is reversed.
OfferedReversed(h, o, p) ==
  IF o.sk \in hashes \cup Values(h) THEN {h}
  ELSE IF Cardinality(h) < input.exploit THEN {h \cup {o}}
  ELSE {(h \ {x}) \cup {o} : x \in {y \in h : p[o.sk] < p[y.sk]}}
       \cup (IF \E x \in h : p[o.sk] < p[x.sk] THEN {} ELSE {h})

\* The heaps that offering o may give.  Of the worst, any may be on top.
Offered(h, o, p) ==
  LET worst == {x \in h : \A y \in h : p[x.sk] <= p[y.sk]} IN
  IF o.sk \in hashes \cup Values(h) THEN {h}
  ELSE IF Cardinality(h) < input.exploit THEN {h \cup {o}}
  ELSE {(h \ {x}) \cup {o} : x \in {y \in worst : p[o.sk] > p[y.sk]}}
       \cup (IF \E x \in worst : p[o.sk] > p[x.sk] THEN {} ELSE {h})

\* Predictions of the sketches that were not measured: those that have one
\* keep it.
Predict ==
  /\ AllMade
  /\ phase' = "offer" /\ slot' = 1
  /\ LET new == {objects[pop[n]].sk : n \in DOMAIN pop} \ (hashes \cup DOMAIN pred) IN
     \E p \in [new -> Scores] :
       pred' = [sk \in DOMAIN pred \cup new |-> IF sk \in new THEN p[sk] ELSE pred[sk]]
  /\ UNCHANGED <<input, rounds, queue, bases, results, random, group,
                 pop, objects, doing, iter, child, heap, seen>>

\* The next sketch of the population is offered to the heap.
Offer ==
  /\ phase = "offer" /\ slot <= Len(pop)
  /\ LET o == objects[pop[slot]] IN
     /\ input.exploit > 0 \/ o.sk \in hashes
     /\ heap' \in Offered(heap, o, pred)
     /\ seen' = seen \cup {o.sk}
  /\ slot' = slot + 1
  /\ UNCHANGED <<input, phase, rounds, queue, bases, results, random, group,
                 pop, objects, doing, iter, child, pred>>

\* heap[0] of an empty heap
NoHeap ==
  /\ phase = "offer" /\ slot <= Len(pop)
  /\ input.exploit = 0 /\ objects[pop[slot]].sk \notin hashes
  /\ Over("undefined")
  /\ UNCHANGED <<input, rounds, queue, bases, results, random, group, evolution>>

\* The best predicted first; what is as good as another may be before or after.
Ranked(h, p) == {q \in SetToSeqs(h) : \A i, j \in DOMAIN q : i < j => p[q[i].sk] >= p[q[j].sk]}

\* The end of an iteration, and of the last one.
Offers ==
  /\ phase = "offer" /\ slot > Len(pop)
  /\ slot' = 1
  /\ IF iter = Iters
     THEN /\ phase' = "test" /\ group' \in Ranked(heap, pred)
          /\ pop' = <<>> /\ objects' = <<>> /\ iter' = 0
     ELSE phase' = "breed" /\ UNCHANGED <<pop, objects, group, iter>>
  /\ UNCHANGED <<input, rounds, queue, bases, results, random, doing, child, heap, pred, seen>>

-----------------------------------------------------------------------------
\* What the next slot of v2 may hold, "from" the reference that is inherited.
Parent(n) == objects[pop[n]].sk
Mutated ==
  UNION {MutationsOf(Parent(a), i, input.plat) : a \in DOMAIN pop, i \in DOMAIN input.subs}
Crossed ==
  UNION {CrossingsOf(Parent(x[1]), Parent(x[2]), i) :
           x \in {y \in (DOMAIN pop) \X (DOMAIN pop) : y[1] # y[2]}, i \in DOMAIN input.subs}
Inherited == {[sk |-> objects[k].sk, from |-> k] : k \in ToSet(pop)}
Bred == {[sk |-> sk, from |-> 0] : sk \in Mutated \cup Crossed} \cup Inherited

\* Slots that hold the same reference.
Same(c, j, k) == j = k \/ (c[j].from # 0 /\ c[j].from = c[k].from)

Firsts(c) == [j \in DOMAIN c |-> Min({k \in DOMAIN c : Same(c, j, k)})]

\* Mutant: what is inherited loses its schedule.
SwappedBare(c) == pop' = Firsts(c) /\ objects' = [j \in DOMAIN c |-> Ungenerated(c[j].sk)]

Swapped(c) ==
  /\ pop' = Firsts(c)
  /\ objects' = [j \in DOMAIN c |-> IF c[j].from = 0 THEN Ungenerated(c[j].sk) ELSE objects[c[j].from]]

Breed ==
  /\ phase = "breed"
  /\ \E b \in Bred :
       LET c == Append(child, b) IN
       IF Len(c) = Population
       THEN Swapped(c) /\ child' = <<>> /\ phase' = "predict" /\ iter' = iter + 1
       ELSE child' = c /\ UNCHANGED <<phase, pop, objects, iter>>
  /\ UNCHANGED <<input, rounds, queue, bases, results, random, group, slot, doing, heap, pred, seen>>

\* randomInt(-1) for a sub without parts, and std::next on its empty map
BreedNothing ==
  /\ phase = "breed"
  /\ \E n \in DOMAIN pop : \E i \in DOMAIN input.subs : Partless(Parent(n).subs[i])
  /\ Over("undefined")
  /\ UNCHANGED <<input, rounds, queue, bases, results, random, group, evolution>>

-----------------------------------------------------------------------------
\* genFeatures makes what is not made yet, and rethrows what any sketch throws.
WithMade(os) ==
  [n \in DOMAIN os |-> IF os[n].made = NotMade THEN [sk |-> os[n].sk, made |-> Make(os[n].sk)] ELSE os[n]]

Usable(os) == \A n \in DOMAIN os : ~Throws(os[n].made)

Features ==
  /\ phase = "test" /\ Usable(WithMade(group))
  /\ phase' = "measure" /\ group' = WithMade(group)
  /\ heap' = {} /\ pred' = <<>> /\ seen' = {}
  /\ UNCHANGED <<input, rounds, queue, bases, results, random, pop, objects, slot, doing, iter, child>>

\* A part, the lowering or the analysis throws.
NoFeatures ==
  /\ phase = "test"
  /\ EndRound
  /\ UNCHANGED <<input, rounds, queue, bases, results>>

\* The model can only be trained if each feature has its label: update of
\* python/freetensor/core/auto_schedule.py raises an exception otherwise.
Learns(times) == Forever \notin ToSet(times)

\* The fastest first; what is as fast as another may be before or after it.
ByTime(s) ==
  {[n \in DOMAIN s |-> s[f[n]]] :
     f \in {g \in Bijection(DOMAIN s, DOMAIN s) :
              \A i, j \in DOMAIN s : i < j => s[g[i]].time <= s[g[j]].time}}

\* The rest of testAndAdd.
Measure ==
  /\ phase = "measure"
  /\ \E times \in [DOMAIN group -> Durations \cup {Forever}] :
       IF Learns(times)
       THEN /\ measured' \in ByTime(measured \o
                 [n \in DOMAIN group |-> [sk |-> group[n].sk, made |-> group[n].made, time |-> times[n]]])
            /\ hashes' = hashes \cup Values(ToSet(group))
            /\ IF job = "init" THEN StartRandom("explore") /\ group' = <<>> /\ UNCHANGED evolution
               ELSE EndRound
       ELSE EndRound /\ UNCHANGED results
  /\ UNCHANGED <<input, rounds, queue, bases>>

NoMore ==
  /\ phase \in Ended \/ (phase = "idle" /\ rounds = 0)
  /\ UNCHANGED vars

Sequential ==
  \/ SearchOneRound \/ GenSketch \/ SketchesMade
  \/ RandomTurn \/ NothingToDraw \/ TooFew \/ RandomDone
  \/ Look \/ NoFeature \/ Predict \/ Offer \/ NoHeap \/ Offers
  \/ Breed \/ BreedNothing
  \/ Features \/ NoFeatures \/ Measure

Thread(s) == s \in doing /\ (Fork(s) \/ Apply(s))

Next == Sequential \/ (\E s \in doing : Thread(s)) \/ NoMore

\* The most sketches a population has.
Slots == Max({Population, InitExplore + InitExploit})

\* The master and the threads of its regions go on; the scheduling of OpenMP
\* stops none of them for ever.
Fairness == WF_vars(Sequential) /\ \A s \in 1 .. Slots : WF_vars(Thread(s))

Spec == Init /\ [][Next]_vars /\ Fairness

-----------------------------------------------------------------------------
\* No schedule is generated by two threads at once, or twice: genSchedule looks
\* at its cache without a lock, but a sketch that is in a population twice was
\* inherited, and has its schedule.
OneGenerator ==
  /\ \A s, r \in doing : s # r => pop[s] # pop[r]
  /\ \A n \in DOMAIN objects :
       objects[n].made # NotMade => Len(objects[n].made) <= Len(PartsInOrder(objects[n].sk))

\* All that was measured, and so what getBestSchedule returns, had all its
\* parts applied: no schedule that an exception left in the cache is used.
BestWhole == \A n \in DOMAIN measured : Whole(measured[n].sk, measured[n].made)

\* The evolution returns the best predicted of all sketches it has come
\* across that were not measured before, each once, and no fewer than it can.
TopKept ==
  phase \in {"breed", "test"} /\ job = "init" =>
    LET new == seen \ hashes IN
    /\ Values(heap) \subseteq new
    /\ \A x, y \in heap : x.sk = y.sk => x = y
    /\ Cardinality(heap) <= input.exploit
    /\ Values(heap) # new => Cardinality(heap) = input.exploit
    /\ \A x \in heap : \A sk \in new \ Values(heap) : pred[sk] <= pred[x.sk]

\* No sketch is measured twice, although sketches are drawn, bred, inherited
\* and kept from round to round, and measuredSketches_ is cut.
MeasuredOnce ==
  /\ \A n, m \in DOMAIN measured : n # m => measured[n].sk # measured[m].sk
  /\ Values(ToSet(measured)) \subseteq hashes
  /\ \A n \in DOMAIN group : phase = "measure" => group[n].sk \notin hashes

\* getBestTime never gets worse, whatever is measured, cut or thrown.
BestStays == [][BestTime' <= BestTime]_vars

\* The search only goes wrong when it has nothing to draw from or nothing to
\* exploit, and only dies where a tiling is rejected or the rule that a part
\* relies on was left out.
OnlyThen ==
  /\ phase = "undefined" =>
       \/ bases = {} \/ input.exploit = 0
       \/ \E b \in bases : \E i \in DOMAIN b.subs : Partless(b.subs[i])
  /\ phase = "terminated" => input.bad # {} \/ BinderOf(input.plat) \notin input.rules

\* On a GPU, Unroll finds the loop that was bound to threads.
UnrollReaches ==
  input.plat = GPU =>
    \A n \in DOMAIN measured : \A i \in DOMAIN input.subs :
      LET m == measured[n]
          sub == m.sk.subs[i]
      IN Has(sub, "unroll") /\ sub.parts["unroll"] > 0 /\ "bound" \in Effects(m.made, i, "thread_bind") =>
           Effects(m.made, i, "unroll") = {"unrolled"}

\* What is measured, and so what getBestSchedule returns, is whole and new.
MeasuredWell == BestWhole /\ MeasuredOnce /\ UnrollReaches

\* Every round ends, also when there are no new sketches left and mutations and
\* crossovers must be drawn until one is accepted, and it ends well but then.
RoundEnds ==
  phase \notin {"idle"} \cup Ended ~> phase \in {"idle"} \cup Ended /\ OnlyThen
=============================================================================

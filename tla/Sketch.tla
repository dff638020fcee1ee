------------------------------- MODULE Sketch -------------------------------
(***************************************************************************)
(* Sketches of AutoSchedule (src/src/auto_schedule/sketch.cc), the rules   *)
(* that make them (src/src/auto_schedule/rules) and what their parts do to *)
(* a schedule.                                                             *)
(*                                                                         *)
(* A sketch has one sub-program for each nest with data reuse, and a sub   *)
(* has the log of its rules and the annotation of each of its parts: one   *)
(* number stands for the tiling of one loop, where 1 is a tiling without   *)
(* an outer tile, for the number of loops to parallelize, or for the size  *)
(* up to which loops are unrolled.  The hash of a sketch is taken to tell  *)
(* all sketches apart.                                                     *)
(***************************************************************************)
EXTENDS Integers, Sequences, FiniteSets

CPU == "cpu"
GPU == "gpu"

\* The parts, in the order of SketchPartType, which is that of a sub's map.
PartTypes == <<"tiling", "fusion", "thread_bind", "unroll", "parallelize">>
Tilings == {"tiling", "fusion"}
Parts == {PartTypes[n] : n \in DOMAIN PartTypes}
Rules == Parts \cup {"cache_write", "skip"}

\* The rules of a target, in order.  The user chooses among all but the last.
RulesOf(plat) ==
  IF plat = CPU
  THEN <<"cache_write", "fusion", "tiling", "parallelize", "unroll", "skip">>
  ELSE <<"cache_write", "fusion", "thread_bind", "unroll", "skip">>

-----------------------------------------------------------------------------
\* A sub-program: is its result only read element by element by one statement?
NewSub(consumed) == [log |-> <<>>, parts |-> <<>>, consumed |-> consumed]

\* "now" is the sub the rules are applied to; 0 if they are done with all.
NewSketch(subs) == [now |-> Len(subs), subs |-> subs]

Has(sub, p) == p \in DOMAIN sub.parts
NowSub(sk) == sk.subs[sk.now]

Tiled(sub) == \E p \in Tilings : Has(sub, p)

\* "analyze" of the rules: what each says of the sub it is asked about.  Those
\* that apply on a GPU skip the rest.
SkipUnless(yes, status) == IF yes THEN status ELSE "skip"
Status(plat) == IF plat = CPU THEN "apply" ELSE "apply and skip rest"
CacheWriteRule(plat, sub) == SkipUnless(~sub.consumed, Status(plat))
FusionRule(plat, sub) == SkipUnless(~Tiled(sub) /\ sub.consumed, Status(plat))
TilingRule(sub) == SkipUnless(~Tiled(sub), "apply")
ParallelizeRule(sub) == SkipUnless(~Has(sub, "parallelize") /\ Tiled(sub), "apply and skip rest")
ThreadBindRule(sub) == SkipUnless(~Has(sub, "thread_bind") /\ Has(sub, "fusion"), "apply and skip rest")
UnrollRule(sub) == SkipUnless(~Has(sub, "unroll") /\ Has(sub, "fusion"), "apply and skip rest")

Analyze(rule, plat, sub) ==
  CASE rule = "cache_write" -> CacheWriteRule(plat, sub)
    [] rule = "fusion" -> FusionRule(plat, sub)
    [] rule = "tiling" -> TilingRule(sub)
    [] rule = "parallelize" -> ParallelizeRule(sub)
    [] rule = "thread_bind" -> ThreadBindRule(sub)
    [] rule = "unroll" -> UnrollRule(sub)
    [] rule = "skip" -> "apply"

\* The levels at which the consumer may be fused.
FuseLevels(plat) == IF plat = CPU THEN {1, 2} ELSE {3}

WithNow(sk, sub) == [sk EXCEPT !.subs[sk.now] = sub]

\* A part that has no annotation yet is annotated with 0.  The log has the rule
\* and the level it chose, which is 0 but for fusion.
AddPart(sk, p, level) ==
  WithNow(sk, [NowSub(sk) EXCEPT !.log = Append(@, <<p, level>>),
                                 !.parts = [q \in DOMAIN @ \cup {p} |-> 0]])

\* "genPart" of the rules: the new sketches.
CacheWrite(sk) ==
  {WithNow(sk, [NowSub(sk) EXCEPT !.log = Append(@, <<"cache_write", 0>>), !.consumed = TRUE])}
Fuse(plat, sk) == {AddPart(sk, "fusion", level) : level \in FuseLevels(plat)}
Skip(sk) == {[sk EXCEPT !.now = @ - 1]}

GenPart(rule, plat, sk) ==
  CASE rule = "skip" -> Skip(sk)
    [] rule = "cache_write" -> CacheWrite(sk)
    [] rule = "fusion" -> Fuse(plat, sk)
    [] OTHER -> {AddPart(sk, rule, 0)}

\* What the rules make of a sketch, until one skips the rest.
Expanded(sk, plat, chosen) ==
  LET rules == RulesOf(plat)
      Says(n) == IF rules[n] \in chosen \cup {"skip"} THEN Analyze(rules[n], plat, NowSub(sk))
                 ELSE "skip"
      Reached(n) == \A m \in 1 .. n - 1 : Says(m) # "apply and skip rest"
  IN UNION {GenPart(rules[n], plat, sk) :
              n \in {m \in DOMAIN rules : Reached(m) /\ Says(m) # "skip"}}

-----------------------------------------------------------------------------
\* The annotations that a part draws from.  Fused tilings of a GPU have
\* virtual threads.
Notes(p, plat) ==
  CASE p = "fusion" /\ plat = GPU -> {2, 3}
    [] p \in Tilings \cup {"parallelize"} -> {1, 2}
    [] p = "unroll" -> {0, 1}
    [] p = "thread_bind" -> {0}

\* genRandAnnotation: any annotation of all parts.
Annotated(sk, plat) ==
  LET AnyNotes(sub) == {f \in [DOMAIN sub.parts -> 0 .. 3] :
                         \A p \in DOMAIN f : f[p] \in Notes(p, plat)}
  IN {[sk EXCEPT !.subs = [i \in DOMAIN sk.subs |-> [sk.subs[i] EXCEPT !.parts = fs[i]]]] :
        fs \in {s \in [DOMAIN sk.subs -> UNION {AnyNotes(sk.subs[i]) : i \in DOMAIN sk.subs}] :
                  \A i \in DOMAIN s : s[i] \in AnyNotes(sk.subs[i])}}

\* Parts that can be mutated and crossed: mutate and crossover of the others
\* return false.
Variable(sub) == DOMAIN sub.parts \ {"thread_bind"}

\* genMutation: what may come out, for the sub it draws.
MutationsOf(sk, i, plat) ==
  {[sk EXCEPT !.subs[i].parts[pn[1]] = pn[2]] :
     pn \in UNION {{p} \X Notes(p, plat) : p \in Variable(sk.subs[i])}}

\* genCrossover of a with b, for the sub it draws.
CanCrossOver(sub, other) == sub.log = other.log
CrossingsOf(a, b, i) ==
  {[a EXCEPT !.subs[i].parts[p] = b.subs[i].parts[p]] :
     p \in {q \in Variable(a.subs[i]) : CanCrossOver(a.subs[i], b.subs[i])}}

\* Both draw from the parts of a sub, which is undefined if it has none.
Partless(sub) == sub.parts = <<>>

-----------------------------------------------------------------------------
\* The part that knows which loop was parallelized last.
BinderOf(plat) == IF plat = GPU THEN "thread_bind" ELSE "parallelize"

TilingOf(sub) == IF Has(sub, "tiling") THEN "tiling" ELSE "fusion"

\* Is p applied before q?
Before(p, q) ==
  \E n, m \in DOMAIN PartTypes : n < m /\ PartTypes[n] = p /\ PartTypes[m] = q

\* "apply" of the parts.  "bad" are the tilings the schedule rejects.
Tile(sub, bad, p) == IF <<p, sub.parts[p]>> \in bad THEN "throws" ELSE "tiled"

\* Without outer tiles there is nothing to bind or parallelize.
Binds(sub) == sub.parts[TilingOf(sub)] > 1
Bind(sub) == IF Binds(sub) THEN "bound" ELSE "nothing"

\* Unroll returns at once if no loop was bound before.
Unroll(sub, plat) ==
  IF ~Has(sub, BinderOf(plat)) THEN "throws"
  ELSE IF Before(BinderOf(plat), "unroll") /\ Binds(sub) /\ sub.parts["unroll"] > 0 THEN "unrolled"
  ELSE "nothing"

\* A sub need not have all parts.
Applied(sub, plat, bad, p) ==
  IF ~Has(sub, p) THEN "no part"
  ELSE CASE p \in Tilings -> Tile(sub, bad, p)
         [] p = BinderOf(plat) -> Bind(sub)
         [] OTHER -> Unroll(sub, plat)

\* The parts that a sketch may have, as <<sub, part>>, in the order in which
\* genSchedule applies them: sub by sub.
PartsInOrder(sk) ==
  [n \in 1 .. Len(PartTypes) * Len(sk.subs) |->
     <<(n - 1) \div Len(PartTypes) + 1, PartTypes[((n - 1) % Len(PartTypes)) + 1]>>]

\* genSchedule applies the parts up to the first that throws.
Generated(sk, plat, bad) ==
  LET parts == PartsInOrder(sk)
      Effect(n) == Applied(sk.subs[parts[n][1]], plat, bad, parts[n][2])
      Reached(n) == \A m \in 1 .. n - 1 : Effect(m) # "throws"
  IN [n \in {m \in DOMAIN parts : Reached(m)} |->
        [sub |-> parts[n][1], part |-> parts[n][2], effect |-> Effect(n)]]

\* What part p did in sub i.
Effects(made, i, p) ==
  {made[n].effect : n \in {m \in DOMAIN made : made[m].sub = i /\ made[m].part = p}}

Throws(made) == \E n \in DOMAIN made : made[n].effect = "throws"
Whole(sk, made) == ~Throws(made) /\ Len(made) = Len(PartsInOrder(sk))
=============================================================================

----------------------------- MODULE SearchProofs -----------------------------
(***************************************************************************)
(* Proofs about module Search, for any inputs, populations and threads: no *)
(* schedule is generated twice, what is measured is whole and new, the     *)
(* evolution keeps the best that it has come across, and the best time     *)
(* that was measured never gets worse.                                     *)
(***************************************************************************)
EXTENDS Search, WellFoundedInduction, FiniteSetTheorems, TLAPS

\* Every set of numbers that is not empty has a least one.
LEMMA LeastNat ==
  ASSUME NEW S \in SUBSET Nat, S # {}
  PROVE  \E n \in S : \A m \in S : n <= m
<1>. DEFINE R == {p \in Nat \X Nat : p[1] < p[2]}
<1>1. IsWellFoundedOn(R, Nat)
  BY NatLessThanWellFounded DEF OpToRel
<1>2. PICK n \in S : \A m \in S : <<m, n>> \notin R
  <2>. HIDE DEF R
  <2>. QED BY <1>1, WFMin
<1>3. \A m \in S : ~(m < n)
  BY <1>2
<1>. QED BY <1>3

\* The sub-programs of a sketch: the log has the rules, with the level that each
\* has chosen; an annotation is a number.  The parts are those of the log.
Subs ==
  [log : Seq(Rules \X Nat), parts : UNION {[P -> 0 .. 3] : P \in SUBSET Parts}, consumed : BOOLEAN]
Logged(log) == {log[k][1] : k \in DOMAIN log} \cap Parts
Sub == {s \in Subs : DOMAIN s.parts = Logged(s.log)}

\* The sketches of n sub-programs.
Sketches(n) == [now : 0 .. n, subs : [1 .. n -> Sub]]

Effect == {"no part", "throws", "tiled", "bound", "nothing", "unrolled"}
Made == Seq([sub : Nat, part : Parts, effect : Effect])

-----------------------------------------------------------------------------
\* What the rules make of a sketch.
LEMMA PartsAre == Parts = {"tiling", "fusion", "thread_bind", "unroll", "parallelize"}
BY DEF Parts, PartTypes

LEMMA WithNowTyped ==
  ASSUME NEW n \in Nat, NEW sk \in Sketches(n), sk.now # 0, NEW sub \in Sub
  PROVE  WithNow(sk, sub) \in Sketches(n)
BY DEF Sketches, WithNow

LEMMA NowSubTyped ==
  ASSUME NEW n \in Nat, NEW sk \in Sketches(n), sk.now # 0
  PROVE  NowSub(sk) \in Sub
BY DEF Sketches, NowSub

LEMMA LogGrows ==
  ASSUME NEW log \in Seq(Rules \X Nat), NEW r \in Rules, NEW level \in Nat
  PROVE  /\ Append(log, <<r, level>>) \in Seq(Rules \X Nat)
         /\ Logged(Append(log, <<r, level>>)) = Logged(log) \cup ({r} \cap Parts)
<1>. DEFINE l == Append(log, <<r, level>>)
<1>1. l \in Seq(Rules \X Nat) /\ DOMAIN l = DOMAIN log \cup {Len(log) + 1}
  OBVIOUS
<1>2. l[Len(log) + 1] = <<r, level>> /\ \A k \in DOMAIN log : l[k] = log[k]
  OBVIOUS
<1>3. l[Len(log) + 1][1] = r
  BY <1>2
<1>. HIDE DEF l
<1>4. {l[k][1] : k \in DOMAIN log \cup {Len(log) + 1}} = {log[k][1] : k \in DOMAIN log} \cup {r}
  <2>1. {l[k][1] : k \in DOMAIN log} = {log[k][1] : k \in DOMAIN log}
    BY <1>2
  <2>2. {l[k][1] : k \in {Len(log) + 1}} = {r}
    BY <1>3
  <2>. QED BY <2>1, <2>2
<1>5. Logged(l) = Logged(log) \cup ({r} \cap Parts)
  BY <1>1, <1>4 DEF Logged
<1>. QED BY <1>1, <1>5 DEF l

LEMMA AddPartTyped ==
  ASSUME NEW n \in Nat, NEW sk \in Sketches(n), sk.now # 0, NEW p \in Parts, NEW level \in Nat
  PROVE  AddPart(sk, p, level) \in Sketches(n)
<1>. DEFINE s == NowSub(sk)
            r == [s EXCEPT !.log = Append(s.log, <<p, level>>),
                           !.parts = [q \in DOMAIN s.parts \cup {p} |-> 0]]
<1>1. s \in Sub
  BY NowSubTyped
<1>2. s.log \in Seq(Rules \X Nat) /\ DOMAIN s.parts \subseteq Parts /\ DOMAIN s.parts = Logged(s.log)
  BY <1>1 DEF Sub, Subs
<1>3. /\ Append(s.log, <<p, level>>) \in Seq(Rules \X Nat)
      /\ Logged(Append(s.log, <<p, level>>)) = Logged(s.log) \cup {p}
  BY <1>2, LogGrows DEF Rules
<1>4. [q \in DOMAIN s.parts \cup {p} |-> 0] \in UNION {[P -> 0 .. 3] : P \in SUBSET Parts}
  <2>1. [q \in DOMAIN s.parts \cup {p} |-> 0] \in [DOMAIN s.parts \cup {p} -> 0 .. 3]
    OBVIOUS
  <2>2. DOMAIN s.parts \cup {p} \in SUBSET Parts
    BY <1>2
  <2>. QED BY <2>1, <2>2
<1>5. r \in Sub
  <2>1. r.log = Append(s.log, <<p, level>>) /\ DOMAIN r.parts = DOMAIN s.parts \cup {p}
    BY <1>1 DEF Sub, Subs
  <2>2. r \in Subs
    <3>. HIDE DEF s
    <3>. QED BY <1>1, <1>3, <1>4 DEF Sub, Subs
  <2>. HIDE DEF r, s
  <2>. QED BY <1>2, <1>3, <2>1, <2>2 DEF Sub
<1>6. AddPart(sk, p, level) = WithNow(sk, r)
  BY DEF AddPart
<1>. HIDE DEF r
<1>. QED BY <1>5, <1>6, WithNowTyped

LEMMA GenPartTyped ==
  ASSUME NEW n \in Nat, NEW sk \in Sketches(n), sk.now # 0, NEW plat, NEW rule \in Rules
  PROVE  GenPart(rule, plat, sk) \subseteq Sketches(n)
<1>1. Skip(sk) \subseteq Sketches(n)
  BY DEF Skip, Sketches
<1>2. CacheWrite(sk) \subseteq Sketches(n)
  <2>. DEFINE s == NowSub(sk)
              r == [s EXCEPT !.log = Append(s.log, <<"cache_write", 0>>), !.consumed = TRUE]
  <2>1. s \in Sub
    BY NowSubTyped
  <2>2. /\ Append(s.log, <<"cache_write", 0>>) \in Seq(Rules \X Nat)
        /\ Logged(Append(s.log, <<"cache_write", 0>>)) = Logged(s.log)
    BY <2>1, LogGrows, PartsAre DEF Sub, Subs, Rules
  <2>3. r \in Sub
    <3>1. r.log = Append(s.log, <<"cache_write", 0>>) /\ r.parts = s.parts
      BY <2>1 DEF Sub, Subs
    <3>2. r \in Subs
      <4>. HIDE DEF s
      <4>. QED BY <2>1, <2>2 DEF Sub, Subs
    <3>. HIDE DEF r, s
    <3>. QED BY <2>1, <2>2, <3>1, <3>2 DEF Sub
  <2>4. CacheWrite(sk) = {WithNow(sk, r)}
    BY DEF CacheWrite
  <2>. HIDE DEF r
  <2>. QED BY <2>3, <2>4, WithNowTyped
<1>3. Fuse(plat, sk) \subseteq Sketches(n)
  BY AddPartTyped, PartsAre DEF Fuse, FuseLevels
<1>4. ASSUME rule \notin {"skip", "cache_write", "fusion"}
      PROVE  {AddPart(sk, rule, 0)} \subseteq Sketches(n)
  BY <1>4, AddPartTyped DEF Rules
<1>. QED BY <1>1, <1>2, <1>3, <1>4 DEF GenPart

LEMMA ExpandedTyped ==
  ASSUME NEW n \in Nat, NEW sk \in Sketches(n), sk.now # 0, NEW plat, NEW chosen
  PROVE  Expanded(sk, plat, chosen) \subseteq Sketches(n)
<1>1. \A m \in DOMAIN RulesOf(plat) : RulesOf(plat)[m] \in Rules
  BY PartsAre DEF RulesOf, Rules
<1>2. \A m \in DOMAIN RulesOf(plat) : GenPart(RulesOf(plat)[m], plat, sk) \subseteq Sketches(n)
  BY <1>1, GenPartTyped
<1>. QED BY <1>2 DEF Expanded

-----------------------------------------------------------------------------
\* Annotations, mutations and crossovers.
LEMMA NotesTyped ==
  ASSUME NEW p \in Parts, NEW plat
  PROVE  Notes(p, plat) \subseteq 0 .. 3
BY PartsAre DEF Notes, Tilings

LEMMA PartsChange ==
  ASSUME NEW s \in Sub, NEW f \in [DOMAIN s.parts -> 0 .. 3]
  PROVE  [s EXCEPT !.parts = f] \in Sub
<1>1. DOMAIN s.parts \in SUBSET Parts
  BY DEF Sub, Subs
<1>2. f \in UNION {[P -> 0 .. 3] : P \in SUBSET Parts}
  BY <1>1
<1>3. [s EXCEPT !.parts = f] \in Subs
  BY <1>2 DEF Sub, Subs
<1>4. [s EXCEPT !.parts = f].parts = f /\ [s EXCEPT !.parts = f].log = s.log
  BY DEF Sub, Subs
<1>. QED BY <1>3, <1>4 DEF Sub

LEMMA AnnotatedTyped ==
  ASSUME NEW n \in Nat, NEW sk \in Sketches(n), NEW plat
  PROVE  Annotated(sk, plat) \subseteq Sketches(n)
<1>. DEFINE AnyNotes(sub) == {f \in [DOMAIN sub.parts -> 0 .. 3] : \A p \in DOMAIN f : f[p] \in Notes(p, plat)}
            F == {s \in [DOMAIN sk.subs -> UNION {AnyNotes(sk.subs[i]) : i \in DOMAIN sk.subs}] :
                    \A i \in DOMAIN s : s[i] \in AnyNotes(sk.subs[i])}
            subs(fs) == [i \in DOMAIN sk.subs |-> [sk.subs[i] EXCEPT !.parts = fs[i]]]
<1>1. Annotated(sk, plat) = {[sk EXCEPT !.subs = subs(fs)] : fs \in F}
  BY DEF Annotated
<1>2. DOMAIN sk.subs = 1 .. n /\ \A i \in 1 .. n : sk.subs[i] \in Sub
  BY DEF Sketches
<1>3. ASSUME NEW fs \in F
      PROVE  subs(fs) \in [1 .. n -> Sub]
  <2>1. DOMAIN fs = 1 .. n
    BY <1>2
  <2>2. \A i \in 1 .. n : fs[i] \in [DOMAIN sk.subs[i].parts -> 0 .. 3]
    BY <2>1
  <2>3. \A i \in 1 .. n : [sk.subs[i] EXCEPT !.parts = fs[i]] \in Sub
    BY <1>2, <2>2, PartsChange
  <2>. QED BY <1>2, <2>3
<1>. HIDE DEF F, subs
<1>4. \A fs \in F : [sk EXCEPT !.subs = subs(fs)] \in Sketches(n)
  BY <1>3 DEF Sketches
<1>. QED BY <1>1, <1>4


LEMMA MutationsTyped ==
  ASSUME NEW n \in Nat, NEW sk \in Sketches(n), NEW i \in 1 .. n, NEW plat
  PROVE  MutationsOf(sk, i, plat) \subseteq Sketches(n)
<1>1. sk.subs[i] \in Sub /\ DOMAIN sk.subs[i].parts \subseteq Parts
  BY DEF Sketches, Sub, Subs
<1>2. ASSUME NEW p \in Variable(sk.subs[i]), NEW v \in Notes(p, plat)
      PROVE  [sk EXCEPT !.subs[i].parts[p] = v] \in Sketches(n)
  <2>1. p \in DOMAIN sk.subs[i].parts
    BY DEF Variable
  <2>2. v \in 0 .. 3
    BY <1>1, <2>1, NotesTyped
  <2>3. PICK P \in SUBSET Parts : sk.subs[i].parts \in [P -> 0 .. 3]
    BY <1>1 DEF Sub, Subs
  <2>4. [sk.subs[i].parts EXCEPT ![p] = v] \in [DOMAIN sk.subs[i].parts -> 0 .. 3]
    BY <2>2, <2>3
  <2>. DEFINE s == [sk.subs[i] EXCEPT !.parts = [sk.subs[i].parts EXCEPT ![p] = v]]
  <2>5. s \in Sub
    BY <1>1, <2>4, PartsChange
  <2>6. [sk EXCEPT !.subs[i].parts[p] = v] = [sk EXCEPT !.subs[i] = s]
    BY <1>1 DEF Sketches, Sub, Subs
  <2>. HIDE DEF s
  <2>. QED BY <2>5, <2>6 DEF Sketches
<1>. QED BY <1>2 DEF MutationsOf

LEMMA CrossingsTyped ==
  ASSUME NEW n \in Nat, NEW a \in Sketches(n), NEW b \in Sketches(n), NEW i \in 1 .. n
  PROVE  CrossingsOf(a, b, i) \subseteq Sketches(n)
<1>1. a.subs[i] \in Sub /\ b.subs[i] \in Sub
  BY DEF Sketches
<1>2. ASSUME NEW p \in Variable(a.subs[i]), CanCrossOver(a.subs[i], b.subs[i])
      PROVE  [a EXCEPT !.subs[i].parts[p] = b.subs[i].parts[p]] \in Sketches(n)
  <2>. DEFINE v == b.subs[i].parts[p]
  <2>1. p \in DOMAIN a.subs[i].parts
    BY DEF Variable
  <2>2. p \in DOMAIN b.subs[i].parts
    BY <1>1, <1>2, <2>1 DEF Sub, CanCrossOver
  <2>3. v \in 0 .. 3
    BY <1>1, <2>2 DEF Sub, Subs
  <2>4. PICK P \in SUBSET Parts : a.subs[i].parts \in [P -> 0 .. 3]
    BY <1>1 DEF Sub, Subs
  <2>5. [a.subs[i].parts EXCEPT ![p] = v] \in [DOMAIN a.subs[i].parts -> 0 .. 3]
    BY <2>3, <2>4
  <2>. DEFINE s == [a.subs[i] EXCEPT !.parts = [a.subs[i].parts EXCEPT ![p] = v]]
  <2>6. s \in Sub
    BY <1>1, <2>5, PartsChange
  <2>7. [a EXCEPT !.subs[i].parts[p] = v] = [a EXCEPT !.subs[i] = s]
    BY <1>1 DEF Sketches, Sub, Subs
  <2>. HIDE DEF s
  <2>. QED BY <2>6, <2>7 DEF Sketches
<1>. QED BY <1>2 DEF CrossingsOf

-----------------------------------------------------------------------------
\* A schedule is generated from its first part on, to the first that throws or to
\* the last.
EffectAt(sk, plat, bad, m) ==
  Applied(sk.subs[PartsInOrder(sk)[m][1]], plat, bad, PartsInOrder(sk)[m][2])

LEMMA InOrder ==
  ASSUME NEW n \in Nat, NEW sk \in Sketches(n)
  PROVE  /\ PartsInOrder(sk) \in Seq((1 .. n) \X Parts)
         /\ Len(PartsInOrder(sk)) = 5 * n
         /\ \A i \in 1 .. n, k \in 1 .. 5 :
              /\ 5 * (i - 1) + k \in 1 .. 5 * n
              /\ PartsInOrder(sk)[5 * (i - 1) + k] = <<i, PartTypes[k]>>
         /\ \A m \in 1 .. 5 * n : \E i \in 1 .. n, k \in 1 .. 5 : m = 5 * (i - 1) + k
<1>1. Len(PartTypes) = 5 /\ DOMAIN PartTypes = 1 .. 5
  BY DEF PartTypes
<1>2. sk.subs \in [1 .. n -> Sub] /\ Len(sk.subs) = n
  BY DEF Sketches
<1>. DEFINE g(m) == <<(m - 1) \div 5 + 1, PartTypes[((m - 1) % 5) + 1]>>
<1>3. PartsInOrder(sk) = [m \in 1 .. 5 * n |-> g(m)]
  BY <1>1, <1>2 DEF PartsInOrder
<1>4. \A m \in 1 .. 5 * n :
        /\ (m - 1) \div 5 + 1 \in 1 .. n /\ ((m - 1) % 5) + 1 \in 1 .. 5
        /\ m = 5 * ((m - 1) \div 5 + 1 - 1) + (((m - 1) % 5) + 1)
  OBVIOUS
<1>5. \A m \in 1 .. 5 * n : g(m) \in (1 .. n) \X Parts
  BY <1>1, <1>4 DEF Parts
<1>6. PartsInOrder(sk) \in Seq((1 .. n) \X Parts) /\ Len(PartsInOrder(sk)) = 5 * n
  <2>. HIDE DEF g
  <2>. QED BY <1>3, <1>5
<1>7. ASSUME NEW i \in 1 .. n, NEW k \in 1 .. 5
      PROVE  /\ 5 * (i - 1) + k \in 1 .. 5 * n
             /\ PartsInOrder(sk)[5 * (i - 1) + k] = <<i, PartTypes[k]>>
  <2>1. 5 * (i - 1) + k \in 1 .. 5 * n
    OBVIOUS
  <2>2. (5 * (i - 1) + k - 1) \div 5 + 1 = i /\ ((5 * (i - 1) + k - 1) % 5) + 1 = k
    OBVIOUS
  <2>3. g(5 * (i - 1) + k) = <<i, PartTypes[k]>>
    BY <2>2
  <2>. HIDE DEF g
  <2>. QED BY <1>3, <2>1, <2>3
<1>8. ASSUME NEW m \in 1 .. 5 * n
      PROVE  \E i \in 1 .. n, k \in 1 .. 5 : m = 5 * (i - 1) + k
  <2>. WITNESS (m - 1) \div 5 + 1 \in 1 .. n, ((m - 1) % 5) + 1 \in 1 .. 5
  <2>. QED BY <1>4
<1>. QED BY <1>6, <1>7, <1>8

LEMMA AppliedTyped ==
  ASSUME NEW sub, NEW plat, NEW bad, NEW p
  PROVE  Applied(sub, plat, bad, p) \in Effect
BY DEF Applied, Effect, Tile, Bind, Unroll

LEMMA Generates ==
  ASSUME NEW n \in Nat, NEW sk \in Sketches(n), NEW plat, NEW bad
  PROVE  /\ Generated(sk, plat, bad) \in Made
         /\ Len(Generated(sk, plat, bad)) <= Len(PartsInOrder(sk))
         /\ ~Throws(Generated(sk, plat, bad)) =>
              Len(Generated(sk, plat, bad)) = Len(PartsInOrder(sk))
         /\ \A m \in DOMAIN Generated(sk, plat, bad) :
              Generated(sk, plat, bad)[m] =
                [sub |-> PartsInOrder(sk)[m][1], part |-> PartsInOrder(sk)[m][2],
                 effect |-> EffectAt(sk, plat, bad, m)]
<1>. DEFINE parts == PartsInOrder(sk)
            N == 5 * n
            E(m) == EffectAt(sk, plat, bad, m)
            R == {m \in 1 .. N : \A k \in 1 .. m - 1 : E(k) # "throws"}
            at(m) == [sub |-> parts[m][1], part |-> parts[m][2], effect |-> E(m)]
            G == Generated(sk, plat, bad)
<1>1. parts \in Seq((1 .. n) \X Parts) /\ Len(parts) = N /\ DOMAIN parts = 1 .. N
  <2>1. parts \in Seq((1 .. n) \X Parts) /\ Len(parts) = N
    BY InOrder
  <2>. HIDE DEF parts, N
  <2>. QED BY <2>1
<1>2. G = [m \in R |-> at(m)]
  BY <1>1 DEF Generated, EffectAt
<1>3. \A m \in 1 .. N : E(m) \in Effect
  BY AppliedTyped DEF EffectAt
<1>4. \A m \in 1 .. N : at(m) \in [sub : Nat, part : Parts, effect : Effect]
  <2>. HIDE DEF E, parts
  <2>1. \A m \in 1 .. N : parts[m] \in (1 .. n) \X Parts
    BY <1>1
  <2>. QED BY <1>3, <2>1
<1>5. PICK l \in 0 .. N : R = 1 .. l /\ (l = N \/ (E(l) = "throws" /\ l \in 1 .. N))
  <2>. HIDE DEF E
  <2>1. CASE \E m \in 1 .. N : E(m) = "throws"
    <3>. DEFINE T == {m \in 1 .. N : E(m) = "throws"}
    <3>1. PICK t \in T : \A m \in T : t <= m
      <4>1. T \in SUBSET Nat /\ T # {}
        BY <2>1
      <4>. HIDE DEF T
      <4>. QED BY <4>1, LeastNat
    <3>2. R = 1 .. t
      BY <3>1
    <3>. QED BY <3>1, <3>2
  <2>2. CASE ~\E m \in 1 .. N : E(m) = "throws"
    <3>1. R = 1 .. N /\ N \in 0 .. N
      BY <2>2
    <3>. QED BY <3>1
  <2>. QED BY <2>1, <2>2
<1>. HIDE DEF at, R, E, N, parts
<1>6. G = [m \in 1 .. l |-> at(m)] /\ l \in Nat
  BY <1>2, <1>5 DEF N
<1>7. \A m \in 1 .. l : at(m) \in [sub : Nat, part : Parts, effect : Effect]
  BY <1>4, <1>5 DEF N
<1>8. G \in Made /\ Len(G) = l
  <2>. HIDE DEF G
  <2>. QED BY <1>6, <1>7 DEF Made
<1>9. l <= Len(parts)
  BY <1>1, <1>5 DEF N
<1>10. l # N => Throws(G)
  <2>. HIDE DEF G
  <2>1. SUFFICES ASSUME l # N PROVE l \in DOMAIN G /\ G[l].effect = "throws"
    BY DEF Throws
  <2>2. E(l) = "throws" /\ l \in 1 .. N
    BY <1>5, <2>1
  <2>3. l \in 1 .. l
    BY <2>2 DEF N
  <2>. QED BY <1>6, <2>2, <2>3 DEF at
<1>11. \A m \in DOMAIN G : G[m] = at(m)
  <2>. HIDE DEF G
  <2>. QED BY <1>6
<1>. QED BY <1>1, <1>8, <1>9, <1>10, <1>11 DEF at, E, parts

LEMMA EffectIsAt ==
  ASSUME NEW n \in Nat, NEW sk \in Sketches(n), NEW plat, NEW bad, NEW i \in 1 .. n, NEW k \in 1 .. 5,
         ~Throws(Generated(sk, plat, bad))
  PROVE  Effects(Generated(sk, plat, bad), i, PartTypes[k]) =
           {Applied(sk.subs[i], plat, bad, PartTypes[k])}
<1>. DEFINE G == Generated(sk, plat, bad)
            N == 5 * n
            at == 5 * (i - 1) + k
<1>1. G \in Made /\ Len(G) = N
  <2>1. Len(PartsInOrder(sk)) = N
    BY InOrder
  <2>. QED BY <2>1, Generates
<1>2. DOMAIN G = 1 .. N
  <2>. HIDE DEF G, N
  <2>. QED BY <1>1 DEF Made
<1>3. ASSUME NEW m \in 1 .. N
      PROVE  /\ G[m].sub = PartsInOrder(sk)[m][1] /\ G[m].part = PartsInOrder(sk)[m][2]
             /\ G[m].effect = EffectAt(sk, plat, bad, m)
  <2>. DEFINE a == PartsInOrder(sk)[m][1]
              b == PartsInOrder(sk)[m][2]
              c == EffectAt(sk, plat, bad, m)
  <2>1. G[m] = [sub |-> a, part |-> b, effect |-> c]
    BY <1>2, Generates
  <2>. HIDE DEF a, b, c, G
  <2>2. G[m].sub = a /\ G[m].part = b /\ G[m].effect = c
    BY <2>1
  <2>. QED BY <2>2 DEF a, b, c
<1>4. at \in 1 .. N /\ PartsInOrder(sk)[at] = <<i, PartTypes[k]>>
  BY InOrder
<1>5. G[at].sub = i /\ G[at].part = PartTypes[k]
      /\ G[at].effect = Applied(sk.subs[i], plat, bad, PartTypes[k])
  <2>. HIDE DEF G, at, N
  <2>1. /\ G[at].sub = PartsInOrder(sk)[at][1] /\ G[at].part = PartsInOrder(sk)[at][2]
        /\ G[at].effect = EffectAt(sk, plat, bad, at)
    BY <1>3, <1>4
  <2>2. PartsInOrder(sk)[at][1] = i /\ PartsInOrder(sk)[at][2] = PartTypes[k]
    BY <1>4
  <2>3. EffectAt(sk, plat, bad, at) = Applied(sk.subs[i], plat, bad, PartTypes[k])
    BY <2>2 DEF EffectAt
  <2>. QED BY <2>1, <2>2, <2>3
<1>6. ASSUME NEW m \in 1 .. N, G[m].sub = i, G[m].part = PartTypes[k]
      PROVE  m = at
  <2>1. PICK j \in 1 .. n, l \in 1 .. 5 : m = 5 * (j - 1) + l
    BY InOrder
  <2>2. PartsInOrder(sk)[m] = <<j, PartTypes[l]>>
    BY <2>1, InOrder
  <2>3. j = i /\ PartTypes[l] = PartTypes[k]
    <3>. HIDE DEF G, N
    <3>1. G[m].sub = PartsInOrder(sk)[m][1] /\ G[m].part = PartsInOrder(sk)[m][2]
      BY <1>3
    <3>2. PartsInOrder(sk)[m][1] = j /\ PartsInOrder(sk)[m][2] = PartTypes[l]
      BY <2>2
    <3>. QED BY <1>6, <3>1, <3>2
  <2>4. l = k
    BY <2>3 DEF PartTypes
  <2>. QED BY <2>1, <2>3, <2>4
<1>7. {m \in DOMAIN G : G[m].sub = i /\ G[m].part = PartTypes[k]} = {at}
  BY <1>2, <1>4, <1>5, <1>6
<1>. HIDE DEF G, at, N
<1>8. Effects(G, i, PartTypes[k]) = {G[at].effect}
  BY <1>7 DEF Effects
<1>. QED BY <1>5, <1>8 DEF G

LEMMA Unrolls ==
  ASSUME NEW n \in Nat, NEW sk \in Sketches(n), NEW bad, NEW i \in 1 .. n,
         ~Throws(Generated(sk, GPU, bad)),
         Has(sk.subs[i], "unroll"), sk.subs[i].parts["unroll"] > 0,
         "bound" \in Effects(Generated(sk, GPU, bad), i, "thread_bind")
  PROVE  Effects(Generated(sk, GPU, bad), i, "unroll") = {"unrolled"}
<1>1. PartTypes[3] = "thread_bind" /\ PartTypes[4] = "unroll" /\ DOMAIN PartTypes = 1 .. 5
  BY DEF PartTypes
<1>2. Applied(sk.subs[i], GPU, bad, "thread_bind") = "bound"
  BY <1>1, EffectIsAt
<1>3. Has(sk.subs[i], "thread_bind") /\ Binds(sk.subs[i])
  BY <1>2 DEF Applied, BinderOf, GPU, Tilings, Bind
<1>4. Before("thread_bind", "unroll")
  BY <1>1 DEF Before
<1>5. Applied(sk.subs[i], GPU, bad, "unroll") = "unrolled"
  BY <1>3, <1>4 DEF Applied, BinderOf, GPU, Tilings, Unroll
<1>. QED BY <1>1, <1>5, EffectIsAt

LEMMA NotMadeApart ==
  ASSUME NEW made \in Made
  PROVE  made # NotMade
<1>1. NotMade[1].part = "none" /\ NotMade # <<>>
  BY DEF NotMade
<1>2. made # <<>> => 1 \in DOMAIN made
  BY DEF Made
<1>3. \A n \in DOMAIN made : made[n].part \in Parts
  <2>. DEFINE S == [sub : Nat, part : Parts, effect : Effect]
  <2>1. made \in Seq(S)
    BY DEF Made
  <2>2. \A n \in DOMAIN made : made[n] \in S
    <3>. HIDE DEF S
    <3>. QED BY <2>1
  <2>. QED BY <2>2
<1>. QED BY <1>1, <1>2, <1>3, PartsAre

-----------------------------------------------------------------------------
\* The inductive invariant.
Sk == Sketches(Len(input.subs))
Obj == [sk : Sk, made : Made \cup {NotMade}]

Phases == {"idle", "sketches", "random", "predict", "offer", "breed", "test", "measure",
           "undefined", "terminated"}

TypedResults ==
  /\ measured \in Seq([sk : Sk, made : Made, time : Nat]) /\ hashes \subseteq Sk

TypedSketches ==
  /\ input \in Inputs /\ phase \in Phases
  /\ queue \subseteq {sk \in Sk : sk.now # 0} /\ bases \subseteq Sk
  /\ rand \in Seq(Sk) /\ group \in Seq(Obj)

TypedPopulation ==
  /\ objects \in Seq(Obj) /\ pop \in Seq(DOMAIN objects)
  /\ slot \in Nat \ {0} /\ doing \subseteq DOMAIN pop
  /\ child \in Seq([sk : Sk, from : Nat])

TypedHeap ==
  /\ heap \subseteq Obj /\ IsFiniteSet(heap)
  /\ pred \in [DOMAIN pred -> Nat] /\ seen \subseteq Sk

\* What a phase leaves behind.
Rest ==
  /\ phase \notin {"predict", "offer"} \cup Ended => slot = 1
  /\ phase \notin {"predict", "terminated"} => doing = {}
  /\ phase \notin {"breed", "undefined"} => child = <<>>
  /\ phase \in {"idle", "sketches", "random", "measure"} => heap = {} /\ seen = {}

\* A schedule that all parts were applied to.
Done(o) == o.made = Make(o.sk) /\ ~Throws(o.made)

\* The schedule of a sketch is made once, and only what was inherited is in a
\* population twice, which has its schedule.
GeneratedOnce ==
  /\ \A n \in DOMAIN objects : objects[n].made \in {NotMade, <<>>, Make(objects[n].sk)}
  /\ \A s \in doing : \A r \in DOMAIN pop : r # s => pop[r] # pop[s]

\* What the threads that generate a population have done.
Generating ==
  phase = "predict" =>
    /\ \A s \in doing : s < slot /\ objects[pop[s]].made \in {NotMade, <<>>}
    /\ \A n, m \in DOMAIN pop : n # m /\ pop[n] = pop[m] => objects[pop[n]].made # NotMade
    /\ \A n \in DOMAIN pop \ doing :
         \/ Done(objects[pop[n]])
         \/ n >= slot /\ objects[pop[n]].made = NotMade

\* What comes after has its schedule.
AllDone ==
  /\ phase \in {"offer", "breed"} => \A n \in DOMAIN pop : Done(objects[pop[n]])
  /\ \A n \in DOMAIN child :
       child[n].from # 0 =>
         /\ child[n].from \in ToSet(pop)
         /\ child[n].sk = objects[child[n].from].sk
  /\ \A o \in heap : Done(o)
  /\ phase = "test" => \A n \in DOMAIN group : group[n].made = NotMade \/ Done(group[n])
  /\ phase = "measure" => \A n \in DOMAIN group : Done(group[n])

\* What was measured has its schedule and is there once.
Measured ==
  /\ \A n \in DOMAIN measured : Done(measured[n])
  /\ \A n, m \in DOMAIN measured : n # m => measured[n].sk # measured[m].sk
  /\ \A n \in DOMAIN measured : measured[n].sk \in hashes

\* What was drawn, and what is to be measured, is there once and is new.
New ==
  /\ \A n, m \in DOMAIN rand : n # m => rand[n] # rand[m]
  /\ \A n \in DOMAIN rand : rand[n] \notin hashes
  /\ phase \in {"test", "measure"} =>
       /\ \A n, m \in DOMAIN group : n # m => group[n].sk # group[m].sk
       /\ \A n \in DOMAIN group : group[n].sk \notin hashes

\* The heap has the best of what was offered, also while more are offered.
Top(new) ==
  /\ Values(heap) \subseteq new
  /\ \A x, y \in heap : x.sk = y.sk => x = y
  /\ Cardinality(heap) <= input.exploit
  /\ Values(heap) # new => Cardinality(heap) = input.exploit
  /\ \A x \in heap : \A sk \in new \ Values(heap) : pred[sk] <= pred[x.sk]
  /\ new \subseteq DOMAIN pred

Best ==
  /\ Top(seen \ hashes)
  /\ phase = "offer" =>
       \A n \in DOMAIN pop : objects[pop[n]].sk \in hashes \cup DOMAIN pred

IInv ==
  TypedResults /\ TypedSketches /\ TypedPopulation /\ TypedHeap /\ Rest
  /\ GeneratedOnce /\ Generating /\ AllDone /\ Measured /\ New /\ Best

-----------------------------------------------------------------------------
LEMMA Subs0 ==
  ASSUME input \in Inputs
  PROVE  /\ Len(input.subs) \in Nat /\ DOMAIN input.subs = 1 .. Len(input.subs)
         /\ input.subs = <<>> <=> Len(input.subs) = 0
         /\ NewSketch(input.subs) \in Sk
         /\ input.subs # <<>> => NewSketch(input.subs).now # 0
<1>1. input.subs \in Seq({NewSub(consumed) : consumed \in BOOLEAN})
  BY SearchAssumption
<1>2. \A consumed \in BOOLEAN : NewSub(consumed) \in Sub
  <2>. TAKE consumed \in BOOLEAN
  <2>1. <<>> \in UNION {[P -> 0 .. 3] : P \in SUBSET Parts} /\ DOMAIN <<>> = {}
    <3>1. <<>> \in [{} -> 0 .. 3] /\ DOMAIN <<>> = {}
      OBVIOUS
    <3>2. {} \in SUBSET Parts
      OBVIOUS
    <3>. QED BY <3>1, <3>2
  <2>2. <<>> \in Seq(Rules \X Nat)
    OBVIOUS
  <2>3. Logged(<<>>) = {}
    BY DEF Logged
  <2>. DEFINE new == NewSub(consumed)
  <2>4. new = [log |-> <<>>, parts |-> <<>>, consumed |-> consumed]
    BY DEF NewSub
  <2>5. new \in Subs
    <3>. HIDE DEF new
    <3>. QED BY <2>1, <2>2, <2>4 DEF Subs
  <2>6. new.parts = <<>> /\ new.log = <<>>
    BY <2>4
  <2>. HIDE DEF new
  <2>7. new \in Sub
    BY <2>1, <2>3, <2>5, <2>6 DEF Sub
  <2>. QED BY <2>7 DEF new
<1>3. input.subs \in Seq(Sub)
  <2>. HIDE DEF Sub
  <2>. QED BY <1>1, <1>2
<1>. DEFINE n == Len(input.subs)
<1>4. n \in Nat /\ DOMAIN input.subs = 1 .. n /\ (input.subs = <<>> <=> n = 0)
  BY <1>3
<1>5. input.subs \in [1 .. n -> Sub]
  BY <1>3
<1>6. NewSketch(input.subs) = [now |-> n, subs |-> input.subs]
  BY DEF NewSketch
<1>. HIDE DEF n
<1>7. NewSketch(input.subs) \in Sketches(n) /\ NewSketch(input.subs).now = n
  BY <1>4, <1>5, <1>6 DEF Sketches
<1>. QED BY <1>4, <1>7 DEF n, Sk

LEMMA Makes ==
  ASSUME input \in Inputs, NEW sk \in Sk
  PROVE  /\ Make(sk) \in Made
         /\ Make(sk) # NotMade
         /\ Len(Make(sk)) <= Len(PartsInOrder(sk))
         /\ ~Throws(Make(sk)) => Len(Make(sk)) = Len(PartsInOrder(sk))
BY Subs0, Generates, NotMadeApart DEF Make, Sk

LEMMA InitInv == Init => IInv
<1>. SUFFICES ASSUME Init PROVE IInv
  OBVIOUS
<1>1. input \in Inputs /\ Len(input.subs) \in Nat
  BY Subs0 DEF Init
<1>2. input.exploit \in Nat
  BY <1>1, SearchAssumption
<1>3. IsFiniteSet({}) /\ Cardinality({}) = 0
  BY FS_EmptySet
<1>4. TypedResults /\ TypedSketches /\ TypedPopulation /\ TypedHeap
  BY <1>1, <1>3 DEF Init, TypedResults, TypedSketches, TypedPopulation, TypedHeap, Phases
<1>5. Rest /\ GeneratedOnce /\ Generating /\ AllDone /\ Measured /\ New
  BY DEF Init, Rest, GeneratedOnce, Generating, AllDone, Measured, New, Ended
<1>6. Best
  BY <1>2, <1>3 DEF Init, Best, Top, Values
<1>. QED BY <1>4, <1>5, <1>6 DEF IInv

\* The end of a round leaves only what was measured.
LEMMA EndRoundInv ==
  ASSUME TypedSketches, input' = input, queue' = queue, bases' = bases,
         TypedResults', Measured', EndRound
  PROVE  IInv'
<1>1. input \in Inputs /\ Len(input.subs) \in Nat /\ Sk' = Sk
  BY Subs0 DEF TypedSketches, Sk
<1>2. input.exploit \in Nat
  BY <1>1, SearchAssumption
<1>3. IsFiniteSet({}) /\ Cardinality({}) = 0
  BY FS_EmptySet
<1>4. TypedSketches' /\ TypedPopulation' /\ TypedHeap'
  BY <1>1, <1>3 DEF EndRound, TypedSketches, TypedPopulation, TypedHeap, Phases
<1>5. Rest' /\ GeneratedOnce' /\ Generating' /\ AllDone' /\ New'
  BY DEF EndRound, Rest, GeneratedOnce, Generating, AllDone, New, Ended
<1>6. Best'
  BY <1>2, <1>3 DEF EndRound, Best, Top, Values
<1>. QED BY <1>4, <1>5, <1>6 DEF IInv

-----------------------------------------------------------------------------
\* Before an evolution.
Early == {"idle", "sketches", "random"}

\* What has no part in the evolution leaves it as it was.
LEMMA EarlySame ==
  ASSUME IInv, phase \in Early, phase' \in Early,
         input' = input, UNCHANGED <<results, group, evolution>>
  PROVE  /\ TypedResults' /\ TypedPopulation' /\ TypedHeap' /\ Rest' /\ GeneratedOnce'
         /\ Generating' /\ AllDone' /\ Measured' /\ Best' /\ Sk' = Sk /\ Obj' = Obj
<1>1. UNCHANGED <<measured, hashes, group, pop, objects, slot, doing, iter, child, heap, pred, seen>>
  BY DEF results, evolution
<1>2. Sk' = Sk /\ Obj' = Obj
  BY DEF Sk, Obj
<1>3. \A sk : Make(sk)' = Make(sk)
  BY DEF Make
<1>4. TypedResults' /\ TypedPopulation' /\ TypedHeap'
  BY <1>1, <1>2 DEF IInv, TypedResults, TypedPopulation, TypedHeap
<1>5. Rest' /\ Generating'
  BY <1>1 DEF IInv, Rest, Generating, Early, Ended
<1>6. GeneratedOnce'
  BY <1>1, <1>3 DEF IInv, GeneratedOnce
<1>7. Measured'
  BY <1>1, <1>3 DEF IInv, Measured, Done
<1>8. AllDone'
  BY <1>1, <1>3 DEF IInv, AllDone, Done, Early
<1>9. Best'
  BY <1>1 DEF IInv, Best, Top, Values, Early
<1>. QED BY <1>2, <1>4, <1>5, <1>6, <1>7, <1>8, <1>9

LEMMA SearchOneRoundInv == IInv /\ SearchOneRound => IInv'
<1>. SUFFICES ASSUME IInv, SearchOneRound PROVE IInv'
  OBVIOUS
<1>1. phase \in Early /\ phase' \in Early /\ input' = input /\ UNCHANGED <<results, group, evolution>>
  BY DEF SearchOneRound, StartRandom, Early
<1>2. input \in Inputs
  BY DEF IInv, TypedSketches
<1>3. queue' \subseteq {sk \in Sk : sk.now # 0}
  BY <1>2, Subs0 DEF SearchOneRound, IInv, TypedSketches
<1>4. rand' = rand \/ rand' = <<>>
  BY DEF SearchOneRound, StartRandom
<1>5. TypedSketches'
  <2>1. bases' = bases /\ group' = group
    BY DEF SearchOneRound
  <2>2. Sk' = Sk /\ Obj' = Obj
    BY <1>1, EarlySame
  <2>3. rand' \in Seq(Sk)
    <3>1. rand \in Seq(Sk)
      BY DEF IInv, TypedSketches
    <3>2. <<>> \in Seq(Sk)
      OBVIOUS
    <3>3. CASE rand' = rand
      BY <3>1, <3>3
    <3>4. CASE rand' = <<>>
      BY <3>2, <3>4
    <3>. QED BY <1>4, <3>3, <3>4
  <2>. QED BY <1>1, <1>2, <1>3, <2>1, <2>2, <2>3 DEF IInv, TypedSketches, Early, Phases
<1>6. New'
  BY <1>1, <1>4 DEF IInv, New, Early, results
<1>. QED BY <1>1, <1>5, <1>6, EarlySame DEF IInv

LEMMA GenSketchInv == IInv /\ GenSketch => IInv'
<1>. SUFFICES ASSUME IInv, GenSketch PROVE IInv'
  OBVIOUS
<1>1. phase \in Early /\ phase' \in Early /\ input' = input /\ UNCHANGED <<results, group, evolution>>
  BY DEF GenSketch, Early
<1>2. input \in Inputs /\ queue \subseteq {sk \in Sk : sk.now # 0} /\ bases \subseteq Sk
  BY DEF IInv, TypedSketches
<1>3. PICK sk \in queue :
        LET new == Expanded(sk, input.plat, input.rules)
            ready == {n \in new : n.now = 0}
        IN /\ bases' = bases \cup ready
           /\ queue' = (queue \ {sk}) \cup (new \ ready)
  BY DEF GenSketch
<1>4. Expanded(sk, input.plat, input.rules) \subseteq Sk
  BY <1>2, Subs0, ExpandedTyped DEF Sk
<1>5. queue' \subseteq {n \in Sk : n.now # 0} /\ bases' \subseteq Sk
  BY <1>2, <1>3, <1>4
<1>6. TypedSketches' /\ New'
  BY <1>1, <1>5, EarlySame DEF IInv, TypedSketches, Early, Phases, GenSketch, New, random, results
<1>. QED BY <1>1, <1>6, EarlySame DEF IInv

LEMMA SketchesMadeInv == IInv /\ SketchesMade => IInv'
<1>. SUFFICES ASSUME IInv, SketchesMade PROVE IInv'
  OBVIOUS
<1>1. phase \in Early /\ phase' \in Early /\ input' = input /\ UNCHANGED <<results, group, evolution>>
  BY DEF SketchesMade, StartRandom, Early
<1>2. TypedSketches' /\ New'
  BY <1>1, EarlySame DEF IInv, TypedSketches, Early, Phases, SketchesMade, StartRandom, New, results
<1>. QED BY <1>1, <1>2, EarlySame DEF IInv

LEMMA SpaceTyped ==
  ASSUME IInv
  PROVE  Space \subseteq Sk
<1>1. input \in Inputs /\ bases \subseteq Sk
  BY DEF IInv, TypedSketches
<1>2. \A b \in bases : Annotated(b, input.plat) \subseteq Sk
  BY <1>1, Subs0, AnnotatedTyped DEF Sk
<1>. QED BY <1>2 DEF Space

LEMMA RandomTurnInv == IInv /\ RandomTurn => IInv'
<1>. SUFFICES ASSUME IInv, RandomTurn PROVE IInv'
  OBVIOUS
<1>1. phase \in Early /\ phase' \in Early /\ input' = input /\ UNCHANGED <<results, group, evolution>>
  BY DEF RandomTurn, Early
<1>2. rand \in Seq(Sk)
  BY DEF IInv, TypedSketches
<1>3. rand' = rand \/ \E sk \in Sk \ (hashes \cup ToSet(rand)) : rand' = Append(rand, sk)
  BY SpaceTyped DEF RandomTurn, Fresh
<1>4. rand' \in Seq(Sk)
  BY <1>2, <1>3
<1>5. TypedSketches'
  <2>1. UNCHANGED <<phase, queue, bases, group>>
    BY DEF RandomTurn
  <2>. QED BY <1>1, <1>4, <2>1, EarlySame DEF IInv, TypedSketches
<1>6. New'
  <2>1. /\ \A n, m \in DOMAIN rand' : n # m => rand'[n] # rand'[m]
        /\ \A n \in DOMAIN rand' : rand'[n] \notin hashes
    <3>1. CASE rand' = rand
      BY <3>1 DEF IInv, New
    <3>2. ASSUME NEW sk \in Sk \ (hashes \cup ToSet(rand)), rand' = Append(rand, sk)
          PROVE  /\ \A n, m \in DOMAIN rand' : n # m => rand'[n] # rand'[m]
                 /\ \A n \in DOMAIN rand' : rand'[n] \notin hashes
      <4>1. DOMAIN rand' = DOMAIN rand \cup {Len(rand) + 1} /\ Len(rand) + 1 \notin DOMAIN rand
        BY <1>2, <3>2
      <4>2. rand'[Len(rand) + 1] = sk /\ \A n \in DOMAIN rand : rand'[n] = rand[n]
        BY <1>2, <3>2
      <4>3. \A n \in DOMAIN rand : rand[n] # sk
        BY <3>2 DEF ToSet
      <4>. QED BY <3>2, <4>1, <4>2, <4>3 DEF IInv, New
    <3>. QED BY <1>3, <3>1, <3>2
  <2>2. hashes' = hashes /\ phase' \notin {"test", "measure"}
    BY <1>1 DEF results, Early
  <2>. QED BY <2>1, <2>2 DEF New
<1>. QED BY <1>1, <1>5, <1>6, EarlySame DEF IInv

LEMMA UndefinedInv == IInv /\ (NothingToDraw \/ NoHeap \/ BreedNothing) => IInv'
<1>. SUFFICES ASSUME IInv, NothingToDraw \/ NoHeap \/ BreedNothing PROVE IInv'
  OBVIOUS
<1>1. phase \in {"random", "offer", "breed"} /\ phase' = "undefined" /\ input' = input
  BY DEF NothingToDraw, NoHeap, BreedNothing, Over
<1>2. UNCHANGED <<queue, bases, measured, hashes, rand, group>>
  BY DEF NothingToDraw, NoHeap, BreedNothing, results, random
<1>3. UNCHANGED <<pop, objects, slot, doing, iter, child, heap, pred, seen>>
  BY DEF NothingToDraw, NoHeap, BreedNothing, evolution
<1>4. Sk' = Sk /\ Obj' = Obj /\ \A sk : Make(sk)' = Make(sk)
  BY <1>1 DEF Sk, Obj, Make
<1>5. TypedResults' /\ TypedSketches' /\ TypedPopulation' /\ TypedHeap'
  BY <1>1, <1>2, <1>3, <1>4 DEF IInv, TypedResults, TypedSketches, TypedPopulation, TypedHeap, Phases
<1>6. Rest' /\ Generating'
  BY <1>1, <1>2, <1>3 DEF IInv, Rest, Generating, Ended
<1>7. GeneratedOnce' /\ Measured' /\ New'
  BY <1>1, <1>2, <1>3, <1>4 DEF IInv, GeneratedOnce, Measured, New, Done
<1>8. AllDone'
  BY <1>1, <1>2, <1>3, <1>4 DEF IInv, AllDone, Done
<1>9. Best'
  BY <1>1, <1>2, <1>3 DEF IInv, Best, Top, Values
<1>. QED BY <1>5, <1>6, <1>7, <1>8, <1>9 DEF IInv

LEMMA Same0 ==
  ASSUME IInv, input' = input, UNCHANGED results
  PROVE  TypedResults' /\ Measured' /\ TypedSketches
<1>1. Sk' = Sk /\ \A sk : Make(sk)' = Make(sk)
  BY DEF Sk, Make
<1>2. measured' = measured /\ hashes' = hashes
  BY DEF results
<1>. QED BY <1>1, <1>2 DEF IInv, TypedResults, Measured, Done

LEMMA StopsInv == IInv /\ (TooFew \/ NoFeature \/ NoFeatures) => IInv'
<1>. SUFFICES ASSUME IInv, TooFew \/ NoFeature \/ NoFeatures PROVE IInv'
  OBVIOUS
<1>1. EndRound /\ UNCHANGED <<input, queue, bases, results>>
  BY DEF TooFew, NoFeature, NoFeatures
<1>. QED BY <1>1, Same0, EndRoundInv

LEMMA MinIs ==
  ASSUME NEW S \in SUBSET Nat, S # {}
  PROVE  Min(S) \in S /\ \A m \in S : Min(S) <= m
<1>1. \E n \in S : \A m \in S : n <= m
  BY LeastNat
<1>. QED BY <1>1 DEF Min

LEMMA KeptIs ==
  ASSUME IInv
  PROVE  /\ Kept \in Seq([sk : Sk, made : Made, time : Nat])
         /\ DOMAIN Kept \subseteq DOMAIN measured
         /\ \A n \in DOMAIN Kept : Kept[n] = measured[n]
         /\ measured # <<>> => Kept # <<>> /\ Kept[1] = measured[1]
         /\ measured = <<>> => Kept = <<>>
<1>. DEFINE R == [sk : Sk, made : Made, time : Nat]
            k == Min({Len(measured), InitExploit})
<1>1. measured \in Seq(R) /\ Len(measured) \in Nat
  BY DEF IInv, TypedResults
<1>2. InitExploit \in Nat \ {0}
  BY SearchAssumption
<1>3. k \in {Len(measured), InitExploit} /\ k <= Len(measured) /\ k <= InitExploit
  <2>1. {Len(measured), InitExploit} \in SUBSET Nat /\ {Len(measured), InitExploit} # {}
    BY <1>1, <1>2
  <2>. QED BY <2>1, MinIs
<1>4. k \in 0 .. Len(measured) /\ (measured # <<>> => k # 0)
  BY <1>1, <1>2, <1>3
<1>5. Kept = SubSeq(measured, 1, k)
  BY DEF Kept
<1>. HIDE DEF R, k
<1>6. Kept \in Seq(R) /\ Len(Kept) = k /\ \A n \in 1 .. k : Kept[n] = measured[n]
  BY <1>1, <1>4, <1>5
<1>7. DOMAIN Kept = 1 .. k /\ DOMAIN Kept \subseteq DOMAIN measured
  BY <1>1, <1>4, <1>6
<1>8. measured # <<>> => Kept # <<>> /\ Kept[1] = measured[1]
  <2>. SUFFICES ASSUME measured # <<>> PROVE Kept # <<>> /\ Kept[1] = measured[1]
    OBVIOUS
  <2>1. 1 \in 1 .. k
    BY <1>4
  <2>. QED BY <1>6, <1>7, <2>1
<1>9. measured = <<>> => Kept = <<>>
  <2>. SUFFICES ASSUME measured = <<>> PROVE Kept = <<>>
    OBVIOUS
  <2>1. Len(Kept) = 0
    BY <1>1, <1>4, <1>6
  <2>. QED BY <1>6, <2>1
<1>. QED BY <1>6, <1>7, <1>8, <1>9 DEF R

LEMMA RandomDoneInv == IInv /\ RandomDone => IInv'
<1>. SUFFICES ASSUME IInv, RandomDone PROVE IInv'
  OBVIOUS
<1>1. phase = "random" /\ rand' = <<>> /\ input' = input
  BY DEF RandomDone
<1>2. UNCHANGED <<queue, bases, hashes, slot, doing, iter, child, heap, pred, seen>>
  BY DEF RandomDone
<1>3. Sk' = Sk /\ Obj' = Obj /\ \A sk : Make(sk)' = Make(sk)
  BY <1>1 DEF Sk, Obj, Make
<1>4. input \in Inputs /\ rand \in Seq(Sk)
  BY DEF IInv, TypedSketches
<1>5. slot = 1 /\ doing = {} /\ child = <<>> /\ heap = {} /\ seen = {}
  BY <1>1 DEF IInv, Rest, Ended
<1>6. Best'
  <2>1. input.exploit \in Nat
    BY <1>4, SearchAssumption
  <2>2. phase' \in {"predict", "test"}
    BY DEF RandomDone
  <2>. QED BY <1>1, <1>2, <1>5, <2>1, <2>2, FS_EmptySet DEF Best, Top, Values
<1>7. TypedHeap'
  BY <1>2, <1>3 DEF IInv, TypedHeap
<1>8. Rest'
  BY <1>1, <1>2, <1>5 DEF Rest, RandomDone, Ended
<1>9. CASE job = "init"
  <2>. DEFINE new == [n \in DOMAIN rand |-> Ungenerated(rand[n])]
              old == [n \in DOMAIN Kept |-> [sk |-> Kept[n].sk, made |-> Kept[n].made]]
  <2>1. /\ measured' = Kept /\ objects' = new \o old
        /\ pop' = [n \in DOMAIN objects' |-> n]
        /\ phase' = "predict" /\ group' = group
    BY <1>9 DEF RandomDone
  <2>2. new \in Seq(Obj) /\ Len(new) = Len(rand) /\ \A n \in DOMAIN new : new[n].made = NotMade
    <3>1. \A n \in DOMAIN rand : Ungenerated(rand[n]) \in Obj /\ Ungenerated(rand[n]).made = NotMade
      BY <1>4 DEF Ungenerated, Obj
    <3>. QED BY <1>4, <3>1
  <2>3. old \in Seq(Obj) /\ \A n \in DOMAIN old : Done(old[n])
    <3>1. \A n \in DOMAIN Kept : Kept[n] \in [sk : Sk, made : Made, time : Nat] /\ Done(Kept[n])
      <4>. DEFINE R == [sk : Sk, made : Made, time : Nat]
      <4>1. \A n \in DOMAIN Kept : Kept[n] \in R
        <5>1. Kept \in Seq(R)
          BY KeptIs
        <5>. HIDE DEF R
        <5>. QED BY <5>1
      <4>. QED BY <4>1, KeptIs DEF IInv, Measured
    <3>. DEFINE o(n) == [sk |-> Kept[n].sk, made |-> Kept[n].made]
    <3>2. \A n \in DOMAIN Kept : o(n) \in Obj /\ Done(o(n))
      BY <3>1 DEF Obj, Done
    <3>3. old = [n \in 1 .. Len(Kept) |-> o(n)] /\ Len(Kept) \in Nat /\ DOMAIN Kept = 1 .. Len(Kept)
      BY KeptIs
    <3>. HIDE DEF o, old
    <3>. QED BY <3>2, <3>3
  <2>. HIDE DEF new, old
  <2>4. objects' \in Seq(Obj)
    BY <2>1, <2>2, <2>3
  <2>5. \A n \in DOMAIN objects' : objects'[n].made = NotMade \/ Done(objects'[n])
    BY <2>1, <2>2, <2>3
  <2>6. /\ pop' \in Seq(DOMAIN objects') /\ DOMAIN pop' = DOMAIN objects'
        /\ \A n \in DOMAIN pop' : pop'[n] = n
    BY <2>1, <2>4
  <2>7. \A o : Done(o)' <=> Done(o)
    BY <1>3 DEF Done
  <2>8. TypedPopulation'
    BY <1>2, <1>3, <1>5, <2>4, <2>6 DEF TypedPopulation
  <2>9. TypedSketches'
    BY <1>1, <1>2, <1>3, <2>1 DEF IInv, TypedSketches, Phases
  <2>10. TypedResults' /\ Measured'
    BY <1>2, <1>3, <2>1, <2>7, KeptIs DEF IInv, TypedResults, Measured
  <2>11. New'
    BY <1>1, <2>1 DEF New
  <2>12. GeneratedOnce'
    BY <1>2, <1>3, <1>5, <2>5 DEF GeneratedOnce, Done
  <2>13. Generating'
    BY <1>2, <1>5, <2>5, <2>6, <2>7 DEF Generating
  <2>14. AllDone'
    BY <1>2, <1>5, <2>1 DEF AllDone
  <2>. QED BY <1>6, <1>7, <1>8, <2>8, <2>9, <2>10, <2>11, <2>12, <2>13, <2>14 DEF IInv
<1>10. CASE job # "init"
  <2>1. /\ group' = [n \in DOMAIN rand |-> Ungenerated(rand[n])] /\ phase' = "test"
        /\ UNCHANGED <<measured, pop, objects>>
    BY <1>10 DEF RandomDone
  <2>2. \A n \in DOMAIN rand : /\ Ungenerated(rand[n]) \in Obj /\ Ungenerated(rand[n]).sk = rand[n]
                               /\ Ungenerated(rand[n]).made = NotMade
    BY <1>4 DEF Ungenerated, Obj
  <2>3. group' \in Seq(Obj)
    BY <1>4, <2>1, <2>2
  <2>4. TypedSketches'
    BY <1>1, <1>2, <1>3, <2>1, <2>3 DEF IInv, TypedSketches, Phases
  <2>5. TypedResults' /\ TypedPopulation'
    BY <1>2, <1>3, <2>1 DEF IInv, TypedResults, TypedPopulation
  <2>6. GeneratedOnce' /\ Measured'
    BY <1>2, <1>3, <2>1 DEF IInv, GeneratedOnce, Measured, Done
  <2>7. Generating'
    BY <2>1 DEF Generating
  <2>8. New'
    BY <1>1, <1>2, <2>1, <2>2 DEF IInv, New
  <2>9. AllDone'
    BY <1>2, <1>5, <2>1, <2>2 DEF AllDone
  <2>. QED BY <1>6, <1>7, <1>8, <2>4, <2>5, <2>6, <2>7, <2>8, <2>9 DEF IInv
<1>. QED BY <1>9, <1>10

-----------------------------------------------------------------------------
\* The threads that generate a population.
LEMMA PredictSame ==
  ASSUME IInv, phase = "predict", phase' \in {"predict", "terminated"},
         input' = input, UNCHANGED <<queue, bases, results, random, group, child, heap, pred, seen>>
  PROVE  /\ TypedResults' /\ TypedSketches' /\ TypedHeap' /\ Measured' /\ New' /\ Best'
         /\ Sk' = Sk /\ Obj' = Obj /\ \A sk : Make(sk)' = Make(sk)
         /\ AllDone'
<1>1. UNCHANGED <<measured, hashes, rand, group, child, heap, pred, seen>>
  BY DEF results, random
<1>2. Sk' = Sk /\ Obj' = Obj /\ \A sk : Make(sk)' = Make(sk)
  BY DEF Sk, Obj, Make
<1>3. TypedResults' /\ TypedSketches' /\ TypedHeap'
  BY <1>1, <1>2 DEF IInv, TypedResults, TypedSketches, TypedHeap, Phases
<1>4. Measured' /\ New'
  BY <1>1, <1>2 DEF IInv, Measured, New, Done
<1>5. Best'
  BY <1>1 DEF IInv, Best, Top, Values
<1>6. child = <<>>
  BY DEF IInv, Rest
<1>7. AllDone'
  BY <1>1, <1>2, <1>6 DEF IInv, AllDone, Done
<1>. QED BY <1>2, <1>3, <1>4, <1>5, <1>7

LEMMA PopTyped ==
  ASSUME IInv
  PROVE  /\ pop \in Seq(DOMAIN objects) /\ objects \in Seq(Obj)
         /\ \A n \in DOMAIN pop : /\ pop[n] \in DOMAIN objects /\ objects[pop[n]] \in Obj
                                  /\ objects[pop[n]].sk \in Sk
         /\ \A k \in DOMAIN objects : objects[k] \in Obj
<1>1. pop \in Seq(DOMAIN objects) /\ objects \in Seq(Obj)
  BY DEF IInv, TypedPopulation
<1>2. \A n \in DOMAIN pop : pop[n] \in DOMAIN objects
  BY <1>1
<1>3. \A k \in DOMAIN objects : objects[k] \in Obj
  BY <1>1
<1>. QED BY <1>1, <1>2, <1>3 DEF Obj

LEMMA LookInv == IInv /\ Look => IInv'
<1>. SUFFICES ASSUME IInv, Look PROVE IInv'
  OBVIOUS
<1>1. /\ phase = "predict" /\ phase' = "predict" /\ input' = input
      /\ UNCHANGED <<queue, bases, results, random, group, child, heap, pred, seen, pop, objects>>
      /\ slot \in DOMAIN pop /\ slot \in Nat \ {0} /\ slot' = slot + 1
      /\ doing' = IF objects[pop[slot]].made = NotMade THEN doing \cup {slot} ELSE doing
  BY PopTyped DEF Look, IInv, TypedPopulation
<1>2. TypedPopulation' /\ Rest'
  BY <1>1, PredictSame DEF IInv, TypedPopulation, Rest, Ended
<1>3. GeneratedOnce'
  BY <1>1, PredictSame DEF IInv, GeneratedOnce, Generating
<1>4. Generating'
  <2>1. \A s \in doing : s < slot /\ objects[pop[s]].made \in {NotMade, <<>>}
    BY <1>1 DEF IInv, Generating
  <2>2. \A n, m \in DOMAIN pop : n # m /\ pop[n] = pop[m] => objects[pop[n]].made # NotMade
    BY <1>1 DEF IInv, Generating
  <2>3. \A n \in DOMAIN pop \ doing : Done(objects[pop[n]]) \/ (n >= slot /\ objects[pop[n]].made = NotMade)
    BY <1>1 DEF IInv, Generating
  <2>4. \A o : Done(o)' <=> Done(o)
    BY <1>1, PredictSame DEF Done
  <2>5. DOMAIN pop \subseteq Nat /\ doing \subseteq DOMAIN pop
    BY <1>1, PopTyped DEF IInv, TypedPopulation
  <2>6. \A s \in doing' : s < slot' /\ objects[pop[s]].made \in {NotMade, <<>>}
    BY <1>1, <2>1, <2>5
  <2>7. \A n \in DOMAIN pop \ doing' : Done(objects[pop[n]]) \/ (n >= slot' /\ objects[pop[n]].made = NotMade)
    BY <1>1, <2>3, <2>5
  <2>. QED BY <1>1, <2>2, <2>4, <2>6, <2>7 DEF Generating
<1>. QED BY <1>1, <1>2, <1>3, <1>4, PredictSame DEF IInv

\* A thread changes the schedule of the sketch in its slot only, which is in no
\* other slot.
LEMMA ThreadInv ==
  ASSUME IInv, phase = "predict", NEW s \in doing, NEW made \in Made,
         input' = input, UNCHANGED <<queue, bases, results, random, group, child, heap, pred, seen>>,
         UNCHANGED <<pop, slot>>,
         objects' = [objects EXCEPT ![pop[s]].made = made],
         \/ made = <<>> /\ phase' = phase /\ doing' = doing
         \/ /\ made = Make(objects[pop[s]].sk) /\ doing' = doing \ {s}
            /\ phase' = IF Throws(made) THEN "terminated" ELSE phase
  PROVE  IInv'
<1>. DEFINE o == objects[pop[s]]
            new == [o EXCEPT !.made = made]
<1>1. s \in DOMAIN pop /\ pop[s] \in DOMAIN objects /\ o \in Obj
  BY PopTyped DEF IInv, TypedPopulation
<1>2. new \in Obj /\ new.made = made /\ new.sk = o.sk
  BY <1>1 DEF Obj
<1>3. objects' = [objects EXCEPT ![pop[s]] = new]
  BY <1>1 DEF Obj
<1>. HIDE DEF new
<1>4. objects' \in Seq(Obj) /\ DOMAIN objects' = DOMAIN objects
  <2>1. objects \in Seq(Obj)
    BY PopTyped
  <2>2. objects \in [1 .. Len(objects) -> Obj] /\ Len(objects) \in Nat
    BY <2>1
  <2>3. [objects EXCEPT ![pop[s]] = new] \in [1 .. Len(objects) -> Obj]
    <3>1. new \in Obj
      BY <1>2
    <3>. QED BY <2>2, <3>1
  <2>4. objects' \in [1 .. Len(objects) -> Obj] /\ DOMAIN objects' = DOMAIN objects
    BY <1>3, <2>2, <2>3
  <2>. QED BY <2>2, <2>4
<1>5. /\ objects'[pop[s]] = new
      /\ \A k \in DOMAIN objects : k # pop[s] => objects'[k] = objects[k]
  BY <1>1, <1>3, PopTyped
<1>6. phase' \in {"predict", "terminated"}
  OBVIOUS
<1>7. TypedPopulation' /\ Rest'
  BY <1>4, <1>6, PredictSame DEF IInv, TypedPopulation, Rest, Ended
<1>8. \A n \in DOMAIN pop : n # s => pop[n] # pop[s] /\ objects'[pop[n]] = objects[pop[n]]
  <2>1. \A n \in DOMAIN pop : n # s => pop[n] # pop[s]
    BY DEF IInv, GeneratedOnce
  <2>. QED BY <1>5, <2>1, PopTyped
<1>9. \A x : Make(x)' = Make(x)
  BY DEF Make
<1>10. GeneratedOnce'
  <2>1. \A n \in DOMAIN objects' : objects'[n].made \in {NotMade, <<>>, Make(objects'[n].sk)}
    BY <1>2, <1>4, <1>5 DEF IInv, GeneratedOnce
  <2>2. doing' \subseteq doing
    OBVIOUS
  <2>. QED BY <1>9, <2>1, <2>2 DEF IInv, GeneratedOnce
<1>11. Generating'
  <2>. SUFFICES ASSUME phase' = "predict" PROVE Generating'
    BY DEF Generating
  <2>1. \A x : Done(x)' <=> Done(x)
    BY <1>9 DEF Done
  <2>2. \A n \in doing' : n < slot /\ objects'[pop[n]].made \in {NotMade, <<>>}
    <3>. TAKE n \in doing'
    <3>1. n \in doing /\ n \in DOMAIN pop
      BY DEF IInv, TypedPopulation
    <3>2. n < slot /\ objects[pop[n]].made \in {NotMade, <<>>}
      BY <3>1 DEF IInv, Generating
    <3>3. n = s => made = <<>>
      OBVIOUS
    <3>. QED BY <1>2, <1>5, <1>8, <3>1, <3>2, <3>3
  <2>3. ASSUME NEW n \in DOMAIN pop, NEW m \in DOMAIN pop, n # m, pop[n] = pop[m]
        PROVE  objects'[pop[n]].made # NotMade
    <3>1. n # s /\ objects[pop[n]].made # NotMade
      BY <1>8, <2>3 DEF IInv, Generating
    <3>. QED BY <1>8, <3>1
  <2>4. ASSUME NEW n \in DOMAIN pop \ doing'
        PROVE  Done(objects'[pop[n]]) \/ (n >= slot /\ objects'[pop[n]].made = NotMade)
    <3>1. CASE n = s
      <4>1. made = Make(o.sk) /\ ~Throws(made)
        BY <2>4, <3>1
      <4>2. Done(new)
        BY <1>2, <4>1 DEF Done
      <4>. QED BY <1>5, <3>1, <4>2
    <3>2. CASE n # s
      BY <1>8, <2>4, <3>2 DEF IInv, Generating
    <3>. QED BY <3>1, <3>2
  <2>. QED BY <2>1, <2>2, <2>3, <2>4 DEF Generating
<1>. QED BY <1>6, <1>7, <1>10, <1>11, PredictSame DEF IInv

LEMMA ForkInv ==
  ASSUME IInv, NEW s \in doing, Fork(s)
  PROVE  IInv'
<1>1. <<>> \in Made
  BY DEF Made
<1>2. /\ phase = "predict" /\ phase' = phase /\ doing' = doing /\ input' = input
      /\ UNCHANGED <<queue, bases, results, random, group, child, heap, pred, seen>>
      /\ UNCHANGED <<pop, slot>>
      /\ objects' = [objects EXCEPT ![pop[s]].made = <<>>]
  BY DEF Fork
<1>. QED BY <1>1, <1>2, ThreadInv

LEMMA ApplyInv ==
  ASSUME IInv, NEW s \in doing, Apply(s)
  PROVE  IInv'
<1>. DEFINE made == Make(objects[pop[s]].sk)
<1>1. s \in DOMAIN pop /\ objects[pop[s]].sk \in Sk
  BY PopTyped DEF IInv, TypedPopulation
<1>2. made \in Made
  BY <1>1, Makes DEF IInv, TypedSketches
<1>3. phase = "predict" /\ objects[pop[s]].made # NotMade
  BY DEF Apply
<1>4. objects[pop[s]].made = <<>>
  BY <1>3 DEF IInv, Generating
<1>5. objects[pop[s]].made \o made = made
  <2>. HIDE DEF made
  <2>. QED BY <1>2, <1>4 DEF Made
<1>6. /\ objects' = [objects EXCEPT ![pop[s]].made = made]
      /\ phase' = IF Throws(made) THEN "terminated" ELSE phase
      /\ doing' = doing \ {s} /\ input' = input
      /\ UNCHANGED <<queue, bases, results, random, group, child, heap, pred, seen>>
      /\ UNCHANGED <<pop, slot>>
  BY <1>5 DEF Apply, Over
<1>. QED BY <1>2, <1>3, <1>6, ThreadInv

-----------------------------------------------------------------------------
\* What is offered to the heap.
AllMadeDone ==
  \A n \in DOMAIN pop : Done(objects[pop[n]])

LEMMA AllMadeIs ==
  ASSUME IInv, AllMade
  PROVE  AllMadeDone
<1>1. /\ \A n \in DOMAIN pop \ doing :
           Done(objects[pop[n]]) \/ (n >= slot /\ objects[pop[n]].made = NotMade)
      /\ doing = {} /\ slot > Len(pop) /\ slot \in Nat
  BY DEF IInv, AllMade, Generating, TypedPopulation
<1>2. \A n \in DOMAIN pop : ~(n >= slot)
  BY <1>1, PopTyped
<1>. QED BY <1>1, <1>2 DEF AllMadeDone

\* Predictions that are made keep what was predicted.
LEMMA PredictInv == IInv /\ Predict => IInv'
<1>. SUFFICES ASSUME IInv, Predict PROVE IInv'
  OBVIOUS
<1>. DEFINE new == {objects[pop[n]].sk : n \in DOMAIN pop} \ (hashes \cup DOMAIN pred)
<1>1. /\ AllMade /\ phase = "predict" /\ doing = {} /\ phase' = "offer" /\ slot' = 1 /\ input' = input
      /\ UNCHANGED <<queue, bases, measured, hashes, rand, group, pop, objects, doing, child, heap, seen>>
  BY DEF Predict, AllMade, results, random
<1>2. PICK p \in [new -> Scores] :
        pred' = [sk \in DOMAIN pred \cup new |-> IF sk \in new THEN p[sk] ELSE pred[sk]]
  BY DEF Predict
<1>3. /\ \A sk \in DOMAIN pred : sk \in DOMAIN pred' /\ pred'[sk] = pred[sk]
      /\ DOMAIN pred' = DOMAIN pred \cup new
  BY <1>2
<1>4. pred' \in [DOMAIN pred' -> Nat]
  <2>1. Scores \subseteq Nat
    BY SearchAssumption
  <2>2. pred \in [DOMAIN pred -> Nat]
    BY DEF IInv, TypedHeap
  <2>. HIDE DEF new
  <2>. QED BY <1>2, <2>1, <2>2
<1>5. Sk' = Sk /\ Obj' = Obj /\ \A sk : Make(sk)' = Make(sk)
  BY <1>1 DEF Sk, Obj, Make
<1>6. TypedResults' /\ TypedSketches' /\ TypedPopulation' /\ TypedHeap'
  BY <1>1, <1>4, <1>5 DEF IInv, TypedResults, TypedSketches, TypedPopulation, TypedHeap, Phases
<1>7. Rest' /\ Generating' /\ GeneratedOnce'
  BY <1>1, <1>5 DEF IInv, Rest, Generating, GeneratedOnce, Ended
<1>8. Measured' /\ New'
  BY <1>1, <1>5 DEF IInv, Measured, New, Done
<1>9. AllDone'
  BY <1>1, <1>5, AllMadeIs DEF IInv, AllDone, Done, AllMadeDone
<1>10. Best'
  <2>1. Top(seen \ hashes)
    BY DEF IInv, Best
  <2>2. Top(seen \ hashes)'
    <3>. HIDE DEF new
    <3>1. Values(heap) \subseteq DOMAIN pred /\ seen \ hashes \subseteq DOMAIN pred
      BY <2>1 DEF Top
    <3>2. \A x \in heap : x.sk \in DOMAIN pred
      BY <3>1 DEF Values
    <3>3. \A x \in heap : \A sk \in (seen \ hashes) \ Values(heap) : pred'[sk] <= pred'[x.sk]
      BY <1>3, <2>1, <3>1, <3>2 DEF Top
    <3>. QED BY <1>1, <1>3, <2>1, <3>3 DEF Top, Values
  <2>3. \A n \in DOMAIN pop : objects[pop[n]].sk \in hashes \cup DOMAIN pred'
    BY <1>3
  <2>. QED BY <1>1, <2>2, <2>3 DEF Best
<1>. QED BY <1>6, <1>7, <1>8, <1>9, <1>10 DEF IInv

\* A heap that is offered o still has the best of what was offered.
LEMMA OfferedTop ==
  ASSUME NEW new, IInv, Top(new), NEW o \in Obj, o.sk \in hashes \cup DOMAIN pred,
         input.exploit > 0 \/ o.sk \in hashes,
         NEW h \in Offered(heap, o, pred), new \cap hashes = {}
  PROVE  /\ h \subseteq heap \cup {o} /\ IsFiniteSet(h)
         /\ Values(h) \subseteq new \cup ({o.sk} \ hashes)
         /\ \A x, y \in h : x.sk = y.sk => x = y
         /\ Cardinality(h) <= input.exploit
         /\ Values(h) # new \cup ({o.sk} \ hashes) => Cardinality(h) = input.exploit
         /\ \A x \in h : \A sk \in (new \cup ({o.sk} \ hashes)) \ Values(h) : pred[sk] <= pred[x.sk]
         /\ new \cup ({o.sk} \ hashes) \subseteq DOMAIN pred
<1>. DEFINE all == new \cup ({o.sk} \ hashes)
            worst == {x \in heap : \A y \in heap : pred[x.sk] <= pred[y.sk]}
<1>1. /\ Values(heap) \subseteq new
      /\ \A x, y \in heap : x.sk = y.sk => x = y
      /\ Cardinality(heap) <= input.exploit
      /\ Values(heap) # new => Cardinality(heap) = input.exploit
      /\ \A x \in heap : \A sk \in new \ Values(heap) : pred[sk] <= pred[x.sk]
      /\ new \subseteq DOMAIN pred
  BY DEF Top
<1>2. /\ IsFiniteSet(heap) /\ Cardinality(heap) \in Nat /\ input.exploit \in Nat
      /\ \A sk \in DOMAIN pred : pred[sk] \in Nat
  BY SearchAssumption, FS_CardinalityType DEF IInv, TypedHeap, TypedSketches
<1>3. \A x \in heap : x.sk \in Values(heap) /\ x.sk \in DOMAIN pred
  BY <1>1 DEF Values
<1>4. all \subseteq DOMAIN pred
  BY <1>1
<1>. SUFFICES /\ h \subseteq heap \cup {o} /\ IsFiniteSet(h)
              /\ Values(h) \subseteq all
              /\ \A x, y \in h : x.sk = y.sk => x = y
              /\ Cardinality(h) <= input.exploit
              /\ Values(h) # all => Cardinality(h) = input.exploit
              /\ \A x \in h : \A sk \in all \ Values(h) : pred[sk] <= pred[x.sk]
  BY <1>4
<1>5. CASE o.sk \in hashes \cup Values(heap)
  <2>1. h = heap
    BY <1>5 DEF Offered
  <2>2. all = new
    BY <1>1, <1>5
  <2>. QED BY <1>1, <1>2, <2>1, <2>2
<1>6. CASE o.sk \notin hashes \cup Values(heap) /\ Cardinality(heap) < input.exploit
  <2>1. h = heap \cup {o} /\ o \notin heap
    BY <1>3, <1>6 DEF Offered
  <2>2. new = Values(heap)
    BY <1>1, <1>2, <1>6
  <2>3. Values(h) = Values(heap) \cup {o.sk} /\ all = Values(heap) \cup {o.sk}
    BY <1>6, <2>1, <2>2 DEF Values
  <2>4. IsFiniteSet(h) /\ Cardinality(h) = Cardinality(heap) + 1
    BY <1>2, <2>1, FS_AddElement
  <2>5. \A x, y \in h : x.sk = y.sk => x = y
    BY <1>1, <1>3, <1>6, <2>1
  <2>6. Values(h) = all
    BY <2>3
  <2>7. Cardinality(h) <= input.exploit
    BY <1>2, <1>6, <2>4
  <2>8. h \subseteq heap \cup {o}
    BY <2>1
  <2>. HIDE DEF all
  <2>. QED BY <2>4, <2>5, <2>6, <2>7, <2>8
<1>7. CASE o.sk \notin hashes \cup Values(heap) /\ ~(Cardinality(heap) < input.exploit)
  <2>1. Cardinality(heap) = input.exploit /\ input.exploit > 0
    BY <1>1, <1>2, <1>7
  <2>2. heap # {}
    BY <2>1, FS_EmptySet
  <2>3. worst # {}
    <3>. DEFINE S == {pred[x.sk] : x \in heap}
    <3>1. S \in SUBSET Nat /\ S # {}
      BY <1>2, <1>3, <2>2
    <3>2. PICK n \in S : \A m \in S : n <= m
      <4>. HIDE DEF S
      <4>. QED BY <3>1, LeastNat
    <3>3. PICK x \in heap : pred[x.sk] = n
      BY <3>2
    <3>4. \A y \in heap : pred[x.sk] <= pred[y.sk]
      BY <3>2, <3>3
    <3>. QED BY <3>3, <3>4
  <2>4. o \notin heap /\ pred[o.sk] \in Nat /\ all = new \cup {o.sk}
    BY <1>2, <1>3, <1>7
  <2>5. \/ \E x \in worst : pred[o.sk] > pred[x.sk] /\ h = (heap \ {x}) \cup {o}
        \/ (\E x \in worst : ~(pred[o.sk] > pred[x.sk])) /\ h = heap
    BY <1>7, <2>3 DEF Offered
  <2>6. ASSUME NEW x \in worst, pred[o.sk] > pred[x.sk], h = (heap \ {x}) \cup {o}
        PROVE  /\ h \subseteq heap \cup {o} /\ IsFiniteSet(h)
               /\ Values(h) \subseteq all
               /\ \A z, y \in h : z.sk = y.sk => z = y
               /\ Cardinality(h) = input.exploit
               /\ \A z \in h : \A sk \in all \ Values(h) : pred[sk] <= pred[z.sk]
    <3>1. IsFiniteSet(heap \ {x}) /\ Cardinality(heap \ {x}) = Cardinality(heap) - 1
      BY <1>2, FS_RemoveElement
    <3>2. IsFiniteSet(h) /\ Cardinality(h) = Cardinality(heap)
      <4>1. o \notin heap \ {x}
        BY <2>4
      <4>2. IsFiniteSet(h) /\ Cardinality(h) = Cardinality(heap \ {x}) + 1
        BY <2>6, <3>1, <4>1, FS_AddElement
      <4>. QED BY <1>2, <3>1, <4>2
    <3>3. Values(h) \subseteq all
      BY <1>1, <1>3, <2>4, <2>6 DEF Values
    <3>4. \A z, y \in h : z.sk = y.sk => z = y
      BY <1>1, <1>3, <1>7, <2>6
    <3>5. ASSUME NEW z \in h, NEW sk \in all \ Values(h)
          PROVE  pred[sk] <= pred[z.sk]
      <4>1. \A y \in heap : pred[x.sk] <= pred[y.sk] /\ pred[x.sk] \in Nat /\ pred[y.sk] \in Nat
        BY <1>2, <1>3
      <4>2. pred[x.sk] <= pred[z.sk] /\ pred[z.sk] \in Nat
        BY <2>4, <2>6, <4>1
      <4>3. sk # o.sk
        BY <2>6 DEF Values
      <4>4. sk \in new /\ pred[sk] \in Nat
        BY <1>1, <1>2, <2>4, <4>3
      <4>5. pred[sk] <= pred[x.sk]
        <5>1. CASE sk \in Values(heap)
          <6>1. PICK y \in heap : y.sk = sk
            BY <5>1 DEF Values
          <6>2. y = x
            BY <2>6, <6>1 DEF Values
          <6>. QED BY <4>4, <6>1, <6>2
        <5>2. CASE sk \notin Values(heap)
          BY <1>1, <4>4, <5>2
        <5>. QED BY <5>1, <5>2
      <4>6. pred[x.sk] \in Nat
        BY <4>1
      <4>. QED BY <4>2, <4>4, <4>5, <4>6
    <3>. QED BY <2>1, <2>6, <3>2, <3>3, <3>4, <3>5
  <2>7. ASSUME NEW x \in worst, ~(pred[o.sk] > pred[x.sk]), h = heap
        PROVE  \A z \in h : \A sk \in all \ Values(h) : pred[sk] <= pred[z.sk]
    <3>. SUFFICES ASSUME NEW z \in heap, NEW sk \in all \ Values(heap)
                  PROVE  pred[sk] <= pred[z.sk]
      BY <2>7
    <3>1. pred[x.sk] <= pred[z.sk] /\ pred[x.sk] \in Nat /\ pred[z.sk] \in Nat
      BY <1>2, <1>3
    <3>2. CASE sk = o.sk
      BY <2>4, <2>7, <3>1, <3>2
    <3>3. CASE sk # o.sk
      BY <1>1, <2>4, <3>3
    <3>. QED BY <3>2, <3>3
  <2>8. Values(heap) \subseteq all
    BY <1>1
  <2>. HIDE DEF all, worst
  <2>9. CASE \E x \in worst : pred[o.sk] > pred[x.sk] /\ h = (heap \ {x}) \cup {o}
    <3>1. PICK x \in worst : pred[o.sk] > pred[x.sk] /\ h = (heap \ {x}) \cup {o}
      BY <2>9
    <3>2. /\ h \subseteq heap \cup {o} /\ IsFiniteSet(h)
          /\ Values(h) \subseteq all
          /\ \A z, y \in h : z.sk = y.sk => z = y
          /\ Cardinality(h) = input.exploit
          /\ \A z \in h : \A sk \in all \ Values(h) : pred[sk] <= pred[z.sk]
      BY <2>6, <3>1
    <3>. QED BY <1>2, <3>2
  <2>10. CASE (\E x \in worst : ~(pred[o.sk] > pred[x.sk])) /\ h = heap
    <3>1. PICK x \in worst : ~(pred[o.sk] > pred[x.sk])
      BY <2>10
    <3>2. h = heap
      BY <2>10
    <3>3. \A z \in h : \A sk \in all \ Values(h) : pred[sk] <= pred[z.sk]
      BY <2>7, <3>1, <3>2
    <3>. QED BY <1>1, <1>2, <2>1, <2>8, <3>2, <3>3
  <2>. QED BY <2>5, <2>9, <2>10
<1>. QED BY <1>5, <1>6, <1>7


LEMMA OfferInv == IInv /\ Offer => IInv'
<1>. SUFFICES ASSUME IInv, Offer PROVE IInv'
  OBVIOUS
<1>. DEFINE o == objects[pop[slot]]
            new == seen \ hashes
<1>1. /\ phase = "offer" /\ phase' = "offer" /\ slot <= Len(pop) /\ slot' = slot + 1 /\ input' = input
      /\ input.exploit > 0 \/ o.sk \in hashes
      /\ heap' \in Offered(heap, o, pred) /\ seen' = seen \cup {o.sk}
      /\ UNCHANGED <<queue, bases, measured, hashes, rand, group, pop, objects, doing, child, pred>>
  BY DEF Offer, results, random
<1>2. slot \in DOMAIN pop /\ o \in Obj /\ o.sk \in Sk
  BY <1>1, PopTyped DEF IInv, TypedPopulation
<1>3. Done(o) /\ o.sk \in hashes \cup DOMAIN pred
  BY <1>1, <1>2 DEF IInv, AllDone, Best
<1>4. Top(new) /\ new \cap hashes = {}
  BY DEF IInv, Best
<1>5. seen' \ hashes = new \cup ({o.sk} \ hashes)
  BY <1>1
<1>. HIDE DEF new
<1>6. /\ heap' \subseteq heap \cup {o} /\ IsFiniteSet(heap')
      /\ Values(heap') \subseteq new \cup ({o.sk} \ hashes)
      /\ \A x, y \in heap' : x.sk = y.sk => x = y
      /\ Cardinality(heap') <= input.exploit
      /\ Values(heap') # new \cup ({o.sk} \ hashes) => Cardinality(heap') = input.exploit
      /\ \A x \in heap' : \A sk \in (new \cup ({o.sk} \ hashes)) \ Values(heap') : pred[sk] <= pred[x.sk]
      /\ new \cup ({o.sk} \ hashes) \subseteq DOMAIN pred
  <2>. HIDE DEF o
  <2>. QED BY <1>1, <1>2, <1>3, <1>4, OfferedTop
<1>7. Top(seen \ hashes)'
  BY <1>1, <1>5, <1>6 DEF Top, Values
<1>8. Best'
  BY <1>1, <1>7 DEF IInv, Best
<1>9. Sk' = Sk /\ Obj' = Obj /\ \A sk : Make(sk)' = Make(sk)
  BY <1>1 DEF Sk, Obj, Make
<1>10. TypedResults' /\ TypedSketches'
  BY <1>1, <1>9 DEF IInv, TypedResults, TypedSketches, Phases
<1>11. TypedPopulation'
  BY <1>1, <1>9 DEF IInv, TypedPopulation
<1>12. TypedHeap'
  BY <1>1, <1>2, <1>6, <1>9 DEF IInv, TypedHeap
<1>13. Rest' /\ GeneratedOnce' /\ Generating'
  BY <1>1, <1>9 DEF IInv, Rest, GeneratedOnce, Generating, Ended
<1>14. Measured' /\ New'
  BY <1>1, <1>9 DEF IInv, Measured, New, Done
<1>15. AllDone'
  <2>1. \A x \in heap' : Done(x)
    BY <1>3, <1>6 DEF IInv, AllDone
  <2>2. \A x : Done(x)' <=> Done(x)
    BY <1>9 DEF Done
  <2>. QED BY <1>1, <2>1, <2>2 DEF IInv, AllDone
<1>. QED BY <1>8, <1>10, <1>11, <1>12, <1>13, <1>14, <1>15 DEF IInv

LEMMA OffersInv == IInv /\ Offers => IInv'
<1>. SUFFICES ASSUME IInv, Offers PROVE IInv'
  OBVIOUS
<1>1. /\ phase = "offer" /\ slot' = 1 /\ input' = input
      /\ UNCHANGED <<queue, bases, measured, hashes, rand, doing, child, heap, pred, seen>>
      /\ \/ /\ phase' = "test" /\ group' \in Ranked(heap, pred)
            /\ pop' = <<>> /\ objects' = <<>>
         \/ phase' = "breed" /\ UNCHANGED <<pop, objects, group>>
  BY DEF Offers, results, random
<1>2. doing = {} /\ child = <<>>
  BY <1>1 DEF IInv, Rest
<1>3. Sk' = Sk /\ Obj' = Obj /\ \A sk : Make(sk)' = Make(sk)
  BY <1>1 DEF Sk, Obj, Make
<1>4. TypedResults' /\ TypedHeap' /\ Measured'
  BY <1>1, <1>3 DEF IInv, TypedResults, TypedHeap, Measured, Done
<1>5. Best'
  BY <1>1 DEF IInv, Best, Top, Values
<1>6. Rest' /\ Generating'
  BY <1>1, <1>2 DEF Rest, Generating, Ended
<1>7. TypedPopulation' /\ GeneratedOnce'
  <2>1. CASE pop' = <<>> /\ objects' = <<>>
    <3>1. <<>> \in Seq(Obj) /\ <<>> \in Seq({}) /\ <<>> \in Seq([sk : Sk, from : Nat]) /\ DOMAIN <<>> = {}
      OBVIOUS
    <3>. QED BY <1>1, <1>2, <1>3, <2>1, <3>1 DEF TypedPopulation, GeneratedOnce
  <2>2. CASE UNCHANGED <<pop, objects>>
    BY <1>1, <1>2, <1>3, <2>2 DEF IInv, TypedPopulation, GeneratedOnce
  <2>. QED BY <1>1, <2>1, <2>2
<1>8. CASE phase' = "breed"
  <2>1. UNCHANGED <<pop, objects, group>>
    BY <1>1, <1>8
  <2>2. TypedSketches' /\ New'
    BY <1>1, <1>3, <1>8, <2>1 DEF IInv, TypedSketches, New, Phases
  <2>3. AllDone'
    BY <1>1, <1>2, <1>3, <1>8, <2>1 DEF IInv, AllDone, Done
  <2>. QED BY <1>4, <1>5, <1>6, <1>7, <2>2, <2>3 DEF IInv
<1>9. CASE phase' = "test"
  <2>1. group' \in SetToSeqs(heap)
    BY <1>1, <1>9 DEF Ranked
  <2>2. /\ group' \in [1 .. Cardinality(heap) -> heap] /\ Cardinality(heap) \in Nat
        /\ \A i, j \in DOMAIN group' : i # j => group'[i] # group'[j]
    BY <2>1, FS_CardinalityType DEF SetToSeqs, IInv, TypedHeap
  <2>3. group' \in Seq(Obj) /\ \A n \in DOMAIN group' : group'[n] \in heap
    BY <2>2 DEF IInv, TypedHeap
  <2>4. TypedSketches'
    BY <1>1, <1>3, <1>9, <2>3 DEF IInv, TypedSketches, Phases
  <2>5. /\ Values(heap) \subseteq seen \ hashes
        /\ \A x, y \in heap : x.sk = y.sk => x = y
    BY DEF IInv, Best, Top
  <2>6. New'
    <3>1. \A x \in heap : x.sk \notin hashes
      BY <2>5 DEF Values
    <3>2. \A i, j \in DOMAIN group' : i # j => group'[i].sk # group'[j].sk
      BY <2>2, <2>3, <2>5
    <3>. QED BY <1>1, <2>3, <3>1, <3>2 DEF IInv, New
  <2>7. AllDone'
    <3>1. \A x \in heap : Done(x)
      BY DEF IInv, AllDone
    <3>2. \A x : Done(x)' <=> Done(x)
      BY <1>3 DEF Done
    <3>. QED BY <1>1, <1>2, <1>9, <2>3, <3>1, <3>2 DEF AllDone
  <2>. QED BY <1>4, <1>5, <1>6, <1>7, <2>4, <2>6, <2>7 DEF IInv
<1>. QED BY <1>1, <1>8, <1>9

-----------------------------------------------------------------------------
\* The next population.
LEMMA BredTyped ==
  ASSUME IInv, phase = "breed", NEW b \in Bred
  PROVE  /\ b \in [sk : Sk, from : Nat]
         /\ b.from # 0 => b.from \in ToSet(pop) /\ b.sk = objects[b.from].sk
<1>1. \A n \in DOMAIN pop : Parent(n) \in Sk
  BY PopTyped DEF Parent
<1>2. Len(input.subs) \in Nat /\ DOMAIN input.subs = 1 .. Len(input.subs)
  BY Subs0 DEF IInv, TypedSketches
<1>3. Mutated \subseteq Sk
  <2>1. \A a \in DOMAIN pop, i \in DOMAIN input.subs : MutationsOf(Parent(a), i, input.plat) \subseteq Sk
    BY <1>1, <1>2, MutationsTyped DEF Sk
  <2>. QED BY <2>1 DEF Mutated
<1>4. Crossed \subseteq Sk
  <2>1. \A a, c \in DOMAIN pop, i \in DOMAIN input.subs : CrossingsOf(Parent(a), Parent(c), i) \subseteq Sk
    BY <1>1, <1>2, CrossingsTyped DEF Sk
  <2>. QED BY <2>1 DEF Crossed
<1>5. CASE b \in Inherited
  <2>1. PICK k \in ToSet(pop) : b = [sk |-> objects[k].sk, from |-> k]
    BY <1>5 DEF Inherited
  <2>2. PICK n \in DOMAIN pop : pop[n] = k
    BY <2>1 DEF ToSet
  <2>3. objects[k].sk \in Sk /\ k \in Nat
    BY <2>2, PopTyped
  <2>. QED BY <2>1, <2>3
<1>6. CASE \E sk \in Mutated \cup Crossed : b = [sk |-> sk, from |-> 0]
  <2>1. PICK sk \in Mutated \cup Crossed : b = [sk |-> sk, from |-> 0]
    BY <1>6
  <2>. QED BY <1>3, <1>4, <2>1
<1>. QED BY <1>5, <1>6 DEF Bred

LEMMA FirstsIs ==
  ASSUME NEW R, NEW c \in Seq(R)
  PROVE  /\ Firsts(c) \in Seq(DOMAIN c) /\ DOMAIN Firsts(c) = DOMAIN c
         /\ \A j \in DOMAIN c : Firsts(c)[j] \in DOMAIN c /\ Same(c, j, Firsts(c)[j])
<1>. DEFINE first(j) == Min({k \in DOMAIN c : Same(c, j, k)})
<1>1. DOMAIN c = 1 .. Len(c) /\ Len(c) \in Nat
  OBVIOUS
<1>2. ASSUME NEW j \in DOMAIN c
      PROVE  first(j) \in DOMAIN c /\ Same(c, j, first(j))
  <2>. DEFINE S == {k \in DOMAIN c : Same(c, j, k)}
  <2>1. j \in S
    BY DEF Same
  <2>2. S \in SUBSET Nat
    BY <1>1
  <2>3. Min(S) \in S
    <3>. HIDE DEF S
    <3>. QED BY <2>1, <2>2, MinIs
  <2>. QED BY <2>3
<1>3. Firsts(c) = [j \in DOMAIN c |-> first(j)]
  BY DEF Firsts
<1>. HIDE DEF first
<1>4. Firsts(c) \in [1 .. Len(c) -> DOMAIN c]
  BY <1>1, <1>2, <1>3
<1>5. \A j \in DOMAIN c : Firsts(c)[j] \in DOMAIN c /\ Same(c, j, Firsts(c)[j])
  BY <1>2, <1>3
<1>. QED BY <1>1, <1>4, <1>5

LEMMA BreedInv == IInv /\ Breed => IInv'
<1>. SUFFICES ASSUME IInv, Breed PROVE IInv'
  OBVIOUS
<1>1. /\ phase = "breed" /\ input' = input
      /\ UNCHANGED <<queue, bases, measured, hashes, rand, group, slot, doing, heap, pred, seen>>
  BY DEF Breed, results, random
<1>2. slot = 1 /\ doing = {}
  BY <1>1 DEF IInv, Rest, Ended
<1>3. Sk' = Sk /\ Obj' = Obj /\ \A sk : Make(sk)' = Make(sk)
  BY <1>1 DEF Sk, Obj, Make
<1>4. phase' \in {"breed", "predict"}
  BY <1>1 DEF Breed
<1>5. TypedResults' /\ TypedSketches' /\ TypedHeap'
  BY <1>1, <1>3, <1>4 DEF IInv, TypedResults, TypedSketches, TypedHeap, Phases
<1>6. Measured' /\ New'
  BY <1>1, <1>3, <1>4 DEF IInv, Measured, New, Done
<1>7. Best'
  BY <1>1, <1>4 DEF IInv, Best, Top, Values
<1>8. \A x : Done(x)' <=> Done(x)
  BY <1>3 DEF Done
<1>. DEFINE R == [sk : Sk, from : Nat]
<1>9. PICK b \in Bred :
        LET c == Append(child, b) IN
        IF Len(c) = Population
        THEN Swapped(c) /\ child' = <<>> /\ phase' = "predict" /\ iter' = iter + 1
        ELSE child' = c /\ UNCHANGED <<phase, pop, objects, iter>>
  BY DEF Breed
<1>. DEFINE c == Append(child, b)
<1>10. c \in Seq(R) /\ DOMAIN c = DOMAIN child \cup {Len(child) + 1}
       /\ c[Len(child) + 1] = b /\ \A n \in DOMAIN child : c[n] = child[n]
  <2>1. child \in Seq(R) /\ b \in R
    BY <1>1, BredTyped DEF IInv, TypedPopulation
  <2>. HIDE DEF R
  <2>. QED BY <2>1
<1>11. \A n \in DOMAIN c : c[n].from # 0 => c[n].from \in ToSet(pop) /\ c[n].sk = objects[c[n].from].sk
  <2>1. \A n \in DOMAIN child :
          child[n].from # 0 => child[n].from \in ToSet(pop) /\ child[n].sk = objects[child[n].from].sk
    BY DEF IInv, AllDone
  <2>2. b.from # 0 => b.from \in ToSet(pop) /\ b.sk = objects[b.from].sk
    BY <1>1, BredTyped
  <2>. HIDE DEF c
  <2>. QED BY <1>10, <2>1, <2>2
<1>. HIDE DEF c
<1>12. CASE Len(c) = Population
  <2>1. Swapped(c) /\ child' = <<>> /\ phase' = "predict"
    BY <1>9, <1>12 DEF c
  <2>2. \A n \in DOMAIN c : c[n].from # 0 => objects[c[n].from] \in Obj /\ Done(objects[c[n].from])
    <3>1. \A k \in ToSet(pop) : objects[k] \in Obj /\ Done(objects[k])
      <4>1. \A n \in DOMAIN pop : objects[pop[n]] \in Obj /\ Done(objects[pop[n]])
        BY <1>1, PopTyped DEF IInv, AllDone
      <4>. QED BY <4>1 DEF ToSet
    <3>. QED BY <1>11, <3>1
  <2>. DEFINE at(j) == IF c[j].from = 0 THEN Ungenerated(c[j].sk) ELSE objects[c[j].from]
  <2>3. ASSUME NEW j \in DOMAIN c
        PROVE  /\ at(j) \in Obj
               /\ at(j).made = NotMade \/ Done(at(j))
               /\ c[j].from # 0 => at(j).made # NotMade
    <3>1. CASE c[j].from = 0
      <4>1. c[j] \in R
        <5>. HIDE DEF R
        <5>1. c \in Seq(R)
          BY <1>10
        <5>. QED BY <5>1
      <4>. QED BY <3>1, <4>1 DEF Ungenerated, Obj
    <3>2. CASE c[j].from # 0
      <4>1. at(j) \in Obj /\ Done(at(j))
        BY <2>2, <3>2
      <4>2. at(j).sk \in Sk
        BY <4>1 DEF Obj
      <4>. HIDE DEF at
      <4>. QED BY <4>1, <4>2, Makes DEF Done, IInv, TypedSketches
    <3>. QED BY <3>1, <3>2
  <2>4. objects' = [j \in DOMAIN c |-> at(j)] /\ pop' = Firsts(c)
    BY <2>1 DEF Swapped
  <2>. HIDE DEF at
  <2>5. DOMAIN objects' = DOMAIN c /\ \A j \in DOMAIN c : objects'[j] = at(j)
    BY <2>4
  <2>6. objects' \in Seq(Obj)
    <3>1. DOMAIN c = 1 .. Len(c) /\ Len(c) \in Nat
      <4>. HIDE DEF R
      <4>1. c \in Seq(R)
        BY <1>10
      <4>. QED BY <4>1
    <3>2. \A j \in 1 .. Len(c) : at(j) \in Obj
      BY <2>3, <3>1
    <3>. QED BY <2>4, <3>1, <3>2
  <2>7. /\ pop' \in Seq(DOMAIN objects') /\ DOMAIN pop' = DOMAIN c
        /\ \A j \in DOMAIN c : pop'[j] \in DOMAIN c /\ Same(c, j, pop'[j])
    BY <1>10, <2>4, <2>5, FirstsIs
  <2>8. TypedPopulation'
    BY <1>1, <1>2, <1>3, <2>1, <2>6, <2>7 DEF TypedPopulation
  <2>9. Rest'
    BY <1>1, <1>2, <2>1 DEF Rest, Ended
  <2>10. GeneratedOnce'
    BY <1>1, <1>2, <1>3, <2>3, <2>5 DEF GeneratedOnce, Done
  <2>11. Generating'
    <3>1. \A n \in DOMAIN pop' : objects'[pop'[n]].made = NotMade \/ Done(objects'[pop'[n]])
      BY <2>3, <2>5, <2>7
    <3>2. \A n \in DOMAIN pop' : n >= slot'
      <4>1. DOMAIN pop' = 1 .. Len(pop')
        BY <2>7
      <4>. QED BY <1>1, <1>2, <4>1
    <3>3. ASSUME NEW n \in DOMAIN pop', NEW m \in DOMAIN pop', n # m, pop'[n] = pop'[m]
          PROVE  objects'[pop'[n]].made # NotMade
      <4>1. Same(c, n, pop'[n]) /\ Same(c, m, pop'[n]) /\ pop'[n] \in DOMAIN c
        BY <2>7, <3>3
      <4>2. c[pop'[n]].from # 0
        BY <3>3, <4>1 DEF Same
      <4>. QED BY <2>3, <2>5, <4>1, <4>2
    <3>. QED BY <1>1, <1>2, <1>8, <3>1, <3>2, <3>3 DEF Generating
  <2>12. AllDone'
    BY <1>1, <1>8, <2>1 DEF IInv, AllDone
  <2>. QED BY <1>5, <1>6, <1>7, <2>8, <2>9, <2>10, <2>11, <2>12 DEF IInv
<1>13. CASE Len(c) # Population
  <2>1. child' = c /\ UNCHANGED <<phase, pop, objects>>
    BY <1>9, <1>13 DEF c
  <2>2. TypedPopulation'
    BY <1>1, <1>3, <1>10, <2>1 DEF IInv, TypedPopulation
  <2>3. Rest' /\ Generating' /\ GeneratedOnce'
    BY <1>1, <1>3, <2>1 DEF IInv, Rest, Generating, GeneratedOnce
  <2>4. AllDone'
    BY <1>1, <1>8, <1>11, <2>1 DEF IInv, AllDone
  <2>. QED BY <1>5, <1>6, <1>7, <2>2, <2>3, <2>4 DEF IInv
<1>. QED BY <1>12, <1>13

-----------------------------------------------------------------------------
\* What is measured.
LEMMA FeaturesInv == IInv /\ Features => IInv'
<1>. SUFFICES ASSUME IInv, Features PROVE IInv'
  OBVIOUS
<1>1. /\ phase = "test" /\ phase' = "measure" /\ input' = input /\ Usable(WithMade(group))
      /\ group' = WithMade(group) /\ heap' = {} /\ pred' = <<>> /\ seen' = {}
      /\ UNCHANGED <<queue, bases, measured, hashes, rand, pop, objects, slot, doing, child>>
  BY DEF Features, results, random
<1>2. input \in Inputs /\ group \in Seq(Obj)
  BY DEF IInv, TypedSketches
<1>3. Sk' = Sk /\ Obj' = Obj /\ \A sk : Make(sk)' = Make(sk)
  BY <1>1 DEF Sk, Obj, Make
<1>4. \A x : Done(x)' <=> Done(x)
  BY <1>3 DEF Done
<1>. DEFINE g(n) == IF group[n].made = NotMade THEN [sk |-> group[n].sk, made |-> Make(group[n].sk)] ELSE group[n]
<1>5. group' = [n \in DOMAIN group |-> g(n)] /\ \A n \in DOMAIN group : ~Throws(group'[n].made)
  BY <1>1 DEF WithMade, Usable
<1>6. ASSUME NEW n \in DOMAIN group
      PROVE  /\ g(n) \in Obj /\ g(n).sk = group[n].sk
             /\ g(n).made = Make(g(n).sk)
  <2>1. group[n] \in Obj
    BY <1>2
  <2>2. group[n].sk \in Sk
    BY <2>1 DEF Obj
  <2>3. Make(group[n].sk) \in Made
    BY <1>2, <2>2, Makes
  <2>4. CASE group[n].made = NotMade
    BY <2>2, <2>3, <2>4 DEF Obj
  <2>5. CASE group[n].made # NotMade
    BY <1>1, <2>1, <2>5 DEF IInv, AllDone, Done
  <2>. QED BY <2>4, <2>5
<1>. HIDE DEF g
<1>7. DOMAIN group' = DOMAIN group /\ \A n \in DOMAIN group : group'[n] = g(n)
  BY <1>5
<1>8. group' \in Seq(Obj)
  <2>1. DOMAIN group = 1 .. Len(group) /\ Len(group) \in Nat
    BY <1>2
  <2>2. \A n \in 1 .. Len(group) : g(n) \in Obj
    BY <1>6, <2>1
  <2>. QED BY <1>5, <2>1, <2>2
<1>9. TypedSketches' /\ TypedResults' /\ TypedPopulation'
  BY <1>1, <1>3, <1>8 DEF IInv, TypedSketches, TypedResults, TypedPopulation, Phases
<1>10. IsFiniteSet({}) /\ Cardinality({}) = 0 /\ input.exploit \in Nat
  BY <1>2, FS_EmptySet, SearchAssumption
<1>11. TypedHeap' /\ Best'
  BY <1>1, <1>10 DEF TypedHeap, Best, Top, Values
<1>12. Rest' /\ Generating' /\ GeneratedOnce'
  BY <1>1, <1>3 DEF IInv, Rest, Generating, GeneratedOnce, Ended
<1>13. Measured' /\ New'
  BY <1>1, <1>4, <1>6, <1>7 DEF IInv, Measured, New
<1>14. AllDone'
  <2>1. \A n \in DOMAIN group' : Done(group'[n])
    BY <1>5, <1>6, <1>7 DEF Done
  <2>2. child = <<>>
    BY <1>1 DEF IInv, Rest
  <2>. QED BY <1>1, <1>4, <2>1, <2>2 DEF AllDone
<1>. QED BY <1>9, <1>11, <1>12, <1>13, <1>14 DEF IInv

\* t has what s has, in the order f.
InOrderOf(s, t, f) ==
  /\ f \in [DOMAIN s -> DOMAIN s]
  /\ \A n \in DOMAIN s : t[n] = s[f[n]]
  /\ \A i, j \in DOMAIN s : i # j => f[i] # f[j]
  /\ \A n \in DOMAIN s : \E m \in DOMAIN s : f[m] = n

LEMMA ByTimeIs ==
  ASSUME NEW R, NEW s \in Seq(R), NEW t \in ByTime(s)
  PROVE  /\ t \in Seq(R) /\ DOMAIN t = DOMAIN s
         /\ \A i, j \in DOMAIN s : i < j => t[i].time <= t[j].time
         /\ \E f : InOrderOf(s, t, f)
<1>1. PICK f \in Bijection(DOMAIN s, DOMAIN s) :
        /\ \A i, j \in DOMAIN s : i < j => s[f[i]].time <= s[f[j]].time
        /\ t = [n \in DOMAIN s |-> s[f[n]]]
  BY DEF ByTime
<1>2. /\ f \in [DOMAIN s -> DOMAIN s]
      /\ \A i, j \in DOMAIN s : i # j => f[i] # f[j]
      /\ \A n \in DOMAIN s : \E m \in DOMAIN s : f[m] = n
  BY DEF Bijection, Injection, Surjection, IsInjective
<1>3. DOMAIN s = 1 .. Len(s) /\ Len(s) \in Nat
  OBVIOUS
<1>4. \A n \in DOMAIN s : s[f[n]] \in R
  BY <1>2
<1>5. t \in [1 .. Len(s) -> R]
  BY <1>1, <1>3, <1>4
<1>6. t \in Seq(R)
  BY <1>3, <1>5
<1>7. DOMAIN t = DOMAIN s /\ \A n \in DOMAIN s : t[n] = s[f[n]]
  BY <1>1
<1>8. \A i, j \in DOMAIN s : i < j => t[i].time <= t[j].time
  BY <1>1, <1>7
<1>9. InOrderOf(s, t, f)
  BY <1>2, <1>7 DEF InOrderOf
<1>. QED BY <1>6, <1>7, <1>8, <1>9

\* What was measured with what is measured now.
Joined(times) ==
  measured \o [n \in DOMAIN group |-> [sk |-> group[n].sk, made |-> group[n].made, time |-> times[n]]]

LEMMA JoinedIs ==
  ASSUME IInv, phase = "measure", NEW times \in [DOMAIN group -> Durations \cup {Forever}]
  PROVE  /\ Joined(times) \in Seq([sk : Sk, made : Made, time : Nat])
         /\ \A n \in DOMAIN Joined(times) : Done(Joined(times)[n])
         /\ \A n, m \in DOMAIN Joined(times) : n # m => Joined(times)[n].sk # Joined(times)[m].sk
         /\ \A n \in DOMAIN Joined(times) : Joined(times)[n].sk \in hashes \cup Values(ToSet(group))
         /\ \A n \in DOMAIN measured : n \in DOMAIN Joined(times) /\ Joined(times)[n] = measured[n]
         /\ \A n \in DOMAIN Joined(times) :
              n \in DOMAIN measured \/ Joined(times)[n].time \in Durations \cup {Forever}
<1>. DEFINE R == [sk : Sk, made : Made, time : Nat]
            g(n) == [sk |-> group[n].sk, made |-> group[n].made, time |-> times[n]]
            s == [n \in DOMAIN group |-> g(n)]
            J == Joined(times)
<1>1. input \in Inputs /\ group \in Seq(Obj) /\ measured \in Seq(R)
  BY DEF IInv, TypedSketches, TypedResults
<1>2. \A d \in Durations \cup {Forever} : d \in Nat
  BY SearchAssumption
<1>3. ASSUME NEW n \in DOMAIN group
      PROVE  g(n) \in R /\ Done(g(n)) /\ g(n).sk = group[n].sk /\ g(n).time \in Durations \cup {Forever}
  <2>1. group[n] \in Obj /\ Done(group[n])
    BY <1>1 DEF IInv, AllDone
  <2>2. group[n].sk \in Sk
    BY <2>1 DEF Obj
  <2>3. Make(group[n].sk) \in Made
    BY <1>1, <2>2, Makes
  <2>4. g(n) \in R
    BY <1>2, <2>1, <2>2, <2>3 DEF Done
  <2>. QED BY <2>1, <2>4 DEF Done
<1>. HIDE DEF g, R
<1>4. s \in Seq(R) /\ DOMAIN s = DOMAIN group /\ \A n \in DOMAIN s : s[n] = g(n)
  <2>1. DOMAIN group = 1 .. Len(group) /\ Len(group) \in Nat
    BY <1>1
  <2>. QED BY <1>3, <2>1
<1>5. J = measured \o s
  BY DEF Joined, g
<1>. HIDE DEF s, J
<1>6. /\ J \in Seq(R)
      /\ \A n \in DOMAIN measured : n \in DOMAIN J /\ J[n] = measured[n]
  BY <1>1, <1>4, <1>5
<1>7. \A n \in DOMAIN J :
        n \in DOMAIN measured \/ (n - Len(measured) \in DOMAIN s /\ J[n] = s[n - Len(measured)])
  BY <1>1, <1>4, <1>5
<1>8. \A n \in DOMAIN J : n \in DOMAIN measured \/ J[n].time \in Durations \cup {Forever}
  BY <1>3, <1>4, <1>7
<1>9. \A n \in DOMAIN measured : Done(measured[n]) /\ measured[n].sk \in hashes
  BY DEF IInv, Measured
<1>10. \A n \in DOMAIN s : Done(s[n]) /\ s[n].sk = group[n].sk /\ s[n].sk \notin hashes
                           /\ s[n].sk \in Values(ToSet(group))
  BY <1>3, <1>4 DEF IInv, New, Values, ToSet
<1>11. \A n \in DOMAIN J : Done(J[n])
  BY <1>6, <1>7, <1>9, <1>10
<1>12. \A n \in DOMAIN J : J[n].sk \in hashes \cup Values(ToSet(group))
  BY <1>6, <1>7, <1>9, <1>10
<1>13. ASSUME NEW n \in DOMAIN J, NEW m \in DOMAIN J, n # m
       PROVE  J[n].sk # J[m].sk
  <2>1. CASE n \in DOMAIN measured /\ m \in DOMAIN measured
    BY <1>6, <1>13, <2>1 DEF IInv, Measured
  <2>2. CASE n \in DOMAIN measured /\ m \notin DOMAIN measured
    BY <1>6, <1>7, <1>9, <1>10, <2>2
  <2>3. CASE n \notin DOMAIN measured /\ m \in DOMAIN measured
    BY <1>6, <1>7, <1>9, <1>10, <2>3
  <2>4. CASE n \notin DOMAIN measured /\ m \notin DOMAIN measured
    <3>1. n \in Nat /\ m \in Nat /\ Len(measured) \in Nat
      BY <1>1, <1>6
    <3>2. n - Len(measured) # m - Len(measured)
      BY <1>13, <3>1
    <3>3. \A a, b \in DOMAIN group : a # b => group[a].sk # group[b].sk
      BY DEF IInv, New
    <3>. QED BY <1>4, <1>7, <1>10, <2>4, <3>2, <3>3
  <2>. QED BY <2>1, <2>2, <2>3, <2>4
<1>. QED BY <1>6, <1>8, <1>11, <1>12, <1>13 DEF R, J

LEMMA MeasureInv == IInv /\ Measure => IInv'
<1>. SUFFICES ASSUME IInv, Measure PROVE IInv'
  OBVIOUS
<1>1. phase = "measure" /\ input' = input /\ queue' = queue /\ bases' = bases
  BY DEF Measure
<1>2. PICK times \in [DOMAIN group -> Durations \cup {Forever}] :
        IF Learns(times)
        THEN /\ measured' \in ByTime(Joined(times))
             /\ hashes' = hashes \cup Values(ToSet(group))
             /\ IF job = "init" THEN StartRandom("explore") /\ group' = <<>> /\ UNCHANGED evolution
                ELSE EndRound
        ELSE EndRound /\ UNCHANGED results
  BY DEF Measure, Joined
<1>3. Sk' = Sk /\ Obj' = Obj /\ \A sk : Make(sk)' = Make(sk)
  BY <1>1 DEF Sk, Obj, Make
<1>4. \A x : Done(x)' <=> Done(x)
  BY <1>3 DEF Done
<1>5. CASE ~Learns(times)
  BY <1>1, <1>2, <1>5, Same0, EndRoundInv
<1>6. CASE Learns(times)
  <2>. DEFINE R == [sk : Sk, made : Made, time : Nat]
              J == Joined(times)
  <2>1. /\ J \in Seq(R) /\ \A n \in DOMAIN J : Done(J[n])
        /\ \A n, m \in DOMAIN J : n # m => J[n].sk # J[m].sk
        /\ \A n \in DOMAIN J : J[n].sk \in hashes \cup Values(ToSet(group))
    BY <1>1, JoinedIs
  <2>2. measured' \in ByTime(J) /\ hashes' = hashes \cup Values(ToSet(group))
    BY <1>2, <1>6
  <2>. HIDE DEF R, J
  <2>3. measured' \in Seq(R) /\ DOMAIN measured' = DOMAIN J
    BY <2>1, <2>2, ByTimeIs
  <2>4. PICK f : InOrderOf(J, measured', f)
    BY <2>1, <2>2, ByTimeIs
  <2>5. Values(ToSet(group)) \subseteq Sk
    <3>1. group \in Seq(Obj)
      BY DEF IInv, TypedSketches
    <3>2. \A n \in DOMAIN group : group[n] \in Obj
      BY <3>1
    <3>. QED BY <3>2 DEF Values, ToSet, Obj
  <2>6. TypedResults'
    BY <1>3, <2>2, <2>3, <2>5 DEF R, IInv, TypedResults
  <2>7. Measured'
    <3>1. \A n \in DOMAIN J : f[n] \in DOMAIN J /\ measured'[n] = J[f[n]]
      BY <2>4 DEF InOrderOf
    <3>2. \A n \in DOMAIN J : Done(measured'[n]) /\ measured'[n].sk \in hashes'
      BY <2>1, <2>2, <3>1
    <3>3. \A n, m \in DOMAIN J : n # m => f[n] # f[m]
      BY <2>4 DEF InOrderOf
    <3>4. ASSUME NEW n \in DOMAIN J, NEW m \in DOMAIN J, n # m
          PROVE  measured'[n].sk # measured'[m].sk
      <4>1. f[n] \in DOMAIN J /\ f[m] \in DOMAIN J /\ f[n] # f[m]
        BY <3>1, <3>3, <3>4
      <4>2. J[f[n]].sk # J[f[m]].sk
        BY <2>1, <4>1
      <4>. QED BY <3>1, <4>2
    <3>. QED BY <1>4, <2>3, <3>2, <3>4 DEF Measured
  <2>8. CASE job # "init"
    BY <1>1, <1>2, <1>6, <2>6, <2>7, <2>8, EndRoundInv DEF IInv
  <2>9. CASE job = "init"
    <3>1. /\ phase' = "random" /\ rand' = <<>> /\ group' = <<>>
          /\ UNCHANGED <<pop, objects, slot, doing, iter, child, heap, pred, seen>>
      BY <1>2, <1>6, <2>9 DEF StartRandom, evolution
    <3>2. TypedSketches'
      <4>1. <<>> \in Seq(Sk) /\ <<>> \in Seq(Obj)
        OBVIOUS
      <4>. QED BY <1>1, <1>3, <3>1, <4>1 DEF IInv, TypedSketches, Phases
    <3>3. TypedPopulation' /\ TypedHeap'
      BY <1>3, <3>1 DEF IInv, TypedPopulation, TypedHeap
    <3>4. Rest' /\ Generating' /\ GeneratedOnce'
      BY <1>1, <1>3, <3>1 DEF IInv, Rest, Generating, GeneratedOnce, Ended
    <3>5. New'
      BY <3>1 DEF New
    <3>6. AllDone'
      BY <1>1, <1>4, <3>1 DEF IInv, AllDone, Rest
    <3>7. Best'
      <4>1. heap = {} /\ seen = {}
        BY <1>1 DEF IInv, Rest
      <4>2. input.exploit \in Nat
        BY SearchAssumption DEF IInv, TypedSketches
      <4>. QED BY <1>1, <3>1, <4>1, <4>2, FS_EmptySet DEF Best, Top, Values
    <3>. QED BY <2>6, <2>7, <3>2, <3>3, <3>4, <3>5, <3>6, <3>7 DEF IInv
  <2>. QED BY <2>8, <2>9
<1>. QED BY <1>5, <1>6

-----------------------------------------------------------------------------
LEMMA SameInv == IInv /\ UNCHANGED vars => IInv'
<1>. SUFFICES ASSUME IInv, UNCHANGED vars PROVE IInv'
  OBVIOUS
<1>1. UNCHANGED <<input, phase, queue, bases, measured, hashes, rand, group, pop, objects, slot, doing,
                  child, heap, pred, seen>>
  BY DEF vars, results, random, evolution
<1>2. Sk' = Sk /\ Obj' = Obj /\ \A sk : Make(sk)' = Make(sk)
  BY <1>1 DEF Sk, Obj, Make
<1>3. TypedResults' /\ TypedSketches' /\ TypedPopulation' /\ TypedHeap'
  BY <1>1, <1>2 DEF IInv, TypedResults, TypedSketches, TypedPopulation, TypedHeap
<1>4. Rest' /\ Generating' /\ GeneratedOnce' /\ Measured' /\ New'
  BY <1>1, <1>2 DEF IInv, Rest, Generating, GeneratedOnce, Measured, New, Done
<1>5. AllDone'
  BY <1>1, <1>2 DEF IInv, AllDone, Done
<1>6. Best'
  BY <1>1 DEF IInv, Best, Top, Values
<1>. QED BY <1>3, <1>4, <1>5, <1>6 DEF IInv

LEMMA NextInv == IInv /\ [Next]_vars => IInv'
<1>. SUFFICES ASSUME IInv, [Next]_vars PROVE IInv'
  OBVIOUS
<1>1. CASE Sequential
  BY <1>1, SearchOneRoundInv, GenSketchInv, SketchesMadeInv, RandomTurnInv, UndefinedInv, StopsInv,
     RandomDoneInv, LookInv, PredictInv, OfferInv, OffersInv, BreedInv, FeaturesInv, MeasureInv
     DEF Sequential
<1>2. ASSUME NEW s \in doing, Thread(s)
      PROVE  IInv'
  BY <1>2, ForkInv, ApplyInv DEF Thread
<1>3. CASE UNCHANGED vars
  BY <1>3, SameInv
<1>. QED BY <1>1, <1>2, <1>3 DEF Next, NoMore

LEMMA Inductive == Spec => []IInv
<1>1. Init => IInv
  BY InitInv
<1>2. IInv /\ [Next]_vars => IInv'
  BY NextInv
<1>. QED BY <1>1, <1>2, PTL DEF Spec

-----------------------------------------------------------------------------
\* No two threads generate the schedule of the same sketch, and none is
\* generated twice: only what has its schedule is in a population twice.
THEOREM GeneratedByOne == Spec => []OneGenerator
<1>1. IInv => OneGenerator
  <2>. SUFFICES ASSUME IInv PROVE OneGenerator
    OBVIOUS
  <2>1. \A s, r \in doing : s # r => pop[s] # pop[r]
    BY DEF IInv, GeneratedOnce, TypedPopulation
  <2>2. ASSUME NEW n \in DOMAIN objects, objects[n].made # NotMade
        PROVE  Len(objects[n].made) <= Len(PartsInOrder(objects[n].sk))
    <3>1. objects[n].sk \in Sk /\ input \in Inputs
      BY PopTyped DEF Obj, IInv, TypedSketches
    <3>2. CASE objects[n].made = Make(objects[n].sk)
      BY <3>1, <3>2, Makes
    <3>3. CASE objects[n].made = <<>>
      <4>1. Len(PartsInOrder(objects[n].sk)) \in Nat
        BY <3>1, Subs0, InOrder DEF Sk
      <4>. QED BY <3>3, <4>1
    <3>. QED BY <2>2, <3>2, <3>3 DEF IInv, GeneratedOnce
  <2>. QED BY <2>1, <2>2 DEF OneGenerator
<1>. QED BY <1>1, Inductive, PTL

\* What is measured had all its parts applied, is measured once, and on a GPU
\* its loops were unrolled where they were bound to threads.
THEOREM WellMeasured == Spec => []MeasuredWell
<1>1. IInv => MeasuredWell
  <2>. SUFFICES ASSUME IInv PROVE MeasuredWell
    OBVIOUS
  <2>1. input \in Inputs /\ Len(input.subs) \in Nat /\ DOMAIN input.subs = 1 .. Len(input.subs)
    BY Subs0 DEF IInv, TypedSketches
  <2>2. \A n \in DOMAIN measured : measured[n].sk \in Sk /\ Done(measured[n])
    <3>. DEFINE R == [sk : Sk, made : Made, time : Nat]
    <3>1. \A n \in DOMAIN measured : measured[n] \in R
      <4>1. measured \in Seq(R)
        BY DEF IInv, TypedResults
      <4>. HIDE DEF R
      <4>. QED BY <4>1
    <3>. QED BY <3>1 DEF IInv, Measured
  <2>3. BestWhole
    BY <2>1, <2>2, Makes DEF BestWhole, Whole, Done
  <2>4. MeasuredOnce
    BY DEF IInv, Measured, New, MeasuredOnce, Values, ToSet
  <2>5. UnrollReaches
    <3>. SUFFICES ASSUME input.plat = GPU, NEW n \in DOMAIN measured, NEW i \in DOMAIN input.subs,
                         Has(measured[n].sk.subs[i], "unroll"),
                         measured[n].sk.subs[i].parts["unroll"] > 0,
                         "bound" \in Effects(measured[n].made, i, "thread_bind")
                  PROVE  Effects(measured[n].made, i, "unroll") = {"unrolled"}
      BY DEF UnrollReaches
    <3>1. measured[n].made = Generated(measured[n].sk, GPU, input.bad) /\ ~Throws(measured[n].made)
      BY <2>2 DEF Done, Make
    <3>2. measured[n].sk \in Sketches(Len(input.subs)) /\ i \in 1 .. Len(input.subs)
      BY <2>1, <2>2 DEF Sk
    <3>. QED BY <2>1, <3>1, <3>2, Unrolls
  <2>. QED BY <2>3, <2>4, <2>5 DEF MeasuredWell
<1>. QED BY <1>1, Inductive, PTL

\* The heap of an evolution has the best of what was offered to it, whatever
\* order those that are predicted alike are in.
THEOREM KeepsTop == Spec => []TopKept
<1>1. IInv => TopKept
  BY DEF IInv, Best, Top, TopKept
<1>. QED BY <1>1, Inductive, PTL

\* The best time that was measured never gets worse.
THEOREM NeverWorse == Spec => BestStays
<1>1. IInv /\ [Next]_vars => BestTime' <= BestTime
  <2>. SUFFICES ASSUME IInv, [Next]_vars PROVE BestTime' <= BestTime
    OBVIOUS
  <2>. DEFINE R == [sk : Sk, made : Made, time : Nat]
  <2>1. measured \in Seq(R)
    BY DEF IInv, TypedResults
  <2>2. BestTime \in Nat
    <3>1. CASE measured = <<>>
      BY <3>1, SearchAssumption DEF BestTime
    <3>2. CASE measured # <<>>
      <4>1. measured[1] \in R
        <5>. HIDE DEF R
        <5>. QED BY <2>1, <3>2
      <4>. QED BY <3>2, <4>1 DEF BestTime
    <3>. QED BY <3>1, <3>2
  <2>3. CASE measured' = measured
    BY <2>2, <2>3 DEF BestTime
  <2>4. CASE RandomDone
    <3>1. measured' = Kept \/ measured' = measured
      BY <2>4 DEF RandomDone
    <3>. QED BY <2>2, <2>3, <3>1, KeptIs DEF BestTime
  <2>5. ASSUME Measure, measured' # measured
        PROVE  BestTime' <= BestTime
    <3>1. phase = "measure"
      BY <2>5 DEF Measure
    <3>2. PICK times \in [DOMAIN group -> Durations \cup {Forever}] : measured' \in ByTime(Joined(times))
      BY <2>5 DEF Measure, Joined, results
    <3>. DEFINE J == Joined(times)
    <3>3. /\ J \in Seq(R)
          /\ \A n \in DOMAIN measured : n \in DOMAIN J /\ J[n] = measured[n]
          /\ \A n \in DOMAIN J : n \in DOMAIN measured \/ J[n].time \in Durations \cup {Forever}
      BY <3>1, JoinedIs
    <3>. HIDE DEF J
    <3>4. /\ measured' \in Seq(R) /\ DOMAIN measured' = DOMAIN J
          /\ \A i, j \in DOMAIN J : i < j => measured'[i].time <= measured'[j].time
      <4>. HIDE DEF R
      <4>. QED BY <3>2, <3>3, ByTimeIs DEF J
    <3>5. PICK f : InOrderOf(J, measured', f)
      <4>. HIDE DEF R
      <4>. QED BY <3>2, <3>3, ByTimeIs DEF J
    <3>6. CASE measured = <<>>
      <4>1. CASE measured' = <<>>
        BY <2>2, <3>6, <4>1 DEF BestTime
      <4>2. CASE measured' # <<>>
        <5>1. 1 \in DOMAIN measured'
          BY <3>4, <4>2
        <5>2. f[1] \in DOMAIN J /\ measured'[1] = J[f[1]]
          BY <3>4, <3>5, <5>1 DEF InOrderOf
        <5>3. measured'[1].time \in Durations \cup {Forever}
          BY <3>3, <3>6, <5>2
        <5>4. measured'[1].time <= Forever
          <6>1. Durations \subseteq Nat /\ Forever \in Nat /\ \A d \in Durations : d < Forever
            BY SearchAssumption
          <6>. QED BY <5>3, <6>1
        <5>. QED BY <3>6, <4>2, <5>4 DEF BestTime
      <4>. QED BY <4>1, <4>2
    <3>7. CASE measured # <<>>
      <4>1. 1 \in DOMAIN measured /\ 1 \in DOMAIN J /\ J[1] = measured[1]
        BY <2>1, <3>3, <3>7
      <4>2. PICK m \in DOMAIN J : f[m] = 1
        BY <3>5, <4>1 DEF InOrderOf
      <4>3. measured'[m] = measured[1]
        BY <3>5, <4>1, <4>2 DEF InOrderOf
      <4>4. measured' # <<>> /\ 1 \in DOMAIN measured'
        BY <3>4, <4>1
      <4>5. measured'[1].time <= measured'[m].time
        <5>1. m = 1 \/ 1 < m
          BY <3>3, <4>2
        <5>2. measured'[m].time \in Nat
          BY <2>2, <3>7, <4>3 DEF BestTime
        <5>. QED BY <3>4, <4>1, <4>2, <5>1, <5>2
      <4>. QED BY <3>7, <4>3, <4>4, <4>5 DEF BestTime
    <3>. QED BY <3>6, <3>7
  <2>6. CASE ~RandomDone /\ ~Measure
    <3>1. measured' = measured
      BY <2>6 DEF Next, Sequential, Thread, NoMore, SearchOneRound, GenSketch, SketchesMade, RandomTurn,
         NothingToDraw, TooFew, Look, Fork, Apply, NoFeature, Predict, Offer, NoHeap, Offers, Breed,
         BreedNothing, Features, NoFeatures, vars, results
    <3>. QED BY <2>3, <3>1
  <2>. QED BY <2>3, <2>4, <2>5, <2>6
<1>. QED BY <1>1, Inductive, PTL DEF Spec, BestStays
=============================================================================

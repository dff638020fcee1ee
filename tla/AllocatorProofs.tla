--------------------------- MODULE AllocatorProofs ---------------------------
(***************************************************************************)
(* Proofs about module Allocator, for any number of threads, of blocks and *)
(* of items in a block, as long as calls that touch the same block do not  *)
(* overlap (Overlap = FALSE): nothing is given out twice or lost, and no   *)
(* thread takes a new block while it has a free item.                      *)
(***************************************************************************)
EXTENDS Allocator, WellFoundedInduction, SequenceTheorems, FiniteSetTheorems, TLAPS

\* Every set of numbers that is not empty has a least one, so that a set which has 0,
\* and n + 1 where it has n, has all of them.
LEMMA LeastNat ==
  ASSUME NEW S \in SUBSET Nat, S # {}
  PROVE  \E n \in S : \A m \in S : n <= m
<1>. DEFINE R == {p \in Nat \X Nat : p[1] < p[2]}
<1>1. IsWellFoundedOn(R, Nat)
  BY NatLessThanWellFounded DEF OpToRel
<1>2. PICK n \in S : \A m \in S : <<m, n>> \notin R
  <2>. HIDE DEF R
  <2>. QED BY <1>1, WFMin
<1>3. \A m \in S : ~(m < n)
  BY <1>2
<1>. QED BY <1>3

LEMMA InductNat ==
  ASSUME NEW S, 0 \in S, \A n \in Nat : n \in S => n + 1 \in S
  PROVE  Nat \subseteq S
<1>. SUFFICES ASSUME Nat \ S # {}
              PROVE  FALSE
  OBVIOUS
<1>1. PICK n \in Nat \ S : \A m \in Nat \ S : n <= m
  BY LeastNat
<1>2. n # 0 /\ n - 1 \in Nat
  OBVIOUS
<1>3. n - 1 \in S
  BY <1>1, <1>2
<1>. QED BY <1>2, <1>3

\* The powers of a function: what f makes of x, from 0 to k times.
Steps(f, x, k, g) == g = [i \in 0 .. k |-> IF i = 0 THEN x ELSE f[g[i - 1]]]

LEMMA StepsExist ==
  ASSUME NEW f, NEW x, NEW k \in Nat
  PROVE  \E g : Steps(f, x, k, g)
<1>. DEFINE S == {n \in Nat : \E g : Steps(f, x, n, g)}
<1>1. 0 \in S
  <2>1. Steps(f, x, 0, [i \in 0 .. 0 |-> x])
    BY DEF Steps
  <2>. QED BY <2>1
<1>2. ASSUME NEW n \in Nat, n \in S
      PROVE  n + 1 \in S
  <2>1. PICK g : Steps(f, x, n, g)
    BY <1>2
  <2>. DEFINE h == [i \in 0 .. n + 1 |-> IF i = n + 1 THEN f[g[n]] ELSE g[i]]
  <2>2. \A i \in 0 .. n : h[i] = g[i] /\ g[i] = IF i = 0 THEN x ELSE f[g[i - 1]]
    <3>1. \A i \in 0 .. n : g[i] = IF i = 0 THEN x ELSE f[g[i - 1]]
      BY <2>1, Zenon DEF Steps
    <3>2. \A i \in 0 .. n : h[i] = g[i]
      OBVIOUS
    <3>. QED BY <3>1, <3>2
  <2>3. \A i \in 0 .. n + 1 : h[i] = IF i = 0 THEN x ELSE f[h[i - 1]]
    <3>. TAKE i \in 0 .. n + 1
    <3>1. CASE i = n + 1
      <4>1. h[n + 1] = f[g[n]] /\ h[n] = g[n]
        BY <2>2
      <4>. QED BY <3>1, <4>1
    <3>2. CASE i \in 0 .. n
      <4>1. i # 0 => i - 1 \in 0 .. n
        BY <3>2
      <4>. HIDE DEF h
      <4>. QED BY <2>2, <3>2, <4>1
    <3>. QED BY <3>1, <3>2
  <2>4. Steps(f, x, n + 1, h)
    BY <2>3 DEF Steps
  <2>. QED BY <2>4
<1>. HIDE DEF S
<1>3. Nat \subseteq S
  BY <1>1, <1>2, InductNat
<1>. QED BY <1>3 DEF S

\* All items of F are found on the list f: what has 0 and all that the links
\* of its items lead to has them.
Found(f, F) ==
  \A S \in SUBSET Nodes : 0 \in S /\ (\A i \in S : i \in F \cup {0} => f[i] \in S) => F \subseteq S

\* A list f of the items F: its links stay inside, no two are the same, and
\* they lead to all.
Listed(f, F) ==
  /\ \A i \in F \cup {0} : f[i] \in F \cup {0}
  /\ \A i, j \in F \cup {0} : f[i] = f[j] /\ f[i] # 0 => i = j
  /\ Found(f, F)

Lists == \A b \in DOMAIN link : Listed(link[b], Free(b))

Owned == \A t, u \in Threads : t # u => Blks(t) \cap Blks(u) = {}

Exclusive == \A t, u \in Threads : t # u => InUse(t) \cap InUse(u) = {}

InStep ==
  \A t \in Threads :
    /\ at[t] = "take" => link[Cur(t)][0] # 0
    /\ at[t] = "unlink" => item[t][1] = Cur(t) /\ link[item[t][1]][0] = item[t][2]
    /\ at[t] \in {"link", "push"} => item[t] \notin live
    /\ at[t] = "push" => link[item[t][1]][item[t][2]] = link[item[t][1]][0]

\* The blocks that a search has still to look at, as indices of blocks_: those
\* from curBlk on, around the end, as many as there are tries left.
Ahead(t) ==
  {j \in 0 .. Len(blocks[t]) - 1 :
    \/ j >= curBlk[t] /\ j < curBlk[t] + Len(blocks[t]) - tried[t]
    \/ j < curBlk[t] /\ j < curBlk[t] - tried[t]}

Searched ==
  \A t \in Threads : at[t] = "scan" =>
    /\ tried[t] <= Len(blocks[t])
    /\ \A j \in 0 .. Len(blocks[t]) - 1 : j \notin Ahead(t) => Full(blocks[t][j + 1])

IInv == TypeOK /\ Lists /\ Owned /\ Exclusive /\ InStep /\ Searched

-----------------------------------------------------------------------------
Lk == [Nodes -> Nodes]

\* The list of a new block has all its items.
LEMMA NewListed ==
  NewBlk \in Lk /\ NewBlk[0] # 0 /\ Listed(NewBlk, Items)
<1>1. Found(NewBlk, Items)
  <2>. SUFFICES ASSUME NEW S \in SUBSET Nodes, 0 \in S,
                       \A i \in S : i \in Items \cup {0} => NewBlk[i] \in S
                PROVE  Items \subseteq S
    BY DEF Found
  <2>1. ASSUME NEW n \in Nat, n \in S \cup (Nat \ Nodes)
        PROVE  n + 1 \in S \cup (Nat \ Nodes)
    <3>1. CASE n + 1 \in Nodes
      <4>1. n \in Nodes /\ n # PerBlock - 1 /\ n \in Items \cup {0}
        BY <3>1, AllocatorAssumption DEF Nodes, Items
      <4>2. NewBlk[n] = n + 1
        BY <4>1 DEF NewBlk
      <4>3. n \in S
        BY <2>1, <4>1
      <4>. QED BY <4>1, <4>2, <4>3
    <3>. QED BY <3>1
  <2>2. Nat \subseteq S \cup (Nat \ Nodes)
    BY <2>1, InductNat
  <2>. QED BY <2>2 DEF Nodes, Items
<1>2. NewBlk \in Lk /\ NewBlk[0] # 0
  BY AllocatorAssumption DEF NewBlk, Lk, Nodes
<1>. QED BY <1>1, <1>2, AllocatorAssumption DEF NewBlk, Listed, Nodes, Items

\* What SmallItemBlock::allocate leaves.
LEMMA PopListed ==
  ASSUME NEW f \in Lk, NEW F \in SUBSET Items, Listed(f, F), f[0] # 0
  PROVE  /\ f[0] \in F
         /\ [f EXCEPT ![0] = f[f[0]]] \in Lk
         /\ Listed([f EXCEPT ![0] = f[f[0]]], F \ {f[0]})
<1>. DEFINE h == f[0]  g == [f EXCEPT ![0] = f[h]]
<1>1. h \in F /\ 0 \in Nodes /\ 0 \notin F /\ h \in Nodes /\ F \subseteq Nodes
  BY AllocatorAssumption DEF Listed, Nodes, Items, Lk
<1>2. f[h] \in F \cup {0} /\ f[h] # h /\ f[h] \in Nodes
  BY <1>1 DEF Listed, Lk
<1>3. g \in Lk /\ g[0] = f[h] /\ \A i \in F : g[i] = f[i]
  BY <1>1, <1>2 DEF Lk
<1>4. \A i \in F : f[i] # h
  BY <1>1 DEF Listed
<1>. HIDE DEF h, g
<1>5. \A i \in (F \ {h}) \cup {0} : g[i] \in (F \ {h}) \cup {0}
  BY <1>1, <1>2, <1>3, <1>4 DEF Listed
<1>6. \A i, j \in (F \ {h}) \cup {0} : g[i] = g[j] /\ g[i] # 0 => i = j
  BY <1>1, <1>2, <1>3, <1>4 DEF Listed
<1>7. Found(g, F \ {h})
  <2>. SUFFICES ASSUME NEW S \in SUBSET Nodes, 0 \in S,
                       \A i \in S : i \in (F \ {h}) \cup {0} => g[i] \in S
                PROVE  F \ {h} \subseteq S
    BY DEF Found
  <2>. DEFINE T == S \cup {h}
  <2>1. f[0] = h
    BY DEF h
  <2>2. T \in SUBSET Nodes /\ 0 \in T /\ \A i \in T : i \in F \cup {0} => f[i] \in T
    BY <1>1, <1>3, <2>1
  <2>. HIDE DEF T
  <2>3. F \subseteq T
    BY <2>2 DEF Listed, Found
  <2>. QED BY <2>3 DEF T
<1>8. Listed(g, F \ {h})
  BY <1>5, <1>6, <1>7 DEF Listed
<1>. QED
  BY <1>1, <1>3, <1>8 DEF h, g

\* What SmallItemBlock::deallocate leaves, once the item is linked.
LEMMA PushListed ==
  ASSUME NEW f \in Lk, NEW F \in SUBSET Items, Listed(f, F),
         NEW p \in Items, p \notin F, f[p] = f[0]
  PROVE  /\ [f EXCEPT ![0] = p] \in Lk
         /\ Listed([f EXCEPT ![0] = p], F \cup {p})
<1>. DEFINE g == [f EXCEPT ![0] = p]
<1>1. 0 \in Nodes /\ p \in Nodes /\ p # 0 /\ 0 \notin F /\ F \subseteq Nodes
  BY AllocatorAssumption DEF Nodes, Items
<1>2. g \in Lk /\ g[0] = p /\ g[p] = f[0] /\ \A i \in F : g[i] = f[i]
  BY <1>1 DEF Lk
<1>. HIDE DEF g
<1>3. \A i \in F \cup {p} \cup {0} : g[i] \in F \cup {p} \cup {0}
  BY <1>1, <1>2 DEF Listed
<1>4. \A i, j \in F \cup {p} \cup {0} : g[i] = g[j] /\ g[i] # 0 => i = j
  BY <1>1, <1>2 DEF Listed
<1>5. Found(g, F \cup {p})
  <2>. SUFFICES ASSUME NEW S \in SUBSET Nodes, 0 \in S,
                       \A i \in S : i \in F \cup {p} \cup {0} => g[i] \in S
                PROVE  F \cup {p} \subseteq S
    BY DEF Found
  <2>1. p \in S
    BY <1>2
  <2>2. \A i \in S : i \in F \cup {0} => f[i] \in S
    BY <1>2, <2>1
  <2>3. F \subseteq S
    BY <2>2 DEF Listed, Found
  <2>. QED BY <2>1, <2>3
<1>6. Listed(g, F \cup {p})
  BY <1>3, <1>4, <1>5 DEF Listed
<1>. QED
  BY <1>2, <1>6 DEF g

\* An item that is not on the list can be written.
LEMMA WriteListed ==
  ASSUME NEW f \in Lk, NEW F \in SUBSET Items, Listed(f, F),
         NEW p \in Items, p \notin F, NEW x \in Nodes
  PROVE  [f EXCEPT ![p] = x] \in Lk /\ Listed([f EXCEPT ![p] = x], F)
<1>1. p \in Nodes /\ p # 0 /\ 0 \notin F /\ F \subseteq Nodes
  BY AllocatorAssumption DEF Nodes, Items
<1>2. \A i \in F \cup {0} : [f EXCEPT ![p] = x][i] = f[i]
  BY <1>1, AllocatorAssumption DEF Lk, Nodes
<1>3. Found([f EXCEPT ![p] = x], F)
  BY <1>2 DEF Listed, Found
<1>. QED
  BY <1>1, <1>2, <1>3 DEF Listed, Lk

-----------------------------------------------------------------------------
\* The typed parts of the state.
LEMMA Typed ==
  ASSUME IInv
  PROVE  /\ link \in Seq(Lk) /\ DOMAIN link = 1 .. Len(link) /\ Len(link) \in Nat
         /\ \A b \in DOMAIN link : link[b] \in Lk
         /\ \A t \in Threads : Cur(t) \in DOMAIN link /\ Cur(t) \in Blks(t)
         /\ \A t \in Threads : Blks(t) \subseteq DOMAIN link
         /\ \A t \in Threads : item[t][1] \in DOMAIN link /\ item[t][2] \in Items
                               /\ item[t] = <<item[t][1], item[t][2]>>
         /\ \A b : Free(b) \in SUBSET Items
<1>1. link \in Seq(Lk) /\ DOMAIN link = 1 .. Len(link) /\ Len(link) \in Nat
  BY DEF IInv, TypeOK, Lk
<1>2. \A b \in DOMAIN link : link[b] \in Lk
  BY <1>1
<1>3. \A t \in Threads : curBlk[t] + 1 \in 1 .. Len(blocks[t]) /\ blocks[t] \in Seq(DOMAIN link)
  BY DEF IInv, TypeOK
<1>4. \A t \in Threads : Cur(t) \in DOMAIN link /\ Cur(t) \in Blks(t)
  BY <1>3 DEF Cur, Blks
<1>5. \A t \in Threads : Blks(t) \subseteq DOMAIN link
  BY <1>3 DEF Blks
<1>6. \A t \in Threads : item[t][1] \in DOMAIN link /\ item[t][2] \in Items
                         /\ item[t] = <<item[t][1], item[t][2]>>
  BY DEF IInv, TypeOK
<1>. QED
  BY <1>1, <1>2, <1>4, <1>5, <1>6 DEF Free

\* Blocks of which nothing is allocated or freed keep their free items.
LEMMA SameFree ==
  ASSUME NEW b, \A i \in Items : <<b, i>> \in live' <=> <<b, i>> \in live,
         \A i \in Items : (\E t \in Threads : at'[t] \in {"link", "push"} /\ item'[t] = <<b, i>>)
                      <=> (\E t \in Threads : at[t] \in {"link", "push"} /\ item[t] = <<b, i>>)
  PROVE  Free(b)' = Free(b)
BY DEF Free, Freeing

\* What the other threads see of a step of t that leaves their allocators and
\* their calls alone, if no block of a call in progress but its own changes.
LEMMA OthersKeep ==
  ASSUME IInv, NEW t \in Threads, NEW u \in Threads \ {t},
         blocks'[u] = blocks[u], curBlk'[u] = curBlk[u], at'[u] = at[u],
         tried'[u] = tried[u], item'[u] = item[u],
         DOMAIN link \subseteq DOMAIN link',
         \A b \in InUse(u) : link'[b] = link[b]
  PROVE  /\ InUse(u)' = InUse(u) /\ Blks(u)' = Blks(u) /\ Cur(u)' = Cur(u)
         /\ at'[u] = "take" => link'[Cur(u)'][0] # 0
         /\ at'[u] = "unlink" => item'[u][1] = Cur(u)' /\ link'[item'[u][1]][0] = item'[u][2]
         /\ at'[u] = "push" => link'[item'[u][1]][item'[u][2]] = link'[item'[u][1]][0]
         /\ at'[u] = "scan" =>
              /\ tried'[u] <= Len(blocks'[u])
              /\ \A j \in 0 .. Len(blocks'[u]) - 1 :
                   j \notin Ahead(u)' => Full(blocks[u][j + 1])'
<1>1. Blks(u)' = Blks(u) /\ Cur(u)' = Cur(u) /\ Ahead(u)' = Ahead(u)
  BY DEF Blks, Cur, Ahead
<1>2. InUse(u)' = InUse(u)
  BY <1>1, Typed DEF InUse
<1>3. at[u] \in {"scan", "take", "unlink"} => Blks(u) \subseteq InUse(u)
  BY Typed DEF InUse
<1>4. at[u] \in {"link", "push"} => item[u][1] \in InUse(u)
  BY Typed DEF InUse
<1>5. Cur(u) \in Blks(u)
  BY Typed
<1>6. at'[u] = "take" => link'[Cur(u)'][0] # 0
  BY <1>1, <1>3, <1>5, Zenon DEF IInv, InStep
<1>7. ASSUME at'[u] = "unlink"
      PROVE  item'[u][1] = Cur(u)' /\ link'[item'[u][1]][0] = item'[u][2]
  <2>1. item[u][1] = Cur(u) /\ link[item[u][1]][0] = item[u][2]
    BY <1>7 DEF IInv, InStep
  <2>2. link'[item[u][1]] = link[item[u][1]]
    BY <1>3, <1>5, <1>7, <2>1
  <2>. QED BY <1>1, <2>1, <2>2
<1>8. ASSUME at'[u] = "push"
      PROVE  link'[item'[u][1]][item'[u][2]] = link'[item'[u][1]][0]
  <2>1. link[item[u][1]][item[u][2]] = link[item[u][1]][0]
    BY <1>8 DEF IInv, InStep
  <2>2. link'[item[u][1]] = link[item[u][1]]
    BY <1>4, <1>8
  <2>. QED BY <2>1, <2>2
<1>9. ASSUME at'[u] = "scan"
      PROVE  /\ tried'[u] <= Len(blocks'[u])
             /\ \A j \in 0 .. Len(blocks'[u]) - 1 :
                  j \notin Ahead(u)' => Full(blocks[u][j + 1])'
  <2>1. tried[u] <= Len(blocks[u])
    BY <1>9 DEF IInv, Searched
  <2>2. ASSUME NEW j \in 0 .. Len(blocks[u]) - 1, j \notin Ahead(u)
        PROVE  Full(blocks[u][j + 1])'
    <3>1. Full(blocks[u][j + 1])
      BY <1>9, <2>2 DEF IInv, Searched
    <3>2. blocks[u][j + 1] \in InUse(u)
      <4>1. blocks[u][j + 1] \in Blks(u)
        BY <2>2 DEF Blks, IInv, TypeOK
      <4>. QED BY <4>1, <1>3, <1>9
    <3>3. link'[blocks[u][j + 1]] = link[blocks[u][j + 1]]
      BY <3>2
    <3>4. blocks'[u][j + 1] = blocks[u][j + 1]
      OBVIOUS
    <3>. QED BY <3>1, <3>3, <3>4 DEF Full
  <2>. QED BY <1>1, <2>1, <2>2
<1>. QED
  BY <1>1, <1>2, <1>6, <1>7, <1>8, <1>9

\* A step of t that only moves t: no list and no block changes.
LEMMA QuietStep ==
  ASSUME IInv, NEW t \in Threads, UNCHANGED <<link, blocks, live>>,
         \A u \in Threads \ {t} :
           /\ curBlk'[u] = curBlk[u] /\ at'[u] = at[u]
           /\ tried'[u] = tried[u] /\ item'[u] = item[u],
         at[t] \in {"idle", "scan", "take"}, at'[t] \in {"scan", "take", "unlink"},
         TypeOK',
         \A u \in Threads \ {t} : InUse(t)' \cap InUse(u) = {},
         at'[t] = "take" => link[Cur(t)'][0] # 0,
         at'[t] = "unlink" => item'[t][1] = Cur(t)' /\ link[item'[t][1]][0] = item'[t][2],
         at'[t] = "scan" =>
           /\ tried'[t] <= Len(blocks[t])
           /\ \A j \in 0 .. Len(blocks[t]) - 1 : j \notin Ahead(t)' => Full(blocks[t][j + 1])
  PROVE  IInv'
<1>1. \A u \in Threads \ {t} :
         /\ InUse(u)' = InUse(u)
         /\ at'[u] = "take" => link'[Cur(u)'][0] # 0
         /\ at'[u] = "unlink" => item'[u][1] = Cur(u)' /\ link'[item'[u][1]][0] = item'[u][2]
         /\ at'[u] = "push" => link'[item'[u][1]][item'[u][2]] = link'[item'[u][1]][0]
         /\ at'[u] = "scan" =>
              /\ tried'[u] <= Len(blocks'[u])
              /\ \A j \in 0 .. Len(blocks'[u]) - 1 :
                   j \notin Ahead(u)' => Full(blocks[u][j + 1])'
  BY OthersKeep
<1>2. \A b : Free(b)' = Free(b)
  <2>. TAKE b
  <2>1. \A i \in Items : (\E u \in Threads : at'[u] \in {"link", "push"} /\ item'[u] = <<b, i>>)
                    <=> (\E u \in Threads : at[u] \in {"link", "push"} /\ item[u] = <<b, i>>)
    OBVIOUS
  <2>. QED BY <2>1, SameFree
<1>3. Lists'
  <2>. SUFFICES ASSUME NEW b \in DOMAIN link
                PROVE  Listed(link[b], Free(b)')
    BY DEF Lists
  <2>. QED BY <1>2 DEF IInv, Lists
<1>4. Owned'
  <2>1. \A u \in Threads : Blks(u)' = Blks(u)
    BY DEF Blks
  <2>. QED BY <2>1 DEF IInv, Owned
<1>5. Exclusive'
  <2>1. \A u, v \in Threads \ {t} : u # v => InUse(u)' \cap InUse(v)' = {}
    BY <1>1 DEF IInv, Exclusive
  <2>2. \A u \in Threads \ {t} : InUse(t)' \cap InUse(u)' = {}
    BY <1>1
  <2>. QED BY <2>1, <2>2 DEF Exclusive
<1>6. InStep'
  <2>. SUFFICES ASSUME NEW u \in Threads
                PROVE  (/\ at[u] = "take" => link[Cur(u)][0] # 0
                        /\ at[u] = "unlink" => item[u][1] = Cur(u) /\ link[item[u][1]][0] = item[u][2]
                        /\ at[u] \in {"link", "push"} => item[u] \notin live
                        /\ at[u] = "push" => link[item[u][1]][item[u][2]] = link[item[u][1]][0])'
    BY DEF InStep
  <2>1. CASE u = t
    BY <2>1
  <2>2. CASE u # t
    BY <1>1, <2>2 DEF IInv, InStep
  <2>. QED BY <2>1, <2>2
<1>7. Searched'
  <2>. SUFFICES ASSUME NEW u \in Threads, at'[u] = "scan"
                PROVE  /\ tried'[u] <= Len(blocks'[u])
                       /\ \A j \in 0 .. Len(blocks'[u]) - 1 :
                            j \notin Ahead(u)' => Full(blocks[u][j + 1])'
    BY DEF Searched
  <2>1. CASE u = t
    BY <2>1 DEF Full
  <2>2. CASE u # t
    BY <1>1, <2>2
  <2>. QED BY <2>1, <2>2
<1>. QED
  BY <1>3, <1>4, <1>5, <1>6, <1>7 DEF IInv

LEMMA BeginAllocateKeeps ==
  ASSUME Overlap = FALSE, IInv, NEW t \in Threads, BeginAllocate(t)
  PROVE  IInv'
<1>1. /\ at[t] = "idle" /\ at' = [at EXCEPT ![t] = "scan"]
      /\ tried' = [tried EXCEPT ![t] = 0]
      /\ UNCHANGED <<link, blocks, curBlk, item, live>>
  BY DEF BeginAllocate
<1>2. at'[t] = "scan" /\ tried'[t] = 0
      /\ \A u \in Threads \ {t} : at'[u] = at[u] /\ tried'[u] = tried[u]
  BY <1>1 DEF IInv, TypeOK
<1>3. TypeOK'
  BY <1>1 DEF IInv, TypeOK
<1>4. InUse(t)' \subseteq Blks(t)
  BY <1>1, <1>2 DEF InUse, Blks
<1>5. \A u \in Threads \ {t} : InUse(u) \cap Blks(t) = {}
  BY DEF BeginAllocate, Apart
<1>6. curBlk[t] \in Nat /\ Len(blocks[t]) \in Nat /\ curBlk[t] < Len(blocks[t])
  BY DEF IInv, TypeOK
<1>7. \A j \in 0 .. Len(blocks[t]) - 1 : j \in Ahead(t)'
  BY <1>1, <1>2, <1>6 DEF Ahead
<1>8. \A u \in Threads \ {t} : InUse(t)' \cap InUse(u) = {}
  BY <1>4, <1>5
<1>9. 0 <= Len(blocks[t])
  BY <1>6
<1>. QED
  BY <1>1, <1>2, <1>3, <1>7, <1>8, <1>9, QuietStep

\* curBlk wraps around the end.
LEMMA NextBlkIs ==
  ASSUME NEW c \in Nat, NEW n \in Nat, c < n
  PROVE  (c + 1) % n = IF c + 1 = n THEN 0 ELSE c + 1
<1>1. CASE c + 1 = n
  <2>1. n % n = 0
    BY c \in Nat, n \in Nat, c < n
  <2>. QED BY <1>1, <2>1
<1>2. CASE c + 1 # n
  <2>1. c + 1 < n
    BY <1>2
  <2>. QED BY <1>2, <2>1
<1>. QED BY <1>1, <1>2

\* What is ahead of curBlk c with k tries made is ahead of the next one, d,
\* with one more, but for c itself.
LEMMA StepsAhead ==
  ASSUME NEW n \in Nat, NEW c \in Nat, NEW d, NEW k \in Nat, NEW j \in 0 .. n - 1,
         c < n, k < n, d = IF c + 1 = n THEN 0 ELSE c + 1, j # c,
         (j >= c /\ j < c + n - k) \/ (j < c /\ j < c - k)
  PROVE  (j >= d /\ j < d + n - (k + 1)) \/ (j < d /\ j < d - (k + 1))
<1>1. CASE c + 1 = n
  BY <1>1
<1>2. CASE c + 1 # n
  BY <1>2
<1>. QED BY <1>1, <1>2

LEMMA TryBlockKeeps ==
  ASSUME IInv, NEW t \in Threads, TryBlock(t)
  PROVE  IInv'
<1>. DEFINE n == Len(blocks[t])
<1>1. at[t] = "scan" /\ tried[t] < n /\ UNCHANGED <<link, blocks, item, live>>
  BY DEF TryBlock
<1>2. /\ curBlk[t] \in Nat /\ n \in Nat /\ curBlk[t] < n /\ tried[t] \in Nat
      /\ blocks[t] \in Seq(DOMAIN link)
  BY DEF IInv, TypeOK
<1>3. ASSUME at'[t] \in {"scan", "take"}, \A u \in Threads \ {t} : at'[u] = at[u]
      PROVE  \A u \in Threads \ {t} : InUse(t)' \cap InUse(u) = {}
  <2>1. InUse(t)' \subseteq InUse(t)
    BY <1>1, <1>3 DEF InUse, Blks
  <2>. QED BY <2>1 DEF IInv, Exclusive
<1>4. CASE Full(Cur(t))
  <2>1. /\ curBlk' = [curBlk EXCEPT ![t] = NextBlk(t)]
        /\ tried' = [tried EXCEPT ![t] = @ + 1] /\ at' = at
    BY <1>4 DEF TryBlock
  <2>2. NextBlk(t) = IF curBlk[t] + 1 = n THEN 0 ELSE curBlk[t] + 1
    BY <1>2, NextBlkIs DEF NextBlk
  <2>3. /\ curBlk'[t] = NextBlk(t) /\ tried'[t] = tried[t] + 1
        /\ \A u \in Threads \ {t} : curBlk'[u] = curBlk[u] /\ tried'[u] = tried[u]
    BY <2>1 DEF IInv, TypeOK
  <2>. HIDE DEF n
  <2>4. NextBlk(t) \in Nat /\ NextBlk(t) < n
    BY <1>2, <2>2
  <2>5. TypeOK'
    BY <1>1, <2>1, <2>3, <2>4 DEF n, IInv, TypeOK
  <2>6. \A j \in 0 .. n - 1 : j \notin Ahead(t)' => j \notin Ahead(t) \/ j = curBlk[t]
    <3>1. Ahead(t) = {j \in 0 .. n - 1 :
                        \/ j >= curBlk[t] /\ j < curBlk[t] + n - tried[t]
                        \/ j < curBlk[t] /\ j < curBlk[t] - tried[t]}
      BY DEF Ahead, n
    <3>2. Ahead(t)' = {j \in 0 .. n - 1 :
                        \/ j >= NextBlk(t) /\ j < NextBlk(t) + n - (tried[t] + 1)
                        \/ j < NextBlk(t) /\ j < NextBlk(t) - (tried[t] + 1)}
      BY <1>1, <2>3 DEF Ahead, n
    <3>. SUFFICES ASSUME NEW j \in 0 .. n - 1, j \in Ahead(t), j # curBlk[t]
                  PROVE  j \in Ahead(t)'
      OBVIOUS
    <3>3. \/ j >= curBlk[t] /\ j < curBlk[t] + n - tried[t]
          \/ j < curBlk[t] /\ j < curBlk[t] - tried[t]
      BY <3>1
    <3>4. \/ j >= NextBlk(t) /\ j < NextBlk(t) + n - (tried[t] + 1)
          \/ j < NextBlk(t) /\ j < NextBlk(t) - (tried[t] + 1)
      <4>. DEFINE c == curBlk[t]  d == NextBlk(t)  k == tried[t]
      <4>1. c \in Nat /\ n \in Nat /\ c < n /\ k \in Nat /\ k < n
        BY <1>1, <1>2
      <4>2. d = IF c + 1 = n THEN 0 ELSE c + 1
        BY <2>2
      <4>3. (j >= c /\ j < c + n - k) \/ (j < c /\ j < c - k)
        BY <3>3
      <4>4. j # c
        OBVIOUS
      <4>. HIDE DEF c, d, k
      <4>5. (j >= d /\ j < d + n - (k + 1)) \/ (j < d /\ j < d - (k + 1))
        BY <4>1, <4>2, <4>3, <4>4, StepsAhead
      <4>. QED BY <4>5 DEF c, d, k
    <3>. QED BY <3>2, <3>4
  <2>7. \A j \in 0 .. n - 1 : j \notin Ahead(t)' => Full(blocks[t][j + 1])
    <3>1. Full(blocks[t][curBlk[t] + 1])
      BY <1>4 DEF Cur
    <3>2. \A j \in 0 .. n - 1 : j \notin Ahead(t) => Full(blocks[t][j + 1])
      BY <1>1 DEF IInv, Searched, n
    <3>. QED BY <2>6, <3>1, <3>2
  <2>8. tried'[t] <= n
    BY <1>1, <1>2, <2>3
  <2>. QED BY <1>1, <1>3, <2>1, <2>3, <2>5, <2>7, <2>8, QuietStep DEF n
<1>5. CASE ~Full(Cur(t))
  <2>1. at' = [at EXCEPT ![t] = "take"] /\ UNCHANGED <<curBlk, tried>>
    BY <1>5 DEF TryBlock
  <2>2. at'[t] = "take" /\ \A u \in Threads \ {t} : at'[u] = at[u]
    BY <2>1 DEF IInv, TypeOK
  <2>3. TypeOK'
    BY <1>1, <2>1, <2>2 DEF IInv, TypeOK
  <2>4. link[Cur(t)'][0] # 0
    BY <1>1, <1>5, <2>1 DEF Cur, Full
  <2>. QED BY <1>1, <1>3, <2>1, <2>2, <2>3, <2>4, QuietStep
<1>. QED BY <1>4, <1>5

LEMMA TakeKeeps ==
  ASSUME IInv, NEW t \in Threads, Take(t)
  PROVE  IInv'
<1>1. /\ at[t] = "take" /\ at' = [at EXCEPT ![t] = "unlink"]
      /\ item' = [item EXCEPT ![t] = <<Cur(t), link[Cur(t)][0]>>]
      /\ UNCHANGED <<link, blocks, curBlk, tried, live>>
  BY DEF Take
<1>2. /\ at'[t] = "unlink" /\ item'[t] = <<Cur(t), link[Cur(t)][0]>>
      /\ \A u \in Threads \ {t} : at'[u] = at[u] /\ item'[u] = item[u]
  BY <1>1 DEF IInv, TypeOK
<1>3. Cur(t) \in DOMAIN link /\ link[Cur(t)] \in Lk /\ link[Cur(t)][0] # 0
  BY <1>1, Typed DEF IInv, InStep
<1>4. link[Cur(t)][0] \in Items
  BY <1>3, AllocatorAssumption DEF Lk, Nodes, Items
<1>5. TypeOK'
  BY <1>1, <1>2, <1>3, <1>4 DEF IInv, TypeOK
<1>6. \A u \in Threads \ {t} : InUse(t)' \cap InUse(u) = {}
  <2>1. InUse(t)' \subseteq InUse(t)
    BY <1>1, <1>2 DEF InUse, Blks
  <2>. QED BY <2>1 DEF IInv, Exclusive
<1>7. Cur(t)' = Cur(t)
  BY <1>1 DEF Cur
<1>8. item'[t][1] = Cur(t)' /\ link[item'[t][1]][0] = item'[t][2]
  BY <1>2, <1>7
<1>. QED
  BY <1>1, <1>2, <1>5, <1>6, <1>8, QuietStep

\* A step of t that writes only the block b of its own call.
LEMMA ListStep ==
  ASSUME IInv, NEW t \in Threads, NEW b \in DOMAIN link,
         UNCHANGED <<blocks, curBlk, tried>>, TypeOK', Lists',
         \A u \in Threads \ {t} : at'[u] = at[u] /\ item'[u] = item[u],
         at'[t] \in {"idle", "link", "push"}, item'[t][1] = b,
         DOMAIN link' = DOMAIN link,
         \A c \in DOMAIN link \ {b} : link'[c] = link[c],
         \A u \in Threads \ {t} : b \notin InUse(u),
         \A u \in Threads \ {t} : at[u] \in {"link", "push"} => item[u] \notin live',
         at'[t] \in {"link", "push"} => item'[t] \notin live',
         at'[t] = "push" => link'[item'[t][1]][item'[t][2]] = link'[item'[t][1]][0]
  PROVE  IInv'
<1>1. \A u \in Threads \ {t} : \A c \in InUse(u) : link'[c] = link[c]
  BY DEF InUse
<1>2. \A u \in Threads \ {t} :
         /\ InUse(u)' = InUse(u)
         /\ at'[u] = "take" => link'[Cur(u)'][0] # 0
         /\ at'[u] = "unlink" => item'[u][1] = Cur(u)' /\ link'[item'[u][1]][0] = item'[u][2]
         /\ at'[u] = "push" => link'[item'[u][1]][item'[u][2]] = link'[item'[u][1]][0]
         /\ at'[u] = "scan" =>
              /\ tried'[u] <= Len(blocks'[u])
              /\ \A j \in 0 .. Len(blocks'[u]) - 1 :
                   j \notin Ahead(u)' => Full(blocks[u][j + 1])'
  BY <1>1, OthersKeep
<1>3. Owned'
  <2>1. \A u \in Threads : Blks(u)' = Blks(u)
    BY DEF Blks
  <2>. QED BY <2>1 DEF IInv, Owned
<1>4. Exclusive'
  <2>1. \A u, v \in Threads \ {t} : u # v => InUse(u)' \cap InUse(v)' = {}
    BY <1>2 DEF IInv, Exclusive
  <2>2. InUse(t)' \subseteq {b}
    BY DEF InUse
  <2>3. \A u \in Threads \ {t} : InUse(t)' \cap InUse(u)' = {}
    BY <1>2, <2>2
  <2>. QED BY <2>1, <2>3 DEF Exclusive
<1>5. InStep'
  <2>. SUFFICES ASSUME NEW u \in Threads
                PROVE  (/\ at[u] = "take" => link[Cur(u)][0] # 0
                        /\ at[u] = "unlink" => item[u][1] = Cur(u) /\ link[item[u][1]][0] = item[u][2]
                        /\ at[u] \in {"link", "push"} => item[u] \notin live
                        /\ at[u] = "push" => link[item[u][1]][item[u][2]] = link[item[u][1]][0])'
    BY DEF InStep
  <2>1. CASE u = t
    BY <2>1
  <2>2. CASE u # t
    BY <1>2, <2>2
  <2>. QED BY <2>1, <2>2
<1>6. Searched'
  <2>. SUFFICES ASSUME NEW u \in Threads, at'[u] = "scan"
                PROVE  /\ tried'[u] <= Len(blocks'[u])
                       /\ \A j \in 0 .. Len(blocks'[u]) - 1 :
                            j \notin Ahead(u)' => Full(blocks[u][j + 1])'
    BY DEF Searched
  <2>1. u \in Threads \ {t}
    OBVIOUS
  <2>. QED BY <1>2, <2>1
<1>. QED
  BY <1>3, <1>4, <1>5, <1>6 DEF IInv

LEMMA UnlinkKeeps ==
  ASSUME IInv, NEW t \in Threads, Unlink(t)
  PROVE  IInv'
<1>. DEFINE b == item[t][1]  h == item[t][2]
<1>1. /\ at[t] = "unlink" /\ at' = [at EXCEPT ![t] = "idle"]
      /\ link' = [link EXCEPT ![b] = Popped(b, h)]
      /\ live' = live \cup {item[t]}
      /\ UNCHANGED <<blocks, curBlk, tried, item>>
  BY DEF Unlink
<1>2. at'[t] = "idle" /\ \A u \in Threads \ {t} : at'[u] = at[u]
  BY <1>1 DEF IInv, TypeOK
<1>3. /\ b \in DOMAIN link /\ link[b] \in Lk /\ h \in Items /\ item[t] = <<b, h>>
      /\ link \in Seq(Lk) /\ DOMAIN link = 1 .. Len(link) /\ Free(b) \in SUBSET Items
  BY Typed
<1>4. link[b][0] = h /\ h # 0 /\ b = Cur(t)
  BY <1>1, <1>3, AllocatorAssumption DEF IInv, InStep, Items
<1>5. /\ h \in Free(b)
      /\ Popped(b, h) \in Lk /\ Listed(Popped(b, h), Free(b) \ {h})
  BY <1>3, <1>4, PopListed DEF Popped, IInv, Lists
<1>6. link' \in Seq(Lk) /\ DOMAIN link' = DOMAIN link /\ link'[b] = Popped(b, h)
      /\ \A c \in DOMAIN link \ {b} : link'[c] = link[c]
  BY <1>1, <1>3, <1>5, ExceptSeq
<1>7. TypeOK'
  <2>1. live' \in SUBSET ((DOMAIN link') \X Items)
    BY <1>1, <1>3, <1>6 DEF IInv, TypeOK
  <2>2. link' \in Seq([Nodes -> Nodes])
    BY <1>6 DEF Lk
  <2>. QED BY <1>1, <1>6, <2>1, <2>2 DEF IInv, TypeOK
<1>8. \A c : Free(c)' = IF c = b THEN Free(c) \ {h} ELSE Free(c)
  <2>1. \A c, i : (\E u \in Threads : at'[u] \in {"link", "push"} /\ item'[u] = <<c, i>>)
              <=> (\E u \in Threads : at[u] \in {"link", "push"} /\ item[u] = <<c, i>>)
    BY <1>1, <1>2
  <2>2. \A c, i : <<c, i>> \in live' <=> <<c, i>> \in live \/ (c = b /\ i = h)
    BY <1>1, <1>3
  <2>3. \A c : Freeing(c)' = Freeing(c)
    BY <2>1 DEF Freeing
  <2>. SUFFICES ASSUME NEW c, NEW i \in Items
                PROVE  i \in Free(c)' <=> i \in Free(c) /\ ~(c = b /\ i = h)
    BY <1>3 DEF Free
  <2>. QED BY <2>2, <2>3 DEF Free
<1>9. Lists'
  <2>. SUFFICES ASSUME NEW c \in DOMAIN link
                PROVE  Listed(link'[c], Free(c)')
    BY <1>6 DEF Lists
  <2>1. CASE c = b
    BY <1>5, <1>6, <1>8, <2>1
  <2>2. CASE c # b
    BY <1>6, <1>8, <2>2 DEF IInv, Lists
  <2>. QED BY <2>1, <2>2
<1>10. \A u \in Threads \ {t} : b \notin InUse(u)
  <2>1. b \in InUse(t)
    BY <1>1, <1>4, Typed DEF InUse
  <2>. QED BY <2>1 DEF IInv, Exclusive
<1>11. \A u \in Threads \ {t} : at[u] \in {"link", "push"} => item[u] \notin live'
  <2>. SUFFICES ASSUME NEW u \in Threads \ {t}, at[u] \in {"link", "push"}
                PROVE  item[u] \notin live'
    OBVIOUS
  <2>1. item[u][1] \in InUse(u)
    BY Typed DEF InUse
  <2>2. item[u] # item[t]
    BY <1>10, <2>1
  <2>. QED BY <1>1, <2>2 DEF IInv, InStep
<1>. QED
  BY <1>1, <1>2, <1>3, <1>6, <1>7, <1>9, <1>10, <1>11, ListStep

LEMMA BeginDeallocateKeeps ==
  ASSUME Overlap = FALSE, IInv, NEW t \in Threads, NEW x \in live, BeginDeallocate(t, x)
  PROVE  IInv'
<1>. DEFINE b == x[1]
<1>1. /\ at[t] = "idle" /\ at' = [at EXCEPT ![t] = "link"]
      /\ item' = [item EXCEPT ![t] = x] /\ live' = live \ {x}
      /\ UNCHANGED <<link, blocks, curBlk, tried>>
  BY DEF BeginDeallocate
<1>2. /\ at'[t] = "link" /\ item'[t] = x
      /\ \A u \in Threads \ {t} : at'[u] = at[u] /\ item'[u] = item[u]
  BY <1>1 DEF IInv, TypeOK
<1>3. b \in DOMAIN link /\ x[2] \in Items /\ x = <<b, x[2]>>
  BY DEF IInv, TypeOK
<1>4. TypeOK'
  BY <1>1, <1>3 DEF IInv, TypeOK
<1>5. \A c : Free(c)' = Free(c)
  <2>1. \A c : Freeing(c)' = Freeing(c) \cup {i \in Items : <<c, i>> = x}
    BY <1>1, <1>2 DEF Freeing
  <2>2. \A c : \A i \in Items : <<c, i>> \in live' <=> <<c, i>> \in live /\ <<c, i>> # x
    BY <1>1
  <2>. QED BY <2>1, <2>2 DEF Free
<1>6. Lists'
  <2>. SUFFICES ASSUME NEW c \in DOMAIN link
                PROVE  Listed(link[c], Free(c)')
    BY <1>1 DEF Lists
  <2>. QED BY <1>5 DEF IInv, Lists
<1>7. \A u \in Threads \ {t} : b \notin InUse(u)
  BY DEF BeginDeallocate, Apart
<1>8. \A u \in Threads \ {t} : at[u] \in {"link", "push"} => item[u] \notin live'
  BY <1>1 DEF IInv, InStep
<1>9. item'[t] \notin live'
  BY <1>1, <1>2
<1>. QED
  BY <1>1, <1>2, <1>3, <1>4, <1>6, <1>7, <1>8, <1>9, ListStep

LEMMA LinkKeeps ==
  ASSUME IInv, NEW t \in Threads, Link(t)
  PROVE  IInv'
<1>. DEFINE b == item[t][1]  p == item[t][2]  x == link[b][0]
            f == [link[b] EXCEPT ![p] = x]
<1>1. /\ at[t] = "link" /\ at' = [at EXCEPT ![t] = "push"]
      /\ link' = [link EXCEPT ![b] = f]
      /\ UNCHANGED <<blocks, curBlk, tried, item, live>>
  BY DEF Link
<1>2. at'[t] = "push" /\ \A u \in Threads \ {t} : at'[u] = at[u]
  BY <1>1 DEF IInv, TypeOK
<1>3. /\ b \in DOMAIN link /\ link[b] \in Lk /\ p \in Items /\ item[t] = <<b, p>>
      /\ link \in Seq(Lk) /\ DOMAIN link = 1 .. Len(link) /\ Free(b) \in SUBSET Items
  BY Typed
<1>4. p \notin Free(b) /\ x \in Nodes /\ p \in Nodes /\ 0 # p
  <2>1. p \in Freeing(b)
    BY <1>1, <1>3 DEF Freeing
  <2>2. x \in Nodes /\ p \in Nodes /\ 0 # p
    BY <1>3, AllocatorAssumption DEF Lk, Nodes, Items
  <2>. QED BY <2>1, <2>2 DEF Free
<1>5. f \in Lk /\ Listed(f, Free(b)) /\ f[p] = x /\ f[0] = x
  <2>1. f \in Lk /\ Listed(f, Free(b))
    BY <1>3, <1>4, WriteListed DEF IInv, Lists
  <2>2. f[p] = x /\ f[0] = x
    BY <1>3, <1>4, AllocatorAssumption DEF Lk, Nodes
  <2>. QED BY <2>1, <2>2
<1>. HIDE DEF f, x
<1>6. link' \in Seq(Lk) /\ DOMAIN link' = DOMAIN link /\ link'[b] = f
      /\ \A c \in DOMAIN link \ {b} : link'[c] = link[c]
  BY <1>1, <1>3, <1>5, ExceptSeq
<1>7. TypeOK'
  <2>1. link' \in Seq([Nodes -> Nodes])
    BY <1>6 DEF Lk
  <2>. QED BY <1>1, <1>6, <2>1 DEF IInv, TypeOK
<1>8. \A c : Free(c)' = Free(c)
  <2>. TAKE c
  <2>1. \A i \in Items : (\E u \in Threads : at'[u] \in {"link", "push"} /\ item'[u] = <<c, i>>)
                    <=> (\E u \in Threads : at[u] \in {"link", "push"} /\ item[u] = <<c, i>>)
    BY <1>1, <1>2
  <2>. QED BY <1>1, <2>1, SameFree
<1>9. Lists'
  <2>. SUFFICES ASSUME NEW c \in DOMAIN link
                PROVE  Listed(link'[c], Free(c)')
    BY <1>6 DEF Lists
  <2>1. CASE c = b
    BY <1>5, <1>6, <1>8, <2>1
  <2>2. CASE c # b
    BY <1>6, <1>8, <2>2 DEF IInv, Lists
  <2>. QED BY <2>1, <2>2
<1>10. \A u \in Threads \ {t} : b \notin InUse(u)
  <2>1. b \in InUse(t)
    BY <1>1, <1>3 DEF InUse
  <2>. QED BY <2>1 DEF IInv, Exclusive
<1>11. \A u \in Threads : at[u] \in {"link", "push"} => item[u] \notin live'
  BY <1>1 DEF IInv, InStep
<1>. QED
  BY <1>1, <1>2, <1>3, <1>5, <1>6, <1>7, <1>9, <1>10, <1>11, ListStep

LEMMA PushKeeps ==
  ASSUME IInv, NEW t \in Threads, Push(t)
  PROVE  IInv'
<1>. DEFINE b == item[t][1]  p == item[t][2]  f == [link[b] EXCEPT ![0] = p]
<1>1. /\ at[t] = "push" /\ at' = [at EXCEPT ![t] = "idle"]
      /\ link' = [link EXCEPT ![b] = f]
      /\ UNCHANGED <<blocks, curBlk, tried, item, live>>
  BY DEF Push
<1>2. at'[t] = "idle" /\ \A u \in Threads \ {t} : at'[u] = at[u]
  BY <1>1 DEF IInv, TypeOK
<1>3. /\ b \in DOMAIN link /\ link[b] \in Lk /\ p \in Items /\ item[t] = <<b, p>>
      /\ link \in Seq(Lk) /\ DOMAIN link = 1 .. Len(link) /\ Free(b) \in SUBSET Items
  BY Typed
<1>4. p \notin Free(b) /\ link[b][p] = link[b][0] /\ item[t] \notin live
  BY <1>1, <1>3 DEF Free, Freeing, IInv, InStep
<1>5. f \in Lk /\ Listed(f, Free(b) \cup {p})
  BY <1>3, <1>4, PushListed DEF IInv, Lists
<1>. HIDE DEF f
<1>6. link' \in Seq(Lk) /\ DOMAIN link' = DOMAIN link /\ link'[b] = f
      /\ \A c \in DOMAIN link \ {b} : link'[c] = link[c]
  BY <1>1, <1>3, <1>5, ExceptSeq
<1>7. TypeOK'
  <2>1. link' \in Seq([Nodes -> Nodes])
    BY <1>6 DEF Lk
  <2>. QED BY <1>1, <1>6, <2>1 DEF IInv, TypeOK
<1>8. \A u \in Threads \ {t} : b \notin InUse(u)
  <2>1. b \in InUse(t)
    BY <1>1, <1>3 DEF InUse
  <2>. QED BY <2>1 DEF IInv, Exclusive
<1>9. \A c : Free(c)' = IF c = b THEN Free(c) \cup {p} ELSE Free(c)
  <2>1. \A u \in Threads \ {t} : at[u] \in {"link", "push"} => item[u] # item[t]
    <3>1. \A u \in Threads : at[u] \in {"link", "push"} => item[u][1] \in InUse(u)
      BY Typed DEF InUse
    <3>. QED BY <1>8, <3>1
  <2>2. ASSUME NEW c, NEW i \in Items
        PROVE  i \in Freeing(c)' <=> i \in Freeing(c) /\ <<c, i>> # item[t]
    BY <1>1, <1>2, <2>1 DEF Freeing
  <2>3. ASSUME NEW c, NEW i \in Items
        PROVE  <<c, i>> \in live' <=> <<c, i>> \in live
    BY <1>1
  <2>4. ASSUME NEW c, NEW i \in Items
        PROVE  <<c, i>> = item[t] <=> c = b /\ i = p
    BY <1>3
  <2>. SUFFICES ASSUME NEW c, NEW i \in Items
                PROVE  i \in Free(c)' <=> i \in Free(c) \/ (c = b /\ i = p)
    BY <1>3 DEF Free
  <2>. QED BY <1>4, <2>2, <2>3, <2>4 DEF Free
<1>10. Lists'
  <2>. SUFFICES ASSUME NEW c \in DOMAIN link
                PROVE  Listed(link'[c], Free(c)')
    BY <1>6 DEF Lists
  <2>1. CASE c = b
    BY <1>5, <1>6, <1>9, <2>1
  <2>2. CASE c # b
    BY <1>6, <1>9, <2>2 DEF IInv, Lists
  <2>. QED BY <2>1, <2>2
<1>11. \A u \in Threads : at[u] \in {"link", "push"} => item[u] \notin live'
  BY <1>1 DEF IInv, InStep
<1>. QED
  BY <1>1, <1>2, <1>3, <1>6, <1>7, <1>8, <1>10, <1>11, ListStep

\* The new block is nobody's yet: all its items are free, and it is at no other
\* thread's.
LEMMA GrowKeeps ==
  ASSUME IInv, NEW t \in Threads, Grow(t)
  PROVE  IInv'
<1>. DEFINE n == Len(link) + 1
<1>1. /\ at[t] = "scan" /\ at' = [at EXCEPT ![t] = "take"]
      /\ link' = Append(link, NewBlk)
      /\ blocks' = [blocks EXCEPT ![t] = Append(blocks[t], n)]
      /\ curBlk' = [curBlk EXCEPT ![t] = Len(blocks[t])]
      /\ UNCHANGED <<tried, item, live>>
  BY DEF Grow
<1>2. /\ at'[t] = "take" /\ blocks'[t] = Append(blocks[t], n) /\ curBlk'[t] = Len(blocks[t])
      /\ \A u \in Threads \ {t} :
           at'[u] = at[u] /\ blocks'[u] = blocks[u] /\ curBlk'[u] = curBlk[u]
  BY <1>1 DEF IInv, TypeOK
<1>3. /\ link \in Seq(Lk) /\ DOMAIN link = 1 .. Len(link) /\ Len(link) \in Nat
      /\ blocks[t] \in Seq(DOMAIN link) /\ Len(blocks[t]) \in Nat
  BY Typed DEF IInv, TypeOK
<1>4. /\ link' \in Seq(Lk) /\ DOMAIN link' = DOMAIN link \cup {n} /\ n \notin DOMAIN link
      /\ link'[n] = NewBlk /\ \A b \in DOMAIN link : link'[b] = link[b]
  BY <1>1, <1>3, NewListed
<1>5. /\ blocks'[t] \in Seq(DOMAIN link') /\ Len(blocks'[t]) = Len(blocks[t]) + 1
      /\ blocks'[t][Len(blocks[t]) + 1] = n
      /\ \A k \in DOMAIN blocks[t] : blocks'[t][k] = blocks[t][k]
      /\ DOMAIN blocks'[t] = DOMAIN blocks[t] \cup {Len(blocks[t]) + 1}
  <2>1. n \in DOMAIN link' /\ DOMAIN link \subseteq DOMAIN link'
    BY <1>4
  <2>2. \A k \in DOMAIN blocks[t] : blocks[t][k] \in DOMAIN link
    BY <1>3
  <2>3. blocks[t] \in Seq(DOMAIN link')
    <3>. HIDE DEF n
    <3>. QED BY <1>3, <2>1, <2>2
  <2>. HIDE DEF n
  <2>4. Append(blocks[t], n) \in Seq(DOMAIN link')
    BY <2>1, <2>3
  <2>. QED BY <1>2, <1>3, <2>3, <2>4
<1>6. Cur(t)' = n /\ Blks(t)' = Blks(t) \cup {n}
  BY <1>2, <1>3, <1>5 DEF Cur, Blks
<1>7. \A u \in Threads \ {t} :
        /\ InUse(u)' = InUse(u) /\ Blks(u)' = Blks(u)
        /\ at'[u] = "take" => link'[Cur(u)'][0] # 0
        /\ at'[u] = "unlink" => item'[u][1] = Cur(u)' /\ link'[item'[u][1]][0] = item'[u][2]
        /\ at'[u] = "push" => link'[item'[u][1]][item'[u][2]] = link'[item'[u][1]][0]
        /\ at'[u] = "scan" =>
             /\ tried'[u] <= Len(blocks'[u])
             /\ \A j \in 0 .. Len(blocks'[u]) - 1 :
                  j \notin Ahead(u)' => Full(blocks[u][j + 1])'
  <2>1. \A u \in Threads \ {t} : \A b \in InUse(u) : link'[b] = link[b]
    BY <1>4 DEF InUse
  <2>2. DOMAIN link \subseteq DOMAIN link' /\ \A u \in Threads : tried'[u] = tried[u] /\ item'[u] = item[u]
    BY <1>1, <1>4
  <2>. QED BY <1>2, <2>1, <2>2, OthersKeep
<1>. HIDE DEF n
<1>8. TypeOK'
  <2>1. link' \in Seq([Nodes -> Nodes]) /\ DOMAIN link \subseteq DOMAIN link'
    BY <1>4 DEF Lk
  <2>2. blocks' \in [Threads -> Seq(DOMAIN link')]
    <3>1. \A u \in Threads \ {t} : blocks[u] \in Seq(DOMAIN link')
      BY <2>1 DEF IInv, TypeOK
    <3>2. \A u \in Threads : blocks'[u] \in Seq(DOMAIN link')
      BY <1>2, <1>5, <3>1
    <3>. QED BY <1>1, <3>2 DEF IInv, TypeOK
  <2>3. curBlk' \in [Threads -> Nat] /\ \A u \in Threads : curBlk'[u] < Len(blocks'[u])
    BY <1>1, <1>2, <1>3, <1>5 DEF IInv, TypeOK
  <2>. QED BY <1>1, <2>1, <2>2, <2>3 DEF IInv, TypeOK
<1>9. (\A b \in DOMAIN link : Free(b)' = Free(b)) /\ \A b : b = n => Free(b)' = Items
  <2>1. \A b, i : (\E u \in Threads : at'[u] \in {"link", "push"} /\ item'[u] = <<b, i>>)
              <=> (\E u \in Threads : at[u] \in {"link", "push"} /\ item[u] = <<b, i>>)
    BY <1>1, <1>2
  <2>2. \A b : Free(b)' = Free(b)
    BY <1>1, <2>1, SameFree
  <2>3. \A i : <<n, i>> \notin live
    BY <1>4 DEF IInv, TypeOK
  <2>4. \A u \in Threads : \A i : item[u] # <<n, i>>
    BY <1>4 DEF IInv, TypeOK
  <2>5. Free(n) = Items
    BY <2>3, <2>4 DEF Free, Freeing
  <2>. QED BY <2>2, <2>5
<1>10. Lists'
  <2>. SUFFICES ASSUME NEW b \in DOMAIN link \cup {n}
                PROVE  Listed(link'[b], Free(b)')
    BY <1>4 DEF Lists
  <2>1. CASE b = n
    BY <1>4, <1>9, <2>1, NewListed
  <2>2. CASE b \in DOMAIN link
    BY <1>4, <1>9, <2>2 DEF IInv, Lists
  <2>. QED BY <2>1, <2>2
<1>11. \A u \in Threads : n \notin Blks(u) /\ n \notin InUse(u)
  BY <1>4, Typed DEF InUse
<1>12. Owned'
  <2>1. \A u \in Threads \ {t} : Blks(t)' \cap Blks(u)' = {}
    BY <1>6, <1>7, <1>11 DEF IInv, Owned
  <2>2. \A u, v \in Threads \ {t} : u # v => Blks(u)' \cap Blks(v)' = {}
    BY <1>7 DEF IInv, Owned
  <2>. QED BY <2>1, <2>2 DEF Owned
<1>13. Exclusive'
  <2>1. InUse(t)' \subseteq InUse(t) \cup {n}
    <3>1. Blks(t) \subseteq InUse(t)
      BY <1>1, Typed DEF InUse
    <3>2. InUse(t)' \subseteq Blks(t)'
      BY <1>2 DEF InUse
    <3>. QED BY <1>6, <3>1, <3>2
  <2>2. \A u \in Threads \ {t} : InUse(t)' \cap InUse(u)' = {}
    BY <1>7, <1>11, <2>1 DEF IInv, Exclusive
  <2>3. \A u, v \in Threads \ {t} : u # v => InUse(u)' \cap InUse(v)' = {}
    BY <1>7 DEF IInv, Exclusive
  <2>. QED BY <2>2, <2>3 DEF Exclusive
<1>14. InStep'
  <2>. SUFFICES ASSUME NEW u \in Threads
                PROVE  (/\ at[u] = "take" => link[Cur(u)][0] # 0
                        /\ at[u] = "unlink" => item[u][1] = Cur(u) /\ link[item[u][1]][0] = item[u][2]
                        /\ at[u] \in {"link", "push"} => item[u] \notin live
                        /\ at[u] = "push" => link[item[u][1]][item[u][2]] = link[item[u][1]][0])'
    BY DEF InStep
  <2>1. CASE u = t
    BY <1>2, <1>4, <1>6, <2>1, NewListed
  <2>2. CASE u # t
    BY <1>1, <1>2, <1>7, <2>2 DEF IInv, InStep
  <2>. QED BY <2>1, <2>2
<1>15. Searched'
  <2>. SUFFICES ASSUME NEW u \in Threads, at'[u] = "scan"
                PROVE  /\ tried'[u] <= Len(blocks'[u])
                       /\ \A j \in 0 .. Len(blocks'[u]) - 1 :
                            j \notin Ahead(u)' => Full(blocks[u][j + 1])'
    BY DEF Searched
  <2>1. u \in Threads \ {t}
    BY <1>2
  <2>. QED BY <1>7, <2>1
<1>. QED
  BY <1>8, <1>10, <1>12, <1>13, <1>14, <1>15 DEF IInv

-----------------------------------------------------------------------------
LEMMA InitIInv == Init => IInv
<1>. SUFFICES ASSUME Init PROVE IInv
  OBVIOUS
<1>. DEFINE n == Cardinality(Threads)
<1>1. n \in Nat
  BY AllocatorAssumption, FS_CardinalityType
<1>2. PICK start \in [Threads -> 1 .. n] :
        /\ \A t, u \in Threads : start[t] = start[u] => t = u
        /\ blocks = [t \in Threads |-> <<start[t]>>]
  BY DEF Init
<1>3. /\ link = [b \in 1 .. n |-> NewBlk] /\ curBlk = [t \in Threads |-> 0]
      /\ at = [t \in Threads |-> "idle"] /\ tried = [t \in Threads |-> 0]
      /\ item = [t \in Threads |-> <<1, 1>>] /\ live = {}
  BY DEF Init
<1>. HIDE DEF n
<1>4. link \in Seq(Lk) /\ DOMAIN link = 1 .. n
  BY <1>1, <1>3, NewListed
<1>5. TypeOK
  <2>1. link \in Seq([Nodes -> Nodes])
    BY <1>4 DEF Lk
  <2>2. blocks \in [Threads -> Seq(DOMAIN link)]
    BY <1>2, <1>4
  <2>3. curBlk \in [Threads -> Nat] /\ \A t \in Threads : curBlk[t] < Len(blocks[t])
    BY <1>2, <1>3
  <2>4. item \in [Threads -> (DOMAIN link) \X Items]
    <3>1. \A t \in Threads : 1 \in DOMAIN link
      BY <1>1, <1>2, <1>4
    <3>2. 1 \in Items
      BY AllocatorAssumption DEF Items
    <3>. QED BY <1>3, <3>1, <3>2
  <2>. QED BY <1>3, <2>1, <2>2, <2>3, <2>4 DEF TypeOK
<1>6. Lists
  <2>1. \A b : Free(b) = Items
    BY <1>3 DEF Free, Freeing
  <2>. QED BY <1>3, <1>4, <2>1, NewListed DEF Lists
<1>7. Owned
  BY <1>2 DEF Owned, Blks
<1>8. Exclusive
  BY <1>3 DEF Exclusive, InUse
<1>9. InStep /\ Searched
  BY <1>3 DEF InStep, Searched
<1>. QED
  BY <1>5, <1>6, <1>7, <1>8, <1>9 DEF IInv

LEMMA NextIInv ==
  ASSUME Overlap = FALSE, IInv, [Next]_vars
  PROVE  IInv'
<1>1. CASE UNCHANGED vars
  <2>1. UNCHANGED <<link, blocks, curBlk, at, tried, item, live>>
    BY <1>1 DEF vars
  <2>2. \A b : Free(b)' = Free(b)
    BY <2>1 DEF Free, Freeing
  <2>3. Lists'
    BY <2>1, <2>2 DEF IInv, Lists
  <2>4. TypeOK'
    BY <2>1 DEF IInv, TypeOK
  <2>5. \A t \in Threads : Blks(t)' = Blks(t) /\ InUse(t)' = InUse(t)
    BY <2>1 DEF Blks, InUse
  <2>6. Owned' /\ Exclusive'
    BY <2>5 DEF IInv, Owned, Exclusive
  <2>7. InStep' /\ Searched'
    BY <2>1 DEF IInv, InStep, Searched, Cur, Full, Ahead
  <2>. QED BY <2>3, <2>4, <2>6, <2>7 DEF IInv
<1>2. CASE Next
  <2>1. PICK t \in Threads :
          \/ BeginAllocate(t) \/ TryBlock(t) \/ Grow(t) \/ Take(t) \/ Unlink(t)
          \/ \E x \in live : BeginDeallocate(t, x)
          \/ Link(t) \/ Push(t)
    BY <1>2 DEF Next
  <2>. QED
    BY <2>1, BeginAllocateKeeps, TryBlockKeeps, GrowKeeps, TakeKeeps, UnlinkKeeps,
       BeginDeallocateKeeps, LinkKeeps, PushKeeps
<1>. QED
  BY <1>1, <1>2

\* The lists, the blocks in use and the searches are always consistent.
THEOREM Consistent ==
  ASSUME Overlap = FALSE
  PROVE  Spec => []IInv
<1>1. IInv /\ [Next]_vars => IInv'
  BY NextIInv
<1>. QED
  BY <1>1, InitIInv, PTL DEF Spec

\* The links stay inside their block and the indices inside their lists: no
\* call of allocate or deallocate reads past the end of items_ or blocks_.
THEOREM TypeCorrect ==
  ASSUME Overlap = FALSE
  PROVE  Spec => []TypeOK
<1>1. IInv => TypeOK
  BY DEF IInv
<1>. QED
  BY <1>1, Consistent, PTL

\* allocate returns an item that nobody has, and that nobody is freeing.
THEOREM NotTwice ==
  ASSUME Overlap = FALSE
  PROVE  Spec => []OnlyOnce
<1>1. ASSUME IInv, NEW t \in Threads, at[t] = "unlink"
      PROVE  /\ item[t] \notin live
             /\ \A u \in Threads \ {t} : at[u] \in {"unlink", "link", "push"} => item[u] # item[t]
  <2>1. item[t][1] \in DOMAIN link /\ item[t][2] \in Items /\ item[t] = <<item[t][1], item[t][2]>>
    BY <1>1, Typed
  <2>2. item[t][1] = Cur(t) /\ link[item[t][1]][0] = item[t][2]
    BY <1>1 DEF IInv, InStep
  <2>3. item[t][2] \in Free(item[t][1])
    <3>1. Listed(link[item[t][1]], Free(item[t][1])) /\ item[t][2] # 0
      BY <1>1, <2>1, AllocatorAssumption DEF IInv, Lists, Items
    <3>. QED BY <2>2, <3>1 DEF Listed
  <2>4. item[t] \notin live
    BY <2>1, <2>3 DEF Free
  <2>5. item[t][1] \in InUse(t)
    BY <1>1, <2>1, <2>2, Typed DEF InUse
  <2>6. ASSUME NEW u \in Threads \ {t}, at[u] \in {"unlink", "link", "push"}
        PROVE  item[u][1] \in InUse(u)
    <3>1. CASE at[u] = "unlink"
      BY <1>1, <3>1, Typed DEF InUse, IInv, InStep
    <3>2. CASE at[u] \in {"link", "push"}
      BY <1>1, <3>2, Typed DEF InUse
    <3>. QED BY <2>6, <3>1, <3>2
  <2>. QED BY <1>1, <2>4, <2>5, <2>6 DEF IInv, Exclusive
<1>2. IInv => OnlyOnce
  BY <1>1 DEF OnlyOnce
<1>. QED
  BY <1>2, Consistent, PTL

\* allocate makes a new block only if all the thread's blocks are full: the
\* search from curBlk on, around the end, sees every one of them.
THEOREM FullFirst ==
  ASSUME Overlap = FALSE
  PROVE  Spec => GrowsIfFull
<1>1. ASSUME IInv, Next, NEW t \in Threads, blocks'[t] # blocks[t]
      PROVE  \A b \in Blks(t) : Full(b)
  <2>1. Grow(t)
    <3>1. PICK u \in Threads :
            \/ BeginAllocate(u) \/ TryBlock(u) \/ Grow(u) \/ Take(u) \/ Unlink(u)
            \/ \E x \in live : BeginDeallocate(u, x)
            \/ Link(u) \/ Push(u)
      BY <1>1 DEF Next
    <3>2. Grow(u)
      BY <1>1, <3>1 DEF BeginAllocate, TryBlock, Take, Unlink, BeginDeallocate, Link, Push
    <3>3. u = t
      BY <1>1, <3>2 DEF Grow, IInv, TypeOK
    <3>. QED BY <3>2, <3>3
  <2>2. at[t] = "scan" /\ tried[t] = Len(blocks[t])
    BY <2>1 DEF Grow
  <2>3. /\ curBlk[t] \in Nat /\ Len(blocks[t]) \in Nat /\ curBlk[t] < Len(blocks[t])
        /\ blocks[t] \in Seq(DOMAIN link)
    BY <1>1 DEF IInv, TypeOK
  <2>4. \A j \in 0 .. Len(blocks[t]) - 1 : j \notin Ahead(t)
    BY <2>2, <2>3 DEF Ahead
  <2>5. \A j \in 0 .. Len(blocks[t]) - 1 : Full(blocks[t][j + 1])
    BY <1>1, <2>2, <2>4 DEF IInv, Searched
  <2>6. ASSUME NEW k \in DOMAIN blocks[t]
        PROVE  Full(blocks[t][k])
    <3>1. k - 1 \in 0 .. Len(blocks[t]) - 1 /\ (k - 1) + 1 = k
      BY <2>3
    <3>. QED BY <2>5, <3>1
  <2>. QED BY <2>6 DEF Blks
<1>2. IInv /\ [Next]_vars => [\A t \in Threads : blocks'[t] # blocks[t] => \A b \in Blks(t) : Full(b)]_vars
  BY <1>1
<1>. QED
  BY <1>2, Consistent, PTL DEF Spec, GrowsIfFull

-----------------------------------------------------------------------------
\* The list of a block is walked by PerBlock steps.
LEMMA ChainIs ==
  ASSUME NEW b
  PROVE  \E g : Steps(link[b], 0, PerBlock, g) /\ Chain(b) = {g[n] : n \in 0 .. PerBlock} \ {0}
<1>. DEFINE g == CHOOSE h : Steps(link[b], 0, PerBlock, h)
<1>1. Steps(link[b], 0, PerBlock, g)
  BY StepsExist, AllocatorAssumption
<1>2. Chain(b) = {g[n] : n \in 0 .. PerBlock} \ {0}
  BY DEF Chain, Steps
<1>. QED BY <1>1, <1>2

\* More steps find nothing: there are no more items than that.
LEMMA WalkFinds ==
  ASSUME NEW f \in Lk, NEW F \in SUBSET Items, Listed(f, F), NEW g, Steps(f, 0, PerBlock, g)
  PROVE  {g[n] : n \in 0 .. PerBlock} \ {0} = F
<1>. DEFINE D == 0 .. PerBlock
<1>1. PerBlock \in Nat /\ F \subseteq Nodes /\ 0 \in Nodes /\ 0 \notin F
  BY AllocatorAssumption DEF Nodes, Items
<1>2. DOMAIN g = D /\ g[0] = 0 /\ \A n \in D : n # 0 => g[n] = f[g[n - 1]]
  <2>1. \A n \in D : g[n] = IF n = 0 THEN 0 ELSE f[g[n - 1]]
    BY Zenon DEF Steps
  <2>2. DOMAIN g = D
    BY Zenon DEF Steps
  <2>. QED BY <1>1, <2>1, <2>2
<1>3. \A n \in D : g[n] \in F \cup {0}
  <2>. DEFINE S == {n \in Nat : n \in D => g[n] \in F \cup {0}}
  <2>1. 0 \in S
    BY <1>2
  <2>2. ASSUME NEW n \in Nat, n \in S
        PROVE  n + 1 \in S
    <3>1. n + 1 \in D => n \in D /\ g[n + 1] = f[g[n]]
      BY <1>1, <1>2
    <3>. QED BY <2>2, <3>1 DEF Listed
  <2>. HIDE DEF S
  <2>3. Nat \subseteq S
    BY <2>1, <2>2, InductNat
  <2>. QED BY <2>3 DEF S
<1>4. PICK i \in D, j \in D : i < j /\ g[i] = g[j]
  <2>1. IsFiniteSet(Nodes) /\ Cardinality(Nodes) = PerBlock
    BY <1>1, FS_Interval DEF Nodes
  <2>2. IsFiniteSet(D) /\ Cardinality(D) = PerBlock + 1
    BY <1>1, FS_Interval
  <2>3. g \in [D -> Nodes]
    <3>1. g = [n \in D |-> g[n]]
      BY <1>2, Zenon DEF Steps
    <3>. QED BY <1>1, <1>3, <3>1
  <2>4. \E x, y \in D : x # y /\ g[x] = g[y]
    BY <1>1, <2>1, <2>2, <2>3, FS_PigeonHole
  <2>. QED BY <2>4
<1>5. F \subseteq {g[n] : n \in 0 .. j - 1}
  <2>. DEFINE S == {g[n] : n \in 0 .. j - 1}
  <2>1. \A n \in 0 .. j - 1 : n \in D /\ n + 1 \in D /\ g[n + 1] = f[g[n]]
    BY <1>1, <1>2
  <2>2. \A n \in 0 .. j - 1 : f[g[n]] \in S
    <3>. TAKE n \in 0 .. j - 1
    <3>1. CASE n + 1 = j
      BY <1>4, <2>1, <3>1
    <3>2. CASE n + 1 # j
      BY <2>1, <3>2
    <3>. QED BY <3>1, <3>2
  <2>3. S \in SUBSET Nodes /\ 0 \in S
    BY <1>1, <1>2, <1>3, <1>4, <2>1
  <2>4. \A x \in S : f[x] \in S
    BY <2>2
  <2>. HIDE DEF S
  <2>5. F \subseteq S
    BY <2>3, <2>4 DEF Listed, Found
  <2>. QED BY <2>5 DEF S
<1>6. \A n \in 0 .. j - 1 : n \in D
  BY <1>1
<1>. QED BY <1>1, <1>3, <1>5, <1>6

\* An item that is free is on the list of its block, and so is allocated again:
\* memory is not lost, whichever threads allocated and freed it.
THEOREM NeverLost ==
  ASSUME Overlap = FALSE
  PROVE  Spec => []NothingLost
<1>1. ASSUME IInv, NEW b \in DOMAIN link
      PROVE  Chain(b) = Free(b)
  <2>1. link[b] \in Lk /\ Free(b) \in SUBSET Items /\ Listed(link[b], Free(b))
    BY <1>1, Typed DEF IInv, Lists
  <2>. QED BY <2>1, ChainIs, WalkFinds
<1>2. IInv => NothingLost
  BY <1>1 DEF NothingLost
<1>. QED
  BY <1>2, Consistent, PTL
=============================================================================

------------------------------ MODULE AstProofs ------------------------------
(***************************************************************************)
(* Proofs about module Ast, for any number of nodes, SubTrees and threads: *)
(* a node that sits in a SubTree has one parent, and a hash that is kept   *)
(* is the hash of what is there, however assignments, copies and threads   *)
(* that hash follow each other.                                            *)
(***************************************************************************)
EXTENDS Ast, TLAPS

\* Only live nodes have a hash; hash_ is any value.
TypeOK ==
  /\ live \subseteq Node
  /\ kids \in [Node -> [Slot -> Node \cup {Null}]]
  /\ parent \in [Node -> Node \cup {Null}]
  /\ hashed \subseteq live
  /\ DOMAIN hash = Node
  /\ climb \in Node \cup {Null}
  /\ at \in [Thread -> Node \cup {Null}]
  /\ root \in [Thread -> Node \cup {Null}]
  /\ owner \in [Node -> Thread \cup {NoThread}]
  /\ done \in [Node -> Nat]

\* What sits in a SubTree is a node that exists, and so is its parent.
Linked ==
  \A p \in Node, s \in Slot : kids[p][s] # Null =>
    p \in live /\ kids[p][s] \in live /\ parent[kids[p][s]] = p

OneSlot ==
  \A p \in Node, s, r \in Slot : kids[p][s] # Null /\ kids[p][s] = kids[p][r] => s = r

ParentHolds ==
  \A m \in Node : parent[m] # Null => \E s \in Slot : kids[parent[m]][s] = m

\* No node is its own ancestor: every set of nodes has one whose parent is not
\* in the set.
Acyclic ==
  \A S \in SUBSET Node : S # {} => \E m \in S : parent[m] \notin S

Tree == Linked /\ OneSlot /\ ParentHolds /\ Acyclic

\* The hash of n is right.
Right(n) == Kids(n) \subseteq hashed /\ hash[n] = HashOf(n)

\* All hashes are but the one that resetHash has got to.
AllRight == \A n \in hashed : n = climb \/ Right(n)

\* Nobody reads while resetHash climbs, and a thread that does not read has
\* no lock.
Quiet ==
  \A t \in Thread :
    /\ at[t] # Null => climb = Null /\ at[t] \in live
    /\ at[t] = Null => \A n \in Node : owner[n] # t

\* The children that compHash has counted have their hashes, the node has not.
Counting ==
  \A n \in Node :
    /\ owner[n] = NoThread => done[n] = 0
    /\ owner[n] # NoThread =>
         /\ n \notin hashed
         /\ \A s \in Slot : s <= done[n] => kids[n][s] \in hashed \cup {Null}

\* The nodes a thread has the locks of, and the one it is in, are a path: each
\* is the child that its parent counts next, up to the node that was asked for.
OnPath(t, m) ==
  /\ parent[m] # Null
  /\ owner[parent[m]] = t
  /\ done[parent[m]] + 1 \in Slot
  /\ kids[parent[m]][done[parent[m]] + 1] = m

Path ==
  \A t \in Thread, m \in Node :
    (m = at[t] \/ owner[m] = t) /\ m # root[t] => OnPath(t, m)

Reading == Quiet /\ Counting /\ Path

IInv == TypeOK /\ Tree /\ Reading

-----------------------------------------------------------------------------
LEMMA KidsTyped ==
  ASSUME TypeOK, NEW n \in Node
  PROVE  Kids(n) \subseteq Node /\ \A k : k \in Kids(n) <=> k # Null /\ \E s \in Slot : kids[n][s] = k
<1>1. \A s \in Slot : kids[n][s] \in Node \cup {Null}
  BY DEF TypeOK
<1>. QED BY <1>1 DEF Kids

\* What is below a node: itself, and the children of all that is.
LEMMA BelowFacts ==
  ASSUME TypeOK, NEW c \in Node
  PROVE  /\ Below(c) \subseteq Node /\ c \in Below(c)
         /\ \A x \in Below(c) : Kids(x) \subseteq Below(c)
         /\ \A S \in SUBSET Node : c \in S /\ (\A x \in S : Kids(x) \subseteq S) => Below(c) \subseteq S
<1>1. \A x \in Below(c) : \A k \in Kids(x) : k \in Below(c)
  <2>. TAKE x \in Below(c)
  <2>. TAKE k \in Kids(x)
  <2>1. x \in Node
    BY DEF Below
  <2>2. k \in Node
    BY <2>1, KidsTyped
  <2>. QED BY <2>1, <2>2 DEF Below
<1>. QED BY <1>1 DEF Below

\* All but the node itself have their parent there.
LEMMA BelowUp ==
  ASSUME TypeOK, Tree, NEW c \in Node, NEW x \in Below(c), x # c
  PROVE  parent[x] \in Below(c)
<1>. DEFINE S == Below(c) \ {x}
<1>1. SUFFICES ASSUME parent[x] \notin Below(c)
               PROVE  FALSE
  OBVIOUS
<1>2. S \in SUBSET Node /\ c \in S /\ x \in Node
  BY BelowFacts
<1>3. \A y \in S : Kids(y) \subseteq S
  <2>. SUFFICES ASSUME NEW y \in S, NEW k \in Kids(y)
                PROVE  k \in S
    OBVIOUS
  <2>1. k \in Below(c) /\ y \in Node /\ y \in Below(c)
    BY BelowFacts
  <2>2. parent[k] = y
    BY <2>1, KidsTyped DEF Tree, Linked
  <2>. QED BY <1>1, <2>1, <2>2
<1>4. Below(c) \subseteq S
  BY <1>2, <1>3, BelowFacts
<1>. QED BY <1>4

\* It is no child of what is below it.
LEMMA BelowTop ==
  ASSUME TypeOK, Tree, NEW c \in Node, NEW x \in Below(c)
  PROVE  c \notin Kids(x)
<1>. SUFFICES ASSUME c \in Kids(x)
              PROVE  FALSE
  OBVIOUS
<1>1. parent[c] = x
  BY BelowFacts, KidsTyped DEF Tree, Linked
<1>2. \A m \in Below(c) : parent[m] \in Below(c)
  BY <1>1, BelowUp
<1>. QED BY <1>2, BelowFacts DEF Tree, Acyclic

\* Who loses a parent closes no cycle.
LEMMA StillAcyclic ==
  ASSUME Acyclic, \A m \in Node : parent'[m] \in {parent[m], Null}
  PROVE  Acyclic'
<1>. SUFFICES ASSUME NEW S \in SUBSET Node, S # {}
              PROVE  \E m \in S : parent'[m] \notin S
  BY DEF Acyclic
<1>1. PICK m \in S : parent[m] \notin S
  BY DEF Acyclic
<1>. QED BY <1>1, NullAssumption

-----------------------------------------------------------------------------
\* While nobody reads, no lock is held.
LEMMA Unlocked ==
  ASSUME TypeOK, Reading, \A t \in Thread : at[t] = Null, NEW n \in Node
  PROVE  owner[n] = NoThread /\ done[n] = 0
<1>1. owner[n] = NoThread
  BY DEF TypeOK, Reading, Quiet
<1>. QED BY <1>1 DEF Reading, Counting

LEMMA WritersAlone ==
  ASSUME TypeOK, Reading, \A t \in Thread : at[t] = Null, UNCHANGED reading
  PROVE  Reading'
<1>1. UNCHANGED <<at, root, owner, done>>
  BY DEF reading
<1>2. \A n \in Node : owner'[n] = NoThread /\ done'[n] = 0
  BY <1>1, Unlocked
<1>3. Quiet'
  BY <1>1, <1>2, ThreadAssumption DEF Quiet
<1>4. Counting'
  BY <1>2 DEF Counting
<1>5. Path'
  BY <1>1, <1>2, NullAssumption, ThreadAssumption DEF Path
<1>. QED BY <1>3, <1>4, <1>5 DEF Reading

LEMMA MakeKeeps ==
  ASSUME IInv, NEW n \in Node, Make(n)
  PROVE  IInv'
<1>1. TypeOK'
  BY DEF Make, IInv, TypeOK, reading
<1>2. Tree'
  BY DEF Make, IInv, Tree, Linked, OneSlot, ParentHolds, Acyclic
<1>3. Reading'
  BY WritersAlone DEF Make, MayWrite, IInv
<1>. QED BY <1>1, <1>2, <1>3 DEF IInv

LEMMA FreeKeeps ==
  ASSUME IInv, NEW n \in Node, Free(n)
  PROVE  IInv'
<1>1. n \in live /\ n # Null
  BY NullAssumption DEF Free
<1>2. \A p \in Node, s \in Slot : kids[p][s] # n
  BY <1>1 DEF Free, Held, Kids, IInv, Tree, Linked
<1>3. /\ live' = live \ {n} /\ hashed' = hashed \ {n}
      /\ kids' = [kids EXCEPT ![n] = [s \in Slot |-> Null]]
      /\ parent' = [m \in Node |-> IF m = n \/ m \in Kids(n) THEN Null ELSE parent[m]]
      /\ hash' = [hash EXCEPT ![n] = Null]
      /\ UNCHANGED <<climb, at, root, owner, done>> /\ \A t \in Thread : at[t] = Null
  BY DEF Free, Forget, MayWrite, reading
<1>4. TypeOK'
  BY <1>3 DEF IInv, TypeOK
<1>5. \A q \in Node, s \in Slot : kids'[q][s] = IF q = n THEN Null ELSE kids[q][s]
  BY <1>3 DEF IInv, TypeOK
<1>6. \A m \in Node : m \in Kids(n) => parent[m] = n
  BY KidsTyped DEF IInv, Tree, Linked
<1>7. Linked'
  <2>. SUFFICES ASSUME NEW q \in Node, NEW s \in Slot, kids'[q][s] # Null
                PROVE  q \in live' /\ kids'[q][s] \in live' /\ parent'[kids'[q][s]] = q
    BY DEF Linked
  <2>1. q # n /\ kids'[q][s] = kids[q][s]
    BY <1>5
  <2>2. q \in live /\ kids[q][s] \in live /\ parent[kids[q][s]] = q
    BY <2>1 DEF IInv, Tree, Linked
  <2>3. kids[q][s] \in Node /\ kids[q][s] # n /\ kids[q][s] \notin Kids(n)
    BY <1>2, <1>6, <2>1, <2>2 DEF IInv, TypeOK
  <2>. QED BY <1>3, <2>1, <2>2, <2>3
<1>8. OneSlot'
  BY <1>5 DEF IInv, Tree, OneSlot
<1>9. ParentHolds'
  <2>. SUFFICES ASSUME NEW m \in Node, parent'[m] # Null
                PROVE  \E s \in Slot : kids'[parent'[m]][s] = m
    BY DEF ParentHolds
  <2>1. m # n /\ m \notin Kids(n) /\ parent'[m] = parent[m] /\ m # Null
    BY <1>3, NullAssumption
  <2>2. PICK s \in Slot : kids[parent[m]][s] = m
    BY <2>1 DEF IInv, Tree, ParentHolds
  <2>3. parent[m] # n /\ parent[m] \in Node
    BY <1>1, <2>1, <2>2, KidsTyped DEF IInv, TypeOK
  <2>. QED BY <1>5, <2>1, <2>2, <2>3
<1>10. Acyclic'
  BY <1>3, StillAcyclic DEF IInv, Tree
<1>11. Reading'
  BY <1>3, WritersAlone DEF IInv, reading
<1>. QED BY <1>4, <1>7, <1>8, <1>9, <1>10, <1>11 DEF IInv, Tree

\* A node c that has no parent, or none, is put where old was.
LEMMA PutTree ==
  ASSUME IInv, NEW p \in live, NEW s \in Slot, NEW c \in live \cup {Null},
         c # Null => parent[c] = Null /\ p \notin Below(c), Put(p, s, c, c # Null)
  PROVE  TypeOK' /\ Tree'
<1>. DEFINE old == kids[p][s]
<1>1. /\ kids' = [kids EXCEPT ![p][s] = c]
      /\ parent' = [m \in Node |-> IF m = c /\ c # Null THEN p
                                   ELSE IF m # c /\ m = old THEN Null ELSE parent[m]]
      /\ UNCHANGED <<live, hashed, hash, at, root, owner, done>>
  BY DEF Put, reading
<1>2. p \in Node /\ p # Null /\ old \in Node \cup {Null} /\ c \in Node \cup {Null}
  BY NullAssumption DEF IInv, TypeOK
<1>3. climb' \in Node \cup {Null}
  BY <1>2 DEF Put, Abandoned, IInv, TypeOK
<1>4. TypeOK'
  <2>1. parent' \in [Node -> Node \cup {Null}]
    BY <1>1, <1>2 DEF IInv, TypeOK
  <2>2. kids' \in [Node -> [Slot -> Node \cup {Null}]]
    <3>1. kids[p] \in [Slot -> Node \cup {Null}]
      BY <1>2 DEF IInv, TypeOK
    <3>2. [kids[p] EXCEPT ![s] = c] \in [Slot -> Node \cup {Null}]
      BY <1>2, <3>1
    <3>. QED BY <1>1, <1>2, <3>2 DEF IInv, TypeOK
  <2>. HIDE DEF old
  <2>. QED BY <1>1, <1>3, <2>1, <2>2 DEF IInv, TypeOK
<1>5. \A q \in Node, r \in Slot : kids'[q][r] = IF q = p /\ r = s THEN c ELSE kids[q][r]
  BY <1>1, <1>2 DEF IInv, TypeOK
<1>6. \A m \in Node : parent'[m] = IF m = c THEN p ELSE IF m = old THEN Null ELSE parent[m]
  BY <1>1, NullAssumption
<1>. HIDE DEF old
<1>7. \A q \in Node, r \in Slot : kids[q][r] # c \/ c = Null
  BY <1>2, NullAssumption DEF IInv, Tree, Linked
<1>8. Linked'
  <2>. SUFFICES ASSUME NEW q \in Node, NEW r \in Slot, kids'[q][r] # Null
                PROVE  q \in live /\ kids'[q][r] \in live /\ parent'[kids'[q][r]] = q
    BY <1>1 DEF Linked
  <2>1. CASE q = p /\ r = s
    BY <1>2, <1>5, <1>6, <2>1
  <2>2. CASE ~(q = p /\ r = s)
    <3>1. kids'[q][r] = kids[q][r]
      BY <1>5, <2>2
    <3>2. q \in live /\ kids[q][r] \in live /\ parent[kids[q][r]] = q
      BY <3>1 DEF IInv, Tree, Linked
    <3>3. kids[q][r] \in Node /\ kids[q][r] # c
      BY <1>7, <3>1, <3>2 DEF IInv, TypeOK
    <3>4. kids[q][r] # old
      BY <1>2, <2>2, <3>1, <3>2 DEF IInv, Tree, Linked, OneSlot, old
    <3>. QED BY <1>6, <3>1, <3>2, <3>3, <3>4
  <2>. QED BY <2>1, <2>2
<1>9. OneSlot'
  BY <1>5, <1>7 DEF IInv, Tree, OneSlot
<1>10. ParentHolds'
  <2>. SUFFICES ASSUME NEW m \in Node, parent'[m] # Null
                PROVE  \E r \in Slot : kids'[parent'[m]][r] = m
    BY DEF ParentHolds
  <2>1. CASE m = c
    BY <1>2, <1>5, <1>6, <2>1
  <2>2. CASE m # c
    <3>1. m # old /\ parent'[m] = parent[m]
      BY <1>6, <2>2
    <3>2. PICK r \in Slot : kids[parent[m]][r] = m
      BY <3>1 DEF IInv, Tree, ParentHolds
    <3>3. parent[m] \in Node /\ ~(parent[m] = p /\ r = s)
      BY <3>1, <3>2 DEF IInv, TypeOK, old
    <3>. QED BY <1>5, <3>1, <3>2, <3>3
  <2>. QED BY <2>1, <2>2
<1>11. Acyclic'
  <2>. SUFFICES ASSUME NEW S \in SUBSET Node, S # {}, \A m \in S : parent'[m] \in S
                PROVE  FALSE
    BY DEF Acyclic
  <2>1. CASE c \notin S
    <3>1. \A m \in S : parent[m] \in S
      BY <1>6, <2>1, NullAssumption
    <3>. QED BY <3>1 DEF IInv, Tree, Acyclic
  <2>2. CASE c \in S
    <3>. DEFINE T == S \ Below(c)
    <3>1. c \in Node /\ c # Null /\ p \in S
      BY <1>6, <2>2, NullAssumption
    <3>2. T \in SUBSET Node /\ p \in T
      BY <3>1
    <3>3. \A m \in T : parent[m] \in T
      <4>. SUFFICES ASSUME NEW m \in T
                    PROVE  parent[m] \in T
        OBVIOUS
      <4>1. m \in Node /\ m # c
        BY <3>1, BelowFacts DEF IInv
      <4>2. parent[m] \in S /\ parent[m] # Null /\ parent[m] \in Node
        BY <1>6, <4>1, NullAssumption
      <4>3. \E r \in Slot : kids[parent[m]][r] = m
        BY <4>1, <4>2 DEF IInv, Tree, ParentHolds
      <4>4. m \in Kids(parent[m])
        BY <4>1, <4>2, <4>3, KidsTyped, NullAssumption DEF IInv
      <4>5. parent[m] \notin Below(c)
        BY <3>1, <4>4, BelowFacts DEF IInv
      <4>. QED BY <4>2, <4>5
    <3>. QED BY <3>2, <3>3 DEF IInv, Tree, Acyclic
  <2>. QED BY <2>1, <2>2
<1>. QED BY <1>4, <1>8, <1>9, <1>10, <1>11 DEF Tree

LEMMA AssignKeeps ==
  ASSUME IInv, NEW p \in Node, NEW s \in Slot, NEW c \in Node, Assign(p, s, c)
  PROVE  IInv'
<1>1. p \in live /\ c \in live /\ c # Null /\ parent[c] = Null /\ p \notin Below(c)
      /\ Put(p, s, c, c # Null) /\ \A t \in Thread : at[t] = Null
  BY NullAssumption DEF Assign, Assignable, MayWrite, IsSubTree
<1>2. TypeOK' /\ Tree'
  BY <1>1, PutTree
<1>3. Reading'
  BY <1>1, WritersAlone DEF Put, IInv
<1>. QED BY <1>2, <1>3 DEF IInv

LEMMA ClearKeeps ==
  ASSUME IInv, NEW p \in Node, NEW s \in Slot, Clear(p, s)
  PROVE  IInv'
<1>1. p \in live /\ Put(p, s, Null, Null # Null) /\ \A t \in Thread : at[t] = Null
  BY DEF Clear, MayWrite
<1>2. TypeOK' /\ Tree'
  BY <1>1, PutTree
<1>3. Reading'
  BY <1>1, WritersAlone DEF Put, IInv
<1>. QED BY <1>2, <1>3 DEF IInv

\* resetHash changes no tree.
LEMMA ResetKeeps ==
  ASSUME IInv, ResetHash
  PROVE  IInv'
<1>1. \A t \in Thread : at[t] = Null
  BY DEF ResetHash, IInv, Reading, Quiet
<1>2. TypeOK'
  BY DEF ResetHash, Forget, IInv, TypeOK, reading
<1>3. Tree'
  BY DEF ResetHash, IInv, Tree, Linked, OneSlot, ParentHolds, Acyclic
<1>4. Reading'
  BY <1>1, WritersAlone DEF ResetHash, IInv
<1>. QED BY <1>2, <1>3, <1>4 DEF IInv

\* A copy of the tree below c is put in the slot s of p: f gives the copy of
\* each node, none of which existed.
CopyStep(p, s, c, f) ==
  LET new == {f[x] : x \in Below(c)} IN
  /\ live' = live \cup new
  /\ \A x \in Below(c) : kids'[f[x]] =
       [r \in Slot |-> IF kids[x][r] = Null THEN Null ELSE f[kids[x][r]]]
  /\ \A m \in Node \ new : kids'[m] =
       IF m = p THEN [kids[p] EXCEPT ![s] = f[c]] ELSE kids[m]
  /\ parent'[f[c]] = p
  /\ \A x \in Below(c) \ {c} : parent'[f[x]] = f[parent[x]]
  /\ \A m \in Node \ new : parent'[m] = IF m = kids[p][s] THEN Null ELSE parent[m]
  /\ climb' = Abandoned(p, s)
  /\ kids' = [m \in Node |-> kids'[m]] /\ parent' = [m \in Node |-> parent'[m]]
  /\ UNCHANGED <<hashed, hash, reading>>

LEMMA CopyFacts ==
  ASSUME IInv, NEW p \in Node, NEW s \in Slot, NEW c \in Node, AssignCopy(p, s, c)
  PROVE  \E f \in Copies(c) : CopyStep(p, s, c, f)
<1>. DEFINE B == Below(c)
            new(f) == {f[x] : x \in B}
            old(f, m) == CHOOSE x \in B : f[x] = m
            copy(f, x) == IF x = Null THEN Null ELSE f[x]
<1>1. PICK f \in Copies(c) :
        /\ live' = live \cup new(f)
        /\ kids' = [m \in Node |->
             CASE m \in new(f) -> [r \in Slot |-> copy(f, kids[old(f, m)][r])]
               [] m = p -> [kids[p] EXCEPT ![s] = f[c]]
               [] OTHER -> kids[m]]
        /\ parent' = [m \in Node |->
             CASE m = f[c] -> p
               [] m \in new(f) \ {f[c]} -> f[parent[old(f, m)]]
               [] m = kids[p][s] -> Null
               [] OTHER -> parent[m]]
        /\ climb' = Abandoned(p, s)
        /\ UNCHANGED <<hashed, hash, reading>>
  BY DEF AssignCopy
<1>2. /\ f \in [B -> Node \ live] /\ \A x, y \in B : f[x] = f[y] => x = y
      /\ c \in B /\ p \in live /\ c \in live
  BY BelowFacts DEF Copies, AssignCopy, Assignable, IInv
<1>3. \A x \in B : old(f, f[x]) = x /\ f[x] \in new(f) /\ f[x] \in Node /\ f[x] # p
  BY <1>2
<1>4. kids[p][s] \notin new(f)
  BY <1>2, NullAssumption DEF IInv, Tree, Linked
<1>. HIDE DEF old
<1>5. \A m \in Node : parent'[m] =
         IF m = f[c] THEN p
         ELSE IF m \in new(f) THEN f[parent[old(f, m)]]
         ELSE IF m = kids[p][s] THEN Null ELSE parent[m]
  <2>1. f[c] \in new(f)
    BY <1>2, <1>3
  <2>. HIDE DEF new
  <2>2. \A m \in Node : parent'[m] =
          CASE m = f[c] -> p
            [] m \in new(f) \ {f[c]} -> f[parent[old(f, m)]]
            [] m = kids[p][s] -> Null
            [] OTHER -> parent[m]
    BY <1>1, Zenon
  <2>. QED BY <1>4, <2>1, <2>2
<1>6. \A x \in B : kids'[f[x]] = [r \in Slot |-> copy(f, kids[x][r])]
  BY <1>1, <1>3
<1>7. \A m \in Node \ new(f) : kids'[m] = IF m = p THEN [kids[p] EXCEPT ![s] = f[c]] ELSE kids[m]
  BY <1>1
<1>8. parent'[f[c]] = p
  BY <1>2, <1>3, <1>5
<1>9. \A x \in B \ {c} : parent'[f[x]] = f[parent[x]]
  <2>. TAKE x \in B \ {c}
  <2>1. f[x] \in new(f) /\ f[x] # f[c] /\ f[x] \in Node /\ old(f, f[x]) = x
    BY <1>2, <1>3
  <2>. HIDE DEF new
  <2>. QED BY <1>5, <2>1
<1>10. \A m \in Node \ new(f) : parent'[m] = IF m = kids[p][s] THEN Null ELSE parent[m]
  BY <1>2, <1>3, <1>5
<1>11. kids' = [m \in Node |-> kids'[m]] /\ parent' = [m \in Node |-> parent'[m]]
  BY <1>1
<1>. QED BY <1>1, <1>6, <1>7, <1>8, <1>9, <1>10, <1>11 DEF CopyStep

LEMMA CopyKeeps ==
  ASSUME IInv, NEW p \in Node, NEW s \in Slot, NEW c \in Node, AssignCopy(p, s, c)
  PROVE  IInv'
<1>. DEFINE B == Below(c)
            old == kids[p][s]
<1>1. PICK f \in Copies(c) : CopyStep(p, s, c, f)
  BY CopyFacts
<1>. DEFINE new == {f[x] : x \in B}
<1>2. /\ f \in [B -> Node \ live] /\ \A x, y \in B : f[x] = f[y] => x = y
      /\ p \in live /\ c \in live /\ p \notin B /\ \A t \in Thread : at[t] = Null
  BY DEF Copies, AssignCopy, Assignable, MayWrite
<1>3. /\ B \subseteq Node /\ c \in B /\ \A x \in B \ {c} : parent[x] \in B
      /\ \A x \in B, r \in Slot : kids[x][r] # Null => kids[x][r] \in B \ {c}
  <2>1. B \subseteq Node /\ c \in B /\ \A x \in B : Kids(x) \subseteq B
    BY BelowFacts DEF IInv
  <2>2. \A x \in B \ {c} : parent[x] \in B
    BY BelowUp DEF IInv
  <2>3. \A x \in B : c \notin Kids(x)
    BY BelowTop DEF IInv
  <2>4. \A x \in B, r \in Slot : kids[x][r] # Null => kids[x][r] \in Kids(x)
    BY <2>1, KidsTyped DEF IInv
  <2>. QED BY <2>1, <2>2, <2>3, <2>4
\* The nodes are the old ones, and the copies of what is below c.
<1>4. /\ live' = live \cup new /\ new \subseteq Node /\ new \cap live = {}
      /\ f[c] \in new /\ p \notin new /\ Null \notin new
      /\ \A m \in new : \E x \in B : m = f[x]
      /\ \A x \in B : f[x] \in new
  <2>1. live' = live \cup new
    BY <1>1 DEF CopyStep
  <2>2. \A x \in B : f[x] \in new /\ f[x] \in Node \ live
    BY <1>2
  <2>3. \A m \in new : \E x \in B : m = f[x]
    OBVIOUS
  <2>. HIDE DEF new
  <2>. QED BY <1>2, <1>3, <2>1, <2>2, <2>3, NullAssumption
<1>5. \A x \in B, r \in Slot : kids'[f[x]][r] = IF kids[x][r] = Null THEN Null ELSE f[kids[x][r]]
  <2>. TAKE x \in B
  <2>1. kids'[f[x]] = [r \in Slot |-> IF kids[x][r] = Null THEN Null ELSE f[kids[x][r]]]
    BY <1>1 DEF CopyStep
  <2>. QED BY <2>1
<1>6. \A m \in Node \ new, r \in Slot :
        kids'[m][r] = IF m = p /\ r = s THEN f[c] ELSE kids[m][r]
  <2>1. \A m \in Node \ new : kids'[m] = IF m = p THEN [kids[p] EXCEPT ![s] = f[c]] ELSE kids[m]
    BY <1>1 DEF CopyStep
  <2>2. kids[p] \in [Slot -> Node \cup {Null}]
    BY DEF IInv, TypeOK
  <2>. QED BY <2>1, <2>2
<1>7. parent'[f[c]] = p /\ \A x \in B \ {c} : parent'[f[x]] = f[parent[x]]
  BY <1>1 DEF CopyStep
<1>8. \A m \in Node \ new : parent'[m] = IF m = old THEN Null ELSE parent[m]
  BY <1>1 DEF CopyStep
<1>9. climb' = Abandoned(p, s) /\ UNCHANGED <<hashed, hash, at, root, owner, done>>
  BY <1>1 DEF CopyStep, reading
<1>10. TypeOK'
  <2>1. \A m \in Node : kids'[m] \in [Slot -> Node \cup {Null}]
    <3>1. ASSUME NEW x \in B
          PROVE  kids'[f[x]] \in [Slot -> Node \cup {Null}]
      <4>1. kids'[f[x]] = [r \in Slot |-> IF kids[x][r] = Null THEN Null ELSE f[kids[x][r]]]
        BY <1>1 DEF CopyStep
      <4>2. \A r \in Slot : kids[x][r] # Null => f[kids[x][r]] \in Node
        BY <1>2, <1>3
      <4>. QED BY <4>1, <4>2
    <3>2. ASSUME NEW m \in Node \ new
          PROVE  kids'[m] \in [Slot -> Node \cup {Null}]
      <4>1. kids'[m] = IF m = p THEN [kids[p] EXCEPT ![s] = f[c]] ELSE kids[m]
        BY <1>1 DEF CopyStep
      <4>2. kids[m] \in [Slot -> Node \cup {Null}] /\ kids[p] \in [Slot -> Node \cup {Null}]
            /\ f[c] \in Node
        BY <1>2, <1>3 DEF IInv, TypeOK
      <4>. QED BY <4>1, <4>2
    <3>. QED BY <1>4, <3>1, <3>2
  <2>2. \A m \in Node : parent'[m] \in Node \cup {Null}
    <3>1. \A x \in B : parent'[f[x]] \in Node
      BY <1>2, <1>3, <1>7
    <3>2. \A m \in Node \ new : parent'[m] \in Node \cup {Null}
      BY <1>8 DEF IInv, TypeOK
    <3>. QED BY <1>4, <3>1, <3>2
  <2>3. climb' \in Node \cup {Null}
    BY <1>9 DEF Abandoned, IInv, TypeOK
  <2>4. kids' \in [Node -> [Slot -> Node \cup {Null}]] /\ parent' \in [Node -> Node \cup {Null}]
    <3>1. kids' = [m \in Node |-> kids'[m]] /\ parent' = [m \in Node |-> parent'[m]]
      BY <1>1 DEF CopyStep
    <3>. QED BY <2>1, <2>2, <3>1
  <2>. QED BY <1>4, <1>9, <2>3, <2>4 DEF IInv, TypeOK
<1>. HIDE DEF B, new, old
<1>11. old \in live \cup {Null} /\ (old # Null => parent[old] = p)
  BY DEF IInv, Tree, Linked, old
\* Nothing that was there holds a copy, or is held by one.
<1>12. \A m \in Node \ new, r \in Slot :
         ~(m = p /\ r = s) /\ kids[m][r] # Null =>
           /\ m \in live /\ kids[m][r] \in live /\ kids[m][r] \in Node \ new
           /\ kids[m][r] # old /\ parent[kids[m][r]] = m
  <2>. TAKE m \in Node \ new, r \in Slot
  <2>. HAVE ~(m = p /\ r = s) /\ kids[m][r] # Null
  <2>1. m \in live /\ kids[m][r] \in live /\ parent[kids[m][r]] = m
    BY DEF IInv, Tree, Linked
  <2>2. kids[m][r] # old
    <3>1. kids[m][r] = old => m = p
      BY <1>11, <2>1
    <3>2. m = p => kids[m][r] # kids[p][s]
      BY DEF IInv, Tree, OneSlot
    <3>. QED BY <3>1, <3>2 DEF old
  <2>3. kids[m][r] \in Node
    BY <2>1 DEF IInv, TypeOK
  <2>. QED BY <1>4, <2>1, <2>2, <2>3
<1>13. Linked'
  <2>. SUFFICES ASSUME NEW q \in Node, NEW r \in Slot, kids'[q][r] # Null
                PROVE  q \in live' /\ kids'[q][r] \in live' /\ parent'[kids'[q][r]] = q
    BY DEF Linked
  <2>1. CASE q \in new
    <3>1. PICK x \in B : q = f[x]
      BY <1>4, <2>1
    <3>2. kids[x][r] # Null /\ kids'[q][r] = f[kids[x][r]] /\ kids[x][r] \in B \ {c}
      BY <1>3, <1>5, <3>1
    <3>3. parent[kids[x][r]] = x
      BY <1>3, <3>2 DEF IInv, Tree, Linked
    <3>. QED BY <1>4, <1>7, <3>1, <3>2, <3>3
  <2>2. CASE q = p /\ r = s
    BY <1>2, <1>4, <1>6, <1>7, <2>2
  <2>3. CASE q \notin new /\ ~(q = p /\ r = s)
    <3>1. kids'[q][r] = kids[q][r]
      BY <1>6, <2>3
    <3>2. /\ q \in live /\ kids[q][r] \in live /\ kids[q][r] \in Node \ new
          /\ kids[q][r] # old /\ parent[kids[q][r]] = q
      BY <1>12, <2>3, <3>1
    <3>. QED BY <1>4, <1>8, <3>1, <3>2
  <2>. QED BY <2>1, <2>2, <2>3
<1>14. OneSlot'
  <2>. SUFFICES ASSUME NEW q \in Node, NEW r \in Slot, NEW u \in Slot,
                       kids'[q][r] # Null, kids'[q][r] = kids'[q][u]
                PROVE  r = u
    BY DEF OneSlot
  <2>1. CASE q \in new
    <3>1. PICK x \in B : q = f[x]
      BY <1>4, <2>1
    <3>2. /\ kids[x][r] # Null /\ kids[x][u] # Null /\ kids[x][r] \in B /\ kids[x][u] \in B
          /\ f[kids[x][r]] = f[kids[x][u]]
      BY <1>3, <1>5, <3>1
    <3>3. kids[x][r] = kids[x][u]
      BY <1>2, <3>2
    <3>. QED BY <1>3, <3>2, <3>3 DEF IInv, Tree, OneSlot
  <2>2. CASE q \notin new
    <3>1. CASE q = p /\ (r = s \/ u = s)
      BY <1>4, <1>6, <1>12, <2>2, <3>1
    <3>2. CASE ~(q = p /\ (r = s \/ u = s))
      BY <1>6, <2>2, <3>2 DEF IInv, Tree, OneSlot
    <3>. QED BY <3>1, <3>2
  <2>. QED BY <2>1, <2>2
<1>15. ParentHolds'
  <2>. SUFFICES ASSUME NEW m \in Node, parent'[m] # Null
                PROVE  \E r \in Slot : kids'[parent'[m]][r] = m
    BY DEF ParentHolds
  <2>1. CASE m = f[c]
    <3>1. p \in Node \ new /\ parent'[m] = p
      BY <1>4, <1>7, <2>1
    <3>. QED BY <1>6, <2>1, <3>1
  <2>2. CASE m \in new /\ m # f[c]
    <3>1. PICK x \in B : m = f[x] /\ x # c
      BY <1>4, <2>2
    <3>2. parent[x] \in B /\ parent[x] # Null /\ x \in Node /\ x # Null
      BY <1>3, <3>1, NullAssumption
    <3>3. PICK r \in Slot : kids[parent[x]][r] = x
      BY <3>2 DEF IInv, Tree, ParentHolds
    <3>. QED BY <1>5, <1>7, <3>1, <3>2, <3>3
  <2>3. CASE m \notin new
    <3>1. m # old /\ parent'[m] = parent[m] /\ m # Null
      BY <1>8, <2>3, NullAssumption
    <3>2. PICK r \in Slot : kids[parent[m]][r] = m
      BY <3>1 DEF IInv, Tree, ParentHolds
    <3>3. parent[m] \in Node
      BY <3>1 DEF IInv, TypeOK
    <3>4. parent[m] \in live
      BY <3>1, <3>2, <3>3 DEF IInv, Tree, Linked
    <3>5. ~(parent[m] = p /\ r = s)
      BY <3>1, <3>2 DEF old
    <3>. QED BY <1>4, <1>6, <3>1, <3>2, <3>3, <3>4, <3>5
  <2>. QED BY <2>1, <2>2, <2>3
<1>16. Acyclic'
  <2>. SUFFICES ASSUME NEW S \in SUBSET Node, S # {}, \A m \in S : parent'[m] \in S
                PROVE  FALSE
    BY DEF Acyclic
  <2>1. CASE S \subseteq new
    <3>. DEFINE X == {x \in B : f[x] \in S}
    <3>1. X \in SUBSET Node /\ X # {}
      BY <1>3, <1>4, <2>1
    <3>2. c \notin X
      BY <1>4, <1>7, <2>1
    <3>3. \A x \in X : parent[x] \in X
      BY <1>3, <1>7, <3>2
    <3>. QED BY <3>1, <3>3 DEF IInv, Tree, Acyclic
  <2>2. CASE ~(S \subseteq new)
    <3>. DEFINE X == S \ new
    <3>1. X \in SUBSET Node /\ X # {}
      BY <2>2
    <3>2. \A m \in X : parent[m] \in X
      <4>. SUFFICES ASSUME NEW m \in X
                    PROVE  parent[m] \in X
        OBVIOUS
      <4>1. parent'[m] = parent[m] /\ parent[m] \in S /\ parent[m] \in Node /\ parent[m] # Null
        BY <1>8, NullAssumption
      <4>2. \E r \in Slot : kids[parent[m]][r] = m
        BY <4>1 DEF IInv, Tree, ParentHolds
      <4>3. parent[m] \in live
        BY <4>1, <4>2, NullAssumption DEF IInv, Tree, Linked
      <4>. QED BY <1>4, <4>1, <4>3
    <3>. QED BY <3>1, <3>2 DEF IInv, Tree, Acyclic
  <2>. QED BY <2>1, <2>2
<1>17. Reading'
  BY <1>2, <1>9, WritersAlone DEF IInv, reading
<1>. QED BY <1>10, <1>13, <1>14, <1>15, <1>16, <1>17 DEF IInv, Tree

-----------------------------------------------------------------------------
\* Reading changes no tree.
LEMMA SameTree ==
  ASSUME Tree, UNCHANGED <<live, kids, parent>>
  PROVE  Tree'
BY DEF Tree, Linked, OneSlot, ParentHolds, Acyclic

\* A node that a thread has the lock of is not locked by another one.
LEMMA NoThreadIs ==
  ASSUME NEW t \in Thread
  PROVE  t # NoThread
BY ThreadAssumption

LEMMA AskKeeps ==
  ASSUME IInv, NEW t \in Thread, NEW n \in Node, Ask(t, n)
  PROVE  IInv'
<1>1. /\ climb = Null /\ at[t] = Null /\ n \in live
      /\ at' = [at EXCEPT ![t] = n] /\ root' = [root EXCEPT ![t] = n]
      /\ UNCHANGED <<live, kids, parent, climb, hashed, hash, owner, done>>
  BY DEF Ask, writing
<1>2. TypeOK' /\ Tree'
  <2>1. TypeOK'
    BY <1>1 DEF IInv, TypeOK
  <2>. QED BY <1>1, <2>1, SameTree DEF IInv
<1>3. /\ at'[t] = n /\ root'[t] = n
      /\ \A u \in Thread \ {t} : at'[u] = at[u] /\ root'[u] = root[u]
  BY <1>1 DEF IInv, TypeOK
<1>4. \A m \in Node : owner[m] # t
  BY <1>1 DEF IInv, Reading, Quiet
<1>5. Quiet'
  BY <1>1, <1>3, <1>4 DEF IInv, Reading, Quiet
<1>6. Counting'
  BY <1>1 DEF IInv, Reading, Counting
<1>7. Path'
  BY <1>1, <1>3, <1>4 DEF IInv, Reading, Path, OnPath
<1>. QED BY <1>2, <1>5, <1>6, <1>7 DEF IInv, Reading

LEMMA EnterKeeps ==
  ASSUME IInv, NEW t \in Thread, Enter(t)
  PROVE  IInv'
<1>. DEFINE n == at[t]
<1>1. /\ n # Null /\ owner[n] = NoThread /\ n \notin hashed
      /\ owner' = [owner EXCEPT ![n] = t]
      /\ UNCHANGED <<live, kids, parent, climb, hashed, hash, at, root, done>>
  BY DEF Enter, writing
<1>2. TypeOK' /\ Tree'
  <2>1. TypeOK'
    BY <1>1 DEF IInv, TypeOK
  <2>. QED BY <1>1, <2>1, SameTree DEF IInv
<1>3. n \in Node /\ owner'[n] = t /\ \A m \in Node \ {n} : owner'[m] = owner[m]
  BY <1>1 DEF IInv, TypeOK
<1>4. done[n] = 0 /\ \A s \in Slot : ~(s <= done[n])
  BY <1>1, <1>3, ArityAssumption DEF IInv, Reading, Counting, Slot
<1>5. Quiet'
  BY <1>1, <1>3 DEF IInv, Reading, Quiet
<1>6. Counting'
  BY <1>1, <1>3, <1>4, NoThreadIs DEF IInv, Reading, Counting
<1>7. Path'
  <2>. SUFFICES ASSUME NEW u \in Thread, NEW m \in Node, m = at[u] \/ owner'[m] = u, m # root[u]
                PROVE  OnPath(u, m)'
    BY <1>1 DEF Path
  <2>1. OnPath(u, m)
    BY <1>1, <1>3 DEF IInv, Reading, Path
  <2>2. parent[m] \in Node /\ owner[parent[m]] = u
    BY <2>1 DEF OnPath, IInv, TypeOK
  <2>3. parent[m] # n
    BY <1>1, <2>2, NoThreadIs
  <2>. QED BY <1>1, <1>3, <2>1, <2>2, <2>3 DEF OnPath
<1>. QED BY <1>2, <1>5, <1>6, <1>7 DEF IInv, Reading

LEMMA ChildKeeps ==
  ASSUME IInv, NEW t \in Thread, HashChild(t)
  PROVE  IInv'
<1>. DEFINE n == at[t]
            child == kids[n][done[n] + 1]
<1>1. /\ n # Null /\ owner[n] = t /\ done[n] < Arity
      /\ \/ /\ child = Null
            /\ done' = [done EXCEPT ![n] = done[n] + 1]
            /\ at' = at
         \/ /\ child # Null
            /\ at' = [at EXCEPT ![t] = child]
            /\ done' = done
      /\ UNCHANGED <<live, kids, parent, climb, hashed, hash, root, owner>>
  BY DEF HashChild, writing, Counted
<1>2. n \in Node /\ done[n] \in Nat /\ done[n] + 1 \in Slot /\ climb = Null /\ n \in live
  <2>1. n \in Node /\ done[n] \in Nat
    BY <1>1 DEF IInv, TypeOK
  <2>2. climb = Null /\ n \in live
    BY <1>1 DEF IInv, Reading, Quiet
  <2>. QED BY <1>1, <2>1, <2>2, ArityAssumption DEF Slot
<1>3. child \in live \cup {Null} /\ child \in Node \cup {Null} /\ (child # Null => parent[child] = n)
  BY <1>2 DEF IInv, TypeOK, Tree, Linked
<1>. HIDE DEF n, child
<1>4. Tree'
  BY <1>1, SameTree DEF IInv
<1>5. CASE child = Null
  <2>1. /\ done' = [done EXCEPT ![n] = done[n] + 1] /\ at' = at
        /\ UNCHANGED <<live, kids, parent, climb, hashed, hash, root, owner>>
    BY <1>1, <1>5
  <2>2. TypeOK'
    BY <1>2, <2>1 DEF IInv, TypeOK
  <2>3. done'[n] = done[n] + 1 /\ \A m \in Node \ {n} : done'[m] = done[m]
    BY <1>2, <2>1 DEF IInv, TypeOK
  <2>4. Quiet'
    BY <2>1 DEF IInv, Reading, Quiet
  <2>5. Counting'
    <3>. SUFFICES ASSUME NEW m \in Node
                  PROVE  /\ owner[m] = NoThread => done'[m] = 0
                         /\ owner[m] # NoThread =>
                              /\ m \notin hashed
                              /\ \A s \in Slot : s <= done'[m] => kids[m][s] \in hashed \cup {Null}
      BY <2>1 DEF Counting
    <3>1. CASE m # n
      BY <2>3, <3>1 DEF IInv, Reading, Counting
    <3>2. CASE m = n
      <4>1. owner[n] # NoThread /\ n \notin hashed
        BY <1>1, <1>2, NoThreadIs DEF IInv, Reading, Counting
      <4>2. ASSUME NEW s \in Slot, s <= done[n] + 1
            PROVE  kids[n][s] \in hashed \cup {Null}
        <5>1. CASE s <= done[n]
          BY <1>2, <4>1, <5>1 DEF IInv, Reading, Counting
        <5>2. CASE s = done[n] + 1
          BY <1>5, <5>2 DEF child
        <5>3. s \in Nat
          BY ArityAssumption DEF Slot
        <5>. QED BY <1>2, <4>2, <5>1, <5>2, <5>3
      <4>. QED BY <2>3, <3>2, <4>1, <4>2
    <3>. QED BY <3>1, <3>2
  <2>6. Path'
    <3>. SUFFICES ASSUME NEW u \in Thread, NEW m \in Node, m = at[u] \/ owner[m] = u, m # root[u]
                  PROVE  OnPath(u, m)'
      BY <2>1 DEF Path
    <3>1. OnPath(u, m) /\ m # Null
      BY NullAssumption DEF IInv, Reading, Path
    <3>2. parent[m] # n
      BY <1>5, <3>1 DEF OnPath, child
    <3>3. parent[m] \in Node
      BY <3>1 DEF OnPath, IInv, TypeOK
    <3>. QED BY <2>1, <2>3, <3>1, <3>2, <3>3 DEF OnPath
  <2>. QED BY <1>4, <2>2, <2>4, <2>5, <2>6 DEF IInv, Reading
<1>6. CASE child # Null
  <2>1. /\ at' = [at EXCEPT ![t] = child] /\ done' = done
        /\ UNCHANGED <<live, kids, parent, climb, hashed, hash, root, owner>>
    BY <1>1, <1>6
  <2>2. TypeOK'
    BY <1>3, <2>1 DEF IInv, TypeOK
  <2>3. at'[t] = child /\ \A u \in Thread \ {t} : at'[u] = at[u]
    BY <2>1 DEF IInv, TypeOK
  <2>4. Quiet'
    BY <1>2, <1>3, <1>6, <2>1, <2>3 DEF IInv, Reading, Quiet
  <2>5. Counting'
    BY <2>1 DEF IInv, Reading, Counting
  <2>6. Path'
    <3>. SUFFICES ASSUME NEW u \in Thread, NEW m \in Node, m = at'[u] \/ owner[m] = u, m # root[u]
                  PROVE  OnPath(u, m)
      BY <2>1 DEF Path, OnPath
    <3>1. CASE u = t /\ m = child
      BY <1>1, <1>2, <1>3, <1>6, <3>1, NullAssumption DEF OnPath, child, IInv, TypeOK
    <3>2. CASE ~(u = t /\ m = child)
      BY <2>3, <3>2 DEF IInv, Reading, Path
    <3>. QED BY <3>1, <3>2
  <2>. QED BY <1>4, <2>2, <2>4, <2>5, <2>6 DEF IInv, Reading
<1>. QED BY <1>5, <1>6

\* hash() of n returns: n has its hash, and no lock any more.
LEMMA ReturnKeeps ==
  ASSUME IInv, NEW t \in Thread, NEW n \in Node, n = at[t], Return(t, n),
         owner[n] = NoThread \/ (owner[n] = t /\ done[n] = Arity),
         \A m \in Node : owner'[m] = IF m = n THEN NoThread ELSE owner[m],
         hashed' = hashed \cup {n}, UNCHANGED <<live, kids, parent, climb>>
  PROVE  Reading' /\ at' \in [Thread -> Node \cup {Null}] /\ root' \in [Thread -> Node \cup {Null}]
         /\ done' \in [Node -> Nat]
<1>. DEFINE q == parent[n]
\* No node on a path is a child of n.
<1>1. ASSUME NEW u \in Thread, NEW m \in Node, m = at[u] \/ owner[m] = u, m # root[u]
      PROVE  OnPath(u, m) /\ parent[m] \in Node /\ parent[m] # n
  <2>1. OnPath(u, m)
    BY <1>1 DEF IInv, Reading, Path
  <2>2. parent[m] \in Node /\ owner[parent[m]] = u /\ done[parent[m]] + 1 \in Slot
    BY <2>1 DEF OnPath, IInv, TypeOK
  <2>3. ~(Arity + 1 \in Slot)
    BY ArityAssumption DEF Slot
  <2>4. parent[m] # n
    BY <2>2, <2>3, NoThreadIs
  <2>. QED BY <2>1, <2>2, <2>4
<1>2. climb = Null /\ n \in live
  BY NullAssumption DEF IInv, Reading, Quiet
<1>3. \A m \in Node : owner'[m] # NoThread => owner'[m] = owner[m] /\ m # n
  OBVIOUS
<1>4. \A m \in Node : owner[m] # NoThread /\ m # n =>
        /\ m \notin hashed'
        /\ \A s \in Slot : s <= done[m] => kids[m][s] \in hashed' \cup {Null}
  BY DEF IInv, Reading, Counting
<1>5. \A m \in Node : owner[m] = NoThread => done[m] = 0
  BY DEF IInv, Reading, Counting
<1>6. CASE n = root[t]
  <2>1. /\ at' = [at EXCEPT ![t] = Null] /\ root' = [root EXCEPT ![t] = Null]
        /\ done' = [done EXCEPT ![n] = 0]
    BY <1>6 DEF Return
  <2>2. /\ at'[t] = Null /\ \A u \in Thread \ {t} : at'[u] = at[u] /\ root'[u] = root[u]
        /\ done'[n] = 0 /\ \A m \in Node \ {n} : done'[m] = done[m]
    BY <2>1 DEF IInv, TypeOK
  <2>3. \A m \in Node \ {n} : owner[m] # t
    <3>. DEFINE O == {m \in Node \ {n} : owner[m] = t}
    <3>1. \A m \in O : parent[m] \in O
      BY <1>1, <1>6 DEF OnPath
    <3>2. O = {}
      BY <3>1 DEF IInv, Tree, Acyclic
    <3>. QED BY <3>2
  <2>4. Quiet'
    <3>1. \A m \in Node : owner'[m] # t
      BY <2>3, NoThreadIs
    <3>2. \A u \in Thread \ {t} : at[u] = Null => \A m \in Node : owner'[m] # u
      BY NoThreadIs DEF IInv, Reading, Quiet
    <3>. QED BY <1>2, <2>2, <3>1, <3>2 DEF IInv, Reading, Quiet
  <2>5. Counting'
    BY <1>3, <1>4, <1>5, <2>2 DEF Counting
  <2>6. Path'
    <3>. SUFFICES ASSUME NEW u \in Thread, NEW m \in Node, m = at'[u] \/ owner'[m] = u, m # root'[u]
                  PROVE  OnPath(u, m)'
      BY DEF Path
    <3>1. owner'[m] = u => owner[m] = u /\ m # n
      BY NoThreadIs
    <3>2. u # t
      BY <2>2, <2>3, <3>1, NullAssumption
    <3>3. OnPath(u, m) /\ parent[m] \in Node /\ parent[m] # n
      BY <1>1, <2>2, <3>1, <3>2
    <3>. QED BY <2>2, <3>3 DEF OnPath
  <2>7. /\ at' \in [Thread -> Node \cup {Null}] /\ root' \in [Thread -> Node \cup {Null}]
        /\ done' \in [Node -> Nat]
    BY <2>1 DEF IInv, TypeOK
  <2>. QED BY <2>4, <2>5, <2>6, <2>7 DEF Reading
<1>7. CASE n # root[t]
  <2>1. OnPath(t, n) /\ q \in Node /\ q # n
    BY <1>1, <1>7
  <2>2. owner[q] = t /\ done[q] \in Nat /\ done[q] + 1 \in Slot /\ kids[q][done[q] + 1] = n /\ q # Null
    BY <2>1, NullAssumption DEF OnPath, IInv, TypeOK
  <2>3. /\ at' = [at EXCEPT ![t] = q] /\ root' = root
        /\ done' = [done EXCEPT ![q] = done[q] + 1, ![n] = 0]
    BY <1>7 DEF Return, Counted
  <2>. HIDE DEF q
  <2>4. /\ at'[t] = q /\ \A u \in Thread \ {t} : at'[u] = at[u]
        /\ done'[n] = 0 /\ done'[q] = done[q] + 1
        /\ \A m \in Node \ {n, q} : done'[m] = done[m]
    BY <2>1, <2>3 DEF IInv, TypeOK
  <2>5. Quiet'
    <3>1. q \in live
      BY <2>1, <2>2, NullAssumption DEF IInv, Tree, Linked
    <3>2. \A u \in Thread \ {t} : at[u] = Null => \A m \in Node : owner'[m] # u
      BY NoThreadIs DEF IInv, Reading, Quiet
    <3>. QED BY <1>2, <2>2, <2>4, <3>1, <3>2 DEF IInv, Reading, Quiet
  <2>6. Counting'
    <3>. SUFFICES ASSUME NEW m \in Node
                  PROVE  /\ owner'[m] = NoThread => done'[m] = 0
                         /\ owner'[m] # NoThread =>
                              /\ m \notin hashed'
                              /\ \A s \in Slot : s <= done'[m] => kids[m][s] \in hashed' \cup {Null}
      BY DEF Counting
    <3>1. CASE m = n
      BY <2>4, <3>1
    <3>2. CASE m = q
      <4>1. owner[q] # NoThread /\ owner'[q] = owner[q]
        BY <2>1, <2>2, NoThreadIs
      <4>2. ASSUME NEW s \in Slot, s <= done[q] + 1
            PROVE  kids[q][s] \in hashed' \cup {Null}
        <5>1. CASE s <= done[q]
          BY <1>4, <2>1, <4>1, <5>1
        <5>2. CASE s = done[q] + 1
          BY <2>2, <5>2
        <5>3. s \in Nat
          BY ArityAssumption DEF Slot
        <5>. QED BY <2>2, <4>2, <5>1, <5>2, <5>3
      <4>. QED BY <1>4, <2>1, <2>4, <3>2, <4>1, <4>2
    <3>3. CASE m # n /\ m # q
      BY <1>4, <1>5, <2>4, <3>3
    <3>. QED BY <3>1, <3>2, <3>3
  <2>7. Path'
    <3>. SUFFICES ASSUME NEW u \in Thread, NEW m \in Node, m = at'[u] \/ owner'[m] = u, m # root[u]
                  PROVE  OnPath(u, m)'
      BY <2>3 DEF Path
    <3>1. owner'[m] = u => owner[m] = u /\ m # n
      BY NoThreadIs
    <3>2. m = at[u] \/ owner[m] = u
      BY <2>2, <2>4, <3>1
    <3>3. OnPath(u, m) /\ parent[m] \in Node /\ parent[m] # n
      BY <1>1, <3>2
    <3>4. parent[m] # q
      <4>1. SUFFICES ASSUME parent[m] = q
                     PROVE  FALSE
        OBVIOUS
      <4>2. u = t /\ m = n
        BY <2>2, <3>3, <4>1 DEF OnPath
      <4>. QED BY <2>1, <2>4, <3>1, <4>2
    <3>. QED BY <2>4, <3>3, <3>4 DEF OnPath
  <2>8. /\ at' \in [Thread -> Node \cup {Null}] /\ root' \in [Thread -> Node \cup {Null}]
        /\ done' \in [Node -> Nat]
    BY <2>1, <2>2, <2>3 DEF IInv, TypeOK
  <2>. QED BY <2>5, <2>6, <2>7, <2>8 DEF Reading
<1>. QED BY <1>6, <1>7

LEMMA KeptKeeps ==
  ASSUME IInv, NEW t \in Thread, Kept(t)
  PROVE  IInv'
<1>. DEFINE n == at[t]
<1>1. /\ n # Null /\ owner[n] = NoThread /\ n \in hashed /\ Return(t, n)
      /\ UNCHANGED <<live, kids, parent, climb, hashed, hash, owner>>
  BY DEF Kept, writing
<1>2. n \in Node /\ hashed' = hashed \cup {n}
      /\ \A m \in Node : owner'[m] = IF m = n THEN NoThread ELSE owner[m]
  BY <1>1 DEF IInv, TypeOK
<1>3. Reading' /\ at' \in [Thread -> Node \cup {Null}] /\ root' \in [Thread -> Node \cup {Null}]
      /\ done' \in [Node -> Nat]
  BY <1>1, <1>2, ReturnKeeps
<1>4. TypeOK'
  BY <1>1, <1>3 DEF IInv, TypeOK
<1>. QED BY <1>1, <1>3, <1>4, SameTree DEF IInv

LEMMA CompHashKeeps ==
  ASSUME IInv, NEW t \in Thread, CompHash(t)
  PROVE  IInv'
<1>. DEFINE n == at[t]
<1>1. /\ n # Null /\ owner[n] = t /\ done[n] = Arity /\ Return(t, n)
      /\ hashed' = hashed \cup {n} /\ owner' = [owner EXCEPT ![n] = NoThread]
      /\ hash' = [hash EXCEPT ![n] = HashOf(n)]
      /\ UNCHANGED <<live, kids, parent, climb>>
  BY DEF CompHash, writing
<1>2. n \in Node /\ n \in live
      /\ \A m \in Node : owner'[m] = IF m = n THEN NoThread ELSE owner[m]
  BY <1>1 DEF IInv, TypeOK, Reading, Quiet
<1>3. Reading' /\ at' \in [Thread -> Node \cup {Null}] /\ root' \in [Thread -> Node \cup {Null}]
      /\ done' \in [Node -> Nat]
  BY <1>1, <1>2, ReturnKeeps
<1>4. TypeOK'
  BY <1>1, <1>2, <1>3 DEF IInv, TypeOK
<1>. QED BY <1>1, <1>3, <1>4, SameTree DEF IInv

-----------------------------------------------------------------------------
LEMMA InitIInv ==
  ASSUME Init
  PROVE  IInv
<1>1. TypeOK
  BY DEF Init, TypeOK
<1>2. Tree
  BY NullAssumption DEF Init, Tree, Linked, OneSlot, ParentHolds, Acyclic
<1>3. Quiet
  BY NoThreadIs DEF Init, Quiet
<1>4. Counting
  BY DEF Init, Counting
<1>5. Path
  BY NullAssumption, NoThreadIs DEF Init, Path
<1>. QED BY <1>1, <1>2, <1>3, <1>4, <1>5 DEF IInv, Reading

LEMMA NextIInv ==
  ASSUME IInv, [Next]_vars
  PROVE  IInv'
<1>1. CASE UNCHANGED vars
  <2>1. UNCHANGED <<live, kids, parent, climb, hashed, hash, at, root, owner, done>>
    BY <1>1 DEF vars, writing, reading
  <2>. QED BY <2>1 DEF IInv, TypeOK, Tree, Linked, OneSlot, ParentHolds, Acyclic,
                       Reading, Quiet, Counting, Path, OnPath
<1>2. ASSUME NEW n \in Node, Make(n) \/ Free(n)
      PROVE  IInv'
  BY <1>2, MakeKeeps, FreeKeeps
<1>3. ASSUME NEW p \in Node, NEW c \in Node, NEW s \in Slot,
             Assign(p, s, c) \/ AssignCopy(p, s, c) \/ Clear(p, s)
      PROVE  IInv'
  BY <1>3, AssignKeeps, CopyKeeps, ClearKeeps
<1>4. ASSUME NEW t \in Thread, Read(t)
      PROVE  IInv'
  BY <1>4, EnterKeeps, KeptKeeps, ChildKeeps, CompHashKeeps DEF Read
<1>. QED
  BY <1>1, <1>2, <1>3, <1>4, ResetKeeps, AskKeeps DEF Next

\* The tree, and the locks of the threads that hash, for any callers.
THEOREM Inductive == Spec => []IInv
<1>1. Init => IInv
  BY InitIInv
<1>2. IInv /\ [Next]_vars => IInv'
  BY NextIInv
<1>. QED
  BY <1>1, <1>2, PTL DEF Spec

\* A node sits in one SubTree and knows whose it is, whatever was assigned,
\* copied, cleared and freed before (SubTree::operator=, adopt, abandon).
THEOREM HasOneParent == Spec => []OneParent
<1>1. IInv => OneParent
  <2>. SUFFICES ASSUME IInv, NEW p \in live, NEW q \in live, NEW s \in Slot, NEW r \in Slot,
                       kids[p][s] # Null, kids[p][s] = kids[q][r]
                PROVE  p = q /\ s = r /\ parent[kids[p][s]] = p
    BY DEF OneParent
  <2>1. p \in Node /\ q \in Node
    BY DEF IInv, TypeOK
  <2>2. parent[kids[p][s]] = p /\ parent[kids[p][s]] = q
    BY <2>1 DEF IInv, Tree, Linked
  <2>. QED BY <2>1, <2>2 DEF IInv, Tree, OneSlot
<1>. QED
  BY <1>1, Inductive, PTL

-----------------------------------------------------------------------------
\* A hash stays right while the children and their hashes are the same.
LEMMA StaysRight ==
  ASSUME TypeOK, NEW n \in Node, Right(n), kids'[n] = kids[n], hash'[n] = hash[n],
         \A k \in Kids(n) : k \in hashed' /\ hash'[k] = hash[k]
  PROVE  Right(n)'
<1>1. Kids(n)' = Kids(n)
  BY DEF Kids
<1>2. \A s \in Slot : kids[n][s] # Null => hash'[kids[n][s]] = hash[kids[n][s]]
  BY KidsTyped
<1>3. [s \in Slot |-> IF kids'[n][s] = Null THEN Null ELSE hash'[kids'[n][s]]]
      = [s \in Slot |-> IF kids[n][s] = Null THEN Null ELSE hash[kids[n][s]]]
  BY <1>2
<1>4. HashOf(n)' = HashOf(n)
  BY <1>3 DEF HashOf
<1>. QED BY <1>1, <1>4 DEF Right

\* Nobody's hash is touched, and only p gets other children: then resetHash
\* starts at p, if p has a hash.
LEMMA WriteRight ==
  ASSUME IInv, AllRight, climb = Null, UNCHANGED <<hashed, hash>>, NEW p \in Node,
         \A n \in hashed : n # p => kids'[n] = kids[n],
         p \in hashed => climb' = p
  PROVE  AllRight'
<1>. SUFFICES ASSUME NEW n \in hashed, n # climb'
              PROVE  Right(n)'
  BY DEF AllRight
<1>1. n \in Node /\ n # p
  BY DEF IInv, TypeOK
<1>2. Right(n)
  BY <1>1, NullAssumption DEF AllRight
<1>3. \A k \in Kids(n) : k \in hashed
  BY <1>2 DEF Right
<1>. QED BY <1>1, <1>2, <1>3, StaysRight DEF IInv

LEMMA SameRight ==
  ASSUME AllRight, UNCHANGED <<kids, climb, hashed, hash>>
  PROVE  AllRight'
BY DEF AllRight, Right, Kids, HashOf

\* What held n has forgotten nothing: nobody holds n.
LEMMA FreeRight ==
  ASSUME IInv, AllRight, NEW n \in Node, Free(n)
  PROVE  AllRight'
<1>1. n \in live /\ n \notin Held /\ n # Null /\ climb = Null /\ climb' = Null
  BY NullAssumption DEF Free, MayWrite
<1>2. /\ hashed' = hashed \ {n} /\ hash' = [hash EXCEPT ![n] = Null]
      /\ kids' = [kids EXCEPT ![n] = [s \in Slot |-> Null]]
  BY DEF Free, Forget
<1>. SUFFICES ASSUME NEW m \in hashed, m # n
              PROVE  Right(m)'
  BY <1>2 DEF AllRight
<1>3. m \in Node /\ m \in live /\ Right(m)
  BY <1>1, NullAssumption DEF IInv, TypeOK, AllRight
<1>4. n \notin Kids(m)
  BY <1>1, <1>3 DEF Held
<1>5. kids'[m] = kids[m]
  BY <1>2, <1>3 DEF IInv, TypeOK
<1>6. \A k \in Kids(m) : k \in Node /\ k \in hashed /\ k # n
  BY <1>3, <1>4, KidsTyped DEF Right, IInv
<1>7. \A k \in Node : k # n => hash'[k] = hash[k]
  BY <1>2 DEF IInv, TypeOK
<1>. QED BY <1>2, <1>3, <1>5, <1>6, <1>7, StaysRight DEF IInv

\* Who changes a SubTree of p starts resetHash at p, unless p has no hash.
LEMMA AbandonsRight ==
  ASSUME "fill" \notin Gaps, IInv, NEW p \in Node, NEW s \in Slot,
         Fill(p, s), p \in hashed
  PROVE  Abandoned(p, s) = p
<1>1. kids[p][s] # Null
  BY DEF Fill
<1>2. parent[kids[p][s]] = p
  BY <1>1 DEF IInv, Tree, Linked
<1>. QED BY <1>1, <1>2 DEF Abandoned

LEMMA PutRight ==
  ASSUME "fill" \notin Gaps, IInv, AllRight, climb = Null, NEW p \in Node, NEW s \in Slot,
         Fill(p, s), NEW c, NEW adopts, Put(p, s, c, adopts)
  PROVE  AllRight'
<1>1. kids' = [kids EXCEPT ![p][s] = c] /\ climb' = Abandoned(p, s) /\ UNCHANGED <<hashed, hash>>
  BY DEF Put
<1>2. \A n \in hashed : n # p => kids'[n] = kids[n]
  BY <1>1 DEF IInv, TypeOK
<1>. QED BY <1>1, <1>2, AbandonsRight, WriteRight

LEMMA CopyRight ==
  ASSUME "fill" \notin Gaps, IInv, AllRight, NEW p \in Node, NEW s \in Slot, NEW c \in Node,
         AssignCopy(p, s, c)
  PROVE  AllRight'
<1>1. PICK f \in Copies(c) : CopyStep(p, s, c, f)
  BY CopyFacts
<1>. DEFINE new == {f[x] : x \in Below(c)}
<1>2. climb = Null /\ Fill(p, s) /\ f \in [Below(c) -> Node \ live]
  BY DEF AssignCopy, Assignable, MayWrite, Copies
<1>3. \A n \in hashed : n \in Node \ new
  BY <1>2 DEF IInv, TypeOK
<1>4. /\ \A m \in Node \ new : m # p => kids'[m] = kids[m]
      /\ climb' = Abandoned(p, s) /\ UNCHANGED <<hashed, hash>>
  BY <1>1 DEF CopyStep
<1>. HIDE DEF new
<1>5. \A n \in hashed : n # p => kids'[n] = kids[n]
  BY <1>3, <1>4
<1>. QED BY <1>2, <1>4, <1>5, AbandonsRight, WriteRight

\* The hash of the parent is wrong then, and resetHash gets to it.
LEMMA ResetRight ==
  ASSUME IInv, AllRight, ResetHash
  PROVE  AllRight'
<1>1. /\ climb # Null /\ kids' = kids
      /\ hashed' = hashed \ {climb} /\ hash' = [hash EXCEPT ![climb] = Null]
      /\ climb' = IF climb \in hashed THEN parent[climb] ELSE Null
  BY DEF ResetHash, Forget
<1>. SUFFICES ASSUME NEW n \in hashed, n # climb, n # climb'
              PROVE  Right(n)'
  BY <1>1 DEF AllRight
<1>2. n \in Node /\ climb \in Node /\ Right(n)
  BY <1>1 DEF IInv, TypeOK, AllRight
<1>3. climb \notin Kids(n)
  <2>1. SUFFICES ASSUME climb \in Kids(n)
                 PROVE  FALSE
    OBVIOUS
  <2>2. climb \in hashed
    BY <1>2, <2>1 DEF Right
  <2>3. parent[climb] = n
    BY <1>2, <2>1, KidsTyped DEF IInv, Tree, Linked
  <2>. QED BY <1>1, <2>2, <2>3
<1>4. \A k \in Kids(n) : k \in Node /\ k \in hashed /\ k # climb
  BY <1>2, <1>3, KidsTyped DEF Right, IInv
<1>5. \A k \in Node : k # climb => hash'[k] = hash[k]
  BY <1>1 DEF IInv, TypeOK
<1>. QED BY <1>1, <1>2, <1>4, <1>5, StaysRight DEF IInv

\* compHash of n has hashed all children of n, and who holds n has no hash.
LEMMA CompHashRight ==
  ASSUME IInv, AllRight, NEW t \in Thread, CompHash(t)
  PROVE  AllRight'
<1>. PICK n : n = at[t]
  OBVIOUS
<1>1. /\ n # Null /\ owner[n] = t /\ done[n] = Arity
      /\ hashed' = hashed \cup {n} /\ hash' = [hash EXCEPT ![n] = HashOf(n)]
      /\ UNCHANGED <<kids, climb>>
  BY DEF CompHash, writing
<1>2. n \in Node /\ climb = Null
  BY <1>1 DEF IInv, TypeOK, Reading, Quiet
<1>3. n \notin hashed /\ \A s \in Slot : kids[n][s] \in hashed \cup {Null}
  <2>1. owner[n] # NoThread
    BY <1>1, ThreadAssumption
  <2>2. \A s \in Slot : s <= done[n]
    BY <1>1, ArityAssumption DEF Slot
  <2>. QED BY <1>2, <2>1, <2>2 DEF IInv, Reading, Counting
<1>4. /\ hash'[n] = HashOf(n)
      /\ \A k \in Node : k # n => hash'[k] = hash[k]
  BY <1>1, <1>2 DEF IInv, TypeOK
<1>5. Right(n)'
  <2>1. Kids(n) \subseteq hashed /\ Kids(n)' = Kids(n)
    BY <1>1, <1>3 DEF Kids
  <2>2. \A s \in Slot : kids[n][s] # Null => hash'[kids[n][s]] = hash[kids[n][s]]
    BY <1>3, <1>4 DEF IInv, TypeOK
  <2>3. [s \in Slot |-> IF kids'[n][s] = Null THEN Null ELSE hash'[kids'[n][s]]]
        = [s \in Slot |-> IF kids[n][s] = Null THEN Null ELSE hash[kids[n][s]]]
    BY <1>1, <2>2
  <2>4. HashOf(n)' = HashOf(n)
    BY <2>3 DEF HashOf
  <2>. QED BY <1>1, <1>4, <2>1, <2>4 DEF Right
<1>6. ASSUME NEW m \in hashed
      PROVE  Right(m)'
  <2>1. m \in Node /\ m # n /\ Right(m)
    BY <1>2, <1>3, NullAssumption DEF IInv, TypeOK, AllRight
  <2>2. \A k \in Kids(m) : k \in hashed /\ k \in Node /\ k # n
    BY <1>3, <2>1, KidsTyped DEF Right, IInv
  <2>. QED BY <1>1, <1>4, <2>1, <2>2, StaysRight DEF IInv
<1>. QED BY <1>1, <1>5, <1>6 DEF AllRight

LEMMA NextRight ==
  ASSUME "fill" \notin Gaps, IInv, AllRight, [Next]_vars
  PROVE  AllRight'
<1>1. CASE UNCHANGED vars
  BY <1>1, SameRight DEF vars, writing
<1>2. ASSUME NEW n \in Node, Make(n)
      PROVE  AllRight'
  BY <1>2, SameRight DEF Make
<1>3. ASSUME NEW p \in Node, NEW c \in Node, NEW s \in Slot, Assign(p, s, c)
      PROVE  AllRight'
  <2>1. climb = Null /\ Fill(p, s) /\ Put(p, s, c, TRUE)
    BY <1>3 DEF Assign, Assignable, MayWrite
  <2>. QED BY <2>1, PutRight
<1>4. ASSUME NEW p \in Node, NEW s \in Slot, Clear(p, s)
      PROVE  AllRight'
  <2>1. climb = Null /\ Fill(p, s) /\ Put(p, s, Null, FALSE)
    BY <1>4 DEF Clear, MayWrite, Fill
  <2>. QED BY <2>1, PutRight
<1>5. ASSUME NEW t \in Thread, NEW n \in Node, Ask(t, n)
      PROVE  AllRight'
  BY <1>5, SameRight DEF Ask, writing
<1>6. ASSUME NEW t \in Thread, Read(t)
      PROVE  AllRight'
  <2>1. CASE Enter(t) \/ Kept(t) \/ HashChild(t)
    BY <2>1, SameRight DEF Enter, Kept, HashChild, writing
  <2>. QED BY <1>6, <2>1, CompHashRight DEF Read
<1>. QED
  BY <1>1, <1>2, <1>3, <1>4, <1>5, <1>6, FreeRight, CopyRight, ResetRight DEF Next

\* Whatever is changed and whoever hashes at a time, a hash that is kept is
\* the hash of what is there, once resetHash has climbed: if no empty SubTree of
\* a node that has a hash is filled (ASTNode::hash, SubTree::operator=, resetHash).
THEOREM HashesRight ==
  ASSUME "fill" \notin Gaps
  PROVE  Spec => []HashRight
<1>1. Init => AllRight
  BY DEF Init, AllRight
<1>2. IInv /\ AllRight /\ [Next]_vars => AllRight'
  BY NextRight
<1>3. IInv /\ AllRight => HashRight
  BY NullAssumption DEF HashRight, AllRight, Right, IInv, TypeOK
<1>. QED
  BY <1>1, <1>2, <1>3, Inductive, PTL DEF Spec
=============================================================================

-------------------------------- MODULE Ast --------------------------------
(***************************************************************************)
(* The nodes of an AST (src/include/sub_tree.h, src/src/sub_tree.cc): the  *)
(* SubTrees that hold them, with the link of each node to its parent, and  *)
(* the hash that a node keeps until something below it changes.            *)
(*                                                                         *)
(* One thread writes, while no other reads; hash() counts as reading, and  *)
(* any number of threads may call it at a time.                            *)
(***************************************************************************)
EXTENDS Naturals, FiniteSets

CONSTANTS
  Node,       \* the addresses of nodes
  Null,       \* no node
  Arity,      \* the number of SubTrees of a node
  Thread,     \* the threads that read
  NoThread,
  Hash(_),    \* compHash, of the hashes of the children
  Gaps        \* what no caller does: see Fill

ASSUME NullAssumption == Null \notin Node
ASSUME ArityAssumption == Arity \in Nat
ASSUME ThreadAssumption == NoThread \notin Thread

VARIABLES
  live,      \* the nodes that have been made and not been freed
  kids,      \* obj_ of the SubTrees of each node
  parent,    \* parent_
  hashed,    \* the nodes with hash_ # ~0ull
  hash,      \* hash_ of those
  climb,     \* where resetHash has got to
  at,        \* the node whose hash() a thread is in
  root,      \* the node it was asked to hash
  owner,     \* the thread that holds lock_
  done       \* the children compHash has hashed
writing == <<live, kids, parent, climb>>
reading == <<at, root, owner, done>>
vars == <<writing, hashed, hash, reading>>

Slot == 1 .. Arity
Init ==
  /\ live = {}
  /\ kids = [n \in Node |-> [s \in Slot |-> Null]]
  /\ parent = [n \in Node |-> Null]
  /\ hashed = {}
  /\ hash = [n \in Node |-> Null]
  /\ climb = Null
  /\ at = [t \in Thread |-> Null]
  /\ root = [t \in Thread |-> Null]
  /\ owner = [n \in Node |-> NoThread]
  /\ done = [n \in Node |-> 0]

Kids(n) == {kids[n][s] : s \in Slot} \ {Null}
\* The smallest set with n and the children of all that is in it.
Below(n) ==
  {m \in Node : \A S \in SUBSET Node : n \in S /\ (\A x \in S : Kids(x) \subseteq S) => m \in S}
Held == UNION {Kids(n) : n \in live}

(***************************************************************************)
(* Writing.                                                                *)
(***************************************************************************)
MayWrite == climb = Null /\ \A t \in Thread : at[t] = Null

\* hash_ = ~0ull.
Forget(n) ==
  /\ hashed' = hashed \ {n}
  /\ hash' = [hash EXCEPT ![n] = Null]

\* Ref<T>::make()
Make(n) ==
  /\ MayWrite
  /\ n \notin live
  /\ live' = live \cup {n}
  /\ UNCHANGED <<kids, parent, climb, hashed, hash, reading>>

\* The last Ref is gone: what the node held has no parent any more.
Free(n) ==
  /\ MayWrite
  /\ n \in live \ Held
  /\ live' = live \ {n}
  /\ kids' = [kids EXCEPT ![n] = [s \in Slot |-> Null]]
  /\ parent' = [m \in Node |-> IF m = n \/ m \in Kids(n) THEN Null ELSE parent[m]]
  /\ Forget(n)
  /\ UNCHANGED <<climb, reading>>

\* What is in a SubTree is copied for another one; a bug if it is not.
NeverSubTree(n) == FALSE
IsSubTree(n) == parent[n] # Null

\* What abandon() calls modifiedHook of.
Abandoned(p, s) == IF kids[p][s] = Null THEN Null ELSE parent[kids[p][s]]
\* p.s = c, where c has no parent: abandon(), and adopt() if the SubTree knows
\* that it belongs to p.
Put(p, s, c, adopts) ==
  /\ kids' = [kids EXCEPT ![p][s] = c]
  /\ parent' = [m \in Node |->
       CASE m = c /\ adopts -> p
         [] m # c /\ m = kids[p][s] -> Null
         [] OTHER -> parent[m]]
  /\ climb' = Abandoned(p, s)
  /\ UNCHANGED <<live, hashed, hash, reading>>
\* Nobody makes a node its own descendant.
Assignable(p, c) == MayWrite /\ p \in live /\ c \in live /\ p \notin Below(c)
\* Every SubTree that is assigned held a node already, or belongs to a node
\* that was just made: whoever fills an empty one does so before it is hashed.
Fill(p, s) == "fill" \in Gaps \/ kids[p][s] # Null \/ p \notin hashed
Assign(p, s, c) ==
  /\ Assignable(p, c)
  /\ ~IsSubTree(c)
  /\ Fill(p, s)
  /\ Put(p, s, c, TRUE)
\* SubTree::operator=(nullptr), of a Nullable one.
Clear(p, s) ==
  /\ MayWrite
  /\ p \in live
  /\ kids[p][s] # Null
  /\ Put(p, s, Null, FALSE)
\* deepCopy: f gives the copy of each node.  Copies are made without a hash.
Copies(c) == {f \in [Below(c) -> Node \ live] : \A x, y \in Below(c) : f[x] = f[y] => x = y}
AssignCopy(p, s, c) ==
  /\ Assignable(p, c)
  /\ IsSubTree(c)
  /\ Fill(p, s)
  /\ \E f \in Copies(c) :
       LET old(m) == CHOOSE x \in Below(c) : f[x] = m
           new == {f[x] : x \in Below(c)}
           copy(x) == IF x = Null THEN Null ELSE f[x]
       IN /\ live' = live \cup new
          /\ kids' = [m \in Node |->
               CASE m \in new -> [r \in Slot |-> copy(kids[old(m)][r])]
                 [] m = p -> [kids[p] EXCEPT ![s] = f[c]]
                 [] OTHER -> kids[m]]
          /\ parent' = [m \in Node |->
               CASE m = f[c] -> p
                 [] m \in new \ {f[c]} -> f[parent[old(m)]]
                 [] m = kids[p][s] -> Null
                 [] OTHER -> parent[m]]
          /\ climb' = Abandoned(p, s)
          /\ UNCHANGED <<hashed, hash, reading>>

\* resetHash goes up as long as it finds hashes.  As ResetHash, but leaves the
\* rest to modifiedHook.
ResetOne ==
  /\ climb # Null
  /\ Forget(climb)
  /\ climb' = Null
  /\ UNCHANGED <<live, kids, parent, reading>>
ResetHash ==
  /\ climb # Null
  /\ Forget(climb)
  /\ climb' = IF climb \in hashed THEN parent[climb] ELSE Null
  /\ UNCHANGED <<live, kids, parent, reading>>

(***************************************************************************)
(* Reading: hash(), which holds the lock of a node while it hashes its     *)
(* children.                                                               *)
(***************************************************************************)
Ask(t, n) ==
  /\ climb = Null
  /\ at[t] = Null
  /\ n \in live
  /\ at' = [at EXCEPT ![t] = n]
  /\ root' = [root EXCEPT ![t] = n]
  /\ UNCHANGED <<writing, hashed, hash, owner, done>>

\* The loop of compHash over the children; one that starts again.
FromFirst(n) == 0
Counted(n) == done[n] + 1
\* hash() of n returns to compHash of the node above, or to who asked.
Return(t, n) ==
  IF n = root[t]
  THEN /\ at' = [at EXCEPT ![t] = Null]
       /\ root' = [root EXCEPT ![t] = Null]
       /\ done' = [done EXCEPT ![n] = 0]
  ELSE /\ at' = [at EXCEPT ![t] = parent[n]]
       /\ done' = [done EXCEPT ![parent[n]] = Counted(parent[n]), ![n] = 0]
       /\ UNCHANGED root
Enter(t) ==
  /\ at[t] # Null
  /\ owner[at[t]] = NoThread
  /\ at[t] \notin hashed
  /\ owner' = [owner EXCEPT ![at[t]] = t]
  /\ UNCHANGED <<writing, hashed, hash, at, root, done>>
Kept(t) ==
  /\ at[t] # Null
  /\ owner[at[t]] = NoThread
  /\ at[t] \in hashed
  /\ Return(t, at[t])
  /\ UNCHANGED <<writing, hashed, hash, owner>>
HashChild(t) ==
  /\ at[t] # Null
  /\ owner[at[t]] = t
  /\ done[at[t]] < Arity
  /\ LET child == kids[at[t]][done[at[t]] + 1]
     IN IF child = Null
        THEN /\ done' = [done EXCEPT ![at[t]] = Counted(at[t])]
             /\ UNCHANGED at
        ELSE /\ at' = [at EXCEPT ![t] = child]
             /\ UNCHANGED done
  /\ UNCHANGED <<writing, hashed, hash, root, owner>>
\* What compHash makes of the hashes of the children.
HashOf(n) == Hash([s \in Slot |-> IF kids[n][s] = Null THEN Null ELSE hash[kids[n][s]]])
CompHash(t) ==
  /\ at[t] # Null
  /\ owner[at[t]] = t
  /\ done[at[t]] = Arity
  /\ hash' = [hash EXCEPT ![at[t]] = HashOf(at[t])]
  /\ hashed' = hashed \cup {at[t]}
  /\ owner' = [owner EXCEPT ![at[t]] = NoThread]
  /\ Return(t, at[t])
  /\ UNCHANGED writing

Read(t) == Enter(t) \/ Kept(t) \/ HashChild(t) \/ CompHash(t)
Next ==
  \/ \E n \in Node : Make(n) \/ Free(n)
  \/ \E p, c \in Node, s \in Slot : Assign(p, s, c) \/ AssignCopy(p, s, c)
  \/ \E p \in Node, s \in Slot : Clear(p, s)
  \/ ResetHash
  \/ \E t \in Thread, n \in Node : Ask(t, n)
  \/ \E t \in Thread : Read(t)
Spec == Init /\ [][Next]_vars
\* Every thread that spins on a lock gets it in the end, and runs.
FairSpec == Spec /\ \A t \in Thread : SF_vars(Read(t))

(***************************************************************************)
(* Properties.                                                             *)
(***************************************************************************)
\* A Ref that sits in a SubTree has that SubTree's node for its only parent
\* (sub_tree.h:129), whatever was assigned, copied and freed.
OneParent ==
  \A p, q \in live : \A s, r \in Slot :
    kids[p][s] # Null /\ kids[p][s] = kids[q][r] => p = q /\ s = r /\ parent[kids[p][s]] = p

\* A hash that is kept is the hash of what is there now: a change resets all
\* hashes above it, and threads that hash at a time do not disturb each other.
HashRight ==
  climb = Null => \A n \in hashed : Kids(n) \subseteq hashed /\ hash[n] = HashOf(n)

\* Threads that hash parts of one AST from different nodes do not wait for each
\* other for ever: locks are taken from the root downwards.
Hashes == \A t \in Thread : at[t] # Null ~> at[t] = Null
=============================================================================

----------------------------- MODULE Allocator -----------------------------
(***************************************************************************)
(* The allocator of small items that every Ref takes its objects from:     *)
(* src/include/allocator.h and src/src/allocator.cc.                       *)
(*                                                                         *)
(* Each thread has an allocator of its own, with blocks of items.  The     *)
(* free items of a block are a list, linked through the items themselves,  *)
(* from item 0, which is never given out.  An item goes back to the block  *)
(* it is in, through the allocator of the thread that frees it, which need *)
(* not be the one that has the block: allocate_shared makes its allocator  *)
(* anew, by the instance() of the thread that drops the last reference.    *)
(*                                                                         *)
(* spinLock_ is that of the calling thread's allocator, which only that    *)
(* thread takes: a thread that is not "idle" holds its own.                *)
(***************************************************************************)
EXTENDS Naturals, Sequences, FiniteSets

CONSTANTS
  Threads,
  PerBlock,   \* SMALL_ITEM_PER_BLOCK
  MaxBlocks,  \* bound on the blocks of all threads
  Overlap     \* may calls that touch the same block overlap?

ASSUME AllocatorAssumption ==
  /\ IsFiniteSet(Threads)
  /\ PerBlock \in Nat /\ PerBlock > 1
  /\ MaxBlocks \in Nat
  /\ Overlap \in BOOLEAN

VARIABLES
  link,    \* next_ of the items of each block that was made; 0 is nullptr
  blocks,  \* blocks_ of each thread's allocator, as indices of link
  curBlk,  \* curBlk of each thread's allocator
  at,      \* where each thread is
  tried,   \* the loop counter i of allocate
  item,    \* the item that is being allocated or freed
  live     \* the items that are allocated

vars == <<link, blocks, curBlk, at, tried, item, live>>

Nodes == 0 .. PerBlock - 1
Items == 1 .. PerBlock - 1

Blks(t) == {blocks[t][k] : k \in DOMAIN blocks[t]}
Cur(t) == blocks[t][curBlk[t] + 1]
Full(b) == link[b][0] = 0

NewBlkPastEnd == [i \in Nodes |-> i + 1]  \* mutant: the last link is no nullptr
NewBlk == [i \in Nodes |-> IF i = PerBlock - 1 THEN 0 ELSE i + 1]

\* item = items_[0].next_; items_[0].next_ = item->next_
KeptHead(b, i) == link[b]                           \* mutant: the item stays
CutHead(b, i) == [link[b] EXCEPT ![0] = 0]          \* mutant: the rest is lost
Popped(b, i) == [link[b] EXCEPT ![0] = link[b][i]]

SameBlk(t) == curBlk[t]  \* mutant: always the same block is looked at
NextBlk(t) == (curBlk[t] + 1) % Len(blocks[t])

\* The blocks that a call in progress reads or writes.
InUse(t) ==
  {b \in DOMAIN link :
    \/ at[t] \in {"scan", "take", "unlink"} /\ b \in Blks(t)
    \/ at[t] \in {"link", "push"} /\ b = item[t][1]}

Apart(t, bs) == Overlap \/ \A u \in Threads \ {t} : InUse(u) \cap bs = {}

-----------------------------------------------------------------------------
\* Every thread that is modelled has used its allocator: it has a block.
Init ==
  /\ \E start \in [Threads -> 1 .. Cardinality(Threads)] :
       /\ \A t, u \in Threads : start[t] = start[u] => t = u
       /\ blocks = [t \in Threads |-> <<start[t]>>]
  /\ link = [b \in 1 .. Cardinality(Threads) |-> NewBlk]
  /\ curBlk = [t \in Threads |-> 0]
  /\ at = [t \in Threads |-> "idle"]
  /\ tried = [t \in Threads |-> 0]
  /\ item = [t \in Threads |-> <<1, 1>>]
  /\ live = {}

\* allocate: lock, and look for a block that is not full, from curBlk on.
\* The bound leaves room for a block of every call in progress that needs one.
BeginAllocate(t) ==
  /\ at[t] = "idle"
  /\ Apart(t, Blks(t))
  /\ \/ \E b \in Blks(t) : ~Full(b)
     \/ Len(link) + Cardinality({u \in Threads : at[u] = "scan"}) < MaxBlocks
  /\ at' = [at EXCEPT ![t] = "scan"]
  /\ tried' = [tried EXCEPT ![t] = 0]
  /\ UNCHANGED <<link, blocks, curBlk, item, live>>

TryBlock(t) ==
  /\ at[t] = "scan" /\ tried[t] < Len(blocks[t])
  /\ IF Full(Cur(t))
     THEN /\ curBlk' = [curBlk EXCEPT ![t] = NextBlk(t)]
          /\ tried' = [tried EXCEPT ![t] = @ + 1]
          /\ UNCHANGED at
     ELSE /\ at' = [at EXCEPT ![t] = "take"]
          /\ UNCHANGED <<curBlk, tried>>
  /\ UNCHANGED <<link, blocks, item, live>>

Grow(t) ==
  /\ at[t] = "scan" /\ tried[t] = Len(blocks[t])
  /\ link' = Append(link, NewBlk)
  /\ blocks' = [blocks EXCEPT ![t] = Append(@, Len(link) + 1)]
  /\ curBlk' = [curBlk EXCEPT ![t] = Len(blocks[t])]
  /\ at' = [at EXCEPT ![t] = "take"]
  /\ UNCHANGED <<tried, item, live>>

\* SmallItemBlock::allocate reads the head of the list, ...
Take(t) ==
  /\ at[t] = "take"
  /\ item' = [item EXCEPT ![t] = <<Cur(t), link[Cur(t)][0]>>]
  /\ at' = [at EXCEPT ![t] = "unlink"]
  /\ UNCHANGED <<link, blocks, curBlk, tried, live>>

\* ... and then writes it.
Unlink(t) ==
  /\ at[t] = "unlink"
  /\ link' = [link EXCEPT ![item[t][1]] = Popped(item[t][1], item[t][2])]
  /\ live' = live \cup {item[t]}
  /\ at' = [at EXCEPT ![t] = "idle"]
  /\ UNCHANGED <<blocks, curBlk, tried, item>>

\* deallocate, by any thread: lock, and find the block by the address.
BeginDeallocate(t, x) ==
  /\ at[t] = "idle"
  /\ Apart(t, {x[1]})
  /\ item' = [item EXCEPT ![t] = x]
  /\ live' = live \ {x}
  /\ at' = [at EXCEPT ![t] = "link"]
  /\ UNCHANGED <<link, blocks, curBlk, tried>>

\* SmallItemBlock::deallocate reads the head of the list into the item, ...
Link(t) ==
  /\ at[t] = "link"
  /\ link' = [link EXCEPT ![item[t][1]][item[t][2]] = link[item[t][1]][0]]
  /\ at' = [at EXCEPT ![t] = "push"]
  /\ UNCHANGED <<blocks, curBlk, tried, item, live>>

\* ... and then makes the item the head.
Push(t) ==
  /\ at[t] = "push"
  /\ link' = [link EXCEPT ![item[t][1]][0] = item[t][2]]
  /\ at' = [at EXCEPT ![t] = "idle"]
  /\ UNCHANGED <<blocks, curBlk, tried, item, live>>

Next ==
  \E t \in Threads :
    \/ BeginAllocate(t) \/ TryBlock(t) \/ Grow(t) \/ Take(t) \/ Unlink(t)
    \/ \E x \in live : BeginDeallocate(t, x)
    \/ Link(t) \/ Push(t)

Spec == Init /\ [][Next]_vars

-----------------------------------------------------------------------------
TypeOK ==
  /\ link \in Seq([Nodes -> Nodes])
  /\ blocks \in [Threads -> Seq(DOMAIN link)]
  /\ curBlk \in [Threads -> Nat]
  /\ \A t \in Threads : curBlk[t] < Len(blocks[t])
  /\ at \in [Threads -> {"idle", "scan", "take", "unlink", "link", "push"}]
  /\ tried \in [Threads -> Nat]
  /\ item \in [Threads -> (DOMAIN link) \X Items]
  /\ live \in SUBSET ((DOMAIN link) \X Items)

\* Items that a thread has taken from its user and not given back yet.
Freeing(b) == {i \in Items : \E t \in Threads : at[t] \in {"link", "push"} /\ item[t] = <<b, i>>}
Free(b) == {i \in Items : <<b, i>> \notin live} \ Freeing(b)

\* What is about to be returned is nobody's: it is not allocated, nor is it
\* about to be returned to another thread, nor is it still being freed.
OnlyOnce ==
  \A t \in Threads : at[t] = "unlink" =>
    /\ item[t] \notin live
    /\ \A u \in Threads \ {t} : at[u] \in {"unlink", "link", "push"} => item[u] # item[t]

\* The items on the list of a block.
Chain(b) ==
  LET nth[n \in 0 .. PerBlock] == IF n = 0 THEN 0 ELSE link[b][nth[n - 1]]
  IN {nth[n] : n \in 0 .. PerBlock} \ {0}

\* Memory is never lost: every item that is free can be found on the list of
\* its block, whoever freed it.
NothingLost == \A b \in DOMAIN link : Chain(b) = Free(b)

\* A thread takes memory from the system only if all its blocks are full: the
\* search, which starts anywhere, passes none over.
GrowsIfFull ==
  [][\A t \in Threads : blocks'[t] # blocks[t] => \A b \in Blks(t) : Full(b)]_vars
=============================================================================

--------------------------- MODULE ScheduleProofs ---------------------------
(***************************************************************************)
(* Proofs about module Schedule, for any number of Schedules, any kinds of *)
(* schedules and any tables: nothing is run twice, and who runs a schedule *)
(* reads an AST that stays; as long as nobody permutes loops without a log *)
(* equal logs mean equal ASTs, and a result is only ever applied to the    *)
(* AST it was made from; as long as nobody names a statement that is gone, *)
(* an abort returns to where the matching begin was.                       *)
(***************************************************************************)
EXTENDS Schedule, SequenceTheorems, TLAPS

\* A transaction is backed if a result in the table, or the first AST, says
\* what its AST is.  Nothing is said of it where the AST changes without a log.
Backed(table, t) ==
  \/ "permute" \in Allowed
  \/ t.logs = <<>> /\ t.ast = <<>>
  \/ \E n \in DOMAIN table :
       /\ table[n].state = "result"
       /\ table[n].logs = t.logs /\ table[n].ast = t.ast

SettledBacked ==
  \A s \in Scheds : \A i \in Settled(s) : Backed(memoized, openTrans[s][i])

\* The transaction below the last one.
Base(s) == openTrans[s][Len(openTrans[s]) - 1]

\* A call has its own transaction on top, with the AST of the one below; its
\* item, once it has one, is that of its log.
InCall ==
  \A s \in Scheds : at[s] # "idle" =>
    /\ Len(openTrans[s]) > 1
    /\ Ast(s) = Base(s).ast
    /\ at[s] = "called" => Logs(s) = Base(s).logs
    /\ at[s] # "called" => /\ Logs(s) = Append(Base(s).logs, call[s])
                           /\ memoized[item[s]].logs = Logs(s)

\* Where a thread is agrees with the state of its item.
InStep ==
  \A s \in Scheds :
    /\ at[s] = "running" => memoized[item[s]].state = "running"
    /\ at[s] = "done" => memoized[item[s]].state \in {"result", "exception"}

OneRunner ==
  \A s, t \in Scheds :
    at[s] = "running" /\ at[t] = "running" /\ item[s] = item[t] => s = t

\* Until an item has run, the Schedule that made it is in that call.
Waiting ==
  \A n \in DOMAIN memoized : memoized[n].state \in {"new", "running"} =>
    item[memoized[n].owner] = n /\ at[memoized[n].owner] \in {"logged", "running"}

NoEmptyLog == \A n \in DOMAIN memoized : memoized[n].logs # <<>>

IInv ==
  /\ TypeOK /\ SettledBacked /\ InCall /\ InStep /\ OneRunner
  /\ RunOnce /\ Waiting /\ NoEmptyLog

-----------------------------------------------------------------------------
\* What beginTransaction makes of a stack of transactions.
LEMMA OpenedFacts ==
  ASSUME NEW T, NEW st \in Seq(T), Len(st) > 0
  PROVE  /\ Opened(st) \in Seq(T)
         /\ Len(Opened(st)) = Len(st) + 1
         /\ \A i \in 1 .. Len(st) : Opened(st)[i] = st[i]
         /\ Opened(st)[Len(st) + 1] = st[Len(st)]
<1>. DEFINE t == st[Len(st)]
<1>1. st[Len(st)] \in T
  BY ElementOfSeq, Len(st) \in 1 .. Len(st)
<1>2. Opened(st) = Append(st, t)
  BY DEF Opened, Top
<1>. HIDE DEF t
<1>3. /\ Append(st, t) \in Seq(T) /\ Len(Append(st, t)) = Len(st) + 1
      /\ \A i \in 1 .. Len(st) : Append(st, t)[i] = st[i]
      /\ Append(st, t)[Len(st) + 1] = t
  <2>1. t \in T
    BY <1>1 DEF t
  <2>. QED BY <2>1, AppendProperties
<1>. QED
  BY <1>2, <1>3 DEF t

\* What abortTransaction makes of it.
LEMMA BelowFacts ==
  ASSUME NEW T, NEW st \in Seq(T), Len(st) > 0
  PROVE  /\ Below(st) \in Seq(T)
         /\ Len(Below(st)) = Len(st) - 1
         /\ \A i \in 1 .. Len(st) - 1 : Below(st)[i] = st[i]
<1>. DEFINE n == Len(st) - 1
<1>1. n \in Nat /\ \A i \in 1 .. n : st[i] \in T
  OBVIOUS
<1>. HIDE DEF n
<1>2. SubSeq(st, 1, n) \in Seq(T)
  BY <1>1, SubSeqProperties
<1>3. Len(SubSeq(st, 1, n)) = n
  BY <1>1, SubSeqProperties
<1>4. \A i \in 1 .. n : SubSeq(st, 1, n)[i] = st[i]
  BY <1>1, SubSeqProperties
<1>. QED
  BY <1>2, <1>3, <1>4 DEF Below, n

\* What an assignment to the last transaction makes of it.
LEMMA SetTopFacts ==
  ASSUME NEW T, NEW st \in Seq(T), Len(st) > 0, NEW t \in T
  PROVE  /\ SetTop(st, t) \in Seq(T)
         /\ Len(SetTop(st, t)) = Len(st)
         /\ \A i \in 1 .. Len(st) - 1 : SetTop(st, t)[i] = st[i]
         /\ SetTop(st, t)[Len(st)] = t
<1>1. Len(st) \in 1 .. Len(st)
  OBVIOUS
<1>. QED
  BY <1>1, ExceptSeq DEF SetTop

\* What commitTransaction makes of it.
LEMMA CommittedFacts ==
  ASSUME NEW T, NEW st \in Seq(T), Len(st) > 1
  PROVE  /\ Committed(st) \in Seq(T)
         /\ Len(Committed(st)) = Len(st) - 1
         /\ \A i \in 1 .. Len(st) - 2 : Committed(st)[i] = st[i]
         /\ Committed(st)[Len(st) - 1] = st[Len(st)]
<1>1. Below(st) \in Seq(T) /\ Len(Below(st)) = Len(st) - 1
      /\ \A i \in 1 .. Len(st) - 1 : Below(st)[i] = st[i]
  BY BelowFacts
<1>. DEFINE below == Below(st)  t == st[Len(st)]
<1>2. t \in T
  OBVIOUS
<1>3. Committed(st) = SetTop(below, t)
  BY DEF Committed, Top
<1>. HIDE DEF below, t
<1>4. below \in Seq(T) /\ Len(below) = Len(st) - 1 /\ Len(below) > 0
  BY <1>1 DEF below
<1>5. SetTop(below, t) \in Seq(T) /\ Len(SetTop(below, t)) = Len(below)
  BY <1>2, <1>4, SetTopFacts
<1>7. \A i \in 1 .. Len(below) - 1 : SetTop(below, t)[i] = below[i]
  BY <1>2, <1>4, SetTopFacts
<1>8. SetTop(below, t)[Len(below)] = t
  BY <1>2, <1>4, SetTopFacts
<1>6. \A i \in 1 .. Len(st) - 2 : Committed(st)[i] = st[i]
  <2>. TAKE i \in 1 .. Len(st) - 2
  <2>1. i \in 1 .. Len(below) - 1 /\ i \in 1 .. Len(st) - 1
    BY <1>4
  <2>. QED BY <2>1, <1>1, <1>3, <1>7 DEF below
<1>. QED
  BY <1>3, <1>4, <1>5, <1>6, <1>8 DEF t

-----------------------------------------------------------------------------
Change == [target : Nat, id : Nat]
Item == [logs : Seq(Key), owner : Scheds,
         state : {"new", "running", "result", "exception"}, ast : Seq(Change)]

LEMMA Elements ==
  ASSUME NEW S, NEW q \in Seq(S)
  PROVE  DOMAIN q = 1 .. Len(q) /\ \A i \in DOMAIN q : q[i] \in S
OBVIOUS

\* The items of the table are typed.
LEMMA Items ==
  ASSUME IInv, NEW n \in DOMAIN memoized
  PROVE  memoized[n] \in Item /\ memoized[n].owner \in Scheds
<1>1. memoized \in Seq(Item)
  BY DEF IInv, TypeOK, Item, Change
<1>2. memoized[n] \in Item
  BY <1>1, Elements
<1>. QED
  BY <1>2 DEF Item

\* What was backed stays backed, as results are never changed.
LEMMA BackedStays ==
  ASSUME NEW old, NEW new, NEW t, Backed(old, t),
         \A n \in DOMAIN old : old[n].state = "result" =>
           n \in DOMAIN new /\ new[n] = old[n]
  PROVE  Backed(new, t)
BY DEF Backed

\* The last transaction of a Schedule that exists is typed.
LEMMA TopTyped ==
  ASSUME NEW st \in Seq(Transaction), Len(st) > 0
  PROVE  Top(st) \in Transaction /\ Top(st) = st[Len(st)]
BY DEF Top

\* A step of a user on an idle Schedule x, which leaves it with the stack st.
LEMMA IdleStep ==
  ASSUME IInv, NEW x \in Scheds, NEW st \in Seq(Transaction), at[x] = "idle",
         openTrans' = [openTrans EXCEPT ![x] = st],
         \A i \in 1 .. Len(st) : Backed(memoized, st[i]),
         UNCHANGED <<memoized, at, call, item>>, nextID' \in {nextID, nextID + 1},
         saved' \in [Scheds -> Seq(Transaction)]
  PROVE  IInv'
<1>1. TypeOK'
  <2>1. nextID' \in Nat /\ openTrans' \in [Scheds -> Seq(Transaction)]
    BY DEF IInv, TypeOK
  <2>. QED BY <2>1 DEF IInv, TypeOK
<1>2. openTrans'[x] = st /\ \A y \in Scheds \ {x} : openTrans'[y] = openTrans[y]
  BY DEF IInv, TypeOK
<1>3. SettledBacked'
  <2>. SUFFICES ASSUME NEW y \in Scheds, NEW i \in Settled(y)'
                PROVE  Backed(memoized, openTrans'[y][i])
    BY DEF SettledBacked
  <2>1. CASE y = x
    <3>1. i \in 1 .. Len(st)
      BY <1>2, <2>1 DEF Settled
    <3>. QED BY <1>2, <2>1, <3>1
  <2>2. CASE y # x
    <3>1. i \in Settled(y)
      BY <1>2, <2>2 DEF Settled
    <3>. QED BY <1>2, <2>2, <3>1 DEF IInv, SettledBacked
  <2>. QED BY <2>1, <2>2
<1>4. InCall'
  BY <1>2 DEF IInv, InCall, Base, Ast, Logs, Top
<1>5. (InStep /\ OneRunner /\ RunOnce /\ Waiting /\ NoEmptyLog)'
  BY DEF IInv, InStep, OneRunner, RunOnce, Waiting, NoEmptyLog
<1>. QED
  BY <1>1, <1>3, <1>4, <1>5 DEF IInv

\* Every Schedule that exists and is idle has only backed transactions.
LEMMA IdleBacked ==
  ASSUME IInv, NEW s \in Scheds, Idle(s)
  PROVE  /\ openTrans[s] \in Seq(Transaction) /\ Len(openTrans[s]) > 0
         /\ \A i \in 1 .. Len(openTrans[s]) : Backed(memoized, openTrans[s][i])
<1>1. openTrans[s] \in Seq(Transaction) /\ openTrans[s] # <<>>
  BY DEF IInv, TypeOK, Idle
<1>2. Len(openTrans[s]) > 0
  BY <1>1, EmptySeq
<1>3. Settled(s) = 1 .. Len(openTrans[s])
  BY <1>1 DEF Settled, Idle
<1>. QED
  BY <1>1, <1>2, <1>3 DEF IInv, SettledBacked

LEMMA ForkKeeps ==
  ASSUME IInv, NEW s \in Scheds, NEW t \in Scheds, Fork(s, t)
  PROVE  IInv'
<1>1. at[t] = "idle"
  BY EmptySeq DEF Fork, IInv, InCall
<1>2. saved' \in [Scheds -> Seq(Transaction)]
  BY DEF Fork, IInv, TypeOK
<1>. QED
  BY <1>1, <1>2, IdleBacked, IdleStep DEF Fork

LEMMA BeginKeeps ==
  ASSUME IInv, NEW s \in Scheds, BeginTransaction(s)
  PROVE  IInv'
<1>. DEFINE old == openTrans[s]  st == Opened(openTrans[s])
<1>1. /\ old \in Seq(Transaction) /\ Len(old) > 0
      /\ \A i \in 1 .. Len(old) : Backed(memoized, old[i])
  BY IdleBacked DEF BeginTransaction
<1>2. st \in Seq(Transaction) /\ Len(st) = Len(old) + 1
      /\ st[Len(old) + 1] = old[Len(old)]
  BY <1>1, OpenedFacts
<1>3. \A i \in 1 .. Len(old) : st[i] = old[i]
  BY <1>1, OpenedFacts
<1>4. \A i \in 1 .. Len(st) : Backed(memoized, st[i])
  BY <1>1, <1>2, <1>3
<1>5. saved' \in [Scheds -> Seq(Transaction)]
  <2>1. Top(old) \in Transaction
    BY <1>1, TopTyped
  <2>2. saved[s] \in Seq(Transaction)
    BY DEF IInv, TypeOK
  <2>3. Append(saved[s], Top(old)) \in Seq(Transaction)
    BY <2>1, <2>2, AppendProperties
  <2>. QED BY <2>3 DEF BeginTransaction, IInv, TypeOK
<1>. QED
  BY <1>2, <1>4, <1>5, IdleStep DEF BeginTransaction, Idle

LEMMA CommitKeeps ==
  ASSUME IInv, NEW s \in Scheds, CommitTransaction(s)
  PROVE  IInv'
<1>. DEFINE old == openTrans[s]  st == Committed(openTrans[s])
<1>1. /\ old \in Seq(Transaction) /\ Len(old) > 1
      /\ \A i \in 1 .. Len(old) : Backed(memoized, old[i])
  BY IdleBacked DEF CommitTransaction
<1>2. st \in Seq(Transaction) /\ Len(st) = Len(old) - 1
      /\ st[Len(old) - 1] = old[Len(old)]
  BY <1>1, CommittedFacts
<1>3. \A i \in 1 .. Len(old) - 2 : st[i] = old[i]
  BY <1>1, CommittedFacts
<1>4. \A i \in 1 .. Len(st) : Backed(memoized, st[i])
  BY <1>1, <1>2, <1>3
<1>5. saved' \in [Scheds -> Seq(Transaction)]
  <2>1. saved[s] \in Seq(Transaction) /\ Len(saved[s]) > 0
    BY EmptySeq DEF IInv, TypeOK, CommitTransaction
  <2>2. Below(saved[s]) \in Seq(Transaction)
    BY <2>1, BelowFacts
  <2>. QED BY <2>2 DEF CommitTransaction, IInv, TypeOK
<1>. QED
  BY <1>2, <1>4, <1>5, IdleStep DEF CommitTransaction, Idle

LEMMA AbortKeeps ==
  ASSUME IInv, NEW s \in Scheds, AbortTransaction(s)
  PROVE  IInv'
<1>. DEFINE old == openTrans[s]  st == Aborted(openTrans[s])
<1>1. /\ old \in Seq(Transaction) /\ Len(old) > 1
      /\ \A i \in 1 .. Len(old) : Backed(memoized, old[i])
  BY IdleBacked DEF AbortTransaction
<1>2. st \in Seq(Transaction) /\ Len(st) = Len(old) - 1
  BY <1>1, BelowFacts DEF Aborted
<1>3. \A i \in 1 .. Len(old) - 1 : st[i] = old[i]
  BY <1>1, BelowFacts DEF Aborted
<1>4. \A i \in 1 .. Len(st) : Backed(memoized, st[i])
  BY <1>1, <1>2, <1>3
<1>5. saved' \in [Scheds -> Seq(Transaction)]
  <2>1. saved[s] \in Seq(Transaction) /\ Len(saved[s]) > 0
    BY EmptySeq DEF IInv, TypeOK, AbortTransaction
  <2>2. Below(saved[s]) \in Seq(Transaction)
    BY <2>1, BelowFacts
  <2>. QED BY <2>2 DEF AbortTransaction, IInv, TypeOK
<1>. QED
  BY <1>2, <1>4, <1>5, IdleStep DEF AbortTransaction, Idle

\* The statements that a typed AST can be asked for have IDs that are numbers.
LEMMA NaturalIDs ==
  ASSUME NEW ast \in Seq(Change)
  PROVE  IDs(ast) \subseteq Nat
<1>1. \A i \in DOMAIN ast : ast[i] \in Change
  BY Elements
<1>2. \A i \in DOMAIN ast : ast[i].id \in Nat
  BY <1>1 DEF Change
<1>. QED BY <1>2, ScheduleAssumption DEF IDs, Made

LEMMA StaleKeeps ==
  ASSUME IInv, NEW s \in Scheds, CallStale(s)
  PROVE  IInv'
<1>. DEFINE old == openTrans[s]  st == Opened(openTrans[s])
<1>1. /\ old \in Seq(Transaction) /\ Len(old) > 0
      /\ \A i \in 1 .. Len(old) : Backed(memoized, old[i])
  BY IdleBacked DEF CallStale
<1>2. st \in Seq(Transaction) /\ Len(st) = Len(old) + 1
      /\ st[Len(old) + 1] = old[Len(old)]
  BY <1>1, OpenedFacts
<1>3. \A i \in 1 .. Len(old) : st[i] = old[i]
  BY <1>1, OpenedFacts
<1>4. \A i \in 1 .. Len(st) : Backed(memoized, st[i])
  BY <1>1, <1>2, <1>3
<1>5. saved' \in [Scheds -> Seq(Transaction)]
  BY DEF CallStale, IInv, TypeOK
<1>. QED
  BY <1>2, <1>4, <1>5, IdleStep DEF CallStale, Idle

LEMMA PermuteKeeps ==
  ASSUME IInv, NEW s \in Scheds, Permute(s)
  PROVE  IInv'
<1>. DEFINE old == openTrans[s]
<1>1. old \in Seq(Transaction) /\ Len(old) > 0 /\ Top(old) \in Transaction
  BY IdleBacked, TopTyped DEF Permute
<1>2. Ast(s) \in Seq(Change) /\ Top(old).logs \in Seq(Key) /\ nextID \in Nat
  BY <1>1 DEF Ast, Transaction, Change, IInv, TypeOK
<1>3. PICK id \in IDs(Ast(s)) :
        openTrans' = [openTrans EXCEPT ![s] =
          SetAst(old, Append(Ast(s), [target |-> id, id |-> nextID]))]
  BY DEF Permute
<1>. DEFINE t == [ast |-> Append(Ast(s), [target |-> id, id |-> nextID]),
                  logs |-> Top(old).logs]
            st == SetTop(old, t)
<1>4. t \in Transaction
  <2>1. [target |-> id, id |-> nextID] \in Change
    BY <1>2, NaturalIDs DEF Change
  <2>2. Append(Ast(s), [target |-> id, id |-> nextID]) \in Seq(Change)
    BY <1>2, <2>1, AppendProperties
  <2>. QED BY <1>2, <2>2 DEF Transaction, Change
<1>5. openTrans' = [openTrans EXCEPT ![s] = st]
  BY <1>3 DEF SetAst
<1>. HIDE DEF t
<1>6. st \in Seq(Transaction)
  BY <1>1, <1>4, SetTopFacts
<1>7. \A i \in 1 .. Len(st) : Backed(memoized, st[i])
  BY DEF Permute, Backed
<1>8. saved' \in [Scheds -> Seq(Transaction)] /\ at[s] = "idle"
      /\ UNCHANGED <<memoized, at, call, item>> /\ nextID' \in {nextID, nextID + 1}
  BY DEF Permute, Idle, IInv, TypeOK
<1>. HIDE DEF st
<1>. QED
  BY <1>5, <1>6, <1>7, <1>8, IdleStep

LEMMA CallKeeps ==
  ASSUME IInv, NEW s \in Scheds, NEW op \in Ops, Call(s, op)
  PROVE  IInv'
<1>. DEFINE old == openTrans[s]  st == Opened(openTrans[s])
<1>1. /\ old \in Seq(Transaction) /\ Len(old) > 0
      /\ \A i \in 1 .. Len(old) : Backed(memoized, old[i])
  BY IdleBacked DEF Call
<1>2. st \in Seq(Transaction) /\ Len(st) = Len(old) + 1
      /\ st[Len(old) + 1] = old[Len(old)]
  BY <1>1, OpenedFacts
<1>3. \A i \in 1 .. Len(old) : st[i] = old[i]
  BY <1>1, OpenedFacts
<1>4. openTrans'[s] = st /\ \A y \in Scheds \ {s} : openTrans'[y] = openTrans[y]
  BY DEF Call, IInv, TypeOK
<1>5. at'[s] = "called" /\ \A y \in Scheds \ {s} : at'[y] = at[y]
  BY DEF Call, IInv, TypeOK
<1>6. \A y \in Scheds \ {s} : call'[y] = call[y]
  BY DEF Call, IInv, TypeOK
<1>7. TypeOK'
  <2>1. openTrans' \in [Scheds -> Seq(Transaction)]
    BY <1>2 DEF Call, IInv, TypeOK
  <2>2. call' \in [Scheds -> Key]
    <3>1. Top(old) \in Transaction
      BY <1>1, TopTyped
    <3>2. Ast(s) \in Seq([target : Nat, id : Nat])
      BY <3>1 DEF Ast, Transaction
    <3>3. IDs(Ast(s)) \subseteq Nat
      BY <3>2, NaturalIDs DEF Change
    <3>. QED BY <3>3 DEF Call, IInv, TypeOK, Key
  <2>. QED BY <2>1, <2>2, <1>5 DEF Call, IInv, TypeOK
<1>8. SettledBacked'
  <2>. SUFFICES ASSUME NEW y \in Scheds, NEW i \in Settled(y)'
                PROVE  Backed(memoized, openTrans'[y][i])
    BY DEF SettledBacked, Call
  <2>1. CASE y = s
    <3>1. i \in 1 .. Len(old) + 1
      BY <1>2, <1>4, <2>1 DEF Settled
    <3>2. CASE i \in 1 .. Len(old)
      BY <1>1, <1>3, <1>4, <2>1, <3>2
    <3>3. CASE i = Len(old) + 1
      <4>1. openTrans'[y][i] = old[Len(old)] /\ Len(old) \in 1 .. Len(old)
        BY <1>1, <1>2, <1>4, <2>1, <3>3
      <4>. QED BY <1>1, <4>1
    <3>. QED BY <3>1, <3>2, <3>3
  <2>2. CASE y # s
    <3>1. i \in Settled(y)
      BY <1>4, <1>5, <2>2 DEF Settled
    <3>. QED BY <1>4, <2>2, <3>1 DEF IInv, SettledBacked
  <2>. QED BY <2>1, <2>2
<1>9. InCall'
  <2>. SUFFICES ASSUME NEW y \in Scheds, at'[y] # "idle"
                PROVE  (/\ Len(openTrans[y]) > 1
                        /\ Ast(y) = Base(y).ast
                        /\ at[y] = "called" => Logs(y) = Base(y).logs
                        /\ at[y] # "called" => /\ Logs(y) = Append(Base(y).logs, call[y])
                                               /\ memoized[item[y]].logs = Logs(y))'
    BY DEF InCall
  <2>1. CASE y = s
    BY <1>1, <1>2, <1>3, <1>4, <1>5, <2>1 DEF Base, Ast, Logs, Top
  <2>2. CASE y # s
    BY <1>4, <1>5, <1>6, <2>2 DEF Call, IInv, InCall, Base, Ast, Logs, Top
  <2>. QED BY <2>1, <2>2
<1>10. (InStep /\ OneRunner /\ RunOnce /\ Waiting /\ NoEmptyLog)'
  <2>1. UNCHANGED <<memoized, item>> /\ at[s] = "idle"
    BY DEF Call, Idle
  <2>2. (InStep /\ OneRunner)'
    BY <2>1, <1>5 DEF IInv, InStep, OneRunner
  <2>3. (RunOnce /\ NoEmptyLog)'
    BY <2>1 DEF IInv, RunOnce, NoEmptyLog
  <2>4. Waiting'
    <3>1. \A n \in DOMAIN memoized : memoized[n].owner \in Scheds
      BY Items
    <3>. QED BY <2>1, <3>1, <1>5 DEF IInv, Waiting
  <2>. QED BY <2>2, <2>3, <2>4
<1>. QED
  BY <1>7, <1>8, <1>9, <1>10 DEF IInv

\* What a call on the way knows of its stack.
LEMMA StackInCall ==
  ASSUME IInv, NEW s \in Scheds, at[s] # "idle"
  PROVE  /\ openTrans[s] \in Seq(Transaction) /\ Len(openTrans[s]) > 1
         /\ Top(openTrans[s]) \in Transaction /\ Base(s) \in Transaction
         /\ Ast(s) \in Seq(Change) /\ Logs(s) \in Seq(Key)
         /\ \A i \in 1 .. Len(openTrans[s]) - 1 : Backed(memoized, openTrans[s][i])
<1>1. openTrans[s] \in Seq(Transaction) /\ Len(openTrans[s]) > 1
  BY DEF IInv, TypeOK, InCall
<1>2. Top(openTrans[s]) \in Transaction
  BY <1>1, TopTyped
<1>3. Base(s) \in Transaction
  BY <1>1 DEF Base
<1>4. \A i \in 1 .. Len(openTrans[s]) - 1 : Backed(memoized, openTrans[s][i])
  BY <1>1 DEF IInv, SettledBacked, Settled
<1>. QED
  BY <1>1, <1>2, <1>3, <1>4 DEF Ast, Logs, Transaction, Change

\* A table that grows by an item has the old items where they were.
LEMMA Grown ==
  ASSUME NEW table \in Seq(Item), NEW it \in Item
  PROVE  /\ Append(table, it) \in Seq(Item)
         /\ DOMAIN Append(table, it) = DOMAIN table \cup {Len(table) + 1}
         /\ Len(table) + 1 \notin DOMAIN table
         /\ \A n \in DOMAIN table : Append(table, it)[n] = table[n]
         /\ Append(table, it)[Len(table) + 1] = it
OBVIOUS

\* The stack after appendLog has set the log.
LEMMA LoggedStack ==
  ASSUME IInv, NEW s \in Scheds, LookupOrCreate(s)
  PROVE  /\ openTrans' \in [Scheds -> Seq(Transaction)]
         /\ \A y \in Scheds \ {s} : openTrans'[y] = openTrans[y]
         /\ Len(openTrans'[s]) = Len(openTrans[s]) /\ Len(openTrans[s]) > 1
         /\ \A i \in 1 .. Len(openTrans[s]) - 1 : openTrans'[s][i] = openTrans[s][i]
         /\ Ast(s)' = Ast(s) /\ Logs(s)' = Append(Logs(s), call[s])
         /\ Base(s)' = Base(s) /\ Logs(s) = Base(s).logs /\ Ast(s) = Base(s).ast
         /\ Logs(s)' \in Seq(Key)
<1>. DEFINE old == openTrans[s]
            t == [ast |-> Top(old).ast, logs |-> Append(Logs(s), call[s])]
<1>1. at[s] = "called" /\ openTrans' = [openTrans EXCEPT ![s] = SetTop(old, t)]
  BY DEF LookupOrCreate, SetLogs
<1>2. old \in Seq(Transaction) /\ Len(old) > 1 /\ Top(old) \in Transaction
  BY <1>1, StackInCall
<1>3. call[s] \in Key
  BY DEF IInv, TypeOK
<1>4. Append(Logs(s), call[s]) \in Seq(Key)
  BY <1>2, <1>3, AppendProperties DEF Logs, Transaction
<1>5. t \in Transaction /\ t.ast = Ast(s) /\ t.logs = Append(Logs(s), call[s])
  BY <1>2, <1>4 DEF Transaction, Logs, Ast
<1>. HIDE DEF t, old
<1>6. SetTop(old, t) \in Seq(Transaction) /\ Len(SetTop(old, t)) = Len(old)
  BY <1>2, <1>5, SetTopFacts
<1>7. \A i \in 1 .. Len(old) - 1 : SetTop(old, t)[i] = old[i]
  BY <1>2, <1>5, SetTopFacts
<1>8. SetTop(old, t)[Len(old)] = t
  BY <1>2, <1>5, SetTopFacts
<1>9. openTrans'[s] = SetTop(old, t)
      /\ \A y \in Scheds \ {s} : openTrans'[y] = openTrans[y]
  BY <1>1 DEF IInv, TypeOK
<1>10. openTrans' \in [Scheds -> Seq(Transaction)]
  BY <1>1, <1>6 DEF IInv, TypeOK
<1>11. Ast(s)' = Ast(s) /\ Logs(s)' = Append(Logs(s), call[s])
  BY <1>5, <1>6, <1>8, <1>9 DEF Ast, Logs, Top
<1>12. Base(s)' = Base(s)
  <2>1. Len(old) - 1 \in 1 .. Len(old) - 1
    BY <1>2
  <2>. QED BY <2>1, <1>6, <1>7, <1>9 DEF Base, old
<1>13. Logs(s) = Base(s).logs /\ Ast(s) = Base(s).ast
  BY <1>1 DEF IInv, InCall
<1>. QED
  BY <1>2, <1>4, <1>6, <1>7, <1>9, <1>10, <1>11, <1>12, <1>13 DEF old

LEMMA LookupKeeps ==
  ASSUME IInv, NEW s \in Scheds, LookupOrCreate(s)
  PROVE  IInv'
<1>. DEFINE new == Append(Logs(s), call[s])
<1>1. at[s] = "called" /\ UNCHANGED <<call, nextID, saved>>
  BY DEF LookupOrCreate
<1>2. at'[s] = "logged" /\ \A y \in Scheds \ {s} : at'[y] = at[y]
  BY DEF LookupOrCreate, IInv, TypeOK
<1>3. at' \in [Scheds -> {"idle", "called", "logged", "running", "done"}]
  BY DEF LookupOrCreate, IInv, TypeOK
<1>4. \A y \in Scheds \ {s} : item'[y] = item[y]
  BY DEF LookupOrCreate, IInv, TypeOK
<1>5. memoized \in Seq(Item)
  BY DEF IInv, TypeOK, Item, Change
\* What the rest of the proof needs of the table, in both cases.
<1>6. /\ memoized' \in Seq(Item) /\ DOMAIN memoized \subseteq DOMAIN memoized'
      /\ \A n \in DOMAIN memoized : memoized'[n] = memoized[n]
      /\ item' \in [Scheds -> Nat] /\ item'[s] \in DOMAIN memoized'
      /\ memoized'[item'[s]].logs = new
      /\ RunOnce' /\ NoEmptyLog'
      /\ \A n \in DOMAIN memoized' \ DOMAIN memoized :
           n = item'[s] /\ memoized'[n].owner = s
  <2>1. CASE Found(s) # {}
    <3>1. memoized' = memoized /\ item' = [item EXCEPT ![s] = CHOOSE n \in Found(s) : TRUE]
      BY <2>1 DEF LookupOrCreate
    <3>2. item'[s] \in Found(s)
      BY <2>1, <3>1 DEF IInv, TypeOK
    <3>3. item'[s] \in DOMAIN memoized /\ memoized[item'[s]].logs = new
      BY <3>2 DEF Found
    <3>4. item' \in [Scheds -> Nat]
      <4>1. item'[s] \in Nat
        BY <3>3, <1>5, Elements
      <4>2. (CHOOSE n \in Found(s) : TRUE) \in Nat
        BY <3>1, <4>1 DEF IInv, TypeOK
      <4>. QED BY <3>1, <4>2 DEF IInv, TypeOK
    <3>5. RunOnce' /\ NoEmptyLog'
      BY <3>1 DEF IInv, RunOnce, NoEmptyLog
    <3>. QED BY <1>5, <3>1, <3>3, <3>4, <3>5
  <2>2. CASE Found(s) = {}
    <3>1. memoized' = Append(memoized, NewItem(s)) /\ item' = [item EXCEPT ![s] = Len(memoized')]
      BY <2>2 DEF LookupOrCreate, Inserted
    <3>2. new \in Seq(Key) /\ new # <<>>
      <4>1. call[s] \in Key /\ Logs(s) \in Seq(Key)
        BY <1>1, StackInCall DEF IInv, TypeOK
      <4>. QED BY <4>1, AppendProperties
    <3>3. NewItem(s) \in Item /\ NewItem(s).logs = new /\ NewItem(s).owner = s
      BY <3>2 DEF NewItem, Item
    <3>. HIDE DEF new
    <3>4. /\ memoized' \in Seq(Item)
          /\ DOMAIN memoized' = DOMAIN memoized \cup {Len(memoized) + 1}
          /\ Len(memoized) + 1 \notin DOMAIN memoized
          /\ \A n \in DOMAIN memoized : memoized'[n] = memoized[n]
          /\ memoized'[Len(memoized) + 1] = NewItem(s)
      BY <1>5, <3>1, <3>3, Grown
    <3>5. Len(memoized') = Len(memoized) + 1 /\ Len(memoized) \in Nat
      BY <1>5, <3>1, <3>3, AppendProperties
    <3>6. item'[s] = Len(memoized) + 1 /\ item' \in [Scheds -> Nat]
      BY <3>1, <3>5 DEF IInv, TypeOK
    <3>7. \A n \in DOMAIN memoized : memoized[n].logs # new
      BY <2>2 DEF Found, new
    <3>8. RunOnce'
      BY <3>3, <3>4, <3>7 DEF IInv, RunOnce
    <3>9. NoEmptyLog'
      BY <3>2, <3>3, <3>4 DEF IInv, NoEmptyLog
    <3>. QED BY <3>3, <3>4, <3>6, <3>8, <3>9
  <2>. QED BY <2>1, <2>2
<1>7. TypeOK'
  <2>1. \A y \in Scheds : at'[y] \in {"logged", "running", "done"} => item'[y] \in DOMAIN memoized'
    BY <1>2, <1>4, <1>6 DEF IInv, TypeOK
  <2>2. memoized' \in Seq([logs : Seq(Key), owner : Scheds,
                       state : {"new", "running", "result", "exception"},
                       ast : Seq([target : Nat, id : Nat])])
    BY <1>6 DEF Item, Change
  <2>. QED BY <1>1, <1>3, <1>6, <2>1, <2>2, LoggedStack DEF IInv, TypeOK
<1>8. SettledBacked'
  <2>. SUFFICES ASSUME NEW y \in Scheds, NEW i \in Settled(y)'
                PROVE  Backed(memoized', openTrans'[y][i])
    BY DEF SettledBacked
  <2>1. i \in Settled(y) /\ openTrans'[y][i] = openTrans[y][i]
    <3>0. openTrans'[y] \in Seq(Transaction) /\ openTrans[y] \in Seq(Transaction)
      BY LoggedStack DEF IInv, TypeOK
    <3>1. CASE y = s
      BY <1>2, <3>0, <3>1, LoggedStack DEF Settled
    <3>2. CASE y # s
      BY <1>2, <3>2, LoggedStack DEF Settled
    <3>. QED BY <3>1, <3>2
  <2>2. Backed(memoized, openTrans[y][i])
    BY <2>1 DEF IInv, SettledBacked
  <2>. QED BY <1>6, <2>1, <2>2, BackedStays
<1>9. InCall'
  <2>. SUFFICES ASSUME NEW y \in Scheds, at'[y] # "idle"
                PROVE  (/\ Len(openTrans[y]) > 1
                        /\ Ast(y) = Base(y).ast
                        /\ at[y] = "called" => Logs(y) = Base(y).logs
                        /\ at[y] # "called" => /\ Logs(y) = Append(Base(y).logs, call[y])
                                               /\ memoized[item[y]].logs = Logs(y))'
    BY DEF InCall
  <2>1. CASE y = s
    BY <1>1, <1>2, <1>6, <2>1, LoggedStack
  <2>2. CASE y # s
    <3>1. openTrans'[y] = openTrans[y] /\ at'[y] = at[y] /\ item'[y] = item[y]
      BY <1>2, <1>4, <2>2, LoggedStack
    <3>2. Ast(y)' = Ast(y) /\ Logs(y)' = Logs(y) /\ Base(y)' = Base(y)
      BY <3>1 DEF Ast, Logs, Base
    <3>3. at[y] # "called" => item[y] \in DOMAIN memoized
      BY <3>1 DEF IInv, TypeOK
    <3>. QED BY <1>1, <1>6, <3>1, <3>2, <3>3 DEF IInv, InCall
  <2>. QED BY <2>1, <2>2
<1>10. InStep'
  <2>. SUFFICES ASSUME NEW y \in Scheds
                PROVE  /\ at'[y] = "running" => memoized'[item'[y]].state = "running"
                       /\ at'[y] = "done" => memoized'[item'[y]].state \in {"result", "exception"}
    BY DEF InStep
  <2>1. CASE y = s
    BY <1>2, <2>1
  <2>2. CASE y # s
    <3>1. at[y] \in {"running", "done"} => item[y] \in DOMAIN memoized
      BY DEF IInv, TypeOK
    <3>. QED BY <1>2, <1>4, <1>6, <2>2, <3>1 DEF IInv, InStep
  <2>. QED BY <2>1, <2>2
<1>11. OneRunner'
  BY <1>2, <1>4 DEF IInv, OneRunner
<1>12. Waiting'
  <2>. SUFFICES ASSUME NEW n \in DOMAIN memoized', memoized'[n].state \in {"new", "running"}
                PROVE  /\ item'[memoized'[n].owner] = n
                       /\ at'[memoized'[n].owner] \in {"logged", "running"}
    BY DEF Waiting
  <2>1. CASE n \in DOMAIN memoized
    <3>1. /\ item[memoized[n].owner] = n /\ at[memoized[n].owner] \in {"logged", "running"}
          /\ memoized[n].owner \in Scheds
      BY <1>6, <2>1, Items DEF IInv, Waiting
    <3>2. memoized[n].owner # s
      BY <1>1, <3>1
    <3>. QED BY <1>2, <1>4, <1>6, <2>1, <3>1, <3>2
  <2>2. CASE n \notin DOMAIN memoized
    BY <1>2, <1>6, <2>2
  <2>. QED BY <2>1, <2>2
<1>. QED
  BY <1>6, <1>7, <1>8, <1>9, <1>10, <1>11, <1>12 DEF IInv

\* Stacks that do not change, read where the thread of their Schedule stays.
LEMMA StackStays ==
  ASSUME NEW y \in Scheds, openTrans'[y] = openTrans[y]
  PROVE  Ast(y)' = Ast(y) /\ Logs(y)' = Logs(y) /\ Base(y)' = Base(y)
BY DEF Ast, Logs, Base

\* A step of the thread of s that changes its item, which has no result yet.
LEMMA ItemStep ==
  ASSUME IInv, NEW s \in Scheds, NEW it \in Item, NEW to \in {"running", "done"},
         at[s] \in {"logged", "running"}, memoized[item[s]].state \in {"new", "running"},
         it.logs = memoized[item[s]].logs, it.owner = memoized[item[s]].owner,
         memoized' = [memoized EXCEPT ![item[s]] = it],
         at' = [at EXCEPT ![s] = to],
         \/ to = "running" /\ memoized[item[s]].state = "new" /\ it.state = "running"
         \/ to = "done" /\ at[s] = "running" /\ it.state \in {"result", "exception"},
         UNCHANGED <<openTrans, call, item, saved>>, nextID' \in Nat
  PROVE  IInv'
<1>. DEFINE n == item[s]
<1>1. n \in DOMAIN memoized /\ n \in Nat
  BY DEF IInv, TypeOK
<1>2. \A y \in Scheds : Ast(y)' = Ast(y) /\ Logs(y)' = Logs(y) /\ Base(y)' = Base(y)
  BY StackStays
<1>3. memoized \in Seq(Item)
  BY DEF IInv, TypeOK, Item, Change
<1>4. at'[s] = to /\ \A y \in Scheds \ {s} : at'[y] = at[y]
  BY DEF IInv, TypeOK
<1>5. /\ DOMAIN memoized' = DOMAIN memoized /\ memoized'[n] = it
      /\ \A m \in DOMAIN memoized \ {n} : memoized'[m] = memoized[m]
  BY <1>1
<1>6. memoized' \in Seq(Item)
  <2>1. n \in 1 .. Len(memoized)
    BY <1>1, <1>3, Elements
  <2>. QED BY <1>3, <2>1, ExceptSeq
<1>7. \A m \in DOMAIN memoized : /\ memoized'[m].logs = memoized[m].logs
                                 /\ memoized'[m].owner = memoized[m].owner
  BY <1>5
<1>8. \A y \in Scheds : at[y] \in {"logged", "running", "done"} => item[y] \in DOMAIN memoized
  BY DEF IInv, TypeOK
<1>9. TypeOK'
  <2>1. memoized' \in Seq([logs : Seq(Key), owner : Scheds,
                     state : {"new", "running", "result", "exception"},
                     ast : Seq([target : Nat, id : Nat])])
    BY <1>6 DEF Item, Change
  <2>. QED BY <1>1, <1>4, <1>5, <2>1 DEF IInv, TypeOK
<1>10. SettledBacked'
  <2>. SUFFICES ASSUME NEW y \in Scheds, NEW i \in Settled(y)'
                PROVE  Backed(memoized', openTrans[y][i])
    BY DEF SettledBacked
  <2>1. i \in Settled(y)
    BY <1>4 DEF Settled
  <2>2. \A m \in DOMAIN memoized : memoized[m].state = "result" =>
          m \in DOMAIN memoized' /\ memoized'[m] = memoized[m]
    BY <1>5
  <2>3. Backed(memoized, openTrans[y][i])
    BY <2>1 DEF IInv, SettledBacked
  <2>. QED BY ONLY <2>2, <2>3 DEF Backed
<1>11. InCall'
  <2>. SUFFICES ASSUME NEW y \in Scheds, at'[y] # "idle"
                PROVE  (/\ Len(openTrans[y]) > 1
                        /\ Ast(y) = Base(y).ast
                        /\ at[y] = "called" => Logs(y) = Base(y).logs
                        /\ at[y] # "called" => /\ Logs(y) = Append(Base(y).logs, call[y])
                                               /\ memoized[item[y]].logs = Logs(y))'
    BY DEF InCall
  <2>1. at[y] # "idle" /\ (at[y] = "called" <=> at'[y] = "called")
    BY <1>4
  <2>2. at[y] # "called" => item[y] \in DOMAIN memoized
    BY <2>1 DEF IInv, TypeOK
  <2>3. at[y] # "called" => memoized'[item[y]].logs = memoized[item[y]].logs
    BY <1>7, <2>2
  <2>. QED BY <1>2, <2>1, <2>3 DEF IInv, InCall
<1>12. InStep'
  <2>. SUFFICES ASSUME NEW y \in Scheds
                PROVE  /\ at'[y] = "running" => memoized'[item[y]].state = "running"
                       /\ at'[y] = "done" => memoized'[item[y]].state \in {"result", "exception"}
    BY DEF InStep
  <2>1. CASE y = s
    BY <1>4, <1>5, <2>1
  <2>2. CASE y # s /\ at[y] \in {"running", "done"}
    <3>1. item[y] # n
      BY <2>2 DEF IInv, InStep, OneRunner
    <3>2. memoized'[item[y]] = memoized[item[y]]
      BY <1>5, <1>8, <2>2, <3>1
    <3>. QED BY <1>4, <2>2, <3>2 DEF IInv, InStep
  <2>3. CASE y # s /\ at[y] \notin {"running", "done"}
    BY <1>4, <2>3
  <2>. QED BY <2>1, <2>2, <2>3
<1>13. OneRunner'
  BY <1>4 DEF IInv, OneRunner, InStep
<1>14. RunOnce' /\ NoEmptyLog'
  BY <1>5, <1>7 DEF IInv, RunOnce, NoEmptyLog
<1>15. Waiting'
  <2>. SUFFICES ASSUME NEW m \in DOMAIN memoized, memoized'[m].state \in {"new", "running"}
                PROVE  /\ item[memoized[m].owner] = m
                       /\ at'[memoized[m].owner] \in {"logged", "running"}
    BY <1>5, <1>7 DEF Waiting
  <2>1. memoized[m].owner \in Scheds
    BY Items
  <2>2. memoized[m].state \in {"new", "running"}
    BY <1>5
  <2>3. item[memoized[m].owner] = m /\ at[memoized[m].owner] \in {"logged", "running"}
    BY <2>2 DEF IInv, Waiting
  <2>4. CASE m = n
    BY <1>4, <1>5, <2>1, <2>3, <2>4
  <2>5. CASE m # n
    BY <1>4, <2>1, <2>3, <2>5
  <2>. QED BY <2>4, <2>5
<1>. QED
  BY <1>9, <1>10, <1>11, <1>12, <1>13, <1>14, <1>15 DEF IInv

LEMMA RunKeeps ==
  ASSUME IInv, NEW s \in Scheds, Run(s)
  PROVE  IInv'
<1>. DEFINE n == item[s]
<1>1. at[s] = "logged" /\ UNCHANGED <<openTrans, call, item, nextID, saved>>
  BY DEF Run
<1>2. n \in DOMAIN memoized /\ memoized[n] \in Item /\ nextID \in Nat
  BY <1>1, Items DEF IInv, TypeOK
<1>3. CASE memoized[n].state = "new"
  <2>. DEFINE it == [memoized[n] EXCEPT !.state = "running"]
  <2>1. memoized' = [memoized EXCEPT ![n] = it] /\ at' = [at EXCEPT ![s] = "running"]
    BY <1>3 DEF Run
  <2>2. /\ it \in Item /\ it.state = "running"
        /\ it.logs = memoized[n].logs /\ it.owner = memoized[n].owner
    BY <1>2 DEF Item
  <2>. HIDE DEF it
  <2>. QED BY <1>1, <1>2, <1>3, <2>1, <2>2, ItemStep
<1>4. CASE memoized[n].state \in {"result", "exception"}
  <2>1. at' = [at EXCEPT ![s] = "done"] /\ UNCHANGED memoized
    BY <1>4 DEF Run
  <2>2. at'[s] = "done" /\ \A y \in Scheds \ {s} : at'[y] = at[y]
    BY <2>1 DEF IInv, TypeOK
  <2>3. TypeOK'
    BY <1>1, <1>2, <2>1, <2>2 DEF IInv, TypeOK
  <2>4. SettledBacked'
    <3>1. \A y \in Scheds : Settled(y)' = Settled(y)
      BY <1>1, <2>2 DEF Settled
    <3>. QED BY <1>1, <2>1, <3>1 DEF IInv, SettledBacked
  <2>5. InCall'
    <3>1. \A y \in Scheds : Ast(y)' = Ast(y) /\ Logs(y)' = Logs(y) /\ Base(y)' = Base(y)
      BY <1>1, StackStays
    <3>. QED BY <1>1, <3>1, <2>1, <2>2 DEF IInv, InCall
  <2>6. (InStep /\ OneRunner /\ RunOnce /\ NoEmptyLog)'
    BY <1>1, <1>4, <2>1, <2>2 DEF IInv, InStep, OneRunner, RunOnce, NoEmptyLog
  <2>7. Waiting'
    <3>. SUFFICES ASSUME NEW m \in DOMAIN memoized, memoized[m].state \in {"new", "running"}
                  PROVE  /\ item[memoized[m].owner] = m
                         /\ at'[memoized[m].owner] \in {"logged", "running"}
      BY <1>1, <2>1 DEF Waiting
    <3>1. memoized[m].owner \in Scheds
      BY Items
    <3>2. item[memoized[m].owner] = m /\ memoized[m].owner # s
      BY <1>4 DEF IInv, Waiting
    <3>. QED BY <2>2, <3>1, <3>2 DEF IInv, Waiting
  <2>. QED
    BY <2>3, <2>4, <2>5, <2>6, <2>7 DEF IInv
<1>5. memoized[n].state # "running"
  BY DEF Run, Unlocked
<1>. QED
  BY <1>2, <1>3, <1>4, <1>5 DEF Item

\* The Schedule that made an item that is running has an AST to run on.
LEMMA FinishKeeps ==
  ASSUME IInv, NEW s \in Scheds, Finish(s)
  PROVE  IInv'
<1>. DEFINE n == item[s]
            in == Ast(memoized[n].owner)
            new == [target |-> call[s].id, id |-> nextID]
            it == IF Legal(call[s].op, in)
                  THEN [memoized[n] EXCEPT !.state = "result", !.ast = Append(in, new)]
                  ELSE [memoized[n] EXCEPT !.state = "exception"]
<1>1. /\ at[s] = "running" /\ UNCHANGED <<openTrans, call, item, saved>>
      /\ memoized' = [memoized EXCEPT ![n] = it]
      /\ at' = [at EXCEPT ![s] = "done"] /\ nextID' = nextID + 1
  BY DEF Finish
<1>2. n \in DOMAIN memoized /\ memoized[n] \in Item /\ nextID \in Nat
      /\ memoized[n].state = "running" /\ call[s] \in Key
  BY <1>1, Items DEF IInv, TypeOK, InStep
<1>3. in \in Seq(Change)
  <2>1. memoized[n].owner \in Scheds /\ at[memoized[n].owner] # "idle"
    BY <1>2, Items DEF IInv, Waiting
  <2>. QED BY <2>1, StackInCall
<1>4. new \in Change
  BY <1>2 DEF Change, Key
<1>. HIDE DEF in, new
<1>5. Append(in, new) \in Seq(Change)
  BY <1>3, <1>4, AppendProperties
<1>6. /\ it \in Item /\ it.state \in {"result", "exception"}
      /\ it.logs = memoized[n].logs /\ it.owner = memoized[n].owner
  BY <1>2, <1>5 DEF Item
<1>. HIDE DEF it
<1>7. nextID' \in Nat /\ "done" \in {"running", "done"}
  BY <1>1, <1>2
<1>. QED
  BY <1>1, <1>2, <1>6, <1>7, ItemStep

\* What applyLog leaves of the stack: transactions that are all backed, the
\* last of them by the item, if it has a result.
LEMMA AppliedStack ==
  ASSUME IInv, NEW s \in Scheds, Apply(s)
  PROVE  /\ openTrans' \in [Scheds -> Seq(Transaction)]
         /\ \A y \in Scheds \ {s} : openTrans'[y] = openTrans[y]
         /\ \A i \in 1 .. Len(openTrans'[s]) : Backed(memoized, openTrans'[s][i])
<1>. DEFINE old == openTrans[s]
            it == memoized[item[s]]
            t == [ast |-> it.ast, logs |-> Top(old).logs]
            mid == SetTop(old, t)
            st == IF it.state = "result" THEN Committed(mid) ELSE Aborted(old)
<1>1. at[s] = "done" /\ openTrans' = [openTrans EXCEPT ![s] = st]
  BY DEF Apply, SetAst
<1>2. /\ old \in Seq(Transaction) /\ Len(old) > 1 /\ Top(old) \in Transaction
      /\ \A i \in 1 .. Len(old) - 1 : Backed(memoized, old[i])
  BY <1>1, StackInCall
<1>3. it \in Item /\ item[s] \in DOMAIN memoized /\ it.logs = Logs(s)
  BY <1>1, Items DEF IInv, TypeOK, InCall
<1>4. CASE it.state = "result"
  <2>1. t \in Transaction /\ t.ast = it.ast /\ t.logs = it.logs
    BY <1>2, <1>3 DEF Transaction, Item, Change, Logs
  <2>2. Backed(memoized, t)
    BY <1>3, <1>4, <2>1 DEF Backed
  <2>. HIDE DEF t, old
  <2>3. mid \in Seq(Transaction) /\ Len(mid) = Len(old)
    BY <1>2, <2>1, SetTopFacts
  <2>4. \A i \in 1 .. Len(old) - 1 : mid[i] = old[i]
    BY <1>2, <2>1, SetTopFacts
  <2>5. mid[Len(old)] = t
    BY <1>2, <2>1, SetTopFacts
  <2>. HIDE DEF mid
  <2>6. Committed(mid) \in Seq(Transaction) /\ Len(Committed(mid)) = Len(mid) - 1
        /\ Committed(mid)[Len(mid) - 1] = mid[Len(mid)]
    BY <1>2, <2>3, CommittedFacts
  <2>7. \A i \in 1 .. Len(mid) - 2 : Committed(mid)[i] = mid[i]
    BY <1>2, <2>3, CommittedFacts
  <2>8. \A i \in 1 .. Len(st) : Backed(memoized, st[i])
    <3>. TAKE i \in 1 .. Len(st)
    <3>1. CASE i = Len(old) - 1
      BY <1>4, <2>2, <2>3, <2>5, <2>6, <3>1
    <3>2. CASE i \in 1 .. Len(old) - 2
      <4>1. st[i] = old[i] /\ i \in 1 .. Len(old) - 1
        BY <1>2, <1>4, <2>3, <2>4, <2>7, <3>2
      <4>. QED BY <1>2, <4>1
    <3>3. i = Len(old) - 1 \/ i \in 1 .. Len(old) - 2
      BY <1>2, <1>4, <2>3, <2>6
    <3>. QED BY <3>1, <3>2, <3>3
  <2>9. st \in Seq(Transaction)
    BY <1>4, <2>6
  <2>. HIDE DEF st
  <2>10. openTrans'[s] = st /\ \A y \in Scheds \ {s} : openTrans'[y] = openTrans[y]
    BY <1>1 DEF IInv, TypeOK
  <2>. QED BY <1>1, <2>8, <2>9, <2>10 DEF IInv, TypeOK
<1>5. CASE it.state # "result"
  <2>1. Below(old) \in Seq(Transaction) /\ Len(Below(old)) = Len(old) - 1
    BY <1>2, BelowFacts
  <2>2. \A i \in 1 .. Len(old) - 1 : Below(old)[i] = old[i]
    BY <1>2, BelowFacts
  <2>3. st \in Seq(Transaction) /\ \A i \in 1 .. Len(st) : Backed(memoized, st[i])
    BY <1>2, <1>5, <2>1, <2>2 DEF Aborted
  <2>. HIDE DEF st
  <2>4. openTrans'[s] = st /\ \A y \in Scheds \ {s} : openTrans'[y] = openTrans[y]
    BY <1>1 DEF IInv, TypeOK
  <2>. QED BY <1>1, <2>3, <2>4 DEF IInv, TypeOK
<1>. QED BY <1>4, <1>5

LEMMA ApplyKeeps ==
  ASSUME IInv, NEW s \in Scheds, Apply(s)
  PROVE  IInv'
<1>1. at[s] = "done" /\ UNCHANGED <<memoized, call, item, nextID, saved>>
  BY DEF Apply
<1>2. at'[s] = "idle" /\ \A y \in Scheds \ {s} : at'[y] = at[y]
  BY DEF Apply, IInv, TypeOK
<1>3. TypeOK'
  BY <1>1, <1>2, AppliedStack DEF Apply, IInv, TypeOK
<1>4. SettledBacked'
  <2>. SUFFICES ASSUME NEW y \in Scheds, NEW i \in Settled(y)'
                PROVE  Backed(memoized, openTrans'[y][i])
    BY <1>1 DEF SettledBacked
  <2>1. CASE y = s
    <3>1. openTrans'[s] \in Seq(Transaction)
      BY AppliedStack
    <3>2. i \in 1 .. Len(openTrans'[s])
      BY <2>1, <3>1 DEF Settled
    <3>. QED BY <2>1, <3>2, AppliedStack
  <2>2. CASE y # s
    <3>1. openTrans'[y] = openTrans[y]
      BY <2>2, AppliedStack
    <3>2. i \in Settled(y)
      BY <1>2, <2>2, <3>1 DEF Settled
    <3>. QED BY <3>1, <3>2 DEF IInv, SettledBacked
  <2>. QED BY <2>1, <2>2
<1>5. InCall'
  <2>1. \A y \in Scheds \ {s} :
          /\ Ast(y)' = Ast(y) /\ Logs(y)' = Logs(y) /\ Base(y)' = Base(y)
          /\ openTrans'[y] = openTrans[y]
    BY AppliedStack, StackStays
  <2>. QED BY <1>1, <1>2, <2>1 DEF IInv, InCall
<1>6. (InStep /\ OneRunner /\ RunOnce /\ NoEmptyLog)'
  BY <1>1, <1>2 DEF IInv, InStep, OneRunner, RunOnce, NoEmptyLog
<1>7. Waiting'
  <2>1. \A n \in DOMAIN memoized : memoized[n].owner \in Scheds
    BY Items
  <2>. QED BY <1>1, <1>2, <2>1 DEF IInv, Waiting
<1>. QED
  BY <1>3, <1>4, <1>5, <1>6, <1>7 DEF IInv

-----------------------------------------------------------------------------
LEMMA InitIInv ==
  ASSUME Init
  PROVE  IInv
<1>. DEFINE t == [ast |-> <<>>, logs |-> <<>>]
<1>1. t \in Transaction
  BY DEF Transaction
<1>2. openTrans \in [Scheds -> Seq(Transaction)]
  <2>1. <<t>> \in Seq(Transaction)
    BY <1>1
  <2>. QED BY <2>1 DEF Init
<1>3. call \in [Scheds -> Key]
  BY ScheduleAssumption DEF Init, Key
<1>4. TypeOK
  BY <1>2, <1>3, ScheduleAssumption DEF Init, TypeOK
<1>5. SettledBacked
  <2>. SUFFICES ASSUME NEW s \in Scheds, NEW i \in DOMAIN openTrans[s]
                PROVE  Backed(memoized, openTrans[s][i])
    BY DEF SettledBacked, Settled
  <2>1. s = First /\ i = 1
    BY DEF Init
  <2>. QED BY <2>1, ScheduleAssumption DEF Init, Backed
<1>6. InCall /\ InStep /\ OneRunner /\ RunOnce /\ Waiting /\ NoEmptyLog
  BY DEF Init, InCall, InStep, OneRunner, RunOnce, Waiting, NoEmptyLog
<1>. QED BY <1>4, <1>5, <1>6 DEF IInv

LEMMA NextIInv ==
  ASSUME IInv, [Next]_vars
  PROVE  IInv'
<1>1. CASE UNCHANGED vars
  BY <1>1 DEF vars, IInv, TypeOK, SettledBacked, Settled, Backed, InCall, InStep, OneRunner,
              RunOnce, Waiting, NoEmptyLog, Ast, Logs, Base
<1>2. ASSUME NEW s \in Scheds, Step(s)
      PROVE  IInv'
  BY <1>2, LookupKeeps, RunKeeps, FinishKeeps, ApplyKeeps DEF Step
<1>3. ASSUME NEW s \in Scheds, \E op \in Ops : Call(s, op)
      PROVE  IInv'
  BY <1>3, CallKeeps
<1>4. ASSUME NEW s \in Scheds, CallStale(s) \/ Permute(s)
      PROVE  IInv'
  BY <1>4, StaleKeeps, PermuteKeeps
<1>5. ASSUME NEW s \in Scheds,
             BeginTransaction(s) \/ CommitTransaction(s) \/ AbortTransaction(s)
      PROVE  IInv'
  BY <1>5, BeginKeeps, CommitKeeps, AbortKeeps
<1>6. ASSUME NEW s \in Scheds, \E t \in Scheds : Fork(s, t)
      PROVE  IInv'
  BY <1>6, ForkKeeps
<1>. QED
  BY <1>1, <1>2, <1>3, <1>4, <1>5, <1>6 DEF Next

\* The strengthened invariant of a table that several threads share.
THEOREM Inductive == Spec => []IInv
<1>1. Init => IInv
  BY InitIInv
<1>2. IInv /\ [Next]_vars => IInv'
  BY NextIInv
<1>. QED
  BY <1>1, <1>2, PTL DEF Spec

\* The state of the stacks, the table and the threads is typed throughout:
\* a thread that has an item has one that is in the table, and the result a
\* Schedule takes from it is an AST (lookupOrCreate, applyLog).
THEOREM TypeCorrect == Spec => []TypeOK
<1>1. IInv => TypeOK
  BY DEF IInv
<1>. QED
  BY <1>1, Inductive, PTL

\* The table never holds two items for one log, however the threads that look
\* logs up are interleaved, so that no schedule is run twice.
THEOREM RunsOnce == Spec => []RunOnce
<1>1. IInv => RunOnce
  BY DEF IInv
<1>. QED
  BY <1>1, Inductive, PTL

\* What the table says of a log, it says once.
LEMMA BackedAlike ==
  ASSUME "permute" \notin Allowed, IInv,
         NEW t, NEW u, Backed(memoized, t), Backed(memoized, u), t.logs = u.logs
  PROVE  t.ast = u.ast
BY DEF IInv, Backed, RunOnce, NoEmptyLog

\* Two Schedules that share a table and have applied the same log have equal
\* ASTs, although only one of them ran the schedules (memoized_).
THEOREM SameAst ==
  ASSUME "permute" \notin Allowed
  PROVE  Spec => []SameLogsSameAst
<1>1. IInv => SameLogsSameAst
  <2>. SUFFICES ASSUME IInv, NEW s \in Scheds, NEW t \in Scheds,
                       NEW i \in Settled(s), NEW j \in Settled(t),
                       openTrans[s][i].logs = openTrans[t][j].logs
                PROVE  openTrans[s][i].ast = openTrans[t][j].ast
    BY DEF SameLogsSameAst
  <2>1. Backed(memoized, openTrans[s][i]) /\ Backed(memoized, openTrans[t][j])
    BY DEF IInv, SettledBacked
  <2>. QED BY <2>1, BackedAlike
<1>. QED
  BY <1>1, Inductive, PTL

\* While a thread runs an item, the Schedule that made the item, whose AST it
\* reads without a lock of that Schedule, is waiting in the same call (run).
THEOREM OwnersWait == Spec => []OwnerWaits
<1>1. IInv => OwnerWaits
  <2>. SUFFICES ASSUME IInv, NEW s \in Scheds, at[s] = "running"
                PROVE  LET o == memoized[item[s]].owner IN
                       /\ item[o] = item[s]
                       /\ at[o] \in {"logged", "running"}
                       /\ Logs(o) = Logs(s)
    BY DEF OwnerWaits
  <2>1. item[s] \in DOMAIN memoized /\ memoized[item[s]].state = "running"
        /\ memoized[item[s]].logs = Logs(s)
    BY DEF IInv, TypeOK, InStep, InCall
  <2>2. memoized[item[s]].owner \in Scheds
    BY <2>1, Items
  <2>. QED BY <2>1, <2>2 DEF IInv, Waiting, InCall
<1>. QED
  BY <1>1, Inductive, PTL

-----------------------------------------------------------------------------
\* A result is one change to the AST of the log before.
DerivedBy(table, n, p, k, m) ==
  /\ Backed(table, p)
  /\ table[n].logs = Append(p.logs, k)
  /\ table[n].ast = Append(p.ast, [target |-> k.id, id |-> m])

Derived ==
  /\ nextID > 0
  /\ \A n \in DOMAIN memoized : memoized[n].state = "result" =>
       \E p \in Transaction, k \in Key : \E m \in 1 .. nextID : DerivedBy(memoized, n, p, k, m)

\* Results are never changed, and only a run that finishes makes new ones.
ResultsStay ==
  \A n \in DOMAIN memoized : memoized[n].state = "result" =>
    n \in DOMAIN memoized' /\ memoized'[n] = memoized[n]

NoNewResult ==
  /\ nextID' = nextID
  /\ \A n \in DOMAIN memoized' : memoized'[n].state = "result" =>
       n \in DOMAIN memoized /\ memoized'[n] = memoized[n]

LEMMA LookupResults ==
  ASSUME IInv, NEW s \in Scheds, LookupOrCreate(s)
  PROVE  ResultsStay /\ NoNewResult
<1>1. CASE Found(s) # {}
  BY <1>1 DEF LookupOrCreate, ResultsStay, NoNewResult
<1>2. CASE Found(s) = {}
  <2>1. memoized' = Append(memoized, NewItem(s)) /\ nextID' = nextID /\ at[s] = "called"
    BY <1>2 DEF LookupOrCreate, Inserted
  <2>2. memoized \in Seq(Item) /\ call[s] \in Key /\ Logs(s) \in Seq(Key)
    BY <2>1, StackInCall DEF IInv, TypeOK, Item, Change
  <2>3. NewItem(s) \in Item /\ NewItem(s).state = "new"
    BY <2>2, AppendProperties DEF NewItem, Item
  <2>4. /\ DOMAIN memoized' = DOMAIN memoized \cup {Len(memoized) + 1}
        /\ \A n \in DOMAIN memoized : memoized'[n] = memoized[n]
        /\ memoized'[Len(memoized) + 1] = NewItem(s)
    BY <2>1, <2>2, <2>3, Grown
  <2>. QED BY <2>1, <2>3, <2>4 DEF ResultsStay, NoNewResult
<1>. QED BY <1>1, <1>2

LEMMA OtherResults ==
  ASSUME "permute" \notin Allowed, IInv, [Next]_vars
  PROVE  ResultsStay /\ (NoNewResult \/ \E s \in Scheds : Finish(s))
<1>1. ASSUME UNCHANGED memoized
      PROVE  ResultsStay
  BY <1>1 DEF ResultsStay
<1>2. ASSUME UNCHANGED <<memoized, nextID>>
      PROVE  ResultsStay /\ NoNewResult
  BY <1>2 DEF ResultsStay, NoNewResult
<1>3. ASSUME NEW s \in Scheds, Run(s)
      PROVE  ResultsStay /\ NoNewResult
  <2>1. item[s] \in DOMAIN memoized /\ nextID' = nextID
    BY <1>3 DEF Run, IInv, TypeOK
  <2>2. CASE memoized[item[s]].state = "new"
    <3>1. memoized' = [memoized EXCEPT ![item[s]].state = "running"]
      BY <1>3, <2>2 DEF Run
    <3>2. memoized[item[s]] \in Item
      BY <2>1, Items
    <3>3. memoized'[item[s]].state = "running"
      BY <2>1, <3>1, <3>2 DEF Item
    <3>. QED BY <2>1, <2>2, <3>1, <3>3 DEF ResultsStay, NoNewResult
  <2>3. CASE memoized[item[s]].state # "new"
    BY <1>3, <2>3, <1>2 DEF Run, Unlocked
  <2>. QED BY <2>2, <2>3
<1>4. ASSUME NEW s \in Scheds, Finish(s)
      PROVE  ResultsStay
  <2>1. item[s] \in DOMAIN memoized /\ memoized[item[s]].state = "running"
    BY <1>4 DEF Finish, IInv, TypeOK, InStep
  <2>. DEFINE v == IF Legal(call[s].op, Ast(memoized[item[s]].owner))
                   THEN [memoized[item[s]] EXCEPT
                           !.state = "result",
                           !.ast = Append(Ast(memoized[item[s]].owner),
                                          [target |-> call[s].id, id |-> nextID])]
                   ELSE [memoized[item[s]] EXCEPT !.state = "exception"]
  <2>2. memoized' = [memoized EXCEPT ![item[s]] = v]
    BY <1>4 DEF Finish
  <2>. HIDE DEF v
  <2>. QED BY <2>1, <2>2 DEF ResultsStay
<1>5. CASE UNCHANGED vars
  BY <1>2, <1>5 DEF vars
<1>6. ASSUME NEW s \in Scheds, Step(s)
      PROVE  ResultsStay /\ (NoNewResult \/ Finish(s))
  <2>1. CASE Apply(s)
    BY <1>2, <2>1 DEF Apply
  <2>. QED BY <1>3, <1>4, <1>6, <2>1, LookupResults DEF Step
<1>7. ASSUME NEW s \in Scheds, NEW op \in Ops, Call(s, op)
      PROVE  ResultsStay /\ NoNewResult
  BY <1>2, <1>7 DEF Call
<1>8. ASSUME NEW s \in Scheds, NEW t \in Scheds, Fork(s, t)
      PROVE  ResultsStay /\ NoNewResult
  BY <1>2, <1>8 DEF Fork
<1>9. ASSUME NEW s \in Scheds,
             BeginTransaction(s) \/ CommitTransaction(s) \/ AbortTransaction(s)
      PROVE  ResultsStay /\ NoNewResult
  BY <1>2, <1>9 DEF BeginTransaction, CommitTransaction, AbortTransaction
<1>10. ASSUME NEW s \in Scheds, CallStale(s) \/ Permute(s)
       PROVE  ResultsStay /\ NoNewResult
  BY <1>2, <1>10 DEF CallStale, Permute
<1>. QED
  BY <1>5, <1>6, <1>7, <1>8, <1>9, <1>10 DEF Next

LEMMA DerivedStays ==
  ASSUME ResultsStay, NEW n \in DOMAIN memoized, memoized[n].state = "result",
         NEW p, NEW k, NEW m, DerivedBy(memoized, n, p, k, m)
  PROVE  DerivedBy(memoized', n, p, k, m)
<1>1. Backed(memoized', p)
  BY DEF DerivedBy, Backed, ResultsStay
<1>. QED
  BY <1>1 DEF DerivedBy, ResultsStay

\* The run that finishes made its result from the transaction below that of
\* the Schedule that made the item.
LEMMA FinishDerives ==
  ASSUME IInv, NEW s \in Scheds, Finish(s), ResultsStay, memoized'[item[s]].state = "result"
  PROVE  \E p \in Transaction : DerivedBy(memoized', item[s], p, call[s], nextID)
<1>. DEFINE n == item[s]  o == memoized[n].owner
            new == [target |-> call[s].id, id |-> nextID]
<1>1. n \in DOMAIN memoized /\ at[s] = "running" /\ memoized[n].state = "running"
      /\ nextID \in Nat
  BY DEF Finish, IInv, TypeOK, InStep
<1>2. o \in Scheds /\ item[o] = n /\ at[o] \in {"logged", "running"}
  BY <1>1, Items DEF IInv, Waiting
<1>3. /\ openTrans[o] \in Seq(Transaction) /\ Len(openTrans[o]) > 1
      /\ Base(o) \in Transaction /\ Backed(memoized, Base(o))
  <2>1. /\ openTrans[o] \in Seq(Transaction) /\ Len(openTrans[o]) > 1
        /\ Base(o) \in Transaction
        /\ \A i \in 1 .. Len(openTrans[o]) - 1 : Backed(memoized, openTrans[o][i])
    BY <1>2, StackInCall
  <2>2. Len(openTrans[o]) - 1 \in 1 .. Len(openTrans[o]) - 1
    BY <2>1
  <2>. QED BY <2>1, <2>2 DEF Base
<1>4. /\ Ast(o) = Base(o).ast
      /\ memoized[n].logs = Append(Base(o).logs, call[o])
      /\ memoized[n].logs = Append(Base(s).logs, call[s])
  <2>1. at[o] # "idle" /\ at[o] # "called" /\ at[s] # "idle" /\ at[s] # "called"
    BY <1>1, <1>2
  <2>. QED BY <1>1, <1>2, <2>1 DEF IInv, InCall
<1>5. call[o] = call[s]
  <2>1. /\ Base(o).logs \in Seq(Key) /\ Base(s).logs \in Seq(Key)
        /\ call[o] \in Key /\ call[s] \in Key
    <3>1. Base(s) \in Transaction
      BY <1>1, StackInCall
    <3>. QED BY <1>2, <1>3, <3>1 DEF Transaction, IInv, TypeOK
  <2>2. Append(Base(o).logs, call[o]) = Append(Base(s).logs, call[s])
    BY <1>4
  <2>. DEFINE a == Base(o).logs  b == Base(s).logs  x == call[o]  y == call[s]
  <2>3. a \in Seq(Key) /\ b \in Seq(Key) /\ x \in Key /\ y \in Key
        /\ Append(a, x) = Append(b, y)
    BY <2>1, <2>2
  <2>. HIDE DEF a, b, x, y
  <2>4. x = y
    BY ONLY <2>3, AppendInjective
  <2>. QED BY <2>4 DEF x, y
<1>6. memoized'[n].logs = memoized[n].logs /\ memoized'[n].ast = Append(Base(o).ast, new)
  <2>. DEFINE res == [memoized[n] EXCEPT !.state = "result", !.ast = Append(Ast(o), new)]
              exc == [memoized[n] EXCEPT !.state = "exception"]
  <2>1. memoized' = [memoized EXCEPT ![n] = IF Legal(call[s].op, Ast(o)) THEN res ELSE exc]
    BY DEF Finish
  <2>2. memoized[n] \in Item
    BY <1>1, Items
  <2>3. memoized'[n] = res \/ memoized'[n] = exc
    BY <1>1, <2>1
  <2>4. res.ast = Append(Ast(o), new) /\ res.logs = memoized[n].logs /\ exc.state = "exception"
    BY <2>2 DEF Item
  <2>. HIDE DEF res, exc
  <2>. QED BY <1>4, <2>3, <2>4
<1>7. Backed(memoized', Base(o))
  BY <1>3 DEF Backed, ResultsStay
<1>. DEFINE p == Base(o)  table == memoized'  k == call[s]  r == nextID
<1>8. /\ p \in Transaction /\ Backed(table, p)
      /\ table[n].logs = Append(p.logs, k)
      /\ table[n].ast = Append(p.ast, [target |-> k.id, id |-> r])
  BY <1>3, <1>4, <1>5, <1>6, <1>7, Zenon
<1>. HIDE DEF p, table, k, r, n
<1>9. \E q \in Transaction : DerivedBy(table, n, q, k, r)
  BY <1>8 DEF DerivedBy
<1>. QED
  BY <1>9 DEF table, k, r, n

LEMMA DerivedKeeps ==
  ASSUME "permute" \notin Allowed, IInv, Derived, [Next]_vars
  PROVE  Derived'
<1>1. ResultsStay /\ (NoNewResult \/ \E s \in Scheds : Finish(s))
  BY OtherResults
<1>2. nextID \in Nat /\ nextID > 0
  BY DEF IInv, TypeOK, Derived
<1>3. nextID' = nextID \/ nextID' = nextID + 1
  BY <1>1 DEF NoNewResult, Finish
<1>4. 1 .. nextID \subseteq 1 .. nextID'
  BY <1>2, <1>3
\* An old result.
<1>5. ASSUME NEW n \in DOMAIN memoized, memoized[n].state = "result"
      PROVE  \E p \in Transaction, k \in Key : \E m \in 1 .. nextID' :
               DerivedBy(memoized', n, p, k, m)
  <2>1. PICK p \in Transaction, k \in Key : \E m \in 1 .. nextID : DerivedBy(memoized, n, p, k, m)
    BY <1>5 DEF Derived
  <2>2. PICK m \in 1 .. nextID : DerivedBy(memoized, n, p, k, m)
    BY <2>1
  <2>3. DerivedBy(memoized', n, p, k, m)
    BY <1>1, <1>5, <2>2, DerivedStays
  <2>. QED BY <1>4, <2>3
<1>6. ASSUME NEW n \in DOMAIN memoized', memoized'[n].state = "result",
             n \notin DOMAIN memoized \/ memoized[n].state # "result"
      PROVE  \E p \in Transaction, k \in Key : \E m \in 1 .. nextID' :
               DerivedBy(memoized', n, p, k, m)
  <2>1. PICK s \in Scheds : Finish(s)
    BY <1>1, <1>6 DEF NoNewResult
  <2>. DEFINE v == IF Legal(call[s].op, Ast(memoized[item[s]].owner))
                   THEN [memoized[item[s]] EXCEPT
                           !.state = "result",
                           !.ast = Append(Ast(memoized[item[s]].owner),
                                          [target |-> call[s].id, id |-> nextID])]
                   ELSE [memoized[item[s]] EXCEPT !.state = "exception"]
  <2>2. memoized' = [memoized EXCEPT ![item[s]] = v]
    BY <2>1 DEF Finish
  <2>. HIDE DEF v
  <2>3. n = item[s]
    BY <1>6, <2>2
  <2>4. \E p \in Transaction : DerivedBy(memoized', item[s], p, call[s], nextID)
    BY <1>1, <1>6, <2>1, <2>3, FinishDerives
  <2>5. call[s] \in Key /\ nextID \in 1 .. nextID'
    BY <1>2, <1>3 DEF IInv, TypeOK
  <2>. HIDE DEF DerivedBy
  <2>. QED BY <2>3, <2>4, <2>5
<1>7. nextID' > 0
  BY <1>2, <1>3
<1>. QED
  BY <1>5, <1>6, <1>7 DEF Derived

\* What applyLog leaves, if the item has a result.
LEMMA AppliedResult ==
  ASSUME "permute" \notin Allowed, IInv, Derived, NEW s \in Scheds, Apply(s)
  PROVE  AppliedToOwn(s)
<1>. DEFINE old == openTrans[s]
            it == memoized[item[s]]
            b == Base(s)
            t == [ast |-> it.ast, logs |-> Top(old).logs]
<1>1. /\ at[s] = "done"
      /\ openTrans' = [openTrans EXCEPT ![s] =
                         IF it.state = "result" THEN Committed(SetTop(old, t)) ELSE Below(old)]
  BY DEF Apply, SetAst, Aborted
<1>2. openTrans'[s] = IF it.state = "result" THEN Committed(SetTop(old, t)) ELSE Below(old)
  BY <1>1 DEF IInv, TypeOK
<1>3. CASE it.state # "result"
  BY <1>2, <1>3 DEF AppliedToOwn
<1>4. CASE it.state = "result"
  <2>1. /\ old \in Seq(Transaction) /\ Len(old) > 1 /\ b \in Transaction
        /\ Top(old) \in Transaction
        /\ \A i \in 1 .. Len(old) - 1 : Backed(memoized, old[i])
    BY <1>1, StackInCall
  <2>2. item[s] \in DOMAIN memoized /\ it \in Item /\ call[s] \in Key
        /\ Top(old).logs = Append(b.logs, call[s]) /\ it.logs = Top(old).logs
    BY <1>1, Items DEF IInv, TypeOK, InCall, Logs
  <2>3. PICK p \in Transaction, k \in Key, m \in 1 .. nextID :
          DerivedBy(memoized, item[s], p, k, m)
    BY <1>4, <2>2 DEF Derived
  <2>4. p.logs = b.logs /\ k = call[s]
    <3>1. Append(b.logs, call[s]) = Append(p.logs, k)
      BY <2>2, <2>3 DEF DerivedBy
    <3>. DEFINE x == b.logs  y == p.logs  z == call[s]
    <3>2. x \in Seq(Key) /\ y \in Seq(Key) /\ z \in Key /\ Append(x, z) = Append(y, k)
      BY <2>1, <2>2, <3>1 DEF Transaction
    <3>. HIDE DEF x, y, z
    <3>3. x = y /\ z = k
      BY ONLY <3>2, k \in Key, AppendInjective
    <3>. QED BY <3>3 DEF x, y, z
  <2>5. Backed(memoized, b)
    <3>1. Len(old) - 1 \in 1 .. Len(old) - 1
      BY <2>1
    <3>. QED BY <2>1, <3>1 DEF Base
  <2>6. p.ast = b.ast
    BY <2>3, <2>4, <2>5, BackedAlike DEF DerivedBy
  <2>7. t = [ast |-> Append(b.ast, [target |-> call[s].id, id |-> m]),
             logs |-> Append(b.logs, call[s])]
    BY <2>2, <2>3, <2>4, <2>6 DEF DerivedBy
  <2>8. t \in Transaction
    BY <2>1, <2>2 DEF Transaction, Item, Change
  <2>. DEFINE below == Below(old)
  <2>9. below \in Seq(Transaction) /\ Len(below) = Len(old) - 1 /\ Top(below) = b
    <3>1. below \in Seq(Transaction) /\ Len(below) = Len(old) - 1
      BY <2>1, BelowFacts
    <3>2. \A i \in 1 .. Len(old) - 1 : below[i] = old[i]
      BY <2>1, BelowFacts
    <3>3. Len(below) \in 1 .. Len(old) - 1
      BY <2>1, <3>1
    <3>. HIDE DEF below
    <3>. QED BY <3>1, <3>2, <3>3 DEF Top, Base
  <2>10. Committed(SetTop(old, t)) = SetTop(below, t)
    <3>. DEFINE mid == SetTop(old, t)
    <3>. HIDE DEF old, t
    <3>1. mid \in Seq(Transaction) /\ Len(mid) = Len(old)
      BY <2>1, <2>8, SetTopFacts
    <3>2. \A i \in 1 .. Len(old) - 1 : mid[i] = old[i]
      BY <2>1, <2>8, SetTopFacts
    <3>3. mid[Len(old)] = t
      BY <2>1, <2>8, SetTopFacts
    <3>. HIDE DEF mid
    <3>4. Below(mid) \in Seq(Transaction) /\ Len(Below(mid)) = Len(mid) - 1
      BY <2>1, <3>1, BelowFacts
    <3>5. \A i \in 1 .. Len(mid) - 1 : Below(mid)[i] = mid[i]
      BY <2>1, <3>1, BelowFacts
    <3>6. \A i \in 1 .. Len(old) - 1 : below[i] = old[i]
      BY <2>1, BelowFacts
    <3>7. \A i \in 1 .. Len(old) - 1 : Below(mid)[i] = below[i]
      BY <3>1, <3>2, <3>5, <3>6
    <3>. DEFINE u == Below(mid)
    <3>. HIDE DEF u, below
    <3>8. Len(u) = Len(below) /\ u \in Seq(Transaction)
          /\ \A i \in 1 .. Len(u) : u[i] = below[i]
      BY <2>9, <3>1, <3>4, <3>7 DEF u
    <3>9. u = below
      BY <2>9, <3>8, SeqEqual
    <3>10. Top(mid) = t
      BY <3>1, <3>3 DEF Top
    <3>. QED BY <3>9, <3>10 DEF Committed, u, mid
  <2>. HIDE DEF t, below
  <2>11. openTrans'[s] = SetTop(below, [ast |-> Append(Top(below).ast, [target |-> call[s].id, id |-> m]),
                                       logs |-> Append(Top(below).logs, call[s])])
    BY <1>2, <1>4, <2>7, <2>9, <2>10
  <2>. QED BY <2>11 DEF AppliedToOwn, below
<1>. QED BY <1>3, <1>4

\* Whoever ran the schedule, a call leaves on the Schedule it was made on one
\* change, to the statement that was named and to the AST that was there, or
\* nothing (applyLog): a result that is shared is never that of another AST.
THEOREM AppliesOwn ==
  ASSUME "permute" \notin Allowed
  PROVE  Spec => AppliesToOwn
<1>1. Init => Derived
  BY ScheduleAssumption DEF Init, Derived
<1>2. IInv /\ Derived /\ [Next]_vars => Derived'
  BY DerivedKeeps
<1>3. Spec => []Derived
  BY <1>1, <1>2, Inductive, PTL DEF Spec
<1>4. IInv /\ Derived /\ [Next]_vars =>
        [\A s \in Scheds : at[s] # "idle" /\ at'[s] = "idle" => AppliedToOwn(s)]_vars
  <2>. SUFFICES ASSUME IInv, Derived, Next, NEW s \in Scheds, at[s] # "idle", at'[s] = "idle"
                PROVE  AppliedToOwn(s)
    OBVIOUS
  <2>1. \A y \in Scheds : LookupOrCreate(y) => at'[s] # "idle"
    BY DEF LookupOrCreate, IInv, TypeOK
  <2>2. \A y \in Scheds : Run(y) \/ Finish(y) => at'[s] # "idle"
    BY DEF Run, Finish, IInv, TypeOK
  <2>3. \A y \in Scheds : Apply(y) => y = s
    BY DEF Apply, IInv, TypeOK
  <2>4. \A y \in Scheds, op \in Ops : Call(y, op) => at'[s] # "idle"
    BY DEF Call, Idle, IInv, TypeOK
  <2>5. \A y \in Scheds :
          CallStale(y) \/ Permute(y) \/ BeginTransaction(y) \/ CommitTransaction(y)
            \/ AbortTransaction(y) => at' = at
    BY DEF CallStale, Permute, BeginTransaction, CommitTransaction, AbortTransaction
  <2>6. \A x, y \in Scheds : Fork(x, y) => at' = at
    BY DEF Fork
  <2>7. Apply(s)
    BY <2>1, <2>2, <2>3, <2>4, <2>5, <2>6 DEF Next, Step
  <2>. QED BY <2>7, AppliedResult
<1>. QED
  BY <1>3, <1>4, Inductive, PTL DEF Spec, AppliesToOwn
-----------------------------------------------------------------------------
\* What is below the last transaction stays there when the last one changes.
LEMMA BelowAlike ==
  ASSUME NEW T, NEW u \in Seq(T), NEW v \in Seq(T), Len(u) > 0, Len(v) = Len(u),
         \A i \in 1 .. Len(u) - 1 : u[i] = v[i]
  PROVE  Below(u) = Below(v)
<1>1. Below(u) \in Seq(T) /\ Len(Below(u)) = Len(u) - 1
      /\ \A i \in 1 .. Len(u) - 1 : Below(u)[i] = u[i]
  BY BelowFacts
<1>2. Below(v) \in Seq(T) /\ Len(Below(v)) = Len(u) - 1
      /\ \A i \in 1 .. Len(u) - 1 : Below(v)[i] = v[i]
  BY BelowFacts
<1>. DEFINE a == Below(u)  b == Below(v)
<1>3. a \in Seq(T) /\ b \in Seq(T) /\ Len(a) = Len(b) /\ \A i \in 1 .. Len(a) : a[i] = b[i]
  BY <1>1, <1>2
<1>. HIDE DEF a, b
<1>4. a = b
  BY <1>3, SeqEqual
<1>. QED BY <1>4 DEF a, b

LEMMA BelowSetTop ==
  ASSUME NEW T, NEW st \in Seq(T), Len(st) > 0, NEW t
  PROVE  Below(SetTop(st, t)) = Below(st)
<1>. DEFINE U == T \cup {t}  new == SetTop(st, t)
<1>1. st \in Seq(U) /\ t \in U
  OBVIOUS
<1>. HIDE DEF U
<1>2. new \in Seq(U) /\ Len(new) = Len(st) /\ \A i \in 1 .. Len(st) - 1 : new[i] = st[i]
  BY <1>1, SetTopFacts
<1>. HIDE DEF new
<1>3. Below(new) = Below(st)
  BY <1>1, <1>2, BelowAlike
<1>. QED BY <1>3 DEF new

\* beginTransaction puts all there was below the new transaction.
LEMMA BelowOpened ==
  ASSUME NEW T, NEW st \in Seq(T), Len(st) > 0
  PROVE  Below(Opened(st)) = st
<1>. DEFINE new == Opened(st)
<1>1. new \in Seq(T) /\ Len(new) = Len(st) + 1 /\ \A i \in 1 .. Len(st) : new[i] = st[i]
  BY OpenedFacts
<1>. HIDE DEF new
<1>. DEFINE low == Below(new)
<1>2. low \in Seq(T) /\ Len(low) = Len(new) - 1 /\ \A i \in 1 .. Len(new) - 1 : low[i] = new[i]
  BY <1>1, BelowFacts
<1>. HIDE DEF low
<1>3. low = st
  <2>1. \A i \in 1 .. Len(low) : low[i] = st[i]
    BY <1>1, <1>2
  <2>. QED BY <1>1, <1>2, <2>1, SeqEqual
<1>. QED BY <1>3 DEF low, new

\* commitTransaction keeps what is below the transaction it commits to.
LEMMA BelowCommitted ==
  ASSUME NEW T, NEW st \in Seq(T), Len(st) > 1
  PROVE  Below(Committed(st)) = Below(Below(st))
<1>1. Below(st) \in Seq(T) /\ Len(Below(st)) > 0
  BY BelowFacts
<1>. QED BY <1>1, BelowSetTop DEF Committed

\* A stack is what is below its last transaction, and that transaction.
LEMMA BelowAndTop ==
  ASSUME NEW T, NEW st \in Seq(T), Len(st) > 0
  PROVE  Append(Below(st), Top(st)) = st
<1>. DEFINE low == Below(st)  t == Top(st)
<1>1. low \in Seq(T) /\ Len(low) = Len(st) - 1 /\ \A i \in 1 .. Len(st) - 1 : low[i] = st[i]
  BY BelowFacts
<1>2. t \in T /\ t = st[Len(st)]
  BY DEF Top
<1>. HIDE DEF low, t
<1>. DEFINE new == Append(low, t)
<1>3. new \in Seq(T) /\ Len(new) = Len(low) + 1 /\ new[Len(low) + 1] = t
      /\ \A i \in 1 .. Len(low) : new[i] = low[i]
  BY <1>1, <1>2, AppendProperties
<1>. HIDE DEF new
<1>4. \A i \in 1 .. Len(new) : new[i] = st[i]
  BY <1>1, <1>2, <1>3
<1>5. new = st
  BY <1>1, <1>3, <1>4, SeqEqual
<1>. QED BY <1>5 DEF new, low, t

\* What the user expects an abort to return to is below the transaction that
\* the user has opened, and, in a call, below the one of the call too.
UserStack(stack, where) == IF where = "idle" THEN Below(stack) ELSE Below(Below(stack))

Restores ==
  \A s \in Scheds : openTrans[s] # <<>> => saved[s] = UserStack(openTrans[s], at[s])

\* A step that only concerns the Schedule x.
LEMMA RestoresStep ==
  ASSUME Restores, NEW x \in Scheds,
         \A y \in Scheds \ {x} : /\ openTrans'[y] = openTrans[y]
                                 /\ at'[y] = at[y] /\ saved'[y] = saved[y],
         saved'[x] = UserStack(openTrans'[x], at'[x])
  PROVE  Restores'
BY DEF Restores

LEMMA UserRestores ==
  ASSUME IInv, Restores, NEW s \in Scheds,
         BeginTransaction(s) \/ CommitTransaction(s) \/ AbortTransaction(s)
  PROVE  Restores'
<1>. DEFINE old == openTrans[s]
<1>1. Idle(s) /\ at' = at
  BY DEF BeginTransaction, CommitTransaction, AbortTransaction
<1>2. old \in Seq(Transaction) /\ Len(old) > 0 /\ at[s] = "idle" /\ at'[s] = "idle"
  BY <1>1, IdleBacked DEF Idle
<1>3. saved[s] = Below(old)
  BY <1>1 DEF Restores, UserStack, Idle
<1>4. \A y \in Scheds \ {s} : openTrans'[y] = openTrans[y] /\ saved'[y] = saved[y]
  BY DEF BeginTransaction, CommitTransaction, AbortTransaction, IInv, TypeOK
<1>. DEFINE Goal == saved'[s] = Below(openTrans'[s])
<1>5. ASSUME BeginTransaction(s) PROVE Goal
  <2>1. openTrans'[s] = Opened(old) /\ saved'[s] = Append(saved[s], Top(old))
    BY <1>5 DEF BeginTransaction, IInv, TypeOK
  <2>. QED BY <1>2, <1>3, <2>1, BelowOpened, BelowAndTop
<1>6. ASSUME CommitTransaction(s) PROVE Goal
  <2>1. openTrans'[s] = Committed(old) /\ saved'[s] = Below(saved[s]) /\ Len(old) > 1
    BY <1>6 DEF CommitTransaction, IInv, TypeOK
  <2>. QED BY <1>2, <1>3, <2>1, BelowCommitted
<1>7. ASSUME AbortTransaction(s) PROVE Goal
  <2>1. openTrans'[s] = Below(old) /\ saved'[s] = Below(saved[s])
    BY <1>7 DEF AbortTransaction, Aborted, IInv, TypeOK
  <2>. QED BY <1>3, <2>1
<1>8. saved'[s] = UserStack(openTrans'[s], at'[s])
  BY <1>2, <1>5, <1>6, <1>7 DEF UserStack
<1>. QED BY <1>1, <1>4, <1>8, RestoresStep

LEMMA PermuteRestores ==
  ASSUME IInv, Restores, NEW s \in Scheds, Permute(s)
  PROVE  Restores'
<1>. DEFINE old == openTrans[s]
<1>1. old \in Seq(Transaction) /\ Len(old) > 0 /\ at[s] = "idle"
  BY IdleBacked DEF Permute, Idle
<1>2. saved[s] = Below(old) /\ saved' = saved /\ at' = at
  BY DEF Permute, Restores, UserStack, Idle
<1>3. PICK t : openTrans' = [openTrans EXCEPT ![s] = SetTop(old, t)]
  BY DEF Permute, SetAst
<1>4. /\ openTrans'[s] = SetTop(old, t)
      /\ \A y \in Scheds \ {s} : openTrans'[y] = openTrans[y]
  BY <1>3 DEF IInv, TypeOK
<1>5. Below(openTrans'[s]) = Below(old)
  BY <1>1, <1>4, BelowSetTop
<1>6. saved'[s] = UserStack(openTrans'[s], at'[s])
  BY <1>1, <1>2, <1>5 DEF UserStack
<1>. QED BY <1>2, <1>4, <1>6, RestoresStep

LEMMA CallRestores ==
  ASSUME IInv, Restores, NEW s \in Scheds, NEW op \in Ops, Call(s, op)
  PROVE  Restores'
<1>. DEFINE old == openTrans[s]
<1>1. old \in Seq(Transaction) /\ Len(old) > 0
  BY IdleBacked DEF Call
<1>2. saved[s] = Below(old) /\ saved' = saved
  BY DEF Call, Restores, UserStack, Idle
<1>3. /\ openTrans'[s] = Opened(old) /\ at'[s] = "called"
      /\ \A y \in Scheds \ {s} : openTrans'[y] = openTrans[y] /\ at'[y] = at[y]
  BY DEF Call, IInv, TypeOK
<1>4. saved'[s] = UserStack(openTrans'[s], at'[s])
  BY <1>1, <1>2, <1>3, BelowOpened DEF UserStack
<1>. QED BY <1>2, <1>3, <1>4, RestoresStep

LEMMA StepRestores ==
  ASSUME IInv, Restores, NEW s \in Scheds, Step(s)
  PROVE  Restores'
<1>. DEFINE old == openTrans[s]
<1>1. at[s] # "idle" /\ saved' = saved
      /\ \A y \in Scheds \ {s} : openTrans'[y] = openTrans[y] /\ at'[y] = at[y]
  BY DEF Step, LookupOrCreate, Run, Finish, Apply, IInv, TypeOK
<1>2. old \in Seq(Transaction) /\ Len(old) > 1
  BY <1>1, StackInCall
<1>3. saved[s] = Below(Below(old))
  BY <1>1, <1>2, EmptySeq DEF Restores, UserStack
<1>. DEFINE Goal == saved'[s] = UserStack(openTrans'[s], at'[s])
<1>4. ASSUME LookupOrCreate(s) PROVE Goal
  <2>1. at'[s] # "idle"
    BY <1>4 DEF LookupOrCreate, IInv, TypeOK
  <2>2. PICK t : openTrans'[s] = SetTop(old, t)
    BY <1>4 DEF LookupOrCreate, SetLogs, IInv, TypeOK
  <2>3. Below(openTrans'[s]) = Below(old)
    BY <1>2, <2>2, BelowSetTop
  <2>. QED BY <1>1, <1>3, <2>1, <2>3 DEF UserStack
<1>5. ASSUME Run(s) \/ Finish(s) PROVE Goal
  <2>1. at'[s] # "idle" /\ openTrans'[s] = old
    BY <1>5 DEF Run, Finish, IInv, TypeOK
  <2>. QED BY <1>1, <1>3, <2>1 DEF UserStack
<1>6. ASSUME Apply(s) PROVE Goal
  <2>. DEFINE it == memoized[item[s]]
              mid == SetAst(old, it.ast)
  <2>1. at'[s] = "idle"
        /\ openTrans'[s] = IF it.state = "result" THEN Committed(mid) ELSE Below(old)
    BY <1>6 DEF Apply, Aborted, IInv, TypeOK
  <2>2. Below(Committed(mid)) = Below(Below(old))
    <3>. DEFINE t == [ast |-> it.ast, logs |-> Top(old).logs]
                U == Transaction \cup {t}
    <3>1. mid = SetTop(old, t)
      BY DEF SetAst
    <3>2. old \in Seq(U) /\ t \in U
      BY <1>2
    <3>3. Below(mid) = Below(old)
      BY <1>2, <3>1, BelowSetTop
    <3>. HIDE DEF U, t, mid
    <3>4. mid \in Seq(U) /\ Len(mid) > 1
      BY <1>2, <3>1, <3>2, SetTopFacts
    <3>. QED BY <3>3, <3>4, BelowCommitted
  <2>. HIDE DEF mid
  <2>. QED BY <1>1, <1>3, <2>1, <2>2 DEF UserStack
<1>7. Goal
  BY <1>4, <1>5, <1>6 DEF Step
<1>. QED BY <1>1, <1>7, RestoresStep

LEMMA ForkRestores ==
  ASSUME IInv, Restores, NEW s \in Scheds, NEW t \in Scheds, Fork(s, t)
  PROVE  Restores'
<1>1. /\ openTrans'[t] = openTrans[s] /\ saved'[t] = saved[s] /\ at' = at
      /\ \A y \in Scheds \ {t} : openTrans'[y] = openTrans[y] /\ saved'[y] = saved[y]
  BY DEF Fork, IInv, TypeOK
<1>2. at[t] = "idle" /\ at[s] = "idle" /\ openTrans[s] # <<>>
  BY EmptySeq DEF Fork, Idle, IInv, InCall
<1>3. saved'[t] = UserStack(openTrans'[t], at'[t])
  BY <1>1, <1>2 DEF Restores
<1>. QED BY <1>1, <1>3, RestoresStep

\* abort_transaction returns to the AST and the log of the matching
\* begin_transaction, whatever was tried in between and whoever ran it: no
\* call leaves a transaction open, or ends one of the user's.
THEOREM AbortsRestore ==
  ASSUME "stale" \notin Allowed
  PROVE  Spec => []AbortRestores
<1>1. Init => Restores
  <2>. SUFFICES ASSUME Init, NEW s \in Scheds, openTrans[s] # <<>>
                PROVE  saved[s] = UserStack(openTrans[s], at[s])
    BY DEF Restores
  <2>. DEFINE t == [ast |-> <<>>, logs |-> <<>>]
  <2>1. openTrans[s] = <<t>> /\ saved[s] = <<>> /\ at[s] = "idle"
    BY DEF Init
  <2>. HIDE DEF t
  <2>2. Below(<<t>>) = <<>>
    <3>. DEFINE one == <<t>>  T == {t}
    <3>1. one \in Seq(T) /\ Len(one) = 1
      OBVIOUS
    <3>. HIDE DEF one, T
    <3>. DEFINE low == Below(one)
    <3>2. low \in Seq(T) /\ Len(low) = Len(one) - 1
      BY <3>1, Len(one) > 0, BelowFacts
    <3>. HIDE DEF low
    <3>3. low = <<>>
      BY <3>1, <3>2, EmptySeq
    <3>. QED BY <3>3 DEF low, one
  <2>. QED BY <2>1, <2>2 DEF UserStack
<1>2. IInv /\ Restores /\ [Next]_vars => Restores'
  <2>. SUFFICES ASSUME IInv, Restores, [Next]_vars
                PROVE  Restores'
    OBVIOUS
  <2>1. CASE UNCHANGED vars
    BY <2>1 DEF vars, Restores
  <2>2. ASSUME NEW s \in Scheds, CallStale(s)
        PROVE  FALSE
    BY <2>2 DEF CallStale
  <2>. QED BY <2>1, <2>2, PermuteRestores, UserRestores, CallRestores, StepRestores, ForkRestores DEF Next
<1>3. IInv /\ Restores => AbortRestores
  BY DEF Restores, AbortRestores, UserStack, Idle
<1>. QED
  BY <1>1, <1>2, <1>3, Inductive, PTL DEF Spec
=============================================================================

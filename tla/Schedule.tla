------------------------------ MODULE Schedule ------------------------------
(***************************************************************************)
(* Schedules that are tried on several threads and share what they have    *)
(* tried: src/include/schedule.h, src/src/schedule.cc,                     *)
(* src/include/schedule/schedule_log.h and memoized_schedules.h.           *)
(*                                                                         *)
(* A Schedule is a stack of open transactions, each with an AST and the    *)
(* log of what led to it.  Each schedule (split, reorder, ...) is looked   *)
(* up by its log in a table that all the forks of a Schedule share, and is *)
(* run only if nobody has: by whoever comes first, on the AST of whoever   *)
(* made the entry.  Everybody else takes the result, or the exception.     *)
(*                                                                         *)
(* An AST is abstracted to the changes made to the first one.  A change    *)
(* removes the statement it was applied to and makes one with an ID of its *)
(* own, which no other run of the same schedule would make.                *)
(***************************************************************************)
EXTENDS Naturals, Sequences, FiniteSets

CONSTANTS
  Scheds,         \* Schedule objects, each of them used by one thread
  First,          \* the Schedule that all others are forked from
  Ops,            \* the kinds of schedules
  Legal(_, _),    \* Legal(op, ast): op does not throw InvalidSchedule
  Allowed,        \* what the callers do: a subset of {"permute", "stale"}
  Loops,          \* the number of loops in the first AST
  MaxDepth,       \* bound on the transactions that are open at once
  MaxItems        \* bound on the entries of the table

ASSUME ScheduleAssumption ==
  /\ First \in Scheds
  /\ Allowed \subseteq {"permute", "stale"}
  /\ Ops # {} /\ Loops \in Nat /\ MaxDepth \in Nat /\ MaxItems \in Nat

VARIABLES
  openTrans,  \* openTrans_ of each Schedule, or <<>> if there is no such yet
  memoized,   \* memoized_: the log, owner, state and result of each item
  at,         \* where the thread of each Schedule is
  call,       \* the schedule it has called
  item,       \* the item of the table it has got for it
  nextID,     \* the counter of IDs
  saved       \* history: what the user expects each abort to return to

vars == <<openTrans, memoized, at, call, item, nextID, saved>>

Key == [op : Ops, id : Nat]

\* The statements of an AST that can be found by their IDs.
Made(ast) == (1 .. Loops) \cup {ast[i].id : i \in DOMAIN ast}
IDs(ast) == Made(ast) \ {ast[i].target : i \in DOMAIN ast}

Top(stack) == stack[Len(stack)]
Below(stack) == SubSeq(stack, 1, Len(stack) - 1)
Ast(s) == Top(openTrans[s]).ast
Logs(s) == Top(openTrans[s]).logs

\* openTrans_.back() = t
SetTop(stack, t) == [stack EXCEPT ![Len(stack)] = t]
SetAst(stack, ast) == SetTop(stack, [ast |-> ast, logs |-> Top(stack).logs])
SetLogs(stack, logs) == SetTop(stack, [ast |-> Top(stack).ast, logs |-> logs])

Opened(stack) == Append(stack, Top(stack))
Aborted(stack) == Below(stack)
CommittedInside(stack) == stack  \* mutant: the transaction stays open
Committed(stack) == SetTop(Below(stack), Top(stack))

-----------------------------------------------------------------------------
Init ==
  /\ openTrans = [s \in Scheds |-> IF s = First THEN <<[ast |-> <<>>, logs |-> <<>>]>>
                                   ELSE <<>>]
  /\ memoized = <<>>
  /\ at = [s \in Scheds |-> "idle"]
  /\ call = [s \in Scheds |-> [op |-> CHOOSE op \in Ops : TRUE, id |-> 0]]
  /\ item = [s \in Scheds |-> 0]
  /\ nextID = Loops + 1
  /\ saved = [s \in Scheds |-> <<>>]

Idle(s) == at[s] = "idle" /\ openTrans[s] # <<>>

\* fork: a copy, which shares the table.
Fork(s, t) ==
  /\ Idle(s)
  /\ openTrans[t] = <<>>
  /\ openTrans' = [openTrans EXCEPT ![t] = openTrans[s]]
  /\ saved' = [saved EXCEPT ![t] = saved[s]]
  /\ UNCHANGED <<memoized, at, call, item, nextID>>

BeginTransaction(s) ==
  /\ Idle(s)
  /\ Len(openTrans[s]) < MaxDepth
  /\ openTrans' = [openTrans EXCEPT ![s] = Opened(@)]
  /\ saved' = [saved EXCEPT ![s] = Append(@, Top(openTrans[s]))]
  /\ UNCHANGED <<memoized, at, call, item, nextID>>

\* The outermost transaction is neither committed nor aborted (ERROR), and
\* the user ends what the user has begun.
CommitTransaction(s) ==
  /\ Idle(s)
  /\ Len(openTrans[s]) > 1 /\ saved[s] # <<>>
  /\ openTrans' = [openTrans EXCEPT ![s] = Committed(@)]
  /\ saved' = [saved EXCEPT ![s] = Below(@)]
  /\ UNCHANGED <<memoized, at, call, item, nextID>>

AbortTransaction(s) ==
  /\ Idle(s)
  /\ Len(openTrans[s]) > 1 /\ saved[s] # <<>>
  /\ openTrans' = [openTrans EXCEPT ![s] = Aborted(@)]
  /\ saved' = [saved EXCEPT ![s] = Below(@)]
  /\ UNCHANGED <<memoized, at, call, item, nextID>>

-----------------------------------------------------------------------------
Calling == {s \in Scheds : at[s] = "called"}

\* A schedule is called: its own transaction is opened, and the statement it
\* is applied to is found.
Call(s, op) ==
  /\ Idle(s)
  /\ Len(memoized) + Cardinality(Calling) < MaxItems
  /\ openTrans' = [openTrans EXCEPT ![s] = Opened(@)]
  /\ \E id \in IDs(Ast(s)) : call' = [call EXCEPT ![s] = [op |-> op, id |-> id]]
  /\ at' = [at EXCEPT ![s] = "called"]
  /\ UNCHANGED <<memoized, item, nextID, saved>>

\* The same for a statement that is no longer there: find throws where no
\* handler aborts the transaction.
CallStale(s) ==
  /\ "stale" \in Allowed
  /\ Idle(s)
  /\ Len(openTrans[s]) <= MaxDepth
  /\ openTrans' = [openTrans EXCEPT ![s] = Opened(@)]
  /\ UNCHANGED <<memoized, at, call, item, nextID, saved>>

\* appendLog, up to lookupOrCreate: the new log, or an equal one.
NewItem(s) ==
  [logs |-> Append(Logs(s), call[s]), owner |-> s, state |-> "new", ast |-> <<>>]

FoundNone(s) == {}  \* mutant: an equal log is not found
FoundLast(s) ==     \* mutant: only the last items of the logs are compared
  {n \in DOMAIN memoized : Top(memoized[n].logs) = call[s]}
Found(s) == {n \in DOMAIN memoized : memoized[n].logs = Append(Logs(s), call[s])}

NotInserted(table, it) == table  \* mutant: what is returned is not saved
Inserted(table, it) == Append(table, it)

LookupOrCreate(s) ==
  /\ at[s] = "called"
  /\ IF Found(s) # {}
     THEN /\ item' = [item EXCEPT ![s] = CHOOSE n \in Found(s) : TRUE]
          /\ UNCHANGED memoized
     ELSE /\ memoized' = Inserted(memoized, NewItem(s))
          /\ item' = [item EXCEPT ![s] = Len(memoized')]
  /\ openTrans' = [openTrans EXCEPT ![s] = SetLogs(@, Append(Logs(s), call[s]))]
  /\ at' = [at EXCEPT ![s] = "logged"]
  /\ UNCHANGED <<call, nextID, saved>>

\* run takes the lock of the item: it is held while the item is running.
NeverLocked(n) == TRUE  \* mutant: run takes no lock
UnlockedByResult(n) ==  \* mutant: an exception leaves the item locked
  memoized[n].state \notin {"running", "exception"}
Unlocked(n) == memoized[n].state # "running"

Run(s) ==
  /\ at[s] = "logged"
  /\ Unlocked(item[s])
  /\ IF memoized[item[s]].state \in {"new", "running"}
     THEN /\ memoized' = [memoized EXCEPT ![item[s]].state = "running"]
          /\ at' = [at EXCEPT ![s] = "running"]
     ELSE /\ at' = [at EXCEPT ![s] = "done"]
          /\ UNCHANGED memoized
  /\ UNCHANGED <<openTrans, call, item, nextID, saved>>

\* The item ends: it runs on the AST of the Schedule that made it.
Finish(s) ==
  /\ at[s] = "running"
  /\ LET n == item[s]
         in == Ast(memoized[n].owner)
         new == [target |-> call[s].id, id |-> nextID]
     IN memoized' =
          [memoized EXCEPT ![n] =
             IF Legal(call[s].op, in)
             THEN [@ EXCEPT !.state = "result", !.ast = Append(in, new)]
             ELSE [@ EXCEPT !.state = "exception"]]
  /\ nextID' = nextID + 1
  /\ at' = [at EXCEPT ![s] = "done"]
  /\ UNCHANGED <<openTrans, call, item, saved>>

\* applyLog: set the AST and commit, or abort and throw.
Apply(s) ==
  /\ at[s] = "done"
  /\ LET it == memoized[item[s]] IN
     openTrans' =
       [openTrans EXCEPT ![s] =
          IF it.state = "result"
          THEN Committed(SetAst(@, it.ast))
          ELSE Aborted(@)]
  /\ at' = [at EXCEPT ![s] = "idle"]
  /\ UNCHANGED <<memoized, call, item, nextID, saved>>

\* Schedule::permute sets the AST and adds nothing to the log.
Permute(s) ==
  /\ "permute" \in Allowed
  /\ Idle(s)
  /\ nextID <= Loops + MaxItems
  /\ \E id \in IDs(Ast(s)) :
       openTrans' = [openTrans EXCEPT ![s] =
         SetAst(@, Append(Ast(s), [target |-> id, id |-> nextID]))]
  /\ nextID' = nextID + 1
  /\ UNCHANGED <<memoized, at, call, item, saved>>

-----------------------------------------------------------------------------
Step(s) == LookupOrCreate(s) \/ Run(s) \/ Finish(s) \/ Apply(s)

Next ==
  \E s \in Scheds :
    \/ Step(s)
    \/ \E op \in Ops : Call(s, op)
    \/ CallStale(s) \/ Permute(s)
    \/ BeginTransaction(s) \/ CommitTransaction(s) \/ AbortTransaction(s)
    \/ \E t \in Scheds : Fork(s, t)

Spec == Init /\ [][Next]_vars

\* Every thread runs, and a lock that is free is got.
FairSpec == Spec /\ \A s \in Scheds : WF_vars(Step(s))

-----------------------------------------------------------------------------
Transaction == [ast : Seq([target : Nat, id : Nat]), logs : Seq(Key)]

TypeOK ==
  /\ openTrans \in [Scheds -> Seq(Transaction)]
  /\ memoized \in Seq([logs : Seq(Key), owner : Scheds,
                       state : {"new", "running", "result", "exception"},
                       ast : Seq([target : Nat, id : Nat])])
  /\ at \in [Scheds -> {"idle", "called", "logged", "running", "done"}]
  /\ call \in [Scheds -> Key]
  /\ item \in [Scheds -> Nat]
  /\ \A s \in Scheds : at[s] \in {"logged", "running", "done"} => item[s] \in DOMAIN memoized
  /\ nextID \in Nat
  /\ saved \in [Scheds -> Seq(Transaction)]

\* The transactions whose AST is what their log says: all but that of a
\* schedule which has been logged and is not applied yet.
Settled(s) ==
  {i \in DOMAIN openTrans[s] : i < Len(openTrans[s]) \/ at[s] \in {"idle", "called"}}

\* Two Schedules that share a table and have done the same have the same AST,
\* IDs included, in whatever order their threads ran (test_memoize_success).
\* It is what allows one of them to go on from the other's result.
SameLogsSameAst ==
  \A s, t \in Scheds : \A i \in Settled(s), j \in Settled(t) :
    openTrans[s][i].logs = openTrans[t][j].logs =>
      openTrans[s][i].ast = openTrans[t][j].ast

\* Nothing is run twice: the table has one item for each log.
RunOnce ==
  \A m, n \in DOMAIN memoized : memoized[m].logs = memoized[n].logs => m = n

\* A schedule that is running reads the AST of the Schedule that made the
\* item: that Schedule is still in the call it made the item for, so the AST
\* is there and does not change.
OwnerWaits ==
  \A s \in Scheds : at[s] = "running" =>
    LET o == memoized[item[s]].owner IN
    /\ item[o] = item[s]
    /\ at[o] \in {"logged", "running"}
    /\ Logs(o) = Logs(s)

\* Whatever schedules were tried and thrown, abort returns to what there was
\* at the matching begin: between the calls the user has exactly the
\* transactions that the user opened.
AbortRestores ==
  \A s \in Scheds : Idle(s) => Below(openTrans[s]) = saved[s]

\* A schedule makes one change to the AST of the Schedule that it is called
\* on, at the statement that was named, or it leaves everything alone, even
\* if the result comes from another thread.
AppliedToOwn(s) ==
  LET before == Below(openTrans[s]) IN
  \/ openTrans'[s] = before
  \/ \E n \in 1 .. nextID :
       openTrans'[s] =
         SetTop(before, [ast |-> Append(Top(before).ast, [target |-> call[s].id, id |-> n]),
                         logs |-> Append(Top(before).logs, call[s])])

AppliesToOwn ==
  [][\A s \in Scheds : at[s] # "idle" /\ at'[s] = "idle" => AppliedToOwn(s)]_vars

\* Every call returns or throws: no thread waits forever for an item.
CallsEnd == \A s \in Scheds : at[s] # "idle" ~> at[s] = "idle"
=============================================================================

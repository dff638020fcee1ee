-------------------------------- MODULE Tune --------------------------------
(***************************************************************************)
(* Learning the random decisions of auto_schedule: Schedule's              *)
(* tuneAutoSchedule (src/src/schedule.cc), which runs batches of trials in *)
(* an exceptSafeParallelFor (src/include/omp_utils.h) and measures them    *)
(* one by one, and RandCtx (src/include/probability), which all of them,   *)
(* and all forks of the Schedule, share.                                   *)
(*                                                                         *)
(* All decisions of auto_fission_fuse.cc are of one program position, so   *)
(* totCnt_ has one vector.  Each has two conditions: the metadata of the   *)
(* loops, which is named by a context here, and "defDiff", whether their   *)
(* dependences differ, which is a function of the context.                 *)
(***************************************************************************)
EXTENDS Integers, Sequences, FiniteSets, SequencesExt, FiniteSetsExt

CONSTANTS
  Contexts,
  Addresses,    \* where the variables of the contexts may be allocated
  DepDiff,      \* DepDiff[c]: do the dependences of the two loops differ?
  Programs,
  Asks,         \* Asks[p][vs]: the decision p needs after the values vs
  Threads, Master,
  BatchSize, MaxBatches,
  Owner,        \* Owner[j]: the thread that schedule(static) gives iteration j
  Draws, Unit,  \* what a thread's generator returns, out of Unit
  Times,        \* the <<time, stddev>> a Driver may measure
  MaxTraces     \* bound on the observed traces

Vals == {0, 1}  \* to fission or not to fuse, to fuse or not to fission
Trials == 1 .. BatchSize

ASSUME TuneAssumption ==
  /\ DepDiff \in [Contexts -> BOOLEAN]
  /\ \A p \in Programs : DOMAIN Asks[p] \subseteq Seq(Vals) /\ Asks[p] \in [DOMAIN Asks[p] -> Contexts]
  /\ Addresses \subseteq [Contexts -> Nat]
  /\ \A f \in Addresses : \A c, d \in Contexts : f[c] = f[d] => c = d
  /\ Master \in Threads
  /\ BatchSize \in Nat \ {0} /\ MaxBatches \in Nat /\ MaxTraces \in Nat
  /\ Owner \in [Trials -> Threads]
  /\ Unit \in Nat /\ Draws \subseteq 0 .. Unit - 1
  /\ Times \subseteq Nat \X Nat

VARIABLES
  addr,     \* where the random variable of a context is allocated
  tot,      \* totCnt_
  obs,      \* randVars_: the obs_ of the random variable of each condition
  traces,   \* traces_, in the order of the multimap
  isInfer,
  matches,  \* does the name of the decisions match toLearn_?
  phase,    \* what the master does
  prog,     \* the program that is scheduled
  batches,  \* the batches that are left
  started, made,  \* the iterations that were begun, and that filled drivers[j]
  except,   \* hasExcept_
  left,     \* the threads that were cancelled
  cur,      \* the iteration each thread is in; 0 if it is in none
  path,     \* the trace of that iteration
  trials,   \* the traces of the batch
  next,     \* the trial to measure
  drawn,    \* history: what each thread has drawn in this batch
  before    \* history: tot and obs when the batch began

learnt == <<tot, obs, traces>>
mode == <<isInfer, matches>>
region == <<started, made, except, left, cur, path, trials, drawn, before>>
vars == <<addr, learnt, mode, phase, prog, batches, region, next>>

-----------------------------------------------------------------------------
\* The conditions of a decision, as <<name, value>>, the last pushed first.
Conds(c) == <<<<"metadata", c>>, <<"defDiff", DepDiff[c]>>>>

INIT_OBS == 4
InitObs(diff) == [v \in Vals |-> IF (v = 1) = diff THEN 1 ELSE 2]

\* The random variables, with those for the conditions of c made if need be.
Known(o, c) ==
  [d \in DOMAIN o \cup ToSet(Conds(c)) |-> IF d \in DOMAIN o THEN o[d] ELSE InitObs(DepDiff[c])]

\* The probability of v, times tot[0] * tot[1].
Weight(l, c, v) ==
  Known(l.obs, c)[Conds(c)[1]][v] * Known(l.obs, c)[Conds(c)[2]][v] * l.tot[1 - v]

MostLikely(l, c) == IF Weight(l, c, 0) >= Weight(l, c, 1) THEN 0 ELSE 1
Sampled(l, c, draw) ==
  IF draw * (Weight(l, c, 0) + Weight(l, c, 1)) < Unit * Weight(l, c, 0) THEN 0 ELSE 1

Asked(p, t) == Asks[p][[n \in DOMAIN t |-> t[n].value]]
Complete(p, t) == [n \in DOMAIN t |-> t[n].value] \notin DOMAIN Asks[p]

-----------------------------------------------------------------------------
\* The first item, from n on, that is not common to t and u.
FirstDiff(t, u, n) ==
  Min({k \in n .. Len(t) + 1 : k > Len(t) \/ k > Len(u) \/ t[k] # u[k]})

\* The order of the multimap: by the addresses of the variables and then by
\* the value of the first observation that differs.
Before(t, u) ==
  LET n == FirstDiff(t, u, 1) IN
  /\ n <= Len(u)
  /\ n <= Len(t) =>
       \/ addr[t[n].ctx] < addr[u[n].ctx]
       \/ t[n].ctx = u[n].ctx /\ t[n].value < u[n].value

\* Where emplace puts t: behind those that are equivalent to it.
Place(t) == Cardinality({k \in DOMAIN traces : ~Before(t, traces[k].trace)}) + 1

Faster(e, f) == e.time + e.stddev < f.time - f.stddev

Counted(s, o) ==
  [s EXCEPT !.tot = [s.tot EXCEPT ![o.value] = @ + 1],
            !.obs = [d \in DOMAIN s.obs |->
                       IF d \in ToSet(Conds(o.ctx)) THEN [s.obs[d] EXCEPT ![o.value] = @ + 1]
                       ELSE s.obs[d]]]

\* doObserve compares the new entry e with f.
Compared(s, e, f) ==
  LET n == FirstDiff(e.trace, f.trace, s.common)
      here == [s EXCEPT !.common = n]
  IN
  IF n > Len(e.trace) \/ n > Len(f.trace) THEN here
  ELSE IF Faster(e, f) THEN Counted(here, e.trace[n])
  ELSE IF Faster(f, e) THEN Counted(here, f.trace[n])
  ELSE here

Swept(s, e, fs) ==
  LET r[n \in 0 .. Len(fs)] == IF n = 0 THEN s ELSE Compared(r[n - 1], e, fs[n])
  IN r[Len(fs)]

NotRestarted(s) == s  \* mutant: common stays for the second loop
Restarted(s) == [s EXCEPT !.common = 1]

\* RandCtxImpl::observeTrace: the existing traces are walked from both ends
\* of the map to the new one.
Observed(e) ==
  LET i == Place(e.trace)
      all == InsertAt(traces, i, e)
      up == Swept([common |-> 1, tot |-> tot, obs |-> obs], e, SubSeq(all, 1, i - 1))
      down == Swept(Restarted(up), e, Reverse(SubSeq(all, i, Len(all))))
  IN [tot |-> down.tot, obs |-> down.obs, traces |-> all]

-----------------------------------------------------------------------------
Init ==
  /\ addr \in Addresses
  /\ tot = [v \in Vals |-> INIT_OBS]
  /\ obs = <<>>
  /\ traces = <<>>
  /\ isInfer = TRUE
  /\ matches = TRUE
  /\ phase = "idle"
  /\ prog \in Programs
  /\ batches = 0
  /\ started = {} /\ made = {}
  /\ except = FALSE
  /\ left = {}
  /\ cur = [k \in Threads |-> 0]
  /\ path = [k \in Threads |-> <<>>]
  /\ trials = [j \in Trials |-> <<>>]
  /\ next = 1
  /\ drawn = [k \in Threads |-> <<>>]
  /\ before = [tot |-> tot, obs |-> obs]

\* The locals of tuneAutoSchedule and of its loop are new, or gone.
NewRegion ==
  /\ started' = {} /\ made' = {}
  /\ except' = FALSE
  /\ left' = {}
  /\ cur' = [k \in Threads |-> 0]
  /\ path' = [k \in Threads |-> <<>>]
  /\ trials' = [j \in Trials |-> <<>>]
  /\ next' = 1
  /\ drawn' = [k \in Threads |-> <<>>]
  /\ before' = [tot |-> tot', obs |-> obs']

\* tuneAutoSchedule, for one of the programs that share the RandCtx.
StartTune(p) ==
  /\ phase = "idle"
  /\ batches' \in {n \in 1 .. MaxBatches : Len(traces) + n * BatchSize <= MaxTraces}
  /\ isInfer' = FALSE
  /\ matches' \in BOOLEAN
  /\ prog' = p
  /\ phase' = "parallel"
  /\ UNCHANGED <<addr, learnt>>
  /\ NewRegion

\* autoSchedule, called by the user.
StartSchedule(p) ==
  /\ phase = "idle"
  /\ phase' = "schedule"
  /\ prog' = p
  /\ UNCHANGED <<addr, learnt, mode, batches, region, next>>

\* It may throw, so it may end at any decision.
EndSchedule ==
  /\ phase = "schedule"
  /\ phase' = "idle"
  /\ UNCHANGED <<addr, learnt, mode, prog, batches>>
  /\ NewRegion

\* The iterations that a thread may begin.
MineDynamic(k) == Trials \ started                       \* mutant: omp_sched_dynamic
Mine(k) == {j \in Trials \ started : Owner[j] = k}

Begin(k) ==
  /\ phase = "parallel" /\ cur[k] = 0 /\ k \notin left /\ Mine(k) # {}
  /\ cur' = [cur EXCEPT ![k] = Min(Mine(k))]
  /\ started' = started \cup {Min(Mine(k))}
  /\ path' = [path EXCEPT ![k] = <<>>]
  /\ UNCHANGED <<addr, learnt, mode, phase, prog, batches, made, except, left, trials, drawn,
                 before, next>>

Scheduling(k) ==
  \/ phase = "parallel" /\ cur[k] # 0
  \/ phase = "schedule" /\ k = Master

\* RandCtx::decide, under lock_.
Decide(k) ==
  /\ Scheduling(k) /\ ~Complete(prog, path[k])
  /\ LET c == Asked(prog, path[k])
         l == [tot |-> tot, obs |-> obs]
         Take(v) == path' = [path EXCEPT ![k] = Append(@, [ctx |-> c, value |-> v])]
     IN
     /\ obs' = Known(obs, c)
     /\ IF isInfer \/ ~matches
        THEN /\ Take(MostLikely(l, c))
             /\ UNCHANGED drawn
        ELSE \E draw \in Draws :
               /\ Take(Sampled(l, c, draw))
               /\ drawn' = [drawn EXCEPT ![k] = Append(@, draw)]
  /\ UNCHANGED <<addr, tot, traces, mode, phase, prog, batches, started, made, except, left, cur,
                 trials, before, next>>

\* The end of an iteration: drivers[j] is there.
Finish(k) ==
  /\ phase = "parallel" /\ cur[k] # 0 /\ Complete(prog, path[k])
  /\ trials' = [trials EXCEPT ![cur[k]] = path[k]]
  /\ made' = made \cup {cur[k]}
  /\ cur' = [cur EXCEPT ![k] = 0]
  /\ UNCHANGED <<addr, learnt, mode, phase, prog, batches, started, except, left, path, drawn,
                 before, next>>

NotRaised == except  \* mutant: the exception is caught and forgotten
Raised == TRUE

\* The body throws, somewhere in it; only the first thread keeps what it
\* caught and cancels the loop.
Throw(k) ==
  /\ phase = "parallel" /\ cur[k] # 0
  /\ except' = Raised
  /\ cur' = [cur EXCEPT ![k] = 0]
  /\ UNCHANGED <<addr, learnt, mode, phase, prog, batches, started, made, left, path, trials,
                 drawn, before, next>>

\* A cancelled thread leaves the loop, if OMP_CANCELLATION lets it.
Leave(k) ==
  /\ phase = "parallel" /\ cur[k] = 0 /\ except /\ k \notin left
  /\ left' = left \cup {k}
  /\ UNCHANGED <<addr, learnt, mode, phase, prog, batches, started, made, except, cur, path,
                 trials, drawn, before, next>>

NotRestored == isInfer  \* mutant: no setInfer in the handler
Restored == TRUE

\* The handler of tuneAutoSchedule.
Rethrow ==
  /\ phase' = "idle" /\ isInfer' = Restored
  /\ UNCHANGED <<addr, learnt, matches, prog, batches>>
  /\ NewRegion

\* The barrier at the end of the loop; what was caught is thrown again.
Join ==
  /\ phase = "parallel"
  /\ \A k \in Threads : cur[k] = 0 /\ (k \in left \/ Mine(k) = {})
  /\ IF except
     THEN Rethrow
     ELSE phase' = "measure" /\ UNCHANGED <<addr, learnt, mode, prog, batches, region, next>>

\* Measure a trial and learn from it.
Measure ==
  /\ phase = "measure" /\ next <= BatchSize
  /\ \E m \in Times :
       LET r == Observed([trace |-> trials[next], time |-> m[1], stddev |-> m[2]]) IN
       /\ tot' = r.tot
       /\ obs' = r.obs
       /\ traces' = r.traces
  /\ next' = next + 1
  /\ UNCHANGED <<addr, mode, phase, prog, batches, region>>

\* setArgs, time or collectReturns throws.
MeasureThrows ==
  /\ phase = "measure" /\ next <= BatchSize
  /\ Rethrow

NextBatch ==
  /\ phase = "measure" /\ next > BatchSize /\ batches > 1
  /\ batches' = batches - 1
  /\ phase' = "parallel"
  /\ UNCHANGED <<addr, learnt, mode, prog>>
  /\ NewRegion

EndTune ==
  /\ phase = "measure" /\ next > BatchSize /\ batches = 1
  /\ phase' = "idle" /\ isInfer' = TRUE
  /\ UNCHANGED <<addr, learnt, matches, prog, batches>>
  /\ NewRegion

Next ==
  \/ \E p \in Programs : StartTune(p) \/ StartSchedule(p)
  \/ EndSchedule
  \/ \E k \in Threads : Begin(k) \/ Decide(k) \/ Finish(k) \/ Throw(k) \/ Leave(k)
  \/ Join \/ Measure \/ MeasureThrows \/ NextBatch \/ EndTune

Spec == Init /\ [][Next]_vars

-----------------------------------------------------------------------------

\* Every pair of traces that were observed has taught one thing, once: the
\* variables of the first decision in which they differ prefer what the one
\* that is faster, beyond the deviations, decided.  In which order they were
\* observed, and lie in the map, does not matter (rand_ctx.h:58-61).
Lessons(d, v) ==
  {p \in (DOMAIN traces) \X (DOMAIN traces) :
    LET e == traces[p[1]]
        f == traces[p[2]]
    IN /\ Faster(e, f)
       /\ \E n \in DOMAIN e.trace \cap DOMAIN f.trace :
            /\ SubSeq(e.trace, 1, n - 1) = SubSeq(f.trace, 1, n - 1)
            /\ e.trace[n] # f.trace[n]
            /\ e.trace[n].value = v
            /\ d \in ToSet(Conds(e.trace[n].ctx))}

PairwiseCounts ==
  \A v \in Vals :
    /\ \A d \in DOMAIN obs :
         LET diff == IF d[1] = "metadata" THEN DepDiff[d[2]] ELSE d[2]
         IN obs[d][v] = InitObs(diff)[v] + Cardinality(Lessons(d, v))
    /\ tot[v] = INIT_OBS + Cardinality(Lessons(<<"defDiff", TRUE>>, v))
                         + Cardinality(Lessons(<<"defDiff", FALSE>>, v))

\* The draws of a thread go to its trials in the order of the iterations, one to
\* each decision: first[j] is how many were drawn before trial j.
InTurn(first) ==
  \A j \in made :
    LET earlier == {i \in made : i < j /\ Owner[i] = Owner[j]} IN
    /\ earlier = {} => first[j] = 0
    /\ \A i \in earlier :
         (\A h \in earlier : h <= i) => first[j] = first[i] + Len(trials[i])

\* A batch decides what it would have decided in any other interleaving of
\* its threads: the decisions of a trial follow from what was known when the
\* batch began and from what its own thread, by schedule(static), has drawn
\* ("to guarantee deterministic RNG", schedule.cc:131-132).
Reproducible ==
  phase \in {"parallel", "measure"} /\ ~except =>
    /\ \A j \in made : \A n \in DOMAIN trials[j] :
         /\ trials[j][n].ctx = Asked(prog, SubSeq(trials[j], 1, n - 1))
         /\ ~matches => trials[j][n].value = MostLikely(before, trials[j][n].ctx)
    /\ matches =>
         \E first \in [made -> UNION {0 .. Len(drawn[k]) : k \in Threads}] :
           /\ InTurn(first)
           /\ \A j \in made : \A n \in DOMAIN trials[j] :
                /\ first[j] + n <= Len(drawn[Owner[j]])
                /\ trials[j][n].value =
                     Sampled(before, trials[j][n].ctx, drawn[Owner[j]][first[j] + n])

\* No Driver is measured unless the loop has made all of them: an exception
\* of any iteration, in any thread, ends the tuning.
AllMade == phase = "measure" => made = Trials

\* However a tuning ends, auto_schedule then takes the most likely decisions.
InferOutside == phase \in {"idle", "schedule"} => isInfer
=============================================================================

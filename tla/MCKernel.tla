------------------------------ MODULE MCKernel ------------------------------
(***************************************************************************)
(* Programs with parallel loops: the ones of src/test/30.schedule and      *)
(* src/test/40.codegen/gpu/test_gpu_sync.py, with four threads and warps of    *)
(* one or two.                                                             *)
(***************************************************************************)
EXTENDS Kernel, Launch

i == V("i")
j == V("j")
k == V("k")
q == V("q")
plus(e, n) == Op("+", e, N(n))
minus(n, e) == Op("-", N(n), e)

Thr(id, iter, len, body) == Parallel("x", For(<<id>>, iter, N(0), len, 1, body))
ThrY(id, iter, len, body) == Parallel("y", For(<<id>>, iter, N(0), len, 1, body))
Blk(id, iter, len, body) == Parallel("block", For(<<id>>, iter, N(0), len, 1, body))
Omp(id, iter, len, body) == Parallel("openmp", For(<<id>>, iter, N(0), len, 1, body))
Ser(id, iter, len, body) == For(<<id>>, iter, N(0), len, 1, body)
Put(id, w, r) == Leaf(<<id>>, "Store", w, r, <<>>)
Add(id, w, r) == Leaf(<<id>>, "ReduceTo", w, r, <<>>)
Shm(v, shape, body) == InMemory("shared", shape, Def(<<v>>, v, body))
Seq_(id, s) == Block(<<id>>, s)
Case(name, program, dims, target) == [name |-> name, program |-> program, dims |-> dims, target |-> target]
Branch(id, cond, body) == If(<<id>>, cond, body)
Lt(e, n) == Op("<", e, N(n))
Bins == Table(<<i>>, [n \in {<<m>> : m \in 0 .. 4} |-> n[1] % 2])
T(e) == At("t", <<e>>)
Y(e) == At("y", <<e>>)
Copy(id, e, to) == Put(id, At("t", <<to>>), <<At("x", <<e>>)>>)

\* The threads write a row and read it backwards.
Reversed(n, w, r) ==
  Shm("t", <<n>>, Seq_("s", <<Thr("L1", "i", n, Copy("a", i, w)), Thr("L2", "j", n, Put("b", Y(j), <<T(r)>>))>>))
Back(n) == Reversed(n, i, minus(n - 1, j))
\* So do the threads of every block, with a row of their own.
Blocks ==
  Blk("L0", "k", 2, Shm("t", <<2>>, Seq_("s",
    <<Thr("L1", "i", 2, Put("a", T(i), <<At("x", <<k, i>>)>>)),
      Thr("L2", "j", 2, Put("b", At("y", <<k, j>>), <<T(minus(1, j))>>))>>)))
\* The same row is used again in the next iteration.
Again(n, inner) == Shm("t", <<n>>, Ser("L", "k", 2, inner))
Rounds(n) ==
  Again(n, Seq_("s", <<Thr("L1", "i", n, Put("a", T(i), <<At("x", <<k, i>>)>>)),
                       Thr("L2", "j", n, Put("b", At("y", <<k, j>>), <<T(minus(n - 1, j))>>))>>))
\* It is written once, and read in a loop, or in two loops.
ReadLoop(n, inner) ==
  Shm("t", <<n>>, Seq_("s", <<Thr("L1", "i", n, Copy("a", i, i)), Ser("K", "k", 2, inner)>>))
ReadTwice(n) == ReadLoop(n, Thr("L2", "j", n, Put("b", At("y", <<k, j>>), <<T(Op("%", Op("+", j, plus(k, 1)), N(n)))>>)))
ReadDeep(n) == ReadLoop(n, Ser("Q", "q", 1, Thr("L2", "j", n, Put("b", At("y", <<k, j>>), <<T(minus(n - 1, j))>>))))
\* The threads of some rows only, in a loop or not, use their row.
SomeRows(cond, inner) ==
  Shm("t", <<3, 2>>, ThrY("L0", "k", 3, Branch("if", cond, inner)))
RowBack(n, to) ==
  Seq_("e", <<Thr("L1", "i", n, Put("a", At("t", <<k, i>>), <<At("x", <<k, i>>)>>)),
              Thr("L2", "j", n, Put("b", to, <<At("t", <<k, minus(n - 1, j)>>)>>))>>)
Split == SomeRows(Lt(k, 2), RowBack(2, At("y", <<k, j>>)))
SplitLoop == SomeRows(Lt(k, 2), Ser("Q", "q", 2, RowBack(2, At("z", <<q, k, j>>))))
\* The first thread alone reads what all have written.
First_(n) ==
  Shm("t", <<n>>, Seq_("s", <<Thr("L1", "i", n, Copy("a", i, i)), Put("b", Y(N(0)), <<T(N(n - 1))>>)>>))
\* All threads go through a branch, or none of them.
Uniform(n) ==
  Again(n, Branch("if", Lt(k, 1),
    Seq_("s", <<Thr("L1", "i", n, Copy("a", i, i)), Thr("L2", "j", n, Put("b", At("y", <<k, j>>), <<T(minus(n - 1, j))>>))>>)))
\* A dimension of the threads that is in one warp, and one that is not.
Square ==
  Shm("t", <<2, 2>>, ThrY("L0", "k", 2, Seq_("s",
    <<Thr("L1", "i", 2, Put("a", At("t", <<k, i>>), <<At("x", <<k, i>>)>>)),
      Thr("L2", "j", 2, Put("b", At("y", <<k, j>>), <<At("t", <<k, minus(1, j)>>)>>))>>)))
\* What a warp has written is read by the warp first, and then by the other one.
Twice ==
  Shm("t", <<2, 2>>, Seq_("s",
    <<ThrY("L0", "k", 2, Thr("L1", "i", 2, Put("a", At("t", <<k, i>>), <<At("x", <<k, i>>)>>))),
      ThrY("L2", "k", 2, Thr("L3", "j", 2, Put("b", At("y", <<k, j>>), <<At("t", <<k, minus(1, j)>>)>>))),
      ThrY("L4", "k", 2, Thr("L5", "q", 2, Put("c", At("z", <<N(0), k, q>>), <<At("t", <<minus(1, k), q>>)>>)))>>))
\* Every thread of the second dimension has a row, which is made one variable.
Rows(begin) ==
  Parallel("y", For(<<"L0">>, "k", N(begin), 2, 1, Shm("t", <<2>>, Seq_("s",
    <<Thr("L1", "i", 2, Put("a", T(i), <<At("x", <<k, i>>)>>)),
      Thr("L2", "j", 2, Put("b", At("y", <<k, j>>), <<T(minus(1, j))>>))>>))))

\* Reductions: to one element, to elements that are looked up in a table, and
\* the sums of rows, of the threads that loop makes.
SumOf(n, loop(_, _, _, _)) == loop("L", "i", n, Add("a", Y(N(0)), <<At("x", <<i>>)>>))
Total(loop(_, _, _, _)) == SumOf(3, loop)
Lookup(loop(_, _, _, _)) == loop("L", "i", 3, Add("a", Y(Bins), <<At("x", <<i>>)>>))
RowSums(outer(_, _, _, _), inner(_, _, _, _)) ==
  outer("L", "k", 2, inner("M", "i", 2, Add("a", Y(k), <<At("x", <<k, i>>)>>)))
Table_(outer(_, _, _, _), inner(_, _, _, _)) ==
  outer("L", "k", 2, inner("M", "i", 2, Add("a", Y(N(0)), <<At("x", <<k, i>>)>>)))
Columns(outer(_, _, _, _), inner(_, _, _, _)) ==
  outer("L", "k", 2, inner("M", "i", 2, Add("a", Y(i), <<At("x", <<k, i>>)>>)))
LookupOften(loop(_, _, _, _)) == loop("L", "i", 3, Ser("K", "k", 2, Add("a", Y(Bins), <<At("x", <<i, k>>)>>)))
LookupRows(loop(_, _, _, _)) ==
  loop("L", "i", 2, Ser("K", "k", 2, Ser("Q", "q", 2, Add("a", At("y", <<Bins, q>>), <<At("x", <<i, plus(k, 0)>>)>>))))
\* Reduced, and then read.
Then(loop(_, _, _, _)) ==
  Seq_("s", <<Total(loop), loop("M", "j", 2, Put("b", At("z", <<j>>), <<Y(N(0))>>))>>)

Params == [x |-> <<4>>, y |-> <<4>>, z |-> <<4>>]
Params2 == [x |-> <<4, 4>>, y |-> <<4, 4>>, z |-> <<2, 2, 2>>]
Mixed2 == [x |-> <<4>>, y |-> <<4, 4>>, z |-> <<4>>]
Mixed == [x |-> <<4, 4>>, y |-> <<4>>, z |-> <<4>>]

Barriers ==
  {Case("reversed", Back(4), Params, GPU(1)), Case("reversed2", Back(4), Params, GPU(2)), Case("warp", Back(4), Params, GPU(4)),
   Case("unaligned", Back(3), Params, GPU(2)),
   Case("blocks", Blocks, Params2, GPU(1)), Case("rounds", Rounds(2), Params2, GPU(1)), Case("rounds4", Rounds(4), Params2, GPU(2)),
   Case("readTwice", ReadTwice(3), Mixed2, GPU(1)), Case("readDeep", ReadDeep(2), Mixed2, GPU(1)),
   Case("split", Split, Params2, GPU(1)), Case("splitWarp", Split, Params2, GPU(2)),
   Case("splitLoop", SplitLoop, Params2, GPU(1)), Case("splitLoopWarp", SplitLoop, Params2, GPU(2)),
   Case("first", First_(4), Params, GPU(2)), Case("uniform", Uniform(2), Mixed2, GPU(1)),
   Case("square", Square, Params2, GPU(2)), Case("squareSplit", Square, Params2, GPU(1)),
   Case("twice", Twice, Params2, GPU(2)),
   Case("rows", Rows(0), Params2, GPU(1)), Case("rowsWarp", Rows(0), Params2, GPU(4))}
Reductions ==
  {Case("total", Total(Thr), Params, GPU(1)), Case("total4", SumOf(4, Thr), Params, GPU(1)), Case("total4Warps", SumOf(4, Thr), Params, GPU(2)), Case("totalWarp", Total(Thr), Params, GPU(4)),
   Case("lookup", Lookup(Thr), Params, GPU(1)), Case("rowSums", RowSums(ThrY, Thr), Mixed, GPU(1)),
   Case("columns", Columns(ThrY, Thr), Mixed, GPU(2)),
   Case("tableBlocks", Table_(Blk, Thr), Mixed, GPU(2)), Case("lookupOften", LookupOften(Thr), Mixed, GPU(1)),
   Case("then", Then(Thr), Params, GPU(1)),
   Case("totalCPU", Total(Omp), Params, CPU), Case("lookupCPU", Lookup(Omp), Params, CPU),
   Case("tableCPU", Table_(Omp, Omp), Mixed, CPU),
   Case("columnsCPU", Columns(Omp, Ser), Mixed, CPU), Case("oftenCPU", LookupOften(Omp), Mixed, CPU),
   Case("lookupRowsCPU", LookupRows(Omp), Params2, CPU), Case("serialCPU", Table_(Ser, Omp), Mixed, CPU),
   Case("thenCPU", Then(Omp), Params, CPU)}
\* Known gaps: what the passes get wrong is reached by these.
\* A barrier in a branch that all threads go by, and what follows the branch.
PassedBy(n) ==
  Again(n, Seq_("s",
    <<Thr("L1", "i", n, Put("a", T(i), <<At("x", <<k, i>>)>>)),
      Branch("if", Lt(k, 1), Thr("L2", "j", n, Put("b", At("y", <<k, j>>), <<T(minus(n - 1, j))>>))),
      Thr("L3", "q", n, Put("c", At("y", <<plus(k, 2), q>>), <<T(minus(n - 1, q))>>))>>))
\* A statement in a branch that waits for its warp and for its block.
Both ==
  Shm("u", <<2, 2>>, Shm("t", <<2, 2>>, Seq_("s",
    <<ThrY("L0", "k", 2, Thr("L1", "i", 2, Put("a", At("u", <<k, i>>), <<At("x", <<k, i>>)>>))),
      ThrY("L2", "k", 2, Branch("if", Lt(k, 1), Seq_("e",
        <<Thr("L3", "i", 2, Put("b", At("t", <<k, i>>), <<At("x", <<k, i>>)>>)),
          Thr("L4", "j", 2, Put("c", At("y", <<k, j>>), <<At("t", <<k, minus(1, j)>>), At("u", <<minus(1, k), j>>)>>))>>)))>>)))
\* Reductions to one element, and to others, of one variable.
Others(loop(_, _, _, _)) ==
  loop("L", "i", 2, Seq_("s", <<Add("a", Y(N(0)), <<At("x", <<i>>)>>), Add("b", Y(plus(i, 1)), <<At("x", <<i>>)>>)>>))
\* Reductions to elements that a serial loop looks up.
Opaque(loop(_, _, _, _)) ==
  loop("L", "i", 2, Ser("K", "k", 2, Add("a", Y(Table(<<k>>, [n \in {<<0>>, <<1>>} |-> 3 * n[1]])), <<At("x", <<i, k>>)>>)))
Known ==
  {Case("passed by", PassedBy(2), Params2, GPU(1)), Case("both", Both, Params2, GPU(2)), Case("offset", Rows(1), Params2, GPU(1)),
   Case("others", Others(Omp), Params, CPU), Case("opaque", Opaque(Omp), Mixed, CPU)}

CONSTANT Gaps  \* the names of the known gaps that are reached
MCCases == Barriers \cup Reductions \cup {x \in Known : x.name \in Gaps}
LaunchesOf(c) == {Launched(c, p) : p \in Lower(c.program, c.dims, c.target)}
MCWarps == {[block |-> b, thread |-> t] :
             b \in {<<>>, <<0>>, <<1>>}, t \in {<<>>} \cup {<<n>> : n \in 0 .. 4} \cup {<<m, n>> : m, n \in 1 .. 2}}
=============================================================================

---------------------------- MODULE MCComposite ----------------------------
EXTENDS Composite, Trees, Shapes

\* A statement between two loops, which reads one and is read by the other, or not.
Between(r, t) ==
  Three(Li(St("S", At("x", <<i>>), <<>>, <<i>>)), St("T", At("y", <<N(0)>>), <<r>>, <<>>),
        Lk(St("U", At("z", <<k>>), <<t>>, <<k>>)))
\* The last of three loops fills a variable that nobody reads.
DeadLoop ==
  Def(<<"D">>, "t",
      Three(Li(St("S", At("x", <<i>>), <<>>, <<i>>)), Lk(St("T", At("y", <<k>>), <<>>, <<k>>)),
            Lj(St("U", At("t", <<j>>), <<>>, <<j>>))))

All == {"moveTo", "fuse", "autoReorder", "autoParallelize", "autoFissionFuse"}
MCPrograms ==
  {<<p, All>> : p \in
     {Preceded(i, i), Preceded(i, plus(i, 1)), Preceded(N(0), i), RowRead(plus(k, 1)), RowRead(k), RowRead(plus(k, 2)),
      RowBranch, Matrix(plus(k, 1)), Matrix(k), Sum(j), Sum(i), Nested(i, j), Nested(plus(i, 1), j),
      Deep(i, i), Deep(plus(i, 1), plus(i, 1)), Rows(k, k), Rows(N(0), N(1)),
      Followed(plus(i, 1), plus(i, 1)), Followed(i, i), Followed(i, plus(i, 1)), Local(<<i>>, i), Local(<<>>, N(0)),
      Short(<<i>>), Filled, Invariant, DeadLoop, Between(At("x", <<N(1)>>), At("y", <<N(0)>>)),
      Between(At("a", <<N(0)>>), At("y", <<N(0)>>)), Between(At("x", <<N(1)>>), At("x", <<k>>))}}

\* Their statements are in the order of a tree.
ASSUME \A c \in MCPrograms : Orderly(c[1])
=============================================================================

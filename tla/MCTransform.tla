---------------------------- MODULE MCTransform ----------------------------
EXTENDS Transform, Shapes

\* Every combination, transformed once.
Once ==
  LET near == {i, plus(i, 1), plus(i, 2), N(1)}
  IN {Nested(w, r) : w \in {i, plus(i, 1)}, r \in {j, plus(j, 2), plus(j, 4)}} \cup {Sum(w) : w \in {i, j, N(0)}}
     \cup {Preceded(w, r) : w \in {i, j}, r \in near} \cup {Followed(w, r) : w \in {plus(i, 1), j}, r \in near}
     \cup {RowRead(r) : r \in {k, plus(k, 1), plus(k, 2)}} \cup {RowBranch}
     \cup {Local(u, w) : u \in {<<>>, <<i>>}, w \in {i, N(0)}} \cup {Short(u) : u \in {<<>>, <<i>>}}
     \cup {Matrix(r) : r \in {plus(k, 1), plus(N(1), 2)}}
     \cup {Filled} \cup {Twice(w, r) : w \in {i, N(0)}, r \in {<<>>, <<At("x", <<N(0)>>)>>}}
\* One of every shape, transformed twice.
Again ==
  {Sum(j), Preceded(i, i), Followed(plus(i, 1), plus(i, 1)), RowRead(plus(k, 1)), Local(<<i>>, i), Short(<<>>), Matrix(plus(k, 1))}

MCPrograms == {<<p, 1>> : p \in Once} \cup {<<p, 2>> : p \in Again}
=============================================================================

------------------------------- MODULE Shapes -------------------------------
(***************************************************************************)
(* Small programs of every shape the transformations tell apart: a nest, a *)
(* nest with a statement before the inner loop, one with a statement after *)
(* it, two loops in a row, a local variable with and without dimensions,   *)
(* and a store that loops do not change.                                   *)
(***************************************************************************)
EXTENDS Program

i == V("i")
j == V("j")
k == V("k")
plus(e, n) == Op("+", e, N(n))
St(id, w, r, uses) == Leaf(<<id>>, "Store", w, r, uses)
Re(id, w, r, uses) == Leaf(<<id>>, "ReduceTo", w, r, uses)
Li(body) == For(<<"Li">>, "i", N(0), 3, 1, body)
Lj(body) == For(<<"Lj">>, "j", N(1), 2, 2, body)
Lk(body) == For(<<"Lk">>, "k", N(0), 3, 1, body)
Two(s, t) == Block(<<"B", s.id[1]>>, <<s, t>>)
Three(s, t, u) == Block(<<"B">>, <<s, t, u>>)

Nested(w, r) == Li(Lj(St("S", At("x", <<w, plus(j, 2)>>), <<At("x", <<i, r>>)>>, <<i>>)))
Sum(w) == Li(Lj(Re("S", At("x", <<w>>), <<At("a", <<i, j>>)>>, <<>>)))
Preceded(w, r) ==
  Li(Two(St("S", At("x", <<plus(i, 1)>>), <<>>, <<i>>), Lj(Re("T", At("y", <<w>>), <<At("x", <<r>>)>>, <<>>))))
Followed(w, r) ==
  Li(Two(Lj(Re("S", At("x", <<w>>), <<At("a", <<i, j>>)>>, <<>>)), St("T", At("y", <<i>>), <<At("x", <<r>>)>>, <<i>>)))
Row(b) == Two(Li(St("S", At("x", <<plus(i, 1)>>), <<>>, <<i>>)), Lk(b))
RowRead(r) == Row(St("T", At("y", <<k>>), <<At("x", <<r>>)>>, <<>>))
RowBranch == Row(If(<<"C">>, Op("<", k, N(2)), St("T", At("x", <<plus(k, 2)>>), <<>>, <<k>>)))
Local(u, w) ==
  Li(Def(<<"D">>, "t", Three(St("S", At("t", <<>>), <<>>, u), Lj(Re("T", At("t", <<>>), <<At("a", <<i, j>>)>>, <<>>)),
                             St("U", At("y", <<w>>), <<At("t", <<>>)>>, <<>>))))
Short(u) == Li(Def(<<"D">>, "t", Two(St("S", At("t", <<>>), <<>>, u), St("T", At("y", <<i>>), <<At("t", <<>>)>>, <<>>))))
Matrix(r) ==
  Def(<<"D">>, "t", Two(Li(Lj(St("S", At("t", <<i, j>>), <<>>, <<i, j>>))),
                        Lk(St("T", At("y", <<k>>), <<At("t", <<k, N(1)>>), At("t", <<N(1), r>>)>>, <<>>))))
Twice(w, r) == Two(St("S", At("x", <<N(0)>>), <<>>, <<>>), Li(St("T", At("x", <<w>>), r, <<i>>)))
Filled == Li(Def(<<"D">>, "t", Two(St("S", At("t", <<>>), <<>>, <<i>>), Lj(St("T", At("y", <<i, j>>), <<At("t", <<>>)>>, <<>>)))))
Invariant ==
  Def(<<"D">>, "t", Li(Two(Lj(St("S", At("t", <<>>), <<At("a", <<i, j>>)>>, <<>>)),
                           St("T", At("y", <<i>>), <<At("t", <<>>)>>, <<>>))))
Deep(w, r) ==
  Li(Lj(Three(St("S", At("x", <<i, j>>), <<>>, <<i, j>>), Re("T", At("y", <<i>>), <<At("x", <<i, j>>)>>, <<>>),
              St("U", At("z", <<w, j>>), <<At("x", <<r, j>>)>>, <<>>))))
Rows(w, r) ==
  Three(Li(St("S", At("x", <<i>>), <<>>, <<i>>)), Lj(St("T", At("y", <<j>>), <<>>, <<j>>)),
        Lk(St("U", At("z", <<w>>), <<At("x", <<r>>)>>, <<k>>)))
=============================================================================

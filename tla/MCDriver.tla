------------------------------ MODULE MCDriver ------------------------------
(***************************************************************************)
(* A forward function y = f(x) with a tape, and its gradient               *)
(* dx = g(x, tape, dy), as src/autograd/grad.cc builds them: the argument  *)
(* x of f updates a closure that g reads, and the tape is a return of f in *)
(* a closure.                                                              *)
(***************************************************************************)
EXTENDS Driver, TLC

CONSTANTS fwd, bwd, cx, ct, cpu, gpu

MCDevices == {cpu, gpu}
MCDrivers == {fwd, bwd}
MCClosures == {cx, ct}

Par(dev, atype, c, update) ==
  [dev |-> dev, atype |-> atype, closure |-> c, update |-> update]
Ret(arg, c, give) == [arg |-> arg, closure |-> c, give |-> give]

Pars(f, g) ==
  (fwd :> <<Par(f, "Input", cx, TRUE)>>) @@
  (bwd :> <<Par(g, "Input", cx, FALSE), Par(g, "Input", ct, FALSE),
            Par(g, "InOut", NoClosure, FALSE)>>)

MCReturns ==
  (fwd :> <<Ret(0, ct, FALSE)>>) @@ (bwd :> <<Ret(3, NoClosure, FALSE)>>)

\* The function on a GPU, which copies what it is given, and the gradient on
\* the CPU, which runs on the user's memory.
MixedPars == Pars(gpu, cpu)
OnBoth == (fwd :> gpu) @@ (bwd :> cpu)

\* Nothing in f may need x.
XRemovable == {<<fwd, 1>>}
Contracts ==
  SUBSET {"fail", "delete", "interleave"} \cup {{"omit"}}

\* All but the empty set of liberties are explored with one lent buffer.
OneLent ==
  taken # {} => Cardinality(UserBufs \cap UNION {Image(copy[a]) : a \in Arrays}) <= 1

Symmetry == Permutations(Arrays) \cup Permutations(Bufs) \cup Permutations(UserBufs)
=============================================================================

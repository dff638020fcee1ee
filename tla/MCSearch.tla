------------------------------ MODULE MCSearch ------------------------------
(***************************************************************************)
(* Searches of small spaces of sketches.                                   *)
(***************************************************************************)
EXTENDS Search

AllRules == {"cache_write", "fusion", "tiling", "thread_bind", "parallelize", "unroll"}

In(plat, rules, subs, calls) ==
  [plat |-> plat, rules |-> rules, subs |-> subs, bad |-> {},
   n |-> 2, exploit |-> 1, explore |-> 1, rounds |-> calls]

Reduction == NewSub(FALSE)
Consumed == NewSub(TRUE)

MCInputs == {
  \* a reduction on a GPU, and one of whose tilings is rejected
  In(GPU, AllRules, <<Reduction>>, 2),
  [In(GPU, AllRules, <<Reduction>>, 2) EXCEPT !.bad = {<<"fusion", 3>>}],
  \* two nests on a GPU
  [In(GPU, AllRules, <<Reduction, Consumed>>, 1) EXCEPT !.n = 1],
  \* all rules of a CPU
  [In(CPU, AllRules, <<Reduction>>, 1) EXCEPT !.n = 1],
  [In(CPU, AllRules, <<Consumed>>, 1) EXCEPT !.n = 1],
  \* few rules, where the skipped sketch is one of the few
  [In(CPU, {"tiling"}, <<Reduction>>, 2) EXCEPT !.n = 1],
  \* a space that the first round uses up
  In(GPU, {"cache_write", "fusion", "thread_bind"}, <<Reduction>>, 2),
  \* Unroll without the rule it relies on
  In(GPU, {"fusion", "unroll"}, <<Consumed>>, 2),
  \* nothing to exploit, and nothing to tile
  [In(GPU, AllRules, <<Reduction>>, 2) EXCEPT !.exploit = 0],
  In(CPU, AllRules, <<>>, 1)
}
=============================================================================

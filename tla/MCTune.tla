------------------------------- MODULE MCTune -------------------------------
(***************************************************************************)
(* Two threads make batches of two trials, for programs that begin with    *)
(* the same decision and go on differently.                                *)
(***************************************************************************)
EXTENDS Tune, TLC

CONSTANTS ca, cb, cc, p1, p2, t1, t2

\* ca is only compared with itself, cb and cc with each other.
MCAddresses == {(ca :> 1) @@ (cb :> 2) @@ (cc :> 3), (ca :> 1) @@ (cb :> 3) @@ (cc :> 2)}
MCDepDiff == (ca :> TRUE) @@ (cb :> FALSE) @@ (cc :> TRUE)
MCAsks ==
  (p1 :> ((<<>> :> ca) @@ (<<0>> :> cb))) @@
  (p2 :> ((<<>> :> ca) @@ (<<0>> :> cc) @@ (<<1>> :> cb)))
MCOwner == (1 :> t1) @@ (2 :> t2)
MCTimes == {<<2, 0>>, <<3, 1>>, <<5, 0>>}
=============================================================================

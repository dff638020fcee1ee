----------------------------- MODULE MCSchedule -----------------------------
(***************************************************************************)
(* Threads that try two kinds of schedules on forks of one Schedule.       *)
(***************************************************************************)
EXTENDS Schedule

CONSTANTS split, merge

\* There must be two loops before they can be merged.
MCLegal(op, ast) == op = merge => Len(ast) > 0
=============================================================================

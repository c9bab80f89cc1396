---------------------------- MODULE MCScheduler ----------------------------
(* Small instances of Scheduler.                                           *)
EXTENDS Scheduler, TLC

CONSTANTS x, y,   \* job ids
          p, q    \* the serving instance, and one started beside it

Symmetry == Permutations(Ids) \cup Permutations(Instances)
=============================================================================

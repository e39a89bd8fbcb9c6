---------------------------- MODULE MCIgmpGroups ----------------------------
(* Two groups share the queue of timers; of the two other routers one has  *)
(* a lower address than this one.  The groups are interchangeable.         *)
EXTENDS IgmpGroups

MCSymmetry == Permutations(Groups)
=============================================================================

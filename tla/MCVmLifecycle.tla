--------------------------- MODULE MCVmLifecycle ----------------------------
(* Two interchangeable processes with two commands each: a service may be    *)
(* created, emptied, deleted and created again while the other is at work.   *)
EXTENDS VmLifecycle, TLC

CONSTANTS p1, p2

MCSymmetry == Permutations(Procs)
=============================================================================

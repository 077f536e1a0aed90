---------------------------- MODULE MCJobTracker ----------------------------
(* JobTracker with three workers; the workers are interchangeable.           *)
EXTENDS JobTracker, TLC

CONSTANTS w1, w2, w3

MCWorkers == {w1, w2, w3}
WorkerSymmetry == Permutations(MCWorkers)
=============================================================================

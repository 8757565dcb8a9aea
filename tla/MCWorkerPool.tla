---------------------------- MODULE MCWorkerPool ----------------------------
(* WorkerPool with the values TLC needs: the callers are interchangeable. *)
EXTENDS WorkerPool, TLC

CONSTANTS c1, c2, c3

TwoCallers == {c1, c2}
ThreeCallers == TwoCallers \union {c3}
CallerSymmetry == Permutations(ThreeCallers)
=============================================================================

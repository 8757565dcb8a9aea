------------------------------- MODULE MCMailbox -------------------------------
(* Mailbox with the values TLC needs. *)
EXTENDS Mailbox, TLC

CONSTANTS w1, w2

TwoWorkers == {w1, w2}
WorkerSymmetry == Permutations(TwoWorkers)
BothKinds == {"oauth", "login"}
SecondOnly == {2}
=============================================================================

-------------------------- MODULE MCContainerPool --------------------------
(* ContainerPool with the values TLC needs: the requesters are interchangeable. *)
EXTENDS ContainerPool, TLC

CONSTANTS r1, r2

TwoRequesters == {r1, r2}
RequesterSymmetry == Permutations(TwoRequesters)
=============================================================================

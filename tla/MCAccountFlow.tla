---------------------------- MODULE MCAccountFlow ----------------------------
(* AccountFlow with the values TLC needs. *)
EXTENDS AccountFlow
=============================================================================

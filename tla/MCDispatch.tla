----------------------------- MODULE MCDispatch -----------------------------
(* Dispatch with the values TLC needs. *)
EXTENDS Dispatch, TLC

CONSTANTS r1, r2

TwoRequests == {r1, r2}
RequestSymmetry == Permutations(TwoRequests)
NoPreference == <<>>
SecondFirst == <<2>>
AllCategories == Category
=============================================================================

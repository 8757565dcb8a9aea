----------------------------- MODULE MCTeamSeats -----------------------------
(* TeamSeats with the values TLC needs. *)
EXTENDS TeamSeats, TLC

CONSTANTS w1, w2

TwoWorkers == {w1, w2}
\* An empty team, and one whose usage-based and default seats are used up.
MixedTeams ==
  {[invite |-> <<a, "none">>, member |-> <<"none", b>>] :
     <<a, b>> \in {<<"none", "none">>, <<"codex", "chatgpt">>}}
WorkerSymmetry == Permutations(TwoWorkers)
=============================================================================

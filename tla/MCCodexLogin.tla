---------------------------- MODULE MCCodexLogin ----------------------------
(* CodexLogin with the values TLC needs. *)
EXTENDS CodexLogin

AllRuns == Run
BothWays == {TRUE, FALSE}
AllKnown == {"none", "registered", "made"}
PersonalOrNone == {"personal", "nothing"}
TeamOrNone == {"team", "nothing"}
TwoKinds == {"personal", "team"}
=============================================================================

--------------------------- MODULE ExecutionLane ---------------------------
(***************************************************************************)
(* What an execution pool promises to whoever calls it: a call runs on a   *)
(* lane that no other call uses meanwhile, and a lane on which a call      *)
(* failed, and which may still be running it, serves no further call.      *)
(***************************************************************************)
CONSTANTS Caller, Lane, None

VARIABLES
  lease,    \* the lane each caller uses
  spent,    \* the lanes that will serve no further call
  failed    \* the callers whose call has failed

lane == <<lease, spent, failed>>

Init ==
  /\ lease = [c \in Caller |-> None]
  /\ spent = {}
  /\ failed = {}

Wear == spent' \subseteq Lane /\ spent \subseteq spent'

Begin(c) ==
  /\ lease[c] = None
  /\ Wear
  /\ \E w \in Lane \ spent' :
       /\ \A d \in Caller : lease[d] # w
       /\ lease' = [lease EXCEPT ![c] = w]
  /\ UNCHANGED failed

Fail(c) ==
  /\ lease[c] # None
  /\ failed' = failed \union {c}
  /\ UNCHANGED <<lease, spent>>

End(c) ==
  /\ lease[c] # None
  /\ c \in failed => lease[c] \in spent
  /\ Wear
  /\ lease' = [lease EXCEPT ![c] = None]
  /\ failed' = failed \ {c}

Manage == Wear /\ UNCHANGED <<lease, failed>>

Next == Manage \/ \E c \in Caller : Begin(c) \/ Fail(c) \/ End(c)

Spec == Init /\ [][Next]_lane
=============================================================================

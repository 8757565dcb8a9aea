--------------------------- MODULE CircuitBreaker ---------------------------
(***************************************************************************)
(* What the cooling of services promises to those who call them: a client  *)
(* that looks for services is given only ones whose circuit is closed; a   *)
(* circuit is opened by the failures of clients that were given its        *)
(* service, Threshold of them since the last success, for CoolFor from the *)
(* beginning of the call that failed last; and it closes when its time has *)
(* come, or by an operator's hand, but never by a success.                 *)
(***************************************************************************)
EXTENDS Naturals

CONSTANTS Client, Service, Threshold, CoolFor

VARIABLES
  clock,
  strikes,   \* the failures of each service that count
  ends,      \* when its open circuit closes, 0 while it is closed
  given      \* the services each client may still call

breaker == <<clock, strikes, ends, given>>

Init ==
  /\ clock = 1
  /\ strikes = [s \in Service |-> 0] /\ ends = [s \in Service |-> 0]
  /\ given = [c \in Client |-> {}]

\* A window that is over by t is none.
Window(end, t) == IF t >= end THEN 0 ELSE end

Tick ==
  /\ clock' = clock + 1
  /\ ends' = [s \in Service |-> Window(ends[s], clock')]
  /\ UNCHANGED <<strikes, given>>

\* Only what c may call changes.
Turn(c) == given' = [given EXCEPT ![c] = given'[c]] /\ UNCHANGED <<clock, strikes, ends>>

Look(c) ==
  /\ given[c] = {} /\ given'[c] # {}
  /\ given'[c] \subseteq {s \in Service : ends[s] = 0}
  /\ Turn(c)

Leave(c) ==
  /\ given'[c] # given[c] /\ given'[c] \subseteq given[c]
  /\ Turn(c)

Succeed(c) ==
  /\ \E s \in given[c] : strikes' = [strikes EXCEPT ![s] = 0]
  /\ UNCHANGED <<clock, ends, given>>

\* The window begins with the call, so that of a call that took longer is over already.
Fail(c) ==
  /\ \E s \in given[c] :
       \/ /\ strikes[s] + 1 < Threshold
          /\ strikes' = [strikes EXCEPT ![s] = @ + 1] /\ UNCHANGED ends
       \/ /\ strikes[s] + 1 >= Threshold
          /\ strikes' = [strikes EXCEPT ![s] = 0]
          /\ \E t \in 1 .. clock : ends' = [ends EXCEPT ![s] = Window(t + CoolFor, clock)]
  /\ UNCHANGED <<clock, given>>

Reset(S) ==
  /\ strikes' = [s \in Service |-> IF s \in S THEN 0 ELSE strikes[s]]
  /\ ends' = [s \in Service |-> IF s \in S THEN 0 ELSE ends[s]]
  /\ UNCHANGED <<clock, given>>

Next ==
  \/ \E S \in SUBSET Service : Reset(S)
  \/ \E c \in Client : Look(c) \/ Leave(c) \/ Succeed(c) \/ Fail(c)
  \/ Tick

Spec == Init /\ [][Next]_breaker
=============================================================================

-------------------------- MODULE ProxyLeaseProofs --------------------------
(***************************************************************************)
(* The routes of a process are exclusive and its leases accounted for, for *)
(* every number of flows, routes, attempts and leases.                     *)
(***************************************************************************)
EXTENDS ProxyLease, FiniteSetTheorems, TLAPS

\* The leases that no flow will give back.
Stranded == granted \ {lease[f] : f \in Flow}

IInv == TypeOK /\ RouteExclusive /\ LeasesAccountedFor

USE ProxyAssumption, ProxyBoundAssumption DEF ProxyAssumption, ProxyBoundAssumption

-----------------------------------------------------------------------------
(* Where a failed attempt leads *)

LEMMA AfterIs ==
  ASSUME NEW f \in Flow, NEW l \in {"pick", "checkout"}, tries[f] \in 0 .. Attempts - 1
  PROVE  /\ After(f, l) \in {"pick", "checkout", "idle", "using"}
         /\ After(f, l) = l => (IF After(f, l) = l THEN tries[f] + 1 ELSE 0) \in 0 .. Attempts - 1
         /\ (IF After(f, l) = l THEN tries[f] + 1 ELSE 0) \in 0 .. Attempts - 1
<1>1. tries[f] \in Nat /\ Attempts \in Nat /\ Attempts >= 1
  OBVIOUS
<1>2. CASE tries[f] + 1 < Attempts
  BY <1>1, <1>2 DEF After
<1>3. CASE ~(tries[f] + 1 < Attempts)
  <2>1. After(f, l) \in {"checkout", "idle", "using"} /\ After(f, l) # l
    BY <1>3 DEF After
  <2>2. QED
    BY <1>1, <2>1
<1>4. QED
  BY <1>2, <1>3

\* What the type invariant says of one flow.
FlowOK(f) ==
  /\ pc[f] \in Label /\ node[f] \in Node \union {None}
  /\ lease[f] \in 0 .. MaxLeases /\ tried[f] \in SUBSET Node /\ tries[f] \in 0 .. Attempts - 1
  /\ pc[f] \in Probing => node[f] # None
  /\ node[f] # None => pc[f] \in Probing \union {"using"}
  /\ lease[f] # 0 => pc[f] \in {"probe_lease", "claim_lease", "using"}

Functions == /\ pc = [g \in Flow |-> pc[g]] /\ node = [g \in Flow |-> node[g]]
             /\ lease = [g \in Flow |-> lease[g]] /\ tried = [g \in Flow |-> tried[g]]
             /\ tries = [g \in Flow |-> tries[g]]

SharedOK ==
  /\ active \subseteq Node /\ recent \subseteq Node /\ failed \subseteq Node
  /\ issued \in 0 .. MaxLeases /\ granted \subseteq 1 .. issued
  /\ faults \in 0 .. MaxFaults

LEMMA TypeSays == TypeOK => Functions /\ SharedOK /\ \A f \in Flow : FlowOK(f)
  BY DEF TypeOK, Functions, SharedOK, FlowOK

\* A step of a flow changes what belongs to it, and nothing of the others.
Only(f) ==
  /\ pc' = [pc EXCEPT ![f] = pc'[f]] /\ node' = [node EXCEPT ![f] = node'[f]]
  /\ lease' = [lease EXCEPT ![f] = lease'[f]] /\ tried' = [tried EXCEPT ![f] = tried'[f]]
  /\ tries' = [tries EXCEPT ![f] = tries'[f]]

LEMMA OthersKeepTheirs ==
  ASSUME TypeOK, NEW f \in Flow, Only(f), FlowOK(f)', SharedOK'
  PROVE  TypeOK'
<1>1. Functions /\ \A g \in Flow : FlowOK(g)
  BY TypeSays
<1>2. Functions'
  BY <1>1 DEF Functions, Only
<1>3. \A g \in Flow : g # f => /\ pc'[g] = pc[g] /\ node'[g] = node[g] /\ lease'[g] = lease[g]
                              /\ tried'[g] = tried[g] /\ tries'[g] = tries[g]
  BY <1>1 DEF Functions, Only
<1>4. ASSUME NEW g \in Flow PROVE FlowOK(g)'
  <2>1. CASE g = f
    BY <2>1
  <2>2. CASE g # f
    BY <1>1, <1>3, <2>2 DEF FlowOK
  <2>3. QED
    BY <2>1, <2>2
<1>5. pc' \in [Flow -> Label] /\ node' \in [Flow -> Node \union {None}]
  BY <1>2, <1>4 DEF Functions, FlowOK
<1>6. lease' \in [Flow -> 0 .. MaxLeases]
  BY <1>2, <1>4 DEF Functions, FlowOK
<1>7. tried' \in [Flow -> SUBSET Node]
  BY <1>2, <1>4 DEF Functions, FlowOK
<1>8. tries' \in [Flow -> 0 .. Attempts - 1]
  BY <1>2, <1>4 DEF Functions, FlowOK
<1>9. QED
  BY <1>4, <1>5, <1>6, <1>7, <1>8 DEF SharedOK, FlowOK, TypeOK

HasNoLease(f) ==
  \/ lease' = [lease EXCEPT ![f] = 0]
  \/ lease[f] = 0 /\ lease' = lease

LEMMA RetryIs ==
  ASSUME TypeOK, NEW f \in Flow, NEW l \in {"pick", "checkout"}, Retry(f, l),
         HasNoLease(f),
         tried' = [tried EXCEPT ![f] = tried'[f]], tried'[f] \in SUBSET Node
  PROVE  Only(f) /\ FlowOK(f)' /\ node'[f] = None
<1>1. Functions /\ FlowOK(f)
  BY TypeSays
<1>2. /\ pc' = [pc EXCEPT ![f] = After(f, l)] /\ node' = [node EXCEPT ![f] = None]
      /\ tries' = [tries EXCEPT ![f] = IF After(f, l) = l THEN tries[f] + 1 ELSE 0]
  BY <1>1 DEF Retry, Goto, Functions
<1>3. /\ pc'[f] = After(f, l) /\ node'[f] = None /\ lease'[f] = 0
      /\ tries'[f] = IF After(f, l) = l THEN tries[f] + 1 ELSE 0
  BY <1>1, <1>2 DEF Functions, HasNoLease
<1>4. Only(f)
  BY <1>1, <1>2, <1>3 DEF Only, Functions, HasNoLease
<1>5. pc'[f] \in {"pick", "checkout", "idle", "using"} /\ tries'[f] \in 0 .. Attempts - 1
  BY <1>1, <1>3, AfterIs DEF FlowOK
<1>6. 0 \in 0 .. MaxLeases
  OBVIOUS
<1>7. FlowOK(f)'
  BY <1>3, <1>5, <1>6 DEF FlowOK, Label, Probing
<1>8. QED
  BY <1>3, <1>4, <1>7

LEMMA GiveBackIs ==
  ASSUME TypeOK, NEW f \in Flow, GiveBack(f)
  PROVE  /\ lease' = [lease EXCEPT ![f] = 0] /\ lease'[f] = 0
         /\ granted' \subseteq granted /\ faults' \in 0 .. MaxFaults
<1>1. faults' \in 0 .. MaxFaults
  BY DEF GiveBack, Fault, TypeOK
<1>2. lease' = [lease EXCEPT ![f] = 0] /\ lease'[f] = 0
  BY DEF GiveBack, TypeOK
<1>3. QED
  BY <1>1, <1>2 DEF GiveBack

-----------------------------------------------------------------------------
(* The steps of a flow keep the types *)

LEMMA StepIs ==
  ASSUME TypeOK, NEW f \in Flow, Step(f)
  PROVE  Only(f) /\ FlowOK(f)' /\ SharedOK'
<1>0. Functions /\ SharedOK /\ FlowOK(f)
  BY TypeSays
<1>1. CASE Acquire(f)
  <2>1. /\ pc'[f] = IF Mode = "lease" THEN "checkout" ELSE "pick"
        /\ tries'[f] = 0 /\ tried'[f] = {} /\ UNCHANGED <<node, lease>>
    BY <1>0, <1>1 DEF Acquire, Goto, Functions
  <2>2. Only(f)
    BY <1>0, <1>1, <2>1 DEF Acquire, Goto, Functions, Only
  <2>3. 0 \in 0 .. Attempts - 1
    OBVIOUS
  <2>4. FlowOK(f)'
    BY <1>0, <1>1, <2>1, <2>3 DEF Acquire, FlowOK, Label, Probing
  <2>5. SharedOK'
    BY <1>0, <1>1 DEF Acquire, SharedOK
  <2>6. QED
    BY <2>2, <2>4, <2>5
<1>2. CASE PickNode(f)
  <2>0. lease[f] = 0 /\ lease' = lease /\ SharedOK'
    BY <1>0, <1>2 DEF PickNode, FlowOK, SharedOK
  <2>1. CASE Retry(f, "pick") /\ UNCHANGED tried
    <3>1. tried' = [tried EXCEPT ![f] = tried'[f]] /\ tried'[f] \in SUBSET Node
      BY <1>0, <2>1 DEF Functions, FlowOK
    <3>2. QED
      BY <2>0, <2>1, <3>1, RetryIs DEF HasNoLease
  <2>2. CASE \E n \in Node \ Excluded(f) :
               /\ node' = [node EXCEPT ![f] = n] /\ tried' = [tried EXCEPT ![f] = @ \union {n}]
               /\ Goto(f, "probe_node")
               /\ UNCHANGED tries
    <3>1. PICK n \in Node : /\ node' = [node EXCEPT ![f] = n]
                             /\ tried' = [tried EXCEPT ![f] = tried[f] \union {n}]
                             /\ pc' = [pc EXCEPT ![f] = "probe_node"] /\ tries' = tries
      BY <1>0, <2>2 DEF Goto, Functions
    <3>2. /\ node'[f] = n /\ tried'[f] = tried[f] \union {n}
          /\ pc'[f] = "probe_node" /\ tries'[f] = tries[f] /\ lease'[f] = 0
      BY <1>0, <2>0, <3>1 DEF Functions
    <3>3. Only(f)
      BY <1>0, <2>0, <3>1, <3>2 DEF Functions, Only
    <3>4. FlowOK(f)'
      BY <1>0, <2>0, <3>2 DEF FlowOK, Label, Probing
    <3>5. QED
      BY <2>0, <3>3, <3>4
  <2>3. QED
    BY <1>2, <2>1, <2>2 DEF PickNode
<1>3. CASE ProbeNode(f)
  <2>0. UNCHANGED <<lease, tried>> /\ node[f] \in Node
    BY <1>0, <1>3 DEF ProbeNode, FlowOK, Probing
  <2>1. CASE Goto(f, "claim_node") /\ UNCHANGED <<node, tries, failed>>
    <3>1. pc'[f] = "claim_node" /\ Only(f)
      BY <1>0, <2>0, <2>1 DEF Goto, Functions, Only
    <3>2. FlowOK(f)' /\ SharedOK'
      BY <1>0, <1>3, <2>0, <2>1, <3>1 DEF ProbeNode, FlowOK, SharedOK, Label, Probing
    <3>3. QED
      BY <3>1, <3>2
  <2>2. CASE Retry(f, "pick") /\ MarkFailed(node[f])
    <3>1. tried' = [tried EXCEPT ![f] = tried'[f]] /\ tried'[f] \in SUBSET Node
      BY <1>0, <2>0 DEF Functions, FlowOK
    <3>2. SharedOK'
      BY <1>0, <1>3, <2>0, <2>2 DEF ProbeNode, MarkFailed, SharedOK
    <3>3. lease[f] = 0 /\ lease' = lease
      BY <1>0, <1>3, <2>0 DEF ProbeNode, FlowOK
    <3>4. QED
      BY <2>2, <3>1, <3>2, <3>3, RetryIs DEF HasNoLease
  <2>3. QED
    BY <1>3, <2>1, <2>2 DEF ProbeNode
<1>4. CASE ClaimNode(f)
  <2>0. UNCHANGED <<lease, tried>> /\ node[f] \in Node /\ lease[f] = 0
    BY <1>0, <1>4 DEF ClaimNode, FlowOK, Probing
  <2>1. CASE Free(node[f])
    <3>1. /\ pc' = [pc EXCEPT ![f] = "using"] /\ UNCHANGED <<node, tries>>
          /\ active' = active \union {node[f]}
      BY <1>4, <2>1 DEF ClaimNode, Goto
    <3>2. pc'[f] = "using" /\ Only(f)
      BY <1>0, <2>0, <3>1 DEF Functions, Only
    <3>3. FlowOK(f)' /\ SharedOK'
      BY <1>0, <1>4, <2>0, <3>1, <3>2 DEF ClaimNode, FlowOK, SharedOK, Label, Probing
    <3>4. QED
      BY <3>2, <3>3
  <2>2. CASE ~Free(node[f])
    <3>1. tried' = [tried EXCEPT ![f] = tried'[f]] /\ tried'[f] \in SUBSET Node
      BY <1>0, <2>0 DEF Functions, FlowOK
    <3>2. Retry(f, "pick") /\ SharedOK'
      BY <1>0, <1>4, <2>2 DEF ClaimNode, SharedOK
    <3>3. QED
      BY <2>0, <3>1, <3>2, RetryIs DEF HasNoLease
  <2>3. QED
    BY <2>1, <2>2
<1>5. CASE Checkout(f)
  <2>0. lease[f] = 0 /\ tried' = tried /\ UNCHANGED <<active, recent, failed>>
    BY <1>0, <1>5 DEF Checkout, FlowOK
  <2>1. tried' = [tried EXCEPT ![f] = tried'[f]] /\ tried'[f] \in SUBSET Node
    BY <1>0, <2>0 DEF Functions, FlowOK
  <2>2. CASE Retry(f, "checkout") /\ UNCHANGED <<lease, granted, issued, faults>>
    <3>1. SharedOK'
      BY <1>0, <2>0, <2>2 DEF SharedOK
    <3>2. QED
      BY <2>0, <2>1, <2>2, <3>1, RetryIs DEF HasNoLease
  <2>3. ASSUME NEW n \in Node, issued < MaxLeases, issued' = issued + 1,
               granted' = granted \union {issued + 1}
        PROVE  issued' \in 1 .. MaxLeases /\ granted' \subseteq 1 .. issued'
    BY <1>0, <2>3 DEF SharedOK
  <2>4. ASSUME NEW n \in Node, issued < MaxLeases, issued' = issued + 1,
               granted' = granted \union {issued + 1},
               lease' = [lease EXCEPT ![f] = issued + 1], node' = [node EXCEPT ![f] = n],
               Goto(f, "probe_lease"), UNCHANGED <<tries, faults>>
        PROVE  Only(f) /\ FlowOK(f)' /\ SharedOK'
    <3>1. /\ lease'[f] = issued + 1 /\ node'[f] = n /\ pc'[f] = "probe_lease"
          /\ tries'[f] = tries[f]
      BY <1>0, <2>4 DEF Goto, Functions
    <3>2. Only(f)
      BY <1>0, <2>0, <2>4, <3>1 DEF Goto, Functions, Only
    <3>3. issued' \in 1 .. MaxLeases /\ granted' \subseteq 1 .. issued'
      BY <2>3, <2>4
    <3>4. SharedOK'
      BY <1>0, <2>0, <2>4, <3>3 DEF SharedOK
    <3>5. lease'[f] \in 0 .. MaxLeases
      BY <2>4, <3>1, <3>3
    <3>6. FlowOK(f)'
      BY <1>0, <2>0, <3>1, <3>5 DEF FlowOK, Label, Probing
    <3>7. QED
      BY <3>2, <3>4, <3>6
  <2>5. ASSUME NEW n \in Node, issued < MaxLeases, issued' = issued + 1,
               granted' = granted \union {issued + 1},
               Fault, Retry(f, "checkout"), UNCHANGED lease
        PROVE  Only(f) /\ FlowOK(f)' /\ SharedOK'
    <3>1. issued' \in 1 .. MaxLeases /\ granted' \subseteq 1 .. issued'
      BY <2>3, <2>5
    <3>2. faults' \in 0 .. MaxFaults
      BY <1>0, <2>5 DEF Fault, SharedOK
    <3>3. SharedOK'
      BY <1>0, <2>0, <3>1, <3>2 DEF SharedOK
    <3>4. QED
      BY <2>0, <2>1, <2>5, <3>3, RetryIs DEF HasNoLease
  <2>6. QED
    BY <1>5, <2>2, <2>4, <2>5 DEF Checkout
<1>6. CASE ProbeLease(f)
  <2>0. UNCHANGED <<tried, active, recent, failed, issued>>
    BY <1>6 DEF ProbeLease
  <2>1. tried' = [tried EXCEPT ![f] = tried'[f]] /\ tried'[f] \in SUBSET Node
    BY <1>0, <2>0 DEF Functions, FlowOK
  <2>2. CASE Goto(f, "claim_lease") /\ UNCHANGED <<node, tries, lease, granted, faults>>
    <3>1. pc'[f] = "claim_lease" /\ Only(f)
      BY <1>0, <2>0, <2>2 DEF Goto, Functions, Only
    <3>2. FlowOK(f)' /\ SharedOK'
      BY <1>0, <1>6, <2>0, <2>2, <3>1 DEF ProbeLease, FlowOK, SharedOK, Label, Probing
    <3>3. QED
      BY <3>1, <3>2
  <2>3. CASE Retry(f, "checkout") /\ GiveBack(f)
    <3>1. /\ lease' = [lease EXCEPT ![f] = 0]
          /\ granted' \subseteq granted /\ faults' \in 0 .. MaxFaults
      BY <2>3, GiveBackIs
    <3>2. SharedOK'
      BY <1>0, <2>0, <3>1 DEF SharedOK
    <3>3. Retry(f, "checkout") /\ HasNoLease(f)
      BY <2>3, <3>1 DEF HasNoLease
    <3>4. Only(f) /\ FlowOK(f)'
      BY <2>1, <3>3, RetryIs
    <3>5. QED
      BY <3>2, <3>4
  <2>4. QED
    BY <1>6, <2>2, <2>3 DEF ProbeLease, GiveBackCandidate
<1>7. CASE ClaimLease(f)
  <2>0. UNCHANGED <<tried, recent, failed, issued>> /\ node[f] \in Node
    BY <1>0, <1>7 DEF ClaimLease, FlowOK, Probing
  <2>1. tried' = [tried EXCEPT ![f] = tried'[f]] /\ tried'[f] \in SUBSET Node
    BY <1>0, <2>0 DEF Functions, FlowOK
  <2>2. CASE Free(node[f])
    <3>1. /\ pc' = [pc EXCEPT ![f] = "using"] /\ active' = active \union {node[f]}
          /\ UNCHANGED <<node, tries, lease, granted, faults>>
      BY <1>7, <2>2 DEF ClaimLease, Goto
    <3>2. pc'[f] = "using" /\ Only(f)
      BY <1>0, <2>0, <3>1 DEF Functions, Only
    <3>3. SharedOK'
      BY <1>0, <2>0, <3>1 DEF SharedOK
    <3>4. /\ node'[f] = node[f] /\ lease'[f] = lease[f] /\ tried'[f] = tried[f]
          /\ tries'[f] = tries[f]
      BY <2>0, <3>1
    <3>5. FlowOK(f)'
      BY <1>0, <2>0, <3>2, <3>4 DEF FlowOK, Label, Probing
    <3>6. QED
      BY <3>2, <3>3, <3>5
  <2>3. CASE ~Free(node[f])
    <3>1. Retry(f, "checkout") /\ GiveBack(f) /\ UNCHANGED active
      BY <1>7, <2>3 DEF ClaimLease, GiveBackCandidate
    <3>2. /\ lease' = [lease EXCEPT ![f] = 0]
          /\ granted' \subseteq granted /\ faults' \in 0 .. MaxFaults
      BY <3>1, GiveBackIs
    <3>3. SharedOK'
      BY <1>0, <2>0, <3>1, <3>2 DEF SharedOK
    <3>4. Retry(f, "checkout") /\ HasNoLease(f)
      BY <3>1, <3>2 DEF HasNoLease
    <3>5. Only(f) /\ FlowOK(f)'
      BY <2>1, <3>4, RetryIs
    <3>6. QED
      BY <3>3, <3>5
  <2>4. QED
    BY <2>2, <2>3
<1>8. ASSUME NEW success \in BOOLEAN, Finalize(f, success), failed' \subseteq Node
      PROVE  Only(f) /\ FlowOK(f)' /\ SharedOK'
  <2>1. /\ lease' = [lease EXCEPT ![f] = 0] /\ lease'[f] = 0
        /\ granted' \subseteq granted /\ faults' \in 0 .. MaxFaults
    BY <1>8, GiveBackIs DEF Finalize
  <2>2. /\ pc' = [pc EXCEPT ![f] = "idle"] /\ node' = [node EXCEPT ![f] = None]
        /\ UNCHANGED <<tried, tries, issued>>
    BY <1>8 DEF Finalize, Goto
  <2>3. active' \subseteq Node /\ recent' \subseteq Node
    <3>1. active' = active \ {node[f]}
      BY <1>8 DEF Finalize
    <3>2. recent' = recent \union ({node[f]} \ {None}) \/ recent' = recent
      BY <1>8 DEF Finalize
    <3>3. QED
      BY <1>0, <3>1, <3>2 DEF SharedOK, FlowOK
  <2>4. pc'[f] = "idle" /\ node'[f] = None
    BY <1>0, <2>2 DEF Functions
  <2>5. Only(f)
    BY <1>0, <2>1, <2>2, <2>4 DEF Functions, Only
  <2>6. FlowOK(f)'
    BY <1>0, <2>1, <2>2, <2>4 DEF FlowOK, Label, Probing
  <2>7. SharedOK'
    BY <1>0, <1>8, <2>1, <2>2, <2>3 DEF SharedOK
  <2>8. QED
    BY <2>5, <2>6, <2>7
<1>9. CASE Succeed(f)
  BY <1>0, <1>8, <1>9 DEF Succeed, SharedOK
<1>10. CASE Fail(f)
  <2>1. failed' \subseteq Node
    BY <1>0, <1>10 DEF Fail, MarkFailed, SharedOK, FlowOK
  <2>2. QED
    BY <1>8, <1>10, <2>1 DEF Fail
<1>11. QED
  BY <1>1, <1>2, <1>3, <1>4, <1>5, <1>6, <1>7, <1>9, <1>10 DEF Step

LEMMA NextTypes ==
  ASSUME TypeOK, [Next]_vars
  PROVE  TypeOK'
<1>1. ASSUME NEW f \in Flow, Step(f) PROVE TypeOK'
  BY <1>1, StepIs, OthersKeepTheirs
<1>2. CASE Forgive
  BY <1>2 DEF Forgive, flowVars, TypeOK
<1>3. CASE Lapse
  BY <1>3 DEF Lapse, flowVars, TypeOK
<1>4. CASE Kill
  <2>1. {f \in Flow : lease[f] # 0} \in SUBSET Flow
    OBVIOUS
  <2>2. Cardinality({f \in Flow : lease[f] # 0}) \in Nat
    BY <2>1, FS_Subset, FS_CardinalityType
  <2>3. faults' \in 0 .. MaxFaults
    BY <1>4, <2>2 DEF Kill, TypeOK
  <2>4. 0 \in 0 .. Attempts - 1 /\ 0 \in 0 .. MaxLeases
    OBVIOUS
  <2>5. /\ pc' \in [Flow -> Label] /\ node' \in [Flow -> Node \union {None}]
        /\ tried' \in [Flow -> SUBSET Node]
    BY <1>4 DEF Kill, Label
  <2>6. lease' \in [Flow -> 0 .. MaxLeases] /\ tries' \in [Flow -> 0 .. Attempts - 1]
    BY <1>4, <2>4 DEF Kill
  <2>7. \A f \in Flow : pc'[f] = "idle" /\ node'[f] = None /\ lease'[f] = 0
    BY <1>4 DEF Kill
  <2>8. /\ active' \subseteq Node /\ recent' \subseteq Node /\ failed' \subseteq Node
        /\ issued' \in 0 .. MaxLeases /\ granted' \subseteq 1 .. issued'
    BY <1>4 DEF Kill, TypeOK
  <2>9. QED
    BY <2>3, <2>5, <2>6, <2>7, <2>8 DEF TypeOK, Probing
<1>5. CASE UNCHANGED vars
  BY <1>5 DEF vars, flowVars, TypeOK
<1>6. QED
  BY <1>1, <1>2, <1>3, <1>4, <1>5 DEF Next

-----------------------------------------------------------------------------
(* The routes *)

\* A flow without a route takes one up that is not in use.
LEMMA TakingUp ==
  ASSUME TypeOK, RouteExclusive, NEW f \in Flow, Only(f), pc[f] # "using",
         pc'[f] = "using" /\ node'[f] # None => node'[f] \notin active,
         active' = active \union (IF pc'[f] = "using" THEN {node'[f]} \ {None} ELSE {})
  PROVE  RouteExclusive'
<1>1. \A g \in Flow : g # f => pc'[g] = pc[g] /\ node'[g] = node[g]
  BY DEF Only, TypeOK
<1>2. ASSUME NEW g \in Flow, pc'[g] = "using", node'[g] # None, g # f
      PROVE  node'[g] \in active
  BY <1>1, <1>2 DEF RouteExclusive
<1>3. ASSUME NEW g \in Flow, NEW h \in Flow,
             pc'[g] = "using", pc'[h] = "using", node'[g] = node'[h], node'[g] # None
      PROVE  g = h
  <2>1. CASE g # f /\ h # f
    BY <1>1, <1>3, <2>1 DEF RouteExclusive
  <2>2. CASE g = f \/ h = f
    BY <1>2, <1>3, <2>2
  <2>3. QED
    BY <2>1, <2>2
<1>4. active' = {node'[h] : h \in {g \in Flow : pc'[g] = "using"}} \ {None}
  <2>1. active = {node[h] : h \in {g \in Flow : pc[g] = "using"}} \ {None}
    BY DEF RouteExclusive
  <2>2. ASSUME NEW n \in active' PROVE n # None /\ \E h \in Flow : pc'[h] = "using" /\ node'[h] = n
    <3>1. CASE n \in active
      <4>1. PICK h \in Flow : pc[h] = "using" /\ node[h] = n
        BY <2>1, <3>1
      <4>2. QED
        BY <1>1, <2>1, <3>1, <4>1
    <3>2. CASE n \notin active
      BY <2>2, <3>2
    <3>3. QED
      BY <3>1, <3>2
  <2>3. ASSUME NEW h \in Flow, pc'[h] = "using", node'[h] # None PROVE node'[h] \in active'
    BY <1>2, <2>3
  <2>4. QED
    BY <2>2, <2>3
<1>5. QED
  BY <1>3, <1>4 DEF RouteExclusive

\* A flow that ends gives its route free, and no other.
LEMMA Ending ==
  ASSUME TypeOK, RouteExclusive, NEW f \in Flow, Only(f), pc[f] = "using", pc'[f] # "using",
         active' = active \ {node[f]}
  PROVE  RouteExclusive'
<1>1. \A g \in Flow : g # f => pc'[g] = pc[g] /\ node'[g] = node[g]
  BY DEF Only, TypeOK
<1>2. ASSUME NEW g \in Flow, NEW h \in Flow,
             pc'[g] = "using", pc'[h] = "using", node'[g] = node'[h], node'[g] # None
      PROVE  g = h
  BY <1>1, <1>2 DEF RouteExclusive
<1>3. active = {node[h] : h \in {g \in Flow : pc[g] = "using"}} \ {None}
  BY DEF RouteExclusive
<1>4. ASSUME NEW n \in active' PROVE n # None /\ \E h \in Flow : pc'[h] = "using" /\ node'[h] = n
  <2>1. n \in active /\ n # node[f]
    BY <1>4
  <2>2. PICK h \in Flow : pc[h] = "using" /\ node[h] = n
    BY <1>3, <2>1
  <2>3. h # f
    BY <2>1, <2>2
  <2>4. QED
    BY <1>1, <1>3, <2>1, <2>2, <2>3
<1>5. ASSUME NEW h \in Flow, pc'[h] = "using", node'[h] # None PROVE node'[h] \in active'
  <2>1. h # f
    BY <1>5
  <2>2. pc[h] = "using" /\ node[h] # None /\ node'[h] = node[h]
    BY <1>1, <1>5, <2>1
  <2>3. node[h] # node[f]
    BY <2>1, <2>2 DEF RouteExclusive
  <2>4. QED
    BY <1>3, <2>2, <2>3
<1>6. active' = {node'[h] : h \in {g \in Flow : pc'[g] = "using"}} \ {None}
  BY <1>4, <1>5
<1>7. QED
  BY <1>2, <1>6 DEF RouteExclusive

LEMMA RetryGoesDirect ==
  ASSUME TypeOK, NEW f \in Flow, NEW l, Retry(f, l)
  PROVE  node'[f] = None
BY DEF Retry, TypeOK

\* What the steps of a flow that uses no route do to the routes.
LEMMA Claiming ==
  ASSUME TypeOK, NEW f \in Flow, Step(f), pc[f] # "using"
  PROVE  \/ active' = active /\ (pc'[f] = "using" => node'[f] = None)
         \/ /\ pc'[f] = "using" /\ node'[f] = node[f] /\ node[f] # None
            /\ Free(node[f]) /\ active' = active \union {node[f]}
<1>1. CASE Acquire(f)
  BY <1>1 DEF Acquire, Goto, TypeOK
<1>2. CASE PickNode(f)
  <2>1. active' = active
    BY <1>2 DEF PickNode
  <2>2. pc'[f] # "using" \/ Retry(f, "pick")
    BY <1>2 DEF PickNode, Goto, TypeOK
  <2>3. QED
    BY <2>1, <2>2, RetryGoesDirect
<1>3. CASE ProbeNode(f)
  <2>1. active' = active
    BY <1>3 DEF ProbeNode
  <2>2. pc'[f] # "using" \/ Retry(f, "pick")
    BY <1>3 DEF ProbeNode, Goto, TypeOK
  <2>3. QED
    BY <2>1, <2>2, RetryGoesDirect
<1>4. CASE Checkout(f)
  <2>1. active' = active
    BY <1>4 DEF Checkout
  <2>2. pc'[f] # "using" \/ Retry(f, "checkout")
    BY <1>4 DEF Checkout, Goto, TypeOK
  <2>3. QED
    BY <2>1, <2>2, RetryGoesDirect
<1>5. CASE ProbeLease(f)
  <2>1. active' = active
    BY <1>5 DEF ProbeLease
  <2>2. pc'[f] # "using" \/ Retry(f, "checkout")
    BY <1>5 DEF ProbeLease, Goto, TypeOK
  <2>3. QED
    BY <2>1, <2>2, RetryGoesDirect
<1>6. CASE ClaimNode(f)
  <2>1. CASE Free(node[f])
    <3>1. /\ pc' = [pc EXCEPT ![f] = "using"] /\ node' = node
          /\ active' = active \union {node[f]} /\ pc[f] = "claim_node"
      BY <1>6, <2>1 DEF ClaimNode, Goto
    <3>2. QED
      BY <2>1, <3>1 DEF TypeOK, Probing
  <2>2. CASE ~Free(node[f])
    <3>1. active' = active /\ Retry(f, "pick")
      BY <1>6, <2>2 DEF ClaimNode
    <3>2. QED
      BY <3>1, RetryGoesDirect
  <2>3. QED
    BY <2>1, <2>2
<1>7. CASE ClaimLease(f)
  <2>1. CASE Free(node[f])
    <3>1. /\ pc' = [pc EXCEPT ![f] = "using"] /\ node' = node
          /\ active' = active \union {node[f]} /\ pc[f] = "claim_lease"
      BY <1>7, <2>1 DEF ClaimLease, Goto
    <3>2. QED
      BY <2>1, <3>1 DEF TypeOK, Probing
  <2>2. CASE ~Free(node[f])
    <3>1. active' = active /\ Retry(f, "checkout")
      BY <1>7, <2>2 DEF ClaimLease
    <3>2. QED
      BY <3>1, RetryGoesDirect
  <2>3. QED
    BY <2>1, <2>2
<1>8. ~Succeed(f) /\ ~Fail(f)
  BY DEF Succeed, Fail, Finalize
<1>9. QED
  BY <1>1, <1>2, <1>3, <1>4, <1>5, <1>6, <1>7, <1>8 DEF Step

LEMMA UsingIs ==
  ASSUME TypeOK, NEW f \in Flow, Step(f), pc[f] = "using"
  PROVE  \E success \in BOOLEAN : Finalize(f, success)
<1>1. Succeed(f) \/ Fail(f)
  BY DEF Step, Acquire, PickNode, ProbeNode, ClaimNode, Checkout, ProbeLease, ClaimLease
<1>2. QED
  BY <1>1 DEF Succeed, Fail

LEMMA NextRoutes ==
  ASSUME TypeOK, RouteExclusive, [Next]_vars
  PROVE  RouteExclusive'
<1>1. ASSUME NEW f \in Flow, Step(f), pc[f] # "using" PROVE RouteExclusive'
  <2>1. Only(f)
    BY <1>1, StepIs
  <2>2. CASE active' = active /\ (pc'[f] = "using" => node'[f] = None)
    BY <1>1, <2>1, <2>2, TakingUp
  <2>3. CASE /\ pc'[f] = "using" /\ node'[f] = node[f] /\ node[f] # None
             /\ Free(node[f]) /\ active' = active \union {node[f]}
    <3>1. node'[f] \notin active
      BY <2>3 DEF Free
    <3>2. QED
      BY <1>1, <2>1, <2>3, <3>1, TakingUp
  <2>4. QED
    BY <1>1, <2>2, <2>3, Claiming
<1>2. ASSUME NEW f \in Flow, Step(f), pc[f] = "using" PROVE RouteExclusive'
  <2>1. Only(f)
    BY <1>2, StepIs
  <2>2. PICK success \in BOOLEAN : Finalize(f, success)
    BY <1>2, UsingIs
  <2>3. pc'[f] = "idle" /\ active' = active \ {node[f]}
    BY <2>2 DEF Finalize, Goto, TypeOK
  <2>4. QED
    BY <1>2, <2>1, <2>3, Ending
<1>3. CASE Forgive
  BY <1>3 DEF Forgive, flowVars, RouteExclusive
<1>4. CASE Lapse
  BY <1>4 DEF Lapse, flowVars, RouteExclusive
<1>5. CASE Kill
  <2>1. \A f \in Flow : pc'[f] = "idle"
    BY <1>5 DEF Kill
  <2>2. active' = {}
    BY <1>5 DEF Kill
  <2>3. QED
    BY <2>1, <2>2 DEF RouteExclusive
<1>6. CASE UNCHANGED vars
  BY <1>6 DEF vars, flowVars, RouteExclusive
<1>7. QED
  BY <1>1, <1>2, <1>3, <1>4, <1>5, <1>6 DEF Next

\* A flow takes up a route that has not served another of late.
LEMMA NextTakesUp ==
  ASSUME TypeOK, [Next]_vars
  PROVE  NoRecentRoute
<1>1. ASSUME NEW f \in Flow, TakesUp(f), NEW g \in Flow, Step(g)
      PROVE  node'[f] \notin recent
  <2>1. Only(g)
    BY <1>1, StepIs
  <2>2. g = f
    BY <1>1, <2>1 DEF TakesUp, Only, TypeOK
  <2>3. Free(node'[f])
    BY <1>1, <2>2, Claiming DEF TakesUp
  <2>4. QED
    BY <2>3 DEF Free
<1>2. ASSUME NEW f \in Flow, TakesUp(f) PROVE ~Forgive /\ ~Lapse /\ ~Kill /\ ~(UNCHANGED vars)
  BY <1>2 DEF TakesUp, Forgive, Lapse, Kill, vars, flowVars
<1>3. QED
  BY <1>1, <1>2 DEF Next, NoRecentRoute

-----------------------------------------------------------------------------
(* The leases *)

LEMMA GrantedFinite ==
  TypeOK => IsFiniteSet(granted) /\ IsFiniteSet(Stranded) /\ Cardinality(Stranded) \in Nat
<1>1. SUFFICES ASSUME TypeOK
               PROVE  IsFiniteSet(granted) /\ IsFiniteSet(Stranded) /\ Cardinality(Stranded) \in Nat
  OBVIOUS
<1>2. issued \in Int /\ granted \in SUBSET (1 .. issued)
  <2>1. granted \subseteq 1 .. issued /\ issued \in 0 .. MaxLeases
    BY <1>1, TypeSays DEF SharedOK
  <2>2. QED
    BY <2>1
<1>3. IsFiniteSet(1 .. issued)
  BY <1>2, FS_Interval
<1>4. IsFiniteSet(granted)
  BY <1>2, <1>3, FS_Subset
<1>5. Stranded \in SUBSET granted
  BY DEF Stranded
<1>6. IsFiniteSet(Stranded)
  BY <1>4, <1>5, FS_Subset
<1>7. QED
  BY <1>4, <1>6, FS_CardinalityType

\* Where nothing else is stranded, no fault is needed; one more needs one.
LEMMA NoneMore ==
  ASSUME TypeOK, LeasesAccountedFor, Stranded' \subseteq Stranded, faults' = faults
  PROVE  LeasesAccountedFor'
<1>1. Cardinality(Stranded') <= Cardinality(Stranded)
  BY GrantedFinite, FS_Subset
<1>2. IsFiniteSet(Stranded')
  BY GrantedFinite, FS_Subset
<1>3. Cardinality(Stranded') \in Nat
  BY <1>2, FS_CardinalityType
<1>4. Cardinality(Stranded) \in Nat /\ faults \in Nat
  BY GrantedFinite DEF TypeOK
<1>5. Cardinality(Stranded) <= faults
  BY DEF LeasesAccountedFor, Stranded
<1>6. Cardinality(Stranded') <= faults'
  BY <1>1, <1>3, <1>4, <1>5
<1>7. QED
  BY <1>6 DEF LeasesAccountedFor, Stranded

LEMMA OneMore ==
  ASSUME TypeOK, LeasesAccountedFor, NEW l, Stranded' \subseteq Stranded \union {l}, Fault
  PROVE  LeasesAccountedFor'
<1>1. IsFiniteSet(Stranded \union {l})
  BY GrantedFinite, FS_AddElement
<1>2. Cardinality(Stranded \union {l}) <= Cardinality(Stranded) + 1
  <2>1. /\ IsFiniteSet(Stranded) /\ Cardinality(Stranded) \in Nat
    BY GrantedFinite
  <2>2. Cardinality(Stranded \union {l})
           = IF l \in Stranded THEN Cardinality(Stranded) ELSE Cardinality(Stranded) + 1
    BY <2>1, FS_AddElement
  <2>3. QED
    BY <2>1, <2>2
<1>3. IsFiniteSet(Stranded') /\ Cardinality(Stranded') <= Cardinality(Stranded \union {l})
  BY <1>1, FS_Subset
<1>4. Cardinality(Stranded') \in Nat /\ Cardinality(Stranded \union {l}) \in Nat
  BY <1>1, <1>3, FS_CardinalityType
<1>5. Cardinality(Stranded) \in Nat /\ faults \in Nat
  BY GrantedFinite DEF TypeOK
<1>6. Cardinality(Stranded) <= faults
  BY DEF LeasesAccountedFor, Stranded
<1>7. Cardinality(Stranded') <= faults'
  BY <1>2, <1>3, <1>4, <1>5, <1>6 DEF Fault
<1>8. QED
  BY <1>7 DEF LeasesAccountedFor, Stranded

LEMMA GivingBack ==
  ASSUME TypeOK, LeasesAccountedFor, NEW f \in Flow, GiveBack(f)
  PROVE  LeasesAccountedFor'
<1>1. \A g \in Flow : g # f => lease'[g] = lease[g]
  BY DEF GiveBack, TypeOK
<1>2. CASE granted' = granted \ {lease[f]} /\ UNCHANGED faults
  <2>1. Stranded' \subseteq Stranded
    BY <1>1, <1>2 DEF Stranded
  <2>2. QED
    BY <1>2, <2>1, NoneMore
<1>3. CASE UNCHANGED granted /\ Fault
  <2>1. Stranded' \subseteq Stranded \union {lease[f]}
    BY <1>1, <1>3 DEF Stranded
  <2>2. QED
    BY <1>3, <2>1, OneMore
<1>4. QED
  BY <1>2, <1>3 DEF GiveBack

LEMMA CheckingOut ==
  ASSUME TypeOK, LeasesAccountedFor, NEW f \in Flow, Checkout(f)
  PROVE  LeasesAccountedFor'
<1>1. lease[f] = 0
  BY DEF Checkout, TypeOK
<1>2. CASE UNCHANGED <<lease, granted, faults>>
  BY <1>2, NoneMore DEF Stranded
<1>3. CASE /\ granted' = granted \union {issued + 1}
           /\ lease' = [lease EXCEPT ![f] = issued + 1] /\ UNCHANGED faults
  <2>1. lease'[f] = issued + 1 /\ \A g \in Flow : g # f => lease'[g] = lease[g]
    BY <1>3 DEF TypeOK
  <2>2. 0 \notin granted
    BY DEF TypeOK
  <2>3. Stranded' \subseteq Stranded
    BY <1>1, <1>3, <2>1, <2>2 DEF Stranded
  <2>4. QED
    BY <1>3, <2>3, NoneMore
<1>4. CASE granted' = granted \union {issued + 1} /\ Fault /\ UNCHANGED lease
  <2>1. Stranded' \subseteq Stranded \union {issued + 1}
    BY <1>4 DEF Stranded
  <2>2. QED
    BY <1>4, <2>1, OneMore
<1>5. QED
  BY <1>2, <1>3, <1>4 DEF Checkout

\* A kill strands no more leases than there are flows that know of one.
LEMMA Killing ==
  ASSUME TypeOK, LeasesAccountedFor, Kill
  PROVE  LeasesAccountedFor'
<1> DEFINE Holder == {f \in Flow : lease[f] # 0}
           held == [f \in Holder |-> lease[f]]
           Held == {held[f] : f \in Holder}
<1>1. IsFiniteSet(Holder) /\ Cardinality(Holder) \in Nat
  <2>1. Holder \in SUBSET Flow
    OBVIOUS
  <2>2. QED
    BY <2>1, FS_Subset, FS_CardinalityType
<1>2. held \in Surjection(Holder, Held)
  BY DEF Surjection
<1>3. IsFiniteSet(Held) /\ Cardinality(Held) <= Cardinality(Holder)
  <2> HIDE DEF Holder, held, Held
  <2>1. QED
    BY <1>1, <1>2, FS_Surjection
<1>4. Stranded' \subseteq Stranded \union Held
  <2>1. granted' = granted /\ 0 \notin granted
    BY DEF Kill, TypeOK
  <2>2. ASSUME NEW l \in granted, l \notin Stranded PROVE l \in Held
    <3>1. PICK f \in Flow : l = lease[f]
      BY <2>2 DEF Stranded
    <3>2. f \in Holder /\ held[f] = l
      BY <2>1, <2>2, <3>1
    <3>3. QED
      BY <3>2
  <2>3. Stranded' \subseteq granted
    BY <2>1 DEF Stranded
  <2>4. QED
    BY <2>2, <2>3
<1>5. Cardinality(Holder) + faults = faults'
  <2>1. faults' = faults + Cardinality(Holder)
    BY DEF Kill
  <2>2. faults \in Nat
    BY DEF TypeOK
  <2>3. QED
    BY <1>1, <2>1, <2>2
<1> HIDE DEF Holder, held, Held
<1>6. /\ IsFiniteSet(Stranded \union Held)
      /\ Cardinality(Stranded \union Held) <= Cardinality(Stranded) + Cardinality(Held)
  <2>1. IsFiniteSet(Stranded) /\ Cardinality(Stranded) \in Nat
    BY GrantedFinite
  <2>2. Cardinality(Held) \in Nat
    BY <1>3, FS_CardinalityType
  <2>3. IsFiniteSet(Stranded \union Held)
    BY <1>3, <2>1, FS_Union
  <2>4. Cardinality(Stranded \union Held)
          = Cardinality(Stranded) + Cardinality(Held) - Cardinality(Stranded \cap Held)
    BY <1>3, <2>1, FS_Union
  <2>5. IsFiniteSet(Stranded \cap Held)
    <3>1. Stranded \cap Held \in SUBSET Stranded
      OBVIOUS
    <3>2. QED
      BY <2>1, <3>1, FS_Subset
  <2>6. Cardinality(Stranded \cap Held) \in Nat
    BY <2>5, FS_CardinalityType
  <2>7. QED
    BY <2>1, <2>2, <2>3, <2>4, <2>6
<1>7. IsFiniteSet(Stranded') /\ Cardinality(Stranded') <= Cardinality(Stranded \union Held)
  BY <1>4, <1>6, FS_Subset
<1>8. /\ Cardinality(Stranded') \in Nat /\ Cardinality(Stranded \union Held) \in Nat
      /\ Cardinality(Held) \in Nat
  BY <1>3, <1>6, <1>7, FS_CardinalityType
<1>9. Cardinality(Stranded) \in Nat /\ Cardinality(Stranded) <= faults /\ faults \in Nat
  BY GrantedFinite DEF LeasesAccountedFor, Stranded, TypeOK
<1>10. Cardinality(Stranded') <= faults'
  BY <1>1, <1>3, <1>5, <1>6, <1>7, <1>8, <1>9
<1>11. QED
  BY <1>10 DEF LeasesAccountedFor, Stranded

LEMMA NextLeases ==
  ASSUME TypeOK, LeasesAccountedFor, [Next]_vars
  PROVE  LeasesAccountedFor'
<1>1. CASE UNCHANGED <<lease, granted, faults>>
  BY <1>1, NoneMore DEF Stranded
<1>2. ASSUME NEW f \in Flow, Step(f) PROVE LeasesAccountedFor'
  <2>1. CASE Acquire(f) \/ PickNode(f) \/ ProbeNode(f) \/ ClaimNode(f)
    BY <1>1, <2>1 DEF Acquire, PickNode, ProbeNode, ClaimNode
  <2>2. CASE Checkout(f)
    BY <2>2, CheckingOut
  <2>3. CASE ProbeLease(f)
    BY <1>1, <2>3, GivingBack DEF ProbeLease, GiveBackCandidate
  <2>4. CASE ClaimLease(f)
    <3>1. UNCHANGED <<lease, granted, faults>> \/ GiveBack(f)
      BY <2>4 DEF ClaimLease, GiveBackCandidate
    <3>2. QED
      BY <1>1, <3>1, GivingBack
  <2>5. CASE Succeed(f) \/ Fail(f)
    BY <2>5, GivingBack DEF Succeed, Fail, Finalize
  <2>6. QED
    BY <1>2, <2>1, <2>2, <2>3, <2>4, <2>5 DEF Step
<1>3. CASE Forgive
  BY <1>1, <1>3 DEF Forgive, flowVars
<1>4. CASE Lapse
  <2>1. Stranded' \subseteq Stranded /\ faults' = faults
    BY <1>4 DEF Lapse, Stranded, flowVars
  <2>2. QED
    BY <2>1, NoneMore
<1>5. CASE Kill
  BY <1>5, Killing
<1>6. CASE UNCHANGED vars
  BY <1>1, <1>6 DEF vars, flowVars
<1>7. QED
  BY <1>2, <1>3, <1>4, <1>5, <1>6 DEF Next

-----------------------------------------------------------------------------
(* The theorems *)

LEMMA InitInv == Init => IInv
<1>1. SUFFICES ASSUME Init PROVE TypeOK /\ RouteExclusive /\ LeasesAccountedFor
  BY DEF IInv
<1>2. 0 \in 0 .. Attempts - 1 /\ 0 \in 0 .. MaxLeases /\ 0 \in 0 .. MaxFaults
  OBVIOUS
<1>3. TypeOK
  <2>1. /\ pc \in [Flow -> Label] /\ node \in [Flow -> Node \union {None}]
        /\ tried \in [Flow -> SUBSET Node]
    BY <1>1 DEF Init, Label
  <2>2. lease \in [Flow -> 0 .. MaxLeases] /\ tries \in [Flow -> 0 .. Attempts - 1]
    BY <1>1, <1>2 DEF Init
  <2>3. /\ active = {} /\ recent = {} /\ failed = {} /\ granted = {}
        /\ issued \in 0 .. MaxLeases /\ faults \in 0 .. MaxFaults
    BY <1>1, <1>2 DEF Init
  <2>4. \A f \in Flow : pc[f] = "idle" /\ node[f] = None /\ lease[f] = 0
    BY <1>1 DEF Init
  <2>5. QED
    BY <2>1, <2>2, <2>3, <2>4 DEF TypeOK, Probing
<1>4. RouteExclusive
  <2>1. active = {} /\ \A f \in Flow : pc[f] = "idle"
    BY <1>1 DEF Init
  <2>2. QED
    BY <2>1 DEF RouteExclusive
<1>5. LeasesAccountedFor
  <2>1. granted \ {lease[f] : f \in Flow} = {} /\ faults = 0
    BY <1>1 DEF Init
  <2>2. Cardinality({}) = 0
    BY FS_EmptySet
  <2>3. QED
    BY <2>1, <2>2 DEF LeasesAccountedFor
<1>6. QED
  BY <1>3, <1>4, <1>5

\* The types, the exclusive routes and the accounted leases are inductive
\* together: whatever step a flow, the time or a kill takes, all three survive it.
THEOREM ProxyInvariance == Spec => []IInv
<1>1. IInv /\ [Next]_vars => IInv'
  BY NextTypes, NextRoutes, NextLeases DEF IInv
<1>2. QED
  BY <1>1, InitInv, PTL DEF Spec

\* Every variable keeps its type, and only a flow that has a candidate or uses a
\* route knows of a node or a lease (acquire_flow_proxy_lease).
THEOREM TypesHold == Spec => []TypeOK
<1>1. IInv => TypeOK
  BY DEF IInv
<1>2. QED
  BY <1>1, ProxyInvariance, PTL

\* Two flows never use one route at once, although the lookup and the claim are
\* two critical sections with a probe in between.
THEOREM RoutesExclusive == Spec => []RouteExclusive
<1>1. IInv => RouteExclusive
  BY DEF IInv
<1>2. QED
  BY <1>1, ProxyInvariance, PTL

\* The leases that nobody will give back are no more than the calls that were
\* lost and the flows that were killed: no path of the code forgets one.
THEOREM LeasesAreAccountedFor == Spec => []LeasesAccountedFor
<1>1. IInv => LeasesAccountedFor
  BY DEF IInv
<1>2. QED
  BY <1>1, ProxyInvariance, PTL

\* No flow takes up a route that served another within the window, however long
\* it probed it before the claim.
THEOREM RecentRoutesRest == Spec => RecentNotReused
<1>1. TypeOK /\ [Next]_vars => [NoRecentRoute]_vars
  BY NextTakesUp
<1>2. QED
  BY <1>1, TypesHold, PTL DEF Spec, RecentNotReused
=============================================================================

----------------------------- MODULE ProxyLease -----------------------------
(***************************************************************************)
(* The proxy routes of the Python provider: others/runtime.py takes a node *)
(* at random or a lease from EasyProxy for each flow of a process, probes  *)
(* it, and gives it back when the flow is over.  The flows of one process  *)
(* share the routes in use and the ones that succeeded or failed of late;  *)
(* those sets are read, and the route claimed, in two critical sections    *)
(* with network calls between them.                                        *)
(***************************************************************************)
EXTENDS Naturals, FiniteSets

CONSTANTS
  Flow,       \* the flows of a process
  None,       \* no route: a direct connection
  Node,       \* the routes EasyProxy can offer
  Mode,       \* _resolve_easy_proxy_mode
  Required,   \* REGISTER_REQUIRE_EASY_PROXY
  Attempts,   \* _resolve_easy_proxy_unique_attempts
  MaxLeases,  \* bound on the leases EasyProxy grants
  MaxFaults   \* bound on the calls whose effect is lost, and on the leases a kill strands

ASSUME ProxyAssumption ==
  /\ IsFiniteSet(Flow) /\ IsFiniteSet(Node) /\ None \notin Node
  /\ Mode \in {"auto", "random-node", "lease"} /\ Required \in BOOLEAN
  /\ Attempts \in Nat \ {0}
ASSUME ProxyBoundAssumption == MaxLeases \in Nat /\ MaxFaults \in Nat

VARIABLES
  pc,        \* where each flow is
  node,      \* the route it tries or uses; None for a direct connection
  lease,     \* the lease it knows of, 0 for none
  tried,     \* attempted_proxy_urls
  tries,     \* the attempts of this kind so far
  active,    \* _ACTIVE_FLOW_PROXY_URLS
  recent,    \* _RECENT_FLOW_PROXY_URLS
  failed,    \* _FAILED_FLOW_PROXY_URLS
  granted,   \* EasyProxy: the leases that are out
  issued,    \* EasyProxy: how many it has granted
  faults     \* the calls that were lost

flowVars == <<pc, node, lease, tried, tries>>
vars == <<flowVars, active, recent, failed, granted, issued, faults>>

Init ==
  /\ pc = [f \in Flow |-> "idle"] /\ node = [f \in Flow |-> None]
  /\ lease = [f \in Flow |-> 0] /\ tried = [f \in Flow |-> {}] /\ tries = [f \in Flow |-> 0]
  /\ active = {} /\ recent = {} /\ failed = {}
  /\ granted = {} /\ issued = 0 /\ faults = 0

Goto(f, l) == pc' = [pc EXCEPT ![f] = l]
Fault == faults < MaxFaults /\ faults' = faults + 1

\* release_lease swallows every error: the release happens, or it is lost.  A
\* flow that knows of no lease has none to release.
GiveBack(f) ==
  /\ lease' = [lease EXCEPT ![f] = 0]
  /\ \/ granted' = granted \ {lease[f]} /\ UNCHANGED faults
     \/ lease[f] \in granted /\ UNCHANGED granted /\ Fault

-----------------------------------------------------------------------------
(* acquire_flow_proxy_lease *)

Acquire(f) ==
  /\ pc[f] = "idle"
  /\ Goto(f, IF Mode = "lease" THEN "checkout" ELSE "pick")
  /\ tries' = [tries EXCEPT ![f] = 0] /\ tried' = [tried EXCEPT ![f] = {}]
  /\ UNCHANGED <<node, lease, active, recent, failed, granted, issued, faults>>

\* An attempt failed: another one of its kind, a lease after the random nodes,
\* and in the end a direct connection, or an error where a proxy is required.
After(f, l) ==
  IF tries[f] + 1 < Attempts THEN l
  ELSE IF l = "pick" /\ Mode = "auto" THEN "checkout"
  ELSE IF Required THEN "idle" ELSE "using"
Retry(f, l) ==
  /\ Goto(f, After(f, l))
  /\ node' = [node EXCEPT ![f] = None]
  /\ tries' = [tries EXCEPT ![f] = IF After(f, l) = l THEN @ + 1 ELSE 0]

\* checkout_random_node_proxy, which leaves out what it was told to.
Excluded(f) == active \union recent \union failed \union tried[f]

PickNode(f) ==
  /\ pc[f] = "pick"
  /\ \/ \E n \in Node \ Excluded(f) :
          /\ node' = [node EXCEPT ![f] = n] /\ tried' = [tried EXCEPT ![f] = @ \union {n}]
          /\ Goto(f, "probe_node")
          /\ UNCHANGED tries
     \/ Retry(f, "pick") /\ UNCHANGED tried
  /\ UNCHANGED <<lease, active, recent, failed, granted, issued, faults>>

\* _classify_easy_proxy_error: whether an error is held against the route.
MarkFailed(n) == failed' \in {failed, failed \union ({n} \ {None})}

ProbeNode(f) ==
  /\ pc[f] = "probe_node"
  /\ \/ Goto(f, "claim_node") /\ UNCHANGED <<node, tries, failed>>
     \/ Retry(f, "pick") /\ MarkFailed(node[f])
  /\ UNCHANGED <<lease, tried, active, recent, granted, issued, faults>>

\* The route is looked up again under the lock before it is claimed.
AlwaysFree(n) == TRUE   \* mutant
FreeIfUnused(n) == n \notin active   \* mutant
Free(n) == n \notin active \union recent

ClaimNode(f) ==
  /\ pc[f] = "claim_node"
  /\ IF Free(node[f])
       THEN /\ active' = active \union {node[f]} /\ Goto(f, "using")
            /\ UNCHANGED <<node, tries>>
       ELSE Retry(f, "pick") /\ UNCHANGED active
  /\ UNCHANGED <<lease, tried, recent, failed, granted, issued, faults>>

\* checkout_proxy: a lease on any node; no lease; or a lease that the client
\* does not learn of, because the answer is lost or _validate_checkout_lease
\* does not like it.
Checkout(f) ==
  /\ pc[f] = "checkout"
  /\ \/ \E n \in Node :
          /\ issued < MaxLeases /\ issued' = issued + 1
          /\ granted' = granted \union {issued + 1}
          /\ \/ /\ lease' = [lease EXCEPT ![f] = issued + 1]
                /\ node' = [node EXCEPT ![f] = n] /\ Goto(f, "probe_lease")
                /\ UNCHANGED <<tries, faults>>
             \/ Fault /\ Retry(f, "checkout") /\ UNCHANGED lease
     \/ Retry(f, "checkout") /\ UNCHANGED <<lease, granted, issued, faults>>
  /\ UNCHANGED <<tried, active, recent, failed>>

ForgetLease(f) ==   \* mutant
  lease' = [lease EXCEPT ![f] = 0] /\ UNCHANGED <<granted, faults>>
\* The exception handler reports and releases the candidate.
GiveBackCandidate(f) == GiveBack(f)

ProbeLease(f) ==
  /\ pc[f] = "probe_lease"
  /\ \/ Goto(f, "claim_lease") /\ UNCHANGED <<node, tries, lease, granted, faults>>
     \/ Retry(f, "checkout") /\ GiveBackCandidate(f)
  /\ UNCHANGED <<tried, active, recent, failed, issued>>

ClaimLease(f) ==
  /\ pc[f] = "claim_lease"
  /\ IF Free(node[f])
       THEN /\ active' = active \union {node[f]} /\ Goto(f, "using")
            /\ UNCHANGED <<node, tries, lease, granted, faults>>
       ELSE Retry(f, "checkout") /\ GiveBackCandidate(f) /\ UNCHANGED active
  /\ UNCHANGED <<tried, recent, failed, issued>>

-----------------------------------------------------------------------------
(* lease_flow_proxy: the flow ends, or raises *)

\* FlowProxyLease.finalize; None stands for a lease without a unique_key.
Finalize(f, success) ==
  /\ pc[f] = "using" /\ Goto(f, "idle")
  /\ GiveBack(f)
  /\ node' = [node EXCEPT ![f] = None]
  /\ active' = active \ {node[f]}
  /\ recent' = IF success THEN recent \union ({node[f]} \ {None}) ELSE recent
  /\ UNCHANGED <<tried, tries, issued>>

Succeed(f) == Finalize(f, TRUE) /\ UNCHANGED failed
Fail(f) == Finalize(f, FALSE) /\ MarkFailed(node[f])

-----------------------------------------------------------------------------
(* Time and the outside world *)

\* The windows of _purge_recent_flow_proxy_cache and _purge_failed_flow_proxy_cache
Forgive ==
  /\ \E n \in recent \union failed :
       \/ recent' = recent \ {n} /\ UNCHANGED failed
       \/ failed' = failed \ {n} /\ UNCHANGED recent
  /\ UNCHANGED <<flowVars, active, granted, issued, faults>>

\* EasyProxy ends a lease after ttlMinutes, whether it is in use or not.
Lapse ==
  /\ \E l \in granted : granted' = granted \ {l}
  /\ UNCHANGED <<flowVars, active, recent, failed, issued, faults>>

\* The process is killed with all its flows; what it leased stays leased.
Kill ==
  /\ faults + Cardinality({f \in Flow : lease[f] # 0}) <= MaxFaults
  /\ faults' = faults + Cardinality({f \in Flow : lease[f] # 0})
  /\ pc' = [f \in Flow |-> "idle"] /\ node' = [f \in Flow |-> None]
  /\ lease' = [f \in Flow |-> 0] /\ tried' = [f \in Flow |-> {}] /\ tries' = [f \in Flow |-> 0]
  /\ active' = {} /\ recent' = {} /\ failed' = {}
  /\ UNCHANGED <<granted, issued>>

Step(f) ==
  \/ Acquire(f) \/ PickNode(f) \/ ProbeNode(f) \/ ClaimNode(f)
  \/ Checkout(f) \/ ProbeLease(f) \/ ClaimLease(f) \/ Succeed(f) \/ Fail(f)

Next == (\E f \in Flow : Step(f)) \/ Forgive \/ Lapse \/ Kill

Spec == Init /\ [][Next]_vars

-----------------------------------------------------------------------------
Label == {"idle", "pick", "probe_node", "claim_node", "checkout", "probe_lease",
          "claim_lease", "using"}
Probing == {"probe_node", "claim_node", "probe_lease", "claim_lease"}

\* Every variable keeps its type, and only a flow that has a candidate or uses
\* a route knows of a node or a lease.
TypeOK ==
  /\ pc \in [Flow -> Label] /\ node \in [Flow -> Node \union {None}]
  /\ lease \in [Flow -> 0 .. MaxLeases]
  /\ tried \in [Flow -> SUBSET Node] /\ tries \in [Flow -> 0 .. Attempts - 1]
  /\ active \subseteq Node /\ recent \subseteq Node /\ failed \subseteq Node
  /\ issued \in 0 .. MaxLeases /\ granted \subseteq 1 .. issued
  /\ faults \in 0 .. MaxFaults
  /\ \A f \in Flow : /\ pc[f] \in Probing => node[f] # None
                     /\ node[f] # None => pc[f] \in Probing \union {"using"}
                     /\ lease[f] # 0 => pc[f] \in {"probe_lease", "claim_lease", "using"}

\* Two flows of a process never use one route at the same time, although each
\* looks for a free one long before it claims it (acquire_flow_proxy_lease), and
\* a route that is in use is known to be.
RouteExclusive ==
  /\ \A f, g \in Flow :
       pc[f] = "using" /\ pc[g] = "using" /\ node[f] = node[g] /\ node[f] # None => f = g
  /\ active = {node[f] : f \in {g \in Flow : pc[g] = "using"}} \ {None}

\* Every lease that is out is known to a flow that will give it back, but for
\* one per call that was lost, unusable lease or flow that was killed
\* (_try_compat_checkout, finalize).
LeasesAccountedFor ==
  Cardinality(granted \ {lease[f] : f \in Flow}) <= faults

\* No flow takes up a route that served another within the window, however long
\* it has been probing it (_RECENT_FLOW_PROXY_URLS).
TakesUp(f) == pc[f] # "using" /\ pc'[f] = "using" /\ node'[f] # None
NoRecentRoute == \A f \in Flow : TakesUp(f) => node'[f] \notin recent
RecentNotReused == [][NoRecentRoute]_vars
=============================================================================

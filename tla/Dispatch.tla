------------------------------ MODULE Dispatch ------------------------------
(***************************************************************************)
(* One request's way through the gateway: server.handleRequest admits it,  *)
(* Dispatcher.Dispatch refreshes the registry, lets the resolver choose a  *)
(* service, calls it and falls back to the next one, while                 *)
(* cooling.Manager, stats.Manager and registry.Registry, each behind a     *)
(* mutex of its own, are shared by all requests and by the operator.       *)
(* Services are numbers, in the order of their names.  A definition marked *)
(* "mutant" is a bug the code does not have: the model does not use it.    *)
(***************************************************************************)
EXTENDS Naturals, FiniteSets, Sequences

CONSTANTS
  Request,       \* the goroutines that serve a client each
  Services,      \* how many services there are
  Pool,          \* the services behind the container pool
  Preferred,     \* PreferredServicesByOperation, a sequence
  Balance,       \* whether the selector is "balance"
  Fallback,      \* policy.AllowFallback
  MaxAttempts,   \* policy.MaxFallbackAttempts
  Retryable,     \* policy.RetryableCategories
  Attribution,   \* whether error attribution is enabled
  Threshold,     \* cooling.Manager.threshold
  CoolFor,       \* cooling.Manager.duration, in ticks
  Silent,        \* the services whose providers may be down at first
  MaxClock,      \* bound on the clock
  MaxChanges     \* bound on what operators and providers do

Service == 1 .. Services
\* The categories, one for those that count toward cooling (delegation,
\* transport and timeout errors) and one for those that do not.
Category == {"transport_error", "service_runtime_error"}
Counted == {"transport_error"}   \* attribution.CountsTowardCooling

ASSUME ServiceAssumption ==
  /\ Services \in Nat \ {0} /\ Pool \subseteq Service /\ Silent \subseteq Service
  /\ IsFiniteSet(Request) /\ Preferred \in Seq(Service)
ASSUME PolicyAssumption ==   \* what config.Normalize establishes
  /\ Balance \in BOOLEAN /\ Fallback \in BOOLEAN /\ Attribution \in BOOLEAN
  /\ MaxAttempts \in Nat \ {0} /\ Threshold \in Nat \ {0} /\ CoolFor \in Nat \ {0}
  /\ Retryable \subseteq Category
ASSUME BoundAssumption == MaxClock \in Nat \ {0} /\ MaxChanges \in Nat

VARIABLES
  registered,    \* the services in the registry
  enabled,       \* ... with Enabled
  unhealthy,     \* ... with HealthKnown and not Healthy
  load,          \* stats: ActiveRequests
  fails,         \* cooling: FailureCount
  until,         \* cooling: CooledUntil, 0 while not Cooled
  maintenance,   \* the public surface's switch
  pc,            \* where each request is
  todo,          \* the services RefreshAll has yet to probe
  asked,         \* requested_service, 0 in strategy mode
  chain, at,     \* attemptOrder and the position of the attempt
  since,         \* Dispatch's now, read before the attempt
  outcome,       \* how the attempt ended
  gone,          \* the requests whose client has hung up: r.Context() is done
  up,            \* the providers that answer /health
  clock, changes,
  wiped          \* history: an operator has reset the statistics

registryVars == <<registered, enabled, unhealthy>>
coolingVars == <<fails, until>>
requestVars == <<pc, todo, asked, chain, at, since, outcome>>
worldVars == <<gone, up, clock, changes>>
vars == <<registryVars, load, coolingVars, maintenance, requestVars, worldVars, wiped>>

Goto(r, l) == pc' = [pc EXCEPT ![r] = l]

\* The answer is written and the request's variables go out of scope.
Return(r) ==
  /\ Goto(r, "idle")
  /\ asked' = [asked EXCEPT ![r] = 0]
  /\ chain' = [chain EXCEPT ![r] = <<>>] /\ at' = [at EXCEPT ![r] = 0]
  /\ since' = [since EXCEPT ![r] = 0] /\ outcome' = [outcome EXCEPT ![r] = "none"]
  /\ gone' = gone \ {r}

Init ==
  /\ registered \in {S \in SUBSET Service : Service \ Pool \subseteq S}
  /\ enabled = registered /\ unhealthy = {}
  /\ load = [s \in Service |-> 0]
  /\ fails = [s \in Service |-> 0] /\ until = [s \in Service |-> 0]
  /\ maintenance = FALSE
  /\ pc = [r \in Request |-> "idle"]
  /\ todo = [r \in Request |-> {}]
  /\ asked = [r \in Request |-> 0]
  /\ chain = [r \in Request |-> <<>>] /\ at = [r \in Request |-> 0]
  /\ since = [r \in Request |-> 0] /\ outcome = [r \in Request |-> "none"]
  /\ gone = {} /\ up \in {Service \ S : S \in SUBSET Silent} /\ clock = 1 /\ changes = 0
  /\ wiped = FALSE

-----------------------------------------------------------------------------
(* Admission and RefreshAll *)

\* handleRequest looks at the switch once, before Dispatch.
AlwaysOpen == TRUE   \* mutant
Open == ~maintenance

Admit(r) ==
  /\ pc[r] = "idle" /\ Open
  /\ \E s \in Service \union {0} : asked' = [asked EXCEPT ![r] = s]
  /\ todo' = [todo EXCEPT ![r] = registered]
  /\ Goto(r, "refresh")
  /\ UNCHANGED <<registryVars, load, coolingVars, maintenance,
                 chain, at, since, outcome, worldVars, wiped>>

\* The services of registry.List, in order.
First(S) == CHOOSE s \in S : \A t \in S : s <= t

\* The provider answers both requests of RefreshService, or one fails.
Probe(r) ==
  /\ pc[r] = "refresh" /\ todo[r] # {}
  /\ IF First(todo[r]) \in registered
       THEN /\ Goto(r, IF r \notin gone /\ First(todo[r]) \in up THEN "healthy" ELSE "sick")
            /\ UNCHANGED todo
       ELSE /\ todo' = [todo EXCEPT ![r] = @ \ {First(@)}]   \* service not found
            /\ UNCHANGED pc
  /\ UNCHANGED <<registryVars, load, coolingVars, maintenance,
                 asked, chain, at, since, outcome, worldVars, wiped>>

\* registry.UpdateHealth does nothing for a service that has left.
OnlyBadNews(s, ok) == IF ok THEN unhealthy ELSE unhealthy \union ({s} \intersect registered)   \* mutant
HealthAfter(s, ok) == IF ok THEN unhealthy \ {s} ELSE unhealthy \union ({s} \intersect registered)

UpdateHealth(r) ==
  /\ pc[r] \in {"healthy", "sick"}
  /\ unhealthy' = HealthAfter(First(todo[r]), pc[r] = "healthy")
  /\ todo' = [todo EXCEPT ![r] = @ \ {First(@)}]
  /\ Goto(r, "refresh")
  /\ UNCHANGED <<registered, enabled, load, coolingVars, maintenance,
                 asked, chain, at, since, outcome, worldVars, wiped>>

-----------------------------------------------------------------------------
(* Resolver.Preview and attemptOrder *)

\* currentLocked: a cooldown is over at its instant; a tick is no instant, so
\* the clock that has reached it is past it.
Current(s, t) == IF t >= until[s] THEN 0 ELSE until[s]

EligibleAnyway == {s \in registered : s \in enabled /\ s \notin unhealthy}   \* mutant
Eligible ==
  {s \in registered : s \in enabled /\ s \notin unhealthy /\ Current(s, clock) = 0}

IsPreferred(s) == \E i \in 1 .. Len(Preferred) : Preferred[i] = s
Prefers(s, t) ==
  \E i \in 1 .. Len(Preferred) : Preferred[i] = s /\ \A j \in 1 .. i : Preferred[j] # t

\* sortedCandidates.
LessLoaded(s, t) == load[s] < load[t] \/ (load[s] = load[t] /\ s < t)

\* ... and orderWithPreference after it.
Before(s, t) ==
  \/ Prefers(s, t)
  \/ ~IsPreferred(s) /\ ~IsPreferred(t) /\ LessLoaded(s, t)

Sorted(S) ==
  {f \in [1 .. Cardinality(S) -> S] : \A i, j \in 1 .. Cardinality(S) : i < j => Before(f[i], f[j])}

\* The position Selector.Select takes: its counter or its dice may be anywhere.
Selected(f) ==
  IF IsPreferred(f[1]) THEN {1}
  ELSE {k \in DOMAIN f : Balance => load[f[k]] = load[f[1]]}

\* attemptOrder: the selected service, then the fallback chain without it.
MoveToFront(f, k) ==
  [i \in 1 .. Len(f) |-> IF i = 1 THEN f[k] ELSE IF i <= k THEN f[i - 1] ELSE f[i]]

Chains(r) ==
  IF asked[r] # 0 THEN {<<asked[r]>>}
  ELSE UNION {{MoveToFront(f, k) : k \in Selected(f)} : f \in Sorted(Eligible)}

\* IsCooled writes back the state it finds, for every service.
Route(r) ==
  /\ pc[r] = "refresh" /\ todo[r] = {}
  /\ IF asked[r] = 0 THEN Eligible # {} ELSE asked[r] \in Eligible
  /\ \E c \in Chains(r) : chain' = [chain EXCEPT ![r] = c]
  /\ at' = [at EXCEPT ![r] = 1]
  /\ until' = [s \in Service |-> IF s \in registered THEN Current(s, clock) ELSE until[s]]
  /\ Goto(r, "attempt")
  /\ UNCHANGED <<registryVars, load, fails, maintenance,
                 todo, asked, since, outcome, worldVars, wiped>>

\* resolution_failed: the client hears of it at once.
RouteFails(r) ==
  /\ pc[r] = "refresh" /\ todo[r] = {}
  /\ IF asked[r] = 0 THEN Eligible = {} ELSE asked[r] \notin Eligible
  /\ until' = [s \in Service |-> IF s \in registered THEN Current(s, clock) ELSE until[s]]
  /\ Return(r)
  /\ UNCHANGED <<registryVars, load, fails, maintenance, todo, up, clock, changes, wiped>>

-----------------------------------------------------------------------------
(* The attempts *)

Target(r) == chain[r][at[r]]

\* stats.Begin, after now was read.
Begin(r) ==
  /\ pc[r] = "attempt"
  /\ since' = [since EXCEPT ![r] = clock]
  /\ load' = [load EXCEPT ![Target(r)] = @ + 1]
  /\ Goto(r, "calling")
  /\ UNCHANGED <<registryVars, coolingVars, maintenance,
                 todo, asked, chain, at, outcome, worldVars, wiped>>

\* How transport.Call can end: a result, no or a bad answer, or an error that
\* does not count (the provider's own, no lease, a child that is gone).  The
\* context of a client that has hung up ends the call, in a lease's wait with
\* an error that does not count, in the HTTP client as a transport error.
Outcomes(r) ==
  IF r \notin gone THEN {"ok"} \union Category
  ELSE {"hung_up"} \union (IF Target(r) \in Pool THEN {"service_runtime_error"} ELSE {})

Answer(r) ==
  /\ pc[r] = "calling"
  /\ \E o \in Outcomes(r) : outcome' = [outcome EXCEPT ![r] = o]
  /\ Goto(r, "recording")
  /\ UNCHANGED <<registryVars, load, coolingVars, maintenance,
                 todo, asked, chain, at, since, worldVars, wiped>>

CategoryOf(r) == IF outcome[r] = "hung_up" THEN "transport_error" ELSE outcome[r]

CountsTowardCooling(r) == Attribution /\ CategoryOf(r) \in Counted

\* RecordFailure and RecordSuccess, at the time the attempt began.
RecordFailure(s, t, counts) ==
  IF counts /\ fails[s] + 1 >= Threshold
    THEN /\ fails' = [fails EXCEPT ![s] = 0]
         /\ until' = [until EXCEPT ![s] = t + CoolFor]
    ELSE /\ fails' = [fails EXCEPT ![s] = IF counts THEN @ + 1 ELSE @]
         /\ until' = [until EXCEPT ![s] = Current(s, t)]

SuccessLiftsCooldown(s, t) ==   \* mutant
  /\ fails' = [fails EXCEPT ![s] = 0]
  /\ until' = [until EXCEPT ![s] = 0]
RecordSuccess(s, t) ==
  /\ fails' = [fails EXCEPT ![s] = 0]
  /\ until' = [until EXCEPT ![s] = Current(s, t)]

RecordCooling(r) ==
  /\ pc[r] = "recording"
  /\ IF outcome[r] = "ok" THEN RecordSuccess(Target(r), since[r])
     ELSE RecordFailure(Target(r), since[r], CountsTowardCooling(r))
  /\ Goto(r, "ending")
  /\ UNCHANGED <<registryVars, load, maintenance,
                 todo, asked, chain, at, since, outcome, worldVars, wiped>>

\* stats.EndSuccess or stats.EndFailure.
Unload(r) == load' = [load EXCEPT ![Target(r)] = IF @ > 0 THEN @ - 1 ELSE @]
OnlySuccessUnloads(r) == IF outcome[r] = "ok" THEN Unload(r) ELSE UNCHANGED load   \* mutant
EndAttempt(r) == Unload(r)

\* shouldRetry; the sequence attemptOrder returned has been cut as well.
ShouldRetry(r) ==
  /\ asked[r] = 0 /\ Fallback
  /\ Attribution /\ CategoryOf(r) \in Retryable
  /\ at[r] < MaxAttempts /\ at[r] < Len(chain[r])

SameAttempt(i) == i   \* mutant
Following(i) == i + 1

\* A failure that counts ends with a last look, IsCooled, which writes back too.
LastLook(r) ==
  IF outcome[r] # "ok" /\ CountsTowardCooling(r)
    THEN until' = [until EXCEPT ![Target(r)] = Current(Target(r), since[r])]
    ELSE UNCHANGED until

End(r) ==
  /\ pc[r] = "ending"
  /\ EndAttempt(r) /\ LastLook(r)
  /\ \/ /\ ShouldRetry(r)
        /\ at' = [at EXCEPT ![r] = Following(@)]
        /\ since' = [since EXCEPT ![r] = 0] /\ outcome' = [outcome EXCEPT ![r] = "none"]
        /\ Goto(r, "attempt")
        /\ UNCHANGED <<asked, chain, gone>>
     \/ /\ ~ShouldRetry(r)
        /\ Return(r)
  /\ UNCHANGED <<registryVars, fails, maintenance, todo, up, clock, changes, wiped>>

RequestStep(r) ==
  \/ Probe(r) \/ UpdateHealth(r) \/ Route(r) \/ RouteFails(r)
  \/ Begin(r) \/ Answer(r) \/ RecordCooling(r) \/ End(r)

-----------------------------------------------------------------------------
(* Operators, the container pool and the providers *)

Change == changes < MaxChanges /\ changes' = changes + 1

\* handleServiceAction: enable, disable.
SetEnabled(s) ==
  /\ s \in registered /\ Change
  /\ enabled' \in {enabled \union {s}, enabled \ {s}}
  /\ UNCHANGED <<registered, unhealthy, load, coolingVars, maintenance, requestVars, gone, up, clock, wiped>>

ResetHealth(s) ==
  /\ s \in registered /\ Change
  /\ unhealthy' = unhealthy \ {s}
  /\ UNCHANGED <<registered, enabled, load, coolingVars, maintenance, requestVars, gone, up, clock, wiped>>

\* handleCoolingReset, of one service or of all.
ResetCooling(S) ==
  /\ Change
  /\ fails' = [s \in Service |-> IF s \in S THEN 0 ELSE fails[s]]
  /\ until' = [s \in Service |-> IF s \in S THEN 0 ELSE until[s]]
  /\ UNCHANGED <<registryVars, load, maintenance, requestVars, gone, up, clock, wiped>>

\* handleStatsReset: the gauges go too.
ResetStats(S) ==
  /\ Change
  /\ load' = [s \in Service |-> IF s \in S THEN 0 ELSE load[s]]
  /\ wiped' = TRUE
  /\ UNCHANGED <<registryVars, coolingVars, maintenance, requestVars, gone, up, clock>>

SwitchMaintenance ==
  /\ Change
  /\ maintenance' = ~maintenance
  /\ UNCHANGED <<registryVars, load, coolingVars, requestVars, gone, up, clock, wiped>>

\* The container pool registers and removes its children.
Registers(s) ==
  /\ s \in Pool \ registered /\ Change
  /\ registered' = registered \union {s}
  /\ enabled' = enabled \union {s}
  /\ unhealthy' = unhealthy \ {s}
  /\ UNCHANGED <<load, coolingVars, maintenance, requestVars, gone, up, clock, wiped>>

Removes(s) ==
  /\ s \in Pool \intersect registered /\ Change
  /\ registered' = registered \ {s} /\ enabled' = enabled \ {s} /\ unhealthy' = unhealthy \ {s}
  /\ UNCHANGED <<load, coolingVars, maintenance, requestVars, gone, up, clock, wiped>>

ProviderTurns(s) ==
  /\ Change
  /\ up' \in {up \union {s}, up \ {s}}
  /\ UNCHANGED <<registryVars, load, coolingVars, maintenance, requestVars, gone, clock, wiped>>

\* net/http ends the request's context when the client closes the connection.
HangUp(r) ==
  /\ pc[r] # "idle" /\ r \notin gone /\ Change
  /\ gone' = gone \union {r}
  /\ UNCHANGED <<registryVars, load, coolingVars, maintenance, requestVars, up, clock, wiped>>

Tick ==
  /\ clock < MaxClock /\ clock' = clock + 1
  /\ UNCHANGED <<registryVars, load, coolingVars, maintenance, requestVars, gone, up, changes, wiped>>

Scopes == {{s} : s \in Service} \union {Service}

Next ==
  \/ \E r \in Request : Admit(r) \/ RequestStep(r) \/ HangUp(r)
  \/ \E s \in Service : SetEnabled(s) \/ ResetHealth(s) \/ Registers(s) \/ Removes(s) \/ ProviderTurns(s)
  \/ \E S \in Scopes : ResetCooling(S) \/ ResetStats(S)
  \/ SwitchMaintenance \/ Tick

Spec == Init /\ [][Next]_vars

\* A request's goroutine runs on; the refresher's client gives up after five
\* seconds, the transport's after ten minutes, Acquire at its deadline.
FairSpec == Spec /\ \A r \in Request : WF_vars(RequestStep(r))

-----------------------------------------------------------------------------
(* Properties *)

Called(r) == pc[r] \in {"calling", "recording", "ending"}
Routed(r) == pc[r] = "attempt" \/ Called(r)
Calls(s) == {r \in Request : Called(r) /\ Target(r) = s}

Stage == {"idle", "refresh", "healthy", "sick", "attempt", "calling", "recording", "ending"}

\* Every variable has its type; the failure counter stays below the threshold.
TypeOK ==
  /\ registered \subseteq Service /\ enabled \subseteq registered
  /\ unhealthy \subseteq registered
  /\ load \in [Service -> Nat]
  /\ fails \in [Service -> 0 .. (Threshold - 1)]
  /\ until \in [Service -> 0 .. (MaxClock + CoolFor)]
  /\ maintenance \in BOOLEAN
  /\ pc \in [Request -> Stage] /\ todo \in [Request -> SUBSET Service]
  /\ asked \in [Request -> 0 .. Services] /\ chain \in [Request -> Seq(Service)]
  /\ since \in [Request -> 0 .. MaxClock] /\ at \in [Request -> 0 .. Services]
  /\ outcome \in [Request -> Category \union {"none", "ok", "hung_up"}]
  /\ gone \subseteq Request /\ up \subseteq Service
  /\ clock \in 1 .. MaxClock /\ changes \in 0 .. MaxChanges
  /\ wiped \in BOOLEAN

\* The gauge the selector and the drain summary read is the number of calls
\* in flight, whatever order the attempts begin and end in; after a reset of
\* the statistics it may be too low and is never too high.
LoadCountsCalls ==
  \A s \in Service :
    /\ load[s] <= Cardinality(Calls(s))
    /\ ~wiped => load[s] = Cardinality(Calls(s))

\* A request meets no service twice and no more of them than the policy
\* allows; one in specified mode meets the service it asked for and no other.
AttemptsBounded ==
  \A r \in Request : Routed(r) =>
    /\ at[r] \in 1 .. Len(chain[r]) /\ at[r] <= MaxAttempts
    /\ \A i, j \in 1 .. at[r] : chain[r][i] = chain[r][j] => i = j
    /\ asked[r] # 0 => chain[r] = <<asked[r]>>

CutShort(s) ==   \* by a failure that fills the counter
  \E r \in Request : /\ pc[r] = "recording" /\ Target(r) = s /\ CountsTowardCooling(r)
                     /\ outcome[r] # "ok" /\ until'[s] = since[r] + CoolFor
CooldownKept ==
  \A s \in Service : until[s] > clock /\ changes' = changes => until'[s] = until[s] \/ CutShort(s)

\* A cooldown ends by time or by the operator's hand: no call that began before
\* it and succeeds late cuts it short.  A late failure may, when it fills the
\* counter again: the window is counted from the moment that call began.
CooldownHolds == [][CooldownKept]_vars

\* The services a request may still call.
Ahead(r) == IF Routed(r) THEN {chain[r][i] : i \in at[r] .. Len(chain[r])} ELSE {}

\* Seen at the present moment, cooling is a circuit breaker: what is written late
\* or lazily, by a look at a state that is out of date or by the write-back of a
\* cooldown that is over, changes nothing that a request can see, and no request
\* is routed to a service that cools (cooling.Manager, Resolver.Preview).
Breaker ==
  INSTANCE CircuitBreaker WITH
    Client <- Request, strikes <- fails,
    ends <- [s \in Service |-> Current(s, clock)],
    given <- [r \in Request |-> Ahead(r)]
BreakerSpec == Breaker!Spec

-----------------------------------------------------------------------------

\* Every admitted request is answered, whatever fails and however often it
\* falls back.
DispatchReturns == \A r \in Request : (pc[r] # "idle") ~> (pc[r] = "idle")

\* Maintenance drains the gateway: once the switch stays on, the gauges the
\* drain summary reports come down to zero and stay there.
DrainCompletes == (<>[]maintenance) => <>[](\A s \in Service : load[s] = 0)

Routing == \E r \in Request : pc[r] = "refresh" /\ todo[r] = {}

\* A provider that recovers is routable again, once clients stay: the stale
\* answers of probes that were under way do not outlast those that follow.
RecoveryIsNoticed ==
  \A s \in Service :
    (<>[](s \in registered /\ s \in up /\ gone = {}) /\ []<>Routing) => <>[](s \notin unhealthy)

-----------------------------------------------------------------------------
(* What the repository says and the code does not keep *)

\* cooling/COOLDOWN-MODEL.md:7, cooling suppresses services that repeatedly
\* fail: a client that hangs up is not what cools one.
OnlyFailuresCool ==
  [][\A s \in Service : until'[s] > until[s] =>
       \E r \in Request : pc[r] = "recording" /\ Target(r) = s /\ outcome[r] # "hung_up"]_vars

=============================================================================

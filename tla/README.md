# EasyProtocol in TLA+

EasyProtocol is a gateway (Go, `src/service/base`) that answers protocol
requests over HTTP by calling providers, most of them written in Python
(`src/providers/python`) and run in containers the gateway starts itself.  This
directory specifies the parts of it whose correctness depends on the order in
which several actors act, checks the specifications with TLC on small instances
and proves what matters most with TLAPS for every instance.  The code is the
reference: each definition is translated from the lines that `PROJECT.json`
names under `map`.

1. [Inventory](#1-inventory) 2. [Plan](#2-plan) 3. [Modules](#3-modules)
4. [Runs](#4-runs) 5. [Fairness](#5-fairness) 6. [Proofs](#6-proofs)
7. [Findings](#7-findings) 8. [Limits of the models](#8-limits-of-the-models)

## 1. Inventory

| component | state | operations | what makes it correct |
|---|---|---|---|
| container pool `services/provider_container_pool.go` | per family: children by service name, busy, lastIdleAt, nextReplicaIndex, stopped; outside: the container engine | Start (adoptExistingChildren, boot), Acquire, Release, reconcileFamily, spawnChild, pruning, Close | names used once, one request per child, warm floor kept, no container left behind, the registry agrees, Acquire returns |
| worker pool `worker_pool.py` | dict of workers, their queues and subprocesses, `_closed` | execute_step, reaper, snapshot, close | one task per worker, no late answer read by the next call, cap and floor, no orphan process |
| dispatcher, cooling, statistics `services/dispatcher.go`, `cooling/`, `stats/`, `attribution/` | cooling states, active-request gauges, counters, attribution records | Dispatch, PreviewRoute, Record*, Begin/End*, resets | attempts bounded and never repeated, gauges true, cooldowns end as they should, every request answered |
| registry, refresher `registry/`, transport `transports/` | services with Enabled, HealthKnown, Healthy, capabilities | Register, Remove, UpdateHealth, SetEnabled, ResetHealth, RefreshAll, Call | a recovered provider becomes routable, no health of a removed service |
| resolver, selectors `routing/`, `strategy/` | the selectors' counters | Preview, Select | only eligible services, deterministic order, preference before load |
| control plane `server/control_plane.go`, `services/control_plane_state.go` | tokens and their grace, freeze, maintenance, in memory and in one file | authorise, freeze, maintenance, rotate, clean up | no update lost, memory and file agree, a frozen plane does not change |
| runtime state, snapshots, audit log `services/runtime_*.go`, `services/audit_log.go`, `server/server.go` | policy, enabled services, snapshot files, audit records and file | import, rollback, service actions, record, prune | all of a change or none, what is restored is what was saved |
| process pool `services/provider_process_pool.go` | as the container pool, with processes | as the container pool | as the container pool |
| traces `services/trace_store.go` | a bounded list | Record, summaries | nothing decides by it |
| configuration, startup | none after Normalize | Load, Normalize, main | what Normalize establishes is each module's ASSUME |
| team seats `new_protocol_register/magic.py`, `easyprotocol_flow.py` | the invites and members of a team workspace at an outside service; the members recorded in the mother's artifact | invite, batch, revoke, cleanup of all or of the usage-based seats | who is said to be gone is gone, a successful cleanup leaves room, the seat limit is passed only by steps that overlap |
| proxy leases `new_protocol_register/others/runtime.py`, `shared_proxy/` | per process: routes in use, routes that served or failed of late; at EasyProxy: the leases out | acquire, release, finalize, check out, probe | a route for one flow at a time, no lease nobody will give back |
| mailbox sessions and codes `shared_mailbox/easy_email_client.py`, `protocol_oauth.py` | at EasyEmail: open sessions of an address and their messages; per flow: session, baseline | open, recover, reuse, close, baseline, wait for a code | no code of an earlier request, no session nobody closes |
| Codex registration and login `protocol_runtime/protocol_register.py`, `oauth_flow.py` | the run's place, attempt, code floor, tokens | register, log in, repair, hand over, resume after a phone number | ends whatever the server answers, loses no tokens, has those of the wanted workspace |
| account flow `protocol_small_success.py`, `protocol_chatgpt_login.py`, `protocol_platform_org.py`, `protocol_account_availability.py`, `others/storage.py` | the account's record, a JSON file; at the server: account, password, organization, tokens | create, first login, ChatGPT login, organization setup, OAuth, audit | the record says what is so, through retries, kills and lost answers |
| Python HTTP server `server.py` | none | decode, run a step, answer | keeps nothing |
| browser automation and challenges `shared_sentinel/`, `turnstile_solver_go/` | none shared | compute a token for a page, drive a page | data, not order |
| object storage `r2_upload.py` | none | upload a finished file | nothing reads it back |
| Go, JavaScript and Rust providers | none | fixed operations | data, not order |

How they interact.  `server.handleRequest` looks at the maintenance switch and
calls `Dispatch` in the request's goroutine, with the request's context.
`Dispatch` refreshes the registry (one HTTP probe after another), asks the
resolver, which reads registry, cooling and statistics, and calls the transport
for each attempt.  For a service of the container pool the transport first takes
a lease (`Acquire`), calls the child over HTTP, and releases the lease.  The
child's HTTP server calls `execute_step` of its worker pool in a thread of its
own, and the worker runs one step of `easyprotocol_flow`: a step on a team, or
one of the steps on an account.  Those take a route from the shared sets of the
worker's process (`others/runtime.py`), a session and its codes from EasyEmail
(`shared_mailbox`), and tokens from one run of `protocol_register`.  Workers
share no memory; their steps meet in the outside services and in the files of an
account.  The pool's `reconcileLoop`, the worker pool's reaper and the
operators' requests run beside all this.  The container pool is also a writer of
the registry: it registers and removes services.

What is hard to test in it: mutexes that are dropped for slow calls and taken
again (spawning, scaling down, disposing), state that outlives the process
(containers, files, leases, sessions), decisions on values read earlier (the
fallback chain, the cap, the freeze, a listing of seats, a free route), late
answers (probes, tasks, failures, codes), answers that are lost although the
call took effect, and clients that go away.  `hazards` in `PROJECT.json` lists
each one at its line with the property that covers it, or the reason why none
does yet.

## 2. Plan

| | module | state of it |
|---|---|---|
| 1 | `ContainerPool` with `ContainerPoolProofs` | done |
| 2 | `WorkerPool`, abstract `ExecutionLane`, `WorkerPoolProofs` | done |
| 3 | `Dispatch`, abstract `CircuitBreaker`, `DispatchProofs`: handler, refresher, resolver, cooling, gauges | done |
| 4 | `TeamSeats` with `TeamSeatsProofs`: the steps on a team, against each other | done |
| 5 | `ProxyLease` with `ProxyLeaseProofs`: the routes and leases of a process | done |
| 6 | `Mailbox` with `MailboxProofs`: sessions, baselines and codes of one address | done |
| 7 | `CodexLogin` with `CodexLoginProofs`: one run for tokens, against any pages | done |
| 8 | `AccountFlow` with `AccountFlowProofs`: the steps on one account through its record | done |
| 9 | `ControlPlane`: handlers that copy, change, store and save a whole state | open |
| 10 | `Persistence`: runtime state, snapshots, audit file against memory | open |
| 11 | resolver and selectors as pure functions with counter and language hint, against a reference definition | open |
| 12 | `ProcessPool`: where it differs from the container pool | open |

Composition.  `Dispatch` and `ContainerPool` meet in the transport: `Dispatch`
takes a call to a pooled service as one step that may fail as `Acquire` fails,
and `Registers`/`Removes` stand for what the pool does to the registry
(`RegistryTracksPool` is what it owes in return).  `ContainerPool` and
`WorkerPool` meet in the HTTP call: a lease of the first ends by itself because
a call of the second returns (`StepReturns`).  `AccountFlow` takes the OAuth and
the mailbox as single steps; `CodexLogin` and `Mailbox` are their insides.

Abstract specifications.  `ExecutionLane` is what an execution pool promises,
and `WorkerPool` is proved to implement it.  `CircuitBreaker` is what the
cooling of services promises to the requests, and `Dispatch` is proved to
implement that.  Still to state: an atomic register that `ControlPlane` fails to
implement, which says exactly where an update is lost.

Theorems still worth proving: that a batch of `TeamSeats` and a checkout of
`ProxyLease` implement abstract allocators of seats and routes, and whichever
safety properties of 9 and 10 hold.

## 3. Modules

**`ContainerPool`**: one provider family.  A child is its replica index, from
which the code formats all its names.  An action is one critical section of the
pool's mutex or one call to the engine between two of them, so the points where
the code drops the mutex are the points where others run: a spawn is `Reserve`,
`Created`, `Started`, `Publish`, with an error end after each; `MarkBusy` is
separate from `Publish` because Acquire takes the mutex again for it;
`ScaleDown` forgets children and `RemoveSurplus` stops them later.  `Start`,
`reconcileLoop` and their common `spawnChild` are one process, `Manager`, whose
`phase` and `pc` say where it is.  The engine is external: a map from names to
states, with a restart policy, failures and name conflicts.  `Restart` models
the end of the gateway process, by a crash or by main's exit on an error of
Start: containers survive, memory does not.  Other families do not share names
or state with this one.

**`WorkerPool`**: `StepExecutionPool`.  A worker is a number, in the order of
the spawns, which is the dict's order.  Actions are the critical sections of the
condition and the queue operations of `execute_step`; a subprocess dequeues,
answers or dies by itself.  `Drop` and `Stop`, `Retire` and `Stop` are separate
because the code stops a worker outside its lock.  **`ExecutionLane`** is its
abstract specification: lanes are leased to one call at a time, and a lane on
which a call failed serves no further one.

**`Dispatch`**: one request's way through `handleRequest` and `Dispatch`, for
several requests, operators and providers at once.  Services are numbers in the
order of their names.  `Probe` and `UpdateHealth` are two steps because the
refresher holds no lock over a probe; `Route` is the resolver's preview with
`attemptOrder`; `Begin`, `Answer`, `RecordCooling`, `End` are the four places
where an attempt touches shared state, each behind a mutex of its own.  `since`
is the time read before the attempt, which cooling is told instead of the
present.  `gone` holds the requests whose client has hung up, whose context is
done.  A provider may be down from the start (`Silent`), which the registry
learns by its probes.  The selected service is any that the selector's counter,
or its dice, may choose.  **`CircuitBreaker`** is the abstract specification of
the cooling:  a client that looks for services is given ones whose circuit is
closed, failures of those it was given open circuits, time and operators close
them.  It knows nothing of late answers, of separate managers and of states that
are written back when somebody looks: `Breaker` in `Dispatch` maps `until` to
what it says at the present moment, and a request to the services it may still
call.

**`TeamSeats`**: a team workspace and the steps of several workers on it.  Every
listing, invitation and removal is one action, because each is one call to the
outside service, and other workers' calls and the invited people's acceptance
(`Accept`) come between them.  The two listings of one decision are separate
actions in the order in which the code asks for them.  A call may fail, and a
failed one may have taken effect; `Kill` ends a step anywhere.  `stirred` and
`late` are history: they mark the steps that were overtaken behind their last
listing and the seats that such steps gave, which is what the code cannot
prevent and the properties except.

**`ProxyLease`**: the flows of one process and the three sets of routes they
share.  Choosing a free route and claiming it are separate actions with the
probe between them, because the code leaves the lock for the network.  A
checkout may be granted without an answer, an offered lease may be refused by
the client, and a release may be lost: EasyProxy's `granted` and the flow's
`lease` are two variables.

**`Mailbox`**: the sessions of one address, with the two kinds of flow that log
in to a recorded account at once.  A message's marker is the second of its
arrival, as in the code, so messages share one.  `Baseline`, `Ask`, `StartWait`
and `Poll` are separate actions, and messages are delivered late and in any
order between them.  A flow without a baseline takes its floor at `StartWait`.
`Release` and the opening of a session are several calls each and may fail
midway.  A request whose answer is lost is sent again, although the service may
have opened a session for it; a session that comes back for another address or
without an id is refused by its flow and left open (`astray`).  A login whose
wait fails may begin again with a new baseline.

**`CodexLogin`**: the control of one run of `protocol_register`, in its four
kinds.  The server answers each request with any page, or not at all, so the
branches are taken in all combinations.  The search of a response for a way to
go on is kept as the code has it: five candidates in order, redirects up to a
limit, consent pages within each other.  What distinguishes errors is kept too:
a phone wall, a RuntimeError and any other error go different ways.  A request
for a code whose answer is lost is made again (`SendTwice`), so that the server
has sent two codes and only the second is good; messages arrive in any order or
never.  A registration that meets an existing account with a page for a code
enters it and ends there.  The workspace is chosen by an id or name, if one was
configured (`Named`), and by its kind otherwise; `excuse` is history, and says
why a run has tokens of another one.  `issued` counts what the server gave out,
`held` what the run has.

**`AccountFlow`**: the steps on one account, one after another in any order.
Each request with an effect is an action in three outcomes: it takes effect and
answers, takes effect and the answer is lost, or does not take effect.  A
password is named by the run and attempt that generated it, so that the record's
and the server's can be compared.  A creation opens a mailbox session or is
handed one by its caller, the one of an earlier record among them
(`HandedMailbox`); an audit calls accounts deleted that their record marks so,
or whose error text sounds like it, without asking further.  A write may fail
before it begins or be torn by a kill; a torn record cannot be read.

`MC*` modules give TLC its sets and symmetries.  `*Proofs` hold the theorems.  A
definition marked `mutant` is a bug the code does not have, kept beside the
definition it would replace: `mutants` in `PROJECT.json` says which property
finds it.

## 4. Runs

Symmetry is declared only where no liveness property is checked and the
permuted processes differ in nothing.  Deadlock is off where a bounded system
may stop: requests, steps, faults and clock ticks run out, and nobody is obliged
to ask for more.  It is on in `proxy_lease`, whose flows can always go on.

| run | what it asks | result |
|---|---|---|
| `pool_safety` | names, leases, routes, floor and overshoot of a family under boot over foreign and stale containers, a fault, a restart and Close | holds, 932 thousand states |
| `pool_liveness` | does Acquire return, does the floor come back | holds, 65 thousand states |
| `worker_safety` | cap, floor, cleanliness, ownership of processes, refinement of the lanes | holds, 856 thousand states |
| `worker_liveness` | does every call return, does the floor come back | holds, 87 thousand states |
| `dispatch_routing` | gauges, cooldowns and the refinement of the breaker with two requests, two services, one intervention | holds, 2.1 million states |
| `dispatch_liveness` | are requests answered, does maintenance drain, is a recovery noticed | holds, 264 thousand states |
| `team_seats` | what may two steps on one team say and do to each other | holds, 2.3 million states |
| `proxy_lease` | are routes exclusive and leases accounted for | holds, 899 thousand states |
| `mailbox` | which codes are taken, which sessions stay open | holds, 2.6 million states |
| `mailbox_stale_code` | is a code of an earlier request ever taken | violated |
| `codex_login` | does a run end, and with which tokens | holds, 1.1 million states |
| `account_flow` | does the record say what is so, does every step end | holds, 997 thousand states |

The types of every module, and the bound on a request's attempts
(`AttemptsBounded`), are theorems (section 6); only `mailbox` and `codex_login`
check theirs as well.

The properties that are not about types, and what would break them:

- `SpawnNamesFresh`: Release, MarkBusy and reconcile find a child by name, so a
  name used again during an old lease would free somebody else's child.
- `RegistryTracksPool`: a prune, a scale-down and a late spawn cross each other.
- `WarmChildExclusive`, `DoomedNotLeased`: the part of "one request per child"
  that the code keeps; what it does not keep is `ExclusiveLease`.
- `OvershootBounded`: the exact measure of how far a burst exceeds the cap.
- `ClosedPoolOnlyShrinks`, `ScaleDownKeepsFloor`: Close against a spawn under
  way; the counting of the scale-down against the children it may take.
- `AcquireReturns`, `WarmFloorRestored`: Acquire has no bound but its deadline;
  one loop restores the floor and stops its pass at the first failed spawn.
- `CapKept`, `FloorMissesOnlyTheDead`, `FreeWorkersClean`, `NoOrphanProcess`,
  `LeakBounded`: drops, retirements, the reaper, prunes and close cross.
- `LaneSpec`: the refinement, which says all of that to a caller.
- `LoadCountsCalls`: the gauge is the calls in flight; it may be too low after
  `stats/reset`, never too high, since an End meets a guard at zero.
- `CooldownHolds`: answers arrive with the time at which their call began.
- `BreakerSpec`: the refinement; a late success, failure or last look judges a
  window by a time that is over, and a preview writes back what it found.
- `DispatchReturns`, `DrainCompletes`, `RecoveryIsNoticed`: the last is about a
  provider that was down when a refresh asked it, and needs that the stale bad
  news of an old refresh is overtaken by those that follow, and that clients no
  longer hang up: each that does during its refresh marks what it has yet to
  probe unhealthy.
- `GoneMeansGone`: a revocation looks at users and invites in two calls, and a
  person may join between them; when the first call failed it speaks of the
  invite only (`NotFoundMeansGone` in section 7).
- `CleanedMeansRoom`: a cleanup acts on a plan of removals made from one
  listing, and counts what the removals answer.
- `OnlyLateOvershoots`: counting and inviting are three calls; the property is
  the exact measure of who may take the team over its limit.
- `RouteExclusive`, `RecentNotReused`: a probe of seconds lies between the look
  for a free route and its claim.
- `LeasesAccountedFor`: one failure after a checkout in each place where it can
  happen; each path must give the lease back or keep it with the flow.
- `FreshAfterBaseline`: markers are whole seconds, late codes of earlier requests
  arrive after the baseline, and the comparison is made in two places.
- `SessionsAccountedFor`: recreated, recovered and reused sessions, requests
  that are sent again after they took effect, sessions that are refused, several
  providers, several ends of a flow.
- `TokensAccountedFor`, `PersonalUnlessRefused`: the workspace is looked at
  after the tokens are issued, and the look and the switch can fail in every call
  they make.  Four reasons keep tokens of another workspace: one was asked for by
  its id or name, there is no personal one, the switch was refused, or the
  account's workspaces could not be seen, which is no refusal
  (`PersonalWhenThereIs` in section 7).
- `RunEnds`: fallbacks lead from one attempt at the tokens to another, redirects
  and consent pages to each other; nothing may go round, whatever the answers.
- `RecordedPassword`: a registration whose answer is lost is followed by an
  attempt that finds the account registered already.
- `RecordHasMailbox`: the finally of a creation closes its session, and the
  record of an earlier one may be the record that stays.  A creation that was
  handed the record's session and fails is the exception (`RecordKeepsMailbox` in
  section 7).
- `ReportsAreTrue`: lost answers and repeated steps must not record what did not
  happen, and an audit must not find an account good that was never completed.
  What it says of deleted accounts is not reliable (`DeletedMeansGone` in
  section 7).
- `StepEnds`: retries inside a step are counted in several places.

Bounds.  Two requesters are enough for the races over one child, since each is
between a spawner and one other; three callers are used where a late answer
needs a caller that timed out, one that follows and one that makes room.  The
pool's floor is below its cap so that growth and scale-down both happen; one
foreign and one stale container meet both branches of the adoption and the name
conflict; `MaxIndex` leaves room for the names that the run's faults and
restart can use up.  One fault and one restart are enough for each recovery to
begin from any state.  `dispatch_routing` has one pooled and one configured
service, a threshold of two and a window of one tick, so that a cooldown begins,
expires and meets calls that began before it; `MaxChanges` allows one
intervention, of any kind, at any time.  `dispatch_liveness` stops the clock, so
that a cooled service stays cooled and no expiry helps, and uses a preference
list, which reverses the order by load.  Fallback, attribution and retry are on
in both, because off only removes behaviour.  `dispatch_liveness` also leaves
requests free to arrive for ever, and lets its providers be down or up at first:
the one change can then be a recovery, which finds a refresh that is on its way
with an answer of before.

`team_seats` has two workers and two people, a limit of one, two steps, one
fault, batches of up to two members (one, when it begins beside another), and
begins with an empty team and one whose
seats are used up: two steps can overlap at every call, a person can join
between any two of them, and one seat too many is the smallest overshoot.
`proxy_lease` has two flows on two routes with two attempts each, so that a flow
runs out of random nodes and goes on with leases, and meets a recent, a failed
and a taken route; three leases and two faults strand more than one.  `mailbox`
has two flows, two providers, two seconds and two requests: a late code of the
first request, one of the second in the same second, and a code older than both;
three sessions are the seed's, one whose opening had no answer and the one that
the repeated request opens.
`codex_login` follows two redirects and consent pages within one another once,
since a longer chain repeats them; two faults let a repair of a failure fail.
`account_flow` runs four steps, the least in which a creation is repeated after
a record was written, with the record's session or another, and two more steps
use what is left; two faults lose the answer to an attempt and kill what follows.

## 5. Fairness

- `ContainerPool`: weak fairness of the manager and of each requester, because a
  goroutine that can run runs and calls to the engine return; strong fairness of
  `GiveUp`, because a request that keeps finding the pool full meets its
  deadline although it is not at that point at every moment.  A lease is
  released because the call it is for has a timeout.  Clients, crashes, faults,
  ageing and the engine's restarts are not fair.
- `WorkerPool`: weak fairness of each thread, of the reaper, which wakes by
  itself, and of each thread that stops a worker; a call's timeouts are fair, as
  for the deadline above.  The subprocesses are not fair: a step may hang.
- `Dispatch`: weak fairness of each request's steps, which the refresher's five
  seconds, the transport's ten minutes and Acquire's deadline justify.
  Operators, providers, clients and the clock are not fair.
- `CodexLogin`: weak fairness of the run's own step, since every request has a
  timeout and every wait for a code a deadline.  The mailbox owes no message.
- `AccountFlow`: weak fairness of the step in progress, for the same reason.  The
  caller need not begin a step, and nobody is obliged to kill one.
- `TeamSeats`, `ProxyLease` and `Mailbox` state safety only and assume none.

## 6. Proofs

All theorems hold for every value of the constants allowed by the named
assumptions: what `config.Normalize` or `from_env` establishes (floor at most
cap, positive thresholds), that the bounds are natural numbers, and, where sets
of processes are counted, that they are finite.

**Container pool.**  `IInv` joins the types to `Control` (what each goroutine
can be doing before and after Start returns), `Names` (every name in use lies
below `nextReplicaIndex`, which only moves up, and a name being spawned is
nobody else's), `Leases` (a lease on a child that was not spawned on demand
keeps it busy while it is tracked) and `RegistryTracksPool`.  None of the
properties is inductive alone: that a scale-down spares leased children needs
that a lease implies busy, which needs that no other lease holds the same name,
which needs the names.  `OvershootIsBounded` stands on lemmas that
count: a busy child is held (`BusyHeld`), a requester that saw room saw fewer
children than the cap, and one that saw none saw only busy ones.

**Worker pool.**  `IInv` joins the types to `Held` (no two callers hold one
worker, and a held worker is busy or out of the dict), `Clean` (a task is in a
worker only while its caller waits for it or has given it up), `NoOrphanProcess`
and `Bounds`.  What `FloorMissesOnlyTheDead` needs besides: a worker that is
about to be stopped is not in the dict, so only a death makes a tracked worker a
dead one, there are no more of those than deaths, and a floor that counts them
among its workers is short by no more than that.  For `LaneSpec` the initial
state and every step map to `ExecutionLane`: the decisive case is a release,
where a call that failed must leave its worker outside the dict.

**Dispatch.**  `IInv` joins the types to `ChainsHold` (a chain holds services
without repetition, and the attempt is within it and the policy), `NoFuture` (an
attempt began before now) and `LoadCountsCalls`.  That a chain has no
repetition comes from the order: `Before` is irreflexive, so a sorted sequence
of candidates repeats none (`SortedOnce`), and moving the selected one to the
front is a permutation (`MovedIsChained`).  `CooldownsLast` needs `NoFuture`: a
late answer judges the cooldown by a time that is not later than now, and so
cannot take it for expired.  `CoolingIsABreaker` maps every step to one of
`CircuitBreaker`: seen at the present moment, a window that was written back and
one that was not are the same (`EndsKept`), a preview hands out eligible services
only (`ChainsEligible`), each end of an attempt takes its target from what the
request may still call, because a chain repeats none, and a failure's window
begins at a moment since the start (`Stamped`).

**Team seats.**  `IInv` joins the types to `OnlyLateOvershoots` and to
`Informed`: what a step knows of the seats at each place (`Knows`) and what it
has said (`Says`), unless it was overtaken (`stirred`).  A step that only frees
seats (`Quiet`) leaves the knowledge of the others true, since each of these
statements is kept when a seat becomes free; an invitation and a person who joins
mark whoever has listed the team, and those are claimed to know nothing any more
(`OthersInformed`).  That a cleanup leaves room comes from its plan, for every
capacity, limit and need: the n least of the removable seats are n seats or all
(`LeastIsEnough`, by minimal elements of an order on a finite set), which is
enough in all and among the default seats (`PlanMakesRoom`).

**Mailbox.**  `IInv` joins the types (`Counters`, `Post`, `Boxes`, `Holders`,
`Flows`) to what a flow carries at each place: whose session (`BoundAt`) and
which floor (`FreshAt`: no message of the baseline has a marker above the floor,
so one that is taken above it is none of them).  `Accounted` counts: `Lost` are
the open sessions of the address that no flow has or will close (those that are
`astray` are not of the address), and a step that adds one is a failed call or a
kill, adds no other and counts as a fault; each sending of a request is a step of
its own, so one that is sent again is counted as often as it had no answer.

**Codex login.**  `IInv` joins the types to the attempt and candidate each place
belongs to (`Places`), to the most codes that can have been asked for there
(`Codes`), to where the run holds tokens (`Holding`) and to which of them it
returns (`Wanted`), which needs that only a way that looks at the workspace
leads to the switch, and that it switches to the wanted one (`Chosen`).
`TokensAccountedFor` needs `Holding`: the places at which tokens are issued hold
none yet, except the switch, which keeps those it has when anything goes wrong,
and tokens in hand are lost only with an answer or a failed write.  Where an
error leads is one lemma (`RaiseLeads`), so the steps are told apart by their
places and not by the pages.  A run that is over has tokens if and only if it
returned them (`TokensExactlyWhenReturned`).

**Account flow.**  `IInv` joins the types to what each place of a step knows of
the password, of the session (`SessionsInv`: a creation's session is open or in
`lent`, and is in no record before it is kept, unless it was handed over) and of
the account (`MadeInv`: a callback, a good code and accepted tokens are of an
account that was completed), and to what a step is about to report (`ReportInv`).
`RecordHasMailbox` needs the second: the finally of a creation closes a session
that no record names, or one that it was handed.

Only model-checked: every liveness property (`AcquireReturns`,
`WarmFloorRestored`, `StepReturns`, `FloorRestored`, `DispatchReturns`,
`DrainCompletes`, `RecoveryIsNoticed`, `RunEnds`, `StepEnds`), since the provers
have no support for fairness.  Every other property of a passing run is a
theorem.  `NoStaleCode` is violated and has none.

## 7. Findings

One run must be violated; the statement it contradicts is quoted under
`findings` in `PROJECT.json`.

- A flow that could not take a baseline takes the newest message for its floor
  and accepts that message, so it may log in with a code of an earlier request
  (`mailbox_stale_code`).

Statements that the modules hold beside their properties and that the code does
not keep.  No run lists them; a configuration that names one as its invariant
finds the behaviour:

- `ContainerPool!ExclusiveLease`: a child spawned on demand is published idle
  before its spawner marks it busy, and may be leased twice
  (`provider_container_pool.go:327`).
- `ContainerPool!ReplicaCap`: the cap is compared before the mutex is dropped
  (`:319`).  `OvershootBounded` says how far it is exceeded.
- `ContainerPool!WarmFloorKept`: a container that does not run but keeps its name
  ends every boot (`:455`, `:617`).
- `ContainerPool!SurplusRemoved`: a container whose removal failed, or that was
  pruned and restarted by the engine, runs for good (`:703`).
- `WorkerPool!ClosedPoolStaysEmpty`: a call that fails because `close()` stopped
  its worker refills the floor of the closed pool (`worker_pool.py:311`).
  `LeakBounded` says by how much.
- `Dispatch!OnlyFailuresCool`: a client that hangs up is counted as a failure of
  the service (`http_transport.go:97`).
- `TeamSeats!NotFoundMeansGone`: a revocation answers `ok` and `not_found` also
  when its listing of the users failed, while the person is a member
  (`magic.py:768`, `:825`).
- `CodexLogin!PersonalWhenThereIs`: a lookup of the workspaces that failed, or
  tokens that name no account, end like a look that found the wanted one: tokens
  of the wrong workspace are returned (`protocol_register.py:8126`, `:8166`).
- `AccountFlow!RecordKeepsMailbox`: a creation that is repeated with the session
  of the record and fails closes that session (`runtime.py:991`,
  `protocol_small_success.py:2494`).
- `AccountFlow!DeletedMeansGone`: an audit reports `deleted_confirmed` without
  asking the server when the record is marked disabled or for deletion, and when
  any error's text sounds like it (`protocol_account_availability.py:188`,
  `:328`).  Nothing in the repository sets those marks to true; whoever keeps
  the records may.

Met on the way and stated by no definition:

- A session that comes back for another address or without an id is refused, and
  is left open at EasyEmail (`runtime.py:944`, `easy_email_client.py:583`).
- A cooldown is counted from the moment the failed call began, so that one that
  fails late opens a shorter window than configured and may cut a running one
  short (`CooldownHolds` allows for it).
- A batch whose member has a seat already and whose OAuth then fails takes that
  seat away, although the batch did not give it.
- The check for a session in the audit rotates the refresh token at the server and
  stores the new one nowhere; the session the audit recovers is not released.
- The setup of an organization spends the one-use code of the record before it
  knows whether the rest succeeds, so that a repeated step has none.
- The callback after a phone code, and the second login of a registration, do not
  look whether the tokens are of the preferred workspace, as the other ways do.
- The second login of a registration may take the code of the first for its own.
- The routes in use are known per process: two workers may use one route.
- The two steps on one team that need the mother's tokens at once may both
  refresh the same token, and each writes the mother's file from what it read
  before (`magic.py`, `easyprotocol_flow.py:_write_team_flow_update`), so that
  one write can undo the other's.
- `_recover_platform_otp_validate_in_browser` (`protocol_small_success.py:300`) is
  called from nowhere, and is in no module.

## 8. Limits of the models

- `ContainerPool`: one family; time is whether a child has been idle long
  enough; the health wait of a spawn succeeds or aborts; ports, networks and
  images are the label of a container; the set of supported operations that
  a spawn writes without the mutex is left out, as no decision of the pool
  reads it; whether the engine is slow is left out.
- `WorkerPool`: `process.start()` always succeeds; joining the queues' feeder
  threads is not modelled; a timeout may come at any moment.
- `Dispatch`: every service supports the operation and no request names a
  language; the preview reads registry, cooling and gauges at one moment, where
  the code reads them service by service; the last look at the cooldown is
  taken with the end of the attempt; the policy does not change during a run;
  counters per operation, traces, attribution records and the preview endpoint
  are left out; a lease may serve the request with another child of the family
  than the one it was routed to, which is not told apart; ticks are coarse, and
  a clock that has reached the end of a window is past it.
- `TeamSeats`: of the mother's artifact only the recorded members are kept; the
  owner is no person; listings are complete (their pages are one answer); a
  batch's OAuth either succeeds or fails for a member.
- `ProxyLease`: one process; the windows of the recent and failed routes end at
  any moment (`Forgive`), and a lease may end by itself (`Lapse`); usage reports
  and the environment are left out.
- `Mailbox`: one address; a message is its time and the request it answers, and
  its parsing is left out; the account's record names one session; a session
  that is `astray` stays open until it lapses and gets no mail of the address.
- `CodexLogin`: one run; headers, the parsing of pages, sentinel tokens and the
  browser's own steps are left out, an answer being any page; the mailbox is a
  sequence of messages, what several flows do to it is in `Mailbox`; tokens are
  of a workspace kind: the workspace asked for by id or name is known by its kind,
  and one asked for by its index may be any.
- `AccountFlow`: the steps on one account run one at a time, as their caller
  orders them: two at once would rewrite one record, and one of the writes would
  be lost; the newest record is the one that counts, a torn one cannot be read;
  a creation that is handed a session gets one that is open or the record's; who
  marks a record as disabled is outside, and a text that sounds like a deletion
  may come with any error; the OAuth's storage of its tokens is outside;
  requests without effect on account, record or mailbox are merged into the step
  they belong to.
- Left out of `hazards` with the models that would reach them: the data race on a
  family's supported operations (`provider_container_pool.go:650`), a slow
  engine under the pool's mutex (`:695`), the join of the feeder threads
  (`worker_pool.py:440`) and a second token rotation within the grace of the
  first (`control_plane.go:578`).

Not modelled: the control plane, persistence, the process pool (9, 10 and 12 of
the plan); the language hint and the selector's counter (11); traces, which
nothing reads back; configuration, startup, scripts and deployment, which run
outside the system or before it; the HTTP servers of the providers, the Go,
JavaScript and Rust providers, and object storage, which keep no state between
calls; browser automation and challenges, which compute a value for one page.

--------------------------- MODULE ContainerPool ---------------------------
(***************************************************************************)
(* The gateway's provider container pool                                   *)
(* (src/service/base/services/provider_container_pool.go), one provider    *)
(* family of it.  A child is named by its replica index: the service name, *)
(* the container name and the endpoint are all formatted from it.  Every   *)
(* action is one critical section of the pool's mutex or one call to the   *)
(* container engine between two of them.  A definition marked "mutant" is  *)
(* a bug the code does not have: no definition of the model uses it.       *)
(***************************************************************************)
EXTENDS Naturals, FiniteSets

CONSTANTS
  Requester,   \* goroutines that serve a request each
  Manager,     \* the goroutine of Start, which then becomes reconcileLoop
  Warm,        \* family.warmReplicas
  Max,         \* family.maxReplicas
  Foreign,     \* indexes of containers that run at boot and are not ours
  Stale,       \* ... that are ours but of another image or environment
  Static,      \* indexes the configuration file lists as services
  MaxIndex,    \* bound on nextReplicaIndex
  MaxFaults,   \* bound on what goes wrong outside the gateway
  MaxCrashes,  \* bound on the gateway's own restarts
  MayClose     \* whether Close is explored

Index == 1 .. MaxIndex
Proc == Requester \union {Manager}

ASSUME ReplicaAssumption ==   \* what config.Normalize establishes
  /\ Warm \in Nat /\ Max \in Nat \ {0} /\ Warm <= Max
ASSUME ProcAssumption == Manager \notin Requester /\ IsFiniteSet(Requester)
ASSUME IndexAssumption ==
  /\ MaxIndex \in Nat /\ Max <= MaxIndex
  /\ Foreign \subseteq Index /\ Stale \subseteq Index /\ Static \subseteq Index
ASSUME BoundAssumption == MaxFaults \in Nat /\ MaxCrashes \in Nat
ASSUME CloseAssumption == MayClose \in BOOLEAN

VARIABLES
  next,        \* family.nextReplicaIndex
  tracked,     \* DOMAIN family.children
  busy,        \* the children with child.busy, lastIdleAt zero
  aged,        \* the idle children with now - lastIdleAt >= idleScaleDown
  registered,  \* the family's services in the registry
  phase,       \* "booting" until Start returns, "closed" after Close
  cursor,      \* the loop index of adoptExistingChildren
  need,        \* how many children this pass of reconcileFamily will spawn
  doomed,      \* reconcileFamily's toStop
  closing,     \* the children Close has yet to stop and remove
  pc,          \* what each goroutine does next
  slot,        \* the index a goroutine spawns or holds, 0 for none
  docker,      \* the container engine: the state of each named container
  label,       \* ... and what its labels, image and environment say
  faults, crashes,
  demand       \* history: the children a requester has spawned

Stopped == phase = "closed"    \* pool.stopped; its children are all stopping
Booted == phase # "booting"    \* Start has returned, requests are served

poolVars == <<next, tracked, busy, aged, registered, demand>>
mgrVars  == <<cursor, need, doomed>>
procVars == <<pc, slot>>
dockVars == <<docker, label>>
vars == <<poolVars, phase, mgrVars, closing, procVars, dockVars, faults, crashes>>

-----------------------------------------------------------------------------
(* The container engine *)

Fault == faults < MaxFaults /\ faults' = faults + 1

\* stopAndRemoveChild: both errors are dropped, a container may stay behind.
Dispose(S, cost) ==
  \E left \in SUBSET S :
    /\ faults' \in 0 .. MaxFaults
    /\ faults' = faults + cost + Cardinality(left)
    /\ docker' = [i \in Index |-> IF i \in S \ left THEN "absent" ELSE docker[i]]

Put(i, state) == docker' = [docker EXCEPT ![i] = state]

-----------------------------------------------------------------------------
(* The family's children, under the pool's mutex *)

\* activeCountLocked counts the children that are not stopping.
Active == IF Stopped THEN {} ELSE tracked

\* pruneExitedChildrenLocked forgets the children that do not run; a failed
\* inspection keeps its child.
DeadIfRemoved == {i \in tracked : docker[i] = "absent"}   \* mutant
Dead == {i \in tracked : docker[i] # "running"}

PruneKeepsRoutes(P) ==   \* mutant
  /\ P \subseteq Dead
  /\ faults' \in 0 .. MaxFaults
  /\ faults' = faults + Cardinality(Dead \ P)
  /\ tracked' = tracked \ P
  /\ registered' = registered
Prune(P) ==
  /\ P \subseteq Dead
  /\ faults' \in 0 .. MaxFaults
  /\ faults' = faults + Cardinality(Dead \ P)
  /\ tracked' = tracked \ P
  /\ registered' = registered \ P

\* firstIdleChildLocked: the child that has been idle longest.
FirstOfAll(S) == S   \* mutant
FirstIdle(S) ==
  LET idle == S \ busy IN {i \in idle : i \in aged \/ idle \intersect aged = {}}

LowestFreeName(i) == i \notin tracked /\ \A j \in 1 .. (i - 1) : j \in tracked   \* mutant
IsNextName(i) ==
  /\ i >= next /\ i \notin tracked
  /\ \A j \in next .. (i - 1) : j \in tracked

MayGrow(S) == Cardinality(S) < Max

\* Children a scale-down may take: idle for long enough, and ours.
AnyOwnChild == {i \in tracked : label[i] # "foreign"}   \* mutant
Candidates == {i \in tracked \ busy : i \in aged /\ label[i] # "foreign"}

IsOneTooMany(S) ==   \* mutant
  /\ Cardinality(Active) > Warm
  /\ S \subseteq Candidates
  /\ Cardinality(S) <= Cardinality(Active) - Warm + 1
IsSurplus(S) ==
  LET over == Cardinality(Active) - Warm
      most == Cardinality(Candidates)
  IN  /\ Cardinality(Active) > Warm
      /\ S \subseteq Candidates
      /\ Cardinality(S) = IF over < most THEN over ELSE most

\* existing, ok := family.children[serviceName]
Lookup(i) == {i} \intersect tracked

Goto(p, l) == pc' = [pc EXCEPT ![p] = l]
Take(p, i) == slot' = [slot EXCEPT ![p] = i]

\* family.children[serviceName] = child, and its registration.
AddChild(i) ==
  /\ tracked' = tracked \union {i}
  /\ busy' = busy \ {i}
  /\ aged' = aged \ {i}
  /\ registered' = registered \union {i}

\* The gateway process ends and a new one begins: only containers survive.
Restart ==
  /\ next' = 1
  /\ tracked' = {} /\ busy' = {} /\ aged' = {} /\ demand' = {}
  /\ registered' = Static
  /\ phase' = "booting"
  /\ cursor' = 1 /\ need' = 0 /\ doomed' = {} /\ closing' = {}
  /\ pc' = [p \in Proc |-> IF p = Manager THEN "adopt" ELSE "idle"]
  /\ slot' = [p \in Proc |-> 0]

Init ==
  /\ next = 1
  /\ tracked = {} /\ busy = {} /\ aged = {} /\ demand = {}
  /\ registered = Static
  /\ phase = "booting"
  /\ cursor = 1 /\ need = 0 /\ doomed = {} /\ closing = {}
  /\ pc = [p \in Proc |-> IF p = Manager THEN "adopt" ELSE "idle"]
  /\ slot = [p \in Proc |-> 0]
  /\ docker = [i \in Index |-> IF i \in Foreign \union Stale THEN "running" ELSE "absent"]
  /\ label = [i \in Index |-> IF i \in Foreign THEN "foreign"
                              ELSE IF i \in Stale THEN "stale" ELSE "managed"]
  /\ faults = 0 /\ crashes = 0

-----------------------------------------------------------------------------
(* spawnChild, run by a requester that grows the pool, by Start and by       *)
(* reconcileFamily.                                                          *)

\* The name is reserved under the mutex by moving nextReplicaIndex.
Reserve(p) ==
  /\ \E i \in Index : IsNextName(i) /\ next' = i + 1 /\ Take(p, i)
  /\ Goto(p, "spawn")
  /\ UNCHANGED <<tracked, busy, aged, registered, demand, phase,
                 mgrVars, closing, dockVars, faults, crashes>>

\* The error return of spawnChild: the request fails, a reconcile pass ends,
\* and Start's caller ends the process.
SpawnError(p) ==
  \/ /\ p = Manager /\ ~Booted
     /\ Restart
  \/ /\ p # Manager \/ Booted
     /\ Goto(p, IF p = Manager THEN "tick" ELSE "idle")
     /\ Take(p, 0)
     /\ UNCHANGED <<poolVars, phase, mgrVars, closing>>

Created(p) ==
  /\ pc[p] = "spawn" /\ docker[slot[p]] = "absent"
  /\ Put(slot[p], "created")
  /\ label' = [label EXCEPT ![slot[p]] = "managed"]
  /\ Goto(p, "created")
  /\ UNCHANGED <<poolVars, phase, mgrVars, closing, slot, faults, crashes>>

\* The engine refuses, or it creates the container and the reply is lost.
CreateFails(p) ==
  /\ pc[p] = "spawn" /\ docker[slot[p]] = "absent"
  /\ Fault
  /\ \/ UNCHANGED dockVars
     \/ /\ Put(slot[p], "created")
        /\ label' = [label EXCEPT ![slot[p]] = "managed"]
  /\ SpawnError(p)
  /\ UNCHANGED crashes

NameConflict(p) ==
  /\ pc[p] = "spawn" /\ docker[slot[p]] # "absent"
  /\ Goto(p, "conflict")
  /\ UNCHANGED <<poolVars, phase, mgrVars, closing, slot, dockVars, faults, crashes>>

Started(p) ==
  /\ pc[p] = "created" /\ docker[slot[p]] = "created"
  /\ Put(slot[p], "running")
  /\ Goto(p, "started")
  /\ UNCHANGED <<poolVars, phase, mgrVars, closing, slot, label, faults, crashes>>

\* StartContainer or the health wait fails and the container is removed.
SpawnAborts(p) ==
  /\ pc[p] \in {"created", "started"}
  /\ Dispose({slot[p]}, 1)
  /\ SpawnError(p)
  /\ UNCHANGED <<label, crashes>>

\* activeCount++ in reconcileFamily's loop.
OwesForever(n) == n   \* mutant
Owed(n) == n - 1

\* The last critical section of spawnChild and of adoptConflictingChild.
Published(p) ==
  /\ AddChild(slot[p])
  /\ Goto(p, IF p # Manager THEN "published" ELSE IF Booted THEN "warming" ELSE "boot")
  /\ IF p = Manager
       THEN /\ Take(p, 0)
            /\ need' = IF Booted THEN Owed(need) ELSE need
            /\ demand' = demand \ {slot[p]}
       ELSE demand' = demand \union {slot[p]} /\ UNCHANGED <<slot, need>>
  /\ UNCHANGED <<next, phase, cursor, doomed, closing, crashes>>

PublishAnyway(p) ==   \* mutant
  /\ pc[p] = "started"
  /\ Published(p)
  /\ UNCHANGED <<dockVars, faults>>
Publish(p) ==
  /\ pc[p] = "started" /\ ~Stopped
  /\ Published(p)
  /\ UNCHANGED <<dockVars, faults>>

PublishStopped(p) ==
  /\ pc[p] = "started" /\ Stopped
  /\ Dispose({slot[p]}, 0)
  /\ SpawnError(p)
  /\ UNCHANGED <<label, crashes>>

Adoptable(i) == docker[i] = "running" /\ label[i] = "managed"

AdoptConflicting(p) ==
  /\ pc[p] = "conflict" /\ Adoptable(slot[p]) /\ ~Stopped
  /\ Published(p)
  /\ UNCHANGED <<dockVars, faults>>

\* Not ours, not running, unhealthy or the pool stopped: the container stays.
ConflictFails(p) ==
  /\ pc[p] = "conflict"
  /\ IF Adoptable(slot[p]) /\ ~Stopped THEN Fault ELSE UNCHANGED faults
  /\ SpawnError(p)
  /\ UNCHANGED <<dockVars, crashes>>

SpawnStep(p) ==
  \/ Created(p) \/ CreateFails(p) \/ NameConflict(p) \/ Started(p) \/ SpawnAborts(p)
  \/ Publish(p) \/ PublishStopped(p) \/ AdoptConflicting(p) \/ ConflictFails(p)

-----------------------------------------------------------------------------
(* Start *)

\* One turn of the loop in adoptExistingChildren that leaves no child.
AdoptSkip ==
  /\ pc[Manager] = "adopt" /\ cursor <= Max
  /\ \/ /\ docker[cursor] # "running"
        /\ UNCHANGED <<next, docker, faults>>
     \/ /\ docker[cursor] = "running" /\ label[cursor] = "stale"
        /\ Dispose({cursor}, 0)
        /\ UNCHANGED next
     \/ /\ docker[cursor] = "running" /\ label[cursor] # "stale"   \* unhealthy
        /\ Fault
        /\ next' = IF cursor >= next THEN cursor + 1 ELSE next
        /\ UNCHANGED docker
  /\ cursor' = cursor + 1
  /\ UNCHANGED <<tracked, busy, aged, registered, demand, phase,
                 need, doomed, closing, procVars, label, crashes>>

Adopt ==
  /\ pc[Manager] = "adopt" /\ cursor <= Max
  /\ docker[cursor] = "running" /\ label[cursor] # "stale"
  /\ AddChild(cursor)
  /\ next' = IF cursor >= next THEN cursor + 1 ELSE next
  /\ cursor' = cursor + 1
  /\ UNCHANGED <<demand, phase, need, doomed, closing, procVars, dockVars, faults, crashes>>

\* An inspection error ends Start and, in main, the process.
AdoptFails ==
  /\ pc[Manager] = "adopt" /\ cursor <= Max
  /\ Fault
  /\ Restart
  /\ UNCHANGED <<dockVars, crashes>>

AdoptDone ==
  /\ pc[Manager] = "adopt" /\ cursor > Max
  /\ Goto(Manager, "boot")
  /\ UNCHANGED <<poolVars, phase, mgrVars, closing, slot, dockVars, faults, crashes>>

BootSpawn ==
  /\ pc[Manager] = "boot" /\ Cardinality(Active) < Warm
  /\ Reserve(Manager)

Boot ==
  /\ pc[Manager] = "boot" /\ Cardinality(Active) >= Warm
  /\ phase' = "serving"
  /\ Goto(Manager, "tick")
  /\ UNCHANGED <<poolVars, mgrVars, closing, slot, dockVars, faults, crashes>>

-----------------------------------------------------------------------------
(* reconcileFamily *)

Tick ==
  /\ pc[Manager] = "tick" /\ ~Stopped
  /\ \E P \in SUBSET Dead :
       /\ Prune(P)
       /\ busy' = busy \ P /\ aged' = aged \ P
       /\ need' = IF Cardinality(tracked \ P) < Warm
                    THEN Warm - Cardinality(tracked \ P) ELSE 0
  /\ Goto(Manager, "warming")
  /\ UNCHANGED <<next, demand, phase, cursor, doomed, closing, slot, dockVars, crashes>>

WarmSpawn ==
  /\ pc[Manager] = "warming" /\ need > 0
  /\ Reserve(Manager)

\* The second critical section: forget the surplus, stop it afterwards.
ScaleDown ==
  /\ pc[Manager] = "warming" /\ need = 0
  /\ \E S \in SUBSET tracked :
       /\ IsSurplus(S)
       /\ tracked' = tracked \ S
       /\ registered' = registered \ S
       /\ aged' = aged \ S
       /\ doomed' = S
  /\ Goto(Manager, "removing")
  /\ UNCHANGED <<next, busy, demand, phase, cursor, need, closing, slot, dockVars, faults, crashes>>

NothingToScale ==
  /\ pc[Manager] = "warming" /\ need = 0
  /\ Cardinality(Active) <= Warm
  /\ Goto(Manager, "tick")
  /\ UNCHANGED <<poolVars, phase, mgrVars, closing, slot, dockVars, faults, crashes>>

RemoveSurplus ==
  /\ pc[Manager] = "removing"
  /\ Dispose(doomed, 0)
  /\ doomed' = {}
  /\ Goto(Manager, "tick")
  /\ UNCHANGED <<poolVars, phase, cursor, need, closing, slot, label, crashes>>

-----------------------------------------------------------------------------
(* Acquire and Release *)

Request(r) ==
  /\ Booted /\ pc[r] = "idle"
  /\ Goto(r, "acquire")
  /\ UNCHANGED <<poolVars, phase, mgrVars, closing, slot, dockVars, faults, crashes>>

Refuse(r) ==
  /\ pc[r] = "acquire" /\ Stopped
  /\ Goto(r, "idle")
  /\ UNCHANGED <<poolVars, phase, mgrVars, closing, slot, dockVars, faults, crashes>>

\* The critical section of one turn of Acquire's loop, with its three ends.
AcquirePass(r) ==
  /\ pc[r] = "acquire" /\ ~Stopped
  /\ \E P \in SUBSET Dead :
       LET left == tracked \ P IN
       /\ Prune(P)
       /\ \/ \E i \in FirstIdle(left) :
               /\ busy' = (busy \ P) \union {i}
               /\ aged' = aged \ (P \union {i})
               /\ Take(r, i) /\ Goto(r, "holding")
          \/ /\ FirstIdle(left) = {}
             /\ Goto(r, IF MayGrow(left) THEN "grow" ELSE "full")
             /\ busy' = busy \ P /\ aged' = aged \ P
             /\ UNCHANGED slot
  /\ UNCHANGED <<next, demand, phase, mgrVars, closing, dockVars, crashes>>

Grow(r) ==
  /\ pc[r] = "grow"
  /\ Reserve(r)

\* After spawnChild: busy is set without a look at what it was.
MarkBusy(r) ==
  /\ pc[r] = "published"
  /\ busy' = busy \union Lookup(slot[r])
  /\ aged' = aged \ {slot[r]}
  /\ Goto(r, "holding")
  /\ UNCHANGED <<next, tracked, registered, demand, phase,
                 mgrVars, closing, slot, dockVars, faults, crashes>>

Retry(r) ==
  /\ pc[r] = "full"
  /\ Goto(r, "acquire")
  /\ UNCHANGED <<poolVars, phase, mgrVars, closing, slot, dockVars, faults, crashes>>

\* The request's context has ended, or the acquire deadline has passed.
GiveUpBeforeGrowing(r) ==   \* mutant
  /\ pc[r] = "full" /\ MayGrow(tracked)
  /\ Goto(r, "idle")
  /\ UNCHANGED <<poolVars, phase, mgrVars, closing, slot, dockVars, faults, crashes>>
GiveUp(r) ==
  /\ pc[r] = "full"
  /\ Goto(r, "idle")
  /\ UNCHANGED <<poolVars, phase, mgrVars, closing, slot, dockVars, faults, crashes>>

Release(r) ==
  /\ pc[r] = "holding"
  /\ busy' = busy \ {slot[r]}
  /\ aged' = aged \ {slot[r]}
  /\ Goto(r, "idle") /\ Take(r, 0)
  /\ UNCHANGED <<next, tracked, registered, demand, phase,
                 mgrVars, closing, dockVars, faults, crashes>>

-----------------------------------------------------------------------------
(* Close, crashes and the world *)

Close ==
  /\ MayClose /\ Booted /\ ~Stopped
  /\ phase' = "closed"
  /\ closing' = {i \in tracked : label[i] # "foreign"}
  /\ UNCHANGED <<poolVars, mgrVars, procVars, dockVars, faults, crashes>>

CloseRemoves ==
  /\ closing # {}
  /\ Dispose(closing, 0)
  /\ closing' = {}
  /\ UNCHANGED <<poolVars, phase, mgrVars, procVars, label, crashes>>

Crash ==
  /\ crashes < MaxCrashes /\ crashes' = crashes + 1
  /\ Restart
  /\ UNCHANGED <<dockVars, faults>>

\* A container dies or is removed by hand.
ContainerLost(i) ==
  /\ docker[i] = "running"
  /\ Fault
  /\ Put(i, "exited") \/ Put(i, "absent")
  /\ UNCHANGED <<poolVars, phase, mgrVars, closing, procVars, label, crashes>>

\* RestartPolicy "unless-stopped".
EngineRestarts(i) ==
  /\ docker[i] = "exited"
  /\ Put(i, "running")
  /\ UNCHANGED <<poolVars, phase, mgrVars, closing, procVars, label, faults, crashes>>

\* An idle child reaches idleScaleDown.
Ages(i) ==
  /\ i \in tracked \ (busy \union aged)
  /\ aged' = aged \union {i}
  /\ UNCHANGED <<next, tracked, busy, registered, demand, phase,
                 mgrVars, closing, procVars, dockVars, faults, crashes>>

ManagerStep ==
  \/ AdoptSkip \/ Adopt \/ AdoptFails \/ AdoptDone \/ BootSpawn \/ Boot
  \/ Tick \/ WarmSpawn \/ ScaleDown \/ NothingToScale \/ RemoveSurplus
  \/ SpawnStep(Manager)

RequesterStep(r) ==
  \/ Refuse(r) \/ AcquirePass(r) \/ Grow(r) \/ MarkBusy(r) \/ Retry(r) \/ Release(r)
  \/ SpawnStep(r)

Next ==
  \/ ManagerStep
  \/ \E r \in Requester : RequesterStep(r) \/ Request(r) \/ GiveUp(r)
  \/ Close \/ CloseRemoves \/ Crash
  \/ \E i \in Index : ContainerLost(i) \/ EngineRestarts(i) \/ Ages(i)

Spec == Init /\ [][Next]_vars

\* The gateway's goroutines run until they block; a call returns; a request
\* that keeps finding the pool full meets its deadline.  Nothing obliges a
\* client to ask, a process to crash or the engine to restart a container.
Fairness ==
  /\ WF_vars(ManagerStep)
  /\ \A r \in Requester : WF_vars(RequesterStep(r)) /\ SF_vars(GiveUp(r))

FairSpec == Spec /\ Fairness

-----------------------------------------------------------------------------
(* Properties *)

SpawnStage == {"spawn", "created", "started", "conflict"}
Stage == SpawnStage \union
  {"adopt", "boot", "tick", "warming", "removing",
   "idle", "acquire", "grow", "full", "published", "holding"}

\* Every variable has its type; the sets of children are sets of tracked ones.
TypeOK ==
  /\ next \in 1 .. (MaxIndex + 1)
  /\ tracked \subseteq Index /\ busy \subseteq tracked /\ aged \subseteq tracked
  /\ registered \subseteq Index /\ demand \subseteq Index
  /\ phase \in {"booting", "serving", "closed"}
  /\ cursor \in 1 .. (Max + 1) /\ need \in 0 .. Warm
  /\ doomed \subseteq Index /\ closing \subseteq Index
  /\ pc \in [Proc -> Stage] /\ slot \in [Proc -> 0 .. MaxIndex]
  /\ docker \in [Index -> {"absent", "created", "running", "exited"}]
  /\ label \in [Index -> {"managed", "foreign", "stale"}]
  /\ faults \in 0 .. MaxFaults /\ crashes \in 0 .. MaxCrashes

Spawning(p) == pc[p] \in SpawnStage
Leased(p) == pc[p] \in {"published", "holding"}

\* A name reserved for a spawn is no child's, no other spawn's and no lease's:
\* release and reconcile find a child by name alone, so a name used twice
\* would let a late Release free somebody else's child.
SpawnNamesFresh ==
  \A p \in Proc : Spawning(p) =>
    /\ slot[p] \notin tracked
    /\ \A q \in Proc \ {p} : Spawning(q) \/ Leased(q) => slot[q] # slot[p]

\* A child is routable exactly while the pool tracks it, but for the names
\* the configuration file seeds: a prune, a scale-down or a late spawn leaves
\* no service behind and hides none.
RegistryTracksPool == tracked \subseteq registered /\ registered \subseteq tracked \union Static

\* Two requests hold one child only if the child was spawned on demand: the
\* children of Start, of adoption and of reconcileFamily are exclusive.
WarmChildExclusive ==
  \A r, s \in Requester :
    r # s /\ pc[r] = "holding" /\ pc[s] = "holding" /\ slot[r] = slot[s]
      => slot[r] \in demand

\* A scale-down never stops a child that a request holds, as long as the
\* child was not spawned on demand.
DoomedNotLeased ==
  \A r \in Requester : pc[r] = "holding" /\ slot[r] \in doomed => slot[r] \in demand

Spawners == {r \in Requester : Spawning(r) \/ pc[r] = "grow"}
Load == Cardinality(tracked) + Cardinality(Spawners) + need

\* maxReplicas is checked before the mutex is dropped, so a burst exceeds it,
\* but the children, the spawns under way and those a reconcile pass still
\* owes never outnumber the requests in flight plus the warm floor, or
\* maxReplicas where that is more.
OvershootBounded == Load <= Max \/ Load <= Cardinality(Requester) + Warm

\* After Close no child joins the pool, whatever was being spawned.
ClosedPoolOnlyShrinks == [][Stopped /\ Stopped' => tracked' \subseteq tracked]_vars

\* A scale-down leaves the warm floor standing.
ScaleDownKeepsFloor ==
  [][doomed = {} /\ doomed' # {} => Cardinality(tracked') >= Warm]_vars

-----------------------------------------------------------------------------

\* Every Acquire returns, with a lease or an error.
AcquireReturns ==
  \A r \in Requester : (pc[r] = "acquire") ~> (pc[r] \in {"holding", "idle"})

Serving == {i \in tracked : docker[i] = "running"}

\* A gateway that is serving gets back to the warm floor after every loss.
WarmFloorRestored == []<>(Stopped \/ ~Booted \/ Cardinality(Serving) >= Warm)

-----------------------------------------------------------------------------
(* What the repository says and the code does not keep *)

\* README.md:88, "one local isolated execution lane" per child: a child serves
\* one request at a time.
ExclusiveLease ==
  \A r, s \in Requester :
    r # s /\ pc[r] = "holding" /\ pc[s] = "holding" => slot[r] # slot[s]

\* docs/configuration.md:41, maxReplicas bounds the child containers.
ReplicaCap == Cardinality(tracked) <= Max

\* README.md:82, "easy-protocol keeps the warm floor".
WarmFloorKept == []<>(Stopped \/ Cardinality(Serving) >= Warm)

\* README.md:85, "when demand falls, it removes surplus child containers back
\* down to the configured warm floor".
SurplusRemoved ==
  (<>[][~\E r \in Requester : Request(r)]_vars)
    => []<>(Stopped \/ Cardinality({i \in Index : docker[i] = "running"}) <= Warm)

=============================================================================

------------------------ MODULE ContainerPoolProofs ------------------------
(***************************************************************************)
(* The safety of the container pool for every number of requesters, every  *)
(* warm floor and every cap.                                               *)
(***************************************************************************)
EXTENDS ContainerPool, FiniteSetTheorems, TLAPS

ManagerStage == {"adopt", "boot", "tick", "warming", "removing"}
RequesterStage == {"idle", "acquire", "grow", "full", "published", "holding"}

\* What each goroutine can be doing, before and after Start returns.
Control ==
  /\ pc[Manager] \in SpawnStage \union ManagerStage
  /\ \A r \in Requester : pc[r] \in SpawnStage \union RequesterStage
  /\ pc[Manager] \in {"adopt", "boot"} => ~Booted
  /\ pc[Manager] \in {"tick", "warming", "removing"} => Booted
  /\ Booted /\ Spawning(Manager) => need > 0
  /\ ~Booted => /\ need = 0 /\ busy = {} /\ doomed = {} /\ ~Stopped
                /\ \A r \in Requester : pc[r] = "idle"

\* nextReplicaIndex is above every name in use, and no two uses share a name.
Names ==
  /\ \A i \in tracked \union demand \union doomed : i < next
  /\ \A p \in Proc : Spawning(p) \/ Leased(p) => slot[p] \in Index /\ slot[p] < next
  /\ \A p \in Proc : Spawning(p) => slot[p] \notin tracked \union demand \union doomed
  /\ \A p, q \in Proc : p # q /\ Spawning(p) /\ (Spawning(q) \/ Leased(q)) => slot[p] # slot[q]

\* A lease on a child that was not spawned on demand is its only lease, and
\* keeps the child busy for as long as the pool tracks it.
Leases ==
  /\ \A r \in Requester : pc[r] = "published" => slot[r] \in demand
  /\ \A r \in Requester :
       pc[r] = "holding" /\ slot[r] \in tracked \ demand => slot[r] \in busy
  /\ doomed \intersect tracked = {}
  /\ WarmChildExclusive
  /\ DoomedNotLeased

IInv == TypeOK /\ Control /\ Names /\ Leases /\ RegistryTracksPool

-----------------------------------------------------------------------------

USE ReplicaAssumption, ProcAssumption, IndexAssumption, BoundAssumption
  DEF ReplicaAssumption, ProcAssumption, IndexAssumption, BoundAssumption, Booted, Stopped

LEMMA FiniteSubsets == \A S \in SUBSET Index : IsFiniteSet(S) /\ Cardinality(S) \in Nat
<1>1. IsFiniteSet(Index)
  BY FS_Interval DEF Index
<1>2. QED
  BY <1>1, FS_Subset, FS_CardinalityType

\* Restart establishes the invariant, whatever the containers are.
LEMMA RestartSafe ==
  ASSUME Restart,
         docker' \in [Index -> {"absent", "created", "running", "exited"}],
         label' \in [Index -> {"managed", "foreign", "stale"}],
         faults' \in 0 .. MaxFaults, crashes' \in 0 .. MaxCrashes
  PROVE  IInv'
<1>1. TypeOK'
  <2>1. pc' \in [Proc -> Stage] /\ slot' \in [Proc -> 0 .. MaxIndex]
    BY DEF Restart, Stage
  <2>2. QED
    BY <2>1 DEF Restart, TypeOK
<1>2. Control'
  BY DEF Restart, Control, Proc, Spawning, SpawnStage, ManagerStage, RequesterStage
<1>3. Names' /\ Leases' /\ RegistryTracksPool'
  BY DEF Restart, Names, Leases, RegistryTracksPool, Proc, Spawning, Leased, SpawnStage,
         WarmChildExclusive, DoomedNotLeased
<1>4. QED
  BY <1>1, <1>2, <1>3 DEF IInv

LEMMA InitSafe == Init => IInv
<1> SUFFICES ASSUME Init PROVE IInv
  OBVIOUS
<1>1. TypeOK
  <2>1. pc \in [Proc -> Stage] /\ slot \in [Proc -> 0 .. MaxIndex]
    BY DEF Init, Stage
  <2>2. /\ docker \in [Index -> {"absent", "created", "running", "exited"}]
        /\ label \in [Index -> {"managed", "foreign", "stale"}]
    BY DEF Init
  <2>3. QED
    BY <2>1, <2>2 DEF Init, TypeOK
<1>2. Control
  BY DEF Init, Control, Proc, Spawning, SpawnStage, ManagerStage, RequesterStage
<1>3. Names /\ Leases /\ RegistryTracksPool
  BY DEF Init, Names, Leases, RegistryTracksPool, Proc, Spawning, Leased, SpawnStage,
         WarmChildExclusive, DoomedNotLeased
<1>4. QED
  BY <1>1, <1>2, <1>3 DEF IInv

\* The part of the state a failed spawn leaves alone keeps the invariant.
LEMMA SpawnErrorSafe ==
  ASSUME IInv, NEW p \in Proc, Spawning(p), SpawnError(p),
         docker' \in [Index -> {"absent", "created", "running", "exited"}],
         label' \in [Index -> {"managed", "foreign", "stale"}],
         faults' \in 0 .. MaxFaults, crashes' \in 0 .. MaxCrashes
  PROVE  IInv'
<1>1. CASE p = Manager /\ ~Booted
  BY <1>1, RestartSafe DEF SpawnError
<1>2. CASE p # Manager \/ Booted
  <2>1. /\ pc' = [pc EXCEPT ![p] = IF p = Manager THEN "tick" ELSE "idle"]
        /\ slot' = [slot EXCEPT ![p] = 0]
        /\ UNCHANGED <<poolVars, phase, mgrVars, closing>>
    BY <1>2 DEF SpawnError, Goto, Take, Booted
  <2> USE <2>1 DEF poolVars, mgrVars, IInv
  <2>2. TypeOK'
    BY DEF TypeOK, Stage, Proc
  <2>3. Control'
    BY <1>2 DEF TypeOK, Control, Proc, Spawning, SpawnStage, ManagerStage, RequesterStage
  <2>4. Names'
    BY DEF TypeOK, Names, Proc, Spawning, Leased, SpawnStage
  <2>5. Leases' /\ RegistryTracksPool'
    BY DEF TypeOK, Leases, RegistryTracksPool, Proc, WarmChildExclusive, DoomedNotLeased
  <2>6. QED
    BY <2>2, <2>3, <2>4, <2>5
<1>3. QED
  BY <1>1, <1>2

\* Stopping and removing containers keeps the engine's state well-typed.
LEMMA DisposeType ==
  ASSUME TypeOK, NEW S \in SUBSET Index, NEW cost, Dispose(S, cost)
  PROVE  /\ docker' \in [Index -> {"absent", "created", "running", "exited"}]
         /\ faults' \in 0 .. MaxFaults
BY DEF TypeOK, Dispose

\* A name taken from nextReplicaIndex is a name nothing uses.
LEMMA ReserveSafe ==
  ASSUME IInv, NEW p \in Proc, Reserve(p), ~Spawning(p), ~Leased(p),
         p = Manager \/ Booted, p = Manager /\ Booted => need > 0
  PROVE  IInv'
<1>1. PICK i \in Index :
        /\ i >= next /\ next' = i + 1
        /\ slot' = [slot EXCEPT ![p] = i] /\ pc' = [pc EXCEPT ![p] = "spawn"]
        /\ UNCHANGED <<tracked, busy, aged, registered, demand, phase, mgrVars, closing,
                       dockVars, faults, crashes>>
  BY DEF Reserve, IsNextName, Goto, Take
<1>2. i \in 1 .. MaxIndex /\ next \in Nat
  BY DEF Index, IInv, TypeOK
<1> USE <1>1, <1>2 DEF mgrVars, dockVars, IInv
<1>3. TypeOK'
  <2>1. pc' \in [Proc -> Stage] /\ slot' \in [Proc -> 0 .. MaxIndex]
    BY DEF TypeOK, Stage, SpawnStage
  <2>2. QED
    BY <2>1 DEF TypeOK
<1>4. Control'
  BY DEF TypeOK, Control, Proc, Spawning, SpawnStage, ManagerStage, RequesterStage
<1>5. Names'
  <2>1. \A j \in tracked \union demand \union doomed : j < i + 1 /\ j # i
    BY DEF TypeOK, Names, Index
  <2>2. \A q \in Proc \ {p} : Spawning(q) \/ Leased(q) => slot[q] < i + 1 /\ slot[q] # i
    BY DEF TypeOK, Names, Index
  <2>3. \A q \in Proc \ {p} : /\ slot'[q] = slot[q] /\ pc'[q] = pc[q]
                              /\ Spawning(q)' <=> Spawning(q)
                              /\ Leased(q)' <=> Leased(q)
    BY DEF TypeOK, Spawning, Leased
  <2>4. slot'[p] = i /\ pc'[p] = "spawn" /\ Spawning(p)'
    BY DEF TypeOK, Spawning, SpawnStage
  <2>5. \A q \in Proc : Spawning(q)' \/ Leased(q)' => slot'[q] \in Index /\ slot'[q] < next'
    BY <2>2, <2>3, <2>4 DEF Names
  <2>6. \A q \in Proc : Spawning(q)' => slot'[q] \notin tracked \union demand \union doomed
    BY <2>1, <2>3, <2>4 DEF Names
  <2>7. \A q, o \in Proc :
          q # o /\ Spawning(q)' /\ (Spawning(o)' \/ Leased(o)') => slot'[q] # slot'[o]
    BY <2>2, <2>3, <2>4 DEF Names
  <2>8. QED
    BY <2>1, <2>5, <2>6, <2>7 DEF Names
<1>6. Leases' /\ RegistryTracksPool'
  BY DEF TypeOK, Leases, RegistryTracksPool, Proc, WarmChildExclusive, DoomedNotLeased,
         Leased
<1>7. QED
  BY <1>3, <1>4, <1>5, <1>6

\* The spawned or adopted child joins the pool under a name nothing else uses.
LEMMA PublishedSafe ==
  ASSUME IInv, NEW p \in Proc, Spawning(p), ~Stopped, Published(p),
         UNCHANGED <<dockVars, faults>>
  PROVE  IInv'
<1>1. slot[p] \in Index /\ slot[p] \in 1 .. MaxIndex
  BY DEF IInv, Names, Index
<1>2. /\ tracked' = tracked \union {slot[p]} /\ busy' = busy \ {slot[p]}
      /\ aged' = aged \ {slot[p]} /\ registered' = registered \union {slot[p]}
      /\ pc' = [pc EXCEPT ![p] = IF p # Manager THEN "published"
                                 ELSE IF Booted THEN "warming" ELSE "boot"]
      /\ UNCHANGED <<next, phase, cursor, doomed, closing, crashes, docker, label, faults>>
  BY DEF Published, AddChild, Goto, dockVars
<1>3. CASE p = Manager
  <2>1. /\ slot' = [slot EXCEPT ![p] = 0] /\ demand' = demand \ {slot[p]}
        /\ need' = IF Booted THEN need - 1 ELSE need
    BY <1>3 DEF Published, Take, Owed
  <2>2. Booted => need > 0
    BY <1>3 DEF IInv, Control
  <2> USE <1>1, <1>2, <1>3, <2>1, <2>2 DEF IInv
  <2>3. TypeOK'
    <3>1. pc' \in [Proc -> Stage] /\ slot' \in [Proc -> 0 .. MaxIndex]
      BY DEF TypeOK, Stage
    <3>2. need' \in 0 .. Warm
      BY DEF TypeOK
    <3>3. QED
      BY <3>1, <3>2 DEF TypeOK
  <2>4. Control'
    BY DEF TypeOK, Control, Proc, Spawning, SpawnStage, ManagerStage, RequesterStage
  <2>5. Names'
    BY DEF TypeOK, Names, Proc, Spawning, Leased, SpawnStage
  <2>6. Leases' /\ RegistryTracksPool'
    BY DEF TypeOK, Leases, RegistryTracksPool, Names, Proc, WarmChildExclusive,
           DoomedNotLeased, Spawning, Leased
  <2>7. QED
    BY <2>3, <2>4, <2>5, <2>6
<1>4. CASE p # Manager
  <2>1. demand' = demand \union {slot[p]} /\ UNCHANGED <<slot, need>>
    BY <1>4 DEF Published
  <2>2. Booted
    BY <1>4 DEF IInv, Control, Spawning, SpawnStage, Proc
  <2> USE <1>1, <1>2, <1>4, <2>1, <2>2 DEF IInv
  <2>3. TypeOK'
    <3>1. pc' \in [Proc -> Stage]
      BY DEF TypeOK, Stage
    <3>2. QED
      BY <3>1 DEF TypeOK
  <2>4. Control'
    BY DEF TypeOK, Control, Proc, Spawning, SpawnStage, ManagerStage, RequesterStage
  <2>5. Names'
    BY DEF TypeOK, Names, Proc, Spawning, Leased, SpawnStage
  <2>6. Leases' /\ RegistryTracksPool'
    BY DEF TypeOK, Leases, RegistryTracksPool, Names, Proc, WarmChildExclusive,
           DoomedNotLeased, Spawning, Leased
  <2>7. QED
    BY <2>3, <2>4, <2>5, <2>6
<1>5. QED
  BY <1>3, <1>4


\* A step of spawnChild that changes what p does next and nothing the pool
\* or its manager keeps.
LEMMA SpawnMoveSafe ==
  ASSUME IInv, NEW p \in Proc, Spawning(p),
         NEW l \in SpawnStage, pc' = [pc EXCEPT ![p] = l],
         UNCHANGED <<poolVars, phase, mgrVars, closing, slot, crashes>>,
         docker' \in [Index -> {"absent", "created", "running", "exited"}],
         label' \in [Index -> {"managed", "foreign", "stale"}],
         faults' \in 0 .. MaxFaults
  PROVE  IInv'
<1> USE DEF poolVars, mgrVars, IInv
<1>1. TypeOK'
  <2>1. pc' \in [Proc -> Stage]
    BY DEF TypeOK, Stage
  <2>2. QED
    BY <2>1 DEF TypeOK
<1>2. Control'
  BY DEF TypeOK, Control, Proc, Spawning, SpawnStage, ManagerStage, RequesterStage
<1>3. Names'
  BY DEF TypeOK, Names, Proc, Spawning, Leased, SpawnStage
<1>4. Leases' /\ RegistryTracksPool'
  BY DEF TypeOK, Leases, RegistryTracksPool, Proc, WarmChildExclusive, DoomedNotLeased,
         Spawning, SpawnStage
<1>5. QED
  BY <1>1, <1>2, <1>3, <1>4

LEMMA SpawnStepSafe ==
  ASSUME IInv, NEW p \in Proc, SpawnStep(p)
  PROVE  IInv'
<1>1. TypeOK /\ Spawning(p)
  BY DEF SpawnStep, Created, CreateFails, NameConflict, Started, SpawnAborts, Publish,
         PublishStopped, AdoptConflicting, ConflictFails, Spawning, SpawnStage, IInv
<1>2. slot[p] \in Index
  BY <1>1 DEF IInv, Names
<1>3. CASE Created(p) \/ NameConflict(p) \/ Started(p)
  <2>1. \E l \in SpawnStage : pc' = [pc EXCEPT ![p] = l]
    BY <1>3 DEF Created, NameConflict, Started, Goto, SpawnStage
  <2>2. /\ UNCHANGED <<poolVars, phase, mgrVars, closing, slot, crashes, faults>>
        /\ docker' \in [Index -> {"absent", "created", "running", "exited"}]
        /\ label' \in [Index -> {"managed", "foreign", "stale"}]
    BY <1>1, <1>2, <1>3 DEF Created, NameConflict, Started, Put, dockVars, TypeOK
  <2>3. faults' \in 0 .. MaxFaults
    BY <1>1, <2>2 DEF TypeOK
  <2>4. QED
    BY <1>1, <2>1, <2>2, <2>3, SpawnMoveSafe
<1>4. CASE CreateFails(p) \/ SpawnAborts(p) \/ PublishStopped(p) \/ ConflictFails(p)
  <2>1. SpawnError(p)
    BY <1>4 DEF CreateFails, SpawnAborts, PublishStopped, ConflictFails
  <2>2. docker' \in [Index -> {"absent", "created", "running", "exited"}]
    <3>1. CASE CreateFails(p) \/ ConflictFails(p)
      BY <1>1, <1>2, <3>1 DEF CreateFails, ConflictFails, Put, dockVars, TypeOK
    <3>2. CASE SpawnAborts(p) \/ PublishStopped(p)
      BY <1>1, <1>2, <3>2, DisposeType DEF SpawnAborts, PublishStopped
    <3>3. QED
      BY <1>4, <3>1, <3>2
  <2>3. label' \in [Index -> {"managed", "foreign", "stale"}]
    BY <1>1, <1>2, <1>4
       DEF CreateFails, SpawnAborts, PublishStopped, ConflictFails, dockVars, TypeOK
  <2>4. faults' \in 0 .. MaxFaults
    <3>1. CASE CreateFails(p) \/ ConflictFails(p)
      BY <1>1, <3>1 DEF CreateFails, ConflictFails, Fault, TypeOK
    <3>2. CASE SpawnAborts(p) \/ PublishStopped(p)
      BY <3>2 DEF SpawnAborts, PublishStopped, Dispose
    <3>3. QED
      BY <1>4, <3>1, <3>2
  <2>5. crashes' \in 0 .. MaxCrashes
    BY <1>1, <1>4 DEF CreateFails, SpawnAborts, PublishStopped, ConflictFails, TypeOK
  <2>6. QED
    BY <1>1, <2>1, <2>2, <2>3, <2>4, <2>5, SpawnErrorSafe
<1>5. CASE Publish(p) \/ AdoptConflicting(p)
  BY <1>1, <1>5, PublishedSafe DEF Publish, AdoptConflicting
<1>6. QED
  BY <1>3, <1>4, <1>5 DEF SpawnStep

-----------------------------------------------------------------------------
(* The goroutine of Start and reconcileLoop *)

LEMMA ManagerStepSafe ==
  ASSUME IInv, ManagerStep
  PROVE  IInv'
<1> USE DEF IInv
<1>0. Manager \in Proc /\ Max \in Nat /\ Warm \in Nat
  BY DEF Proc
<1>1. CASE AdoptSkip \/ Adopt
  <2>1. /\ pc[Manager] = "adopt" /\ cursor \in 1 .. Max /\ cursor \in Index
        /\ cursor' = cursor + 1
        /\ next' \in {next, cursor + 1}
        /\ next' > next \/ next' = next
        /\ UNCHANGED <<pc, slot, demand, phase, need, doomed, closing, label, crashes>>
    BY <1>1 DEF AdoptSkip, Adopt, procVars, dockVars, TypeOK, Index
  <2>2. /\ docker' \in [Index -> {"absent", "created", "running", "exited"}]
        /\ faults' \in 0 .. MaxFaults
    <3>1. CASE AdoptSkip
      BY <2>1, <3>1, DisposeType DEF AdoptSkip, Fault, TypeOK
    <3>2. CASE Adopt
      BY <3>2 DEF Adopt, dockVars, TypeOK
    <3>3. QED
      BY <1>1, <3>1, <3>2
  <2>3. \/ UNCHANGED <<tracked, busy, aged, registered>>
        \/ /\ tracked' = tracked \union {cursor} /\ busy' = busy \ {cursor}
           /\ aged' = aged \ {cursor} /\ registered' = registered \union {cursor}
           /\ next' > cursor
    BY <1>1, <2>1 DEF AdoptSkip, Adopt, AddChild, TypeOK
  <2>4. /\ ~Booted /\ need = 0 /\ busy = {} /\ doomed = {}
        /\ \A p \in Proc : ~Spawning(p) /\ ~Leased(p)
    BY <2>1 DEF Control, Proc, Spawning, Leased, SpawnStage
  <2>5. next' \in 1 .. (MaxIndex + 1)
    BY <2>1 DEF TypeOK, Index
  <2>6. TypeOK'
    <3>1. /\ tracked' \subseteq Index /\ busy' \subseteq tracked' /\ aged' \subseteq tracked'
          /\ registered' \subseteq Index
      BY <2>1, <2>3 DEF TypeOK
    <3>2. cursor' \in 1 .. (Max + 1)
      BY <2>1
    <3>3. QED
      BY <2>1, <2>2, <2>5, <3>1, <3>2 DEF TypeOK
  <2>7. Control'
    BY <2>1, <2>3, <2>4 DEF Control, Spawning
  <2>8. Names'
    <3>1. \A i \in tracked' \union demand' \union doomed' : i < next'
      <4>1. \A i \in tracked \union demand \union doomed : i \in Nat /\ i < next
        BY DEF Names, TypeOK, Index
      <4>2. next \in Nat /\ next' \in Nat /\ next' >= next
        BY <2>1 DEF TypeOK
      <4>3. \/ tracked' = tracked
            \/ tracked' = tracked \union {cursor} /\ cursor < next'
        BY <2>1, <2>3, <4>2
      <4>4. QED
        BY <2>1, <4>1, <4>2, <4>3
    <3>2. \A p \in Proc : ~Spawning(p)' /\ ~Leased(p)'
      BY <2>1, <2>4 DEF Spawning, Leased
    <3>3. QED
      BY <3>1, <3>2 DEF Names
  <2>9. Leases' /\ RegistryTracksPool'
    BY <2>1, <2>3, <2>4 DEF Leases, RegistryTracksPool, WarmChildExclusive, DoomedNotLeased,
                            Proc, Leased
  <2>10. QED
    BY <2>6, <2>7, <2>8, <2>9
<1>2. CASE AdoptFails
  <2>1. faults' \in 0 .. MaxFaults /\ Restart
    BY <1>2 DEF AdoptFails, Fault, TypeOK
  <2>2. QED
    BY <1>2, <2>1, RestartSafe DEF AdoptFails, dockVars, TypeOK
<1>3. CASE BootSpawn \/ WarmSpawn
  <2>1. Reserve(Manager) /\ pc[Manager] \in {"boot", "warming"}
    BY <1>3 DEF BootSpawn, WarmSpawn
  <2>2. Booted => need > 0
    BY <1>3 DEF BootSpawn, WarmSpawn, Control
  <2>3. QED
    BY <1>0, <2>1, <2>2, ReserveSafe DEF Spawning, Leased, SpawnStage
<1>4. CASE AdoptDone \/ Boot \/ NothingToScale
  <2>1. \E l \in {"boot", "tick"} :
          /\ pc' = [pc EXCEPT ![Manager] = l]
          /\ \/ l = "boot" /\ phase' = phase /\ ~Booted
             \/ l = "tick" /\ phase' = "serving" /\ ~Booted
             \/ l = "tick" /\ phase' = phase /\ Booted
    BY <1>4 DEF AdoptDone, Boot, NothingToScale, Goto, Control
  <2>2. /\ pc[Manager] \in ManagerStage
        /\ UNCHANGED <<poolVars, mgrVars, closing, slot, dockVars, faults, crashes>>
    BY <1>4 DEF AdoptDone, Boot, NothingToScale, ManagerStage
  <2> USE <1>0, <2>1, <2>2 DEF poolVars, mgrVars, dockVars
  <2>3. TypeOK'
    <3>1. pc' \in [Proc -> Stage]
      BY DEF TypeOK, Stage
    <3>2. QED
      BY <3>1 DEF TypeOK
  <2>4. Control'
    BY DEF TypeOK, Control, Proc, Spawning, SpawnStage, ManagerStage, RequesterStage
  <2>5. Names'
    BY DEF TypeOK, Names, Proc, Spawning, Leased, SpawnStage
  <2>6. Leases' /\ RegistryTracksPool'
    BY DEF TypeOK, Leases, RegistryTracksPool, Proc, WarmChildExclusive, DoomedNotLeased
  <2>7. QED
    BY <2>3, <2>4, <2>5, <2>6
<1>5. CASE Tick
  <2>1. PICK P \in SUBSET Dead :
          /\ tracked' = tracked \ P /\ registered' = registered \ P
          /\ busy' = busy \ P /\ aged' = aged \ P
          /\ faults' \in 0 .. MaxFaults
          /\ need' = IF Cardinality(tracked \ P) < Warm
                       THEN Warm - Cardinality(tracked \ P) ELSE 0
    BY <1>5 DEF Tick, Prune
  <2>2. /\ pc[Manager] = "tick" /\ Booted /\ pc' = [pc EXCEPT ![Manager] = "warming"]
        /\ UNCHANGED <<next, demand, phase, cursor, doomed, closing, slot, docker, label,
                       crashes>>
    BY <1>5 DEF Tick, Goto, dockVars, Control
  <2>3. P \subseteq tracked /\ Cardinality(tracked \ P) \in Nat
    BY <2>1, FiniteSubsets DEF Dead, TypeOK
  <2> USE <1>0, <2>1, <2>2, <2>3
  <2>4. TypeOK'
    <3>1. pc' \in [Proc -> Stage]
      BY DEF TypeOK, Stage
    <3>2. need' \in 0 .. Warm
      OBVIOUS
    <3>3. QED
      BY <3>1, <3>2 DEF TypeOK
  <2>5. Control'
    BY DEF TypeOK, Control, Proc, Spawning, SpawnStage, ManagerStage, RequesterStage
  <2>6. Names'
    BY DEF TypeOK, Names, Proc, Spawning, Leased, SpawnStage
  <2>7. Leases' /\ RegistryTracksPool'
    BY DEF TypeOK, Leases, RegistryTracksPool, Proc, WarmChildExclusive, DoomedNotLeased
  <2>8. QED
    BY <2>4, <2>5, <2>6, <2>7
<1>6. CASE ScaleDown
  <2>1. PICK S \in SUBSET tracked :
          /\ S \subseteq tracked \ busy
          /\ tracked' = tracked \ S /\ registered' = registered \ S
          /\ aged' = aged \ S /\ doomed' = S
    BY <1>6 DEF ScaleDown, IsSurplus, Candidates
  <2>2. /\ pc[Manager] = "warming" /\ Booted /\ pc' = [pc EXCEPT ![Manager] = "removing"]
        /\ UNCHANGED <<next, busy, demand, phase, cursor, need, closing, slot, docker, label,
                       faults, crashes>>
    BY <1>6 DEF ScaleDown, Goto, dockVars, Control
  <2> USE <1>0, <2>1, <2>2
  <2>3. TypeOK'
    <3>1. pc' \in [Proc -> Stage]
      BY DEF TypeOK, Stage
    <3>2. QED
      BY <3>1 DEF TypeOK
  <2>4. Control'
    BY DEF TypeOK, Control, Proc, Spawning, SpawnStage, ManagerStage, RequesterStage
  <2>5. Names'
    BY DEF TypeOK, Names, Proc, Spawning, Leased, SpawnStage
  <2>6. Leases' /\ RegistryTracksPool'
    BY DEF TypeOK, Leases, RegistryTracksPool, Proc, WarmChildExclusive, DoomedNotLeased
  <2>7. QED
    BY <2>3, <2>4, <2>5, <2>6
<1>7. CASE RemoveSurplus
  <2>1. /\ pc[Manager] = "removing" /\ pc' = [pc EXCEPT ![Manager] = "tick"] /\ doomed' = {}
        /\ UNCHANGED <<poolVars, phase, cursor, need, closing, slot, label, crashes>>
    BY <1>7 DEF RemoveSurplus, Goto
  <2>2. /\ docker' \in [Index -> {"absent", "created", "running", "exited"}]
        /\ faults' \in 0 .. MaxFaults
    BY <1>7, DisposeType DEF RemoveSurplus, TypeOK
  <2> USE <1>0, <2>1, <2>2 DEF poolVars
  <2>3. TypeOK'
    <3>1. pc' \in [Proc -> Stage]
      BY DEF TypeOK, Stage
    <3>2. QED
      BY <3>1 DEF TypeOK
  <2>4. Control'
    BY DEF TypeOK, Control, Proc, Spawning, SpawnStage, ManagerStage, RequesterStage
  <2>5. Names'
    BY DEF TypeOK, Names, Proc, Spawning, Leased, SpawnStage
  <2>6. Leases' /\ RegistryTracksPool'
    BY DEF TypeOK, Leases, RegistryTracksPool, Proc, WarmChildExclusive, DoomedNotLeased
  <2>7. QED
    BY <2>3, <2>4, <2>5, <2>6
<1>8. QED
  BY <1>0, <1>1, <1>2, <1>3, <1>4, <1>5, <1>6, <1>7, SpawnStepSafe DEF ManagerStep

-----------------------------------------------------------------------------
(* The requesters *)

LEMMA RequesterStepSafe ==
  ASSUME IInv, NEW r \in Requester, RequesterStep(r) \/ Request(r) \/ GiveUp(r)
  PROVE  IInv'
<1> USE DEF IInv
<1>0. r \in Proc /\ r # Manager
  BY DEF Proc
<1>1. CASE Refuse(r) \/ Retry(r) \/ GiveUp(r) \/ Request(r)
  <2>1. PICK l \in {"idle", "acquire"} : pc' = [pc EXCEPT ![r] = l]
    BY <1>1 DEF Refuse, Retry, GiveUp, Request, Goto
  <2>2. /\ pc[r] \in {"idle", "acquire", "full"} /\ Booted
        /\ UNCHANGED <<poolVars, phase, mgrVars, closing, slot, dockVars, faults, crashes>>
    BY <1>1 DEF Refuse, Retry, GiveUp, Request, Control
  <2> USE <1>0, <2>1, <2>2 DEF poolVars, mgrVars, dockVars
  <2>3. TypeOK'
    <3>1. pc' \in [Proc -> Stage]
      BY DEF TypeOK, Stage
    <3>2. QED
      BY <3>1 DEF TypeOK
  <2>4. Control'
    BY DEF TypeOK, Control, Proc, Spawning, SpawnStage, ManagerStage, RequesterStage
  <2>5. Names'
    BY DEF TypeOK, Names, Proc, Spawning, Leased, SpawnStage
  <2>6. Leases' /\ RegistryTracksPool'
    BY DEF TypeOK, Leases, RegistryTracksPool, Proc, WarmChildExclusive, DoomedNotLeased
  <2>7. QED
    BY <2>3, <2>4, <2>5, <2>6
<1>2. CASE AcquirePass(r)
  <2>1. PICK P \in SUBSET Dead :
          /\ tracked' = tracked \ P /\ registered' = registered \ P
          /\ faults' \in 0 .. MaxFaults
          /\ \/ \E i \in (tracked \ P) \ busy :
                  /\ busy' = (busy \ P) \union {i} /\ aged' = aged \ (P \union {i})
                  /\ slot' = [slot EXCEPT ![r] = i]
                  /\ pc' = [pc EXCEPT ![r] = "holding"]
             \/ \E l \in {"grow", "full"} :
                  /\ busy' = busy \ P /\ aged' = aged \ P
                  /\ pc' = [pc EXCEPT ![r] = l] /\ slot' = slot
    BY <1>2 DEF AcquirePass, Prune, FirstIdle, Goto, Take
  <2>2. /\ pc[r] = "acquire" /\ Booted
        /\ UNCHANGED <<next, demand, phase, cursor, need, doomed, closing, docker, label,
                       crashes>>
    BY <1>2 DEF AcquirePass, mgrVars, dockVars, Control
  <2>3. CASE \E i \in (tracked \ P) \ busy :
               /\ busy' = (busy \ P) \union {i} /\ aged' = aged \ (P \union {i})
               /\ slot' = [slot EXCEPT ![r] = i]
               /\ pc' = [pc EXCEPT ![r] = "holding"]
    <3>1. PICK i \in (tracked \ P) \ busy :
               /\ busy' = (busy \ P) \union {i} /\ aged' = aged \ (P \union {i})
               /\ slot' = [slot EXCEPT ![r] = i]
               /\ pc' = [pc EXCEPT ![r] = "holding"]
      BY <2>3
    <3> USE <1>0, <2>1, <2>2, <3>1
    <3>2. i \in 1 .. MaxIndex
      BY DEF TypeOK, Index
    <3>3. TypeOK'
      <4>1. pc' \in [Proc -> Stage] /\ slot' \in [Proc -> 0 .. MaxIndex]
        BY <3>2 DEF TypeOK, Stage
      <4>2. busy' \subseteq tracked' /\ aged' \subseteq tracked'
        BY DEF TypeOK
      <4>3. QED
        BY <4>1, <4>2 DEF TypeOK
    <3>4. Control'
      BY DEF TypeOK, Control, Proc, Spawning, SpawnStage, ManagerStage, RequesterStage
    <3>5. Names'
      BY DEF TypeOK, Names, Proc, Spawning, Leased, SpawnStage
    <3>6. Leases' /\ RegistryTracksPool'
      BY DEF TypeOK, Leases, RegistryTracksPool, Proc, WarmChildExclusive, DoomedNotLeased
    <3>7. QED
      BY <3>3, <3>4, <3>5, <3>6
  <2>4. CASE \E l \in {"grow", "full"} :
               /\ busy' = busy \ P /\ aged' = aged \ P
               /\ pc' = [pc EXCEPT ![r] = l] /\ slot' = slot
    <3> USE <1>0, <2>1, <2>2, <2>4
    <3>1. TypeOK'
      <4>1. pc' \in [Proc -> Stage]
        BY DEF TypeOK, Stage
      <4>2. busy' \subseteq tracked' /\ aged' \subseteq tracked'
        BY DEF TypeOK
      <4>3. QED
        BY <4>1, <4>2 DEF TypeOK
    <3>2. Control'
      BY DEF TypeOK, Control, Proc, Spawning, SpawnStage, ManagerStage, RequesterStage
    <3>3. Names'
      BY DEF TypeOK, Names, Proc, Spawning, Leased, SpawnStage
    <3>4. Leases' /\ RegistryTracksPool'
      BY DEF TypeOK, Leases, RegistryTracksPool, Proc, WarmChildExclusive, DoomedNotLeased
    <3>5. QED
      BY <3>1, <3>2, <3>3, <3>4
  <2>5. QED
    BY <2>1, <2>3, <2>4
<1>3. CASE Grow(r)
  BY <1>0, <1>3, ReserveSafe DEF Grow, Spawning, Leased, SpawnStage, Control
<1>4. CASE MarkBusy(r)
  <2>1. /\ pc[r] = "published" /\ Booted
        /\ busy' = busy \union ({slot[r]} \intersect tracked) /\ aged' = aged \ {slot[r]}
        /\ pc' = [pc EXCEPT ![r] = "holding"]
        /\ UNCHANGED <<next, tracked, registered, demand, phase, cursor, need, doomed,
                       closing, slot, docker, label, faults, crashes>>
    BY <1>4 DEF MarkBusy, Lookup, Goto, mgrVars, dockVars, Control
  <2> USE <1>0, <2>1
  <2>2. TypeOK'
    <3>1. pc' \in [Proc -> Stage]
      BY DEF TypeOK, Stage
    <3>2. busy' \subseteq tracked' /\ aged' \subseteq tracked'
      <4>1. aged' \subseteq aged
        OBVIOUS
      <4>2. QED
        BY <4>1 DEF TypeOK
    <3>3. QED
      BY <3>1, <3>2 DEF TypeOK
  <2>3. Control'
    BY DEF TypeOK, Control, Proc, Spawning, SpawnStage, ManagerStage, RequesterStage
  <2>4. Names'
    BY DEF TypeOK, Names, Proc, Spawning, Leased, SpawnStage
  <2>5. Leases' /\ RegistryTracksPool'
    BY DEF TypeOK, Leases, RegistryTracksPool, Proc, WarmChildExclusive, DoomedNotLeased
  <2>6. QED
    BY <2>2, <2>3, <2>4, <2>5
<1>5. CASE Release(r)
  <2>1. /\ pc[r] = "holding" /\ Booted
        /\ busy' = busy \ {slot[r]} /\ aged' = aged \ {slot[r]}
        /\ pc' = [pc EXCEPT ![r] = "idle"] /\ slot' = [slot EXCEPT ![r] = 0]
        /\ UNCHANGED <<next, tracked, registered, demand, phase, cursor, need, doomed,
                       closing, docker, label, faults, crashes>>
    BY <1>5 DEF Release, Goto, Take, mgrVars, dockVars, Control
  <2> USE <1>0, <2>1
  <2>2. TypeOK'
    <3>1. pc' \in [Proc -> Stage] /\ slot' \in [Proc -> 0 .. MaxIndex]
      BY DEF TypeOK, Stage
    <3>2. QED
      BY <3>1 DEF TypeOK
  <2>3. Control'
    BY DEF TypeOK, Control, Proc, Spawning, SpawnStage, ManagerStage, RequesterStage
  <2>4. Names'
    BY DEF TypeOK, Names, Proc, Spawning, Leased, SpawnStage
  <2>5. Leases' /\ RegistryTracksPool'
    BY DEF TypeOK, Leases, RegistryTracksPool, Proc, WarmChildExclusive, DoomedNotLeased
  <2>6. QED
    BY <2>2, <2>3, <2>4, <2>5
<1>6. QED
  BY <1>0, <1>1, <1>2, <1>3, <1>4, <1>5, SpawnStepSafe DEF RequesterStep

-----------------------------------------------------------------------------
(* Close, crashes and the world *)

LEMMA WorldStepSafe ==
  ASSUME IInv,
         Close \/ CloseRemoves \/ Crash
           \/ \E i \in Index : ContainerLost(i) \/ EngineRestarts(i) \/ Ages(i)
  PROVE  IInv'
<1> USE DEF IInv
<1>1. CASE Crash
  BY <1>1, RestartSafe DEF Crash, dockVars, TypeOK
<1>2. CASE Close \/ CloseRemoves \/ \E i \in Index : ContainerLost(i) \/ EngineRestarts(i)
  <2>1. /\ UNCHANGED <<poolVars, mgrVars, procVars, label, crashes>>
        /\ phase' = phase \/ (phase = "serving" /\ phase' = "closed")
        /\ closing' \subseteq Index
    BY <1>2 DEF Close, CloseRemoves, ContainerLost, EngineRestarts, dockVars, TypeOK
  <2>2. /\ docker' \in [Index -> {"absent", "created", "running", "exited"}]
        /\ faults' \in 0 .. MaxFaults
    <3>1. CASE CloseRemoves
      BY <3>1, DisposeType DEF CloseRemoves, TypeOK
    <3>2. CASE Close \/ \E i \in Index : ContainerLost(i) \/ EngineRestarts(i)
      BY <3>2 DEF Close, ContainerLost, EngineRestarts, Put, Fault, dockVars, TypeOK
    <3>3. QED
      BY <1>2, <3>1, <3>2
  <2> USE <2>1, <2>2 DEF poolVars, mgrVars, procVars
  <2>3. TypeOK'
    BY DEF TypeOK
  <2>4. Control'
    BY DEF Control, Spawning
  <2>5. Names'
    BY DEF Names, Spawning, Leased
  <2>6. Leases' /\ RegistryTracksPool'
    BY DEF Leases, RegistryTracksPool, WarmChildExclusive, DoomedNotLeased
  <2>7. QED
    BY <2>3, <2>4, <2>5, <2>6
<1>3. CASE \E i \in Index : Ages(i)
  <2>1. /\ aged' \subseteq tracked
        /\ UNCHANGED <<next, tracked, busy, registered, demand, phase, mgrVars, closing,
                       procVars, dockVars, faults, crashes>>
    BY <1>3 DEF Ages, TypeOK
  <2> USE <2>1 DEF mgrVars, procVars, dockVars
  <2>2. TypeOK'
    BY DEF TypeOK
  <2>3. Control' /\ Names'
    BY DEF Control, Names, Spawning, Leased
  <2>4. Leases' /\ RegistryTracksPool'
    BY DEF Leases, RegistryTracksPool, WarmChildExclusive, DoomedNotLeased
  <2>5. QED
    BY <2>2, <2>3, <2>4
<1>4. QED
  BY <1>1, <1>2, <1>3

LEMMA NextSafe == IInv /\ [Next]_vars => IInv'
<1> SUFFICES ASSUME IInv, [Next]_vars PROVE IInv'
  OBVIOUS
<1>1. CASE UNCHANGED vars
  <2> USE <1>1 DEF vars, poolVars, mgrVars, procVars, dockVars, IInv
  <2>1. TypeOK'
    BY DEF TypeOK
  <2>2. Control' /\ Names'
    BY DEF Control, Names, Spawning, Leased
  <2>3. Leases' /\ RegistryTracksPool'
    BY DEF Leases, RegistryTracksPool, WarmChildExclusive, DoomedNotLeased
  <2>4. QED
    BY <2>1, <2>2, <2>3
<1>2. CASE Next
  BY <1>2, ManagerStepSafe, RequesterStepSafe, WorldStepSafe DEF Next
<1>3. QED
  BY <1>1, <1>2

-----------------------------------------------------------------------------
(* The theorems *)

\* The pool of every family keeps the inductive invariant: the types, what
\* each goroutine may be doing, the names in use and the leases.
THEOREM Invariance == Spec => []IInv
<1>1. QED
  BY InitSafe, NextSafe, PTL DEF Spec

\* Every variable keeps its type, for every family and every set of requests.
THEOREM TypeCorrect == Spec => []TypeOK
<1>1. IInv => TypeOK
  BY DEF IInv
<1>2. QED
  BY <1>1, Invariance, PTL

\* spawnChild never reuses a name: nextReplicaIndex moves before the mutex is
\* dropped, so two spawns, or a spawn and a lease, never share a child.
THEOREM NamesNeverReused == Spec => []SpawnNamesFresh
<1>1. IInv => SpawnNamesFresh
  BY DEF IInv, Names, SpawnNamesFresh
<1>2. QED
  BY <1>1, Invariance, PTL

\* The router sees the children the pool tracks, and the configured names.
THEOREM RoutesAreChildren == Spec => []RegistryTracksPool
<1>1. IInv => RegistryTracksPool
  BY DEF IInv
<1>2. QED
  BY <1>1, Invariance, PTL

\* A child that Start, an adoption or reconcileFamily made serves one request
\* at a time.
THEOREM WarmLeasesExclusive == Spec => []WarmChildExclusive
<1>1. IInv => WarmChildExclusive
  BY DEF IInv, Leases
<1>2. QED
  BY <1>1, Invariance, PTL

\* A scale-down stops no child a request holds, unless it was spawned on demand.
THEOREM ScaleDownSparesLeases == Spec => []DoomedNotLeased
<1>1. IInv => DoomedNotLeased
  BY DEF IInv, Leases
<1>2. QED
  BY <1>1, Invariance, PTL

\* A spawn that ends after Close publishes nothing.
THEOREM NothingJoinsAfterClose == Spec => ClosedPoolOnlyShrinks
<1>1. IInv /\ [Next]_vars => (Stopped /\ Stopped' => tracked' \subseteq tracked)
  <2> SUFFICES ASSUME IInv, [Next]_vars, phase = "closed", phase' = "closed"
               PROVE  tracked' \subseteq tracked
    OBVIOUS
  <2> USE DEF poolVars
  <2>1. ASSUME NEW p \in Proc, SpawnStep(p) PROVE tracked' \subseteq tracked
    <3>1. CASE Created(p) \/ NameConflict(p) \/ Started(p)
      BY <3>1 DEF Created, NameConflict, Started
    <3>2. CASE CreateFails(p) \/ SpawnAborts(p) \/ PublishStopped(p) \/ ConflictFails(p)
      BY <3>2 DEF CreateFails, SpawnAborts, PublishStopped, ConflictFails, SpawnError
    <3>3. CASE Publish(p) \/ AdoptConflicting(p)
      BY <3>3 DEF Publish, AdoptConflicting
    <3>4. QED
      BY <2>1, <3>1, <3>2, <3>3 DEF SpawnStep
  <2>2. CASE ManagerStep
    <3>1. pc[Manager] # "adopt"
      BY DEF IInv, Control
    <3>2. QED
      BY <2>1, <2>2, <3>1
         DEF ManagerStep, AdoptSkip, Adopt, AdoptFails, AdoptDone, BootSpawn, Boot, Tick,
             WarmSpawn, ScaleDown, NothingToScale, RemoveSurplus, Reserve, Prune, Proc
  <2>3. CASE \E r \in Requester : RequesterStep(r) \/ Request(r) \/ GiveUp(r)
    BY <2>1, <2>3
       DEF RequesterStep, Request, GiveUp, Refuse, AcquirePass, Grow, MarkBusy, Retry,
           Release, Reserve, Prune, Proc
  <2>4. CASE \/ Close \/ CloseRemoves \/ Crash
             \/ \E i \in Index : ContainerLost(i) \/ EngineRestarts(i) \/ Ages(i)
    BY <2>4 DEF Close, CloseRemoves, Crash, Restart, ContainerLost, EngineRestarts, Ages
  <2>5. QED
    BY <2>2, <2>3, <2>4 DEF Next, vars
<1>2. QED
  BY <1>1, Invariance, PTL DEF Spec, ClosedPoolOnlyShrinks

\* A scale-down takes at most what is above the warm floor.
THEOREM FloorSurvivesScaleDown == Spec => ScaleDownKeepsFloor
<1>1. IInv /\ [Next]_vars => (doomed = {} /\ doomed' # {} => Cardinality(tracked') >= Warm)
  <2> SUFFICES ASSUME IInv, [Next]_vars, doomed = {}, doomed' # {}
               PROVE  Cardinality(tracked') >= Warm
    OBVIOUS
  <2> USE DEF mgrVars
  <2>1. ASSUME NEW p \in Proc, SpawnStep(p) PROVE FALSE
    <3>1. doomed' = doomed \/ Restart
      BY <2>1 DEF SpawnStep, Created, CreateFails, NameConflict, Started, SpawnAborts, Publish,
                  PublishStopped, AdoptConflicting, ConflictFails, SpawnError, Published
    <3>2. QED
      BY <3>1 DEF Restart
  <2>2. CASE ManagerStep
    <3>1. ScaleDown
      BY <2>1, <2>2
         DEF ManagerStep, AdoptSkip, Adopt, AdoptFails, AdoptDone, BootSpawn, Boot, Tick,
             WarmSpawn, NothingToScale, RemoveSurplus, Reserve, Restart, Proc
    <3>2. PICK S \in SUBSET tracked :
            /\ tracked' = tracked \ S /\ Cardinality(tracked) > Warm
            /\ \/ Cardinality(S) = Cardinality(tracked) - Warm
               \/ Cardinality(S) <= Cardinality(tracked) - Warm
      <4>1. PICK S \in SUBSET tracked : IsSurplus(S) /\ tracked' = tracked \ S
        BY <3>1 DEF ScaleDown
      <4>2. Active = tracked
        <5>1. Cardinality(Active) > Warm
          BY <4>1 DEF IsSurplus
        <5>2. Cardinality({}) = 0
          BY FS_EmptySet
        <5>3. QED
          BY <5>1, <5>2 DEF Active
      <4>3. Candidates \subseteq tracked
        BY DEF Candidates
      <4>4. Cardinality(tracked) \in Nat /\ Cardinality(Candidates) \in Nat
        BY <4>3, FiniteSubsets DEF IInv, TypeOK
      <4>5. QED
        BY <4>1, <4>2, <4>4 DEF IsSurplus
    <3>3. IsFiniteSet(tracked) /\ tracked \intersect S = S
      BY <3>2, FiniteSubsets DEF IInv, TypeOK
    <3>4. Cardinality(tracked \ S) = Cardinality(tracked) - Cardinality(S)
      BY <3>3, FS_Difference
    <3>5. Cardinality(tracked) \in Nat /\ Cardinality(S) \in Nat
      BY <3>2, FiniteSubsets DEF IInv, TypeOK
    <3>6. QED
      BY <3>2, <3>4, <3>5
  <2>3. CASE \E r \in Requester : RequesterStep(r) \/ Request(r) \/ GiveUp(r)
    BY <2>1, <2>3
       DEF RequesterStep, Request, GiveUp, Refuse, AcquirePass, Grow, MarkBusy, Retry,
           Release, Reserve, Proc
  <2>4. CASE \/ Close \/ CloseRemoves \/ Crash
             \/ \E i \in Index : ContainerLost(i) \/ EngineRestarts(i) \/ Ages(i)
    BY <2>4 DEF Close, CloseRemoves, Crash, Restart, ContainerLost, EngineRestarts, Ages
  <2>5. QED
    BY <2>2, <2>3, <2>4 DEF Next, vars
<1>2. QED
  BY <1>1, Invariance, PTL DEF Spec, ScaleDownKeepsFloor

-----------------------------------------------------------------------------
(***************************************************************************)
(* How far a burst of requests can take a family above maxReplicas.  A     *)
(* request grows the pool only when every child is busy, every busy child  *)
(* is held by a request, and a request that holds a child spawns none:     *)
(* children and spawns together never outnumber the requests.              *)
(***************************************************************************)

\* A busy child is held by a request.
BusyHeld == \A i \in busy : \E r \in Requester : pc[r] = "holding" /\ slot[r] = i

\* Before Start returns only adopted children and the warm floor are there.
BootBound ==
  /\ pc[Manager] = "adopt" => \A i \in tracked : i < cursor
  /\ ~Booted => Cardinality(tracked) <= Max
  /\ ~Booted /\ Spawning(Manager) => Cardinality(tracked) < Warm

BInv == BusyHeld /\ BootBound /\ OvershootBounded

Holders == {r \in Requester : pc[r] = "holding"}


LEMMA Sizes ==
  ASSUME TypeOK
  PROVE  /\ IsFiniteSet(tracked) /\ Cardinality(tracked) \in Nat
         /\ IsFiniteSet(Requester) /\ Cardinality(Requester) \in Nat
         /\ IsFiniteSet(Spawners) /\ Cardinality(Spawners) \in Nat
         /\ need \in Nat /\ Load \in Nat
         /\ Warm \in Nat /\ Max \in Nat /\ Warm <= Max
<1>1. IsFiniteSet(tracked) /\ Cardinality(tracked) \in Nat
  BY FiniteSubsets DEF TypeOK
<1>2. IsFiniteSet(Requester) /\ Cardinality(Requester) \in Nat
  BY FS_CardinalityType
<1>3. IsFiniteSet(Spawners) /\ Cardinality(Spawners) \in Nat
  BY <1>2, FS_Subset, FS_CardinalityType DEF Spawners
<1>4. need \in Nat
  BY DEF TypeOK
<1>5. QED
  BY <1>1, <1>2, <1>3, <1>4 DEF Load

LEMMA DisjointSizes ==
  \A S, T : IsFiniteSet(S) /\ IsFiniteSet(T) /\ S \intersect T = {}
              => Cardinality(S \union T) = Cardinality(S) + Cardinality(T)
<1> SUFFICES ASSUME NEW S, NEW T, IsFiniteSet(S), IsFiniteSet(T), S \intersect T = {}
             PROVE  Cardinality(S \union T) = Cardinality(S) + Cardinality(T)
  OBVIOUS
<1>1. Cardinality(S \intersect T) = 0
  BY FS_EmptySet
<1>2. Cardinality(S) \in Nat /\ Cardinality(T) \in Nat
  BY FS_CardinalityType
<1>3. Cardinality(S \union T)
        = Cardinality(S) + Cardinality(T) - Cardinality(S \intersect T)
  BY FS_Union
<1>4. QED
  BY <1>1, <1>2, <1>3

\* A step that adds no child, no spawn and no debt keeps the bound.
LEMMA LoadShrinks ==
  ASSUME TypeOK, TypeOK', OvershootBounded,
         tracked' \subseteq tracked, Spawners' \subseteq Spawners, need' <= need
  PROVE  OvershootBounded'
<1>1. Cardinality(tracked') <= Cardinality(tracked) /\ Cardinality(tracked') \in Nat
  BY Sizes, FS_Subset, FS_CardinalityType
<1>2. Cardinality(Spawners') <= Cardinality(Spawners) /\ Cardinality(Spawners') \in Nat
  BY Sizes, FS_Subset, FS_CardinalityType
<1>3. need' \in Nat
  BY DEF TypeOK
<1>4. Load' <= Load /\ Load' \in Nat
  BY <1>1, <1>2, <1>3, Sizes DEF Load
<1>5. QED
  BY <1>4, Sizes DEF OvershootBounded

\* A goroutine that holds nothing moves, and no child becomes busy.
LEMMA HeldKept ==
  ASSUME TypeOK, BusyHeld, busy' \subseteq busy, NEW p \in Proc, pc[p] # "holding",
         \A q \in Proc \ {p} : pc'[q] = pc[q] /\ slot'[q] = slot[q]
  PROVE  BusyHeld'
BY DEF BusyHeld, Proc

\* Only as many children are busy as requests hold one.
LEMMA BusyIsBounded ==
  ASSUME TypeOK, BusyHeld, NEW S \in SUBSET busy
  PROVE  Cardinality(S) <= Cardinality(Holders)
<1> DEFINE T == {slot[r] : r \in Holders}
           f == [r \in Holders |-> slot[r]]
<1>1. IsFiniteSet(Holders)
  BY Sizes, FS_Subset DEF Holders
<1>2. f \in Surjection(Holders, T)
  BY DEF Surjection
<1>3. IsFiniteSet(T) /\ Cardinality(T) <= Cardinality(Holders)
  BY <1>1, <1>2, FS_Surjection
<1>4. S \subseteq T
  BY DEF BusyHeld, Holders
<1>5. Cardinality(S) <= Cardinality(T)
  BY <1>3, <1>4, FS_Subset
<1>6. Cardinality(S) \in Nat /\ Cardinality(T) \in Nat /\ Cardinality(Holders) \in Nat
  BY <1>1, <1>3, <1>4, FS_Subset, FS_CardinalityType
<1>7. QED
  BY <1>3, <1>5, <1>6

LEMMA RestartBounded ==
  ASSUME Restart, TypeOK, TypeOK', OvershootBounded
  PROVE  BInv'
<1>1. BusyHeld' /\ tracked' = {} /\ Spawners' = {} /\ need' = 0 /\ ~Spawning(Manager)'
  BY DEF Restart, BusyHeld, Spawners, Spawning, SpawnStage, Proc
<1>2. OvershootBounded'
  BY <1>1, LoadShrinks DEF TypeOK
<1>3. Cardinality(tracked') = 0
  BY <1>1, FS_EmptySet
<1>4. BootBound'
  BY <1>1, <1>3 DEF BootBound
<1>5. QED
  BY <1>1, <1>2, <1>4 DEF BInv


\* Once Start has returned the bounds of the boot say nothing.
LEMMA ServingHasNoBootBound ==
  ASSUME IInv', Booted'
  PROVE  BootBound'
BY DEF BootBound, IInv, Control

LEMMA PublishedBounded ==
  ASSUME IInv, IInv', BInv, NEW p \in Proc, Spawning(p), Published(p)
  PROVE  BInv'
<1> USE DEF IInv
<1>1. /\ tracked' = tracked \union {slot[p]} /\ slot[p] \notin tracked /\ busy' \subseteq busy
      /\ phase' = phase
      /\ pc' = [pc EXCEPT ![p] = IF p # Manager THEN "published"
                                 ELSE IF Booted THEN "warming" ELSE "boot"]
      /\ \A q \in Proc \ {p} : slot'[q] = slot[q]
  BY DEF Published, AddChild, Goto, Take, Names, TypeOK
<1>2. pc[p] # "holding" /\ \A q \in Proc \ {p} : pc'[q] = pc[q]
  BY <1>1 DEF Spawning, SpawnStage, TypeOK
<1>3. BusyHeld'
  BY <1>1, <1>2, HeldKept DEF BInv
<1>4. Cardinality(tracked') = Cardinality(tracked) + 1
  BY <1>1, Sizes, FS_AddElement
<1>5. CASE p # Manager
  <2>1. p \in Spawners /\ need' = need /\ Booted
    BY <1>5 DEF Spawners, Proc, Published, Control, Spawning, SpawnStage
  <2>2. Spawners' = Spawners \ {p}
    BY <1>1, <1>2, <1>5, <2>1 DEF Spawners, Spawning, SpawnStage, TypeOK, Proc
  <2>3. Cardinality(Spawners') = Cardinality(Spawners) - 1
    BY <2>1, <2>2, Sizes, FS_RemoveElement
  <2>4. Load' = Load
    BY <1>4, <2>1, <2>3, Sizes DEF Load
  <2>5. OvershootBounded'
    BY <2>4 DEF BInv, OvershootBounded
  <2>6. BootBound'
    BY <1>1, <2>1, ServingHasNoBootBound
  <2>7. QED
    BY <1>3, <2>5, <2>6 DEF BInv
<1>6. CASE p = Manager /\ Booted
  <2>1. need' = need - 1
    BY <1>6 DEF Published, Owed
  <2>2. Spawners' = Spawners
    BY <1>1, <1>2, <1>6 DEF Spawners, Spawning, Proc
  <2>3. Load' = Load
    BY <1>4, <2>1, <2>2, Sizes DEF Load
  <2>4. OvershootBounded'
    BY <2>3 DEF BInv, OvershootBounded
  <2>5. BootBound'
    BY <1>1, <1>6, ServingHasNoBootBound
  <2>6. QED
    BY <1>3, <2>4, <2>5 DEF BInv
<1>7. CASE p = Manager /\ ~Booted
  <2>1. Cardinality(tracked') <= Warm
    BY <1>4, <1>7, Sizes DEF BInv, BootBound
  <2>2. need' = 0 /\ Spawners' = {} /\ pc'[Manager] = "boot"
    BY <1>1, <1>2, <1>7 DEF Published, Control, Spawners, Spawning, SpawnStage, Proc, TypeOK
  <2>3. Load' = Cardinality(tracked')
    BY <1>4, <2>2, FS_EmptySet, Sizes DEF Load
  <2>4. OvershootBounded'
    BY <2>1, <2>3, <1>4, Sizes DEF OvershootBounded
  <2>5. BootBound'
    BY <1>4, <2>1, <2>2, Sizes DEF BootBound, Spawning, SpawnStage
  <2>6. QED
    BY <1>3, <2>4, <2>5 DEF BInv
<1>8. QED
  BY <1>5, <1>6, <1>7

LEMMA SpawnStepBounded ==
  ASSUME IInv, IInv', BInv, NEW p \in Proc, SpawnStep(p)
  PROVE  BInv'
<1> USE DEF IInv
<1>1. Spawning(p)
  BY DEF SpawnStep, Created, CreateFails, NameConflict, Started, SpawnAborts, Publish,
         PublishStopped, AdoptConflicting, ConflictFails, Spawning, SpawnStage
<1>2. CASE Created(p) \/ NameConflict(p) \/ Started(p)
  <2>1. \E l \in SpawnStage : pc' = [pc EXCEPT ![p] = l]
    BY <1>2 DEF Created, NameConflict, Started, Goto, SpawnStage
  <2>2. UNCHANGED <<poolVars, phase, mgrVars, closing, slot>>
    BY <1>2 DEF Created, NameConflict, Started
  <2>3. Spawners' \subseteq Spawners /\ (Spawning(Manager)' => Spawning(Manager))
    BY <1>1, <2>1 DEF Spawners, Spawning, SpawnStage, TypeOK, Proc
  <2>4. OvershootBounded'
    BY <2>2, <2>3, Sizes, LoadShrinks DEF BInv, poolVars, mgrVars
  <2>5. BusyHeld'
    BY <1>1, <2>1, <2>2, HeldKept DEF BInv, poolVars, Spawning, SpawnStage, TypeOK
  <2>6. BootBound'
    BY <1>1, <2>1, <2>2, <2>3
       DEF BInv, BootBound, poolVars, mgrVars, TypeOK, Proc, Spawning, SpawnStage
  <2>7. QED
    BY <2>4, <2>5, <2>6 DEF BInv
<1>3. CASE CreateFails(p) \/ SpawnAborts(p) \/ PublishStopped(p) \/ ConflictFails(p)
  <2>1. SpawnError(p)
    BY <1>3 DEF CreateFails, SpawnAborts, PublishStopped, ConflictFails
  <2>2. CASE Restart
    BY <2>2, RestartBounded DEF BInv
  <2>3. CASE ~Restart
    <3>1. /\ \E l \in {"tick", "idle"} : pc' = [pc EXCEPT ![p] = l]
          /\ slot' = [slot EXCEPT ![p] = 0]
          /\ UNCHANGED <<poolVars, phase, mgrVars>>
          /\ Booted
      BY <1>1, <2>1, <2>3 DEF SpawnError, Goto, Take, Control, Proc, Spawning, SpawnStage
    <3>2. Spawners' \subseteq Spawners
      BY <1>1, <3>1 DEF Spawners, Spawning, SpawnStage, TypeOK, Proc
    <3>3. OvershootBounded'
      BY <3>1, <3>2, Sizes, LoadShrinks DEF BInv, poolVars, mgrVars
    <3>4. BusyHeld'
      BY <1>1, <3>1, HeldKept DEF BInv, poolVars, Spawning, SpawnStage, TypeOK
    <3>5. BootBound'
      BY <3>1, ServingHasNoBootBound
    <3>6. QED
      BY <3>3, <3>4, <3>5 DEF BInv
  <2>4. QED
    BY <2>2, <2>3
<1>4. CASE Publish(p) \/ AdoptConflicting(p)
  BY <1>1, <1>4, PublishedBounded DEF Publish, AdoptConflicting
<1>5. QED
  BY <1>2, <1>3, <1>4 DEF SpawnStep

LEMMA ManagerStepBounded ==
  ASSUME IInv, IInv', BInv, ManagerStep
  PROVE  BInv'
<1> USE DEF IInv
<1>0. Manager \in Proc /\ Manager \notin Requester
  BY DEF Proc
<1>1. CASE SpawnStep(Manager)
  BY <1>0, <1>1, SpawnStepBounded
<1>2. CASE AdoptFails
  BY <1>2, RestartBounded DEF AdoptFails, BInv
<1>3. CASE AdoptSkip \/ AdoptDone \/ BootSpawn \/ Boot \/ WarmSpawn \/ ScaleDown
             \/ NothingToScale \/ RemoveSurplus
  <2>1. /\ tracked' \subseteq tracked /\ busy' = busy /\ need' = need
        /\ pc[Manager] \in {"adopt", "boot", "warming", "removing"}
        /\ \E l \in Stage : pc' = [pc EXCEPT ![Manager] = l]
        /\ \A q \in Proc \ {Manager} : slot'[q] = slot[q]
    BY <1>0, <1>3
       DEF AdoptSkip, AdoptDone, BootSpawn, Boot, WarmSpawn, ScaleDown, NothingToScale,
           RemoveSurplus, Reserve, Goto, Take, poolVars, mgrVars, procVars, TypeOK, Stage,
           SpawnStage
  <2>2. \A q \in Proc \ {Manager} : pc'[q] = pc[q]
    BY <2>1 DEF TypeOK
  <2>3. Spawners' = Spawners
    BY <1>0, <2>2 DEF Spawners, Spawning, Proc
  <2>4. OvershootBounded'
    BY <2>1, <2>3, Sizes, LoadShrinks DEF BInv
  <2>5. BusyHeld'
    BY <1>0, <2>1, <2>2, HeldKept DEF BInv
  <2>6. BootBound'
    <3>1. CASE AdoptSkip
      <4>1. /\ cursor \in Nat /\ cursor' = cursor + 1
            /\ UNCHANGED <<tracked, phase, pc>>
        BY <3>1 DEF AdoptSkip, procVars, TypeOK
      <4>2. \A i \in tracked : i \in Nat
        BY DEF TypeOK, Index
      <4>3. \A i \in tracked : i < cursor'
        BY <3>1, <4>1, <4>2 DEF AdoptSkip, BInv, BootBound
      <4>4. ~Spawning(Manager)'
        BY <3>1, <4>1 DEF AdoptSkip, Spawning, SpawnStage
      <4>5. Cardinality(tracked') <= Max
        BY <3>1, <4>1 DEF AdoptSkip, Control, BInv, BootBound
      <4>6. QED
        BY <4>1, <4>3, <4>4, <4>5 DEF BootBound
    <3>2. CASE BootSpawn
      <4>1. Cardinality(tracked) < Warm /\ UNCHANGED <<tracked, phase>>
        BY <3>2 DEF BootSpawn, Reserve, Active, Control
      <4>2. pc'[Manager] = "spawn"
        BY <1>0, <3>2 DEF BootSpawn, Reserve, Goto, TypeOK
      <4>3. QED
        BY <4>1, <4>2, Sizes DEF BootBound
    <3>3. CASE AdoptDone
      BY <1>0, <3>3 DEF AdoptDone, Goto, poolVars, TypeOK, BInv, BootBound, Spawning, SpawnStage
    <3>4. CASE Boot \/ WarmSpawn \/ ScaleDown \/ NothingToScale \/ RemoveSurplus
      <4>1. Booted'
        BY <3>4 DEF Boot, WarmSpawn, ScaleDown, NothingToScale, RemoveSurplus, Reserve, Control
      <4>2. QED
        BY <4>1, ServingHasNoBootBound
    <3>5. QED
      BY <1>3, <3>1, <3>2, <3>3, <3>4
  <2>7. QED
    BY <2>4, <2>5, <2>6 DEF BInv
<1>4. CASE Adopt
  <2>1. /\ pc[Manager] = "adopt" /\ cursor \in 1 .. Max /\ cursor' = cursor + 1
        /\ tracked' = tracked \union {cursor} /\ busy' \subseteq busy
        /\ UNCHANGED <<pc, slot, need, phase>>
    BY <1>4 DEF Adopt, AddChild, procVars, TypeOK
  <2>2. /\ need = 0 /\ \A r \in Requester : pc[r] = "idle"
        /\ ~Booted /\ ~Spawning(Manager)
    BY <2>1 DEF Control, Spawning, SpawnStage
  <2>3. \A i \in tracked' : i < cursor'
    <3>1. \A i \in tracked : i \in Nat /\ i < cursor
      BY <2>1 DEF BInv, BootBound, TypeOK, Index
    <3>2. QED
      BY <2>1, <3>1
  <2>4. tracked' \subseteq 1 .. cursor
    BY <2>1, <2>3 DEF TypeOK, Index
  <2>5. Cardinality(tracked') <= Max /\ Cardinality(tracked') \in Nat
    <3>1. IsFiniteSet(1 .. cursor) /\ Cardinality(1 .. cursor) = cursor
      BY <2>1, FS_Interval
    <3>2. Cardinality(tracked') <= Cardinality(1 .. cursor) /\ Cardinality(tracked') \in Nat
      BY <2>4, <3>1, FS_Subset, FS_CardinalityType
    <3>3. QED
      BY <2>1, <3>1, <3>2
  <2>6. Spawners' = {}
    BY <2>1, <2>2 DEF Spawners, Spawning, SpawnStage
  <2>7. Load' = Cardinality(tracked')
    BY <2>1, <2>2, <2>5, <2>6, FS_EmptySet DEF Load
  <2>8. OvershootBounded'
    BY <2>5, <2>7 DEF OvershootBounded
  <2>9. BusyHeld' /\ BootBound'
    BY <2>1, <2>2, <2>3, <2>5 DEF BInv, BusyHeld, BootBound, Spawning
  <2>10. QED
    BY <2>8, <2>9 DEF BInv
<1>5. CASE Tick
  <2>1. PICK P \in SUBSET Dead :
          /\ tracked' = tracked \ P /\ busy' = busy \ P
          /\ need' = IF Cardinality(tracked \ P) < Warm
                       THEN Warm - Cardinality(tracked \ P) ELSE 0
    BY <1>5 DEF Tick, Prune
  <2>2. /\ pc[Manager] = "tick" /\ Booted /\ pc' = [pc EXCEPT ![Manager] = "warming"]
        /\ UNCHANGED <<phase, slot>>
    BY <1>5 DEF Tick, Goto, Control
  <2>3. Spawners' = Spawners
    BY <1>0, <2>2 DEF Spawners, Spawning, Proc, TypeOK
  <2>4. BusyHeld'
    BY <1>0, <2>1, <2>2, HeldKept DEF BInv, TypeOK
  <2>5. BootBound'
    BY <2>2, ServingHasNoBootBound
  <2>6. OvershootBounded'
    <3>1. CASE need' = 0
      BY <2>1, <2>3, <3>1, Sizes, LoadShrinks DEF BInv
    <3>2. CASE need' # 0
      <4>1. Cardinality(tracked') \in Nat /\ need' = Warm - Cardinality(tracked')
        BY <2>1, <3>2, Sizes, FS_Subset, FS_CardinalityType
      <4>2. Load' = Warm + Cardinality(Spawners)
        BY <2>3, <4>1, Sizes DEF Load
      <4>3. Cardinality(Spawners) <= Cardinality(Requester)
        BY Sizes, FS_Subset DEF Spawners
      <4>4. QED
        BY <4>2, <4>3, Sizes DEF OvershootBounded
    <3>3. QED
      BY <3>1, <3>2
  <2>7. QED
    BY <2>4, <2>5, <2>6 DEF BInv
<1>6. QED
  BY <1>1, <1>2, <1>3, <1>4, <1>5 DEF ManagerStep

LEMMA RequesterStepBounded ==
  ASSUME IInv, IInv', BInv, NEW r \in Requester, RequesterStep(r) \/ Request(r) \/ GiveUp(r)
  PROVE  BInv'
<1> USE DEF IInv
<1>0. r \in Proc /\ r # Manager
  BY DEF Proc
<1>1. CASE SpawnStep(r)
  BY <1>0, <1>1, SpawnStepBounded
<1>2. CASE ~SpawnStep(r)
  <2>1. Booted /\ phase' = phase /\ need' = need
    BY <1>2 DEF RequesterStep, Request, GiveUp, Refuse, AcquirePass, Grow, MarkBusy, Retry,
                Release, Reserve, mgrVars, Control
  <2>2. BootBound'
    BY <2>1, ServingHasNoBootBound
  <2>3. CASE Refuse(r) \/ Grow(r) \/ Retry(r) \/ Request(r) \/ GiveUp(r)
    <3>1. /\ tracked' = tracked /\ busy' = busy
          /\ pc[r] \in {"acquire", "grow", "full", "idle"}
          /\ \E l \in Stage : /\ pc' = [pc EXCEPT ![r] = l]
                              /\ l \in SpawnStage \union {"grow"} => pc[r] = "grow"
          /\ \A q \in Proc \ {r} : slot'[q] = slot[q]
      BY <2>3 DEF Refuse, Grow, Retry, Request, GiveUp, Reserve, Goto, Take, poolVars, TypeOK,
                  Stage, SpawnStage
    <3>2. Spawners' \subseteq Spawners
      BY <1>0, <3>1 DEF Spawners, Spawning, TypeOK, Proc
    <3>3. OvershootBounded'
      BY <2>1, <3>1, <3>2, Sizes, LoadShrinks DEF BInv
    <3>4. BusyHeld'
      BY <1>0, <3>1, HeldKept DEF BInv, TypeOK
    <3>5. QED
      BY <2>2, <3>3, <3>4 DEF BInv
  <2>4. CASE MarkBusy(r) \/ Release(r)
    <3>1. /\ tracked' = tracked /\ pc[r] \in {"published", "holding"}
          /\ \E l \in {"idle", "holding"} : pc' = [pc EXCEPT ![r] = l]
          /\ \A q \in Proc \ {r} : slot'[q] = slot[q]
      BY <2>4 DEF MarkBusy, Release, Goto, Take, TypeOK
    <3>2. Spawners' \subseteq Spawners
      BY <1>0, <3>1 DEF Spawners, Spawning, SpawnStage, TypeOK, Proc
    <3>3. OvershootBounded'
      BY <2>1, <3>1, <3>2, Sizes, LoadShrinks DEF BInv
    <3>4. BusyHeld'
      <4>1. CASE MarkBusy(r)
        BY <1>0, <4>1 DEF BInv, BusyHeld, MarkBusy, Lookup, Goto, TypeOK, Proc
      <4>2. CASE Release(r)
        BY <1>0, <4>2 DEF BInv, BusyHeld, Release, Goto, Take, TypeOK, Proc
      <4>3. QED
        BY <2>4, <4>1, <4>2
    <3>5. QED
      BY <2>2, <3>3, <3>4 DEF BInv
  <2>5. CASE AcquirePass(r)
    <3>1. PICK P \in SUBSET Dead :
            /\ tracked' = tracked \ P
            /\ \/ \E i \in (tracked \ P) \ busy :
                    /\ busy' = (busy \ P) \union {i}
                    /\ slot' = [slot EXCEPT ![r] = i]
                    /\ pc' = [pc EXCEPT ![r] = "holding"]
               \/ /\ FirstIdle(tracked \ P) = {}
                  /\ busy' = busy \ P /\ slot' = slot
                  /\ \E l \in {"grow", "full"} : pc' = [pc EXCEPT ![r] = l]
      BY <2>5 DEF AcquirePass, Prune, FirstIdle, Goto, Take
    <3>2. pc[r] = "acquire"
      BY <2>5 DEF AcquirePass
    <3>3. CASE \E i \in (tracked \ P) \ busy :
                 /\ busy' = (busy \ P) \union {i}
                 /\ slot' = [slot EXCEPT ![r] = i]
                 /\ pc' = [pc EXCEPT ![r] = "holding"]
      <4>1. BusyHeld'
        BY <1>0, <3>2, <3>3 DEF BInv, BusyHeld, TypeOK, Proc
      <4>2. Spawners' \subseteq Spawners
        BY <1>0, <3>3 DEF Spawners, Spawning, SpawnStage, TypeOK, Proc
      <4>3. OvershootBounded'
        BY <2>1, <3>1, <4>2, Sizes, LoadShrinks DEF BInv
      <4>4. QED
        BY <2>2, <4>1, <4>3 DEF BInv
    <3>4. CASE /\ FirstIdle(tracked \ P) = {}
               /\ busy' = busy \ P /\ slot' = slot
               /\ \E l \in {"grow", "full"} : pc' = [pc EXCEPT ![r] = l]
      <4>1. BusyHeld'
        BY <1>0, <3>2, <3>4, HeldKept DEF BInv, TypeOK
      <4>2. Holders \intersect Spawners' = {} /\ Holders \union Spawners' \subseteq Requester
        BY <1>0, <3>2, <3>4 DEF Holders, Spawners, Spawning, SpawnStage, TypeOK, Proc
      <4>3. tracked' \subseteq busy
        BY <3>1, <3>4 DEF FirstIdle
      <4>4. Cardinality(tracked') <= Cardinality(Holders)
        BY <4>3, BusyIsBounded DEF BInv
      <4>5. /\ IsFiniteSet(Holders) /\ IsFiniteSet(Spawners')
            /\ Cardinality(Holders) \in Nat /\ Cardinality(Spawners') \in Nat
            /\ Cardinality(tracked') \in Nat
        BY <4>2, Sizes, FS_Subset, FS_CardinalityType, <3>1
      <4>6. Cardinality(Holders) + Cardinality(Spawners') <= Cardinality(Requester)
        <5>1. Cardinality(Holders \union Spawners')
                = Cardinality(Holders) + Cardinality(Spawners')
          BY <4>2, <4>5, DisjointSizes
        <5>2. Cardinality(Holders \union Spawners') <= Cardinality(Requester)
          BY <4>2, Sizes, FS_Subset
        <5>3. QED
          BY <5>1, <5>2
      <4>7. need' \in 0 .. Warm
        BY DEF TypeOK
      <4>8. OvershootBounded'
        BY <4>4, <4>5, <4>6, <4>7, Sizes DEF OvershootBounded, Load
      <4>9. QED
        BY <2>2, <4>1, <4>8 DEF BInv
    <3>5. QED
      BY <3>1, <3>3, <3>4
  <2>6. QED
    BY <1>2, <2>3, <2>4, <2>5 DEF RequesterStep
<1>3. QED
  BY <1>1, <1>2

LEMMA NextBounded == IInv /\ IInv' /\ BInv /\ [Next]_vars => BInv'
<1> SUFFICES ASSUME IInv, IInv', BInv, [Next]_vars PROVE BInv'
  OBVIOUS
<1> USE DEF IInv
<1>1. CASE Crash
  BY <1>1, RestartBounded DEF Crash, BInv
<1>2. CASE \/ UNCHANGED vars \/ Close \/ CloseRemoves
           \/ \E i \in Index : ContainerLost(i) \/ EngineRestarts(i) \/ Ages(i)
  <2>1. /\ UNCHANGED <<tracked, busy, need, pc, slot, cursor>>
        /\ phase' = phase \/ Booted'
    BY <1>2 DEF vars, Close, CloseRemoves, ContainerLost, EngineRestarts, Ages, poolVars,
                mgrVars, procVars
  <2>2. OvershootBounded' /\ BusyHeld'
    BY <2>1 DEF BInv, OvershootBounded, Load, Spawners, Spawning, BusyHeld
  <2>3. BootBound'
    BY <2>1 DEF BInv, BootBound, Spawning, Control
  <2>4. QED
    BY <2>2, <2>3 DEF BInv
<1>3. QED
  BY <1>1, <1>2, ManagerStepBounded, RequesterStepBounded DEF Next

\* However many requests find every child busy at once, the family never
\* holds or spawns more children than there are requests plus the warm floor,
\* or than maxReplicas.
THEOREM OvershootIsBounded == Spec => []OvershootBounded
<1>1. Init => BInv
  <2> SUFFICES ASSUME Init PROVE BInv
    OBVIOUS
  <2>1. TypeOK
    BY InitSafe DEF IInv
  <2>2. BusyHeld /\ tracked = {} /\ Spawners = {} /\ need = 0 /\ ~Spawning(Manager)
    BY DEF Init, BusyHeld, Spawners, Spawning, SpawnStage, Proc
  <2>3. Cardinality({}) = 0
    BY FS_EmptySet
  <2>4. OvershootBounded
    BY <2>2, <2>3, Sizes, <2>1 DEF OvershootBounded, Load
  <2>5. BootBound
    BY <2>2, <2>3 DEF BootBound
  <2>6. QED
    BY <2>2, <2>4, <2>5 DEF BInv
<1>2. BInv => OvershootBounded
  BY DEF BInv
<1>3. QED
  BY <1>1, <1>2, Invariance, NextBounded, PTL DEF Spec
=============================================================================

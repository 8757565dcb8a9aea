-------------------------- MODULE WorkerPoolProofs --------------------------
(***************************************************************************)
(* The worker pool keeps its bounds, owns every subprocess it started and  *)
(* implements the execution lanes, for every number of threads and every   *)
(* setting.                                                                *)
(***************************************************************************)
EXTENDS WorkerPool, FiniteSetTheorems, TLAPS

\* A caller has a worker exactly in the stages between acquire and release,
\* and no two callers have the same one.
Held ==
  /\ \A c \in Caller : slot[c] \in 0 .. born
  /\ \A c \in Caller : slot[c] = 0 <=> pc[c] \in {"idle", "acquire", "waiting"}
  /\ \A c, d \in Caller : c # d /\ slot[c] # 0 => slot[c] # slot[d]
  /\ \A c \in Caller : slot[c] \in workers => slot[c] \in busy
  /\ \A c \in Caller : pc[c] \in {"stop", "dropped", "ending"} => slot[c] \notin workers

\* A task is in a worker only while its caller waits for it, or gave it up.
Clean ==
  /\ FreeWorkersClean
  /\ \A w \in Id : w > born => stage[w] = "none"
  /\ \A c \in Caller :
       pc[c] \in {"holding", "record", "release", "retire"} => stage[slot[c]] = "none"

Bounds == CapKept /\ LeakBounded

IInv == TypeOK /\ Held /\ Clean /\ NoOrphanProcess /\ Bounds

-----------------------------------------------------------------------------

USE SettingsAssumption, CallerAssumption, BoundAssumption
  DEF SettingsAssumption, CallerAssumption, BoundAssumption, Open

LEMMA Sizes ==
  ASSUME TypeOK
  PROVE  \A W \in SUBSET workers :
           /\ IsFiniteSet(W) /\ Cardinality(W) \in Nat
           /\ Cardinality(W) <= Cardinality(workers)
<1>1. born \in Nat
  BY DEF TypeOK
<1>2. IsFiniteSet(1 .. born)
  BY <1>1, FS_Interval
<1>3. IsFiniteSet(workers)
  BY <1>2, FS_Subset DEF TypeOK
<1>4. QED
  BY <1>3, FS_Subset, FS_CardinalityType

\* _ensure_min_warm_locked adds new workers, and only up to the floor.
LEMMA Filled ==
  ASSUME TypeOK, NEW W \in SUBSET workers, NEW n \in Nat,
         n = Missing(W), born' = born + n, born' <= MaxId,
         workers' = W \union Fresh(n)
  PROVE  /\ workers' \subseteq 1 .. born' /\ W \subseteq workers'
         /\ \A w \in workers' : w \in W \/ (w > born /\ w <= born')
         /\ workers' \in SUBSET (1 .. born')
         /\ Cardinality(workers') \in Nat
         /\ Cardinality(workers') = Cardinality(W) + n
         /\ Cardinality(workers') <= Cardinality(workers) \/ Cardinality(workers') <= MinWarm
<1>1. born \in Nat /\ W \subseteq 1 .. born
  BY DEF TypeOK
<1>2. /\ IsFiniteSet(W) /\ Cardinality(W) \in Nat
      /\ Cardinality(W) <= Cardinality(workers) /\ Cardinality(workers) \in Nat
  BY Sizes
<1>3. IsFiniteSet(Fresh(n)) /\ Cardinality(Fresh(n)) = n
  <2>1. born + 1 \in Int /\ born + n \in Int
    BY <1>1
  <2>2. IsFiniteSet(Fresh(n))
    BY <2>1, FS_Interval DEF Fresh
  <2>3. CASE n = 0
    <3>1. Fresh(n) = {}
      BY <1>1, <2>3 DEF Fresh
    <3>2. QED
      BY <3>1, <2>3, FS_EmptySet
  <2>4. CASE n > 0
    <3>1. born + 1 <= born + n /\ (born + n) - (born + 1) + 1 = n
      BY <1>1, <2>4
    <3>2. Cardinality((born + 1) .. (born + n)) = (born + n) - (born + 1) + 1
      BY <2>1, <3>1, FS_Interval
    <3>3. QED
      BY <2>2, <3>1, <3>2 DEF Fresh
  <2>5. QED
    BY <2>3, <2>4
<1>4. Cardinality(W \intersect Fresh(n)) = 0
  <2>1. W \intersect Fresh(n) = {}
    BY <1>1 DEF Fresh
  <2>2. QED
    BY <2>1, FS_EmptySet
<1>5. Cardinality(W \union Fresh(n))
        = Cardinality(W) + Cardinality(Fresh(n)) - Cardinality(W \intersect Fresh(n))
  BY <1>2, <1>3, FS_Union
<1>6. Cardinality(workers') = Cardinality(W) + n
  BY <1>2, <1>3, <1>4, <1>5
<1>7. Cardinality(workers') <= Cardinality(workers) \/ Cardinality(workers') <= MinWarm
  BY <1>2, <1>6 DEF Missing
<1>8. Cardinality(workers') \in Nat
  BY <1>2, <1>6
<1>9. \A w \in workers' : w \in W \/ (w > born /\ w <= born')
  BY <1>1 DEF Fresh
<1>10. workers' \subseteq 1 .. born'
  <2>1. W \subseteq 1 .. (born + n) /\ Fresh(n) \subseteq 1 .. (born + n)
    BY <1>1 DEF Fresh
  <2>2. QED
    BY <2>1
<1>11. QED
  BY <1>6, <1>7, <1>8, <1>9, <1>10

LEMMA MissingType == TypeOK => \A W \in SUBSET workers : Missing(W) \in Nat
BY Sizes DEF Missing

\* The pool starts with the floor and no caller.
LEMMA InitSafe == Init => IInv
<1> SUFFICES ASSUME Init PROVE IInv
  OBVIOUS
<1>1. TypeOK
  BY DEF Init, TypeOK, CallStage, Id
<1>2. Held /\ Clean /\ NoOrphanProcess
  BY DEF Init, Held, Clean, FreeWorkersClean, NoOrphanProcess, Id
<1>3. Bounds
  <2>1. Cardinality(1 .. MinWarm) = MinWarm
    BY FS_Interval
  <2>2. QED
    BY <2>1 DEF Init, Bounds, CapKept, LeakBounded
<1>4. QED
  BY <1>1, <1>2, <1>3 DEF IInv

\* A caller moves on and nothing else happens to the pool.
LEMMA MoveSafe ==
  ASSUME IInv, NEW c \in Caller, NEW l \in CallStage, pc' = [pc EXCEPT ![c] = l],
         UNCHANGED <<workers, busy, aged, born, proc, slot, pool, stopping, faults>>,
         completed' \in [Id -> 0 .. MaxTasks], calls' \in 0 .. MaxCalls,
         pc[c] \notin {"stop", "ending"}, l \notin {"stop", "dropped", "ending", "holding"},
         pc[c] \in {"idle", "acquire", "waiting"} <=> l \in {"idle", "acquire", "waiting"},
         l \in {"record", "release", "retire"} => pc[c] \in {"record"}
  PROVE  IInv'
<1> USE DEF IInv, proc
<1>1. TypeOK'
  BY DEF TypeOK
<1>2. Held'
  BY DEF TypeOK, Held
<1>3. Clean'
  BY DEF TypeOK, Clean, FreeWorkersClean
<1>4. NoOrphanProcess'
  BY DEF TypeOK, NoOrphanProcess
<1>5. Bounds'
  BY DEF Bounds, CapKept, LeakBounded
<1>6. QED
  BY <1>1, <1>2, <1>3, <1>4, <1>5

-----------------------------------------------------------------------------
(* Acquiring a worker *)

\* The dead leave the dict, and nothing else happens to the pool but for a
\* caller that has no worker.
LEMMA PruneSafe ==
  ASSUME IInv, workers' = Pruned, cut' = CutDead,
         busy' = busy \intersect Pruned, aged' = aged \intersect Pruned,
         UNCHANGED <<completed, born, alive, stage, task, slot, pool, stopping, calls, faults>>,
         \/ pc' = pc
         \/ \E c \in Caller, l \in {"waiting", "idle"} :
              pc[c] = "acquire" /\ pc' = [pc EXCEPT ![c] = l]
  PROVE  IInv'
<1> USE DEF IInv, Pruned, CutDead
<1>1. TypeOK'
  BY DEF TypeOK, CallStage
<1>2. Held'
  BY DEF TypeOK, Held
<1>3. Clean'
  BY DEF TypeOK, Clean, FreeWorkersClean
<1>4. NoOrphanProcess'
  BY DEF TypeOK, NoOrphanProcess
<1>5. Bounds'
  <2>1. /\ Cardinality(workers') \in Nat /\ Cardinality(workers) \in Nat
        /\ Cardinality(workers') <= Cardinality(workers)
    BY Sizes
  <2>2. QED
    BY <2>1 DEF Bounds, CapKept, LeakBounded
<1>6. QED
  BY <1>1, <1>2, <1>3, <1>4, <1>5

LEMMA AcquireIdleSafe ==
  ASSUME IInv, NEW c \in Caller, AcquireIdle(c)
  PROVE  IInv'
<1> USE DEF IInv, Pruned, CutDead, Goto, Take
<1>1. PICK w \in Idle(Pruned) :
        /\ busy' = (busy \intersect Pruned) \union {w}
        /\ aged' = (aged \intersect Pruned) \ {w}
        /\ slot' = [slot EXCEPT ![c] = w]
  BY DEF AcquireIdle, FirstIdle
<1>2. w \in workers /\ w \notin busy /\ w \in 1 .. born /\ w \in Id /\ w # 0
  BY <1>1 DEF Idle, TypeOK, Id
<1> USE <1>1, <1>2 DEF AcquireIdle
<1>3. TypeOK'
  BY DEF TypeOK, CallStage, Id
<1>4. \A d \in Caller : d # c => slot'[d] = slot[d] /\ pc'[d] = pc[d] /\ slot[d] # w
  BY DEF TypeOK, Held
<1>5. slot'[c] = w /\ pc'[c] = "holding"
  BY DEF TypeOK
<1>6. Held'
  BY <1>4, <1>5 DEF TypeOK, Held
<1>7. Clean'
  BY <1>4, <1>5 DEF TypeOK, Clean, FreeWorkersClean
<1>8. NoOrphanProcess'
  BY DEF TypeOK, NoOrphanProcess
<1>9. Bounds'
  <2>1. /\ Cardinality(workers') \in Nat /\ Cardinality(workers) \in Nat
        /\ Cardinality(workers') <= Cardinality(workers)
    BY Sizes
  <2>2. QED
    BY <2>1 DEF Bounds, CapKept, LeakBounded
<1>10. QED
  BY <1>3, <1>6, <1>7, <1>8, <1>9

LEMMA AcquireSpawnSafe ==
  ASSUME IInv, NEW c \in Caller, AcquireSpawn(c)
  PROVE  IInv'
<1> USE DEF IInv, Pruned, CutDead, Goto, Take, AcquireSpawn, Spawn, Fresh, Launch
<1>1. born \in Nat /\ born' = born + 1 /\ born' <= MaxId /\ born' \in Id /\ slot' = [slot EXCEPT ![c] = born']
  BY DEF TypeOK, Id
<1>2. (born + 1) .. (born + 1) = {born'}
  BY <1>1
<1>3. (born + 1) .. born' = {born'}
  BY <1>1
<1>4. workers \subseteq 1 .. born /\ born' \notin workers /\ 1 .. born' = (1 .. born) \union {born'}
  BY <1>1 DEF TypeOK
<1> USE <1>1, <1>2, <1>3, <1>4
<1>5. TypeOK'
  BY DEF TypeOK, CallStage, Id
<1>6. \A d \in Caller : d # c => slot'[d] = slot[d] /\ pc'[d] = pc[d] /\ slot[d] # born'
  BY DEF TypeOK, Held
<1>7. slot'[c] = born' /\ pc'[c] = "holding"
  BY DEF TypeOK
<1>8. Held'
  BY <1>6, <1>7 DEF TypeOK, Held
<1>9. Clean'
  <2>1. stage' = stage /\ stage[born'] = "none"
    BY DEF Clean
  <2>2. FreeWorkersClean'
    BY <2>1 DEF TypeOK, Clean, FreeWorkersClean
  <2>3. \A w \in Id : w > born' => stage'[w] = "none"
    BY <2>1 DEF Clean, Id
  <2>4. \A d \in Caller :
          pc'[d] \in {"holding", "record", "release", "retire"} => stage'[slot'[d]] = "none"
    BY <1>6, <1>7, <2>1 DEF Clean
  <2>5. QED
    BY <2>2, <2>3, <2>4 DEF Clean
<1>10. NoOrphanProcess'
  BY DEF TypeOK, NoOrphanProcess
<1>11. Bounds'
  <2>1. /\ IsFiniteSet(workers \intersect alive)
        /\ Cardinality(workers \intersect alive) \in Nat
    BY Sizes
  <2>2. born' \notin workers \intersect alive
    BY DEF TypeOK
  <2>3. Cardinality(workers') = Cardinality(workers \intersect alive) + 1
    BY <2>1, <2>2, FS_AddElement
  <2>4. QED
    BY <2>1, <2>3 DEF Bounds, CapKept, LeakBounded, MayGrow
<1>12. QED
  BY <1>5, <1>8, <1>9, <1>10, <1>11

-----------------------------------------------------------------------------
(* Running a task *)

LEMMA SendSafe ==
  ASSUME IInv, NEW c \in Caller, Send(c)
  PROVE  IInv'
<1> USE DEF IInv, proc, dict, Goto, Send
<1>1. slot[c] \in Id /\ slot[c] \in 1 .. born /\ slot[c] \notin workers \ busy
  BY DEF TypeOK, Held, Id
<1>2. TypeOK'
  BY <1>1 DEF TypeOK, CallStage
<1>3. Held'
  BY DEF TypeOK, Held
<1>4. Clean'
  BY <1>1 DEF TypeOK, Held, Clean, FreeWorkersClean
<1>5. NoOrphanProcess'
  BY DEF TypeOK, NoOrphanProcess
<1>6. Bounds'
  BY DEF Bounds, CapKept, LeakBounded
<1>7. QED
  BY <1>2, <1>3, <1>4, <1>5, <1>6

LEMMA ReceiveSafe ==
  ASSUME IInv, NEW c \in Caller, Receive(c)
  PROVE  IInv'
<1>0. pc[c] = "running"
  BY DEF Receive
<1>1. slot[c] \in Id /\ slot[c] \in 1 .. born
  BY <1>0 DEF IInv, TypeOK, Held, Id
<1> USE DEF IInv, proc, dict, Goto, Receive
<1>2. pc' = [pc EXCEPT ![c] = "record"] \/ pc' = [pc EXCEPT ![c] = "drop"]
  OBVIOUS
<1>3. TypeOK'
  BY <1>1, <1>2 DEF TypeOK, CallStage
<1>4. Held'
  BY <1>2 DEF TypeOK, Held
<1>5. Clean'
  BY <1>1, <1>2 DEF TypeOK, Held, Clean, FreeWorkersClean
<1>6. NoOrphanProcess'
  BY <1>2 DEF TypeOK, NoOrphanProcess
<1>7. Bounds'
  BY DEF Bounds, CapKept, LeakBounded
<1>8. QED
  BY <1>3, <1>4, <1>5, <1>6, <1>7

\* A subprocess takes its task or answers it.
LEMMA WorkSafe ==
  ASSUME IInv, NEW w \in Id, Dequeue(w) \/ Answer(w)
  PROVE  IInv'
<1> USE DEF IInv, dict, Dequeue, Answer
<1>1. stage[w] # "none" /\ \E s \in {"working", "result"} : stage' = [stage EXCEPT ![w] = s]
  OBVIOUS
<1>2. UNCHANGED <<workers, busy, aged, completed, born, alive, cut, task, pc, slot, pool, stopping, calls, faults>>
  OBVIOUS
<1>3. TypeOK'
  BY <1>1, <1>2 DEF TypeOK
<1>4. Held'
  BY <1>2 DEF Held
<1>5. Clean'
  BY <1>1, <1>2 DEF TypeOK, Held, Clean, FreeWorkersClean
<1>6. NoOrphanProcess'
  BY <1>2 DEF NoOrphanProcess
<1>7. Bounds'
  BY <1>2 DEF Bounds, CapKept, LeakBounded
<1>8. QED
  BY <1>3, <1>4, <1>5, <1>6, <1>7

-----------------------------------------------------------------------------
(* Giving the worker up *)

\* The dict is refilled up to the floor after some of its workers have left
\* it; W are those that stay.
LEMMA RefillSafe ==
  ASSUME IInv, NEW W \in SUBSET workers, EnsureMinWarm(W), UNCHANGED <<completed, stage, pool>>
  PROVE  /\ born \in Nat /\ born' \in Nat /\ born <= born' /\ born' <= MaxId
         /\ W \subseteq workers' /\ workers' \subseteq 1 .. born'
         /\ \A w \in workers' : w \in W \/ w > born
         /\ busy' = busy \intersect W /\ aged' = aged \intersect W
         /\ (born + 1) .. born' \subseteq workers'
         /\ FreeWorkersClean'
         /\ \A w \in Id : w > born' => stage'[w] = "none"
         /\ Bounds'
<1> DEFINE n == Missing(W)
<1>1. n \in Nat /\ born \in Nat /\ Cardinality(workers) \in Nat
  BY MissingType, Sizes DEF IInv, TypeOK
<1>2. /\ born' = born + n /\ born' <= MaxId /\ workers' = W \union Fresh(n)
      /\ busy' = busy \intersect W /\ aged' = aged \intersect W
  BY <1>1 DEF EnsureMinWarm, Spawn
<1>3. /\ workers' \subseteq 1 .. born' /\ W \subseteq workers'
      /\ \A w \in workers' : w \in W \/ (w > born /\ w <= born')
      /\ Cardinality(workers') \in Nat
      /\ Cardinality(workers') <= Cardinality(workers) \/ Cardinality(workers') <= MinWarm
  BY <1>1, <1>2, Filled DEF IInv
<1>4. born' \in Nat /\ born <= born'
  BY <1>1, <1>2
<1>5. (born + 1) .. born' \subseteq workers'
  BY <1>1, <1>2 DEF Fresh
<1>6. \A w \in Id : w > born' => stage'[w] = "none"
  BY <1>1, <1>4 DEF IInv, Clean, Id
<1>7. FreeWorkersClean'
  <2> SUFFICES ASSUME NEW w \in workers', w \notin busy'
               PROVE  stage[w] = "none"
    BY DEF FreeWorkersClean
  <2>1. CASE w \in W
    BY <2>1, <1>2 DEF IInv, Clean, FreeWorkersClean
  <2>2. CASE w > born
    BY <2>2, <1>2, <1>3, <1>4 DEF IInv, Clean, Id
  <2>3. QED
    BY <2>1, <2>2, <1>3
<1>8. Bounds'
  BY <1>1, <1>3 DEF IInv, Bounds, CapKept, LeakBounded
<1>9. QED
  BY <1>1, <1>2, <1>3, <1>4, <1>5, <1>6, <1>7, <1>8

LEMMA DropSafe ==
  ASSUME IInv, NEW c \in Caller, Drop(c)
  PROVE  IInv'
<1> DEFINE W == workers \ {slot[c]}
<1>1. /\ EnsureMinWarm(W) /\ alive' = alive \union ((born + 1) .. born')
      /\ UNCHANGED <<completed, cut, stage, task, slot, pool, stopping, calls, faults>>
      /\ pc' = [pc EXCEPT ![c] = IF slot[c] \in workers THEN "stop" ELSE "dropped"]
      /\ pc[c] = "drop"
  BY DEF Drop, Launch, Goto
<1>2. /\ born \in Nat /\ born' \in Nat /\ born <= born' /\ born' <= MaxId
      /\ W \subseteq workers' /\ workers' \subseteq 1 .. born'
      /\ \A w \in workers' : w \in W \/ w > born
      /\ busy' = busy \intersect W /\ aged' = aged \intersect W
      /\ (born + 1) .. born' \subseteq workers'
      /\ FreeWorkersClean'
      /\ \A w \in Id : w > born' => stage'[w] = "none"
      /\ Bounds'
  BY <1>1, RefillSafe
<1>3. 1 .. born \subseteq 1 .. born' /\ (born + 1) .. born' \subseteq 1 .. born' /\ born' \in 0 .. MaxId
  BY <1>2
<1> USE DEF IInv
<1>4. TypeOK'
  BY <1>1, <1>2, <1>3 DEF TypeOK, CallStage
<1>5. Held'
  <2>1. \A d \in Caller : slot[d] \in 0 .. born'
    BY <1>2 DEF Held
  <2>2. \A d \in Caller : slot[d] \in workers' => slot[d] \in W
    BY <1>2 DEF Held
  <2>3. \A d \in Caller : pc'[d] = pc[d] \/ (d = c /\ pc'[d] \in {"stop", "dropped"})
    BY <1>1 DEF TypeOK
  <2>4. QED
    BY <1>1, <1>2, <2>1, <2>2, <2>3 DEF Held
<1>6. Clean'
  BY <1>1, <1>2 DEF TypeOK, Clean
<1>7. NoOrphanProcess'
  BY <1>1, <1>2 DEF TypeOK, NoOrphanProcess
<1>8. QED
  BY <1>2, <1>4, <1>5, <1>6, <1>7

LEMMA RetireSafe ==
  ASSUME IInv, NEW c \in Caller, Retire(c)
  PROVE  IInv'
<1> DEFINE W == workers \ {slot[c]}
<1>1. /\ EnsureMinWarm(W) /\ alive' = alive \union ((born + 1) .. born')
      /\ UNCHANGED <<completed, cut, stage, task, slot, pool, stopping, calls, faults>>
      /\ pc' = [pc EXCEPT ![c] = "ending"] /\ pc[c] = "retire"
  BY DEF Retire, Retires, Launch, Goto
<1>2. /\ born \in Nat /\ born' \in Nat /\ born <= born' /\ born' <= MaxId
      /\ W \subseteq workers' /\ workers' \subseteq 1 .. born'
      /\ \A w \in workers' : w \in W \/ w > born
      /\ busy' = busy \intersect W /\ aged' = aged \intersect W
      /\ (born + 1) .. born' \subseteq workers'
      /\ FreeWorkersClean'
      /\ \A w \in Id : w > born' => stage'[w] = "none"
      /\ Bounds'
  BY <1>1, RefillSafe
<1>3. 1 .. born \subseteq 1 .. born' /\ (born + 1) .. born' \subseteq 1 .. born' /\ born' \in 0 .. MaxId
  BY <1>2
<1> USE DEF IInv
<1>4. TypeOK'
  BY <1>1, <1>2, <1>3 DEF TypeOK, CallStage
<1>5. Held'
  <2>1. \A d \in Caller : slot[d] \in 0 .. born'
    BY <1>2 DEF Held
  <2>2. \A d \in Caller : slot[d] \in workers' => slot[d] \in W
    BY <1>2 DEF Held
  <2>3. \A d \in Caller : pc'[d] = pc[d] \/ (d = c /\ pc'[d] = "ending")
    BY <1>1 DEF TypeOK
  <2>4. QED
    BY <1>1, <1>2, <2>1, <2>2, <2>3 DEF Held
<1>6. Clean'
  BY <1>1, <1>2 DEF TypeOK, Clean
<1>7. NoOrphanProcess'
  BY <1>1, <1>2 DEF TypeOK, NoOrphanProcess
<1>8. QED
  BY <1>2, <1>4, <1>5, <1>6, <1>7

LEMMA ReleaseSafe ==
  ASSUME IInv, NEW c \in Caller, Release(c)
  PROVE  IInv'
<1> USE DEF IInv
<1>0. slot[c] \in workers /\ pc[c] \in {"release", "retire"} /\ stage[slot[c]] = "none"
  BY DEF Release, Held, Clean
<1> DEFINE n == Missing(workers)
<1>1. /\ born' = born + n /\ born' <= MaxId /\ workers' = workers \union Fresh(n)
      /\ busy' = busy \ {slot[c]} /\ aged' = aged \ {slot[c]}
      /\ alive' = alive \union ((born + 1) .. born')
      /\ pc' = [pc EXCEPT ![c] = "idle"] /\ slot' = [slot EXCEPT ![c] = 0]
      /\ UNCHANGED <<completed, cut, stage, task, pool, stopping, calls, faults>>
  BY DEF Release, Spawn, Launch, Goto, Take
<1>2. n \in Nat /\ born \in Nat /\ Cardinality(workers) \in Nat /\ workers \in SUBSET workers
  BY MissingType, Sizes DEF TypeOK
<1>3. /\ workers' \subseteq 1 .. born' /\ workers \subseteq workers'
      /\ \A w \in workers' : w \in workers \/ (w > born /\ w <= born')
      /\ Cardinality(workers') \in Nat
      /\ Cardinality(workers') <= Cardinality(workers) \/ Cardinality(workers') <= MinWarm
  BY <1>1, <1>2, Filled
<1>4. /\ born' \in Nat /\ born <= born' /\ (born + 1) .. born' \subseteq workers'
      /\ 1 .. born \subseteq 1 .. born' /\ born' \in 0 .. MaxId
  BY <1>1, <1>2 DEF Fresh
<1>5. TypeOK'
  <2>1. workers' \subseteq 1 .. born' /\ busy' \subseteq workers' /\ aged' \subseteq workers' \ busy'
    BY <1>1, <1>3 DEF TypeOK
  <2>2. alive' \subseteq 1 .. born' /\ cut' \subseteq 1 .. born' /\ stopping' \subseteq 1 .. born'
    BY <1>1, <1>3, <1>4 DEF TypeOK
  <2>3. pc' \in [Caller -> CallStage] /\ slot' \in [Caller -> 0 .. MaxId]
    BY <1>1 DEF TypeOK, CallStage
  <2>4. QED
    BY <1>1, <1>4, <2>1, <2>2, <2>3 DEF TypeOK
<1>6. Held'
  <2>1. \A d \in Caller : slot'[d] \in 0 .. born'
    BY <1>1, <1>4 DEF TypeOK, Held
  <2>2. \A d \in Caller : slot[d] \in workers' => slot[d] \in workers
    BY <1>2, <1>3 DEF Held
  <2>3. \A d \in Caller : d # c => pc'[d] = pc[d] /\ slot'[d] = slot[d]
    BY <1>1 DEF TypeOK
  <2>4. pc'[c] = "idle" /\ slot'[c] = 0 /\ 0 \notin workers'
    BY <1>1, <1>3, <1>4 DEF TypeOK
  <2>5. \A d \in Caller : d # c => slot[d] # slot[c]
    BY <1>0 DEF Held, TypeOK
  <2>6. QED
    BY <1>1, <2>1, <2>2, <2>3, <2>4, <2>5 DEF Held
<1>7. Clean'
  <2>1. FreeWorkersClean'
    <3> SUFFICES ASSUME NEW w \in workers', w \notin busy'
                 PROVE  stage[w] = "none"
      BY <1>1 DEF FreeWorkersClean
    <3>1. CASE w \in workers
      BY <3>1, <1>0, <1>1 DEF Clean, FreeWorkersClean
    <3>2. CASE w > born /\ w <= born'
      BY <3>2, <1>1, <1>3, <1>4 DEF Clean, Id
    <3>3. QED
      BY <3>1, <3>2, <1>3
  <2>2. \A w \in Id : w > born' => stage'[w] = "none"
    BY <1>1, <1>2, <1>4 DEF Clean, Id
  <2>3. \A d \in Caller :
          pc'[d] \in {"holding", "record", "release", "retire"} => stage'[slot'[d]] = "none"
    BY <1>1 DEF TypeOK, Clean
  <2>4. QED
    BY <2>1, <2>2, <2>3 DEF Clean
<1>8. NoOrphanProcess'
  <2>1. \A d \in Caller : pc[d] \in {"stop", "ending"} => pc'[d] = pc[d] /\ slot'[d] = slot[d]
    BY <1>0, <1>1 DEF TypeOK
  <2>2. alive' \subseteq workers' \union alive /\ workers \subseteq workers'
    BY <1>1, <1>3, <1>4
  <2>3. QED
    BY <1>1, <2>1, <2>2 DEF NoOrphanProcess
<1>9. Bounds'
  BY <1>1, <1>2, <1>3 DEF Bounds, CapKept, LeakBounded
<1>10. QED
  BY <1>5, <1>6, <1>7, <1>8, <1>9

LEMMA ReleaseGoneSafe ==
  ASSUME IInv, NEW c \in Caller, ReleaseGone(c)
  PROVE  IInv'
<1> USE DEF IInv, dict, proc, ReleaseGone, Goto, Take
<1>1. TypeOK'
  BY DEF TypeOK, CallStage
<1>2. Held'
  BY DEF TypeOK, Held
<1>3. Clean'
  BY DEF TypeOK, Clean, FreeWorkersClean
<1>4. NoOrphanProcess'
  BY DEF TypeOK, NoOrphanProcess
<1>5. Bounds'
  BY DEF Bounds, CapKept, LeakBounded
<1>6. QED
  BY <1>1, <1>2, <1>3, <1>4, <1>5

LEMMA StopSafe ==
  ASSUME IInv, NEW c \in Caller, Stop(c)
  PROVE  IInv'
<1> USE DEF IInv, dict, Goto, Take
<1>1. /\ pc[c] \in {"stop", "ending"} /\ slot[c] \notin workers /\ slot[c] \in 1 .. born
      /\ alive' = alive \ {slot[c]} /\ cut' = cut \union {slot[c]}
      /\ UNCHANGED <<workers, busy, aged, completed, born, stage, task, pool, stopping, calls, faults>>
  BY DEF Stop, Held, TypeOK
<1>2. \/ pc' = [pc EXCEPT ![c] = "dropped"] /\ slot' = slot
      \/ pc' = [pc EXCEPT ![c] = "idle"] /\ slot' = [slot EXCEPT ![c] = 0]
  BY DEF Stop
<1>3. TypeOK'
  <2>1. alive' \subseteq 1 .. born /\ cut' \subseteq 1 .. born
    BY <1>1 DEF TypeOK
  <2>2. pc' \in [Caller -> CallStage] /\ slot' \in [Caller -> 0 .. MaxId]
    BY <1>2 DEF TypeOK, CallStage
  <2>3. QED
    BY <1>1, <2>1, <2>2 DEF TypeOK
<1>4. Held'
  BY <1>1, <1>2 DEF TypeOK, Held
<1>5. Clean'
  BY <1>1, <1>2 DEF TypeOK, Clean, FreeWorkersClean
<1>6. NoOrphanProcess'
  <2>1. \A d \in Caller : d # c => pc'[d] = pc[d] /\ slot'[d] = slot[d]
    BY <1>2 DEF TypeOK
  <2>2. QED
    BY <1>1, <2>1 DEF NoOrphanProcess
<1>7. Bounds'
  BY <1>1 DEF Bounds, CapKept, LeakBounded
<1>8. QED
  BY <1>3, <1>4, <1>5, <1>6, <1>7

-----------------------------------------------------------------------------
(* The reaper, close and the subprocesses *)

LEMMA ReapSafe ==
  ASSUME IInv, Reap
  PROVE  IInv'
<1>1. PICK S \in SUBSET aged : EnsureMinWarm(Pruned \ S) /\ stopping' = stopping \union S
  BY DEF Reap
<1> DEFINE W == Pruned \ S
<1>2. /\ alive' = alive \union ((born + 1) .. born') /\ cut' = cut \union (workers \ alive)
      /\ UNCHANGED <<completed, stage, task, pc, slot, pool, calls, faults>>
  BY DEF Reap, Launch, CutDead
<1>3. W \in SUBSET workers
  BY DEF Pruned
<1>4. /\ born \in Nat /\ born' \in Nat /\ born <= born' /\ born' <= MaxId
      /\ W \subseteq workers' /\ workers' \subseteq 1 .. born'
      /\ \A w \in workers' : w \in W \/ w > born
      /\ busy' = busy \intersect W /\ aged' = aged \intersect W
      /\ (born + 1) .. born' \subseteq workers'
      /\ FreeWorkersClean'
      /\ \A w \in Id : w > born' => stage'[w] = "none"
      /\ Bounds'
  BY <1>1, <1>2, <1>3, RefillSafe
<1>5. 1 .. born \subseteq 1 .. born' /\ (born + 1) .. born' \subseteq 1 .. born' /\ born' \in 0 .. MaxId
  BY <1>4
<1> USE DEF IInv
<1>6. S \subseteq workers \ busy /\ S \subseteq 1 .. born
  BY DEF TypeOK
<1>7. TypeOK'
  BY <1>1, <1>2, <1>4, <1>5, <1>6 DEF TypeOK, Pruned
<1>8. Held'
  <2>1. \A d \in Caller : slot[d] \in 0 .. born'
    BY <1>4 DEF Held
  <2>2. \A d \in Caller : slot[d] \in workers' => slot[d] \in W
    BY <1>4 DEF Held
  <2>3. QED
    BY <1>2, <1>3, <1>4, <2>1, <2>2 DEF Held
<1>9. Clean'
  BY <1>2, <1>4 DEF Clean
<1>10. NoOrphanProcess'
  BY <1>1, <1>2, <1>4 DEF NoOrphanProcess, Pruned
<1>11. QED
  BY <1>4, <1>7, <1>8, <1>9, <1>10

LEMMA StopTakenSafe ==
  ASSUME IInv, NEW w \in Id, StopTaken(w)
  PROVE  IInv'
<1> USE DEF IInv, dict, StopTaken
<1>1. TypeOK'
  BY DEF TypeOK
<1>2. Held'
  BY DEF Held
<1>3. Clean'
  BY DEF Clean, FreeWorkersClean
<1>4. NoOrphanProcess'
  BY DEF NoOrphanProcess
<1>5. Bounds'
  BY DEF Bounds, CapKept, LeakBounded
<1>6. QED
  BY <1>1, <1>2, <1>3, <1>4, <1>5

LEMMA CloseSafe ==
  ASSUME IInv, Close
  PROVE  IInv'
<1> USE DEF IInv, proc, Close
<1>1. TypeOK'
  BY DEF TypeOK
<1>2. Held'
  BY DEF Held
<1>3. Clean'
  BY DEF Clean, FreeWorkersClean
<1>4. NoOrphanProcess'
  BY DEF NoOrphanProcess
<1>5. Bounds'
  <2>1. Cardinality(workers') = 0
    BY FS_EmptySet
  <2>2. QED
    BY <2>1 DEF Bounds, CapKept, LeakBounded
<1>6. QED
  BY <1>1, <1>2, <1>3, <1>4, <1>5

\* A subprocess dies, or time passes.
LEMMA WorldSafe ==
  ASSUME IInv, NEW w \in Id, Dies(w) \/ Ages(w)
  PROVE  IInv'
<1>1. /\ UNCHANGED <<workers, busy, completed, born, cut, stage, task, pc, slot, pool, stopping, calls>>
      /\ alive' \subseteq alive /\ faults' \in 0 .. MaxFaults
      /\ aged' = aged \/ (w \in workers \ (busy \union aged) /\ aged' = aged \union {w})
  BY DEF Dies, Ages, dict, proc, IInv, TypeOK
<1> USE DEF IInv
<1>2. TypeOK'
  BY <1>1 DEF TypeOK
<1>3. Held'
  BY <1>1 DEF Held
<1>4. Clean'
  BY <1>1 DEF Clean, FreeWorkersClean
<1>5. NoOrphanProcess'
  BY <1>1 DEF NoOrphanProcess
<1>6. Bounds'
  BY <1>1 DEF Bounds, CapKept, LeakBounded
<1>7. QED
  BY <1>2, <1>3, <1>4, <1>5, <1>6

-----------------------------------------------------------------------------
(* The invariant and what follows from it *)

LEMMA CallerSafe ==
  ASSUME IInv, NEW c \in Caller, Call(c) \/ CallerStep(c) \/ Timeout(c)
  PROVE  IInv'
<1> DEFINE Quiet == UNCHANGED <<workers, busy, aged, born, proc, slot, pool, stopping, faults>>
<1>1. CASE Call(c)
  <2>1. /\ pc' = [pc EXCEPT ![c] = "acquire"] /\ Quiet /\ pc[c] = "idle"
        /\ completed' \in [Id -> 0 .. MaxTasks] /\ calls' \in 0 .. MaxCalls
    BY <1>1 DEF Call, Goto, dict, IInv, TypeOK
  <2>2. QED
    BY <2>1, MoveSafe DEF CallStage
<1>2. CASE Refuse(c) \/ Wake(c) \/ SendFails(c) \/ WorkerGone(c) \/ TaskTimeout(c)
  <2>1. /\ Quiet /\ completed' \in [Id -> 0 .. MaxTasks] /\ calls' \in 0 .. MaxCalls
    BY <1>2 DEF Refuse, Wake, SendFails, WorkerGone, TaskTimeout, dict, IInv, TypeOK
  <2>2. \/ pc[c] = "acquire" /\ pc' = [pc EXCEPT ![c] = "idle"]
        \/ pc[c] = "waiting" /\ pc' = [pc EXCEPT ![c] = "acquire"]
        \/ pc[c] \in {"holding", "running"} /\ pc' = [pc EXCEPT ![c] = "drop"]
    BY <1>2 DEF Refuse, Wake, SendFails, WorkerGone, TaskTimeout, Goto
  <2>3. QED
    BY <2>1, <2>2, MoveSafe DEF CallStage
<1>3. CASE Record(c)
  <2>1. Quiet /\ calls' \in 0 .. MaxCalls /\ pc[c] = "record"
    BY <1>3 DEF Record, IInv, TypeOK
  <2>2. \E l \in {"release", "retire"} : pc' = [pc EXCEPT ![c] = l]
    BY <1>3 DEF Record, Goto
  <2>3. completed' \in [Id -> 0 .. MaxTasks]
    BY <1>3 DEF Record, Count, IInv, TypeOK
  <2>4. QED
    BY <2>1, <2>2, <2>3, MoveSafe DEF CallStage
<1>4. CASE Wait(c) \/ AcquireTimeout(c)
  BY <1>4, PruneSafe DEF Wait, AcquireTimeout, AcquireBlocked, Goto
<1>5. QED
  BY <1>1, <1>2, <1>3, <1>4, AcquireIdleSafe, AcquireSpawnSafe, SendSafe, ReceiveSafe,
     DropSafe, StopSafe, ReleaseGoneSafe, ReleaseSafe, RetireSafe
     DEF CallerStep, Timeout

LEMMA NextSafe == IInv /\ [Next]_vars => IInv'
<1> SUFFICES ASSUME IInv, [Next]_vars PROVE IInv'
  OBVIOUS
<1>1. CASE UNCHANGED vars
  <2>1. TypeOK'
    BY <1>1 DEF vars, dict, proc, IInv, TypeOK
  <2>2. Held' /\ Clean' /\ NoOrphanProcess' /\ Bounds'
    BY <1>1 DEF vars, dict, proc, IInv, Held, Clean, FreeWorkersClean, NoOrphanProcess,
                Bounds, CapKept, LeakBounded
  <2>3. QED
    BY <2>1, <2>2 DEF IInv
<1>2. CASE Snapshot
  BY <1>2, PruneSafe DEF Snapshot
<1>3. CASE \E w \in Id : StopTaken(w) \/ Dequeue(w) \/ Answer(w) \/ Dies(w) \/ Ages(w)
  BY <1>3, StopTakenSafe, WorkSafe, WorldSafe
<1>4. QED
  BY <1>1, <1>2, <1>3, CallerSafe, ReapSafe, CloseSafe DEF Next

\* The state of the pool satisfies the inductive invariant at all times.
THEOREM Invariance == Spec => []IInv
<1>1. QED
  BY InitSafe, NextSafe, PTL DEF Spec

\* Every variable of the worker pool keeps its type.
THEOREM TypeCorrect == Spec => []TypeOK
BY Invariance, PTL DEF IInv

\* _spawn_worker_locked never takes the dict beyond max_workers.
THEOREM CapIsKept == Spec => []CapKept
BY Invariance, PTL DEF IInv, Bounds

\* No worker is handed out with a task of an earlier call in it.
THEOREM FreeWorkersAreClean == Spec => []FreeWorkersClean
BY Invariance, PTL DEF IInv, Clean

\* Every live subprocess is tracked or about to be stopped.
THEOREM NoProcessIsOrphaned == Spec => []NoOrphanProcess
BY Invariance, PTL DEF IInv

\* What calls that end after close() leave behind is at most the floor.
THEOREM LeakIsBounded == Spec => []LeakBounded
BY Invariance, PTL DEF IInv, Bounds

-----------------------------------------------------------------------------
(***************************************************************************)
(* The warm floor of an open worker pool misses only workers that died by  *)
(* themselves, for every number of threads and every setting.              *)
(***************************************************************************)

Lost == workers \ alive
Live == workers \intersect alive

\* Nothing but a death makes a tracked worker a dead one, and refilling the
\* floor replaces everything else that leaves.
FloorInv ==
  /\ stopping \intersect workers = {}
  /\ Cardinality(Lost) <= faults
  /\ Open => Cardinality(Live) + faults >= MinWarm


\* A set falls into what is outside and what is inside another.
LEMMA Split ==
  ASSUME NEW W, NEW A, IsFiniteSet(W)
  PROVE  /\ IsFiniteSet(W \ A) /\ IsFiniteSet(W \intersect A)
         /\ Cardinality(W) \in Nat
         /\ Cardinality(W \ A) \in Nat /\ Cardinality(W \intersect A) \in Nat
         /\ Cardinality(W) = Cardinality(W \ A) + Cardinality(W \intersect A)
<1>1. IsFiniteSet(W \ A) /\ IsFiniteSet(W \intersect A)
  BY FS_Subset
<1>2. /\ Cardinality(W) \in Nat
      /\ Cardinality(W \ A) \in Nat /\ Cardinality(W \intersect A) \in Nat
  BY <1>1, FS_CardinalityType
<1>3. W = (W \ A) \union (W \intersect A) /\ (W \ A) \intersect (W \intersect A) = {}
  OBVIOUS
<1>4. Cardinality({}) = 0
  BY FS_EmptySet
<1>5. Cardinality((W \ A) \union (W \intersect A))
        = Cardinality(W \ A) + Cardinality(W \intersect A)
            - Cardinality((W \ A) \intersect (W \intersect A))
  BY <1>1, FS_Union
<1> DEFINE lost == W \ A
           live == W \intersect A
<1>6. Cardinality(lost \union live) = Cardinality(lost) + Cardinality(live)
  <2>1. Cardinality(lost \intersect live) = 0
    BY <1>3, <1>4
  <2>2. QED
    BY <1>2, <1>5, <2>1
<1>7. Cardinality(W) = Cardinality(lost \union live)
  BY <1>3
<1>8. QED
  BY <1>1, <1>2, <1>6, <1>7

LEMMA Parts ==
  ASSUME TypeOK
  PROVE  /\ IsFiniteSet(workers) /\ IsFiniteSet(Lost) /\ IsFiniteSet(Live)
         /\ Cardinality(workers) \in Nat /\ Cardinality(Lost) \in Nat /\ Cardinality(Live) \in Nat
         /\ Cardinality(workers) = Cardinality(Lost) + Cardinality(Live)
<1>1. IsFiniteSet(workers)
  BY Sizes
<1>2. QED
  BY <1>1, Split DEF Lost, Live

\* A step after which the same workers live.
LEMMA SameFloor ==
  ASSUME TypeOK, FloorInv, UNCHANGED <<pool, faults>>, Lost' \subseteq Lost, Live \subseteq Live',
         IsFiniteSet(workers'), stopping' \intersect workers' = {}
  PROVE  FloorInv'
<1>1. faults \in Nat
  BY DEF TypeOK
<1>2. IsFiniteSet(Live')
  BY FS_Subset DEF Live
<1>3. Cardinality(Lost') <= Cardinality(Lost) /\ Cardinality(Lost') \in Nat
  BY Parts, FS_Subset, FS_CardinalityType
<1>4. Cardinality(Live) <= Cardinality(Live') /\ Cardinality(Live') \in Nat
  BY <1>2, FS_Subset, FS_CardinalityType
<1>5. Cardinality(Lost) \in Nat /\ Cardinality(Live) \in Nat
  BY Parts
<1>6. QED
  BY <1>1, <1>3, <1>4, <1>5 DEF FloorInv

\* _ensure_min_warm_locked fills up with live workers what is left.
LEMMA Refilled ==
  ASSUME TypeOK, TypeOK', FloorInv, UNCHANGED <<pool, faults>>, NEW W \in SUBSET workers,
         born' = born + Missing(W), workers' = W \union Fresh(Missing(W)), alive' = Launch,
         stopping' \subseteq stopping \union (workers \ W)
  PROVE  FloorInv'
<1>1. faults \in Nat /\ born \in Nat /\ born' \in Nat /\ born' <= MaxId
  BY DEF TypeOK
<1>2. Missing(W) \in Nat
  BY MissingType
<1>3. Cardinality(workers') = Cardinality(W) + Missing(W)
  BY <1>1, <1>2, Filled
<1>4. Cardinality(W) \in Nat
  BY Sizes
<1>5. Cardinality(workers') >= MinWarm
  BY <1>3, <1>4 DEF Missing
<1>6. Lost' \subseteq Lost
  <2>1. Fresh(Missing(W)) \subseteq alive' /\ alive \subseteq alive'
    BY <1>1 DEF Fresh, Launch
  <2>2. QED
    BY <2>1 DEF Lost
<1>7. Cardinality(Lost') <= Cardinality(Lost) /\ Cardinality(Lost) \in Nat
  BY <1>6, Parts, FS_Subset
<1>8. IsFiniteSet(workers')
  <2>1. IsFiniteSet(1 .. born')
    BY <1>1, FS_Interval
  <2>2. QED
    BY <2>1, FS_Subset DEF TypeOK
<1>9. /\ Cardinality(Lost') \in Nat /\ Cardinality(Live') \in Nat
      /\ Cardinality(workers') = Cardinality(Lost') + Cardinality(Live')
  BY <1>8, Split DEF Lost, Live
<1>10. Cardinality(Lost') <= faults' /\ Cardinality(Live') + faults' >= MinWarm
  BY <1>1, <1>5, <1>7, <1>9 DEF FloorInv
<1>11. stopping' \intersect workers' = {}
  <2>1. stopping \subseteq 1 .. born /\ workers \subseteq 1 .. born
    BY DEF TypeOK
  <2>2. Fresh(Missing(W)) \intersect 1 .. born = {}
    BY <1>1 DEF Fresh
  <2>3. QED
    BY <2>1, <2>2 DEF FloorInv
<1>12. QED
  BY <1>10, <1>11 DEF FloorInv

-----------------------------------------------------------------------------

\* Steps that leave the dict and its subprocesses alone, or only stop workers
\* that have left it.
LEMMA QuietFloor ==
  ASSUME IInv, FloorInv, UNCHANGED <<workers, pool, faults>>,
         workers \intersect alive \subseteq alive', stopping' \subseteq stopping
  PROVE  FloorInv'
<1>1. Lost' \subseteq Lost /\ Live \subseteq Live'
  BY DEF Lost, Live
<1>2. IsFiniteSet(workers') /\ stopping' \intersect workers' = {}
  BY Parts DEF IInv, FloorInv
<1>3. QED
  BY <1>1, <1>2, SameFloor DEF IInv

\* Pruning forgets dead workers only, and a spawn adds a live one.
LEMMA PrunedFloor ==
  ASSUME IInv, FloorInv, NEW n \in Nat, UNCHANGED <<pool, faults, stopping>>,
         workers' = Pruned \union Fresh(n), alive' = alive \union Fresh(n)
  PROVE  FloorInv'
<1>1. born \in Nat /\ stopping \subseteq 1 .. born
  BY DEF IInv, TypeOK
<1>2. Lost' \subseteq Lost /\ Live \subseteq Live'
  BY DEF Lost, Live, Pruned
<1>3. IsFiniteSet(workers')
  <2>1. IsFiniteSet(Pruned)
    BY Parts DEF IInv, Pruned, Live
  <2>2. IsFiniteSet(Fresh(n))
    BY <1>1, FS_Interval DEF Fresh
  <2>3. QED
    BY <2>1, <2>2, FS_Union
<1>4. stopping' \intersect workers' = {}
  BY <1>1 DEF FloorInv, Pruned, Fresh
<1>5. QED
  BY <1>2, <1>3, <1>4, SameFloor DEF IInv

LEMMA DeathFloor ==
  ASSUME IInv, FloorInv, NEW w \in Id, Dies(w)
  PROVE  FloorInv'
<1>1. /\ UNCHANGED <<workers, pool, stopping>>
      /\ faults' = faults + 1 /\ alive' = alive \ {w}
  BY DEF Dies, dict
<1>2. faults \in Nat
  BY DEF IInv, TypeOK
<1>3. /\ IsFiniteSet(Lost) /\ Cardinality(Lost) \in Nat /\ Cardinality(Live) \in Nat
      /\ IsFiniteSet(workers) /\ Cardinality(workers) = Cardinality(Lost) + Cardinality(Live)
  BY Parts DEF IInv
<1>4. /\ Cardinality(Lost') \in Nat /\ Cardinality(Live') \in Nat
      /\ Cardinality(workers) = Cardinality(Lost') + Cardinality(Live')
  BY <1>1, <1>3, Split DEF Lost, Live
<1>5. Cardinality(Lost \union {w}) <= Cardinality(Lost) + 1 /\ IsFiniteSet(Lost \union {w})
  <2>1. /\ IsFiniteSet(Lost \union {w})
        /\ Cardinality(Lost \union {w})
             = IF w \in Lost THEN Cardinality(Lost) ELSE Cardinality(Lost) + 1
    BY <1>3, FS_AddElement
  <2>2. QED
    BY <1>3, <2>1
<1>6. Lost' \subseteq Lost \union {w}
  BY <1>1 DEF Lost
<1>7. Cardinality(Lost') <= Cardinality(Lost \union {w}) /\ Cardinality(Lost \union {w}) \in Nat
  BY <1>5, <1>6, FS_Subset, FS_CardinalityType
<1>8. Cardinality(Lost') <= Cardinality(Lost) + 1
  BY <1>3, <1>4, <1>5, <1>7
<1>9. QED
  BY <1>1, <1>2, <1>3, <1>4, <1>8 DEF FloorInv

LEMMA CallerFloor ==
  ASSUME IInv, IInv', FloorInv, NEW c \in Caller, Call(c) \/ CallerStep(c) \/ Timeout(c)
  PROVE  FloorInv'
<1>1. CASE \/ Call(c) \/ Refuse(c) \/ Wake(c) \/ Send(c) \/ SendFails(c) \/ Receive(c)
           \/ WorkerGone(c) \/ Record(c) \/ ReleaseGone(c) \/ TaskTimeout(c)
  <2>1. UNCHANGED <<workers, alive, pool, faults, stopping>>
    BY <1>1 DEF Call, Refuse, Wake, Send, SendFails, Receive, WorkerGone, Record, ReleaseGone,
                TaskTimeout, dict, proc
  <2>2. QED
    BY <2>1, QuietFloor
<1>2. CASE Stop(c)
  <2>1. slot[c] \notin workers
    BY <1>2 DEF Stop, IInv, Held
  <2>2. UNCHANGED <<workers, pool, faults, stopping>> /\ alive' = alive \ {slot[c]}
    BY <1>2 DEF Stop, dict
  <2>3. QED
    BY <2>1, <2>2, QuietFloor
<1>3. CASE AcquireIdle(c) \/ Wait(c) \/ AcquireTimeout(c)
  <2>1. UNCHANGED <<pool, faults, stopping, alive>> /\ workers' = Pruned
    BY <1>3 DEF AcquireIdle, Wait, AcquireTimeout, AcquireBlocked
  <2>2. Fresh(0) = {}
    BY DEF Fresh, IInv, TypeOK
  <2>3. QED
    BY <2>1, <2>2, PrunedFloor
<1>4. CASE AcquireSpawn(c)
  <2>1. /\ UNCHANGED <<pool, faults, stopping>> /\ born' = born + 1
        /\ workers' = Pruned \union Fresh(1) /\ alive' = Launch
    BY <1>4 DEF AcquireSpawn, Spawn
  <2>2. alive' = alive \union Fresh(1)
    BY <2>1 DEF Launch, Fresh
  <2>3. QED
    BY <2>1, <2>2, PrunedFloor
<1>5. CASE Drop(c) \/ Retire(c)
  <2>1. /\ UNCHANGED <<pool, faults, stopping>> /\ alive' = Launch
        /\ EnsureMinWarm(workers \ {slot[c]})
    BY <1>5 DEF Drop, Retire
  <2>2. QED
    BY <2>1, Refilled DEF EnsureMinWarm, Spawn, IInv
<1>6. CASE Release(c)
  <2>1. /\ UNCHANGED <<pool, faults, stopping>> /\ alive' = Launch
        /\ born' = born + Missing(workers)
        /\ workers' = workers \union Fresh(Missing(workers))
    BY <1>6 DEF Release, Spawn
  <2>2. QED
    BY <2>1, Refilled DEF IInv
<1>7. QED
  BY <1>1, <1>2, <1>3, <1>4, <1>5, <1>6 DEF CallerStep, Timeout

LEMMA PoolFloor ==
  ASSUME IInv, IInv', FloorInv,
         Reap \/ Close \/ Snapshot \/ \E w \in Id : StopTaken(w) \/ Dequeue(w) \/ Answer(w) \/ Ages(w)
  PROVE  FloorInv'
<1>1. CASE Reap
  <2>1. PICK S \in SUBSET aged :
          /\ EnsureMinWarm(Pruned \ S) /\ stopping' = stopping \union S
          /\ alive' = Launch /\ UNCHANGED <<pool, faults>>
    BY <1>1 DEF Reap
  <2>2. Pruned \ S \in SUBSET workers /\ S \subseteq workers \ (Pruned \ S)
    BY DEF Pruned, IInv, TypeOK
  <2>3. QED
    BY <2>1, <2>2, Refilled DEF EnsureMinWarm, Spawn, IInv
<1>2. CASE Close
  <2>1. workers' = {} /\ pool' = "closed" /\ UNCHANGED faults
    BY <1>2 DEF Close
  <2>2. Cardinality(Lost') = 0
    BY <2>1, FS_EmptySet DEF Lost
  <2>3. QED
    BY <2>1, <2>2 DEF FloorInv, IInv, TypeOK
<1>3. CASE Snapshot
  <2>1. UNCHANGED <<pool, faults, stopping, alive>> /\ workers' = Pruned
    BY <1>3 DEF Snapshot
  <2>2. Fresh(0) = {}
    BY DEF Fresh, IInv, TypeOK
  <2>3. QED
    BY <2>1, <2>2, PrunedFloor
<1>4. ASSUME NEW w \in Id, StopTaken(w) \/ Dequeue(w) \/ Answer(w) \/ Ages(w)
      PROVE  FloorInv'
  <2>1. CASE StopTaken(w)
    <3>1. w \notin workers
      BY <2>1 DEF StopTaken, FloorInv
    <3>2. /\ UNCHANGED <<workers, pool, faults>> /\ alive' = alive \ {w}
          /\ stopping' \subseteq stopping
      BY <2>1 DEF StopTaken, dict
    <3>3. QED
      BY <3>1, <3>2, QuietFloor
  <2>2. CASE Dequeue(w) \/ Answer(w) \/ Ages(w)
    <3>1. UNCHANGED <<workers, alive, pool, faults, stopping>>
      BY <2>2 DEF Dequeue, Answer, Ages, dict, proc
    <3>2. QED
      BY <3>1, QuietFloor
  <2>3. QED
    BY <1>4, <2>1, <2>2
<1>5. QED
  BY <1>1, <1>2, <1>3, <1>4

LEMMA InitFloor == Init => FloorInv
<1> SUFFICES ASSUME Init PROVE FloorInv
  OBVIOUS
<1>1. Lost = {} /\ Live = 1 .. MinWarm
  BY DEF Init, Lost, Live
<1>2. Cardinality({}) = 0 /\ Cardinality(1 .. MinWarm) = MinWarm
  BY FS_EmptySet, FS_Interval
<1>3. QED
  BY <1>1, <1>2 DEF Init, FloorInv

\* No drop, retirement, shrink or prune takes a worker from the warm floor of
\* an open pool: what is missing from it has died by itself.
THEOREM FloorMissesNoLiveWorker == Spec => []FloorMissesOnlyTheDead
<1>1. IInv /\ IInv' /\ FloorInv /\ [Next]_vars => FloorInv'
  <2>1. SUFFICES ASSUME IInv, IInv', FloorInv, [Next]_vars
                 PROVE  FloorInv'
    OBVIOUS
  <2>2. CASE UNCHANGED vars
    BY <2>1, <2>2, QuietFloor DEF vars, dict, proc
  <2>3. CASE Next
    BY <2>1, <2>3, CallerFloor, PoolFloor, DeathFloor DEF Next
  <2>4. QED
    BY <2>1, <2>2, <2>3
<1>2. IInv /\ FloorInv => FloorMissesOnlyTheDead
  <2>1. SUFFICES ASSUME IInv, FloorInv, Open
                 PROVE  Cardinality(workers) + faults >= MinWarm
    BY DEF FloorMissesOnlyTheDead
  <2>2. /\ Cardinality(Lost) \in Nat /\ Cardinality(Live) \in Nat
        /\ Cardinality(workers) = Cardinality(Lost) + Cardinality(Live)
    BY <2>1, Parts DEF IInv
  <2>3. faults \in Nat /\ Cardinality(Live) + faults >= MinWarm
    BY <2>1 DEF IInv, TypeOK, FloorInv
  <2>4. QED
    BY <2>2, <2>3
<1>3. QED
  BY <1>1, <1>2, InitFloor, Invariance, PTL DEF Spec

-----------------------------------------------------------------------------
(***************************************************************************)
(* The worker pool implements the execution lanes: every one of its steps  *)
(* is a step of ExecutionLane or changes nothing there.                    *)
(***************************************************************************)

Spent == (1 .. born) \ workers
Failed == {c \in Caller : pc[c] \in {"drop", "stop", "dropped"}}

\* No worker comes back to the dict: a spawn takes a new number.
NoReturn == /\ born' \in 0 .. MaxId /\ born <= born'
            /\ \A w \in workers' : w \in workers \/ w > born

-----------------------------------------------------------------------------


LEMMA LaneInit == Init => Lanes!Init
BY DEF Init, Lanes!Init

LEMMA LaneWear ==
  ASSUME IInv, NoReturn
  PROVE  Lanes!Wear
<1>1. born \in Nat /\ born' \in Nat /\ born' <= MaxId
  BY DEF NoReturn, IInv, TypeOK
<1>2. \A w \in (1 .. born) \ workers : w \in (1 .. born') \ workers'
  BY <1>1 DEF NoReturn
<1>3. (1 .. born') \ workers' \subseteq Id
  BY <1>1 DEF Id
<1>4. QED
  BY <1>2, <1>3 DEF Lanes!Wear

\* A step that leaves every lease and every failed call alone.
LEMMA LaneManage ==
  ASSUME IInv, NoReturn, slot' = slot, Failed' = Failed
  PROVE  Lanes!Next
BY LaneWear DEF Failed, Lanes!Manage, Lanes!Next

\* A step that ends the lease of a caller.
LEMMA LaneEnd ==
  ASSUME IInv, NoReturn, NEW c \in Caller, slot[c] # 0,
         c \in Failed => slot[c] \in Spent,
         slot' = [slot EXCEPT ![c] = 0], pc' = [pc EXCEPT ![c] = "idle"]
  PROVE  Lanes!Next
<1>1. Failed' = Failed \ {c}
  BY DEF Failed, IInv, TypeOK
<1>2. Lanes!End(c)
  BY <1>1, LaneWear DEF Lanes!End, Failed, Spent
<1>3. QED
  BY <1>2 DEF Lanes!Next

\* A step that leases a worker that nobody else has.
LEMMA LaneBegin ==
  ASSUME IInv, NoReturn, NEW c \in Caller, NEW w \in Id, slot[c] = 0, w \in workers',
         \A d \in Caller : slot[d] # w, pc[c] = "acquire",
         slot' = [slot EXCEPT ![c] = w], pc' = [pc EXCEPT ![c] = "holding"]
  PROVE  Lanes!Next
<1>1. Failed' = Failed
  BY DEF Failed, IInv, TypeOK
<1>2. Lanes!Begin(c)
  BY <1>1, LaneWear DEF Lanes!Begin, Failed
<1>3. QED
  BY <1>2 DEF Lanes!Next

\* A step that fails the call of a caller.
LEMMA LaneFail ==
  ASSUME IInv, NEW c \in Caller, slot[c] # 0, pc' = [pc EXCEPT ![c] = "drop"],
         UNCHANGED <<slot, born, workers>>
  PROVE  Lanes!Next
<1>1. Failed' = Failed \union {c}
  BY DEF Failed, IInv, TypeOK
<1>2. Lanes!Fail(c)
  BY <1>1 DEF Lanes!Fail, Failed
<1>3. QED
  BY <1>2 DEF Lanes!Next

-----------------------------------------------------------------------------

\* A step that leaves the dict alone, and one that refills it.
LEMMA DictKept == ASSUME IInv, UNCHANGED <<born, workers>> PROVE NoReturn
BY DEF NoReturn, IInv, TypeOK

LEMMA DictPruned == ASSUME IInv, workers' = Pruned, born' = born PROVE NoReturn
BY DEF NoReturn, Pruned, IInv, TypeOK

LEMMA DictRefilled ==
  ASSUME IInv, NEW W \in SUBSET workers, Spawn(Missing(W)),
         workers' = W \union Fresh(Missing(W))
  PROVE  NoReturn
<1>1. Missing(W) \in Nat /\ born \in Nat
  BY MissingType DEF IInv, TypeOK
<1>2. born' = born + Missing(W) /\ born' <= MaxId
  BY DEF Spawn
<1>3. QED
  BY <1>1, <1>2 DEF NoReturn, Fresh

LEMMA CallerLane ==
  ASSUME IInv, NEW c \in Caller, Call(c) \/ CallerStep(c) \/ Timeout(c)
  PROVE  Lanes!Next
<1> USE DEF Goto, Take
<1>1. CASE Call(c) \/ Refuse(c) \/ Wake(c)
  <2>1. UNCHANGED <<born, workers, slot>> /\ pc[c] \in {"idle", "acquire", "waiting"}
        /\ \E l \in {"idle", "acquire"} : pc' = [pc EXCEPT ![c] = l]
    BY <1>1 DEF Call, Refuse, Wake, dict
  <2>2. Failed' = Failed
    BY <2>1 DEF Failed, IInv, TypeOK
  <2>3. QED
    BY <2>1, <2>2, DictKept, LaneManage
<1>2. CASE Wait(c) \/ AcquireTimeout(c)
  <2>1. workers' = Pruned /\ born' = born /\ slot' = slot /\ pc[c] = "acquire"
        /\ \E l \in {"idle", "waiting"} : pc' = [pc EXCEPT ![c] = l]
    BY <1>2 DEF Wait, AcquireTimeout, AcquireBlocked
  <2>2. Failed' = Failed
    BY <2>1 DEF Failed, IInv, TypeOK
  <2>3. QED
    BY <2>1, <2>2, DictPruned, LaneManage
<1>3. CASE AcquireIdle(c)
  <2>1. PICK w \in Idle(Pruned) : slot' = [slot EXCEPT ![c] = w]
    BY <1>3 DEF AcquireIdle, FirstIdle
  <2>2. w \in workers /\ w \in alive /\ w \notin busy /\ w \in Id /\ w # 0
    BY DEF Idle, Pruned, IInv, TypeOK, Id
  <2>3. workers' = Pruned /\ born' = born /\ pc[c] = "acquire" /\ pc' = [pc EXCEPT ![c] = "holding"]
    BY <1>3 DEF AcquireIdle
  <2>4. slot[c] = 0 /\ \A d \in Caller : slot[d] # w
    BY <2>2, <2>3 DEF IInv, Held
  <2>5. QED
    BY <2>1, <2>2, <2>3, <2>4, DictPruned, LaneBegin DEF Pruned
<1>4. CASE AcquireSpawn(c)
  <2>1. /\ born' = born + 1 /\ born' <= MaxId /\ workers' = Pruned \union Fresh(1)
        /\ slot' = [slot EXCEPT ![c] = born'] /\ pc[c] = "acquire"
        /\ pc' = [pc EXCEPT ![c] = "holding"] /\ born \in Nat
    BY <1>4 DEF AcquireSpawn, Spawn, IInv, TypeOK
  <2>2. Fresh(1) = {born'} /\ born' \in Id /\ born' > born
    BY <2>1 DEF Fresh, Id
  <2>3. NoReturn
    BY <2>1, <2>2 DEF NoReturn, Pruned
  <2>4. slot[c] = 0 /\ \A d \in Caller : slot[d] # born'
    BY <2>1, <2>2 DEF IInv, Held
  <2>5. QED
    BY <2>1, <2>2, <2>3, <2>4, LaneBegin
<1>5. CASE SendFails(c) \/ WorkerGone(c) \/ TaskTimeout(c)
  <2>1. UNCHANGED <<born, workers, slot>> /\ pc[c] \in {"holding", "running"}
        /\ pc' = [pc EXCEPT ![c] = "drop"]
    BY <1>5 DEF SendFails, WorkerGone, TaskTimeout, dict
  <2>2. slot[c] # 0
    BY <2>1 DEF IInv, Held
  <2>3. QED
    BY <2>1, <2>2, LaneFail
<1>6. CASE Send(c) \/ Record(c) \/ Receive(c)
  <2>1. UNCHANGED <<born, workers, slot>> /\ pc[c] \in {"holding", "running", "record"}
    BY <1>6 DEF Send, Record, Receive, dict
  <2>2. \E l \in {"running", "record", "release", "retire", "drop"} : pc' = [pc EXCEPT ![c] = l]
    BY <1>6 DEF Send, Record, Receive
  <2>3. CASE pc' = [pc EXCEPT ![c] = "drop"]
    <3>1. slot[c] # 0
      BY <2>1 DEF IInv, Held
    <3>2. QED
      BY <2>1, <2>3, <3>1, LaneFail
  <2>4. CASE \E l \in {"running", "record", "release", "retire"} : pc' = [pc EXCEPT ![c] = l]
    <3>1. Failed' = Failed
      BY <2>1, <2>4 DEF Failed, IInv, TypeOK
    <3>2. QED
      BY <2>1, <3>1, DictKept, LaneManage
  <2>5. QED
    BY <2>2, <2>3, <2>4
<1>7. CASE Drop(c) \/ Retire(c)
  <2>1. EnsureMinWarm(workers \ {slot[c]}) /\ slot' = slot
    BY <1>7 DEF Drop, Retire
  <2>2. \/ pc[c] = "drop" /\ \E l \in {"stop", "dropped"} : pc' = [pc EXCEPT ![c] = l]
        \/ pc[c] = "retire" /\ pc' = [pc EXCEPT ![c] = "ending"]
    BY <1>7 DEF Drop, Retire, Retires
  <2>3. Failed' = Failed
    BY <2>2 DEF Failed, IInv, TypeOK
  <2>4. QED
    BY <2>1, <2>3, DictRefilled, LaneManage DEF EnsureMinWarm
<1>8. CASE Stop(c)
  <2>1. UNCHANGED <<born, workers>>
    BY <1>8 DEF Stop, dict
  <2>2. CASE pc[c] = "stop"
    <3>1. slot' = slot /\ pc' = [pc EXCEPT ![c] = "dropped"]
      BY <1>8, <2>2 DEF Stop
    <3>2. Failed' = Failed
      BY <2>2, <3>1 DEF Failed, IInv, TypeOK
    <3>3. QED
      BY <2>1, <3>1, <3>2, DictKept, LaneManage
  <2>3. CASE pc[c] = "ending"
    <3>1. slot' = [slot EXCEPT ![c] = 0] /\ pc' = [pc EXCEPT ![c] = "idle"]
      BY <1>8, <2>3 DEF Stop
    <3>2. slot[c] # 0 /\ c \notin Failed
      BY <2>3 DEF Failed, IInv, Held
    <3>3. QED
      BY <2>1, <3>1, <3>2, DictKept, LaneEnd
  <2>4. QED
    BY <1>8, <2>2, <2>3 DEF Stop
<1>9. CASE ReleaseGone(c)
  <2>1. /\ UNCHANGED <<born, workers>> /\ slot[c] \notin workers
        /\ slot' = [slot EXCEPT ![c] = 0] /\ pc' = [pc EXCEPT ![c] = "idle"]
        /\ pc[c] \in {"release", "retire", "dropped"}
    BY <1>9 DEF ReleaseGone, dict
  <2>2. slot[c] # 0 /\ slot[c] \in Spent
    BY <2>1 DEF IInv, Held, TypeOK, Spent
  <2>3. QED
    BY <2>1, <2>2, DictKept, LaneEnd
<1>10. CASE Release(c)
  <2>1. /\ Spawn(Missing(workers)) /\ workers' = workers \union Fresh(Missing(workers))
        /\ slot[c] \in workers /\ pc[c] \in {"release", "retire", "dropped"}
        /\ slot' = [slot EXCEPT ![c] = 0] /\ pc' = [pc EXCEPT ![c] = "idle"]
    BY <1>10 DEF Release
  <2>2. slot[c] # 0 /\ c \notin Failed
    BY <2>1 DEF IInv, Held, Failed
  <2>3. NoReturn
    BY <2>1, DictRefilled
  <2>4. QED
    BY <2>1, <2>2, <2>3, LaneEnd
<1>11. QED
  BY <1>1, <1>2, <1>3, <1>4, <1>5, <1>6, <1>7, <1>8, <1>9, <1>10 DEF CallerStep, Timeout

LEMMA LaneNext == IInv /\ [Next]_vars => [Lanes!Next]_(Lanes!lane)
<1> SUFFICES ASSUME IInv, [Next]_vars PROVE [Lanes!Next]_(Lanes!lane)
  OBVIOUS
<1>1. CASE UNCHANGED vars
  BY <1>1 DEF vars, dict, Lanes!lane
<1>2. CASE Reap
  <2>1. PICK S \in SUBSET aged : EnsureMinWarm(Pruned \ S)
    BY <1>2 DEF Reap
  <2>2. slot' = slot /\ pc' = pc /\ Pruned \ S \in SUBSET workers
    BY <1>2 DEF Reap, Pruned
  <2>3. NoReturn
    BY <2>1, <2>2, DictRefilled DEF EnsureMinWarm
  <2>4. QED
    BY <2>2, <2>3, LaneManage DEF Failed
<1>3. CASE Snapshot
  BY <1>3, DictPruned, LaneManage DEF Snapshot, Failed
<1>4. CASE Close
  <2>1. NoReturn /\ slot' = slot /\ pc' = pc
    BY <1>4 DEF Close, NoReturn, IInv, TypeOK
  <2>2. QED
    BY <2>1, LaneManage DEF Failed
<1>5. CASE \E w \in Id : StopTaken(w) \/ Dequeue(w) \/ Answer(w) \/ Dies(w) \/ Ages(w)
  <2>1. UNCHANGED <<slot, pc, born, workers>>
    BY <1>5 DEF StopTaken, Dequeue, Answer, Dies, Ages, dict
  <2>2. QED
    BY <2>1, DictKept, LaneManage DEF Failed
<1>6. QED
  BY <1>1, <1>2, <1>3, <1>4, <1>5, CallerLane DEF Next

\* The pool is a set of execution lanes: one call at a time on a worker, and
\* no call on a worker after one that failed there.
THEOREM PoolImplementsLanes == Spec => LaneSpec
<1>1. IInv /\ [Next]_vars => [Lanes!Next]_(Lanes!lane)
  BY LaneNext
<1>2. QED
  BY <1>1, LaneInit, Invariance, PTL DEF Spec, LaneSpec, Lanes!Spec
=============================================================================

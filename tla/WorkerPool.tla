----------------------------- MODULE WorkerPool -----------------------------
(***************************************************************************)
(* StepExecutionPool (src/providers/python/src/worker_pool.py): the        *)
(* subprocesses of the Python provider.  The threads of the HTTP server    *)
(* call execute_step; a reaper thread and close() run beside them.  Every  *)
(* action is one critical section of the pool's condition, one queue       *)
(* operation, or a step of a subprocess.  A worker is named by a number,   *)
(* in the order of the spawns, which is the order the dict of workers is   *)
(* searched in.  A definition marked "mutant" is a bug the code does not   *)
(* have: no definition of the model uses it.                               *)
(***************************************************************************)
EXTENDS Naturals, FiniteSets

CONSTANTS
  Caller,      \* threads of the HTTP server
  MinWarm,     \* min_warm_workers
  MaxWorkers,  \* max_workers
  MaxTasks,    \* max_tasks_per_worker
  MaxId,       \* bound on the workers spawned
  MaxCalls,    \* bound on the calls of execute_step
  MaxFaults,   \* bound on the subprocesses that die by themselves
  MayClose     \* whether close() is explored

Id == 1 .. MaxId

ASSUME SettingsAssumption ==   \* what from_env establishes
  /\ MinWarm \in Nat /\ MaxWorkers \in Nat \ {0} /\ MinWarm <= MaxWorkers
  /\ MaxTasks \in Nat \ {0}
ASSUME CallerAssumption == 0 \notin Caller
ASSUME BoundAssumption ==
  MaxId \in Nat /\ MaxCalls \in Nat /\ MaxFaults \in Nat /\ MinWarm <= MaxId
ASSUME CloseAssumption == MayClose \in BOOLEAN

VARIABLES
  workers,   \* DOMAIN _workers
  busy,      \* the workers with worker.busy
  aged,      \* the idle workers with now - last_used_at >= idle_timeout_seconds
  completed, \* tasks_completed of each worker, counted up to max_tasks_per_worker
  born,      \* the workers spawned so far
  alive,     \* the subprocesses that run
  cut,       \* the workers whose queues are closed
  stage,     \* where each worker's task is: task queue, subprocess, result queue
  task,      \* the call it belongs to, 0 for none
  pc, slot,  \* what each caller does next, the worker it holds, 0 for none
  pool,      \* "open" or "closed": _closed
  stopping,  \* workers taken out of the dict by the reaper or close, to be stopped
  calls, faults

dict == <<workers, busy, aged, completed, born>>
proc == <<alive, cut, stage, task>>
vars == <<dict, proc, pc, slot, pool, stopping, calls, faults>>

Open == pool = "open"

-----------------------------------------------------------------------------
(* The dict of workers, under the condition's lock *)

Idle(W) == W \ busy

\* _spawn_worker_locked, n times.
Fresh(n) == (born + 1) .. (born + n)
Spawn(n) ==
  /\ born + n <= MaxId
  /\ born' = born + n

MissingOneMore(W) ==   \* mutant
  IF Cardinality(W) <= MinWarm THEN MinWarm + 1 - Cardinality(W) ELSE 0
Missing(W) == IF Cardinality(W) < MinWarm THEN MinWarm - Cardinality(W) ELSE 0

\* _ensure_min_warm_locked, the dict holding W before it.
NoFloor(W) ==   \* mutant
  /\ workers' = W
  /\ busy' = busy \intersect W /\ aged' = aged \intersect W
  /\ UNCHANGED born
EnsureMinWarm(W) ==
  /\ Spawn(Missing(W))
  /\ workers' = W \union Fresh(Missing(W))
  /\ busy' = busy \intersect W /\ aged' = aged \intersect W

\* _prune_dead_workers_locked: dead workers leave, whether busy or not, and
\* their queues are closed.
Pruned == workers \intersect alive
CutDead == cut \union (workers \ alive)

\* What the spawns of a step add to the subprocesses.
Launch == alive \union ((born + 1) .. born')

\* worker is workers' idle one that comes first in the dict.
AnyWorker(w) == w \in Pruned   \* mutant
FirstIdle(w) == w \in Idle(Pruned) /\ \A v \in Idle(Pruned) : w <= v

OneMore == Cardinality(Pruned) <= MaxWorkers   \* mutant
MayGrow == Cardinality(Pruned) < MaxWorkers

Goto(c, l) == pc' = [pc EXCEPT ![c] = l]
Take(c, w) == slot' = [slot EXCEPT ![c] = w]

Init ==
  /\ workers = 1 .. MinWarm /\ busy = {} /\ aged = {}
  /\ completed = [w \in Id |-> 0]
  /\ born = MinWarm
  /\ alive = 1 .. MinWarm /\ cut = {}
  /\ stage = [w \in Id |-> "none"] /\ task = [w \in Id |-> 0]
  /\ pc = [c \in Caller |-> "idle"] /\ slot = [c \in Caller |-> 0]
  /\ pool = "open" /\ stopping = {}
  /\ calls = 0 /\ faults = 0

-----------------------------------------------------------------------------
(* execute_step: _acquire_worker *)

Call(c) ==
  /\ pc[c] = "idle"
  /\ calls < MaxCalls /\ calls' = calls + 1
  /\ Goto(c, "acquire")
  /\ UNCHANGED <<dict, proc, slot, pool, stopping, faults>>

Refuse(c) ==
  /\ pc[c] = "acquire" /\ ~Open
  /\ Goto(c, "idle")
  /\ UNCHANGED <<dict, proc, slot, pool, stopping, calls, faults>>

AcquireIdle(c) ==
  /\ pc[c] = "acquire" /\ Open
  /\ \E w \in Pruned :
       /\ FirstIdle(w)
       /\ busy' = (busy \intersect Pruned) \union {w}
       /\ aged' = (aged \intersect Pruned) \ {w}
       /\ Take(c, w)
  /\ workers' = Pruned /\ cut' = CutDead
  /\ Goto(c, "holding")
  /\ UNCHANGED <<completed, born, alive, stage, task, pool, stopping, calls, faults>>

AcquireSpawn(c) ==
  /\ pc[c] = "acquire" /\ Open
  /\ Idle(Pruned) = {} /\ MayGrow
  /\ Spawn(1)
  /\ workers' = Pruned \union Fresh(1)
  /\ busy' = (busy \intersect Pruned) \union Fresh(1)
  /\ aged' = aged \intersect Pruned
  /\ alive' = Launch /\ cut' = CutDead
  /\ Take(c, born') /\ Goto(c, "holding")
  /\ UNCHANGED <<completed, stage, task, pool, stopping, calls, faults>>

\* Every worker is busy and there are max_workers: wait, or past the deadline
\* raise WorkerAcquireTimeout.
AcquireBlocked(c, l) ==
  /\ pc[c] = "acquire" /\ Open
  /\ Idle(Pruned) = {} /\ ~MayGrow
  /\ workers' = Pruned /\ cut' = CutDead
  /\ busy' = busy \intersect Pruned /\ aged' = aged \intersect Pruned
  /\ Goto(c, l)
  /\ UNCHANGED <<completed, born, alive, stage, task, slot, pool, stopping, calls, faults>>

Wait(c) == AcquireBlocked(c, "waiting")
AcquireTimeout(c) == AcquireBlocked(c, "idle")

\* A notify_all, or a second has passed.
Wake(c) ==
  /\ pc[c] = "waiting"
  /\ Goto(c, "acquire")
  /\ UNCHANGED <<dict, proc, slot, pool, stopping, calls, faults>>

-----------------------------------------------------------------------------
(* execute_step: _run_task *)

Send(c) ==
  LET w == slot[c] IN
  /\ pc[c] = "holding" /\ w \notin cut
  /\ stage' = [stage EXCEPT ![w] = "queued"]
  /\ task' = [task EXCEPT ![w] = c]
  /\ Goto(c, "running")
  /\ UNCHANGED <<dict, alive, cut, slot, pool, stopping, calls, faults>>

\* The queue was closed by a prune: the put raises.
SendFails(c) ==
  /\ pc[c] = "holding" /\ slot[c] \in cut
  /\ Goto(c, "drop")
  /\ UNCHANGED <<dict, proc, slot, pool, stopping, calls, faults>>

Receive(c) ==
  LET w == slot[c] IN
  /\ pc[c] = "running" /\ w \notin cut /\ stage[w] = "result"
  /\ stage' = [stage EXCEPT ![w] = "none"] /\ task' = [task EXCEPT ![w] = 0]
  /\ Goto(c, IF task[w] = c THEN "record" ELSE "drop")   \* mismatched task id
  /\ UNCHANGED <<dict, alive, cut, slot, pool, stopping, calls, faults>>

\* The queue was closed, or the get found nothing and then the subprocess was
\* not alive: it may have answered in between.
WorkerGone(c) ==
  /\ pc[c] = "running"
  /\ slot[c] \in cut \/ slot[c] \notin alive
  /\ Goto(c, "drop")
  /\ UNCHANGED <<dict, proc, slot, pool, stopping, calls, faults>>

\* task_timeout_seconds have passed, whatever the subprocess does.
TaskTimeoutKeepsWorker(c) ==   \* mutant
  /\ pc[c] = "running"
  /\ Goto(c, "release")
  /\ UNCHANGED <<dict, proc, slot, pool, stopping, calls, faults>>
TaskTimeoutOfTheDead(c) ==   \* mutant
  /\ pc[c] = "running" /\ slot[c] \notin alive
  /\ Goto(c, "drop")
  /\ UNCHANGED <<dict, proc, slot, pool, stopping, calls, faults>>
TaskTimeout(c) ==
  /\ pc[c] = "running"
  /\ Goto(c, "drop")
  /\ UNCHANGED <<dict, proc, slot, pool, stopping, calls, faults>>

-----------------------------------------------------------------------------
(* execute_step: _record_task_completion, _drop_worker, _release_worker *)

Count(n) == IF n < MaxTasks THEN n + 1 ELSE n

Record(c) ==
  LET w == slot[c] IN
  /\ pc[c] = "record"
  /\ IF w \in workers
       THEN /\ completed' = [completed EXCEPT ![w] = Count(completed[w])]
            /\ Goto(c, IF completed'[w] >= MaxTasks THEN "retire" ELSE "release")
       ELSE /\ UNCHANGED completed
            /\ Goto(c, "release")
  /\ UNCHANGED <<workers, busy, aged, born, proc, slot, pool, stopping, calls, faults>>

\* A worker that is still in the dict is taken out and stopped; the floor is
\* restored in any case, on a closed pool too.
Drop(c) ==
  /\ pc[c] = "drop"
  /\ EnsureMinWarm(workers \ {slot[c]})
  /\ alive' = Launch
  /\ Goto(c, IF slot[c] \in workers THEN "stop" ELSE "dropped")
  /\ UNCHANGED <<completed, cut, stage, task, slot, pool, stopping, calls, faults>>

\* _stop_worker: the subprocess ends, or is killed, and its queues are closed.
Stop(c) ==
  /\ pc[c] \in {"stop", "ending"}
  /\ alive' = alive \ {slot[c]} /\ cut' = cut \union {slot[c]}
  /\ IF pc[c] = "stop" THEN Goto(c, "dropped") /\ UNCHANGED slot
                       ELSE Goto(c, "idle") /\ Take(c, 0)
  /\ UNCHANGED <<dict, stage, task, pool, stopping, calls, faults>>

ReleaseGone(c) ==
  /\ pc[c] \in {"release", "retire", "dropped"} /\ slot[c] \notin workers
  /\ Goto(c, "idle") /\ Take(c, 0)
  /\ UNCHANGED <<dict, proc, pool, stopping, calls, faults>>

Retires(c) == pc[c] = "retire" /\ Cardinality(workers) > MinWarm

Release(c) ==
  LET w == slot[c] IN
  /\ pc[c] \in {"release", "retire", "dropped"} /\ w \in workers /\ ~Retires(c)
  /\ Spawn(Missing(workers))
  /\ workers' = workers \union Fresh(Missing(workers))
  /\ busy' = busy \ {w} /\ aged' = aged \ {w}
  /\ alive' = Launch
  /\ Goto(c, "idle") /\ Take(c, 0)
  /\ UNCHANGED <<completed, cut, stage, task, pool, stopping, calls, faults>>

Retire(c) ==
  /\ slot[c] \in workers /\ Retires(c)
  /\ EnsureMinWarm(workers \ {slot[c]})
  /\ alive' = Launch
  /\ Goto(c, "ending")
  /\ UNCHANGED <<completed, cut, stage, task, slot, pool, stopping, calls, faults>>

-----------------------------------------------------------------------------
(* The reaper, close, snapshot and the subprocesses *)

\* _shrink_idle_workers_locked takes the idle workers above the floor.
IsExcess(S) ==
  LET over == Cardinality(Pruned) - MinWarm
      old == aged \intersect Pruned
  IN  /\ S \subseteq old
      /\ IF Cardinality(Pruned) <= MinWarm THEN S = {}
         ELSE Cardinality(S) = IF over < Cardinality(old) THEN over ELSE Cardinality(old)

ReapWithoutStopping ==   \* mutant
  /\ Open
  /\ \E S \in SUBSET aged : IsExcess(S) /\ EnsureMinWarm(Pruned \ S)
  /\ alive' = Launch /\ cut' = CutDead
  /\ UNCHANGED <<completed, stage, task, pc, slot, pool, stopping, calls, faults>>
Reap ==
  /\ Open
  /\ \E S \in SUBSET aged :
       /\ IsExcess(S)
       /\ EnsureMinWarm(Pruned \ S)
       /\ stopping' = stopping \union S
  /\ alive' = Launch /\ cut' = CutDead
  /\ UNCHANGED <<completed, stage, task, pc, slot, pool, calls, faults>>

\* The thread the reaper starts for each worker, or close's loop.
StopTaken(w) ==
  /\ w \in stopping
  /\ alive' = alive \ {w} /\ cut' = cut \union {w}
  /\ stopping' = stopping \ {w}
  /\ UNCHANGED <<dict, stage, task, pc, slot, pool, calls, faults>>

Close ==
  /\ MayClose /\ Open
  /\ pool' = "closed"
  /\ stopping' = stopping \union workers
  /\ workers' = {} /\ busy' = {} /\ aged' = {}
  /\ UNCHANGED <<completed, born, proc, pc, slot, calls, faults>>

\* GET /health and GET /capabilities prune.
Snapshot ==
  /\ workers' = Pruned /\ cut' = CutDead
  /\ busy' = busy \intersect Pruned /\ aged' = aged \intersect Pruned
  /\ UNCHANGED <<completed, born, alive, stage, task, pc, slot, pool, stopping, calls, faults>>

\* _worker_process_main takes a task and puts its result, or its error.
Dequeue(w) ==
  /\ w \in alive /\ stage[w] = "queued"
  /\ stage' = [stage EXCEPT ![w] = "working"]
  /\ UNCHANGED <<dict, alive, cut, task, pc, slot, pool, stopping, calls, faults>>

Answer(w) ==
  /\ w \in alive /\ stage[w] = "working"
  /\ stage' = [stage EXCEPT ![w] = "result"]
  /\ UNCHANGED <<dict, alive, cut, task, pc, slot, pool, stopping, calls, faults>>

Dies(w) ==
  /\ w \in alive
  /\ faults < MaxFaults /\ faults' = faults + 1
  /\ alive' = alive \ {w}
  /\ UNCHANGED <<dict, cut, stage, task, pc, slot, pool, stopping, calls>>

Ages(w) ==
  /\ w \in workers \ (busy \union aged)
  /\ aged' = aged \union {w}
  /\ UNCHANGED <<workers, busy, completed, born, proc, pc, slot, pool, stopping, calls, faults>>

CallerStep(c) ==
  \/ Refuse(c) \/ AcquireIdle(c) \/ AcquireSpawn(c) \/ Wait(c) \/ Wake(c)
  \/ Send(c) \/ SendFails(c) \/ Receive(c) \/ WorkerGone(c)
  \/ Record(c) \/ Drop(c) \/ Stop(c) \/ ReleaseGone(c) \/ Release(c) \/ Retire(c)

Timeout(c) == AcquireTimeout(c) \/ TaskTimeout(c)

Next ==
  \/ \E c \in Caller : Call(c) \/ CallerStep(c) \/ Timeout(c)
  \/ Reap \/ Close \/ Snapshot
  \/ \E w \in Id : StopTaken(w) \/ Dequeue(w) \/ Answer(w) \/ Dies(w) \/ Ages(w)

Spec == Init /\ [][Next]_vars

\* Threads run until they block, a blocked call meets its timeout, and the
\* reaper wakes every reaper_interval_seconds.  A subprocess owes nothing.
Fairness ==
  /\ \A c \in Caller : /\ WF_vars(CallerStep(c))
                       /\ SF_vars(AcquireTimeout(c)) /\ WF_vars(TaskTimeout(c))
  /\ WF_vars(Reap)
  /\ \A w \in Id : WF_vars(StopTaken(w))

FairSpec == Spec /\ Fairness

-----------------------------------------------------------------------------
(* Properties *)

CallStage == {"idle", "acquire", "waiting", "holding", "running", "record", "drop", "stop",
              "dropped", "release", "retire", "ending"}

\* Every variable has its type.
TypeOK ==
  /\ workers \subseteq 1 .. born /\ busy \subseteq workers /\ aged \subseteq workers \ busy
  /\ completed \in [Id -> 0 .. MaxTasks]
  /\ born \in 0 .. MaxId
  /\ alive \subseteq 1 .. born /\ cut \subseteq 1 .. born /\ stopping \subseteq 1 .. born
  /\ stage \in [Id -> {"none", "queued", "working", "result"}]
  /\ task \in [Id -> Caller \union {0}]
  /\ pc \in [Caller -> CallStage] /\ slot \in [Caller -> 0 .. MaxId]
  /\ pool \in {"open", "closed"}
  /\ calls \in 0 .. MaxCalls /\ faults \in 0 .. MaxFaults

\* The pool never tracks more than max_workers: the floor is refilled under
\* the lock that every spawn holds, by drops, releases and the reaper alike.
CapKept == Cardinality(workers) <= MaxWorkers

\* A worker that may be leased has no task of an earlier call, in its queue,
\* under way or answered: a call that timed out leaves nothing for the next.
FreeWorkersClean == \A w \in workers \ busy : stage[w] = "none"

\* Every live subprocess is in the dict or somebody is about to stop it.
NoOrphanProcess ==
  alive \subseteq workers \union stopping
                    \union {slot[c] : c \in {d \in Caller : pc[d] \in {"stop", "ending"}}}

\* While the pool is open a worker is missing from the warm floor only where a
\* subprocess has died: no drop, retirement or shrink takes one from it.
FloorMissesOnlyTheDead == Open => Cardinality(workers) + faults >= MinWarm

\* A call that fails after close() refills the floor, and nobody will stop
\* those workers; there are never more of them than min_warm_workers.
LeakBounded == ~Open => Cardinality(workers) <= MinWarm

\* The pool is a set of execution lanes: a worker serves one call at a time
\* and none after a call that failed on it.
Lanes ==
  INSTANCE ExecutionLane
    WITH Lane <- Id, None <- 0, lease <- slot, spent <- (1 .. born) \ workers,
         failed <- {c \in Caller : pc[c] \in {"drop", "stop", "dropped"}}
LaneSpec == Lanes!Spec

\* Every execute_step returns, with a result or an error.
StepReturns == \A c \in Caller : (pc[c] = "acquire") ~> (pc[c] = "idle")

\* The reaper brings an open pool back to the warm floor after every death.
FloorRestored == []<>(~Open \/ Cardinality(workers \intersect alive) >= MinWarm)

-----------------------------------------------------------------------------
(* What the code says and does not keep *)

\* worker_pool.py:261, "execution pool is closed": a closed pool runs nothing.
ClosedPoolStaysEmpty == ~Open => workers = {}
=============================================================================

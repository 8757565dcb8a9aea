--------------------------- MODULE DispatchProofs ---------------------------
(***************************************************************************)
(* The gauges count the calls, attempts are bounded and cooldowns hold, for *)
(* every number of requests and services and every policy.                  *)
(***************************************************************************)
EXTENDS Dispatch, FiniteSetTheorems, SequenceTheorems, TLAPS

\* What a routed request carries with it: services in an order without
\* repetition, of which it has reached one.
Chained(c) ==
  /\ c \in Seq(Service) /\ Len(c) \in 1 .. Services
  /\ \A i, j \in 1 .. Len(c) : c[i] = c[j] => i = j

ChainsHold ==
  \A r \in Request : Routed(r) =>
    /\ Chained(chain[r])
    /\ at[r] \in 1 .. Len(chain[r]) /\ at[r] <= MaxAttempts
    /\ asked[r] # 0 => chain[r] = <<asked[r]>>

\* An attempt began before now.
NoFuture == \A r \in Request : since[r] <= clock

IInv == TypeOK /\ ChainsHold /\ NoFuture /\ LoadCountsCalls

-----------------------------------------------------------------------------

USE ServiceAssumption, PolicyAssumption, BoundAssumption
  DEF ServiceAssumption, PolicyAssumption, BoundAssumption

LEMMA Sizes ==
  ASSUME NEW S \in SUBSET Service
  PROVE  IsFiniteSet(S) /\ Cardinality(S) \in 0 .. Services /\ (S # {} => Cardinality(S) \in 1 .. Services)
<1>1. IsFiniteSet(Service) /\ Cardinality(Service) = Services
  <2>1. 1 \in Int /\ Services \in Int
    OBVIOUS
  <2>2. QED
    BY <2>1, FS_Interval DEF Service
<1>2. IsFiniteSet(S) /\ Cardinality(S) \in Nat /\ Cardinality(S) <= Services
  BY <1>1, FS_Subset, FS_CardinalityType
<1>3. S # {} => Cardinality(S) # 0
  BY <1>2, FS_EmptySet
<1>4. QED
  BY <1>2, <1>3

\* What attemptOrder returns visits each candidate once.
LEMMA MovedIsChained ==
  ASSUME NEW n \in 1 .. Services, NEW f \in [1 .. n -> Service], NEW k \in 1 .. n,
         \A i, j \in 1 .. n : f[i] = f[j] => i = j
  PROVE  Chained(MoveToFront(f, k))
<1> DEFINE c == MoveToFront(f, k)
<1>0. n \in Nat /\ n >= 1 /\ k \in Nat
  OBVIOUS
<1>1. f \in Seq(Service) /\ Len(f) = n
  BY <1>0
<1>2. c = [i \in 1 .. n |-> IF i = 1 THEN f[k] ELSE IF i <= k THEN f[i - 1] ELSE f[i]]
  BY <1>1 DEF MoveToFront
<1> HIDE DEF c
<1>3. \A i \in 1 .. n : c[i] \in Service
  BY <1>0, <1>2
<1>4. c \in [1 .. n -> Service]
  BY <1>2, <1>3
<1>5. c \in Seq(Service) /\ Len(c) = n
  BY <1>0, <1>4
<1>6. ASSUME NEW i \in 1 .. n, NEW j \in 1 .. n, c[i] = c[j] PROVE i = j
  <2> DEFINE from(x) == IF x = 1 THEN k ELSE IF x <= k THEN x - 1 ELSE x
  <2>1. from(i) \in 1 .. n /\ from(j) \in 1 .. n
    BY <1>0
  <2>2. c[i] = f[from(i)] /\ c[j] = f[from(j)]
    BY <1>2
  <2>3. from(i) = from(j)
    BY <1>6, <2>1, <2>2
  <2>4. QED
    BY <1>0, <2>3
<1>7. QED
  BY <1>5, <1>6 DEF Chained, c

\* sortedCandidates and orderWithPreference put no candidate twice.
LEMMA SortedOnce ==
  ASSUME TypeOK, NEW S \in SUBSET Service, S # {}, NEW f \in Sorted(S)
  PROVE  /\ f \in [1 .. Cardinality(S) -> Service]
         /\ Cardinality(S) \in 1 .. Services
         /\ \A i, j \in 1 .. Cardinality(S) : f[i] = f[j] => i = j
<1>1. Cardinality(S) \in 1 .. Services
  BY Sizes
<1>2. f \in [1 .. Cardinality(S) -> S]
  BY DEF Sorted
<1>3. \A i, j \in 1 .. Cardinality(S) : i < j => Before(f[i], f[j])
  BY DEF Sorted
<1>4. ASSUME NEW s \in Service, Before(s, s) PROVE FALSE
  <2>1. ~Prefers(s, s)
    BY DEF Prefers
  <2>2. load[s] \in Nat /\ s \in Nat
    BY DEF TypeOK, Service
  <2>3. QED
    BY <1>4, <2>1, <2>2 DEF Before, LessLoaded
<1>5. ASSUME NEW i \in 1 .. Cardinality(S), NEW j \in 1 .. Cardinality(S), f[i] = f[j]
      PROVE  i = j
  <2>1. f[i] \in Service
    BY <1>2
  <2>2. ~(i < j) /\ ~(j < i)
    BY <1>3, <1>4, <1>5, <2>1
  <2>3. QED
    BY <1>1, <2>2
<1>6. QED
  BY <1>1, <1>2, <1>5

LEMMA ChainsChained ==
  ASSUME TypeOK, NEW r \in Request,
         IF asked[r] = 0 THEN Eligible # {} ELSE asked[r] \in Eligible,
         NEW c \in Chains(r)
  PROVE  Chained(c) /\ (asked[r] # 0 => c = <<asked[r]>>)
<1>1. CASE asked[r] # 0
  <2>1. c = <<asked[r]>>
    BY <1>1 DEF Chains
  <2>2. asked[r] \in Service
    BY <1>1 DEF Eligible, TypeOK
  <2>3. QED
    BY <2>1, <2>2 DEF Chained
<1>2. CASE asked[r] = 0
  <2>0. PICK f \in Sorted(Eligible) : \E k \in Selected(f) : c = MoveToFront(f, k)
    BY <1>2 DEF Chains
  <2>1. PICK k \in Selected(f) : c = MoveToFront(f, k)
    BY <2>0
  <2>2. Eligible \in SUBSET Service /\ Eligible # {}
    BY <1>2 DEF Eligible, TypeOK
  <2> DEFINE n == Cardinality(Eligible)
  <2>3. /\ f \in [1 .. n -> Service] /\ n \in 1 .. Services
        /\ \A i, j \in 1 .. n : f[i] = f[j] => i = j
    BY <2>2, SortedOnce
  <2>4. k \in 1 .. n
    BY <2>3 DEF Selected
  <2> HIDE DEF n
  <2>5. Chained(c)
    BY <2>1, <2>3, <2>4, MovedIsChained
  <2>6. QED
    BY <1>2, <2>5
<1>3. QED
  BY <1>1, <1>2

-----------------------------------------------------------------------------
(* Steps that begin and end no call *)

LEMMA CallsCounted ==
  ASSUME NEW s
  PROVE  IsFiniteSet(Calls(s)) /\ Cardinality(Calls(s)) \in Nat
<1>1. Calls(s) \subseteq Request
  BY DEF Calls
<1>2. IsFiniteSet(Calls(s))
  BY <1>1, FS_Subset
<1>3. QED
  BY <1>2, FS_CardinalityType

\* A gauge stays right while the calls in flight stay the same.
LEMMA LoadKept ==
  ASSUME LoadCountsCalls, UNCHANGED <<load, wiped>>,
         \A q \in Request : /\ Called(q)' <=> Called(q)
                            /\ Called(q) => Target(q)' = Target(q)
  PROVE  LoadCountsCalls'
<1>1. \A s \in Service : Calls(s)' = Calls(s)
  BY DEF Calls
<1>2. QED
  BY <1>1 DEF LoadCountsCalls

LEMMA AdmitStep ==
  ASSUME IInv, NEW r \in Request, Admit(r)
  PROVE  IInv'
<1>1. pc' = [pc EXCEPT ![r] = "refresh"] /\ pc[r] = "idle"
  BY DEF Admit, Goto
<1>2. TypeOK'
  <2>1. asked' \in [Request -> 0 .. Services]
    BY DEF Admit, IInv, TypeOK, Service
  <2>2. todo' \in [Request -> SUBSET Service]
    BY DEF Admit, IInv, TypeOK
  <2>3. pc' \in [Request -> Stage]
    BY <1>1 DEF IInv, TypeOK, Stage
  <2>4. QED
    BY <2>1, <2>2, <2>3 DEF Admit, registryVars, coolingVars, worldVars, IInv, TypeOK
<1>3. \A q \in Request : Routed(q)' => Routed(q) /\ asked'[q] = asked[q]
  BY <1>1 DEF IInv, TypeOK, Admit, Routed, Called
<1>4. ChainsHold'
  BY <1>3 DEF Admit, IInv, ChainsHold
<1>5. NoFuture'
  BY DEF Admit, worldVars, IInv, NoFuture
<1>6. LoadCountsCalls'
  BY <1>1, LoadKept DEF Admit, IInv, TypeOK, Called, Target
<1>7. QED
  BY <1>2, <1>4, <1>5, <1>6 DEF IInv

LEMMA ProbeStep ==
  ASSUME IInv, NEW r \in Request, Probe(r) \/ UpdateHealth(r)
  PROVE  IInv'
<1>1. \E l \in {"refresh", "healthy", "sick"} : pc' = [pc EXCEPT ![r] = l]
  BY DEF Probe, UpdateHealth, Goto, IInv, TypeOK
<1>2. pc[r] \in {"refresh", "healthy", "sick"}
  BY DEF Probe, UpdateHealth
<1>3. /\ UNCHANGED <<registered, enabled, load, coolingVars, maintenance,
                     asked, chain, at, since, outcome, worldVars, wiped>>
      /\ todo' = todo \/ todo' = [todo EXCEPT ![r] = @ \ {First(@)}]
  BY DEF Probe, UpdateHealth, registryVars
<1>4. unhealthy' \subseteq registered
  <2>1. CASE Probe(r)
    BY <2>1 DEF Probe, registryVars, IInv, TypeOK
  <2>2. CASE UpdateHealth(r)
    BY <2>2 DEF UpdateHealth, HealthAfter, IInv, TypeOK
  <2>3. QED
    BY <2>1, <2>2
<1>5. TypeOK'
  <2>1. todo' \in [Request -> SUBSET Service]
    BY <1>3 DEF IInv, TypeOK
  <2>2. pc' \in [Request -> Stage]
    BY <1>1 DEF IInv, TypeOK, Stage
  <2>3. QED
    BY <1>3, <1>4, <2>1, <2>2 DEF coolingVars, worldVars, IInv, TypeOK
<1>6. \A q \in Request : Routed(q)' => Routed(q)
  BY <1>1 DEF IInv, TypeOK, Routed, Called
<1>7. ChainsHold'
  BY <1>3, <1>6 DEF IInv, ChainsHold
<1>8. NoFuture'
  BY <1>3 DEF worldVars, IInv, NoFuture
<1>9. LoadCountsCalls'
  BY <1>1, <1>2, <1>3, LoadKept DEF IInv, TypeOK, Called, Target
<1>10. QED
  BY <1>5, <1>7, <1>8, <1>9 DEF IInv

\* A preview leaves behind only cooldowns that are not over.
LEMMA CooldownsSeen ==
  ASSUME TypeOK,
         until' = [s \in Service |-> IF s \in registered THEN Current(s, clock) ELSE until[s]]
  PROVE  /\ until' \in [Service -> 0 .. (MaxClock + CoolFor)]
         /\ \A s \in Service : until[s] > clock => until'[s] = until[s]
<1>1. \A s \in Service : until[s] \in 0 .. (MaxClock + CoolFor)
  BY DEF TypeOK
<1>2. \A s \in Service : Current(s, clock) \in {0, until[s]}
  BY DEF Current
<1>3. clock \in Nat
  BY DEF TypeOK
<1>4. \A s \in Service : until[s] > clock => Current(s, clock) = until[s]
  BY <1>1, <1>3 DEF Current
<1>5. QED
  BY <1>1, <1>2, <1>4

LEMMA RouteStep ==
  ASSUME IInv, NEW r \in Request, Route(r)
  PROVE  IInv'
<1> USE DEF IInv
<1>1. pc' = [pc EXCEPT ![r] = "attempt"] /\ pc[r] = "refresh"
  BY DEF Route, Goto
<1>2. PICK c \in Chains(r) : chain' = [chain EXCEPT ![r] = c]
  BY DEF Route
<1>3. Chained(c) /\ (asked[r] # 0 => c = <<asked[r]>>)
  BY ChainsChained DEF Route
<1>4. at' = [at EXCEPT ![r] = 1] /\ UNCHANGED asked
  BY DEF Route
<1>5. TypeOK'
  <2>1. until' \in [Service -> 0 .. (MaxClock + CoolFor)]
    BY CooldownsSeen DEF Route
  <2>2. chain' \in [Request -> Seq(Service)]
    BY <1>2, <1>3 DEF TypeOK, Chained
  <2>3. at' \in [Request -> 0 .. Services]
    BY <1>4 DEF TypeOK
  <2>4. pc' \in [Request -> Stage]
    BY <1>1 DEF TypeOK, Stage
  <2>5. QED
    BY <2>1, <2>2, <2>3, <2>4 DEF Route, registryVars, worldVars, TypeOK
<1>6. ChainsHold'
  <2>1. SUFFICES ASSUME NEW q \in Request, Routed(q)'
                 PROVE  /\ Chained(chain'[q])
                        /\ at'[q] \in 1 .. Len(chain'[q]) /\ at'[q] <= MaxAttempts
                        /\ asked'[q] # 0 => chain'[q] = <<asked'[q]>>
    BY DEF ChainsHold, Chained
  <2>2. CASE q = r
    BY <1>2, <1>3, <1>4, <2>2 DEF TypeOK, Chained
  <2>3. CASE q # r
    <3>1. Routed(q)
      BY <1>1, <2>1, <2>3 DEF Routed, Called, TypeOK
    <3>2. QED
      BY <1>2, <1>4, <2>3, <3>1 DEF ChainsHold, TypeOK
  <2>4. QED
    BY <2>2, <2>3
<1>7. NoFuture'
  BY DEF Route, worldVars, NoFuture
<1>8. LoadCountsCalls'
  <2>1. \A q \in Request : /\ Called(q)' <=> Called(q)
                           /\ Called(q) => Target(q)' = Target(q)
    BY <1>1, <1>2, <1>4 DEF TypeOK, Called, Target
  <2>2. QED
    BY <2>1, LoadKept DEF Route
<1>9. QED
  BY <1>5, <1>6, <1>7, <1>8

\* An answered request leaves the others as they are.
LEMMA ReturnTyped ==
  ASSUME TypeOK, NEW r \in Request, Return(r)
  PROVE  /\ pc' \in [Request -> Stage] /\ asked' \in [Request -> 0 .. Services]
         /\ chain' \in [Request -> Seq(Service)] /\ at' \in [Request -> 0 .. Services]
         /\ since' \in [Request -> 0 .. MaxClock]
         /\ outcome' \in [Request -> Category \union {"none", "ok", "hung_up"}]
         /\ gone' \subseteq Request
         /\ ~Routed(r)'
         /\ \A q \in Request \ {r} : /\ pc'[q] = pc[q] /\ asked'[q] = asked[q]
                                     /\ chain'[q] = chain[q] /\ at'[q] = at[q]
         /\ \A q \in Request : since'[q] = since[q] \/ since'[q] = 0
<1>1. pc' \in [Request -> Stage] /\ ~Routed(r)'
  BY DEF Return, Goto, TypeOK, Stage, Routed, Called
<1>2. asked' \in [Request -> 0 .. Services] /\ at' \in [Request -> 0 .. Services]
  BY DEF Return, TypeOK
<1>3. chain' \in [Request -> Seq(Service)]
  BY DEF Return, TypeOK
<1>4. since' \in [Request -> 0 .. MaxClock] /\ gone' \subseteq Request
  BY DEF Return, TypeOK
<1>5. outcome' \in [Request -> Category \union {"none", "ok", "hung_up"}]
  BY DEF Return, TypeOK
<1>6. \A q \in Request \ {r} : /\ pc'[q] = pc[q] /\ asked'[q] = asked[q]
                               /\ chain'[q] = chain[q] /\ at'[q] = at[q]
  BY DEF Return, Goto, TypeOK
<1>7. \A q \in Request : since'[q] = since[q] \/ since'[q] = 0
  BY DEF Return, TypeOK
<1>8. QED
  BY <1>1, <1>2, <1>3, <1>4, <1>5, <1>6, <1>7

LEMMA RouteFailsStep ==
  ASSUME IInv, NEW r \in Request, RouteFails(r)
  PROVE  IInv'
<1> USE DEF IInv
<1>1. /\ Return(r) /\ pc[r] = "refresh"
      /\ UNCHANGED <<registryVars, load, fails, maintenance, todo, up, clock, changes, wiped>>
  BY DEF RouteFails
<1>2. until' \in [Service -> 0 .. (MaxClock + CoolFor)]
  BY CooldownsSeen DEF RouteFails
<1>3. TypeOK'
  BY <1>1, <1>2, ReturnTyped DEF registryVars, TypeOK
<1>4. ChainsHold'
  <2>1. \A q \in Request : Routed(q)' => q # r /\ Routed(q)
    BY <1>1, ReturnTyped DEF Routed, Called
  <2>2. QED
    BY <1>1, <2>1, ReturnTyped DEF ChainsHold
<1>5. NoFuture'
  <2>1. \A q \in Request : since'[q] = since[q] \/ since'[q] = 0
    BY <1>1, ReturnTyped
  <2>2. clock \in Nat /\ clock' = clock
    BY <1>1 DEF TypeOK
  <2>3. QED
    BY <2>1, <2>2 DEF NoFuture
<1>6. LoadCountsCalls'
  <2>1. \A q \in Request \ {r} : /\ Called(q)' <=> Called(q)
                                 /\ Called(q) => Target(q)' = Target(q)
    BY <1>1, ReturnTyped DEF Called, Target
  <2>2. ~Called(r) /\ ~Called(r)'
    BY <1>1, ReturnTyped DEF Called, Routed
  <2>3. QED
    BY <1>1, <2>1, <2>2, LoadKept
<1>7. QED
  BY <1>3, <1>4, <1>5, <1>6

-----------------------------------------------------------------------------
(* The steps of an attempt *)

\* Where a called request stands is a service.
LEMMA TargetIsService ==
  ASSUME IInv, NEW r \in Request, Routed(r)
  PROVE  Target(r) \in Service
BY DEF IInv, ChainsHold, Chained, Target

LEMMA BeginStep ==
  ASSUME IInv, NEW r \in Request, Begin(r)
  PROVE  IInv'
<1> USE DEF IInv
<1>1. pc' = [pc EXCEPT ![r] = "calling"] /\ pc[r] = "attempt"
  BY DEF Begin, Goto
<1>2. PICK t \in Service : t = Target(r)
  BY <1>1, TargetIsService DEF Routed
<1>3. UNCHANGED <<asked, chain, at, clock, wiped>> /\ load' = [load EXCEPT ![t] = @ + 1]
  BY <1>2 DEF Begin, worldVars
<1>4. since' = [since EXCEPT ![r] = clock]
  BY DEF Begin
<1>5. TypeOK'
  <2>1. load' \in [Service -> Nat]
    BY <1>3 DEF TypeOK
  <2>2. since' \in [Request -> 0 .. MaxClock]
    BY <1>4 DEF TypeOK
  <2>3. pc' \in [Request -> Stage]
    BY <1>1 DEF TypeOK, Stage
  <2>4. QED
    BY <2>1, <2>2, <2>3 DEF Begin, registryVars, coolingVars, worldVars, TypeOK
<1>6. ChainsHold'
  <2>1. \A q \in Request : Routed(q)' => Routed(q)
    BY <1>1 DEF Routed, Called, TypeOK
  <2>2. QED
    BY <1>3, <2>1 DEF ChainsHold
<1>7. NoFuture'
  BY <1>3, <1>4 DEF NoFuture, TypeOK
<1>8. LoadCountsCalls'
  <2>1. \A s \in Service \ {t} : Calls(s)' = Calls(s)
    BY <1>1, <1>2, <1>3 DEF Calls, Called, Target, TypeOK
  <2>2. Calls(t)' = Calls(t) \union {r} /\ r \notin Calls(t)
    BY <1>1, <1>2, <1>3 DEF Calls, Called, Target, TypeOK
  <2>3. IsFiniteSet(Calls(t)) /\ Cardinality(Calls(t)) \in Nat
    BY CallsCounted
  <2>4. Cardinality(Calls(t)') = Cardinality(Calls(t)) + 1
    BY <2>2, <2>3, FS_AddElement
  <2>5. load \in [Service -> Nat]
    BY DEF TypeOK
  <2>6. load'[t] = load[t] + 1 /\ \A s \in Service \ {t} : load'[s] = load[s]
    BY <1>2, <1>3, <2>5
  <2>7. load[t] <= Cardinality(Calls(t)) /\ (~wiped => load[t] = Cardinality(Calls(t)))
    BY <1>2 DEF LoadCountsCalls
  <2>8. load'[t] <= Cardinality(Calls(t)') /\ (~wiped => load'[t] = Cardinality(Calls(t)'))
    BY <1>2, <2>3, <2>4, <2>5, <2>6, <2>7
  <2>9. QED
    BY <1>3, <2>1, <2>6, <2>8 DEF LoadCountsCalls
<1>9. QED
  BY <1>5, <1>6, <1>7, <1>8

LEMMA AnswerStep ==
  ASSUME IInv, NEW r \in Request, Answer(r)
  PROVE  IInv'
<1> USE DEF IInv
<1>1. pc' = [pc EXCEPT ![r] = "recording"] /\ pc[r] = "calling"
  BY DEF Answer, Goto
<1>2. TypeOK'
  <2>1. outcome' \in [Request -> Category \union {"none", "ok", "hung_up"}]
    <3>1. PICK o \in Outcomes(r) : outcome' = [outcome EXCEPT ![r] = o]
      BY DEF Answer
    <3>2. o \in Category \union {"ok", "hung_up"}
      BY DEF Outcomes, Category
    <3>3. QED
      BY <3>1, <3>2 DEF TypeOK
  <2>2. pc' \in [Request -> Stage]
    BY <1>1 DEF TypeOK, Stage
  <2>3. QED
    BY <2>1, <2>2 DEF Answer, registryVars, coolingVars, worldVars, TypeOK
<1>3. ChainsHold'
  <2>1. \A q \in Request : Routed(q)' => Routed(q)
    BY <1>1 DEF Routed, Called, TypeOK
  <2>2. QED
    BY <2>1 DEF Answer, ChainsHold
<1>4. NoFuture'
  BY DEF Answer, worldVars, NoFuture
<1>5. LoadCountsCalls'
  BY <1>1, LoadKept DEF Answer, TypeOK, Called, Target
<1>6. QED
  BY <1>2, <1>3, <1>4, <1>5

\* What cooling.Manager stores, and for whom: the cooldown of a service that is
\* not the target stays, and the target's ends only as CooldownHolds says.
LEMMA CoolingRecorded ==
  ASSUME IInv, NEW r \in Request, RecordCooling(r)
  PROVE  /\ fails' \in [Service -> 0 .. (Threshold - 1)]
         /\ until' \in [Service -> 0 .. (MaxClock + CoolFor)]
         /\ \A s \in Service : until[s] > clock =>
              \/ until'[s] = until[s]
              \/ /\ Target(r) = s /\ CountsTowardCooling(r)
                 /\ outcome[r] # "ok" /\ until'[s] = since[r] + CoolFor
<1> USE DEF IInv
<1>1. PICK t \in Service : t = Target(r)
  BY TargetIsService DEF RecordCooling, Routed, Called
<1>2. /\ until \in [Service -> 0 .. (MaxClock + CoolFor)]
      /\ fails \in [Service -> 0 .. (Threshold - 1)]
      /\ clock \in Nat /\ since[r] \in 0 .. MaxClock /\ since[r] <= clock
  BY DEF TypeOK, NoFuture
<1>3. /\ Current(t, since[r]) \in 0 .. (MaxClock + CoolFor)
      /\ until[t] > clock => Current(t, since[r]) = until[t]
  BY <1>2 DEF Current
<1>4. since[r] + CoolFor \in 0 .. (MaxClock + CoolFor)
  BY <1>2
<1>5. CASE outcome[r] = "ok"
  <2>1. /\ fails' = [fails EXCEPT ![t] = 0]
        /\ until' = [until EXCEPT ![t] = Current(t, since[r])]
    BY <1>1, <1>5 DEF RecordCooling, RecordSuccess
  <2>2. fails' \in [Service -> 0 .. (Threshold - 1)]
    BY <1>2, <2>1
  <2>3. QED
    BY <1>2, <1>3, <2>1, <2>2
<1>6. CASE outcome[r] # "ok" /\ CountsTowardCooling(r) /\ fails[t] + 1 >= Threshold
  <2>1. /\ fails' = [fails EXCEPT ![t] = 0]
        /\ until' = [until EXCEPT ![t] = since[r] + CoolFor]
    BY <1>1, <1>6 DEF RecordCooling, RecordFailure
  <2>2. fails' \in [Service -> 0 .. (Threshold - 1)]
    BY <1>2, <2>1
  <2>3. until' \in [Service -> 0 .. (MaxClock + CoolFor)]
    BY <1>2, <1>4, <2>1
  <2>4. QED
    BY <1>1, <1>2, <1>6, <2>1, <2>2, <2>3
<1>7. CASE outcome[r] # "ok" /\ ~(CountsTowardCooling(r) /\ fails[t] + 1 >= Threshold)
  <2>1. /\ \/ fails' = [fails EXCEPT ![t] = @]
           \/ fails' = [fails EXCEPT ![t] = @ + 1] /\ fails[t] + 1 < Threshold
        /\ until' = [until EXCEPT ![t] = Current(t, since[r])]
    <3>1. /\ fails' = [fails EXCEPT ![t] = IF CountsTowardCooling(r) THEN @ + 1 ELSE @]
          /\ until' = [until EXCEPT ![t] = Current(t, since[r])]
      BY <1>1, <1>7 DEF RecordCooling, RecordFailure
    <3>2. ~CountsTowardCooling(r) \/ fails[t] + 1 < Threshold
      BY <1>2, <1>7
    <3>3. CASE CountsTowardCooling(r)
      BY <3>1, <3>2, <3>3
    <3>4. CASE ~CountsTowardCooling(r)
      BY <3>1, <3>4
    <3>5. QED
      BY <3>3, <3>4
  <2>2. fails' \in [Service -> 0 .. (Threshold - 1)]
    <3>1. CASE fails' = [fails EXCEPT ![t] = @]
      BY <1>2, <3>1
    <3>2. CASE fails' = [fails EXCEPT ![t] = @ + 1] /\ fails[t] + 1 < Threshold
      <4>1. fails[t] + 1 \in 0 .. (Threshold - 1)
        BY <1>1, <1>2, <3>2
      <4>2. QED
        BY <1>2, <3>2, <4>1
    <3>3. QED
      BY <2>1, <3>1, <3>2
  <2>3. QED
    BY <1>2, <1>3, <2>1, <2>2
<1>8. QED
  BY <1>5, <1>6, <1>7

LEMMA RecordStep ==
  ASSUME IInv, NEW r \in Request, RecordCooling(r)
  PROVE  IInv'
<1> USE DEF IInv
<1>1. pc' = [pc EXCEPT ![r] = "ending"] /\ pc[r] = "recording"
  BY DEF RecordCooling, Goto
<1>2. UNCHANGED <<registryVars, load, maintenance, todo, asked, chain, at, since, outcome, worldVars, wiped>>
  BY DEF RecordCooling
<1>3. TypeOK'
  <2>1. pc' \in [Request -> Stage]
    BY <1>1 DEF TypeOK, Stage
  <2>2. QED
    BY <1>2, <2>1, CoolingRecorded DEF registryVars, worldVars, TypeOK
<1>4. ChainsHold'
  <2>1. \A q \in Request : Routed(q)' => Routed(q)
    BY <1>1 DEF Routed, Called, TypeOK
  <2>2. QED
    BY <1>2, <2>1 DEF ChainsHold
<1>5. NoFuture'
  BY <1>2 DEF worldVars, NoFuture
<1>6. LoadCountsCalls'
  BY <1>1, <1>2, LoadKept DEF TypeOK, Called, Target
<1>7. QED
  BY <1>3, <1>4, <1>5, <1>6

\* The last look at the cooldown, at the time the attempt began.
LEMMA LookedLast ==
  ASSUME IInv, NEW r \in Request, Routed(r), LastLook(r)
  PROVE  /\ until' \in [Service -> 0 .. (MaxClock + CoolFor)]
         /\ \A s \in Service : until[s] > clock => until'[s] = until[s]
<1> USE DEF IInv
<1>1. PICK t \in Service : t = Target(r)
  BY TargetIsService
<1>2. /\ until \in [Service -> 0 .. (MaxClock + CoolFor)]
      /\ clock \in Nat /\ since[r] \in 0 .. MaxClock /\ since[r] <= clock
  BY DEF TypeOK, NoFuture
<1>3. /\ Current(t, since[r]) \in 0 .. (MaxClock + CoolFor)
      /\ until[t] > clock => Current(t, since[r]) = until[t]
  BY <1>2 DEF Current
<1>4. until' = [until EXCEPT ![t] = Current(t, since[r])] \/ until' = until
  BY <1>1 DEF LastLook
<1>5. QED
  BY <1>2, <1>3, <1>4

LEMMA EndStep ==
  ASSUME IInv, NEW r \in Request, End(r)
  PROVE  IInv'
<1> USE DEF IInv
<1>0. pc[r] = "ending" /\ Called(r) /\ Routed(r)
  BY DEF End, Called, Routed
<1>1. PICK t \in Service : t = Target(r)
  BY <1>0, TargetIsService
<1>2. /\ UNCHANGED <<registryVars, fails, maintenance, todo, up, clock, changes, wiped>>
      /\ load' = [load EXCEPT ![t] = IF @ > 0 THEN @ - 1 ELSE @]
  BY <1>1 DEF End, EndAttempt, Unload
<1>3. /\ until' \in [Service -> 0 .. (MaxClock + CoolFor)]
      /\ load' \in [Service -> Nat]
  <2>1. until' \in [Service -> 0 .. (MaxClock + CoolFor)]
    BY <1>0, LookedLast DEF End
  <2>2. load' \in [Service -> Nat]
    BY <1>2 DEF TypeOK
  <2>3. QED
    BY <2>1, <2>2
<1>4. /\ ~Called(r)' /\ (\A q \in Request \ {r} : pc'[q] = pc[q])
      /\ (\A q \in Request \ {r} : chain'[q] = chain[q] /\ at'[q] = at[q])
  BY DEF End, Return, Goto, Called, TypeOK
<1>5. TypeOK' /\ ChainsHold' /\ NoFuture'
  <2>1. CASE Return(r)
    <3>1. TypeOK'
      BY <1>2, <1>3, <2>1, ReturnTyped DEF registryVars, TypeOK
    <3>2. ChainsHold'
      <4>1. \A q \in Request : Routed(q)' => q # r /\ Routed(q)
        BY <2>1, ReturnTyped DEF Routed, Called
      <4>2. QED
        BY <2>1, <4>1, ReturnTyped DEF ChainsHold
    <3>3. NoFuture'
      <4>1. \A q \in Request : since'[q] = since[q] \/ since'[q] = 0
        BY <2>1, ReturnTyped
      <4>2. clock \in Nat /\ clock' = clock
        BY <1>2 DEF TypeOK
      <4>3. QED
        BY <4>1, <4>2 DEF NoFuture
    <3>4. QED
      BY <3>1, <3>2, <3>3
  <2>2. CASE ShouldRetry(r) /\ ~Return(r)
    <3>1. /\ at' = [at EXCEPT ![r] = at[r] + 1]
          /\ since' = [since EXCEPT ![r] = 0] /\ outcome' = [outcome EXCEPT ![r] = "none"]
          /\ pc' = [pc EXCEPT ![r] = "attempt"]
          /\ UNCHANGED <<asked, chain, gone>>
      BY <2>2 DEF End, Following, Goto
    <3>2. at[r] < MaxAttempts /\ at[r] < Len(chain[r]) /\ at[r] \in Nat /\ at[r] >= 1
      BY <1>0, <2>2 DEF ShouldRetry, ChainsHold
    <3>3. Len(chain[r]) \in 1 .. Services
      BY <1>0 DEF ChainsHold, Chained
    <3>4. TypeOK'
      <4>0. at[r] + 1 \in 0 .. Services
        BY <3>2, <3>3
      <4>1. at' \in [Request -> 0 .. Services]
        BY <3>1, <4>0 DEF TypeOK
      <4>2. since' \in [Request -> 0 .. MaxClock]
        BY <3>1 DEF TypeOK
      <4>3. outcome' \in [Request -> Category \union {"none", "ok", "hung_up"}]
        BY <3>1 DEF TypeOK
      <4>4. pc' \in [Request -> Stage]
        BY <3>1 DEF TypeOK, Stage
      <4>5. QED
        BY <1>2, <1>3, <3>1, <4>1, <4>2, <4>3, <4>4 DEF registryVars, TypeOK
    <3>5. ChainsHold'
      <4>1. \A q \in Request : Routed(q)' => Routed(q)
        BY <1>0, <3>1 DEF Routed, Called, TypeOK
      <4>2. at'[r] \in 1 .. Len(chain[r]) /\ at'[r] <= MaxAttempts
        <5>1. at'[r] = at[r] + 1
          BY <3>1 DEF TypeOK
        <5>2. QED
          BY <3>2, <3>3, <5>1
      <4>3. QED
        BY <1>4, <3>1, <4>1, <4>2 DEF ChainsHold, Chained
    <3>6. NoFuture'
      BY <1>2, <3>1 DEF NoFuture, TypeOK
    <3>7. QED
      BY <3>4, <3>5, <3>6
  <2>3. QED
    BY <2>1, <2>2 DEF End
<1>6. LoadCountsCalls'
  <2>1. \A s \in Service \ {t} : Calls(s)' = Calls(s)
    BY <1>1, <1>4 DEF Calls, Called, Target
  <2>2. Calls(t)' = Calls(t) \ {r} /\ r \in Calls(t)
    BY <1>0, <1>1, <1>4 DEF Calls, Called, Target
  <2>3. IsFiniteSet(Calls(t)) /\ Cardinality(Calls(t)) \in Nat
    BY CallsCounted
  <2>4. Cardinality(Calls(t)') = Cardinality(Calls(t)) - 1
    BY <2>2, <2>3, FS_RemoveElement
  <2>5. IsFiniteSet(Calls(t)') /\ Cardinality(Calls(t)') \in Nat
    BY <2>2, <2>3, FS_RemoveElement, FS_CardinalityType
  <2>6. load \in [Service -> Nat]
    BY DEF TypeOK
  <2>7. /\ load'[t] = IF load[t] > 0 THEN load[t] - 1 ELSE load[t]
        /\ \A s \in Service \ {t} : load'[s] = load[s]
    BY <1>2, <2>6
  <2>8. load[t] <= Cardinality(Calls(t)) /\ (~wiped => load[t] = Cardinality(Calls(t)))
    BY DEF LoadCountsCalls
  <2>9. load'[t] <= Cardinality(Calls(t)') /\ (~wiped => load'[t] = Cardinality(Calls(t)'))
    BY <2>3, <2>4, <2>5, <2>6, <2>7, <2>8
  <2>10. QED
    BY <1>2, <2>1, <2>7, <2>9 DEF LoadCountsCalls
<1>7. QED
  BY <1>5, <1>6

-----------------------------------------------------------------------------
(* The other steps *)

\* What leaves the requests and the gauges alone disturbs no more than types.
LEMMA RequestsKept ==
  ASSUME IInv, TypeOK', UNCHANGED <<requestVars, load, wiped>>, clock' = clock \/ clock' = clock + 1
  PROVE  IInv'
<1>1. UNCHANGED <<pc, asked, chain, at, since>>
  BY DEF requestVars
<1>2. ChainsHold'
  BY <1>1 DEF IInv, ChainsHold, Routed, Called
<1>3. NoFuture'
  BY <1>1 DEF IInv, NoFuture, TypeOK
<1>4. LoadCountsCalls'
  BY <1>1, LoadKept DEF IInv, Called, Target
<1>5. QED
  BY <1>2, <1>3, <1>4 DEF IInv

LEMMA ServiceStep ==
  ASSUME IInv, NEW s \in Service,
         SetEnabled(s) \/ ResetHealth(s) \/ Registers(s) \/ Removes(s) \/ ProviderTurns(s)
  PROVE  IInv'
<1>1. UNCHANGED <<requestVars, load, wiped, coolingVars, maintenance, gone, clock>>
  BY DEF SetEnabled, ResetHealth, Registers, Removes, ProviderTurns, registryVars
<1>2. changes' \in 0 .. MaxChanges
  BY DEF SetEnabled, ResetHealth, Registers, Removes, ProviderTurns, Change, IInv, TypeOK
<1>3. registered' \subseteq Service /\ enabled' \subseteq registered' /\ unhealthy' \subseteq registered'
  BY DEF SetEnabled, ResetHealth, Registers, Removes, ProviderTurns, registryVars, IInv, TypeOK
<1>4. up' \subseteq Service
  BY DEF SetEnabled, ResetHealth, Registers, Removes, ProviderTurns, IInv, TypeOK
<1>5. TypeOK'
  BY <1>1, <1>2, <1>3, <1>4 DEF requestVars, coolingVars, IInv, TypeOK
<1>6. QED
  BY <1>1, <1>5, RequestsKept

LEMMA SwitchStep ==
  ASSUME IInv, SwitchMaintenance \/ Tick \/ \E r \in Request : HangUp(r)
  PROVE  IInv'
<1>1. UNCHANGED <<requestVars, load, wiped, coolingVars, registryVars, up>>
  BY DEF SwitchMaintenance, Tick, HangUp
<1>2. /\ changes' \in 0 .. MaxChanges
      /\ clock' \in 1 .. MaxClock /\ (clock' = clock \/ clock' = clock + 1)
  BY DEF SwitchMaintenance, Tick, HangUp, Change, IInv, TypeOK
<1>3. gone' \subseteq Request /\ maintenance' \in BOOLEAN
  BY DEF SwitchMaintenance, Tick, HangUp, IInv, TypeOK
<1>4. TypeOK'
  BY <1>1, <1>2, <1>3 DEF requestVars, coolingVars, registryVars, IInv, TypeOK
<1>5. QED
  BY <1>1, <1>2, <1>4, RequestsKept

LEMMA ResetStep ==
  ASSUME IInv, NEW S \in Scopes, ResetCooling(S) \/ ResetStats(S)
  PROVE  IInv'
<1>1. CASE ResetCooling(S)
  <2>1. UNCHANGED <<registryVars, load, maintenance, requestVars, gone, up, clock, wiped>>
    BY <1>1 DEF ResetCooling
  <2>2. changes' \in 0 .. MaxChanges
    BY <1>1 DEF ResetCooling, Change, IInv, TypeOK
  <2>3. fails' \in [Service -> 0 .. (Threshold - 1)]
    BY <1>1 DEF ResetCooling, IInv, TypeOK
  <2>4. until' \in [Service -> 0 .. (MaxClock + CoolFor)]
    BY <1>1 DEF ResetCooling, IInv, TypeOK
  <2>5. TypeOK'
    BY <2>1, <2>2, <2>3, <2>4 DEF registryVars, requestVars, IInv, TypeOK
  <2>6. QED
    BY <2>1, <2>5, RequestsKept
<1>2. CASE ResetStats(S)
  <2>1. UNCHANGED <<registryVars, coolingVars, maintenance, requestVars, gone, up, clock>>
    BY <1>2 DEF ResetStats
  <2>2. changes' \in 0 .. MaxChanges /\ wiped' = TRUE
    BY <1>2 DEF ResetStats, Change, IInv, TypeOK
  <2>3. load' \in [Service -> Nat] /\ \A s \in Service : load'[s] = 0 \/ load'[s] = load[s]
    BY <1>2 DEF ResetStats, IInv, TypeOK
  <2>4. TypeOK'
    BY <2>1, <2>2, <2>3 DEF registryVars, coolingVars, requestVars, IInv, TypeOK
  <2>5. ChainsHold' /\ NoFuture'
    BY <2>1 DEF requestVars, IInv, ChainsHold, NoFuture, Routed, Called
  <2>6. LoadCountsCalls'
    <3>1. \A s \in Service : Calls(s)' = Calls(s)
      BY <2>1 DEF requestVars, Calls, Called, Target
    <3>2. \A s \in Service : load[s] <= Cardinality(Calls(s))
      BY DEF IInv, LoadCountsCalls
    <3>3. \A s \in Service : load'[s] <= Cardinality(Calls(s))
      BY <2>3, <3>2, CallsCounted
    <3>4. QED
      BY <2>2, <3>1, <3>3 DEF LoadCountsCalls
  <2>7. QED
    BY <2>4, <2>5, <2>6 DEF IInv
<1>3. QED
  BY <1>1, <1>2

-----------------------------------------------------------------------------

LEMMA InitInv ==
  ASSUME Init
  PROVE  IInv
<1>1. TypeOK
  <2>1. /\ load \in [Service -> Nat] /\ fails \in [Service -> 0 .. (Threshold - 1)]
        /\ until \in [Service -> 0 .. (MaxClock + CoolFor)]
    BY DEF Init
  <2>2. /\ pc \in [Request -> Stage] /\ todo \in [Request -> SUBSET Service]
        /\ outcome \in [Request -> Category \union {"none", "ok", "hung_up"}]
    BY DEF Init, Stage
  <2>3. /\ asked \in [Request -> 0 .. Services] /\ at \in [Request -> 0 .. Services]
        /\ chain \in [Request -> Seq(Service)] /\ since \in [Request -> 0 .. MaxClock]
    BY DEF Init
  <2>4. clock \in 1 .. MaxClock /\ changes \in 0 .. MaxChanges
    BY DEF Init
  <2>5. QED
    BY <2>1, <2>2, <2>3, <2>4 DEF Init, TypeOK
<1>2. \A r \in Request : ~Routed(r) /\ ~Called(r)
  BY DEF Init, Routed, Called
<1>3. LoadCountsCalls
  <2>1. \A s \in Service : Calls(s) = {}
    BY <1>2 DEF Calls
  <2>2. \A s \in Service : Cardinality(Calls(s)) = 0
    BY <2>1, FS_EmptySet
  <2>3. \A s \in Service : load[s] = 0
    BY DEF Init
  <2>4. QED
    BY <2>2, <2>3 DEF LoadCountsCalls
<1>4. NoFuture
  BY DEF Init, NoFuture
<1>5. QED
  BY <1>1, <1>2, <1>3, <1>4 DEF IInv, ChainsHold

LEMMA Stuttering ==
  ASSUME IInv, UNCHANGED vars
  PROVE  IInv'
<1>1. TypeOK'
  BY DEF vars, registryVars, coolingVars, requestVars, worldVars, IInv, TypeOK
<1>2. QED
  BY <1>1, RequestsKept DEF vars, worldVars

\* The inductive invariant, in every behaviour of the gateway.
THEOREM Invariance == Spec => []IInv
<1>1. Init => IInv
  BY InitInv
<1>2. IInv /\ [Next]_vars => IInv'
  <2>1. SUFFICES ASSUME IInv, [Next]_vars
                 PROVE  IInv'
    OBVIOUS
  <2>2. ASSUME NEW r \in Request, Admit(r) \/ RequestStep(r) \/ HangUp(r)
        PROVE  IInv'
    BY <2>1, <2>2, AdmitStep, ProbeStep, RouteStep, RouteFailsStep, BeginStep,
       AnswerStep, RecordStep, EndStep, SwitchStep DEF RequestStep
  <2>3. ASSUME NEW s \in Service,
               SetEnabled(s) \/ ResetHealth(s) \/ Registers(s) \/ Removes(s) \/ ProviderTurns(s)
        PROVE  IInv'
    BY <2>1, <2>3, ServiceStep
  <2>4. ASSUME NEW S \in Scopes, ResetCooling(S) \/ ResetStats(S)
        PROVE  IInv'
    BY <2>1, <2>4, ResetStep
  <2>5. CASE SwitchMaintenance \/ Tick
    BY <2>1, <2>5, SwitchStep
  <2>6. CASE UNCHANGED vars
    BY <2>1, <2>6, Stuttering
  <2>7. QED
    BY <2>1, <2>2, <2>3, <2>4, <2>5, <2>6 DEF Next
<1>3. QED
  BY <1>1, <1>2, PTL DEF Spec

\* Every variable has its type, and a failure counter stays below its
\* threshold: it is reset in the step that fills it.
THEOREM TypeCorrect == Spec => []TypeOK
<1>1. IInv => TypeOK
  BY DEF IInv
<1>2. QED
  BY <1>1, Invariance, PTL

\* The gauge the selector balances on, and the drain summary reports, counts
\* the calls in flight; a reset of the statistics makes it too low at most.
THEOREM GaugesAreTrue == Spec => []LoadCountsCalls
<1>1. IInv => LoadCountsCalls
  BY DEF IInv
<1>2. QED
  BY <1>1, Invariance, PTL

\* No request meets a service twice or makes more attempts than the policy
\* allows, with every number of services, preference list and policy.
THEOREM FallbackIsBounded == Spec => []AttemptsBounded
<1>1. IInv => AttemptsBounded
  <2>1. SUFFICES ASSUME IInv, NEW r \in Request, Routed(r)
                 PROVE  /\ at[r] \in 1 .. Len(chain[r]) /\ at[r] <= MaxAttempts
                        /\ \A i, j \in 1 .. at[r] : chain[r][i] = chain[r][j] => i = j
                        /\ asked[r] # 0 => chain[r] = <<asked[r]>>
    BY DEF AttemptsBounded
  <2>2. /\ at[r] \in 1 .. Len(chain[r]) /\ at[r] <= MaxAttempts
        /\ asked[r] # 0 => chain[r] = <<asked[r]>>
        /\ Len(chain[r]) \in 1 .. Services
        /\ \A i, j \in 1 .. Len(chain[r]) : chain[r][i] = chain[r][j] => i = j
    BY <2>1 DEF IInv, ChainsHold, Chained
  <2>3. 1 .. at[r] \subseteq 1 .. Len(chain[r])
    BY <2>2
  <2>4. QED
    BY <2>2, <2>3
<1>2. QED
  BY <1>1, Invariance, PTL

-----------------------------------------------------------------------------

LEMMA CooldownStep ==
  ASSUME IInv, [Next]_vars, changes' = changes, NEW s \in Service, until[s] > clock
  PROVE  until'[s] = until[s] \/ CutShort(s)
<1>0. ~Change
  BY DEF Change, IInv, TypeOK
<1>1. ASSUME NEW r \in Request, Admit(r) \/ RequestStep(r) \/ HangUp(r)
      PROVE  until'[s] = until[s] \/ CutShort(s)
  <2>1. CASE Admit(r) \/ Probe(r) \/ UpdateHealth(r) \/ Begin(r) \/ Answer(r) \/ HangUp(r)
    BY <2>1 DEF Admit, Probe, UpdateHealth, Begin, Answer, HangUp, coolingVars
  <2>2. CASE Route(r) \/ RouteFails(r)
    BY <2>2, CooldownsSeen DEF Route, RouteFails, IInv
  <2>3. CASE RecordCooling(r)
    <3>1. \/ until'[s] = until[s]
          \/ /\ Target(r) = s /\ CountsTowardCooling(r)
             /\ outcome[r] # "ok" /\ until'[s] = since[r] + CoolFor
      BY <2>3, CoolingRecorded
    <3>2. pc[r] = "recording"
      BY <2>3 DEF RecordCooling
    <3>3. QED
      BY <3>1, <3>2 DEF CutShort
  <2>4. CASE End(r)
    BY <2>4, LookedLast DEF End, Routed, Called
  <2>5. QED
    BY <1>1, <2>1, <2>2, <2>3, <2>4 DEF RequestStep
<1>2. CASE \E t \in Service :
             SetEnabled(t) \/ ResetHealth(t) \/ Registers(t) \/ Removes(t) \/ ProviderTurns(t)
  BY <1>0, <1>2 DEF SetEnabled, ResetHealth, Registers, Removes, ProviderTurns
<1>3. CASE \E S \in Scopes : ResetCooling(S) \/ ResetStats(S)
  BY <1>0, <1>3 DEF ResetCooling, ResetStats
<1>4. CASE SwitchMaintenance \/ Tick
  BY <1>0, <1>4 DEF SwitchMaintenance, Tick, coolingVars
<1>5. CASE UNCHANGED vars
  BY <1>5 DEF vars, coolingVars
<1>6. QED
  BY <1>1, <1>2, <1>3, <1>4, <1>5 DEF Next

\* No late success, no preview and no probe cuts a cooldown short.
THEOREM CooldownsLast == Spec => CooldownHolds
<1>1. IInv /\ [Next]_vars => [CooldownKept]_vars
  BY CooldownStep DEF CooldownKept
<1>2. QED
  BY <1>1, Invariance, PTL DEF Spec, CooldownHolds

-----------------------------------------------------------------------------
(* The circuit breaker *)

\* When the circuit of s closes, as the breaker has it.
Ends(s) == Current(s, clock)

\* A cooldown that is over is the same whether or not it was written back.
LEMMA EndsKept ==
  ASSUME IInv, TypeOK', clock' = clock, NEW s \in Service,
         until'[s] = until[s] \/ (until[s] <= clock /\ until'[s] <= clock)
  PROVE  Ends(s)' = Ends(s)
<1>1. until[s] \in Nat /\ until'[s] \in Nat /\ clock \in Nat
  BY DEF IInv, TypeOK
<1>2. QED
  BY <1>1 DEF Ends, Current

LEMMA AheadKept ==
  ASSUME NEW q, Routed(q)' <=> Routed(q), UNCHANGED <<chain, at>>
  PROVE  Ahead(q)' = Ahead(q)
BY DEF Ahead

LEMMA BreakerStill ==
  ASSUME UNCHANGED <<fails, clock>>,
         \A s \in Service : Ends(s)' = Ends(s), \A q \in Request : Ahead(q)' = Ahead(q)
  PROVE  UNCHANGED Breaker!breaker
BY DEF Breaker!breaker, Ends

\* A request stands before one of the services it may still call.
LEMMA TargetIsAhead ==
  ASSUME IInv, NEW r \in Request, Routed(r)
  PROVE  Target(r) \in Ahead(r) /\ Target(r) \in Service
<1>1. at[r] \in at[r] .. Len(chain[r])
  BY DEF IInv, ChainsHold, Chained
<1>2. QED
  BY <1>1, TargetIsService DEF Ahead, Target

\* The resolver gives only services that do not cool.
LEMMA ChainsEligible ==
  ASSUME TypeOK, NEW r \in Request,
         IF asked[r] = 0 THEN Eligible # {} ELSE asked[r] \in Eligible,
         NEW c \in Chains(r), NEW i \in 1 .. Len(c)
  PROVE  c[i] \in Eligible
<1>1. CASE asked[r] # 0
  <2>1. c = <<asked[r]>> /\ asked[r] \in Eligible
    BY <1>1 DEF Chains
  <2>2. i = 1 /\ c[1] = asked[r]
    BY <2>1
  <2>3. QED
    BY <2>1, <2>2
<1>2. CASE asked[r] = 0
  <2>1. Eligible \in SUBSET Service /\ Eligible # {}
    BY <1>2 DEF Eligible, TypeOK
  <2>2. PICK f \in Sorted(Eligible) : \E k \in Selected(f) : c = MoveToFront(f, k)
    BY <1>2 DEF Chains
  <2>3. PICK k \in Selected(f) : c = MoveToFront(f, k)
    BY <2>2
  <2> DEFINE n == Cardinality(Eligible)
  <2>4. n \in 1 .. Services
    BY <2>1, Sizes
  <2>5. f \in [1 .. n -> Eligible]
    BY DEF Sorted
  <2> HIDE DEF n
  <2>6. f \in Seq(Eligible) /\ Len(f) = n /\ DOMAIN f = 1 .. n
    BY <2>4, <2>5
  <2>7. k \in 1 .. n
    BY <2>3, <2>4, <2>6 DEF Selected
  <2>8. c = [x \in 1 .. n |-> IF x = 1 THEN f[k] ELSE IF x <= k THEN f[x - 1] ELSE f[x]]
    BY <2>3, <2>6 DEF MoveToFront
  <2>9. Len(c) = n
    BY <2>4, <2>8
  <2>10. i \in 1 .. n /\ (i # 1 => i - 1 \in 1 .. n)
    BY <2>4, <2>9
  <2>11. QED
    BY <2>5, <2>7, <2>8, <2>10
<1>3. QED
  BY <1>1, <1>2

LEMMA BreakerLook ==
  ASSUME IInv, IInv', NEW r \in Request, Route(r)
  PROVE  Breaker!Next
<1>1. PICK c \in Chains(r) : chain' = [chain EXCEPT ![r] = c]
  BY DEF Route
<1>2. /\ pc[r] = "refresh" /\ pc' = [pc EXCEPT ![r] = "attempt"] /\ at' = [at EXCEPT ![r] = 1]
      /\ UNCHANGED <<fails, clock>>
  BY DEF Route, Goto, worldVars
<1>3. Chained(c)
  BY ChainsChained DEF Route, IInv
<1>4. Ahead(r) = {}
  BY <1>2 DEF Ahead, Routed, Called
<1>5. Ahead(r)' = {c[i] : i \in 1 .. Len(c)}
  <2>1. pc'[r] = "attempt" /\ chain'[r] = c /\ at'[r] = 1
    BY <1>1, <1>2 DEF IInv, TypeOK
  <2>2. QED
    BY <2>1 DEF Ahead, Routed
<1>6. Ahead(r)' # {}
  <2>1. 1 \in 1 .. Len(c)
    BY <1>3 DEF Chained
  <2>2. QED
    BY <1>5, <2>1
<1>7. Ahead(r)' \subseteq {s \in Service : Ends(s) = 0}
  <2>1. \A s \in Eligible : s \in Service /\ Ends(s) = 0
    BY DEF Eligible, Ends, IInv, TypeOK
  <2>2. \A i \in 1 .. Len(c) : c[i] \in Eligible
    BY ChainsEligible DEF Route, IInv
  <2>3. QED
    BY <1>5, <2>1, <2>2
<1>8. \A s \in Service : Ends(s)' = Ends(s)
  <2>1. ASSUME NEW s \in Service
        PROVE  Ends(s)' = Ends(s)
    <3>1. until'[s] \in {until[s], Current(s, clock)}
      BY DEF Route
    <3>2. until[s] \in Nat /\ clock \in Nat
      BY DEF IInv, TypeOK
    <3>3. QED
      BY <1>2, <3>1, <3>2, EndsKept DEF Current, IInv
  <2>2. QED
    BY <2>1
<1>9. \A q \in Request \ {r} : Ahead(q)' = Ahead(q)
  BY <1>1, <1>2 DEF Ahead, Routed, Called, IInv, TypeOK
<1>10. Breaker!Look(r)
  <2> DEFINE g == [q \in Request |-> Ahead(q)]
  <2>1. g' = [g EXCEPT ![r] = g'[r]]
    BY <1>9
  <2>2. g[r] = Ahead(r) /\ g'[r] = Ahead(r)'
    OBVIOUS
  <2>3. {s \in Service : Ends(s) = 0} = {s \in Service : [x \in Service |-> Ends(x)][s] = 0}
    OBVIOUS
  <2>4. QED
    BY <1>2, <1>4, <1>6, <1>7, <1>8, <2>1, <2>2, <2>3 DEF Breaker!Look, Breaker!Turn, Ends
<1>11. QED
  BY <1>10 DEF Breaker!Next

\* What a call carries for cooling.Manager is the time it began.
Stamped == \A r \in Request : Called(r) => since[r] >= 1

LEMMA StampedStep ==
  ASSUME IInv, Stamped, [Next]_vars
  PROVE  Stamped'
<1>1. ASSUME UNCHANGED since, \A q \in Request : Called(q)' => Called(q)
      PROVE  Stamped'
  BY <1>1 DEF Stamped
<1>2. ASSUME NEW r \in Request, Admit(r) \/ RequestStep(r) \/ HangUp(r)
      PROVE  Stamped'
  <2>1. CASE Admit(r) \/ Probe(r) \/ UpdateHealth(r) \/ Route(r)
    <3>1. UNCHANGED since
      BY <2>1 DEF Admit, Probe, UpdateHealth, Route
    <3>2. \A q \in Request : pc'[q] = pc[q] \/ ~Called(q)'
      BY <2>1 DEF Admit, Probe, UpdateHealth, Route, Goto, Called, IInv, TypeOK
    <3>3. QED
      BY <1>1, <3>1, <3>2 DEF Called
  <2>2. CASE RouteFails(r)
    <3>1. /\ since' = [since EXCEPT ![r] = 0]
          /\ pc' = [pc EXCEPT ![r] = "idle"]
      BY <2>2 DEF RouteFails, Return, Goto
    <3>2. \A q \in Request : Called(q)' => Called(q) /\ since'[q] = since[q]
      BY <3>1 DEF Called, IInv, TypeOK
    <3>3. QED
      BY <3>2 DEF Stamped
  <2>3. CASE Begin(r)
    <3>1. /\ since' = [since EXCEPT ![r] = clock] /\ pc' = [pc EXCEPT ![r] = "calling"]
          /\ clock >= 1
      BY <2>3 DEF Begin, Goto, IInv, TypeOK
    <3>2. \A q \in Request : Called(q)' => since'[q] = clock \/ (Called(q) /\ since'[q] = since[q])
      BY <3>1 DEF Called, IInv, TypeOK
    <3>3. QED
      BY <3>1, <3>2 DEF Stamped
  <2>4. CASE Answer(r) \/ RecordCooling(r)
    <3>1. UNCHANGED since /\ Called(r)
      BY <2>4 DEF Answer, RecordCooling, Called
    <3>2. \A q \in Request \ {r} : pc'[q] = pc[q]
      BY <2>4 DEF Answer, RecordCooling, Goto, IInv, TypeOK
    <3>3. QED
      BY <1>1, <3>1, <3>2 DEF Called
  <2>5. CASE End(r)
    <3>1. /\ since' = [since EXCEPT ![r] = 0]
          /\ \E l \in {"idle", "attempt"} : pc' = [pc EXCEPT ![r] = l]
      BY <2>5 DEF End, Return, Goto
    <3>2. \A q \in Request : Called(q)' => Called(q) /\ since'[q] = since[q]
      BY <3>1 DEF Called, IInv, TypeOK
    <3>3. QED
      BY <3>2 DEF Stamped
  <2>6. CASE HangUp(r)
    BY <1>1, <2>6 DEF HangUp, requestVars, Called
  <2>7. QED
    BY <1>2, <2>1, <2>2, <2>3, <2>4, <2>5, <2>6 DEF RequestStep
<1>3. CASE UNCHANGED requestVars
  BY <1>1, <1>3 DEF requestVars, Called
<1>4. CASE UNCHANGED vars
  BY <1>1, <1>4 DEF vars, requestVars, Called
<1>5. ASSUME NEW s \in Service,
             SetEnabled(s) \/ ResetHealth(s) \/ Registers(s) \/ Removes(s) \/ ProviderTurns(s)
      PROVE  UNCHANGED requestVars
  BY <1>5 DEF SetEnabled, ResetHealth, Registers, Removes, ProviderTurns
<1>6. ASSUME NEW S \in Scopes, ResetCooling(S) \/ ResetStats(S)
      PROVE  UNCHANGED requestVars
  BY <1>6 DEF ResetCooling, ResetStats
<1>7. ASSUME SwitchMaintenance \/ Tick
      PROVE  UNCHANGED requestVars
  BY <1>7 DEF SwitchMaintenance, Tick
<1>8. QED
  BY <1>2, <1>3, <1>4, <1>5, <1>6, <1>7 DEF Next

\* One request's turn: what it may still call shrinks, and that is all.
LEMMA BreakerLeave ==
  ASSUME IInv, IInv', NEW r \in Request, End(r)
  PROVE  Breaker!Next
<1>1. pc[r] = "ending" /\ Routed(r) /\ LastLook(r) /\ UNCHANGED <<fails, clock>>
  BY DEF End, Routed, Called
<1>2. \A s \in Service : Ends(s)' = Ends(s)
  <2>1. ASSUME NEW s \in Service
        PROVE  Ends(s)' = Ends(s)
    <3>1. until'[s] = until[s] \/ until'[s] = Current(s, since[r])
      BY <1>1 DEF LastLook, IInv, TypeOK
    <3>2. /\ until[s] \in Nat /\ clock \in Nat
          /\ since[r] \in Nat /\ since[r] <= clock
      BY DEF IInv, TypeOK, NoFuture
    <3>3. until'[s] = until[s] \/ (until[s] <= clock /\ until'[s] = 0)
      BY <3>1, <3>2 DEF Current
    <3>4. QED
      BY <1>1, <3>2, <3>3, EndsKept DEF IInv
  <2>2. QED
    BY <2>1
<1>3. \A q \in Request \ {r} : Ahead(q)' = Ahead(q)
  <2>1. CASE Return(r)
    <3>1. \A q \in Request \ {r} : pc'[q] = pc[q] /\ chain'[q] = chain[q] /\ at'[q] = at[q]
      BY <2>1, ReturnTyped DEF IInv
    <3>2. QED
      BY <3>1 DEF Ahead, Routed, Called
  <2>2. CASE ~Return(r)
    <3>1. /\ pc' = [pc EXCEPT ![r] = "attempt"]
          /\ at' = [at EXCEPT ![r] = Following(@)] /\ UNCHANGED chain
      BY <2>2 DEF End, Goto
    <3>2. \A q \in Request \ {r} : pc'[q] = pc[q] /\ chain'[q] = chain[q] /\ at'[q] = at[q]
      BY <3>1 DEF IInv, TypeOK
    <3>3. QED
      BY <3>2 DEF Ahead, Routed, Called
  <2>3. QED
    BY <2>1, <2>2
<1>4. Target(r) \in Ahead(r)
  BY <1>1, TargetIsAhead
<1>5. Ahead(r)' \subseteq Ahead(r) \ {Target(r)}
  <2>1. CASE Return(r)
    BY <2>1, ReturnTyped DEF Ahead, IInv
  <2>2. CASE ~Return(r)
    <3>1. /\ at' = [at EXCEPT ![r] = at[r] + 1] /\ UNCHANGED chain
      BY <2>2 DEF End, Following
    <3>2. at'[r] = at[r] + 1 /\ at[r] \in Nat /\ at[r] >= 1
      BY <1>1, <3>1 DEF IInv, TypeOK, ChainsHold
    <3>3. Len(chain[r]) \in Nat /\ \A i, j \in 1 .. Len(chain[r]) : chain[r][i] = chain[r][j] => i = j
      BY <1>1 DEF IInv, ChainsHold, Chained
    <3>4. ASSUME NEW i \in (at[r] + 1) .. Len(chain[r])
          PROVE  chain[r][i] \in Ahead(r) \ {chain[r][at[r]]}
      <4>1. i \in at[r] .. Len(chain[r]) /\ i \in 1 .. Len(chain[r])
            /\ at[r] \in 1 .. Len(chain[r]) /\ i # at[r]
        BY <3>2, <3>3
      <4>2. chain[r][i] # chain[r][at[r]]
        BY <3>3, <4>1
      <4>3. QED
        BY <1>1, <4>1, <4>2 DEF Ahead
    <3>5. Ahead(r)' \subseteq {chain[r][i] : i \in (at[r] + 1) .. Len(chain[r])}
      BY <3>1, <3>2 DEF Ahead
    <3>6. QED
      BY <3>4, <3>5 DEF Target
  <2>3. QED
    BY <2>1, <2>2
<1>6. Breaker!Leave(r)
  <2> DEFINE g == [q \in Request |-> Ahead(q)]
  <2>1. g' = [g EXCEPT ![r] = g'[r]]
    BY <1>3
  <2>2. g[r] = Ahead(r) /\ g'[r] = Ahead(r)'
    OBVIOUS
  <2>3. Ahead(r)' \subseteq Ahead(r) /\ Ahead(r)' # Ahead(r)
    BY <1>4, <1>5
  <2>4. QED
    BY <1>1, <1>2, <2>1, <2>2, <2>3 DEF Breaker!Leave, Breaker!Turn, Ends
<1>7. QED
  BY <1>6 DEF Breaker!Next

\* A verdict counts against the service that the request stands before, from
\* the moment its call began; or it changes nothing that can be seen.
LEMMA BreakerVerdict ==
  ASSUME IInv, IInv', Stamped, NEW r \in Request, RecordCooling(r)
  PROVE  [Breaker!Next]_(Breaker!breaker)
<1>1. /\ pc[r] = "recording" /\ Called(r) /\ Routed(r)
      /\ pc' = [pc EXCEPT ![r] = "ending"] /\ UNCHANGED <<chain, at, clock>>
  BY DEF RecordCooling, Goto, worldVars, Routed, Called
<1>2. PICK s \in Ahead(r) : s = Target(r) /\ s \in Service
  BY <1>1, TargetIsAhead
<1>3. PICK t \in 1 .. clock : t = since[r]
  BY <1>1 DEF Stamped, IInv, TypeOK, NoFuture
<1>4. \A q \in Request : Ahead(q)' = Ahead(q)
  BY <1>1, AheadKept DEF Routed, Called, IInv, TypeOK
<1>5. /\ until \in [Service -> Nat] /\ until' \in [Service -> Nat]
      /\ fails \in [Service -> Nat] /\ clock \in Nat /\ Threshold \in Nat /\ CoolFor \in Nat
  BY DEF IInv, TypeOK
<1> DEFINE e == [x \in Service |-> Ends(x)]
<1>6. ASSUME until' = [until EXCEPT ![s] = Current(s, t)]
      PROVE  \A x \in Service : Ends(x)' = Ends(x)
  <2>1. ASSUME NEW x \in Service
        PROVE  Ends(x)' = Ends(x)
    <3>1. until'[x] = until[x] \/ (x = s /\ until'[x] = Current(s, t))
      BY <1>2, <1>5, <1>6
    <3>2. until'[x] = until[x] \/ (until[x] <= clock /\ until'[x] = 0)
      BY <1>3, <1>5, <3>1 DEF Current
    <3>3. QED
      BY <1>1, <1>5, <3>2, EndsKept DEF IInv
  <2>2. QED
    BY <2>1
<1>7. CASE outcome[r] = "ok"
  <2>1. fails' = [fails EXCEPT ![s] = 0] /\ until' = [until EXCEPT ![s] = Current(s, t)]
    BY <1>2, <1>3, <1>7 DEF RecordCooling, RecordSuccess
  <2>2. Breaker!Succeed(r)
    BY <1>1, <1>2, <1>4, <1>6, <2>1 DEF Breaker!Succeed, Ends
  <2>3. QED
    BY <2>2 DEF Breaker!Next
<1>8. CASE outcome[r] # "ok" /\ ~CountsTowardCooling(r)
  <2>1. /\ fails' = [fails EXCEPT ![s] = @]
        /\ until' = [until EXCEPT ![s] = Current(s, t)]
    BY <1>2, <1>3, <1>8 DEF RecordCooling, RecordFailure
  <2>2. fails' = fails
    BY <1>5, <2>1
  <2>3. QED
    BY <1>1, <1>4, <1>6, <2>1, <2>2, BreakerStill
<1>9. CASE outcome[r] # "ok" /\ CountsTowardCooling(r) /\ fails[s] + 1 < Threshold
  <2>1. /\ fails' = [fails EXCEPT ![s] = @ + 1]
        /\ until' = [until EXCEPT ![s] = Current(s, t)]
    BY <1>2, <1>3, <1>5, <1>9 DEF RecordCooling, RecordFailure
  <2>2. Breaker!Fail(r)
    BY <1>1, <1>2, <1>3, <1>4, <1>6, <1>9, <2>1 DEF Breaker!Fail, Ends
  <2>3. QED
    BY <2>2 DEF Breaker!Next
<1>10. CASE outcome[r] # "ok" /\ CountsTowardCooling(r) /\ fails[s] + 1 >= Threshold
  <2>1. /\ fails' = [fails EXCEPT ![s] = 0]
        /\ until' = [until EXCEPT ![s] = t + CoolFor]
    BY <1>2, <1>3, <1>10 DEF RecordCooling, RecordFailure
  <2>2. \A x \in Service : Ends(x)' = IF x = s THEN Breaker!Window(t + CoolFor, clock) ELSE Ends(x)
    BY <1>1, <1>2, <1>5, <2>1 DEF Ends, Current, Breaker!Window
  <2>3. e' = [e EXCEPT ![s] = Breaker!Window(t + CoolFor, clock)]
    BY <2>2
  <2>4. Breaker!Fail(r)
    BY <1>1, <1>2, <1>3, <1>4, <1>10, <2>1, <2>3 DEF Breaker!Fail, Ends
  <2>5. QED
    BY <2>4 DEF Breaker!Next
<1>11. QED
  BY <1>2, <1>5, <1>7, <1>8, <1>9, <1>10

LEMMA BreakerReset ==
  ASSUME IInv, NEW S \in Scopes, ResetCooling(S)
  PROVE  Breaker!Next
<1>1. /\ fails' = [s \in Service |-> IF s \in S THEN 0 ELSE fails[s]]
      /\ until' = [s \in Service |-> IF s \in S THEN 0 ELSE until[s]]
      /\ UNCHANGED <<pc, chain, at, clock>>
  BY DEF ResetCooling, requestVars
<1>2. \A q \in Request : Ahead(q)' = Ahead(q)
  BY <1>1, AheadKept DEF Routed, Called
<1>3. \A s \in Service : Ends(s)' = IF s \in S THEN 0 ELSE Ends(s)
  BY <1>1 DEF Ends, Current, IInv, TypeOK
<1>4. S \in SUBSET Service
  BY DEF Scopes
<1>5. Breaker!Reset(S)
  BY <1>1, <1>2, <1>3 DEF Breaker!Reset, Ends
<1>6. QED
  BY <1>4, <1>5 DEF Breaker!Next

LEMMA BreakerTick ==
  ASSUME IInv, Tick
  PROVE  Breaker!Next
<1>1. clock' = clock + 1 /\ clock \in Nat /\ UNCHANGED <<fails, until, pc, chain, at>>
  BY DEF Tick, coolingVars, requestVars, IInv, TypeOK
<1>2. \A q \in Request : Ahead(q)' = Ahead(q)
  BY <1>1, AheadKept DEF Routed, Called
<1>3. \A s \in Service : until[s] \in Nat
  BY DEF IInv, TypeOK
<1>4. \A s \in Service : Ends(s)' = Breaker!Window(Ends(s), clock')
  BY <1>1, <1>3 DEF Ends, Current, Breaker!Window
<1>5. Breaker!Tick
  BY <1>1, <1>2, <1>4 DEF Breaker!Tick, Ends
<1>6. QED
  BY <1>5 DEF Breaker!Next

\* The steps the breaker does not see.
LEMMA BreakerBlind ==
  ASSUME IInv, IInv', UNCHANGED <<fails, clock, chain, at>>,
         \A q \in Request : Routed(q)' <=> Routed(q),
         \A s \in Service : until'[s] \in {until[s], Current(s, clock)}
  PROVE  UNCHANGED Breaker!breaker
<1>1. \A q \in Request : Ahead(q)' = Ahead(q)
  BY AheadKept
<1>2. ASSUME NEW s \in Service
      PROVE  Ends(s)' = Ends(s)
  <2>1. until[s] \in Nat /\ clock \in Nat
    BY DEF IInv, TypeOK
  <2>2. until'[s] = until[s] \/ (until[s] <= clock /\ until'[s] = 0)
    BY <2>1 DEF Current
  <2>3. QED
    BY <2>1, <2>2, EndsKept DEF IInv
<1>3. QED
  BY <1>1, <1>2, BreakerStill

LEMMA BreakerStep ==
  ASSUME IInv, IInv', Stamped, [Next]_vars
  PROVE  [Breaker!Next]_(Breaker!breaker)
<1>1. ASSUME NEW r \in Request, Admit(r) \/ RequestStep(r) \/ HangUp(r)
      PROVE  [Breaker!Next]_(Breaker!breaker)
  <2>1. CASE Admit(r) \/ Probe(r) \/ UpdateHealth(r) \/ Begin(r) \/ Answer(r) \/ HangUp(r)
    <3>1. UNCHANGED <<fails, until, clock, chain, at>>
      BY <2>1 DEF Admit, Probe, UpdateHealth, Begin, Answer, HangUp, coolingVars, worldVars, requestVars
    <3>2. \A q \in Request : Routed(q)' <=> Routed(q)
      BY <2>1 DEF Admit, Probe, UpdateHealth, Begin, Answer, HangUp, Goto, requestVars,
                  Routed, Called, IInv, TypeOK
    <3>3. QED
      BY <3>1, <3>2, BreakerBlind
  <2>2. CASE RouteFails(r)
    <3>1. /\ pc[r] = "refresh" /\ Return(r) /\ UNCHANGED <<fails, clock>>
          /\ until' = [s \in Service |-> IF s \in registered THEN Current(s, clock) ELSE until[s]]
      BY <2>2 DEF RouteFails
    <3>2. \A q \in Request : Ahead(q)' = Ahead(q)
      <4>1. \A q \in Request \ {r} : pc'[q] = pc[q] /\ chain'[q] = chain[q] /\ at'[q] = at[q]
        BY <3>1, ReturnTyped DEF IInv
      <4>2. ~Routed(r) /\ ~Routed(r)'
        BY <3>1, ReturnTyped DEF Routed, Called, IInv
      <4>3. QED
        BY <4>1, <4>2 DEF Ahead, Routed, Called
    <3>3. ASSUME NEW s \in Service
          PROVE  Ends(s)' = Ends(s)
      <4>1. until[s] \in Nat /\ clock \in Nat
        BY DEF IInv, TypeOK
      <4>2. until'[s] = until[s] \/ (until[s] <= clock /\ until'[s] = 0)
        BY <3>1, <4>1 DEF Current
      <4>3. QED
        BY <3>1, <4>1, <4>2, EndsKept DEF IInv
    <3>4. QED
      BY <3>1, <3>2, <3>3, BreakerStill
  <2>3. QED
    BY <1>1, <2>1, <2>2, BreakerLook, BreakerVerdict, BreakerLeave DEF RequestStep
<1>2. ASSUME UNCHANGED <<coolingVars, requestVars, clock>>
      PROVE  UNCHANGED Breaker!breaker
  BY <1>2, BreakerBlind DEF coolingVars, requestVars, Routed, Called
<1>3. ASSUME NEW s \in Service,
             SetEnabled(s) \/ ResetHealth(s) \/ Registers(s) \/ Removes(s) \/ ProviderTurns(s)
      PROVE  UNCHANGED <<coolingVars, requestVars, clock>>
  BY <1>3 DEF SetEnabled, ResetHealth, Registers, Removes, ProviderTurns
<1>4. ASSUME NEW S \in Scopes, ResetStats(S)
      PROVE  UNCHANGED <<coolingVars, requestVars, clock>>
  BY <1>4 DEF ResetStats
<1>5. CASE SwitchMaintenance
  BY <1>2, <1>5 DEF SwitchMaintenance
<1>6. CASE UNCHANGED vars
  BY <1>2, <1>6 DEF vars, worldVars
<1>7. QED
  BY <1>1, <1>2, <1>3, <1>4, <1>5, <1>6, BreakerReset, BreakerTick DEF Next

\* The gateway with its managers behind mutexes of their own, its late verdicts
\* and its lazy write-backs implements a circuit breaker.
THEOREM CoolingIsABreaker == Spec => BreakerSpec
<1>1. Init => Breaker!Init
  <2>1. SUFFICES ASSUME Init
                 PROVE  Breaker!Init
    OBVIOUS
  <2>2. \A q \in Request : Ahead(q) = {}
    BY <2>1 DEF Init, Ahead, Routed, Called
  <2>3. \A s \in Service : Current(s, clock) = 0
    BY <2>1 DEF Init, Current
  <2>4. QED
    BY <2>1, <2>2, <2>3 DEF Init, Breaker!Init
<1>2. Init => Stamped
  BY DEF Init, Stamped, Called
<1>3. IInv /\ Stamped /\ [Next]_vars => Stamped'
  BY StampedStep
<1>4. IInv /\ IInv' /\ Stamped /\ [Next]_vars => [Breaker!Next]_(Breaker!breaker)
  BY BreakerStep
<1>5. QED
  BY <1>1, <1>2, <1>3, <1>4, Invariance, PTL DEF Spec, BreakerSpec, Breaker!Spec

=============================================================================

--------------------------- MODULE TeamSeatsProofs ---------------------------
(***************************************************************************)
(* What the steps may say of the seats of a team, and how many they give,  *)
(* for every number of steps, people and seats.                            *)
(***************************************************************************)
EXTENDS TeamSeats, FiniteSetTheorems, WellFoundedInduction, TLAPS

Job == [op : Step, todo : SUBSET Email, who : Email, ask : Seat,
        fell : BOOLEAN, id : BOOLEAN, uid : BOOLEAN,
        invites : [Email -> Slot], users : [Email -> Slot], heard : BOOLEAN,
        plan : SUBSET Entry, keep : SUBSET Email, need : 0 .. Target,
        ok : BOOLEAN, try : 0 .. Tries]

\* Nobody holds an invite and a membership.
Service ==
  /\ invite \in [Email -> Slot] /\ member \in [Email -> Slot]
  /\ \A e \in Email : invite[e] = "none" \/ member[e] = "none"
  /\ recorded \subseteq Email /\ late \subseteq Email

Counters ==
  /\ gone \subseteq Worker /\ cleaned \subseteq Worker /\ stirred \subseteq Worker
  /\ faults \in 0 .. MaxFaults /\ steps \in 0 .. MaxSteps

\* A verification that begins has an attempt left.
Jobs ==
  /\ pc \in [Worker -> Label] /\ job \in [Worker -> Job]
  /\ \A w \in Worker : pc[w] \in {"verify_users", "verify_invites"} => job[w].try < Tries

\* What a step says it says at its end.
Ended ==
  /\ \A w \in gone : pc[w] \in {"idle", "next"}
  /\ \A w \in cleaned : pc[w] = "idle"

\* The seats S leave the room that is needed, or are all to be kept.
KeptIn(S, keep) == \A x \in S : x.who \in keep
RoomIn(S, keep, need) ==
  /\ Room(S, Capacity, need) \/ KeptIn(S, keep)
  /\ Room(Chatgpt(S), ChatgptLimit, need) \/ KeptIn(Chatgpt(S), keep)

\* What a step at l with the variables j knows of the team, unless a seat was given
\* or taken up by somebody else behind its last listing.
Knows(l, j) ==
  /\ l = "find_invite" /\ j.heard => member[j.who] = "none"
  /\ l = "verify_invites" /\ j.heard /\ j.users[j.who] = "none" => member[j.who] = "none"
  /\ l = "list_users" /\ j.heard => \A e \in Email : invite[e] = "codex" => j.invites[e] = "codex"
  /\ l = "send" /\ j.heard => Occupied(invite, member) < Capacity
  /\ l = "decide" /\ j.heard => \A e \in Email : invite[e] \in {"none", j.invites[e]}
  /\ l = "remove" /\ j.op = "cleanup" /\ j.ok
       => RoomIn(Entries(invite, member) \ j.plan, j.keep, j.need)

\* ... and what it has said holds.
Says(w) ==
  /\ w \in gone
       => invite[job[w].who] = "none" /\ (job[w].heard => member[job[w].who] = "none")
  /\ w \in cleaned => RoomIn(Entries(invite, member), job[w].keep, job[w].need)

Informed == \A w \in Worker \ stirred : Knows(pc[w], job[w]) /\ Says(w)

IInv == Service /\ Counters /\ Jobs /\ Ended /\ Informed /\ OnlyLateOvershoots

USE TeamAssumption, TeamBoundAssumption DEF TeamAssumption, TeamBoundAssumption

-----------------------------------------------------------------------------
(* What a cleanup removes *)

LEMMA EntryIsFinite == IsFiniteSet(Entry)
<1> DEFINE P == ({"invite", "user"} \X Email) \X Seat
           f == [p \in P |-> [kind |-> p[1][1], who |-> p[1][2], seat |-> p[2]]]
<1>1. IsFiniteSet({"invite", "user"}) /\ IsFiniteSet(Seat)
  <2>1. IsFiniteSet({"invite"}) /\ IsFiniteSet({"codex"})
    BY FS_Singleton
  <2>2. IsFiniteSet({"invite"} \union {"user"}) /\ IsFiniteSet({"codex"} \union {"chatgpt"})
    BY <2>1, FS_AddElement
  <2>3. {"invite", "user"} = {"invite"} \union {"user"} /\ Seat = {"codex"} \union {"chatgpt"}
    BY DEF Seat
  <2>4. QED
    BY <2>2, <2>3
<1>2. IsFiniteSet(Email)
  BY FS_Interval DEF Email
<1>3. IsFiniteSet(P)
  BY <1>1, <1>2, FS_Product
<1>4. f \in Surjection(P, Entry)
  <2>1. f \in [P -> Entry]
    BY DEF Entry
  <2>2. ASSUME NEW x \in Entry
        PROVE  \E p \in P : f[p] = x
    <3>1. <<<<x.kind, x.who>>, x.seat>> \in P
      BY DEF Entry
    <3>2. f[<<<<x.kind, x.who>>, x.seat>>] = x
      BY <3>1 DEF Entry
    <3>3. QED
      BY <3>1, <3>2
  <2>3. QED
    BY <2>1, <2>2 DEF Surjection
<1>5. QED
  BY <1>3, <1>4, FS_Surjection

Below(X, x, first) == {y \in X : Before(y, x, first)}

LEMMA BeforeIsAnOrder ==
  ASSUME NEW first, NEW x \in Entry, NEW y \in Entry, NEW z \in Entry
  PROVE  /\ ~Before(x, x, first)
         /\ Before(x, y, first) /\ Before(y, z, first) => Before(x, z, first)
BY DEF Before, Entry, Email, Seat

\* The n least ones are all, or at least n.
LEMMA LeastIsEnough ==
  ASSUME NEW X \in SUBSET Entry, NEW n \in Nat, NEW first, Least(n, X, first) # X
  PROVE  Cardinality(Least(n, X, first)) >= n
<1> DEFINE L == Least(n, X, first)
           R == X \ L
           T == {Below(X, x, first) : x \in R}
<1>1. IsFiniteSet(X) /\ L \subseteq X
  BY EntryIsFinite, FS_Subset DEF Least
<1>2. IsWellFoundedOn(StrictSubsetOrdering(X), SUBSET X)
  BY <1>1, FS_StrictSubsetOrderingWellFounded, FS_FiniteSubsetsOfFinite
<1>3. T \subseteq SUBSET X /\ T # {}
  <2>1. R # {}
    BY <1>1
  <2>2. PICK r \in R : TRUE
    BY <2>1
  <2>3. Below(X, r, first) \in T
    BY <2>2
  <2>4. \A x \in R : Below(X, x, first) \subseteq X
    BY DEF Below
  <2>5. QED
    BY <2>3, <2>4
<1>4. PICK t \in T : \A u \in T : <<u, t>> \notin StrictSubsetOrdering(X)
  <2> HIDE DEF T
  <2>1. QED
    BY <1>2, <1>3, WFMin
<1>5. PICK z \in R : t = Below(X, z, first)
  OBVIOUS
<1>6. Below(X, z, first) \subseteq L
  <2> SUFFICES ASSUME NEW y \in R, Before(y, z, first)
               PROVE  FALSE
    BY DEF Below
  <2>1. Below(X, y, first) \in T
    OBVIOUS
  <2>2. Below(X, y, first) \subseteq Below(X, z, first)
    BY BeforeIsAnOrder DEF Below
  <2>3. y \in Below(X, z, first) /\ y \notin Below(X, y, first)
    BY BeforeIsAnOrder DEF Below
  <2>4. <<Below(X, y, first), t>> \in StrictSubsetOrdering(X)
    BY <1>3, <1>5, <2>1, <2>2, <2>3 DEF StrictSubsetOrdering
  <2>5. QED
    BY <1>4, <2>1, <2>4
<1>7. Cardinality(Below(X, z, first)) >= n
  <2>1. Cardinality(Below(X, z, first)) \in Nat
    BY <1>1, FS_Subset, FS_CardinalityType DEF Below
  <2>2. QED
    BY <2>1 DEF Least, Below
<1>8. IsFiniteSet(L) /\ Cardinality(Below(X, z, first)) <= Cardinality(L)
  BY <1>1, <1>6, FS_Subset
<1>9. Cardinality(L) \in Nat /\ Cardinality(Below(X, z, first)) \in Nat
  BY <1>1, <1>8, FS_Subset, FS_CardinalityType DEF Below
<1>10. QED
  BY <1>7, <1>8, <1>9

LEMMA RoomShrinks ==
  ASSUME NEW S \in SUBSET Entry, NEW T \in SUBSET S, NEW limit \in Nat, NEW need \in Nat,
         Room(S, limit, need)
  PROVE  Room(T, limit, need)
<1>1. /\ Cardinality(T) <= Cardinality(S)
      /\ Cardinality(S) \in Nat /\ Cardinality(T) \in Nat
  BY EntryIsFinite, FS_Subset, FS_CardinalityType
<1>2. QED
  BY <1>1 DEF Room, Minus

\* What holds of the seats that are left holds of fewer.
LEMMA RoomInShrinks ==
  ASSUME NEW S \in SUBSET Entry, NEW T \in SUBSET S, NEW keep, NEW need \in Nat,
         RoomIn(S, keep, need)
  PROVE  RoomIn(T, keep, need)
<1>1. Chatgpt(T) \subseteq Chatgpt(S) /\ Chatgpt(S) \subseteq Entry
  BY DEF Chatgpt
<1>2. QED
  BY <1>1, RoomShrinks DEF RoomIn, KeptIn

\* The n least of the free ones are enough to make room, or nothing else is free.
LEMMA LeastMakesRoom ==
  ASSUME NEW X \in SUBSET Entry, NEW keep, NEW limit \in Nat, NEW need \in Nat, NEW first,
         NEW n, n = Minus(Cardinality(X), Minus(limit, need)),
         NEW C, C = Least(n, {x \in X : x.who \notin keep}, first)
  PROVE  Room(X \ C, limit, need) \/ KeptIn(X \ C, keep)
<1> DEFINE free == {x \in X : x.who \notin keep}
<1>1. CASE C = free
  BY <1>1 DEF KeptIn
<1>2. CASE C # free
  <2>1. IsFiniteSet(X) /\ Cardinality(X) \in Nat
    BY EntryIsFinite, FS_Subset, FS_CardinalityType
  <2>2. n \in Nat
    BY <2>1 DEF Minus
  <2>3. free \in SUBSET Entry /\ C \subseteq X
    BY DEF Least
  <2>4. Cardinality(C) >= n
    BY <1>2, <2>2, <2>3, LeastIsEnough
  <2>5. IsFiniteSet(C) /\ Cardinality(C) \in Nat
    BY <2>1, <2>3, FS_Subset, FS_CardinalityType
  <2>6. IsFiniteSet(X \ C) /\ Cardinality(X \ C) = Cardinality(X) - Cardinality(C)
    <3>1. X \intersect C = C
      BY <2>3
    <3>2. IsFiniteSet(X \ C) /\ Cardinality(X \ C) = Cardinality(X) - Cardinality(X \intersect C)
      BY <2>1, FS_Difference
    <3>3. QED
      BY <3>1, <3>2
  <2>7. Cardinality(X \ C) \in Nat
    BY <2>6, FS_CardinalityType
  <2>8. CASE need <= limit
    BY <2>1, <2>4, <2>5, <2>6, <2>7, <2>8 DEF Room, Minus
  <2>9. CASE ~(need <= limit)
    <3>1. Cardinality(X \ C) = 0
      BY <2>1, <2>4, <2>5, <2>6, <2>7, <2>9 DEF Minus
    <3>2. X \ C = {}
      BY <2>6, <3>1, FS_EmptySet
    <3>3. QED
      BY <3>2 DEF KeptIn
  <2>10. QED
    BY <2>8, <2>9
<1>3. QED
  BY <1>1, <1>2

\* The plan of a cleanup makes room, both in all and among the default seats
\* (_plan_cleanup).
LEMMA PlanMakesRoom ==
  ASSUME NEW S \in SUBSET Entry, NEW keep, NEW need \in Nat
  PROVE  RoomIn(S \ Plan(S, keep, need), keep, need)
<1> DEFINE X == Chatgpt(S)
           n == Minus(Cardinality(X), Minus(ChatgptLimit, need))
           A == Least(n, {x \in X : x.who \notin keep}, "chatgpt")
           Y == S \ A
           m == Minus(Cardinality(Y), Minus(Capacity, need))
           B == Least(m, {x \in Y : x.who \notin keep}, "codex")
<1>1. Plan(S, keep, need) = A \union B
  BY DEF Plan
<1>2. X \in SUBSET Entry /\ Y \in SUBSET Entry
  BY DEF Chatgpt
<1>3. Room(X \ A, ChatgptLimit, need) \/ KeptIn(X \ A, keep)
  <2>1. ChatgptLimit \in Nat
    OBVIOUS
  <2> HIDE DEF X
  <2>2. QED
    BY <1>2, <2>1, LeastMakesRoom
<1>4. Room(Y \ B, Capacity, need) \/ KeptIn(Y \ B, keep)
  <2> HIDE DEF Y
  <2>1. QED
    BY <1>2, LeastMakesRoom
<1>5. S \ Plan(S, keep, need) = Y \ B
  BY <1>1
<1>6. Chatgpt(Y \ B) \subseteq X \ A /\ X \ A \subseteq Entry
  BY <1>2 DEF Chatgpt
<1>7. Room(Chatgpt(Y \ B), ChatgptLimit, need) \/ KeptIn(Chatgpt(Y \ B), keep)
  <2>1. CASE Room(X \ A, ChatgptLimit, need)
    <3>1. ChatgptLimit \in Nat
      OBVIOUS
    <3> HIDE DEF A, B, X, Y
    <3>2. QED
      BY <1>6, <2>1, <3>1, RoomShrinks
  <2>2. CASE KeptIn(X \ A, keep)
    BY <1>6, <2>2 DEF KeptIn
  <2>3. QED
    BY <1>3, <2>1, <2>2
<1>8. QED
  BY <1>4, <1>5, <1>7 DEF RoomIn

LEMMA AvailableIsRoom ==
  ASSUME NEW S, NEW keep, NEW need, Available(S, need)
  PROVE  RoomIn(S, keep, need)
BY DEF Available, RoomIn

-----------------------------------------------------------------------------
(* Where a step goes *)

Goes(w) ==
  \E l \in Label : \E j \in Job :
    Goto(w, l, j) /\ (l \in {"verify_users", "verify_invites"} => j.try < Tries)

LEMMA GoesThere ==
  ASSUME NEW w, NEW l \in Label, NEW j \in Job, Goto(w, l, j),
         l \in {"verify_users", "verify_invites"} => j.try < Tries
  PROVE  Goes(w)
BY DEF Goes

LEMMA JobTyped ==
  ASSUME IInv
  PROVE  /\ NoJob \in Job
         /\ \A w \in Worker : job[w] \in Job /\ pc[w] \in Label
         /\ invite \in [Email -> Slot] /\ member \in [Email -> Slot] /\ Nobody \in [Email -> Slot]
<1>1. 1 \in Email /\ 0 \in 0 .. Target /\ 0 \in 0 .. Tries
  BY DEF Email
<1>2. Nobody \in [Email -> Slot]
  BY DEF Nobody, Slot
<1>3. NoJob \in Job
  BY <1>1, <1>2 DEF NoJob, Job, Step, Seat
<1>4. QED
  BY <1>2, <1>3 DEF IInv, Jobs, Service

LEMMA JobParts ==
  ASSUME IInv, NEW j \in Job
  PROVE  /\ Answer(j) \in Job /\ Done(j) \in Job /\ Forget(j) \in Job /\ Restart(j) \in Job
         /\ Restart(j).try < Tries
<1>1. 0 \in 0 .. Tries /\ 0 < Tries
  OBVIOUS
<1>2. Answer(j) \in Job
  BY JobTyped DEF Answer, Job
<1>3. Done(j) \in Job
  BY JobTyped DEF Done, Job, Seat
<1>4. Forget(j) \in Job
  BY JobTyped DEF Forget, Job
<1>5. Restart(j) \in Job /\ Restart(j).try < Tries
  BY <1>1 DEF Restart, Job
<1>6. QED
  BY <1>2, <1>3, <1>4, <1>5

\* What is left of a step still says of whom, and whether the listing was answered.
LEMMA SaidOf ==
  ASSUME NEW j
  PROVE  /\ Answer(j).who = j.who /\ Answer(j).heard = j.heard
         /\ Done(j).who = j.who /\ Done(j).heard = j.heard
BY DEF Answer, Done, NoJob

LEMMA GotoMoves ==
  ASSUME IInv, NEW w \in Worker, NEW l, NEW j, Goto(w, l, j)
  PROVE  /\ pc'[w] = l
         /\ l = "idle" => job'[w] = Answer(j)
         /\ l = "next" => job'[w] = Done(j)
         /\ l \notin {"idle", "next"} => job'[w] = j
         /\ \A v \in Worker \ {w} : pc'[v] = pc[v] /\ job'[v] = job[v]
BY DEF IInv, Jobs, Goto

LEMMA GoesKeeps ==
  ASSUME IInv, NEW w \in Worker, Goes(w)
  PROVE  Jobs'
<1>1. PICK l \in Label, j \in Job :
        Goto(w, l, j) /\ (l \in {"verify_users", "verify_invites"} => j.try < Tries)
  BY DEF Goes
<1> DEFINE g == CASE l = "idle" -> Answer(j) [] l = "next" -> Done(j) [] OTHER -> j
<1>2. g \in Job
  BY JobParts
<1>3. pc' = [pc EXCEPT ![w] = l] /\ job' = [job EXCEPT ![w] = g]
  BY <1>1 DEF Goto
<1>4. pc' \in [Worker -> Label] /\ job' \in [Worker -> Job]
  BY <1>2, <1>3 DEF IInv, Jobs
<1>5. ASSUME NEW v \in Worker, pc'[v] \in {"verify_users", "verify_invites"}
      PROVE  job'[v].try < Tries
  BY <1>1, <1>5, GotoMoves DEF IInv, Jobs
<1>6. QED
  BY <1>4, <1>5 DEF Jobs

LEMMA BeginGoes ==
  ASSUME IInv, NEW w \in Worker,
         BeginInvite(w) \/ BeginBatch(w) \/ BeginRevoke(w) \/ BeginCleanup(w) \/ BeginCapacity(w)
  PROVE  Goes(w)
<1> USE JobTyped DEF Begin
<1>1. CASE BeginInvite(w)
  <2>1. PICK e \in Email : Goto(w, "list_invites", [NoJob EXCEPT !.who = e])
    BY <1>1 DEF BeginInvite
  <2>2. [NoJob EXCEPT !.who = e] \in Job
    BY DEF Job
  <2>3. QED
    BY <2>1, <2>2, GoesThere DEF Label
<1>2. CASE BeginBatch(w)
  <2>1. PICK S \in SUBSET Email \ {{}}, s \in BatchSeats :
          Goto(w, "next", [NoJob EXCEPT !.op = "batch", !.todo = S, !.ask = s])
    BY <1>2 DEF BeginBatch
  <2>2. [NoJob EXCEPT !.op = "batch", !.todo = S, !.ask = s] \in Job
    BY DEF Job, Step
  <2>3. QED
    BY <2>1, <2>2, GoesThere DEF Label
<1>3. CASE BeginRevoke(w)
  <2>1. PICK e \in Email, u \in BOOLEAN :
          Goto(w, IF u THEN "remove_known" ELSE "find_user",
               [NoJob EXCEPT !.op = "revoke", !.who = e, !.uid = u])
    BY <1>3 DEF BeginRevoke
  <2>2. [NoJob EXCEPT !.op = "revoke", !.who = e, !.uid = u] \in Job
    <3>1. "revoke" \in Step /\ u \in BOOLEAN /\ NoJob \in Job
      BY DEF Step
    <3>2. QED
      BY <3>1 DEF Job
  <2>3. QED
    BY <2>1, <2>2, GoesThere DEF Label
<1>4. CASE BeginCleanup(w)
  <2>1. PICK p \in {recorded, {}} :
          Goto(w, "list_all", [NoJob EXCEPT !.op = "cleanup", !.keep = p, !.need = Remaining(p)])
    BY <1>4 DEF BeginCleanup
  <2>2. p \subseteq Email /\ IsFiniteSet(Email)
    BY FS_Interval DEF IInv, Service, Email
  <2>3. Cardinality(p) \in Nat
    BY <2>2, FS_Subset, FS_CardinalityType
  <2>4. Remaining(p) \in 0 .. Target
    BY <2>3 DEF Remaining, Minus
  <2>5. [NoJob EXCEPT !.op = "cleanup", !.keep = p, !.need = Remaining(p)] \in Job
    BY <2>2, <2>4 DEF Job, Step
  <2>6. QED
    BY <2>1, <2>5, GoesThere DEF Label
<1>5. CASE BeginCapacity(w)
  <2>1. [NoJob EXCEPT !.op = "capacity"] \in Job
    BY DEF Job, Step
  <2>2. QED
    BY <1>5, <2>1, GoesThere DEF Label, BeginCapacity
<1>6. QED
  BY <1>1, <1>2, <1>3, <1>4, <1>5

LEMMA InvitedGoes ==
  ASSUME IInv, NEW w \in Worker, NEW j \in Job, NEW ok, NEW blunt, Invited(w, j, ok, blunt)
  PROVE  Goes(w)
<1>1. CASE j.op = "batch" /\ ~ok /\ blunt /\ j.ask = "chatgpt" /\ ~j.fell
  <2>1. [j EXCEPT !.ask = "codex", !.fell = TRUE] \in Job
    BY DEF Job, Seat
  <2>2. Forget([j EXCEPT !.ask = "codex", !.fell = TRUE]) \in Job
    BY <2>1, JobParts
  <2>3. QED
    BY <1>1, <2>2, GoesThere DEF Invited, Label
<1>2. CASE ~(j.op = "batch" /\ ~ok /\ blunt /\ j.ask = "chatgpt" /\ ~j.fell)
  <2>1. PICK l \in {"next", "idle", "patch", "oauth"} : Goto(w, l, Forget(j))
    BY <1>2 DEF Invited, Then
  <2>2. QED
    BY <2>1, JobParts, GoesThere DEF Label
<1>3. QED
  BY <1>1, <1>2

LEMMA InviteGoes ==
  ASSUME IInv, NEW w \in Worker, ListInvites(w) \/ Sweep(w) \/ ListUsers(w) \/ SendInvite(w)
  PROVE  Goes(w)
<1> DEFINE j == job[w]
<1>1. j \in Job
  BY JobTyped
<1>2. /\ \A plan \in SUBSET Entry : [j EXCEPT !.plan = plan] \in Job
      /\ \A id, uid \in BOOLEAN : [j EXCEPT !.id = id, !.uid = uid] \in Job
      /\ \A ok \in BOOLEAN : [Forget(j) EXCEPT !.heard = ok] \in Job
      /\ \A f \in [Email -> Slot], ok \in BOOLEAN : [j EXCEPT !.invites = f, !.heard = ok] \in Job
  BY <1>1, JobParts DEF Job
<1>3. (~j.fell) \in BOOLEAN
  OBVIOUS
<1>4. CASE ListInvites(w)
  <2>1. PICK ok \in BOOLEAN :
          IF ok /\ pc[w] = "list_invites" /\ Sweeping
            THEN \E plan \in Stale(w) : Goto(w, "sweep", [job[w] EXCEPT !.plan = plan])
          ELSE IF ok /\ invite[job[w].who] # "none"
            THEN Invited(w, [job[w] EXCEPT !.id = ~job[w].fell, !.uid = FALSE], TRUE, FALSE)
          ELSE Goto(w, "list_users", [job[w] EXCEPT !.invites = IF ok THEN invite ELSE Nobody,
                                                    !.heard = ok])
    BY <1>4 DEF ListInvites
  <2>2. Stale(w) \subseteq SUBSET Entry
    BY DEF Stale, Seated, Entry, Codex, Seat
  <2>3. (IF ok THEN invite ELSE Nobody) \in [Email -> Slot]
    BY JobTyped
  <2>4. ASSUME NEW plan \in Stale(w), Goto(w, "sweep", [job[w] EXCEPT !.plan = plan])
        PROVE  Goes(w)
    BY <1>2, <2>2, <2>4, GoesThere DEF Label
  <2>5. ASSUME Invited(w, [job[w] EXCEPT !.id = ~job[w].fell, !.uid = FALSE], TRUE, FALSE)
        PROVE  Goes(w)
    BY <1>2, <1>3, <2>5, InvitedGoes
  <2>6. ASSUME Goto(w, "list_users", [job[w] EXCEPT !.invites = IF ok THEN invite ELSE Nobody,
                                                    !.heard = ok])
        PROVE  Goes(w)
    BY <1>2, <2>3, <2>6, GoesThere DEF Label
  <2>7. QED
    BY <2>1, <2>4, <2>5, <2>6
<1>5. CASE Sweep(w)
  <2>1. PICK plan \in SUBSET Entry, l \in {"relist", "sweep"} : Goto(w, l, [j EXCEPT !.plan = plan])
    <3>1. CASE j.plan = {} /\ Goto(w, "relist", j)
      <4>1. j = [j EXCEPT !.plan = {}]
        BY <1>1, <3>1 DEF Job
      <4>2. QED
        BY <3>1, <4>1
    <3>2. ASSUME NEW x \in j.plan, Goto(w, "sweep", [j EXCEPT !.plan = @ \ {x}])
          PROVE  \E plan \in SUBSET Entry : Goto(w, "sweep", [j EXCEPT !.plan = plan])
      <4>1. j.plan \ {x} \in SUBSET Entry
        BY <1>1 DEF Job
      <4>2. QED
        BY <3>2, <4>1
    <3>3. QED
      BY <1>5, <3>1, <3>2 DEF Sweep
  <2>2. QED
    BY <1>2, <2>1, GoesThere DEF Label
<1>6. CASE ListUsers(w)
  <2>1. PICK ok \in BOOLEAN :
          \/ \E u \in BOOLEAN : Invited(w, [job[w] EXCEPT !.id = ~job[w].fell, !.uid = u], TRUE, FALSE)
          \/ Invited(w, job[w], FALSE, FALSE)
          \/ Goto(w, "send", [Forget(job[w]) EXCEPT !.heard = ok /\ job[w].heard])
    BY <1>6 DEF ListUsers
  <2>2. (ok /\ j.heard) \in BOOLEAN
    OBVIOUS
  <2>3. ASSUME NEW u \in BOOLEAN, Invited(w, [job[w] EXCEPT !.id = ~job[w].fell, !.uid = u], TRUE, FALSE)
        PROVE  Goes(w)
    BY <1>2, <1>3, <2>3, InvitedGoes
  <2>4. ASSUME Goto(w, "send", [Forget(job[w]) EXCEPT !.heard = ok /\ job[w].heard])
        PROVE  Goes(w)
    BY <1>2, <2>2, <2>4, GoesThere DEF Label
  <2>5. QED
    BY <1>1, <2>1, <2>3, <2>4, InvitedGoes
<1>7. CASE SendInvite(w)
  <2>1. ASSUME Invited(w, [job[w] EXCEPT !.id = TRUE, !.uid = FALSE], TRUE, FALSE)
        PROVE  Goes(w)
    BY <1>2, <2>1, InvitedGoes
  <2>2. QED
    BY <1>1, <1>7, <2>1, InvitedGoes DEF SendInvite
<1>8. QED
  BY <1>4, <1>5, <1>6, <1>7

LEMMA BatchGoes ==
  ASSUME IInv, NEW w \in Worker, NextMember(w) \/ Patch(w) \/ Oauth(w) \/ Kill(w)
  PROVE  Goes(w)
<1> DEFINE j == job[w]
<1>1. j \in Job
  BY JobTyped
<1>2. ASSUME NEW k \in Job, RollBack(w, k)
      PROVE  Goes(w)
  BY <1>2, GoesThere DEF RollBack, Label
<1>3. CASE NextMember(w)
  <2>1. ASSUME NEW e \in j.todo,
               Goto(w, "list_invites", [j EXCEPT !.todo = @ \ {e}, !.who = e, !.heard = TRUE])
        PROVE  Goes(w)
    <3>1. [j EXCEPT !.todo = @ \ {e}, !.who = e, !.heard = TRUE] \in Job
      BY <1>1 DEF Job
    <3>2. QED
      BY <2>1, <3>1, GoesThere DEF Label
  <2>2. QED
    BY <1>1, <1>3, <2>1, GoesThere DEF NextMember, Label
<1>4. CASE Patch(w)
  <2>1. ASSUME NEW u \in BOOLEAN, RollBack(w, [j EXCEPT !.uid = u])
        PROVE  Goes(w)
    <3>1. [j EXCEPT !.uid = u] \in Job
      BY <1>1 DEF Job
    <3>2. QED
      BY <1>2, <2>1, <3>1
  <2>2. (~j.id /\ member[j.who] # "none") \in BOOLEAN
    OBVIOUS
  <2>3. QED
    BY <1>1, <1>4, <2>1, <2>2, GoesThere DEF Patch, Label
<1>5. CASE Oauth(w)
  BY <1>1, <1>2, <1>5, GoesThere DEF Oauth, Label
<1>6. CASE Kill(w)
  BY <1>6, JobTyped, GoesThere DEF Kill, Label
<1>7. QED
  BY <1>3, <1>4, <1>5, <1>6

LEMMA RevokeGoes ==
  ASSUME IInv, NEW w \in Worker,
         RemoveKnown(w) \/ FindUser(w) \/ FindInvite(w) \/ Delete(w) \/ JoinedMeanwhile(w)
  PROVE  Goes(w)
<1> DEFINE j == job[w]
<1>1. j \in Job /\ Restart(j) \in Job /\ Restart(j).try < Tries
  BY JobTyped, JobParts
<1>2. \A ok \in BOOLEAN : [j EXCEPT !.heard = ok] \in Job
  BY <1>1 DEF Job
<1>3. Then(j) \in {"next", "idle"}
  BY DEF Then
<1>4. ASSUME NEW l \in {"find_user", "find_invite", "delete", "joined", "verify_users", "next", "idle"},
             NEW k \in {j, Restart(j)} \union {[j EXCEPT !.heard = ok] : ok \in BOOLEAN},
             l = "verify_users" => k = Restart(j), Goto(w, l, k)
      PROVE  Goes(w)
  BY <1>1, <1>2, <1>4, GoesThere DEF Label
<1>5. ASSUME NEW ok, Removed(w, ok)
      PROVE  Goes(w)
  BY <1>3, <1>4, <1>5 DEF Removed
<1>6. CASE RemoveKnown(w)
  BY <1>4, <1>6 DEF RemoveKnown
<1>7. CASE FindUser(w)
  BY <1>4, <1>5, <1>7 DEF FindUser, RemoveListed
<1>8. CASE FindInvite(w)
  <2>1. ASSUME NEW ok \in BOOLEAN,
               Goto(w, Then(j), [Restart(j) EXCEPT !.heard = ok => j.heard])
        PROVE  Goes(w)
    <3>1. [Restart(j) EXCEPT !.heard = ok => j.heard] \in Job
      BY <1>1 DEF Job
    <3>2. QED
      BY <1>3, <2>1, <3>1, GoesThere DEF Label
  <2>2. QED
    BY <1>4, <1>8, <2>1 DEF FindInvite
<1>9. CASE Delete(w)
  BY <1>4, <1>5, <1>9 DEF Delete
<1>10. CASE JoinedMeanwhile(w)
  <2>1. ASSUME j.try + 1 < Tries, Goto(w, "joined", [j EXCEPT !.try = @ + 1])
        PROVE  Goes(w)
    <3>1. j.try + 1 \in 0 .. Tries
      BY <1>1, <2>1 DEF Job
    <3>2. [j EXCEPT !.try = @ + 1] \in Job
      BY <1>1, <3>1 DEF Job
    <3>3. QED
      BY <2>1, <3>2, GoesThere DEF Label
  <2>2. QED
    BY <1>3, <1>4, <1>5, <1>10, <2>1 DEF JoinedMeanwhile, RemoveListed
<1>11. QED
  BY <1>6, <1>7, <1>8, <1>9, <1>10

LEMMA VerifyGoes ==
  ASSUME IInv, NEW w \in Worker, VerifyUsers(w) \/ VerifyInvites(w) \/ RepairUser(w) \/ RepairInvite(w)
  PROVE  Goes(w)
<1> DEFINE j == job[w]
<1>1. j \in Job /\ Forget(j) \in Job
  BY JobTyped, JobParts
<1>2. Restart(Forget(j)) \in Job /\ Restart(Forget(j)).try < Tries
  BY <1>1, JobParts
<1>3. Then(j) \in {"next", "idle"}
  BY DEF Then
<1>4. CASE VerifyUsers(w)
  <2>1. PICK ok \in BOOLEAN, f \in [Email -> Slot] :
          Goto(w, "verify_invites", [j EXCEPT !.users = f, !.heard = ok])
    BY <1>4, JobTyped DEF VerifyUsers
  <2>2. [j EXCEPT !.users = f, !.heard = ok] \in Job /\ [j EXCEPT !.users = f, !.heard = ok].try = j.try
    BY <1>1 DEF Job
  <2>3. j.try < Tries
    BY <1>4 DEF VerifyUsers, IInv, Jobs
  <2>4. QED
    BY <2>1, <2>2, <2>3, GoesThere DEF Label
<1>5. CASE VerifyInvites(w)
  <2>1. j.try + 1 \in 0 .. Tries
    <3>1. j.try < Tries
      BY <1>5 DEF VerifyInvites, IInv, Jobs
    <3>2. j.try \in 0 .. Tries
      BY <1>1 DEF Job
    <3>3. QED
      BY <3>1, <3>2
  <2>2. ASSUME NEW f \in [Email -> Slot], Goto(w, "repair_user", [j EXCEPT !.try = @ + 1, !.invites = f])
        PROVE  Goes(w)
    <3>1. [j EXCEPT !.try = @ + 1, !.invites = f] \in Job
      BY <1>1, <2>1 DEF Job
    <3>2. QED
      BY <2>2, <3>1, GoesThere DEF Label
  <2>3. CASE Goto(w, Then(j), Restart(Forget(j)))
    BY <1>2, <1>3, <2>3, GoesThere DEF Label
  <2>4. \A listed \in BOOLEAN : (IF listed THEN invite ELSE Nobody) \in [Email -> Slot]
    BY JobTyped
  <2>5. QED
    BY <1>5, <2>2, <2>3, <2>4 DEF VerifyInvites
<1>6. CASE RepairUser(w)
  BY <1>1, <1>6, GoesThere DEF RepairUser, Label
<1>7. CASE RepairInvite(w)
  <2>1. CASE j.try < Tries /\ Goto(w, "verify_users", Forget(j))
    <3>1. Forget(j).try = j.try
      BY <1>1 DEF Forget, Job
    <3>2. QED
      BY <1>1, <2>1, <3>1, GoesThere DEF Label
  <2>2. CASE Goto(w, Then(j), Restart(Forget(j)))
    BY <1>2, <1>3, <2>2, GoesThere DEF Label
  <2>3. QED
    BY <1>7, <2>1, <2>2 DEF RepairInvite
<1>8. QED
  BY <1>4, <1>5, <1>6, <1>7

LEMMA CleanupGoes ==
  ASSUME IInv, NEW w \in Worker, ListAll(w) \/ Decide(w) \/ Remove(w)
  PROVE  Goes(w)
<1> DEFINE j == job[w]
<1>1. j \in Job /\ Forget(j) \in Job /\ Restart(j) \in Job
  BY JobTyped, JobParts
<1>2. CASE ListAll(w)
  <2>1. PICK ok \in BOOLEAN, f \in [Email -> Slot] :
          Goto(w, "decide", [j EXCEPT !.invites = f, !.heard = ok])
    BY <1>2, JobTyped DEF ListAll
  <2>2. [j EXCEPT !.invites = f, !.heard = ok] \in Job
    BY <1>1 DEF Job
  <2>3. QED
    BY <2>1, <2>2, GoesThere DEF Label
<1>3. CASE Decide(w)
  <2>1. ASSUME NEW p \in SUBSET Entry, Goto(w, "remove", [Forget(j) EXCEPT !.plan = p])
        PROVE  Goes(w)
    <3>1. [Forget(j) EXCEPT !.plan = p] \in Job
      BY <1>1 DEF Job
    <3>2. QED
      BY <2>1, <3>1, GoesThere DEF Label
  <2>2. \A S \in SUBSET Entry : CapacityPlan(S) \in SUBSET Entry /\ Plan(S, j.keep, j.need) \in SUBSET Entry
    BY DEF CapacityPlan, Plan, Chatgpt, Least
  <2>3. \A i, u : Entries(i, u) \in SUBSET Entry
    BY DEF Entries
  <2>4. \/ \E p \in SUBSET Entry : Goto(w, "remove", [Forget(j) EXCEPT !.plan = p])
        \/ Goto(w, "idle", Restart(j))
    BY <1>3, <2>2, <2>3 DEF Decide
  <2>5. QED
    BY <1>1, <2>1, <2>4, GoesThere DEF Label
<1>4. CASE Remove(w)
  <2>1. ASSUME NEW x, NEW o \in BOOLEAN, Goto(w, "remove", [j EXCEPT !.plan = @ \ {x}, !.ok = o])
        PROVE  Goes(w)
    <3>1. [j EXCEPT !.plan = @ \ {x}, !.ok = o] \in Job
      BY <1>1 DEF Job
    <3>2. QED
      BY <2>1, <3>1, GoesThere DEF Label
  <2>2. \A ok, missing : Succeeds(j, ok, missing) \in BOOLEAN
    BY DEF Succeeds
  <2>3. QED
    BY <1>1, <1>4, <2>1, <2>2, GoesThere DEF Remove, Label
<1>5. QED
  BY <1>2, <1>3, <1>4

LEMMA StepGoes ==
  ASSUME IInv, NEW w \in Worker, Act(w) \/ Kill(w)
  PROVE  Goes(w)
BY BeginGoes, InviteGoes, BatchGoes, RevokeGoes, VerifyGoes, CleanupGoes DEF Act

-----------------------------------------------------------------------------
(* What a step does to the team *)

\* Nobody gets a seat.
Takes ==
  /\ invite' \in [Email -> Slot] /\ member' \in [Email -> Slot]
  /\ \A e \in Email : invite'[e] \in {invite[e], "none"} /\ member'[e] \in {member[e], "none"}

LEMMA NothingTakes ==
  ASSUME IInv, UNCHANGED teamVars
  PROVE  Takes
BY DEF Takes, teamVars, IInv, Service

LEMMA DeleteTakes ==
  ASSUME IInv, NEW e \in Email, NEW ok, NEW missing, DeleteInvite(e, ok, missing)
  PROVE  Takes /\ (UNCHANGED faults \/ Fault) /\ (ok => invite'[e] = "none")
BY DEF DeleteInvite, Takes, IInv, Service, Slot

LEMMA RemoveTakes ==
  ASSUME IInv, NEW e \in Email, NEW ok, NEW missing, RemoveUser(e, ok, missing)
  PROVE  Takes /\ (UNCHANGED faults \/ Fault) /\ (ok \/ missing => member'[e] = "none")
BY DEF RemoveUser, Takes, IInv, Service, Slot

\* What every step does that gives no seat and says nothing.
Quiet(w) ==
  /\ Takes /\ UNCHANGED <<recorded, late>>
  /\ stirred' \in {stirred, stirred \ {w}}
  /\ UNCHANGED faults \/ Fault
  /\ steps' \in {steps, steps + 1} /\ steps' <= MaxSteps
  /\ gone' \in {gone, gone \ {w}, gone \union {w}}
  /\ cleaned' \in {cleaned, cleaned \ {w}, cleaned \union {w}}

\* The steps that may give one.
Gives(w) == SendInvite(w) \/ Patch(w) \/ Oauth(w)

LEMMA QuietKeeps ==
  ASSUME IInv, NEW w \in Worker, Quiet(w)
  PROVE  Service' /\ Counters'
<1>1. Service'
  BY DEF Quiet, Takes, IInv, Service
<1>2. Counters'
  BY DEF Quiet, IInv, Counters, Fault
<1>3. QED
  BY <1>1, <1>2

LEMMA BeginIsQuiet ==
  ASSUME IInv, NEW w \in Worker,
         BeginInvite(w) \/ BeginBatch(w) \/ BeginRevoke(w) \/ BeginCleanup(w) \/ BeginCapacity(w)
  PROVE  Quiet(w)
<1>1. PICK l, j : Begin(w, j, l)
  BY DEF BeginInvite, BeginBatch, BeginRevoke, BeginCleanup, BeginCapacity
<1>2. QED
  BY <1>1, NothingTakes DEF Begin, Quiet, Fresh, teamVars, IInv, Counters

LEMMA ListingIsQuiet ==
  ASSUME IInv, NEW w \in Worker,
         \/ ListInvites(w) \/ ListUsers(w) \/ NextMember(w) \/ FindInvite(w) \/ VerifyUsers(w)
         \/ VerifyInvites(w) \/ ListAll(w) \/ Decide(w) \/ Kill(w)
  PROVE  Quiet(w)
<1>1. UNCHANGED <<teamVars, recorded, late>>
  BY DEF ListInvites, ListUsers, NextMember, FindInvite, VerifyUsers, VerifyInvites, ListAll,
     Decide, Kill, teamVars, histVars
<1>2. stirred' \in {stirred, stirred \ {w}} /\ steps' = steps
  BY DEF ListInvites, ListUsers, NextMember, FindInvite, VerifyUsers, VerifyInvites, ListAll,
     Decide, Kill, histVars, Fresh
<1>3. UNCHANGED faults \/ Fault
  BY DEF ListInvites, ListUsers, NextMember, FindInvite, VerifyUsers, VerifyInvites, ListAll,
     Decide, Kill, Heard
<1>4. gone' \in {gone, gone \ {w}, gone \union {w}}
  BY DEF ListInvites, ListUsers, NextMember, FindInvite, VerifyUsers, VerifyInvites, ListAll,
     Decide, Kill, claimVars
<1>5. cleaned' \in {cleaned, cleaned \ {w}, cleaned \union {w}}
  BY DEF ListInvites, ListUsers, NextMember, FindInvite, VerifyUsers, VerifyInvites, ListAll,
     Decide, Kill, claimVars
<1>6. QED
  BY <1>1, <1>2, <1>3, <1>4, <1>5, NothingTakes DEF Quiet, IInv, Counters

LEMMA RemovingIsQuiet ==
  ASSUME IInv, NEW w \in Worker,
         \/ Sweep(w) \/ RemoveKnown(w) \/ FindUser(w) \/ Delete(w) \/ JoinedMeanwhile(w)
         \/ RepairUser(w) \/ RepairInvite(w) \/ Remove(w)
  PROVE  Quiet(w)
<1>1. job[w].who \in Email /\ \A x \in job[w].plan : x.who \in Email
  BY JobTyped DEF Job, Entry
<1>2. Takes /\ (UNCHANGED faults \/ Fault)
  <2>1. CASE Sweep(w)
    BY <1>1, <2>1, DeleteTakes, NothingTakes DEF Sweep
  <2>2. CASE RemoveKnown(w)
    BY <1>1, <2>2, RemoveTakes DEF RemoveKnown
  <2>3. CASE FindUser(w) \/ JoinedMeanwhile(w)
    BY <1>1, <2>3, RemoveTakes, NothingTakes DEF FindUser, JoinedMeanwhile, RemoveListed, NotListed,
       Heard, teamVars
  <2>4. CASE Delete(w)
    BY <1>1, <2>4, DeleteTakes DEF Delete
  <2>5. CASE RepairUser(w) \/ RepairInvite(w)
    BY <1>1, <2>5, RemoveTakes, DeleteTakes, NothingTakes DEF RepairUser, RepairInvite, teamVars
  <2>6. CASE Remove(w)
    BY <1>1, <2>6, RemoveTakes, DeleteTakes, NothingTakes DEF Remove, teamVars
  <2>7. QED
    BY <2>1, <2>2, <2>3, <2>4, <2>5, <2>6
<1>3. UNCHANGED <<recorded, late, steps, gone>> /\ stirred' \in {stirred, stirred \ {w}}
  BY DEF Sweep, RemoveKnown, FindUser, Delete, JoinedMeanwhile, RepairUser, RepairInvite, Remove,
     histVars, claimVars, Fresh
<1>4. cleaned' \in {cleaned, cleaned \union {w}}
  BY DEF Sweep, RemoveKnown, FindUser, Delete, JoinedMeanwhile, RepairUser, RepairInvite, Remove,
     claimVars
<1>5. QED
  BY <1>2, <1>3, <1>4 DEF Quiet, IInv, Counters

LEMMA QuietSteps ==
  ASSUME IInv, NEW w \in Worker, Act(w) \/ Kill(w)
  PROVE  Quiet(w) \/ Gives(w)
BY BeginIsQuiet, ListingIsQuiet, RemovingIsQuiet DEF Act, Gives

\* What a seat that is given, changed or taken up leaves true of the team.
LEMMA GivingIsSafe ==
  ASSUME IInv, NEW w \in Worker, Gives(w)
  PROVE  Service' /\ Counters'
<1> DEFINE e == job[w].who
<1>1. e \in Email /\ job[w].ask \in Seat
  BY JobTyped DEF Job
<1>2. UNCHANGED <<claimVars, steps>> /\ (UNCHANGED faults \/ Fault)
  BY DEF Gives, SendInvite, Patch, Oauth
<1>3. stirred' = stirred \/ Stir({w})
  BY DEF Gives, SendInvite, Patch, Oauth, histVars
<1>4. Counters'
  BY <1>2, <1>3 DEF Stir, Fault, claimVars, IInv, Counters
<1>5. CASE SendInvite(w)
  BY <1>1, <1>4, <1>5 DEF SendInvite, histVars, IInv, Service, Slot
<1>6. CASE Patch(w)
  BY <1>1, <1>4, <1>6 DEF Patch, ChangeSeat, IInv, Service, Slot, Seat
<1>7. CASE Oauth(w)
  <2>1. recorded' \subseteq Email /\ late' = late
    BY <1>1, <1>7 DEF Oauth, RecordMember, IInv, Service
  <2>2. Joined(e) \/ UNCHANGED teamVars
    BY <1>7 DEF Oauth, CompleteOauth, teamVars
  <2>3. QED
    BY <1>1, <1>4, <2>1, <2>2 DEF Joined, teamVars, IInv, Service, Slot
<1>8. QED
  BY <1>4, <1>5, <1>6, <1>7 DEF Gives

\* ... and what the others know of it.
LEMMA GivingStirs ==
  ASSUME IInv, NEW w \in Worker, Gives(w)
  PROVE  (Takes /\ UNCHANGED stirred) \/ Stir({w})
BY NothingTakes DEF Gives, SendInvite, Patch, Oauth, teamVars, histVars

\* A step changes nothing that another one has or has said.
LEMMA OthersStay ==
  ASSUME IInv, NEW w \in Worker, Act(w) \/ Kill(w), NEW v \in Worker \ {w}
  PROVE  /\ pc'[v] = pc[v] /\ job'[v] = job[v]
         /\ v \in gone' <=> v \in gone
         /\ v \in cleaned' <=> v \in cleaned
<1>1. pc'[v] = pc[v] /\ job'[v] = job[v]
  BY StepGoes, GotoMoves DEF Goes
<1>2. CASE Quiet(w)
  BY <1>1, <1>2 DEF Quiet
<1>3. CASE Gives(w)
  BY <1>1, <1>3 DEF Gives, SendInvite, Patch, Oauth, claimVars
<1>4. QED
  BY <1>2, <1>3, QuietSteps

-----------------------------------------------------------------------------
(* What the other steps know when one acts *)

LEMMA EntriesFade ==
  ASSUME IInv, Takes
  PROVE  /\ Entries(invite', member') \subseteq Entries(invite, member)
         /\ Entries(invite, member) \subseteq Entry
<1>1. ASSUME NEW x \in Entry
      PROVE  x.who \in Email /\ x.seat # "none"
  BY DEF Entry, Seat
<1>2. QED
  BY <1>1 DEF Entries, Takes

LEMMA CodexIsFinite ==
  ASSUME NEW f
  PROVE  IsFiniteSet(Codex(f)) /\ Cardinality(Codex(f)) \in Nat
<1>1. IsFiniteSet(Email) /\ Codex(f) \subseteq Email
  BY FS_Interval DEF Email, Codex
<1>2. QED
  BY <1>1, FS_Subset, FS_CardinalityType

LEMMA OccupiedFades ==
  ASSUME IInv, NEW f, NEW g, Codex(f) \subseteq Codex(invite), Codex(g) \subseteq Codex(member)
  PROVE  Occupied(f, g) <= Occupied(invite, member)
<1>1. /\ Cardinality(Codex(f)) <= Cardinality(Codex(invite))
      /\ Cardinality(Codex(g)) <= Cardinality(Codex(member))
  BY CodexIsFinite, FS_Subset
<1>2. QED
  BY <1>1, CodexIsFinite DEF Occupied

LEMMA RoomLasts ==
  ASSUME IInv, Takes, NEW p, NEW keep, NEW need \in Nat,
         RoomIn(Entries(invite, member) \ p, keep, need)
  PROVE  RoomIn(Entries(invite', member') \ p, keep, need)
BY EntriesFade, RoomInShrinks

LEMMA KnowsLasts ==
  ASSUME IInv, Takes, NEW l, NEW j \in Job, Knows(l, j)
  PROVE  Knows(l, j)'
<1>1. j.who \in Email /\ j.need \in Nat
  BY DEF Job
<1>2. \A e \in Email : invite'[e] \in {invite[e], "none"} /\ member'[e] \in {member[e], "none"}
  BY DEF Takes
<1>3. Occupied(invite, member) < Capacity => Occupied(invite', member') < Capacity
  <2>1. Codex(invite') \subseteq Codex(invite) /\ Codex(member') \subseteq Codex(member)
    BY <1>2 DEF Codex
  <2>2. Occupied(invite', member') <= Occupied(invite, member)
    BY <2>1, OccupiedFades
  <2>3. Occupied(invite', member') \in Nat /\ Occupied(invite, member) \in Nat
    BY CodexIsFinite DEF Occupied
  <2>4. QED
    BY <2>2, <2>3
<1>4. RoomIn(Entries(invite, member) \ j.plan, j.keep, j.need)
        => RoomIn(Entries(invite', member') \ j.plan, j.keep, j.need)
  BY <1>1, RoomLasts
<1>5. QED
  BY <1>1, <1>2, <1>3, <1>4 DEF Knows

\* A step that is not moved is right about the team while nobody gets a seat.
LEMMA StaysInformed ==
  ASSUME IInv, Takes, NEW v \in Worker, v \notin stirred,
         pc'[v] = pc[v], job'[v] = job[v],
         v \in gone' <=> v \in gone, v \in cleaned' <=> v \in cleaned
  PROVE  (Knows(pc[v], job[v]) /\ Says(v))'
<1> DEFINE l == pc[v]
           j == job[v]
<1>1. j \in Job /\ j.who \in Email /\ j.need \in Nat
  BY JobTyped DEF Job
<1>2. Knows(l, j) /\ Says(v)
  BY DEF IInv, Informed
<1>3. ASSUME NEW l1, NEW j1 \in Job, l1 = l, j1 = j
      PROVE  Knows(pc[v], job[v])'
  <2>1. Knows(l1, j1)'
    BY <1>2, <1>3, KnowsLasts
  <2>2. QED
    BY <1>3, <2>1 DEF Knows
<1>4. v \in gone' => invite'[j.who] = "none" /\ (j.heard => member'[j.who] = "none")
  BY <1>1, <1>2 DEF Says, Takes
<1>5. v \in cleaned' => RoomIn(Entries(invite', member'), j.keep, j.need)
  <2>1. v \in cleaned => RoomIn(Entries(invite, member) \ {}, j.keep, j.need)
    BY <1>2 DEF Says
  <2>2. v \in cleaned => RoomIn(Entries(invite', member') \ {}, j.keep, j.need)
    BY <1>1, <2>1, RoomLasts
  <2>3. QED
    BY <2>2
<1>6. Says(v)'
  BY <1>4, <1>5 DEF Says
<1>7. QED
  BY <1>1, <1>3, <1>6

\* A step that takes seats leaves the others right about what they said; one that gives
\* a seat counts as behind their listings.
LEMMA OthersInformed ==
  ASSUME IInv, NEW w \in Worker, Act(w) \/ Kill(w), NEW v \in Worker \ {w}, v \notin stirred'
  PROVE  (Knows(pc[v], job[v]) /\ Says(v))'
<1>1. /\ pc'[v] = pc[v] /\ job'[v] = job[v]
      /\ v \in gone' <=> v \in gone
      /\ v \in cleaned' <=> v \in cleaned
  BY OthersStay
<1>2. CASE Takes /\ v \notin stirred
  BY <1>1, <1>2, StaysInformed
<1>3. CASE Stir({w})
  <2>1. pc[v] = "idle" /\ v \notin gone /\ v \notin cleaned
    BY <1>3 DEF Stir
  <2>2. QED
    BY <1>1, <2>1 DEF Knows, Says
<1>4. QED
  BY <1>2, <1>3, QuietSteps, GivingStirs DEF Quiet

-----------------------------------------------------------------------------
(* The limit *)

Held == Codex(invite) \union Codex(member)

LEMMA FewerOvershoot ==
  ASSUME IInv, NEW S, S \subseteq Held \ late
  PROVE  Cardinality(S) <= Capacity
<1>1. IsFiniteSet(Held \ late)
  BY CodexIsFinite, FS_Union, FS_Subset DEF Held
<1>2. Cardinality(S) <= Cardinality(Held \ late) /\ Cardinality(Held \ late) \in Nat
  BY <1>1, FS_Subset, FS_CardinalityType
<1>3. IsFiniteSet(S) /\ Cardinality(S) \in Nat
  BY <1>1, FS_Subset, FS_CardinalityType
<1>4. QED
  BY <1>2, <1>3 DEF Held, IInv, OnlyLateOvershoots

\* A seat that is given within the limit does not go over it.
LEMMA OneMoreFits ==
  ASSUME IInv, Occupied(invite, member) < Capacity, NEW e, NEW S, S \subseteq Held \union {e}
  PROVE  Cardinality(S) <= Capacity
<1>1. IsFiniteSet(Held) /\ Cardinality(Held) <= Occupied(invite, member)
  <2>1. Cardinality(Codex(invite) \intersect Codex(member)) \in Nat
    BY CodexIsFinite, FS_Subset, FS_CardinalityType
  <2>2. /\ IsFiniteSet(Held)
        /\ Cardinality(Held) = Cardinality(Codex(invite)) + Cardinality(Codex(member))
                                 - Cardinality(Codex(invite) \intersect Codex(member))
    BY CodexIsFinite, FS_Union DEF Held
  <2>3. QED
    BY <2>1, <2>2, CodexIsFinite DEF Occupied
<1>2. Cardinality(Held) \in Nat /\ Occupied(invite, member) \in Nat
  BY <1>1, CodexIsFinite, FS_CardinalityType DEF Occupied
<1>3. IsFiniteSet(Held \union {e}) /\ Cardinality(Held \union {e}) <= Cardinality(Held) + 1
  <2> DEFINE H == Held
  <2>1. IsFiniteSet(H) /\ Cardinality(H) \in Nat
    BY <1>1, <1>2
  <2> HIDE DEF H
  <2>2. IsFiniteSet(H \union {e}) /\ Cardinality(H \union {e}) <= Cardinality(H) + 1
    BY <2>1, FS_AddElement
  <2>3. QED
    BY <2>2 DEF H
<1>4. /\ Cardinality(S) <= Cardinality(Held \union {e})
      /\ Cardinality(S) \in Nat /\ Cardinality(Held \union {e}) \in Nat
  BY <1>3, FS_Subset, FS_CardinalityType
<1>5. QED
  BY <1>1, <1>2, <1>3, <1>4

LEMMA JoiningHolds ==
  ASSUME IInv, NEW e \in Email, Joined(e)
  PROVE  Held' = Held
BY DEF Held, Joined, Codex, IInv, Service

LEMMA LimitKept ==
  ASSUME IInv, NEW w \in Worker, Act(w) \/ Kill(w)
  PROVE  OnlyLateOvershoots'
<1> DEFINE e == job[w].who
<1>1. e \in Email
  BY JobTyped DEF Job
<1>2. ASSUME Held' \ late' \subseteq Held \ late
      PROVE  OnlyLateOvershoots'
  BY <1>2, FewerOvershoot DEF Held, OnlyLateOvershoots
<1>3. CASE Quiet(w)
  <2>1. Held' \subseteq Held /\ late' = late
    BY <1>3 DEF Quiet, Takes, Held, Codex
  <2>2. QED
    BY <1>2, <2>1
<1>4. CASE SendInvite(w)
  <2>1. CASE UNCHANGED <<invite, member, late>>
    BY <1>2, <2>1 DEF Held, Codex
  <2>2. CASE job[w].heard /\ w \notin stirred /\ invite' \in [Email -> Slot] /\ member' = member
             /\ \A x \in Email \ {e} : invite'[x] = invite[x]
    <3>1. pc[w] = "send"
      BY <1>4 DEF SendInvite
    <3>2. Occupied(invite, member) < Capacity
      BY <2>2, <3>1 DEF IInv, Informed, Knows
    <3>3. Held' \ late' \subseteq Held \union {e}
      BY <2>2 DEF Held, Codex
    <3>4. QED
      BY <3>2, <3>3, OneMoreFits DEF Held, OnlyLateOvershoots
  <2>3. CASE late' = late \union {e} /\ member' = member
             /\ \A x \in Email \ {e} : invite'[x] = invite[x]
    <3>1. Held' \ late' \subseteq Held \ late
      BY <2>3 DEF Held, Codex
    <3>2. QED
      BY <1>2, <3>1
  <2>4. invite' \in [Email -> Slot] /\ member' = member
    BY <1>4, GivingIsSafe DEF Gives, SendInvite, Service
  <2>5. CASE UNCHANGED <<invite, late>>
    BY <2>1, <2>4, <2>5
  <2>6. CASE /\ \A x \in Email \ {e} : invite'[x] = invite[x]
             /\ late' = IF job[w].heard /\ w \notin stirred THEN late \ {e} ELSE late \union {e}
    BY <2>2, <2>3, <2>4, <2>6
  <2>7. QED
    BY <1>1, <1>4, <2>5, <2>6 DEF SendInvite, histVars, IInv, Service
<1>5. CASE Patch(w)
  <2>1. late' = late /\ member' = member
    BY <1>5 DEF Patch
  <2>2. Codex(invite') \subseteq Codex(invite)
    BY <1>1, <1>5 DEF Patch, ChangeSeat, Codex, IInv, Service
  <2>3. QED
    BY <1>2, <2>1, <2>2 DEF Held, Codex
<1>6. CASE Oauth(w)
  <2>1. late' = late /\ (Joined(e) \/ UNCHANGED teamVars)
    BY <1>6 DEF Oauth, CompleteOauth, teamVars
  <2>2. Held' = Held
    BY <1>1, <2>1, JoiningHolds DEF teamVars, Held, Codex
  <2>3. QED
    BY <1>2, <2>1, <2>2
<1>7. QED
  BY <1>3, <1>4, <1>5, <1>6, QuietSteps DEF Gives

-----------------------------------------------------------------------------
(* What a step knows of the team after its own action *)

\* What the invariant says of step w.
Own(w) ==
  /\ w \in gone => pc[w] \in {"idle", "next"}
  /\ w \in cleaned => pc[w] = "idle"
  /\ w \notin stirred => Knows(pc[w], job[w]) /\ Says(w)

Knowing == {"find_invite", "verify_invites", "list_users", "send", "decide", "remove"}

LEMMA NothingSaid ==
  ASSUME IInv, NEW w \in Worker, NEW l, l \notin Knowing, NEW j, Goto(w, l, j),
         w \notin gone', w \notin cleaned'
  PROVE  Own(w)'
<1>1. pc'[w] \notin Knowing
  BY GotoMoves
<1>2. QED
  BY <1>1 DEF Own, Knows, Says, Knowing

LEMMA AtWork ==
  ASSUME IInv, NEW w \in Worker, pc[w] # "idle"
  PROVE  w \notin cleaned /\ (pc[w] # "next" => w \notin gone)
BY DEF IInv, Ended

LEMMA BeginOwn ==
  ASSUME IInv, NEW w \in Worker,
         BeginInvite(w) \/ BeginBatch(w) \/ BeginRevoke(w) \/ BeginCleanup(w) \/ BeginCapacity(w)
  PROVE  Own(w)'
<1>1. ASSUME NEW j, NEW l, l \in {"list_invites", "next", "remove_known", "find_user", "list_all"},
             Begin(w, j, l)
      PROVE  Own(w)'
  BY <1>1, NothingSaid DEF Begin, Knowing
<1>2. QED
  BY <1>1 DEF BeginInvite, BeginBatch, BeginRevoke, BeginCleanup, BeginCapacity

LEMMA InvitedOwn ==
  ASSUME IInv, NEW w \in Worker, NEW j, NEW ok, NEW blunt, Invited(w, j, ok, blunt),
         w \notin gone', w \notin cleaned'
  PROVE  Own(w)'
<1>1. PICK l, k : Goto(w, l, k) /\ l \notin Knowing
  BY DEF Invited, Then, Knowing
<1>2. QED
  BY <1>1, NothingSaid

LEMMA InviteOwn ==
  ASSUME IInv, NEW w \in Worker, ListInvites(w) \/ Sweep(w) \/ ListUsers(w) \/ SendInvite(w)
  PROVE  Own(w)'
<1> DEFINE j == job[w]
<1>1. w \notin gone' /\ w \notin cleaned'
  BY AtWork DEF ListInvites, Sweep, ListUsers, SendInvite, claimVars
<1>2. j \in Job
  BY JobTyped
<1>3. CASE ListInvites(w)
  <2>1. CASE \E k : Invited(w, k, TRUE, FALSE)
    BY <1>1, <2>1, InvitedOwn
  <2>2. CASE \E plan : Goto(w, "sweep", [j EXCEPT !.plan = plan])
    BY <1>1, <2>2, NothingSaid DEF Knowing
  <2>3. ASSUME NEW ok \in BOOLEAN,
               Goto(w, "list_users", [j EXCEPT !.invites = IF ok THEN invite ELSE Nobody, !.heard = ok])
        PROVE  Own(w)'
    <3>1. /\ pc'[w] = "list_users"
          /\ job'[w] = [j EXCEPT !.invites = IF ok THEN invite ELSE Nobody, !.heard = ok]
      BY <2>3, GotoMoves
    <3>2. job'[w].heard = ok /\ (ok => job'[w].invites = invite)
      BY <1>2, <3>1 DEF Job
    <3>3. invite' = invite
      BY <1>3 DEF ListInvites, teamVars
    <3>4. Knows(pc[w], job[w])'
      BY <3>1, <3>2, <3>3 DEF Knows
    <3>5. QED
      BY <1>1, <3>4 DEF Own, Says
  <2>4. QED
    BY <1>3, <2>1, <2>2, <2>3 DEF ListInvites
<1>4. CASE Sweep(w)
  BY <1>1, <1>4, NothingSaid DEF Sweep, Knowing
<1>5. CASE ListUsers(w)
  <2>1. PICK ok \in BOOLEAN :
          \/ \E k, o : Invited(w, k, o, FALSE)
          \/ /\ ok /\ j.heard => ~Full(j.invites, member)
             /\ Goto(w, "send", [Forget(j) EXCEPT !.heard = ok /\ j.heard])
    BY <1>5 DEF ListUsers
  <2>2. CASE \E k, o : Invited(w, k, o, FALSE)
    BY <1>1, <2>2, InvitedOwn
  <2>3. CASE /\ ok /\ j.heard => ~Full(j.invites, member)
             /\ Goto(w, "send", [Forget(j) EXCEPT !.heard = ok /\ j.heard])
    <3>1. pc'[w] = "send" /\ job'[w] = [Forget(j) EXCEPT !.heard = ok /\ j.heard]
      BY <2>3, GotoMoves
    <3>2. job'[w].heard = (ok /\ j.heard)
      BY <1>2, <3>1, JobParts DEF Job
    <3>3. pc[w] = "list_users" /\ invite' = invite /\ member' = member /\ stirred' = stirred
      BY <1>5 DEF ListUsers, teamVars, histVars
    <3>4. ASSUME w \notin stirred, ok, j.heard
          PROVE  Occupied(invite, member) < Capacity
      <4>1. Codex(invite) \subseteq Codex(j.invites)
        BY <3>3, <3>4 DEF IInv, Informed, Knows, Codex
      <4>2. Cardinality(Codex(invite)) <= Cardinality(Codex(j.invites))
        BY <4>1, CodexIsFinite, FS_Subset
      <4>3. Occupied(j.invites, member) < Capacity
        BY <2>3, <3>4, CodexIsFinite DEF Full, Occupied
      <4>4. QED
        BY <4>2, <4>3, CodexIsFinite DEF Occupied
    <3>5. w \notin stirred' => Knows(pc[w], job[w])'
      <4>1. Occupied(invite', member') = Occupied(invite, member)
        BY <3>3
      <4>2. QED
        BY <3>1, <3>2, <3>3, <3>4, <4>1 DEF Knows
    <3>6. QED
      BY <1>1, <3>5 DEF Own, Says
  <2>4. QED
    BY <2>1, <2>2, <2>3
<1>6. CASE SendInvite(w)
  BY <1>1, <1>6, InvitedOwn DEF SendInvite
<1>7. QED
  BY <1>3, <1>4, <1>5, <1>6

LEMMA BatchOwn ==
  ASSUME IInv, NEW w \in Worker, NextMember(w) \/ Patch(w) \/ Oauth(w) \/ Kill(w)
  PROVE  Own(w)'
<1> DEFINE j == job[w]
<1>1. w \notin cleaned' /\ (pc[w] # "next" => w \notin gone')
  BY AtWork DEF NextMember, Patch, Oauth, Kill, claimVars
<1>2. ASSUME NEW k, RollBack(w, k), w \notin gone'
      PROVE  Own(w)'
  <2>1. PICK l : Goto(w, l, k) /\ l \notin Knowing
    BY <1>2 DEF RollBack, Knowing
  <2>2. QED
    BY <1>1, <1>2, <2>1, NothingSaid
<1>3. CASE NextMember(w)
  <2>1. CASE Goto(w, "idle", j) /\ UNCHANGED gone
    <3>1. pc'[w] = "idle" /\ job'[w] = Answer(j)
      BY <2>1, GotoMoves
    <3>2. job'[w].who = j.who /\ job'[w].heard = j.heard
      BY <3>1, SaidOf
    <3>3. UNCHANGED <<invite, member, stirred, gone>>
      BY <1>3, <2>1 DEF NextMember, teamVars, histVars
    <3>4. w \notin stirred => Says(w)
      BY DEF IInv, Informed
    <3>5. QED
      BY <1>1, <3>1, <3>2, <3>3, <3>4 DEF Own, Knows, Says
  <2>2. CASE gone' = gone \ {w} /\ \E k : Goto(w, "list_invites", k)
    BY <1>1, <2>2, NothingSaid DEF Knowing
  <2>3. QED
    BY <1>3, <2>1, <2>2 DEF NextMember
<1>4. CASE Patch(w)
  BY <1>1, <1>2, <1>4, NothingSaid DEF Patch, Knowing
<1>5. CASE Oauth(w)
  BY <1>1, <1>2, <1>5, NothingSaid DEF Oauth, Knowing
<1>6. CASE Kill(w)
  BY <1>1, <1>6, NothingSaid DEF Kill, Knowing
<1>7. QED
  BY <1>3, <1>4, <1>5, <1>6

\* Not found: the users were listed without the address, and so are the invites.
LEMMA RevokeOwn ==
  ASSUME IInv, NEW w \in Worker,
         RemoveKnown(w) \/ FindUser(w) \/ FindInvite(w) \/ Delete(w) \/ JoinedMeanwhile(w)
  PROVE  Own(w)'
<1> DEFINE j == job[w]
<1>1. w \notin cleaned' /\ w \notin gone
  BY AtWork DEF RemoveKnown, FindUser, FindInvite, Delete, JoinedMeanwhile, claimVars
<1>2. j \in Job
  BY JobTyped
<1>3. ASSUME NEW k, NEW l, l \in {"find_user", "delete", "joined", "verify_users", "next", "idle"},
             Goto(w, l, k), w \notin gone'
      PROVE  Own(w)'
  BY <1>1, <1>3, NothingSaid DEF Knowing
<1>4. Then(j) \in {"next", "idle"}
  BY DEF Then
<1>5. ASSUME NEW ok, Removed(w, ok), w \notin gone'
      PROVE  Own(w)'
  BY <1>3, <1>4, <1>5 DEF Removed
<1>6. CASE RemoveKnown(w)
  BY <1>1, <1>3, <1>6 DEF RemoveKnown, claimVars
<1>7. CASE FindUser(w)
  <2>1. w \notin gone'
    BY <1>1, <1>7 DEF FindUser, claimVars
  <2>2. CASE RemoveListed(w)
    BY <1>5, <2>1, <2>2 DEF RemoveListed
  <2>3. CASE \E k : Goto(w, "delete", k)
    BY <1>3, <2>1, <2>3
  <2>4. ASSUME NEW ok \in BOOLEAN, NotListed(ok, j.who), Goto(w, "find_invite", [j EXCEPT !.heard = ok])
        PROVE  Own(w)'
    <3>1. pc'[w] = "find_invite" /\ job'[w] = [j EXCEPT !.heard = ok]
      BY <2>4, GotoMoves
    <3>2. job'[w].heard = ok /\ job'[w].who = j.who
      BY <1>2, <3>1 DEF Job
    <3>3. ok => member'[j.who] = "none"
      BY <2>4 DEF NotListed
    <3>4. Knows(pc[w], job[w])'
      BY <3>1, <3>2, <3>3 DEF Knows
    <3>5. QED
      BY <1>1, <2>1, <3>4 DEF Own, Says
  <2>5. QED
    BY <1>7, <2>2, <2>3, <2>4 DEF FindUser
<1>8. CASE FindInvite(w)
  <2>1. PICK ok \in BOOLEAN :
          IF ok /\ invite[j.who] # "none"
            THEN Goto(w, "delete", j) /\ UNCHANGED gone
            ELSE /\ Goto(w, Then(j), [Restart(j) EXCEPT !.heard = ok => j.heard])
                 /\ gone' = IF ok THEN gone \union {w} ELSE gone
    BY <1>8 DEF FindInvite
  <2>2. CASE ok /\ invite[j.who] # "none"
    BY <1>1, <1>3, <2>1, <2>2
  <2>3. CASE ~(ok /\ invite[j.who] # "none")
    <3> DEFINE k == [Restart(j) EXCEPT !.heard = ok => j.heard]
    <3>1. pc'[w] = Then(j) /\ job'[w] \in {Answer(k), Done(k)}
      BY <1>4, <2>1, <2>3, GotoMoves
    <3>2. job'[w].who = j.who /\ job'[w].heard = (ok => j.heard)
      <4>1. k.who = j.who /\ k.heard = (ok => j.heard)
        BY <1>2 DEF Restart, Job
      <4> HIDE DEF k
      <4>2. QED
        BY <3>1, <4>1, SaidOf
    <3>3. UNCHANGED <<invite, member, stirred>> /\ pc[w] = "find_invite"
      BY <1>8 DEF FindInvite, teamVars, histVars
    <3>4. w \in gone' => ok
      BY <1>1, <2>1, <2>3
    <3>5. w \notin stirred /\ w \in gone'
            => invite[j.who] = "none" /\ (job'[w].heard => member[j.who] = "none")
      BY <2>3, <3>2, <3>3, <3>4 DEF IInv, Informed, Knows
    <3>6. QED
      BY <1>1, <1>4, <3>1, <3>2, <3>3, <3>5 DEF Own, Knows, Says
  <2>4. QED
    BY <2>2, <2>3
<1>9. CASE Delete(w)
  BY <1>1, <1>3, <1>5, <1>9 DEF Delete, claimVars
<1>10. CASE JoinedMeanwhile(w)
  BY <1>1, <1>3, <1>4, <1>5, <1>10 DEF JoinedMeanwhile, RemoveListed, claimVars
<1>11. QED
  BY <1>6, <1>7, <1>8, <1>9, <1>10

\* Verified absent: the same, of the lists of a verification.
LEMMA VerifyOwn ==
  ASSUME IInv, NEW w \in Worker, VerifyUsers(w) \/ VerifyInvites(w) \/ RepairUser(w) \/ RepairInvite(w)
  PROVE  Own(w)'
<1> DEFINE j == job[w]
<1>1. w \notin cleaned' /\ w \notin gone
  BY AtWork DEF VerifyUsers, VerifyInvites, RepairUser, RepairInvite, claimVars
<1>2. j \in Job
  BY JobTyped
<1>3. Then(j) \in {"next", "idle"}
  BY DEF Then
<1>4. CASE VerifyUsers(w)
  <2>1. PICK ok \in BOOLEAN :
          Goto(w, "verify_invites", [j EXCEPT !.users = IF ok THEN member ELSE Nobody, !.heard = ok])
    BY <1>4 DEF VerifyUsers
  <2>2. /\ pc'[w] = "verify_invites"
        /\ job'[w] = [j EXCEPT !.users = IF ok THEN member ELSE Nobody, !.heard = ok]
    BY <2>1, GotoMoves
  <2>3. job'[w].heard = ok /\ job'[w].who = j.who /\ (ok => job'[w].users = member)
    BY <1>2, <2>2 DEF Job
  <2>4. member' = member /\ gone' = gone
    BY <1>4 DEF VerifyUsers, teamVars, claimVars
  <2>5. Knows(pc[w], job[w])'
    BY <2>2, <2>3, <2>4 DEF Knows
  <2>6. QED
    BY <1>1, <2>4, <2>5 DEF Own, Says
<1>5. CASE VerifyInvites(w)
  <2>1. CASE UNCHANGED gone /\ \E k : Goto(w, "repair_user", k)
    BY <1>1, <2>1, NothingSaid DEF Knowing
  <2>2. CASE j.heard /\ j.users[j.who] = "none" /\ invite[j.who] = "none"
             /\ Goto(w, Then(j), Restart(Forget(j)))
    <3>1. pc'[w] = Then(j) /\ job'[w] \in {Answer(Restart(Forget(j))), Done(Restart(Forget(j)))}
      BY <1>3, <2>2, GotoMoves
    <3>2. job'[w].who = j.who
      <4>1. Forget(j) \in Job /\ Forget(j).who = j.who
        BY <1>2, JobParts DEF Forget, Job
      <4> DEFINE k == Forget(j)
      <4> HIDE DEF k
      <4>2. job'[w] \in {Answer(Restart(k)), Done(Restart(k))} => job'[w].who = k.who
        BY <4>1 DEF k, Answer, Done, Restart, NoJob, Job
      <4>3. QED
        BY <3>1, <4>1, <4>2 DEF k
    <3>3. UNCHANGED <<invite, member, stirred>> /\ pc[w] = "verify_invites"
      BY <1>5 DEF VerifyInvites, teamVars, histVars
    <3>4. w \notin stirred => invite[j.who] = "none" /\ member[j.who] = "none"
      BY <2>2, <3>3 DEF IInv, Informed, Knows
    <3>5. QED
      BY <1>1, <1>3, <3>1, <3>2, <3>3, <3>4 DEF Own, Knows, Says
  <2>3. QED
    BY <1>5, <2>1, <2>2 DEF VerifyInvites, Absent
<1>6. CASE RepairUser(w)
  BY <1>1, <1>6, NothingSaid DEF RepairUser, claimVars, Knowing
<1>7. CASE RepairInvite(w)
  <2>1. PICK l, k : Goto(w, l, k) /\ l \in {"verify_users", "next", "idle"}
    BY <1>3, <1>7 DEF RepairInvite
  <2>2. QED
    BY <1>1, <1>7, <2>1, NothingSaid DEF RepairInvite, claimVars, Knowing
<1>8. QED
  BY <1>4, <1>5, <1>6, <1>7

\* The seats a cleanup has seen are all there are, so its plan makes room.
LEMMA DecisionMakesRoom ==
  ASSUME IInv, NEW j \in Job, NEW S, S = Entries(j.invites, member), NEW plan,
         \A e \in Email : invite[e] \in {"none", j.invites[e]},
         plan = IF S = {} THEN {} ELSE IF Available(S, j.need) THEN {} ELSE Plan(S, j.keep, j.need)
  PROVE  RoomIn(Entries(invite, member) \ plan, j.keep, j.need)
<1>1. S \in SUBSET Entry /\ j.need \in Nat
  BY DEF Entries, Job
<1>2. Entries(invite, member) \subseteq S
  <2>1. ASSUME NEW x \in Entry
        PROVE  x.who \in Email /\ x.seat # "none"
    BY DEF Entry, Seat
  <2>2. QED
    BY <2>1 DEF Entries
<1>3. RoomIn(S \ plan, j.keep, j.need)
  <2>1. CASE S = {}
    BY <2>1 DEF RoomIn, KeptIn, Chatgpt
  <2>2. CASE S # {} /\ Available(S, j.need)
    <3>1. S \ plan = S
      BY <2>2
    <3>2. RoomIn(S, j.keep, j.need)
      BY <2>2, AvailableIsRoom
    <3>3. QED
      BY <3>1, <3>2
  <2>3. CASE S # {} /\ ~Available(S, j.need)
    BY <1>1, <2>3, PlanMakesRoom
  <2>4. QED
    BY <2>1, <2>2, <2>3
<1>4. Entries(invite, member) \ plan \subseteq S \ plan /\ S \ plan \in SUBSET Entry
  BY <1>1, <1>2
<1>5. QED
  BY <1>1, <1>3, <1>4, RoomInShrinks

\* What is removed is not there any more.
LEMMA RemovedIsOut ==
  ASSUME IInv, NEW x \in Entry, NEW ok, NEW missing, Takes,
         x.kind = "invite" /\ ok => invite'[x.who] = "none",
         x.kind = "user" /\ (ok \/ missing) => member'[x.who] = "none",
         ok \/ (missing /\ x.kind = "user")
  PROVE  x \notin Entries(invite', member')
BY DEF Entry, Entries, Seat

LEMMA CleanupOwn ==
  ASSUME IInv, NEW w \in Worker, ListAll(w) \/ Decide(w) \/ Remove(w)
  PROVE  Own(w)'
<1> DEFINE j == job[w]
<1>1. w \notin gone' /\ w \notin cleaned
  BY AtWork DEF ListAll, Decide, Remove, claimVars
<1>2. j \in Job
  BY JobTyped
<1>3. CASE ListAll(w)
  <2>1. PICK ok \in BOOLEAN :
          Goto(w, "decide", [j EXCEPT !.invites = IF ok THEN invite ELSE Nobody, !.heard = ok])
    BY <1>3 DEF ListAll
  <2>2. /\ pc'[w] = "decide"
        /\ job'[w] = [j EXCEPT !.invites = IF ok THEN invite ELSE Nobody, !.heard = ok]
    BY <2>1, GotoMoves
  <2>3. job'[w].heard = ok /\ (ok => job'[w].invites = invite)
    BY <1>2, <2>2 DEF Job
  <2>4. invite' = invite /\ cleaned' = cleaned
    BY <1>3 DEF ListAll, teamVars, claimVars
  <2>5. Knows(pc[w], job[w])'
    BY <2>2, <2>3, <2>4 DEF Knows
  <2>6. QED
    BY <1>1, <2>4, <2>5 DEF Own, Says
<1>4. CASE Decide(w)
  <2>1. UNCHANGED <<invite, member, stirred, cleaned>> /\ pc[w] = "decide"
    BY <1>4 DEF Decide, teamVars, claimVars, histVars
  <2>2. PICK ok \in BOOLEAN :
          LET S == Entries(j.invites, IF ok THEN member ELSE Nobody)
              plan == IF j.op = "capacity" THEN CapacityPlan(S)
                      ELSE IF Available(S, j.need) THEN {} ELSE Plan(S, j.keep, j.need)
              lists == IF j.op = "cleanup" THEN j.heard /\ ok ELSE j.heard \/ ok
          IN IF lists THEN Goto(w, "remove", [Forget(j) EXCEPT !.plan = IF S = {} THEN {} ELSE plan])
                      ELSE Goto(w, "idle", Restart(j))
    BY <1>4 DEF Decide
  <2> DEFINE S == Entries(j.invites, IF ok THEN member ELSE Nobody)
             plan == IF j.op = "capacity" THEN CapacityPlan(S)
                     ELSE IF Available(S, j.need) THEN {} ELSE Plan(S, j.keep, j.need)
             p == IF S = {} THEN {} ELSE plan
  <2>3. CASE Goto(w, "idle", Restart(j))
    BY <1>1, <2>1, <2>3, NothingSaid DEF Knowing
  <2>4. CASE /\ Goto(w, "remove", [Forget(j) EXCEPT !.plan = p])
             /\ j.op = "cleanup" => j.heard /\ ok
    <3>1. pc'[w] = "remove" /\ job'[w] = [Forget(j) EXCEPT !.plan = p]
      BY <2>4, GotoMoves
    <3>2. /\ job'[w].op = j.op /\ job'[w].keep = j.keep /\ job'[w].need = j.need
          /\ job'[w].plan = p
      <4> HIDE DEF p
      <4>1. QED
        BY <1>2, <3>1 DEF Forget, Job
    <3>3. ASSUME w \notin stirred, j.op = "cleanup"
          PROVE  RoomIn(Entries(invite, member) \ p, j.keep, j.need)
      <4>1. \A e \in Email : invite[e] \in {"none", j.invites[e]}
        BY <2>1, <2>4, <3>3 DEF IInv, Informed, Knows
      <4>2. S = Entries(j.invites, member)
        BY <2>4, <3>3
      <4>3. p = IF S = {} THEN {} ELSE IF Available(S, j.need) THEN {} ELSE Plan(S, j.keep, j.need)
        BY <3>3
      <4> HIDE DEF p, S
      <4>4. QED
        BY <1>2, <4>1, <4>2, <4>3, DecisionMakesRoom
    <3>4. w \notin stirred' => Knows(pc[w], job[w])'
      <4> HIDE DEF p
      <4>1. QED
        BY <2>1, <3>1, <3>2, <3>3 DEF Knows
    <3>5. QED
      BY <1>1, <2>1, <3>4 DEF Own, Says
  <2>5. QED
    BY <2>2, <2>3, <2>4
<1>5. CASE Remove(w)
  <2>1. pc[w] = "remove" /\ stirred' = stirred
    BY <1>5 DEF Remove, histVars
  <2>2. w \notin stirred /\ j.op = "cleanup" /\ j.ok
          => RoomIn(Entries(invite, member) \ j.plan, j.keep, j.need)
    BY <2>1 DEF IInv, Informed, Knows
  <2>3. CASE /\ j.plan = {} /\ Goto(w, "idle", j)
             /\ cleaned' = IF j.op = "cleanup" /\ j.ok THEN cleaned \union {w} ELSE cleaned
             /\ UNCHANGED <<invite, member>>
    <3>1. pc'[w] = "idle" /\ job'[w] = Answer(j)
      BY <2>3, GotoMoves
    <3>2. job'[w].keep = j.keep /\ job'[w].need = j.need
      BY <3>1 DEF Answer, NoJob
    <3>3. Entries(invite, member) \ j.plan = Entries(invite, member)
      BY <2>3
    <3>4. w \notin stirred /\ w \in cleaned' => RoomIn(Entries(invite', member'), j.keep, j.need)
      BY <1>1, <2>2, <2>3, <3>3
    <3>5. Knows(pc[w], job[w])'
      BY <3>1 DEF Knows
    <3>6. QED
      BY <1>1, <2>1, <3>1, <3>2, <3>4, <3>5 DEF Own, Says
  <2>4. ASSUME NEW x \in j.plan, NEW ok \in BOOLEAN, NEW missing \in BOOLEAN,
               IF x.kind = "invite" THEN DeleteInvite(x.who, ok, missing)
                                    ELSE RemoveUser(x.who, ok, missing),
               Goto(w, "remove", [j EXCEPT !.plan = @ \ {x},
                                           !.ok = Succeeds(j, ok, missing /\ x.kind = "user")]),
               UNCHANGED cleaned
        PROVE  Own(w)'
    <3>1. x \in Entry /\ x.who \in Email /\ j.need \in Nat
      BY <1>2 DEF Job, Entry
    <3>2. /\ Takes
          /\ x.kind = "invite" /\ ok => invite'[x.who] = "none"
          /\ x.kind = "user" /\ (ok \/ missing) => member'[x.who] = "none"
      BY <2>4, <3>1, DeleteTakes, RemoveTakes
    <3>3. /\ pc'[w] = "remove"
          /\ job'[w] = [j EXCEPT !.plan = @ \ {x},
                                 !.ok = Succeeds(j, ok, missing /\ x.kind = "user")]
      BY <2>4, GotoMoves
    <3>4. /\ job'[w].op = j.op /\ job'[w].keep = j.keep /\ job'[w].need = j.need
          /\ job'[w].plan = j.plan \ {x}
          /\ job'[w].ok = Succeeds(j, ok, missing /\ x.kind = "user")
      BY <1>2, <3>3 DEF Job
    <3>5. ASSUME w \notin stirred, j.op = "cleanup", job'[w].ok
          PROVE  RoomIn(Entries(invite', member') \ (j.plan \ {x}), j.keep, j.need)
      <4>1. j.ok /\ (ok \/ (missing /\ x.kind = "user"))
        BY <3>4, <3>5 DEF Succeeds
      <4>2. x \notin Entries(invite', member')
        BY <3>1, <3>2, <4>1, RemovedIsOut
      <4>3. RoomIn(Entries(invite', member') \ j.plan, j.keep, j.need)
        BY <2>2, <3>1, <3>2, <3>5, <4>1, RoomLasts
      <4>4. Entries(invite', member') \ (j.plan \ {x}) = Entries(invite', member') \ j.plan
        BY <4>2
      <4>5. QED
        BY <4>3, <4>4
    <3>6. w \notin stirred' => Knows(pc[w], job[w])'
      BY <2>1, <3>3, <3>4, <3>5 DEF Knows
    <3>7. QED
      BY <1>1, <2>4, <3>6 DEF Own, Says
  <2>5. QED
    BY <1>5, <2>3, <2>4 DEF Remove
<1>6. QED
  BY <1>3, <1>4, <1>5

LEMMA StepOwn ==
  ASSUME IInv, NEW w \in Worker, Act(w) \/ Kill(w)
  PROVE  Own(w)'
BY BeginOwn, InviteOwn, BatchOwn, RevokeOwn, VerifyOwn, CleanupOwn DEF Act

-----------------------------------------------------------------------------
(* The invariant *)

LEMMA InitEstablishes == Init => IInv
<1> SUFFICES ASSUME Init PROVE IInv
  OBVIOUS
<1>1. PICK t \in Teams : invite = t.invite /\ member = t.member
  BY DEF Init
<1>2. /\ invite \in [Email -> Slot] /\ member \in [Email -> Slot]
      /\ Occupied(invite, member) <= Capacity
  BY <1>1
<1>3. Service
  BY <1>1, <1>2 DEF Init, Service
<1>4. Counters
  BY DEF Init, Counters
<1>5. Jobs
  <2>1. 1 \in Email /\ 0 \in 0 .. Target /\ 0 \in 0 .. Tries
    BY DEF Email
  <2>2. Nobody \in [Email -> Slot]
    BY DEF Nobody, Slot
  <2>3. NoJob \in Job
    BY <2>1, <2>2 DEF NoJob, Job, Step, Seat
  <2>4. QED
    BY <2>3 DEF Init, Jobs, Label
<1>6. Ended
  BY DEF Init, Ended
<1>7. Informed
  BY DEF Init, Informed, Knows, Says
<1>8. OnlyLateOvershoots
  <2> DEFINE H == Codex(invite) \union Codex(member)
  <2>1. /\ IsFiniteSet(H)
        /\ Cardinality(H) = Cardinality(Codex(invite)) + Cardinality(Codex(member))
                              - Cardinality(Codex(invite) \intersect Codex(member))
    BY CodexIsFinite, FS_Union
  <2>2. Cardinality(Codex(invite) \intersect Codex(member)) \in Nat
    BY CodexIsFinite, FS_Subset, FS_CardinalityType
  <2>3. Cardinality(H) <= Capacity
    BY <1>2, <2>1, <2>2, CodexIsFinite DEF Occupied
  <2>4. H \ late = H
    BY DEF Init
  <2>5. QED
    BY <2>3, <2>4 DEF OnlyLateOvershoots
<1>9. QED
  BY <1>3, <1>4, <1>5, <1>6, <1>7, <1>8 DEF IInv

LEMMA ActKeeps ==
  ASSUME IInv, NEW w \in Worker, Act(w) \/ Kill(w)
  PROVE  IInv'
<1>1. Service' /\ Counters'
  BY QuietSteps, QuietKeeps, GivingIsSafe
<1>2. Jobs'
  BY StepGoes, GoesKeeps
<1>3. Ended'
  <2>1. ASSUME NEW v \in Worker
        PROVE  (v \in gone' => pc'[v] \in {"idle", "next"}) /\ (v \in cleaned' => pc'[v] = "idle")
    <3>1. CASE v = w
      BY <3>1, StepOwn DEF Own
    <3>2. CASE v # w
      BY <3>2, OthersStay DEF IInv, Ended
    <3>3. QED
      BY <3>1, <3>2
  <2>2. QED
    BY <1>1, <2>1 DEF Counters, Ended
<1>4. Informed'
  <2>1. ASSUME NEW v \in Worker, v \notin stirred'
        PROVE  (Knows(pc[v], job[v]) /\ Says(v))'
    <3>1. CASE v = w
      BY <2>1, <3>1, StepOwn DEF Own
    <3>2. CASE v # w
      BY <2>1, <3>2, OthersInformed
    <3>3. QED
      BY <3>1, <3>2
  <2>2. QED
    BY <2>1 DEF Informed
<1>5. OnlyLateOvershoots'
  BY LimitKept
<1>6. QED
  BY <1>1, <1>2, <1>3, <1>4, <1>5 DEF IInv

\* An invited person who joins leaves behind every step that has listed the team.
LEMMA AcceptKeeps ==
  ASSUME IInv, Accept
  PROVE  IInv'
<1>1. PICK e \in Email : Joined(e)
  BY DEF Accept
<1>2. UNCHANGED <<recorded, pc, job, gone, cleaned, late, faults, steps>> /\ Stir({})
  BY DEF Accept, claimVars
<1>3. Service'
  BY <1>1, <1>2 DEF Joined, IInv, Service, Slot
<1>4. Counters' /\ Jobs' /\ Ended'
  BY <1>2 DEF Stir, IInv, Counters, Jobs, Ended
<1>5. Informed'
  <2>1. ASSUME NEW v \in Worker, v \notin stirred'
        PROVE  (Knows(pc[v], job[v]) /\ Says(v))'
    <3>1. pc'[v] = "idle" /\ v \notin gone' /\ v \notin cleaned'
      BY <1>2, <2>1 DEF Stir
    <3>2. QED
      BY <3>1 DEF Knows, Says
  <2>2. QED
    BY <2>1 DEF Informed
<1>6. OnlyLateOvershoots'
  <2>1. Held' \ late' \subseteq Held \ late
    BY <1>1, <1>2, JoiningHolds
  <2>2. QED
    BY <2>1, FewerOvershoot DEF Held, OnlyLateOvershoots
<1>7. QED
  BY <1>3, <1>4, <1>5, <1>6 DEF IInv

LEMMA NothingKeeps ==
  ASSUME IInv, UNCHANGED vars
  PROVE  IInv'
<1>1. /\ invite' = invite /\ member' = member /\ recorded' = recorded /\ pc' = pc /\ job' = job
      /\ gone' = gone /\ cleaned' = cleaned /\ stirred' = stirred /\ late' = late
      /\ faults' = faults /\ steps' = steps
  BY DEF vars, teamVars, claimVars, histVars
<1>2. Service' /\ Counters' /\ Jobs' /\ Ended'
  BY <1>1 DEF IInv, Service, Counters, Jobs, Ended
<1>3. Informed'
  <2>1. Takes
    BY NothingTakes DEF vars
  <2>2. QED
    BY <1>1, <2>1, StaysInformed DEF Informed
<1>4. OnlyLateOvershoots'
  BY <1>1 DEF IInv, OnlyLateOvershoots, Codex
<1>5. QED
  BY <1>2, <1>3, <1>4 DEF IInv

\* Every reachable state satisfies the invariant.
THEOREM Invariance == Spec => []IInv
<1>1. IInv /\ [Next]_vars => IInv'
  BY ActKeeps, AcceptKeeps, NothingKeeps DEF Next
<1>2. QED
  BY InitEstablishes, <1>1, PTL DEF Spec

\* Every variable keeps its type, and nobody holds an invite and a membership at once,
\* whichever steps overlap.
THEOREM TypeCorrect == Spec => []TypeOK
<1>1. IInv => TypeOK
  BY DEF IInv, Service, Counters, Jobs, Job, TypeOK
<1>2. QED
  BY <1>1, Invariance, PTL

\* A revocation that says its address holds no seat is right, for any number of steps,
\* unless a seat was given or taken up behind its listing; when the users' listing had
\* no answer it is right about the invite only (run_revoke_invite_once).
THEOREM GoneIsGone == Spec => []GoneMeansGone
<1>1. IInv => GoneMeansGone
  BY DEF IInv, Counters, Informed, Says, GoneMeansGone
<1>2. QED
  BY <1>1, Invariance, PTL

\* A cleanup that reports success leaves the room it was asked for, or only what it was
\* to keep, for every capacity and every need, unless a seat was given or taken up behind
\* its listing (run_cleanup_team_seats_once, _plan_cleanup).
THEOREM CleanedHasRoom == Spec => []CleanedMeansRoom
<1>1. IInv => CleanedMeansRoom
  BY DEF IInv, Counters, Informed, Says, RoomIn, KeptIn, CleanedMeansRoom
<1>2. QED
  BY <1>1, Invariance, PTL

\* Whatever the number of steps that invite at once, only one that was overtaken behind its
\* listing, or went on without a list, gives a usage-based seat over the limit
\* (run_register_invite_once).
THEOREM OnlyLateStepsOvershoot == Spec => []OnlyLateOvershoots
<1>1. IInv => OnlyLateOvershoots
  BY DEF IInv
<1>2. QED
  BY <1>1, Invariance, PTL
=============================================================================

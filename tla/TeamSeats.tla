------------------------------ MODULE TeamSeats ------------------------------
(***************************************************************************)
(* The seats of a team workspace and the steps that hand them out and take *)
(* them back: magic.TeamInviteClient and the operations built on it, as    *)
(* dispatch_easyprotocol_step runs them, each in a subprocess of its own.  *)
(* The workspace belongs to an outside service: a step lists its invites   *)
(* and its users with two calls, decides, and acts with more calls, while  *)
(* other steps and the invited people act between them.                    *)
(* People are numbers, in the order of their addresses; the owner, whom    *)
(* every operation leaves out of its lists, is not one of them.            *)
(***************************************************************************)
EXTENDS Naturals, FiniteSets

CONSTANTS
  Worker,        \* the subprocesses that run a step each
  People,        \* how many addresses there are
  Capacity,      \* DEFAULT_TEAM_CAPACITY_LIMIT
  ChatgptLimit,  \* DEFAULT_TEAM_CHATGPT_SEAT_LIMIT
  Target,        \* DEFAULT_TEAM_EXPAND_REQUIRED_CHATGPT_SEATS
  Tries,         \* the attempts of a verification
  Teams,         \* the teams to begin with: who holds which invite or seat
  Sweeping,      \* not _manual_free_oauth_preserve_enabled
  BatchSeats,    \* the seats a batch may ask for
  MaxBatch,      \* bound on the members of a batch; one that begins beside another has one
  MaxFaults,     \* bound on the calls and the steps that fail
  MaxSteps       \* bound on the steps

Email == 1 .. People
Seat == {"codex", "chatgpt"}
Slot == Seat \union {"none"}
\* invite_codex_member, invite_team_members, revoke_codex_member,
\* cleanup_team_all_seats, cleanup_codex_capacity
Step == {"invite", "batch", "revoke", "cleanup", "capacity"}
Entry == [kind : {"invite", "user"}, who : Email, seat : Seat]
Seated(k, e, s) == [kind |-> k, who |-> e, seat |-> s]

\* The seats the limit is compared with: usage-based ones only.
Codex(f) == {e \in Email : f[e] = "codex"}
Occupied(i, u) == Cardinality(Codex(i)) + Cardinality(Codex(u))

ASSUME TeamAssumption ==
  /\ People \in Nat \ {0} /\ Capacity \in Nat \ {0} /\ Target \in Nat \ {0}
  /\ ChatgptLimit \in 0 .. Capacity /\ Tries \in Nat \ {0}
  /\ Sweeping \in BOOLEAN /\ IsFiniteSet(Worker)
  /\ Teams \subseteq [invite : [Email -> Slot], member : [Email -> Slot]]
  /\ \A t \in Teams : Occupied(t.invite, t.member) <= Capacity
  /\ \A t \in Teams, e \in Email : "none" \in {t.invite[e], t.member[e]}
ASSUME TeamBoundAssumption ==
  BatchSeats \subseteq Seat /\ MaxBatch \in Nat /\ MaxFaults \in Nat /\ MaxSteps \in Nat

VARIABLES
  invite,        \* the service: the seat of each pending invite
  member,        \* ... and of each member
  recorded,      \* teamExpandProgress of the mother's artifact
  pc, job,       \* where each step is, and its variables
  gone,          \* the steps that said their address holds no seat
  cleaned,       \* the steps that said there is room now
  stirred,       \* history: the steps behind whose last listing a seat was
                 \* given or taken up by somebody else
  late,          \* history: the addresses invited by a step that was overtaken in
                 \* this way, or that had no answer to one of its listings
  faults, steps

teamVars == <<invite, member>>
histVars == <<stirred, late>>
claimVars == <<gone, cleaned>>
vars == <<teamVars, recorded, pc, job, claimVars, histVars, faults, steps>>

Nobody == [e \in Email |-> "none"]
NoJob == [op |-> "invite", todo |-> {}, who |-> 1, ask |-> "codex", fell |-> FALSE,
          id |-> FALSE, uid |-> FALSE, invites |-> Nobody, users |-> Nobody,
          heard |-> TRUE, plan |-> {}, keep |-> {}, need |-> 0, ok |-> TRUE, try |-> 0]

Init ==
  /\ \E t \in Teams : invite = t.invite /\ member = t.member
  /\ recorded = {}
  /\ pc = [w \in Worker |-> "idle"] /\ job = [w \in Worker |-> NoJob]
  /\ gone = {} /\ cleaned = {} /\ stirred = {} /\ late = {}
  /\ faults = 0 /\ steps = 0

-----------------------------------------------------------------------------
(* The service, as the client sees it *)

Minus(a, b) == IF a > b THEN a - b ELSE 0
\* Step w goes on at l with the variables j.  Of a step that is over only what
\* its answer was about is left, and of a member what the next one inherits.
Answer(j) == [NoJob EXCEPT !.who = j.who, !.heard = j.heard, !.keep = j.keep, !.need = j.need]
Done(j) == [NoJob EXCEPT !.op = j.op, !.todo = j.todo, !.who = j.who, !.heard = j.heard,
                         !.ask = IF j.fell THEN "chatgpt" ELSE j.ask]
Goto(w, l, j) ==
  /\ pc' = [pc EXCEPT ![w] = l]
  /\ job' = [job EXCEPT ![w] = CASE l = "idle" -> Answer(j)
                                 [] l = "next" -> Done(j)
                                 [] OTHER      -> j]
\* It has no more use for what it listed.
Forget(j) == [j EXCEPT !.invites = Nobody, !.users = Nobody, !.heard = TRUE]
Restart(j) == [j EXCEPT !.try = 0, !.heard = TRUE]
Fault == faults < MaxFaults /\ faults' = faults + 1
\* Somebody else than the steps in S changes the team.
Stir(S) ==
  stirred' = stirred \union {w \in Worker \ S : pc[w] # "idle" \/ w \in gone \union cleaned}
Fresh(w) == stirred' = stirred \ {w}

\* revoke_invite: DELETE by address, then list until the invite is gone.  "ok"
\* needs 2xx or 404 and an invite that is not listed any more; an invite that
\* is still listed after a 404 is "missing".
DeleteInvite(e, ok, missing) ==
  \/ ok /\ ~missing /\ invite' = [invite EXCEPT ![e] = "none"] /\ UNCHANGED <<member, faults>>
  \/ /\ ~ok /\ ~missing /\ Fault /\ UNCHANGED member
     /\ invite' \in {invite, [invite EXCEPT ![e] = "none"]}
  \/ /\ ~ok /\ missing /\ Fault /\ invite[e] # "none"
     /\ UNCHANGED <<invite, member>>

\* remove_user; a user who has left is a 404.
RemoveUser(e, ok, missing) ==
  \/ /\ ok /\ ~missing /\ member[e] # "none"
     /\ member' = [member EXCEPT ![e] = "none"] /\ UNCHANGED <<invite, faults>>
  \/ ~ok /\ missing /\ member[e] = "none" /\ UNCHANGED <<invite, member, faults>>
  \/ /\ ~ok /\ ~missing /\ Fault /\ UNCHANGED invite
     /\ member' \in {member, [member EXCEPT ![e] = "none"]}

\* A listing that is answered, or one that is not.
Heard(ok) == IF ok THEN UNCHANGED faults ELSE Fault

\* An invited person joins the workspace, which a login may do at any time.
Joined(e) ==
  /\ invite[e] # "none"
  /\ member' = [member EXCEPT ![e] = invite[e]] /\ invite' = [invite EXCEPT ![e] = "none"]

Accept ==
  /\ \E e \in Email : Joined(e)
  /\ Stir({})
  /\ UNCHANGED <<recorded, pc, job, claimVars, late, faults, steps>>

-----------------------------------------------------------------------------
(* Starting and ending a step *)

Begin(w, j, l) ==
  /\ pc[w] = "idle" /\ steps < MaxSteps /\ steps' = steps + 1
  /\ Goto(w, l, j)
  /\ gone' = gone \ {w} /\ cleaned' = cleaned \ {w} /\ Fresh(w)
  /\ UNCHANGED <<teamVars, recorded, late, faults>>

BeginInvite(w) ==
  \E e \in Email : Begin(w, [NoJob EXCEPT !.who = e], "list_invites")
BeginBatch(w) ==
  \E S \in SUBSET Email \ {{}}, s \in BatchSeats :
    /\ Cardinality(S) <= MaxBatch
    /\ (\E v \in Worker : pc[v] # "idle" /\ job[v].op = "batch") => Cardinality(S) <= 1
    /\ Begin(w, [NoJob EXCEPT !.op = "batch", !.todo = S, !.ask = s], "next")
BeginRevoke(w) ==
  \E e \in Email, u \in BOOLEAN :
    Begin(w, [NoJob EXCEPT !.op = "revoke", !.who = e, !.uid = u],
          IF u THEN "remove_known" ELSE "find_user")
\* remainingCount: the members still to come
Remaining(progress) == Minus(Target, Cardinality(progress))
\* An artifact that cannot be read counts as one without progress.
BeginCleanup(w) ==
  \E progress \in {recorded, {}} :
    Begin(w, [NoJob EXCEPT !.op = "cleanup", !.keep = progress,
                           !.need = Remaining(progress)], "list_all")
BeginCapacity(w) == Begin(w, [NoJob EXCEPT !.op = "capacity"], "list_all")

\* A batch goes on with its next member, the other steps are over.
Then(j) == IF j.op = "batch" THEN "next" ELSE "idle"

\* The worker pool gives up on the step and kills its subprocess.
Kill(w) ==
  /\ pc[w] # "idle" /\ Fault
  /\ Goto(w, "idle", NoJob)
  /\ gone' = gone \ {w} /\ cleaned' = cleaned \ {w}
  /\ UNCHANGED <<teamVars, recorded, histVars, steps>>

-----------------------------------------------------------------------------
(* run_register_invite_once *)

\* How an invitation ends: a batch falls back from a default seat the service
\* cannot give to a usage-based one, and asks for the seat to be changed.
Invited(w, j, ok, blunt) ==
  IF j.op = "batch" /\ ~ok /\ blunt /\ j.ask = "chatgpt" /\ ~j.fell
  THEN Goto(w, "list_invites", Forget([j EXCEPT !.ask = "codex", !.fell = TRUE]))
  ELSE Goto(w, CASE j.op # "batch" \/ ~ok -> Then(j)
                 [] OTHER                 -> IF j.fell THEN "patch" ELSE "oauth",
            Forget(j))

\* Usage-based invites that others have left pending for too long, whichever
\* they are, are revoked first.
Stale(w) == SUBSET {Seated("invite", e, "codex") : e \in Codex(invite) \ {job[w].who}}

ListInvites(w) ==
  /\ pc[w] \in {"list_invites", "relist"}
  /\ \E ok \in BOOLEAN :
       /\ Heard(ok)
       /\ IF ok /\ pc[w] = "list_invites" /\ Sweeping
            THEN \E plan \in Stale(w) : Goto(w, "sweep", [job[w] EXCEPT !.plan = plan])
          ELSE IF ok /\ invite[job[w].who] # "none"   \* already_invited
            THEN Invited(w, [job[w] EXCEPT !.id = ~job[w].fell, !.uid = FALSE], TRUE, FALSE)
          ELSE Goto(w, "list_users", [job[w] EXCEPT !.invites = IF ok THEN invite ELSE Nobody,
                                                    !.heard = ok])
  /\ Fresh(w)
  /\ UNCHANGED <<teamVars, recorded, claimVars, late, steps>>

Sweep(w) ==
  /\ pc[w] = "sweep"
  /\ \/ /\ job[w].plan = {} /\ Goto(w, "relist", job[w])
        /\ UNCHANGED <<teamVars, faults>>
     \/ \E x \in job[w].plan, ok, missing \in BOOLEAN :
          /\ DeleteInvite(x.who, ok, missing)
          /\ Goto(w, "sweep", [job[w] EXCEPT !.plan = @ \ {x}])
  /\ UNCHANGED <<recorded, claimVars, histVars, steps>>

AlmostFull(i, u) == Occupied(i, u) > Capacity   \* mutant
Full(i, u) == Occupied(i, u) >= Capacity

ListUsers(w) ==
  /\ pc[w] = "list_users"
  /\ \E ok \in BOOLEAN :
       /\ Heard(ok)
       /\ IF ok /\ member[job[w].who] # "none"   \* already_member, perhaps with the user's id
            THEN \E u \in BOOLEAN :
                   Invited(w, [job[w] EXCEPT !.id = ~job[w].fell, !.uid = u], TRUE, FALSE)
          ELSE IF ok /\ job[w].heard /\ Full(job[w].invites, member)   \* team_seats_full
            THEN Invited(w, job[w], FALSE, FALSE)
          ELSE Goto(w, "send", [Forget(job[w]) EXCEPT !.heard = ok /\ job[w].heard])
  /\ UNCHANGED <<teamVars, recorded, claimVars, histVars, steps>>

\* The service invites, or sends the mail again; refuses; refuses in the words
\* that make a batch fall back; or invites and the answer is lost three times.
SendInvite(w) ==
  /\ pc[w] = "send"
  /\ LET e == job[w].who IN
     \/ /\ member[e] = "none"
        /\ invite' = [invite EXCEPT ![e] = IF @ = "none" THEN job[w].ask ELSE @]
        /\ late' = IF job[w].heard /\ w \notin stirred THEN late \ {e} ELSE late \union {e}
        /\ Stir({w})
        /\ \/ Invited(w, [job[w] EXCEPT !.id = TRUE, !.uid = FALSE], TRUE, FALSE) /\ UNCHANGED faults
           \/ Invited(w, job[w], FALSE, FALSE) /\ Fault
     \/ /\ \E blunt \in BOOLEAN : Invited(w, job[w], FALSE, blunt)
        /\ UNCHANGED <<invite, histVars, faults>>
  /\ UNCHANGED <<member, recorded, claimVars, steps>>

-----------------------------------------------------------------------------
(* invite_team_members, one member after the other *)

NextMember(w) ==
  /\ pc[w] = "next"
  /\ \/ /\ job[w].todo = {} /\ Goto(w, "idle", job[w])
        /\ UNCHANGED gone
     \/ \E e \in job[w].todo :
          /\ Goto(w, "list_invites",
                  [job[w] EXCEPT !.todo = @ \ {e}, !.who = e, !.heard = TRUE])
          /\ gone' = gone \ {w}
  /\ UNCHANGED <<teamVars, recorded, cleaned, histVars, faults, steps>>

\* A member that is not kept is revoked, by the user's id when it is known.
RollBack(w, j) == Goto(w, IF j.uid THEN "remove_known" ELSE "find_user", j)

\* update_invite_seat_type: only an invite that is still pending has a seat to change.
ChangeSeat(e) == invite[e] # "none" /\ invite' = [invite EXCEPT ![e] = "chatgpt"]

\* run_update_team_seat_once: PATCH of the invite just sent; without its id the
\* member is looked up and the upgrade is refused either way.
Patch(w) ==
  /\ pc[w] = "patch"
  /\ LET e == job[w].who IN
     \/ /\ job[w].id /\ ChangeSeat(e)
        /\ Stir({w}) /\ Goto(w, "oauth", job[w])
     \/ /\ RollBack(w, [job[w] EXCEPT !.uid = ~job[w].id /\ member[e] # "none"])
        /\ UNCHANGED <<invite, stirred>>
  /\ UNCHANGED <<member, recorded, claimVars, late, faults, steps>>

\* A login that succeeds, at one of its attempts, is of a member: one that it made,
\* or one that was there before.
CompleteOauth(e) == Joined(e) \/ (member[e] # "none" /\ UNCHANGED teamVars)
\* _update_team_expand_progress_payload counts an address once.
RecordMember(e) == recorded' = recorded \union {e}

\* _run_team_member_oauth_once: the login joins the workspace and its artifact
\* is recorded in the mother's; or it fails, after joining or before.
Oauth(w) ==
  /\ pc[w] = "oauth"
  /\ LET e == job[w].who IN
     \/ /\ CompleteOauth(e) /\ RecordMember(e)
        /\ Stir({w}) /\ Goto(w, "next", job[w])
     \/ /\ \/ Joined(e) /\ Stir({w})
           \/ UNCHANGED <<teamVars, stirred>>
        /\ RollBack(w, job[w])
        /\ UNCHANGED recorded
  /\ UNCHANGED <<claimVars, faults, late, steps>>

-----------------------------------------------------------------------------
(* run_revoke_invite_once *)

\* A removal that succeeds is verified, one that fails is the answer.
Removed(w, ok) == Goto(w, IF ok THEN "verify_users" ELSE Then(job[w]), Restart(job[w]))

\* The address is looked for among the users, in vain or without an answer.
NotListed(ok, e) == (ok => member[e] = "none") /\ Heard(ok) /\ UNCHANGED <<invite, member>>
RemoveListed(w) ==
  \E ok, missing \in BOOLEAN :
    member[job[w].who] # "none" /\ RemoveUser(job[w].who, ok, missing) /\ Removed(w, ok)

RemoveKnown(w) ==
  /\ pc[w] = "remove_known"
  /\ \E ok, missing \in BOOLEAN :
       /\ RemoveUser(job[w].who, ok, missing)
       /\ Goto(w, IF ok THEN "verify_users" ELSE "find_user", Restart(job[w]))
  /\ UNCHANGED <<recorded, claimVars, histVars, steps>>

FindUser(w) ==
  /\ pc[w] = "find_user"
  /\ \/ RemoveListed(w)
     \/ \E ok \in BOOLEAN :
          /\ NotListed(ok, job[w].who)
          /\ Goto(w, IF job[w].id THEN "delete" ELSE "find_invite", [job[w] EXCEPT !.heard = ok])
  /\ Fresh(w)
  /\ UNCHANGED <<recorded, claimVars, late, steps>>

\* Without an id the invites are listed; nothing there is "not_found" and ok, also
\* when the listing of the users had no answer (heard).
FindInvite(w) ==
  /\ pc[w] = "find_invite"
  /\ \E ok \in BOOLEAN :
       /\ Heard(ok)
       /\ IF ok /\ invite[job[w].who] # "none"
            THEN Goto(w, "delete", job[w]) /\ UNCHANGED gone
            ELSE /\ Goto(w, Then(job[w]),
                         [Restart(job[w]) EXCEPT !.heard = ok => job[w].heard])
                 /\ gone' = IF ok THEN gone \union {w} ELSE gone
  /\ UNCHANGED <<teamVars, recorded, cleaned, histVars, steps>>

Delete(w) ==
  /\ pc[w] = "delete"
  /\ \E ok, missing \in BOOLEAN :
       /\ DeleteInvite(job[w].who, ok, missing)
       /\ IF missing THEN Goto(w, "joined", Restart(job[w])) ELSE Removed(w, ok)
  /\ UNCHANGED <<recorded, claimVars, histVars, steps>>

\* After a 404 the person may be a member by now: the users are listed again.
JoinedMeanwhile(w) ==
  /\ pc[w] = "joined"
  /\ \/ RemoveListed(w)
     \/ \E ok \in BOOLEAN :
          /\ NotListed(ok, job[w].who)
          /\ IF job[w].try + 1 < Tries
               THEN Goto(w, "joined", [job[w] EXCEPT !.try = @ + 1])
               ELSE Goto(w, Then(job[w]), Restart(job[w]))
  /\ UNCHANGED <<recorded, claimVars, histVars, steps>>

\* _verify_email_cleanup lists the users first and the invites after them.
VerifyUsers(w) ==
  /\ pc[w] = "verify_users"
  /\ \E ok \in BOOLEAN :
       /\ Heard(ok)
       /\ Goto(w, "verify_invites", [job[w] EXCEPT !.users = IF ok THEN member ELSE Nobody,
                                                   !.heard = ok])
  /\ Fresh(w)
  /\ UNCHANGED <<teamVars, recorded, claimVars, late, steps>>

AbsentUser(j, listed) == j.heard /\ j.users[j.who] = "none"   \* mutant
Absent(j, listed) == j.heard /\ listed /\ j.users[j.who] = "none" /\ invite[j.who] = "none"

VerifyInvites(w) ==
  /\ pc[w] = "verify_invites"
  /\ \E listed \in BOOLEAN :
       /\ Heard(listed)
       /\ IF Absent(job[w], listed)
            THEN gone' = gone \union {w} /\ Goto(w, Then(job[w]), Restart(Forget(job[w])))
            ELSE /\ Goto(w, "repair_user",
                         [job[w] EXCEPT !.try = @ + 1,
                                        !.invites = IF listed THEN invite ELSE Nobody])
                 /\ UNCHANGED gone
  /\ UNCHANGED <<teamVars, recorded, cleaned, histVars, steps>>

\* What the verification found is removed, whatever comes of it.
RepairUser(w) ==
  /\ pc[w] = "repair_user"
  /\ IF job[w].users[job[w].who] # "none"
       THEN \E ok, missing \in BOOLEAN : RemoveUser(job[w].who, ok, missing)
       ELSE UNCHANGED <<invite, member, faults>>
  /\ Goto(w, "repair_invite", job[w])
  /\ UNCHANGED <<recorded, claimVars, histVars, steps>>

RepairInvite(w) ==
  /\ pc[w] = "repair_invite"
  /\ IF job[w].invites[job[w].who] # "none"
       THEN \E ok, missing \in BOOLEAN : DeleteInvite(job[w].who, ok, missing)
       ELSE UNCHANGED <<invite, member, faults>>
 
  /\ IF job[w].try < Tries THEN Goto(w, "verify_users", Forget(job[w]))
                           ELSE Goto(w, Then(job[w]), Restart(Forget(job[w])))
  /\ UNCHANGED <<recorded, claimVars, histVars, steps>>

-----------------------------------------------------------------------------
(* run_cleanup_team_seats_once and run_cleanup_codex_capacity_once *)

Entries(i, u) ==
  {x \in Entry : \/ x.kind = "invite" /\ i[x.who] = x.seat
                 \/ x.kind = "user" /\ u[x.who] = x.seat}
Chatgpt(S) == {x \in S : x.seat = "chatgpt"}
\* _entry_sort_key: the category asked for first, invites before users
Before(x, y, first) ==
  \/ x.seat = first /\ y.seat # first
  \/ x.seat = y.seat /\ x.kind = "invite" /\ y.kind = "user"
  \/ x.seat = y.seat /\ x.kind = y.kind /\ x.who < y.who
Least(n, S, first) == {x \in S : Cardinality({y \in S : Before(y, x, first)}) < n}

\* Room for "need" more seats among the "limit" that S uses
Room(S, limit, need) == Minus(limit, Cardinality(S)) >= need
Available(S, need) == Room(S, Capacity, need) /\ Room(Chatgpt(S), ChatgptLimit, need)

PlanTooShort(S, keep, need) ==   \* mutant
  Least(Minus(Cardinality(Chatgpt(S)), Minus(ChatgptLimit, need)),
        {x \in Chatgpt(S) : x.who \notin keep}, "chatgpt")
Plan(S, keep, need) ==
  LET free(T) == {x \in T : x.who \notin keep}
      chatgpt == Least(Minus(Cardinality(Chatgpt(S)), Minus(ChatgptLimit, need)),
                       free(Chatgpt(S)), "chatgpt")
      rest == S \ chatgpt
  IN chatgpt \union Least(Minus(Cardinality(rest), Minus(Capacity, need)), free(rest), "codex")

\* run_cleanup_codex_capacity_once: every usage-based invite and user
CapacityPlan(S) == S \ Chatgpt(S)

\* list_invites, before list_users
ListAll(w) ==
  /\ pc[w] = "list_all"
  /\ \E ok \in BOOLEAN :
       /\ Heard(ok)
       /\ Goto(w, "decide", [job[w] EXCEPT !.invites = IF ok THEN invite ELSE Nobody, !.heard = ok])
  /\ Fresh(w)
  /\ UNCHANGED <<teamVars, recorded, claimVars, late, steps>>

\* The cleanup needs both lists, the capacity step one of them.
Decide(w) ==
  /\ pc[w] = "decide"
  /\ \E ok \in BOOLEAN :
       LET j == job[w]
           S == Entries(j.invites, IF ok THEN member ELSE Nobody)
           plan == IF j.op = "capacity" THEN CapacityPlan(S)
                   ELSE IF Available(S, j.need) THEN {} ELSE Plan(S, j.keep, j.need)
           lists == IF j.op = "cleanup" THEN j.heard /\ ok ELSE j.heard \/ ok
       IN /\ Heard(ok)
          /\ IF lists THEN Goto(w, "remove", [Forget(j) EXCEPT !.plan = IF S = {} THEN {} ELSE plan])
                      ELSE Goto(w, "idle", Restart(j))   \* cleanup_lookup_failed
  /\ UNCHANGED <<teamVars, recorded, claimVars, histVars, steps>>

\* A user who has left already (404) is no failure.
Succeeds(j, ok, missing) == j.ok /\ (ok \/ missing)

Remove(w) ==
  /\ pc[w] = "remove"
  /\ \/ /\ job[w].plan = {} /\ Goto(w, "idle", job[w])
        /\ cleaned' = IF job[w].op = "cleanup" /\ job[w].ok THEN cleaned \union {w} ELSE cleaned
        /\ UNCHANGED <<invite, member, faults>>
     \/ \E x \in job[w].plan, ok, missing \in BOOLEAN :
          /\ IF x.kind = "invite" THEN DeleteInvite(x.who, ok, missing)
                                  ELSE RemoveUser(x.who, ok, missing)
          /\ Goto(w, "remove", [job[w] EXCEPT !.plan = @ \ {x},
                                !.ok = Succeeds(job[w], ok, missing /\ x.kind = "user")])
          /\ UNCHANGED cleaned
 
  /\ UNCHANGED <<recorded, gone, histVars, steps>>

-----------------------------------------------------------------------------
Act(w) ==
  \/ BeginInvite(w) \/ BeginBatch(w) \/ BeginRevoke(w) \/ BeginCleanup(w) \/ BeginCapacity(w)
  \/ ListInvites(w) \/ Sweep(w) \/ ListUsers(w) \/ SendInvite(w)
  \/ NextMember(w) \/ Patch(w) \/ Oauth(w)
  \/ RemoveKnown(w) \/ FindUser(w) \/ FindInvite(w) \/ Delete(w) \/ JoinedMeanwhile(w)
  \/ VerifyUsers(w) \/ VerifyInvites(w) \/ RepairUser(w) \/ RepairInvite(w)
  \/ ListAll(w) \/ Decide(w) \/ Remove(w)

Next == (\E w \in Worker : Act(w) \/ Kill(w)) \/ Accept

Spec == Init /\ [][Next]_vars

-----------------------------------------------------------------------------
Label == {"idle", "list_invites", "relist", "sweep", "list_users", "send", "next", "patch",
          "oauth", "remove_known", "find_user", "find_invite", "delete", "joined",
          "verify_users", "verify_invites", "repair_user", "repair_invite",
          "list_all", "decide", "remove"}

\* Every variable keeps its type; nobody holds an invite and a membership.
TypeOK ==
  /\ invite \in [Email -> Slot] /\ member \in [Email -> Slot]
  /\ \A e \in Email : invite[e] = "none" \/ member[e] = "none"
  /\ recorded \subseteq Email /\ late \subseteq Email
  /\ pc \in [Worker -> Label]
  /\ job \in [Worker -> [op : Step, todo : SUBSET Email, who : Email, ask : Seat,
                         fell : BOOLEAN, id : BOOLEAN, uid : BOOLEAN,
                         invites : [Email -> Slot], users : [Email -> Slot], heard : BOOLEAN,
                         plan : SUBSET Entry, keep : SUBSET Email, need : 0 .. Target,
                         ok : BOOLEAN, try : 0 .. Tries]]
  /\ gone \subseteq Worker /\ cleaned \subseteq Worker /\ stirred \subseteq Worker
  /\ faults \in 0 .. MaxFaults /\ steps \in 0 .. MaxSteps

\* A revocation that answers "not_found" or verified_absent is right about its
\* address, unless a seat was given or taken up behind its listing of the users:
\* the users are listed before the invites, so a person who joins between the
\* two is seen by neither.  A "not_found" whose listing of the users had no answer
\* is right about the invite only; one that says verified_absent heard both
\* (run_revoke_invite_once, _verify_email_cleanup).
GoneMeansGone ==
  \A w \in gone \ stirred :
    /\ invite[job[w].who] = "none"
    /\ job[w].heard => member[job[w].who] = "none"

\* A cleanup that reports success leaves room for the members still to come, or
\* only seats it was told to keep, both in all and among the default seats, unless
\* somebody else gave a seat or an invite was taken up behind its listing
\* (run_cleanup_team_seats_once).
CleanedMeansRoom ==
  \A w \in cleaned \ stirred :
    LET Kept(S) == \A x \in S : x.who \in job[w].keep
        S == Entries(invite, member)
    IN /\ Room(S, Capacity, job[w].need) \/ Kept(S)
       /\ Room(Chatgpt(S), ChatgptLimit, job[w].need) \/ Kept(Chatgpt(S))

\* However the steps overlap, a usage-based seat over the limit was given by a
\* step that was overtaken behind its listing, or that went on without one of
\* its lists (run_register_invite_once).
OnlyLateOvershoots == Cardinality((Codex(invite) \union Codex(member)) \ late) <= Capacity

-----------------------------------------------------------------------------
(* What the code says and does not keep *)

\* magic.py:825, "no_pending_invite_or_member": an address that was not found is no
\* member.
NotFoundMeansGone ==
  \A w \in gone \ stirred : invite[job[w].who] = "none" /\ member[job[w].who] = "none"
=============================================================================

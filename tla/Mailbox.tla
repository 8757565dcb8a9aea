------------------------------- MODULE Mailbox -------------------------------
(***************************************************************************)
(* The mail sessions of one account address and the codes that arrive in   *)
(* them: easy_email_client, resolve_mailbox, and the two kinds of flow     *)
(* that log in to a recorded account.  protocol_oauth takes the session    *)
(* its seed names or opens a new one, and closes every session of the      *)
(* address when it is done; chatgpt_login uses the seed's session, once    *)
(* per network attempt.  Both take a baseline, the marker of the newest    *)
(* message, before they ask for a code, and wait for a code above it.      *)
(* A marker is a time in whole seconds, so two messages can share one.     *)
(***************************************************************************)
EXTENDS Naturals, FiniteSets, Sequences

CONSTANTS
  Worker,       \* the subprocesses that run a flow each
  Kinds,        \* the flows that run: a subset of Kind
  Fresh,        \* PROTOCOL_OAUTH_FORCE_REFRESH_SEED_MAILBOX_BINDING
  Providers,    \* how many providers are tried for a new session
  Recreating,   \* _provider_supports_explicit_same_address_recreate
  Tries,        \* the network attempts of chatgpt_login
  MaxTime,      \* bound on the seconds
  MaxSessions,  \* bound on the sessions
  MaxRequests,  \* bound on the codes asked for
  MaxRuns,      \* bound on the flows
  MaxFaults     \* bound on the calls that fail and the flows that are killed

Kind == {"oauth", "login"}

ASSUME MailboxAssumption ==
  /\ IsFiniteSet(Worker) /\ Kinds \subseteq Kind /\ Fresh \in BOOLEAN
  /\ Providers \in Nat \ {0} /\ Recreating \subseteq 1 .. Providers /\ Tries \in Nat \ {0}
ASSUME MailboxBoundAssumption ==
  /\ MaxTime \in Nat \ {0} /\ MaxSessions \in Nat \ {0} /\ MaxRequests \in Nat
  /\ MaxRuns \in Nat /\ MaxFaults \in Nat

Session == 1 .. MaxSessions
Seed == 1                          \* the session the seed names
Mail == 1 .. MaxRequests + 1       \* messages, in the order of their arrival

VARIABLES
  now,        \* the second
  mail,       \* the messages: when they arrived and which request they answer
  inbox,      \* the messages of each session
  open,       \* the sessions that are open
  sessions,   \* how many there have been
  astray,     \* history: those that are of another address or have no id
  coming,     \* the requests whose message is on its way
  requests,   \* how many there have been
  pc, flow,   \* where each flow is, and its variables
  walled,     \* the sessions recorded with an account behind a phone wall
  faults, runs

serviceVars == <<now, mail, inbox, open, sessions, astray, coming, requests>>
vars == <<serviceVars, pc, flow, walled, faults, runs>>

NoFlow == [kind |-> "oauth", sess |-> Seed, floor |-> 0, base |-> {}, low |-> 0,
           auto |-> FALSE, code |-> 0, req |-> 0, todo |-> {}, ending |-> FALSE,
           won |-> FALSE, prov |-> 1, try |-> 0]

\* The step that made the seed left its session open or closed it, and perhaps
\* its own code is still in it.
Init ==
  /\ now = 1 /\ mail \in {<<>>, <<[at |-> 1, req |-> 0]>>}
  /\ inbox = [s \in Session |-> IF s = Seed THEN DOMAIN mail ELSE {}]
  /\ open \in {{}, {Seed}} /\ sessions = 1 /\ astray = {}
  /\ coming = {} /\ requests = 0
  /\ pc = [w \in Worker |-> "idle"] /\ flow = [w \in Worker |-> NoFlow]
  /\ walled = {} /\ faults = 0 /\ runs = 0

-----------------------------------------------------------------------------
(* The service *)

Marker(k) == mail[k].at
Newest(s) == IF inbox[s] = {} THEN 0 ELSE CHOOSE k \in inbox[s] : \A i \in inbox[s] : i <= k
Fault == faults < MaxFaults /\ faults' = faults + 1

\* get_mailbox_latest_message_id: 0 for an empty mailbox, a session that is
\* closed, or no answer.
Latest(s) == IF s \in open /\ inbox[s] # {} THEN Marker(Newest(s)) ELSE 0
Answered(s, m) == \/ m = Latest(s) /\ UNCHANGED faults
                  \/ m = 0 /\ Latest(s) # 0 /\ Fault

\* release_mailbox closes the session, or the call is lost.
Close(s) == \/ open' = open \ {s} /\ UNCHANGED faults
            \/ s \in open /\ UNCHANGED open /\ Fault

Goto(w, l, f) ==
  /\ pc' = [pc EXCEPT ![w] = l]
  /\ flow' = [flow EXCEPT ![w] = IF l = "idle" THEN NoFlow ELSE f]

-----------------------------------------------------------------------------
(* Binding a flow to a session: _refresh_seed_mailbox_binding *)

Begin(w) ==
  /\ pc[w] = "idle" /\ runs < MaxRuns /\ runs' = runs + 1
  /\ \E k \in Kinds :
       Goto(w, IF k = "oauth" /\ Fresh THEN "list" ELSE "baseline", [NoFlow EXCEPT !.kind = k])
  /\ UNCHANGED <<serviceVars, walled, faults>>

\* release_mailbox_sessions_by_email asks for all sessions, keeps those of the
\* address, and raises when there is no answer, whatever the flow has got by then.
List(w) ==
  /\ pc[w] = "list"
  /\ \/ Goto(w, "close", [flow[w] EXCEPT !.todo = open \ astray]) /\ UNCHANGED faults
     \/ Goto(w, "idle", flow[w]) /\ Fault
  /\ UNCHANGED <<serviceVars, walled, runs>>

\* ... and closes one after the other, whoever uses it.
CloseOne(w) ==
  /\ pc[w] = "close"
  /\ \/ \E s \in flow[w].todo : Close(s) /\ Goto(w, "close", [flow[w] EXCEPT !.todo = @ \ {s}])
     \/ /\ flow[w].todo = {} /\ UNCHANGED <<open, faults>>
        /\ Goto(w, IF ~flow[w].ending THEN "recover" ELSE IF flow[w].won THEN "save" ELSE "idle",
                flow[w])
  /\ UNCHANGED <<now, mail, inbox, sessions, astray, coming, requests, walled, runs>>

NewSession(s, box) ==
  /\ s = sessions + 1 /\ s \in Session
  /\ sessions' = s /\ open' = open \union {s} /\ inbox' = [inbox EXCEPT ![s] = box]

\* No session from this provider: the next one is asked, and after the last
\* resolve_mailbox raises.
ProviderAfter(w) ==   \* mutant
  Goto(w, "recover", [flow[w] EXCEPT !.prov = @ + 1])
NextProvider(w) ==
  Goto(w, IF flow[w].prov < Providers THEN "recover" ELSE "idle", [flow[w] EXCEPT !.prov = @ + 1])

\* The client has no answer, and sends the request again or gives up; a session
\* that was opened all the same is left to itself.
Unanswered(box) ==
  /\ NewSession(sessions + 1, box) \/ UNCHANGED <<inbox, open, sessions>>
  /\ Fault /\ UNCHANGED astray

\* The session in the answer is of another address or has no id, and is neither taken
\* nor closed; or there is none.
Unfit(w) ==
  /\ \/ NewSession(sessions + 1, {}) /\ astray' = astray \union {sessions + 1}
     \/ UNCHANGED <<inbox, open, sessions, astray>>
  /\ NextProvider(w) /\ UNCHANGED faults

TakeSession(w, box) ==
  /\ NewSession(sessions + 1, box) /\ UNCHANGED <<astray, faults>>
  /\ Goto(w, "baseline", [NoFlow EXCEPT !.sess = sessions + 1])

\* recover_mailbox_by_email finds the mailbox with its messages, or does not; then
\* the next provider is asked, or this one for a new session when it can make the
\* same address again or the call failed.
Recover(w) ==
  /\ pc[w] = "recover"
  /\ \/ TakeSession(w, DOMAIN mail)
     \/ Unanswered(DOMAIN mail) /\ \E l \in {"recover", "create"} : Goto(w, l, flow[w])
     \/ Unfit(w)
     \/ /\ flow[w].prov \in Recreating /\ Goto(w, "create", flow[w])
        /\ UNCHANGED <<inbox, open, sessions, astray, faults>>
  /\ UNCHANGED <<now, mail, coming, requests, walled, runs>>

\* create_mailbox: an error in the answer counts as none, too.
Create(w) ==
  /\ pc[w] = "create"
  /\ \/ TakeSession(w, {})
     \/ Unanswered({}) /\ (Goto(w, "create", flow[w]) \/ NextProvider(w))
     \/ Unfit(w)
  /\ UNCHANGED <<now, mail, coming, requests, walled, runs>>

-----------------------------------------------------------------------------
(* One login: baseline, request, wait, use *)

\* A failed login: a new session of the same flow where the error looks like
\* the network's; or the end of it.
Ends(w, won) ==
  Goto(w, "release", [NoFlow EXCEPT !.sess = flow[w].sess, !.ending = TRUE, !.won = won])
FailsAtOnce(w) == Goto(w, "idle", flow[w])   \* mutant
Fails(w) ==
  \/ flow[w].kind = "login" /\ Goto(w, "idle", flow[w])
  \/ /\ flow[w].kind = "login" /\ flow[w].try + 1 < Tries
     /\ Goto(w, "baseline", [NoFlow EXCEPT !.kind = "login", !.try = flow[w].try + 1])
  \/ flow[w].kind = "oauth" /\ Ends(w, FALSE)

\* The account asks for a phone number: protocol_oauth records the session with
\* the account and returns; for chatgpt_login it is an error like others.
Wall(w) ==
  /\ flow[w].kind = "oauth"
  /\ walled' = walled \union {flow[w].sess} /\ Goto(w, "idle", flow[w])

Baseline(w) ==
  /\ pc[w] = "baseline"
  /\ \E m \in 0 .. MaxTime :
       /\ Answered(flow[w].sess, m)
       /\ Goto(w, "ask", [flow[w] EXCEPT !.floor = m, !.base = inbox[flow[w].sess]])
  /\ UNCHANGED <<serviceVars, walled, runs>>

\* What comes after the code: tokens, and for chatgpt_login a file.
Succeeds(w) ==
  IF flow[w].kind = "login" THEN Goto(w, "idle", flow[w])
  ELSE Ends(w, TRUE)

\* The account's server sends a code, needs none, or refuses.
Ask(w) ==
  /\ pc[w] = "ask"
  /\ \/ /\ requests < MaxRequests /\ requests' = requests + 1
        /\ coming' = coming \union {requests + 1}
        /\ Goto(w, "start", [flow[w] EXCEPT !.req = requests + 1])
        /\ UNCHANGED walled
     \/ (Succeeds(w) \/ Fails(w)) /\ UNCHANGED <<coming, requests, walled>>
     \/ Wall(w) /\ UNCHANGED <<coming, requests>>
  /\ UNCHANGED <<now, mail, inbox, open, sessions, astray, faults, runs>>

\* wait_openai_code: without a baseline the newest message there is now is the
\* floor, and its own code is good enough.
StartWait(w) ==
  /\ pc[w] = "start"
  /\ IF flow[w].floor > 0
       THEN /\ Goto(w, "wait", [flow[w] EXCEPT !.low = flow[w].floor, !.auto = FALSE])
            /\ UNCHANGED faults
       ELSE \E m \in 0 .. MaxTime :
              /\ Answered(flow[w].sess, m)
              /\ Goto(w, "wait", [flow[w] EXCEPT !.low = m, !.auto = m > 0])
  /\ UNCHANGED <<serviceVars, walled, runs>>

AtFloor(f, k) == f.low = 0 \/ Marker(k) >= f.low   \* mutant
Acceptable(f, k) == f.low = 0 \/ Marker(k) > f.low \/ (f.auto /\ Marker(k) = f.low)

\* _snapshot_session_openai_code: any of the newest messages that will do
Snapshot(f) ==
  {k \in inbox[f.sess] : Acceptable(f, k)
                         /\ \A i \in inbox[f.sess] : Acceptable(f, i) => Marker(i) <= Marker(k)}
Take(w, k) == Goto(w, "use", [flow[w] EXCEPT !.code = k])

\* The code endpoint has the newest message only.  When it has no answer, and
\* every now and then, the messages of the session are gone through.
Poll(w) ==
  /\ pc[w] = "wait" /\ flow[w].sess \in open
  /\ LET f == flow[w] IN
     \/ /\ inbox[f.sess] # {} /\ Acceptable(f, Newest(f.sess))
        /\ Take(w, Newest(f.sess))
     \/ \E k \in Snapshot(f) : Take(w, k)
  /\ UNCHANGED <<serviceVars, walled, faults, runs>>

\* "timeout waiting for 6-digit code", with the last error of the polling, which may
\* look like the network's.
GiveUp(w) ==
  /\ pc[w] = "wait"
  /\ Fails(w) /\ UNCHANGED <<serviceVars, walled, faults, runs>>

\* The server takes the code of this login only, and what comes after it may
\* fail, or end at a phone wall.
Use(w) ==
  /\ pc[w] = "use"
  /\ \/ mail[flow[w].code].req = flow[w].req /\ Succeeds(w) /\ UNCHANGED walled
     \/ Fails(w) /\ UNCHANGED walled
     \/ mail[flow[w].code].req = flow[w].req /\ Wall(w)
  /\ UNCHANGED <<serviceVars, faults, runs>>

-----------------------------------------------------------------------------
(* The end of run_protocol_oauth_once *)

\* _release_refreshed_mailbox swallows the error.
Release(w) ==
  /\ pc[w] = "release"
  /\ Close(flow[w].sess) /\ Goto(w, "list", flow[w])
  /\ UNCHANGED <<now, mail, inbox, sessions, astray, coming, requests, walled, runs>>

\* persist_success_auth_json
Save(w) ==
  /\ pc[w] = "save" /\ Goto(w, "idle", flow[w])
  /\ UNCHANGED <<serviceVars, walled, faults, runs>>

-----------------------------------------------------------------------------
(* The outside world *)

\* A message arrives in every open session of the address, or never.
Deliver ==
  /\ \E r \in coming :
       /\ coming' = coming \ {r}
       /\ \/ /\ mail' = Append(mail, [at |-> now, req |-> r])
             /\ inbox' = [s \in Session |->
                            IF s \in open \ astray THEN inbox[s] \union {Len(mail) + 1}
                                                ELSE inbox[s]]
          \/ UNCHANGED <<mail, inbox>>
  /\ UNCHANGED <<now, open, sessions, astray, requests, pc, flow, walled, faults, runs>>

Tick ==
  /\ now < MaxTime /\ now' = now + 1
  /\ UNCHANGED <<mail, inbox, open, sessions, astray, coming, requests, pc, flow, walled, faults, runs>>

\* A session comes to the end of its time to live.
Lapse ==
  /\ \E s \in open : open' = open \ {s}
  /\ UNCHANGED <<now, mail, inbox, sessions, astray, coming, requests, pc, flow, walled, faults, runs>>

Kill(w) ==
  /\ pc[w] # "idle" /\ Goto(w, "idle", flow[w]) /\ Fault
  /\ UNCHANGED <<serviceVars, walled, runs>>

Step(w) ==
  \/ Begin(w) \/ List(w) \/ CloseOne(w) \/ Recover(w) \/ Create(w)
  \/ Baseline(w) \/ Ask(w) \/ StartWait(w) \/ Poll(w) \/ GiveUp(w) \/ Use(w)
  \/ Release(w) \/ Save(w) \/ Kill(w)

Next == (\E w \in Worker : Step(w)) \/ Deliver \/ Tick \/ Lapse

Spec == Init /\ [][Next]_vars

-----------------------------------------------------------------------------
Label == {"idle", "list", "close", "recover", "create", "baseline", "ask", "start",
          "wait", "use", "release", "save"}

\* Every variable keeps its type; a message is in a mailbox once it has arrived,
\* and a flow knows of sessions and codes that there are.
TypeOK ==
  /\ now \in 1 .. MaxTime /\ sessions \in Session /\ requests \in 0 .. MaxRequests
  /\ Len(mail) <= MaxRequests + 1
  /\ mail \in Seq([at : 1 .. now, req : 0 .. requests])
  /\ inbox \in [Session -> SUBSET DOMAIN mail]
  /\ open \subseteq 1 .. sessions /\ walled \subseteq 1 .. sessions /\ astray \subseteq 1 .. sessions
  /\ coming \subseteq 1 .. requests
  /\ pc \in [Worker -> Label]
  /\ flow \in [Worker -> [kind : Kind, sess : 1 .. sessions, floor : 0 .. MaxTime,
                          base : SUBSET DOMAIN mail, low : 0 .. MaxTime, auto : BOOLEAN,
                          code : 0 .. Len(mail), req : 0 .. requests, todo : SUBSET (1 .. sessions),
                          ending : BOOLEAN, won : BOOLEAN, prov : 1 .. Providers, try : 0 .. Tries - 1]]
  /\ \A w \in Worker : pc[w] = "use" => flow[w].code # 0
  /\ faults \in 0 .. MaxFaults /\ runs \in 0 .. MaxRuns

\* A code taken by a flow that has a baseline was not in the mailbox when the
\* baseline was taken, although a baseline is a time in seconds and messages are
\* looked for in two ways (wait_openai_code, _snapshot_session_openai_code).
FreshAfterBaseline ==
  \A w \in Worker : pc[w] = "use" /\ flow[w].floor > 0 => flow[w].code \notin flow[w].base

\* Every open session of the address is the seed's, is used by a flow that will
\* close it, or is recorded with an account behind a phone wall, but for one per
\* call that had no answer, the ones sent again included, and flow that was killed
\* (run_protocol_oauth_once, resolve_mailbox, _mail_service_request).  A session
\* that the service opened for another address, or without an id, is not of the
\* address: nobody closes one of those.
SessionsAccountedFor ==
  Cardinality(open \ ({Seed} \union walled \union astray \union
                      {flow[w].sess : w \in {v \in Worker : pc[v] # "idle"}})) <= faults

\* What the comment in wait_openai_code says: no code that was in the mailbox
\* when the flow asked for its own is taken for it.
NoStaleCode ==
  \A w \in Worker : pc[w] = "use" => flow[w].code \notin flow[w].base
=============================================================================

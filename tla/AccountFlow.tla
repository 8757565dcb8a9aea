---------------------------- MODULE AccountFlow ----------------------------
(***************************************************************************)
(* The life of one account through the steps a caller runs in workers:     *)
(* its creation (protocol_small_success), the first login of OpenAI, the   *)
(* login of ChatGPT, the setup of the platform's organization, the OAuth   *)
(* for Codex and the audit.  What a step knows of the others is in the     *)
(* account's record, a JSON file that each reads and rewrites.  The caller *)
(* may repeat a step; a worker may be killed within one, also while it     *)
(* writes the file; answers of the server are lost.  The inside of the     *)
(* OAuth is in CodexLogin, of the mailbox in Mailbox.  A definition marked *)
(* "mutant" is a bug the code does not have.                               *)
(***************************************************************************)
EXTENDS Naturals, FiniteSets, Sequences

CONSTANTS
  SignupAttempts, \* max_network_attempts of the creation: 2, or 1 with a proxy of the caller
  LoginAttempts,  \* max_network_attempts of the ChatGPT login
  MaxSteps,       \* bound on the steps that the caller runs
  MaxFaults       \* bound on kills, lost answers and failed writes

ASSUME FlowAssumption == SignupAttempts \in Nat \ {0} /\ LoginAttempts \in Nat \ {0}
ASSUME FlowBoundAssumption == MaxSteps \in Nat /\ MaxFaults \in Nat

VARIABLES
  pc,      \* where the step in progress is; "idle": none is in progress
  kind,    \* which step it is
  steps,   \* how many steps began; also the name of the session that a step opens
  att,     \* its attempt
  keep,    \* retain_mailbox
  surface, \* what the record to write is of: "wall", "early" (a wall at the start), "callback", "other"
  box,     \* the mailbox session it uses
  account, \* the server: "none", "registered", or "made"
  pw,      \* the server: the password, which run and attempt generated it; or none
  gone,    \* the server: the account is deactivated
  org,     \* the server: the organization is "new", "named" or "done"
  codeok,  \* the server: the code in the record's final_url is not used
  tokenok, \* the server: the record's refresh token is the one it accepts
  open,    \* EasyEmail: the open sessions of the account's address
  file,    \* the newest record
  swept,   \* an OAuth has released the sessions of the address
  lent,    \* history: sessions released before a creation that was handed them ended
  verdict, \* of the audit, if that was the last step
  faults

local == <<keep, surface, box>>
server == <<account, pw, org, codeok, tokenok>>
world == <<server, gone, open, file, swept, lent, verdict>>
vars == <<pc, kind, steps, att, local, world, faults>>

NoPassword == <<>>
NoFile == [st |-> "none", pw |-> NoPassword, box |-> 0, code |-> FALSE,
           init |-> FALSE, login |-> FALSE, session |-> FALSE, org |-> FALSE, token |-> FALSE]

Init ==
  /\ pc = "idle" /\ kind = "none" /\ steps = 0 /\ att = 0
  /\ keep = FALSE /\ surface = "other" /\ box = 0
  /\ account = "none" /\ pw = NoPassword /\ gone = FALSE /\ org = "new"
  /\ codeok = FALSE /\ tokenok = FALSE
  /\ open = {} /\ file = NoFile /\ swept = FALSE /\ lent = {}
  /\ verdict = "none" /\ faults = 0

Goto(l) == pc' = l
Fault == faults < MaxFaults /\ faults' = faults + 1
Begin(k) == pc = "idle" /\ steps < MaxSteps /\ steps' = steps + 1 /\ kind' = k
At(l) == pc = l /\ UNCHANGED <<kind, steps>>

\* A request without an effect on the account: its answer, or none.
Ask == UNCHANGED world
Answered == UNCHANGED faults

\* The pages of auth.openai.com for the address.
Pages == IF account = "none" THEN {"create_account_password", "email_otp"}
         ELSE IF pw = NoPassword THEN {"email_otp"}
         ELSE {"login_password", "email_otp"}

\* generate_pwd() is called once, before the attempts.
GeneratedPerAttempt == <<steps, att>>   \* mutant
Generated == <<steps, 1>>

\* write_text truncates the file before it writes; a new record that is cut off
\* is the newest one as well.
WriteFails == Fault /\ file' = [file EXCEPT !.st = "torn"]

-----------------------------------------------------------------------------
(* The creation *)

SameAttempt == UNCHANGED att   \* mutant
NextAttempt == att' = att + 1
More(n) == att < n

\* What an attempt that failed leads to: the next one when the kind of the error
\* allows it and there are 25 s left, or the finally of the run.
RaiseSignup(e) ==
  /\ \/ /\ e \in {"authorize", "register", "network"} /\ More(SignupAttempts)
        /\ Goto("open") /\ NextAttempt
     \/ Goto("cleanup") /\ UNCHANGED att
  /\ UNCHANGED local

LostSignup == Fault /\ RaiseSignup("network")
RefusedSignup(e) == Answered /\ RaiseSignup(e)
NextSignup(l) == Goto(l) /\ UNCHANGED <<att, local>> /\ Answered

\* resolve_mailbox opens a session, or takes the one that the caller hands over with
\* its address: one that is open, or the record's, which may be released already.
OwnMailbox == box' = steps + 1 /\ open' = open \union {steps + 1} /\ UNCHANGED lent
HandedMailbox(s) == box' = s /\ lent' = lent \union ({s} \ open) /\ UNCHANGED open
BeginCreate ==
  /\ Begin("create") /\ att' = 1 /\ Goto("open")
  /\ OwnMailbox \/ \E s \in (open \union {file.box}) \cap 1 .. steps : HandedMailbox(s)
  /\ keep' = FALSE /\ surface' = "other" /\ verdict' = "none"
  /\ UNCHANGED <<server, gone, file, swept, faults>>

OpenSignup ==   \* a proxy and a session for the attempt
  /\ At("open") /\ Ask
  /\ NextSignup("warm") \/ RefusedSignup("other") \/ LostSignup

WarmUp ==
  /\ At("warm") /\ Ask
  /\ NextSignup("authorize") \/ RefusedSignup("other") \/ LostSignup

\* A phone wall keeps the mailbox: the record names its session.
KeepNothing == UNCHANGED keep   \* mutant
KeepMailbox == keep' = TRUE
Wall(s) == surface' = s /\ KeepMailbox /\ Goto("persist") /\ UNCHANGED <<att, box>> /\ Answered

\* The pages that the redirect of the authorize request can show by itself.
AccountPage == Pages \ {"login_password"}

\* An email_otp page asks for no password.
Passwordless(p) == NextSignup(IF p = "email_otp" THEN "wait" ELSE "register")

\* What it redirected to may be the next page already, or a wall.
Authorize ==
  /\ At("authorize") /\ Ask
  /\ \/ NextSignup("continue")
     \/ \E p \in AccountPage : Passwordless(p)
     \/ Wall("early") \/ RefusedSignup("authorize") \/ LostSignup

SubmitEmail ==
  /\ At("continue") /\ Ask
  /\ \/ \E p \in Pages : Passwordless(p)
     \/ Wall("early") \/ RefusedSignup("other") \/ LostSignup

Registered == account = "none" /\ account' = "registered" /\ pw' = Generated
RegisterEffect == Registered /\ UNCHANGED <<gone, org, codeok, tokenok, open, file, swept, lent, verdict>>

UserRegister ==
  /\ At("register")
  /\ \/ RegisterEffect /\ (NextSignup("wait") \/ Wall("wall") \/ LostSignup)
     \/ Ask /\ (RefusedSignup("register") \/ LostSignup)

\* A resend that fails ends the wait like its timeout does.
NoCode == RefusedSignup("other")

\* A failed request for the code is skipped.
WaitCode ==
  /\ At("wait") /\ Ask
  /\ \/ box \in open /\ NextSignup("validate")
     \/ NoCode

\* A code confirms the address: without a password it registers it too.
Confirm ==
  /\ account' = (IF account = "none" THEN "registered" ELSE account)
  /\ UNCHANGED <<pw, gone, org, codeok, tokenok, open, file, swept, lent, verdict>>

ValidateCode ==
  /\ At("validate")
  /\ \/ ~gone /\ Confirm /\ (NextSignup("make") \/ Wall("wall") \/ LostSignup)
     \/ Ask /\ (RefusedSignup("other") \/ LostSignup)

Made == account = "registered" /\ ~gone /\ account' = "made"

\* create_account refuses an account that has a name.
CreateAccount ==
  /\ At("make")
  /\ \/ /\ Made /\ UNCHANGED <<pw, gone, org, codeok, tokenok, open, file, swept, lent, verdict>>
        /\ \/ \E s \in {"callback", "other"} : Wall(s)
           \/ LostSignup
     \/ Ask /\ (RefusedSignup("other") \/ LostSignup)

Record == [NoFile EXCEPT !.st = "ok", !.pw = Generated, !.box = box, !.code = surface = "callback"]

PersistRecord ==
  /\ At("persist") /\ UNCHANGED <<account, pw, org, tokenok, gone, open, lent, verdict>>
  /\ \/ /\ file' = Record /\ codeok' = Record.code /\ swept' = FALSE
        /\ NextSignup(IF surface \in {"early", "wall"} THEN "phone" ELSE "diagnose")
     \/ WriteFails /\ RaiseSignup("other") /\ UNCHANGED <<codeok, swept>>

PersistPhoneRecord ==
  /\ At("phone") /\ Ask
  /\ \/ NextSignup(IF surface = "early" THEN "cleanup" ELSE "diagnose")
     \/ Fault /\ RaiseSignup("other")

PersistDiagnostics ==
  /\ At("diagnose") /\ UNCHANGED <<server, gone, open, swept, lent, verdict>>
  /\ \/ UNCHANGED file /\ NextSignup("cleanup")
     \/ WriteFails /\ RaiseSignup("other")

\* The finally: an error of the release is swallowed.  A session that was handed over
\* is released like one of the run's own.
Cleanup ==
  /\ At("cleanup") /\ Goto("idle")
  /\ \/ keep /\ UNCHANGED <<open, lent, faults>>
     \/ ~keep /\ open' = open \ {box} /\ lent' = lent \union ({box} \ {steps}) /\ UNCHANGED faults
     \/ ~keep /\ Fault /\ UNCHANGED <<open, lent>>
  /\ UNCHANGED <<att, local, server, gone, file, swept, verdict>>

-----------------------------------------------------------------------------
(* The steps on a record *)

Proceed(l) == Goto(l) /\ UNCHANGED <<att, local>> /\ Answered
Fails == Proceed("idle")   \* refused, or the answer is lost

\* load_json_payload; a step that is recorded as completed is not repeated.
BeginOn(k, done, l) ==
  /\ Begin(k) /\ file.st # "none"
  /\ att' = 1 /\ box' = file.box
  /\ Goto(IF file.st = "torn" \/ done THEN "idle" ELSE l)
  /\ keep' = FALSE /\ surface' = "other" /\ Answered

\* The record as the step leaves it.
Rewrite(new) ==
  /\ \/ file' = new /\ UNCHANGED faults
     \/ WriteFails
  /\ Goto("idle") /\ UNCHANGED <<att, local>>

Verdict(v) == verdict' = v /\ UNCHANGED <<server, gone, open, file, swept, lent>>

BeginInit == BeginOn("init", file.init, "init_entry") /\ Verdict("none")

InitEntry == At("init_entry") /\ Ask /\ (Proceed("init_continue") \/ Fails)

\* Only the page for a code goes on.
InitContinue ==
  /\ At("init_continue") /\ Ask
  /\ \/ "email_otp" \in Pages /\ Proceed("init_code")
     \/ Fails

InitCode ==
  /\ At("init_code")
  /\ \/ box \in open /\ ~gone /\ Confirm /\ (Proceed("init_write") \/ Fails)
     \/ Ask /\ Fails

InitWrite ==
  /\ At("init_write") /\ Rewrite([file EXCEPT !.init = TRUE, !.box = box])
  /\ UNCHANGED <<server, gone, open, swept, lent, verdict>>

-----------------------------------------------------------------------------
(* The login of ChatGPT, which an audit runs on a copy of the record *)

BeginLogin == BeginOn("login", file.login, "login_open") /\ Verdict("none")

\* An audit looks for "deleted" in the text of the error, whoever it is from.
LoginFails ==
  /\ Goto("idle") /\ UNCHANGED att
  /\ verdict' \in IF kind = "audit" THEN {"inconclusive", "deleted"} ELSE {verdict}

RaiseLogin(again) ==
  /\ \/ /\ again /\ More(LoginAttempts)
        /\ Goto("login_open") /\ NextAttempt /\ UNCHANGED verdict
     \/ LoginFails
  /\ UNCHANGED <<local, server, gone, open, file, swept, lent>>

LostLogin == Fault /\ RaiseLogin(TRUE)
RefusedLogin(again) == Answered /\ RaiseLogin(again)

LoginBootstrap ==
  /\ At("login_open")
  /\ \/ Proceed("login_continue") /\ Ask
     \/ RefusedLogin(TRUE) \/ RefusedLogin(FALSE) \/ LostLogin

LoginContinue ==
  /\ At("login_continue")
  /\ \/ \E p \in Pages : Proceed(IF p = "login_password" THEN "login_password" ELSE "login_code") /\ Ask
     \/ RefusedLogin(TRUE) \/ LostLogin

LoginPassword ==
  /\ At("login_password")
  /\ \/ file.pw = pw /\ ~gone /\ (Proceed("login_code") \/ Proceed("login_account")) /\ Ask
     \/ RefusedLogin(FALSE) \/ LostLogin

LoginCode ==
  /\ At("login_code")
  /\ \/ box \in open /\ ~gone /\ Proceed("login_account") /\ Confirm
     \/ RefusedLogin(FALSE) \/ LostLogin

\* The callback, the accounts of the session, and the selection of the personal one.
PersonalAccount ==
  /\ At("login_account")
  /\ \/ account = "made" /\ ~gone /\ Proceed("login_write") /\ Ask
     \/ RefusedLogin(TRUE) \/ RefusedLogin(FALSE) \/ LostLogin

\* The session is recorded with what the login found.
LoggedIn == [file EXCEPT !.login = TRUE, !.session = TRUE, !.box = box]

\* The audit's copy of the record is deleted.
AuditSucceeds == Proceed("idle") /\ verdict' = "succeeded" /\ UNCHANGED file

LoginWrite ==
  /\ At("login_write") /\ UNCHANGED <<server, gone, open, swept, lent>>
  /\ \/ kind = "login" /\ Rewrite(LoggedIn) /\ UNCHANGED verdict
     \/ kind = "audit" /\ AuditSucceeds

-----------------------------------------------------------------------------
(* The organization of the platform *)

BeginOrg == BeginOn("org", file.org \/ ~file.code, "org_token") /\ Verdict("none")

\* The code can be exchanged once.
ExchangeCode ==
  /\ At("org_token")
  /\ \/ /\ codeok /\ ~gone /\ codeok' = FALSE
        /\ UNCHANGED <<account, pw, org, tokenok, gone, open, file, swept, lent, verdict>>
        /\ Proceed("org_login") \/ Fails
     \/ Ask /\ Fails

OnboardingLogin == At("org_login") /\ Ask /\ (Proceed("org_update") \/ Fails)

OrgEffect(o) == ~gone /\ org' = o /\ UNCHANGED <<account, pw, codeok, tokenok, gone, open, file, swept, lent, verdict>>

OrganizationUpdate ==
  /\ At("org_update")
  /\ \/ OrgEffect(IF org = "new" THEN "named" ELSE org) /\ (Proceed("org_user") \/ Fails)
     \/ Ask /\ Fails

UserUpdateIgnored ==   \* mutant
  /\ At("org_user")
  /\ \/ OrgEffect("done") /\ (Proceed("org_write") \/ Fails)
     \/ Ask /\ (Proceed("org_write") \/ Fails)
UserUpdate ==
  /\ At("org_user")
  /\ \/ OrgEffect("done") /\ (Proceed("org_write") \/ Fails)
     \/ Ask /\ Fails

\* The tokens of the exchange are merged into the record; there may be no refresh
\* token among them.
WithTokens(refresh) == [file EXCEPT !.org = TRUE, !.token = @ \/ refresh]

OrgWrite ==
  /\ At("org_write")
  /\ \E refresh \in BOOLEAN : Rewrite(WithTokens(refresh)) /\ tokenok' = (tokenok \/ refresh)
  /\ UNCHANGED <<account, pw, org, codeok, gone, open, swept, lent, verdict>>

-----------------------------------------------------------------------------
(* The OAuth for Codex *)

BeginOAuth == BeginOn("oauth", FALSE, "oauth_mailbox") /\ Verdict("none")

\* The record's session is used again, unless the environment asks for a new one.
BindMailbox ==
  /\ At("oauth_mailbox")
  /\ \/ Proceed("oauth_run") /\ Ask
     \/ /\ box' = steps /\ open' = {steps} /\ swept' = TRUE
        /\ Goto("oauth_run") /\ Answered
        /\ UNCHANGED <<att, keep, surface, server, gone, file, lent, verdict>>

\* The session of a completed login is handed over; without one there is a repair
\* login, which needs a code or the password.
HandsOver == file.login /\ file.session

RunOAuth ==
  /\ At("oauth_run") /\ Ask
  /\ \/ /\ account = "made" /\ ~gone
        /\ HandsOver \/ box \in open
        /\ Proceed("oauth_release")
     \/ Proceed("oauth_clear")     \* a phone wall: the sessions stay
     \/ Proceed("oauth_release")   \* an error

\* The session of the run is released, then all those of the address, whether the
\* run failed or has its tokens; when the sessions cannot be listed, that error
\* ends the run before the tokens are stored.
ReleaseSessions ==
  /\ At("oauth_release") /\ Goto("oauth_clear") /\ swept' = TRUE
  /\ \/ open' = {} /\ Answered
     \/ Fault /\ open' = open \ {box}
  /\ UNCHANGED <<att, local, server, gone, file, lent, verdict>>

\* Written to another file, which replaces the record; errors are swallowed.
ClearSession ==
  /\ At("oauth_clear") /\ Goto("idle")
  /\ \/ file' = [file EXCEPT !.session = FALSE] /\ Answered
     \/ Fault /\ UNCHANGED file
  /\ UNCHANGED <<att, local, server, gone, open, swept, lent, verdict>>

-----------------------------------------------------------------------------
(* The audit *)

\* The deadline may have passed; or the record itself says that the account is disabled
\* or is to be deleted, which somebody else wrote into it, and the server is not asked.
BeginAudit ==
  \/ /\ BeginOn("audit", FALSE, IF file.token THEN "audit_refresh" ELSE "audit_mailbox")
     /\ Verdict(IF file.st = "torn" THEN "inconclusive" ELSE "none")
  \/ BeginOn("audit", TRUE, "idle") /\ Verdict("inconclusive")
  \/ file.st = "ok" /\ BeginOn("audit", TRUE, "idle") /\ Verdict("deleted")

\* A refresh may give a new token, which the audit does not store.
Rotate ==
  /\ tokenok /\ ~gone /\ tokenok' \in BOOLEAN
  /\ UNCHANGED <<account, pw, org, codeok, gone, open, file, swept, lent>>

AuditRefresh ==
  /\ At("audit_refresh")
  /\ \/ Rotate /\ Proceed("idle") /\ verdict' = "succeeded"
     \/ /\ Rotate /\ UNCHANGED verdict
        /\ Fault /\ Goto("audit_mailbox") /\ UNCHANGED <<att, local>>
     \/ Proceed("idle") /\ Verdict("deleted")
     \/ Proceed("audit_mailbox") /\ Ask

\* A session of the audit's own for the address, which nothing releases.
Recover == box' = steps /\ open' = open \union {steps}

\* Without one the record's is used.  The deadline may have passed.
AuditMailbox ==
  /\ At("audit_mailbox")
  /\ \/ /\ Recover /\ Goto("login_open")
        /\ UNCHANGED <<att, keep, surface, server, gone, file, swept, lent, verdict, faults>>
     \/ Proceed("login_open") /\ Ask
     \/ Proceed("idle") /\ Verdict("inconclusive")

-----------------------------------------------------------------------------
(* What happens to the steps *)

Writing == {"persist", "diagnose", "init_write", "org_write"} \union
           (IF kind = "login" THEN {"login_write"} ELSE {})

\* The worker of a task that takes too long is terminated: no finally is run.
Kill ==
  /\ pc # "idle" /\ Fault /\ Goto("idle")
  /\ \/ UNCHANGED file
     \/ pc \in Writing /\ file' = [file EXCEPT !.st = "torn"]
  /\ UNCHANGED <<kind, steps, att, local, server, gone, open, swept, lent, verdict>>

Deactivate ==
  /\ account # "none" /\ ~gone /\ gone' = TRUE
  /\ UNCHANGED <<pc, kind, steps, att, local, server, open, file, swept, lent, verdict, faults>>

Work ==
  \/ OpenSignup \/ WarmUp \/ Authorize \/ SubmitEmail
  \/ UserRegister \/ WaitCode \/ ValidateCode \/ CreateAccount
  \/ PersistRecord \/ PersistPhoneRecord \/ PersistDiagnostics \/ Cleanup
  \/ InitEntry \/ InitContinue \/ InitCode \/ InitWrite
  \/ LoginBootstrap \/ LoginContinue \/ LoginPassword \/ LoginCode
  \/ PersonalAccount \/ LoginWrite
  \/ ExchangeCode \/ OnboardingLogin \/ OrganizationUpdate \/ UserUpdate \/ OrgWrite
  \/ BindMailbox \/ RunOAuth \/ ReleaseSessions \/ ClearSession
  \/ AuditRefresh \/ AuditMailbox

Next ==
  \/ BeginCreate \/ BeginInit \/ BeginLogin \/ BeginOrg \/ BeginOAuth \/ BeginAudit
  \/ Work \/ Kill \/ Deactivate

Spec == Init /\ [][Next]_vars /\ WF_vars(Work)

-----------------------------------------------------------------------------
(* Properties *)

\* Every variable stays within its type.
TypeOK ==
  /\ kind \in {"none", "create", "init", "login", "org", "oauth", "audit"}
  /\ steps \in 0 .. MaxSteps /\ att \in 0 .. (IF kind = "create" THEN SignupAttempts ELSE LoginAttempts)
  /\ keep \in BOOLEAN /\ box \in 0 .. MaxSteps
  /\ surface \in {"early", "wall", "callback", "other"}
  /\ account \in {"none", "registered", "made"} /\ gone \in BOOLEAN
  /\ pw \in {NoPassword} \union ((1 .. MaxSteps) \X (1 .. SignupAttempts))
  /\ org \in {"new", "named", "done"} /\ codeok \in BOOLEAN /\ tokenok \in BOOLEAN
  /\ open \subseteq 1 .. MaxSteps /\ lent \subseteq 1 .. MaxSteps /\ swept \in BOOLEAN
  /\ file.st \in {"none", "torn", "ok"} /\ file.box \in 0 .. MaxSteps
  /\ verdict \in {"none", "succeeded", "deleted", "inconclusive"}
  /\ faults \in 0 .. MaxFaults

\* A record of the run that gave the account its password has that password:
\* also when the answer to the registration was lost and a later attempt of the
\* run, which could not register again, made the account.
RecordedPassword ==
  file.st = "ok" /\ pw # NoPassword /\ pw[1] = file.pw[1] => file.pw = pw

\* The mailbox session that a record names is open until an OAuth releases the
\* sessions of the address: of the creations, however they end, only one that is
\* handed the session by its caller and fails closes it, and a record names a closed
\* one only where the caller handed over a closed one.
RecordHasMailbox == file.st = "ok" /\ ~swept => file.box \in open \union lent

\* What the record says of a step, and an audit of the account, is so at the
\* server: completed steps took effect in full, and only an account whose creation
\* was completed is reported as one that can be logged in to.
ReportsAreTrue ==
  /\ file.init => account # "none"
  /\ file.login => account = "made"
  /\ file.org => org = "done"
  /\ verdict = "succeeded" => account = "made"

\* Every step ends, whatever fails in it.
StepEnds == pc # "idle" ~> pc = "idle"

-----------------------------------------------------------------------------
(* What the code does not keep *)

\* A creation that is repeated with the session of the record, and fails, takes the
\* session from the record (resolve_mailbox, the finally of run_protocol_small_success_once).
RecordKeepsMailbox == file.st = "ok" /\ ~swept => file.box \in open

\* An audit reports accounts as deleted that the server was not asked about, or that
\* some other text seemed to tell of (_terminal_status_from_payload, _looks_deleted).
DeletedMeansGone == verdict = "deleted" => gone
=============================================================================

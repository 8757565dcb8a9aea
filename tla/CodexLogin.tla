----------------------------- MODULE CodexLogin -----------------------------
(***************************************************************************)
(* One run of protocol_register: the registration of an account and its    *)
(* login for tokens, the repair login of an account that is recorded, the  *)
(* hand-over of an authenticated session to Codex, and the resumption of a *)
(* login that stopped at a phone wall.  They share one way to the tokens:  *)
(* a response is searched for a callback URL, a consent page or a place to *)
(* go on from, the callback's code is exchanged, and the tokens exchanged  *)
(* once more when they are of another workspace than the one wanted.  A    *)
(* step that fails raises a phone wall, a RuntimeError or another error,   *)
(* and where the run goes on depends on which of them.  A definition       *)
(* marked "mutant" is a bug the code does not have.                        *)
(***************************************************************************)
EXTENDS Naturals, FiniteSets, Sequences

CONSTANTS
  Runs,       \* the kinds of runs: a subset of Run
  Known,      \* the states of the account a registration may find
  Workspace,  \* the kinds of the account's workspaces
  Nothing,    \* no workspace, no tokens
  Preferred,  \* the values of PROTOCOL_PREFERRED_WORKSPACE_KIND
  Named,      \* what PROTOCOL_PREFERRED_WORKSPACE_ID or _NAME may pick, or Nothing
  Passwords,  \* whether the record of the account has a password: {TRUE, FALSE} or one of them
  Hops,       \* max_redirects
  Depth,      \* how deep consent pages can lead to each other: the recursion limit
  MaxMail,    \* bound on the messages of the mailbox
  MaxFaults   \* bound on the answers that are lost

Run == {"register", "repair", "handoff", "phone"}

ASSUME CodexAssumption ==
  /\ Runs \subseteq Run /\ Known \subseteq {"none", "registered", "made"}
  /\ Nothing \notin Workspace /\ "personal" \in Workspace
  /\ Preferred \subseteq Workspace \union {Nothing} /\ Named \subseteq Workspace \union {Nothing}
  /\ Passwords \subseteq BOOLEAN /\ Hops \in Nat \ {0} /\ Depth \in Nat
ASSUME CodexBoundAssumption == MaxMail \in Nat /\ MaxFaults \in Nat

VARIABLES
  pc,       \* where the run is
  run,      \* its kind
  recorded, \* whether it knows the account's password
  preferred, \* the kind of workspace it is to have tokens of
  named,    \* the kind of the workspace that it is to have tokens of by id or name
  via,      \* the attempt at the tokens it makes
  cand,     \* the candidate of _maybe_finish_codex_oauth_from_response: 1 .. 5
  hops,     \* the redirects followed
  depth,    \* the consent pages within each other
  account,  \* the server: "none", "registered" with a password, or "made"
  asked,    \* the codes that the server was asked for
  floor,    \* otp_min_mail_id: the messages that are too old
  mail,     \* the mailbox: which code each message has, as they arrived
  coming,   \* the codes whose message is on its way
  sel,      \* the workspace selected in this attempt
  held,     \* the workspace of the tokens that the run has
  issued,   \* the server: how often it issued tokens
  dropped,  \* how often the run had a choice of tokens, and dropped some
  excuse,   \* history: why the wanted workspace was not to be had
  out,      \* what the run returns
  faults

progress == <<via, cand, hops, depth, sel>>
tokens == <<held, issued, dropped, excuse>>
mailbox == <<mail, coming>>
chosen == <<run, recorded, preferred, named>>
vars == <<pc, chosen, progress, account, asked, floor, mailbox, tokens, out, faults>>

Init ==
  /\ run \in Runs /\ preferred \in Preferred /\ named \in Named
  /\ recorded \in IF run = "repair" THEN Passwords ELSE {run = "register"}
  /\ account \in IF run = "register" THEN Known ELSE {"made"}
  /\ pc = CASE run = "register" -> "signup" [] run = "repair" -> "baseline"
            [] run = "handoff" -> "restore" [] run = "phone" -> "number"
  /\ via = "none" /\ cand = 1 /\ hops = 0 /\ depth = 0 /\ sel = Nothing
  /\ asked = 0 /\ floor = 0 /\ mail \in {<<>>, <<0>>} /\ coming = {}
  /\ held = Nothing /\ issued = 0 /\ dropped = 0 /\ excuse = "none"
  /\ out = "none" /\ faults = 0

Goto(l) == pc' = l
Fault == faults < MaxFaults /\ faults' = faults + 1
EndWithNothing(o) == Goto("done") /\ UNCHANGED out   \* mutant
End(o) == Goto("done") /\ out' = o

\* Another attempt at the tokens begins.
Try(v, l) ==
  /\ via' = v /\ cand' = 1 /\ hops' = 0 /\ depth' = 0 /\ sel' = Nothing
  /\ Goto(l) /\ UNCHANGED out

\* _exchange_authenticated_session_for_codex_result: SelectWorkspace, Hop, Exchange
\* and Lookup, one after the other.
TryExchange == Try("exchange", "workspace")

-----------------------------------------------------------------------------
(* Where an error lands *)

Error == {"wall", "runtime", "other"}

\* _maybe_finish_codex_oauth_from_response goes on to its next candidate after a
\* RuntimeError, which a phone wall is as well; but not when the response had a
\* callback of its own.
Swallowed(e) == via \in {"prior", "replay", "prime"} /\ cand > 1 /\ e # "other"

SameCandidate ==   \* mutant
  /\ hops' = 0 /\ depth' = 0 /\ sel' = Nothing
  /\ Goto("look") /\ UNCHANGED <<via, cand, out>>
NextCandidate ==
  /\ cand' = cand + 1 /\ hops' = 0 /\ depth' = 0 /\ sel' = Nothing
  /\ Goto("look") /\ UNCHANGED <<via, out>>

FinishWith(o) == End(o) /\ UNCHANGED progress

\* The browser's errors, and the ones of the workspace exchange, lead to a phone
\* result or to the next attempt; the others end the run.
RaiseInHandoff(e) ==
  \/ via \in {"exchange", "chain", "browser"} /\ e = "wall" /\ FinishWith("phone")
  \/ via = "browser" /\ e # "wall" /\ TryExchange
  \/ /\ via = "exchange" /\ e = "runtime"
     /\ \/ Try("chain", "hop")
        \/ FinishWith("error")
  \/ via \in {"exchange", "chain"} /\ e = "other" /\ FinishWith("error")
  \/ via = "chain" /\ e = "runtime" /\ FinishWith("error")
  \/ via \notin {"exchange", "chain", "browser"} /\ FinishWith("error")

Raise(e) ==
  IF Swallowed(e) THEN NextCandidate
  ELSE CASE run = "handoff" -> RaiseInHandoff(e)
         [] run = "phone" -> FinishWith("error")
         [] OTHER -> CASE via = "stage2" -> Try("none", "baseline")
                       [] via \in {"prior", "replay"} -> TryExchange
                       [] OTHER -> FinishWith("error")

-----------------------------------------------------------------------------
(* The tokens *)

\* _select_workspace_entry: by id or name, then by kind, then by index or anyhow
Choice(entries) ==
  IF named \in entries THEN {named}
  ELSE IF preferred \in entries THEN {preferred} ELSE entries

\* submit_callback_url and _post_form.  The code is good once, so an answer that is
\* lost cannot be asked for again.
Issue(w) == held' = w /\ issued' = issued + 1
LostIssue == issued' = issued + 1 /\ Fault /\ UNCHANGED held

-----------------------------------------------------------------------------
(* The mailbox *)

\* The server sends a code, which supersedes the ones before it; its message may
\* never arrive.
Sent(n) == asked' = asked + n /\ coming' = coming \union (asked + 1 .. asked + n)
Send == Sent(1)

\* _protocol_request_with_transient_retry: a call whose answer is lost is made again,
\* and the server has sent two codes.
SendTwice == Sent(2) /\ Fault
SendRetried == (Send /\ UNCHANGED faults) \/ SendTwice

\* get_mailbox_latest_message_id; 0 when there is no answer.
Snapshot ==
  \/ floor' = Len(mail) /\ UNCHANGED faults
  \/ floor' = 0 /\ Fault

\* wait_openai_code has the newest message that is not too old, or nothing in
\* time; email-otp/validate takes the code if none was sent after it.
Accepted == Len(mail) > floor /\ mail[Len(mail)] = asked

\* A message that comes after the last wait for one makes no difference.
Deliver ==
  /\ pc # "done" /\ via \in {"none", "stage2"} /\ Len(mail) < MaxMail
  /\ \E n \in coming : mail' = Append(mail, n) /\ coming' = coming \ {n}
  /\ UNCHANGED <<pc, chosen, progress, account, asked, floor, tokens, out, faults>>

-----------------------------------------------------------------------------
(* run_protocol_registration_once *)

\* The baseline and the authorize.
Signup ==
  /\ pc = "signup"
  /\ \/ Snapshot /\ Goto("submit") /\ UNCHANGED out
     \/ End("error") /\ UNCHANGED <<floor, faults>>
  /\ UNCHANGED <<chosen, progress, account, asked, mailbox, tokens>>

\* authorize/continue: a new account is to be registered.  To one that is there
\* already, whose password the run does not have, the server sends a code by itself,
\* or is asked to, or both.  A phone wall and a refusal are errors alike.
SubmitEmail ==
  /\ pc = "submit"
  /\ \/ /\ account = "none" /\ Goto("register")
        /\ UNCHANGED <<recorded, asked, coming, faults, out>>
     \/ /\ account # "none" /\ recorded' = FALSE /\ Goto("send") /\ UNCHANGED out
        /\ SendRetried \/ (Sent(2) /\ UNCHANGED faults)
     \/ End("error") /\ UNCHANGED <<recorded, asked, coming, faults>>
  /\ UNCHANGED <<run, preferred, named, progress, account, floor, mail, tokens>>

\* user/register; an answer that is lost, or a phone wall, leaves an account
\* whose password nobody knows.
Register ==
  /\ pc = "register"
  /\ \/ account' = "registered" /\ Goto("send") /\ UNCHANGED <<out, faults>>
     \/ account' = "registered" /\ End("error") /\ Fault
     \/ End("error") /\ UNCHANGED <<account, faults>>
  /\ UNCHANGED <<chosen, progress, asked, floor, mailbox, tokens>>

\* An error of _send_email_otp is not fatal.  The code that SubmitEmail sent, if
\* any, is superseded.
SendCode ==
  /\ pc = "send" /\ Goto("code")
  /\ SendRetried \/ UNCHANGED <<asked, coming, faults>>
  /\ UNCHANGED <<chosen, progress, account, floor, mail, tokens, out>>

\* The wait for the code and email-otp/validate.  Only a new account is gone on with,
\* even if the one that is there was never completed.
ValidateSignup ==
  /\ pc = "code"
  /\ \/ Accepted /\ Goto(IF recorded THEN "create" ELSE "nopassword") /\ UNCHANGED out
     \/ End("error")
  /\ UNCHANGED <<chosen, progress, account, asked, floor, mailbox, tokens, faults>>

\* create_account, and then stage 2 with the password that was made up.
CreateAccount ==
  /\ pc = "create"
  /\ \/ account' = "made" /\ Try("stage2", "login") /\ UNCHANGED faults
     \/ account' = "made" /\ FinishWith("error") /\ Fault
     \/ FinishWith("error") /\ UNCHANGED <<account, faults>>
  /\ UNCHANGED <<chosen, asked, floor, mailbox, tokens>>

\* existing_account_no_password
NoPassword ==
  /\ pc = "nopassword" /\ FinishWith("error")
  /\ UNCHANGED <<chosen, account, asked, floor, mailbox, tokens, faults>>

-----------------------------------------------------------------------------
(* _codex_cli_login_for_token, stage 2: whatever goes wrong leads to the repair *)

\* The password is verified, and the server may want a code for it.
Stage2Login ==
  /\ pc = "login"
  /\ \/ Goto("stage2_workspace") /\ UNCHANGED <<progress, asked, coming, out>>
     \/ Goto("login_code") /\ Send /\ UNCHANGED <<progress, out>>
     \/ Raise("runtime") /\ UNCHANGED <<asked, coming>>
  /\ UNCHANGED <<chosen, account, floor, mail, tokens, faults>>

\* The code is waited for from the baseline of the registration, so the one that
\* is used up already may be taken.
Stage2Code ==
  /\ pc = "login_code"
  /\ \/ Accepted /\ Goto("stage2_workspace") /\ UNCHANGED <<progress, out>>
     \/ Raise("runtime")
  /\ UNCHANGED <<chosen, account, asked, floor, mailbox, tokens, faults>>

Stage2Workspace ==
  /\ pc = "stage2_workspace"
  /\ \/ \E entries \in SUBSET Workspace : \E w \in Choice(entries) :
          sel' = w /\ hops' = 0 /\ Goto("stage2_hop") /\ UNCHANGED <<via, cand, depth, out>>
     \/ Raise("runtime")
  /\ UNCHANGED <<chosen, account, asked, floor, mailbox, tokens, faults>>

\* The redirects, on which a consent page is accepted.
Stage2Hop ==
  /\ pc = "stage2_hop"
  /\ \/ hops < Hops /\ Goto("stage2_exchange") /\ UNCHANGED <<progress, out>>
     \/ hops < Hops /\ hops' = hops + 1 /\ UNCHANGED <<pc, via, cand, depth, sel, out>>
     \/ Raise("runtime")
  /\ UNCHANGED <<chosen, account, asked, floor, mailbox, tokens, faults>>

\* The tokens are returned as they are, of whatever workspace.
Stage2Exchange ==
  /\ pc = "stage2_exchange"
  /\ \/ Issue(sel) /\ Goto("return") /\ UNCHANGED <<progress, out, faults>>
     \/ LostIssue /\ Raise("runtime")
     \/ Raise("runtime") /\ UNCHANGED <<held, issued, faults>>
  /\ UNCHANGED <<chosen, account, asked, floor, mailbox, dropped, excuse>>

-----------------------------------------------------------------------------
(* run_protocol_repair_once *)

Baseline ==
  /\ pc = "baseline" /\ Snapshot /\ Goto("relogin")
  /\ UNCHANGED <<chosen, progress, account, asked, mailbox, tokens, out>>

\* The authorize and authorize/continue, which a browser may have to make again.
Relogin ==
  /\ pc = "relogin"
  /\ \/ Goto("page") /\ UNCHANGED <<progress, out>>
     \/ FinishWith("error")
  /\ UNCHANGED <<chosen, account, asked, floor, mailbox, tokens, faults>>

\* _resolve_repair_oauth_entry: the server asks for the password, which is there or
\* not, or for a code.
ResolveEntry ==
  /\ pc = "page"
  /\ \/ recorded /\ Goto("verify") /\ UNCHANGED <<progress, out>>
     \/ ~recorded /\ Goto("passwordless") /\ UNCHANGED <<progress, out>>
     \/ Goto("ask") /\ UNCHANGED <<progress, out>>
     \/ FinishWith("error")
  /\ UNCHANGED <<chosen, account, asked, floor, mailbox, tokens, faults>>

\* _verify_login_password: then a code is asked for, or there is a phone wall, or a
\* page to go on from.
VerifyPassword ==
  /\ pc = "verify"
  /\ \/ Goto("ask") /\ UNCHANGED <<progress, out>>
     \/ Try("prior", "look")
     \/ FinishWith("phone")
     \/ FinishWith("error")
  /\ UNCHANGED <<chosen, account, asked, floor, mailbox, tokens, faults>>

\* _send_passwordless_login_otp
Passwordless ==
  /\ pc = "passwordless"
  /\ \/ Goto("ask") /\ SendRetried /\ UNCHANGED <<progress, out>>
     \/ FinishWith("error") /\ UNCHANGED <<asked, coming, faults>>
  /\ UNCHANGED <<chosen, account, floor, mail, tokens>>

\* Where the page is not there already, or another code is wanted of it, the code is
\* sent; otherwise not, so that one that the server sent by itself stays good.
AskCode ==
  /\ pc = "ask"
  /\ \/ Goto("repair_code") /\ SendRetried /\ UNCHANGED <<progress, out>>
     \/ Goto("repair_code") /\ UNCHANGED <<progress, asked, coming, faults, out>>
     \/ FinishWith("error") /\ UNCHANGED <<asked, coming, faults>>
  /\ UNCHANGED <<chosen, account, floor, mail, tokens>>

RepairCode ==
  /\ pc = "repair_code"
  /\ \/ Accepted /\ Try("prior", "look")
     \/ Accepted /\ FinishWith("phone")
     \/ FinishWith("error")
  /\ UNCHANGED <<chosen, account, asked, floor, mailbox, tokens, faults>>

-----------------------------------------------------------------------------
(* _handoff_authenticated_chatgpt_session_to_codex *)

\* restore_authenticated_session_from_context: the session is of this proxy, and
\* not too old.
Restore ==
  /\ pc = "restore"
  /\ \/ Try("direct", "authorize")
     \/ FinishWith("error")
  /\ UNCHANGED <<chosen, account, asked, floor, mailbox, tokens, faults>>

\* The authorize redirects to the callback, to a page, or nowhere.
Authorize ==
  /\ pc = "authorize"
  /\ \/ Try("direct", "exchange") \/ Try("prime", "look") \/ TryExchange
     \/ FinishWith("phone") \/ FinishWith("error")
  /\ UNCHANGED <<chosen, account, asked, floor, mailbox, tokens, faults>>

\* _complete_codex_oauth_with_browser
Browser ==
  /\ pc = "browser"
  /\ \/ Goto("exchange") /\ UNCHANGED <<progress, out>>
     \/ \E e \in {"wall", "other"} : Raise(e)
  /\ UNCHANGED <<chosen, account, asked, floor, mailbox, tokens, faults>>

-----------------------------------------------------------------------------
(* The phone wall *)

\* _submit_phone_number_via_protocol_session: some answers are final; an error is
\* kept, and a browser is tried.
PhoneNumber ==
  /\ pc = "number"
  /\ \/ Goto("sms") /\ UNCHANGED <<progress, out>>
     \/ Goto("number_browser") /\ UNCHANGED <<progress, out>>
     \/ FinishWith("terminal")
  /\ UNCHANGED <<chosen, account, asked, floor, mailbox, tokens, faults>>

\* submit_phone_number_for_resume: the browser
PhoneBrowser ==
  /\ pc = "number_browser"
  /\ \/ Goto("sms") /\ UNCHANGED <<progress, out>>
     \/ FinishWith("error")
  /\ UNCHANGED <<chosen, account, asked, floor, mailbox, tokens, faults>>

\* submit_phone_verification_code_for_resume: only the callback of this login's
\* redirect URI is exchanged; otherwise the login is replayed.
PhoneCode ==
  /\ pc = "sms"
  /\ \/ Try("callback", "exchange") \/ Try("prior", "replay") \/ FinishWith("error")
  /\ UNCHANGED <<chosen, account, asked, floor, mailbox, tokens, faults>>

-----------------------------------------------------------------------------
(* _maybe_finish_codex_oauth_from_response and what it calls *)

\* The candidates of a response: its callback, a consent page, its continue_url,
\* its location.
Look ==
  /\ pc = "look"
  /\ \/ \E c \in cand .. 4 :
          /\ cand' = c
          /\ Goto(IF c = 1 THEN "exchange" ELSE IF c = 2 THEN "consent" ELSE "hop")
     \/ Goto("nothing") /\ UNCHANGED cand
  /\ UNCHANGED <<chosen, via, hops, depth, sel, account, asked, floor, mailbox, tokens, out, faults>>

\* There was none: the login is replayed, or else it is an error; the hand-over
\* goes on in a browser or with the workspace exchange.
NoCandidate ==
  /\ pc = "nothing"
  /\ \/ via = "prior" /\ Goto("replay") /\ UNCHANGED <<progress, out>>
     \/ via = "replay" /\ cand' = 1 /\ Goto("noredirect") /\ UNCHANGED <<via, hops, depth, sel, out>>
     \/ via = "prime" /\ Try("browser", "browser")
     \/ via = "prime" /\ TryExchange
  /\ UNCHANGED <<chosen, account, asked, floor, mailbox, tokens, faults>>

\* _continue_authenticated_codex_oauth
Replay ==
  /\ pc = "replay"
  /\ \/ Try("replay", "look")
     \/ Raise("other")
  /\ UNCHANGED <<chosen, account, asked, floor, mailbox, tokens, faults>>

NoRedirect ==
  /\ pc = "noredirect" /\ Raise("runtime")
  /\ UNCHANGED <<chosen, account, asked, floor, mailbox, tokens, faults>>

\* _follow_redirect_chain_for_callback.  A phone wall is a RuntimeError here.
Hop ==
  /\ pc = "hop"
  /\ \/ hops < Hops /\ Goto("exchange") /\ UNCHANGED <<progress, out>>
     \/ hops < Hops /\ hops' = hops + 1 /\ Goto("hop") /\ UNCHANGED <<via, cand, depth, sel, out>>
     \/ hops < Hops /\ Goto("consent") /\ UNCHANGED <<progress, out>>
     \/ Raise("runtime")
     \/ hops < Hops /\ Raise("other")
  /\ UNCHANGED <<chosen, account, asked, floor, mailbox, tokens, faults>>

\* _submit_workspace_selection_for_callback: the redirects from there are followed.
SelectAndFollow(w) == sel' = w /\ hops' = 0 /\ Goto("hop") /\ UNCHANGED <<via, cand, out>>

\* _submit_codex_consent_form: a form or a link leads on, or a workspace is
\* selected.  One consent page can lead to another until Python's stack is full.
Consent ==
  /\ pc = "consent"
  /\ \/ Goto("exchange") /\ UNCHANGED <<progress, out>>
     \/ /\ depth < Depth /\ depth' = depth + 1 /\ hops' = 0
        /\ Goto("hop") /\ UNCHANGED <<via, cand, sel, out>>
     \/ \E w \in Workspace :
          depth < Depth /\ depth' = depth + 1 /\ SelectAndFollow(w)
     \/ \E e \in Error : Raise(e)
  /\ UNCHANGED <<chosen, account, asked, floor, mailbox, tokens, faults>>

\* _fetch_chatgpt_account_entries_from_session: none when the call is refused.
AccountEntries == SUBSET Workspace

\* The workspace of the session (_extract_workspace_id_from_session) is selected.
SelectWorkspace ==
  /\ pc = "workspace"
  /\ \/ \E entries \in AccountEntries : \E w \in Choice(entries) :
          SelectAndFollow(w) /\ UNCHANGED depth
     \/ \E e \in Error : Raise(e)
  /\ UNCHANGED <<chosen, account, asked, floor, mailbox, tokens, faults>>

-----------------------------------------------------------------------------
(* The tokens *)

\* _callback_result_from_url; the callback after a phone code is not looked into.
Exchange ==
  /\ pc = "exchange"
  /\ \/ \E w \in IF sel = Nothing THEN Workspace ELSE {sel} :
          /\ Issue(w) /\ UNCHANGED <<progress, out, faults>>
          /\ Goto(IF via = "callback" THEN "return" ELSE "lookup")
     \/ LostIssue /\ Raise("runtime")
     \/ \E e \in {"runtime", "other"} : Raise(e) /\ UNCHANGED <<held, issued, faults>>
  /\ UNCHANGED <<chosen, account, asked, floor, mailbox, dropped, excuse>>

MisplacedUnlessSelected(entries, w) ==   \* mutant
  "personal" \in entries /\ held # w /\ sel = Nothing
Misplaced(entries, w) == "personal" \in entries /\ held # w

\* _maybe_recover_personal_protocol_result asks for the workspaces, unless the tokens
\* name no account; an error in the answer is no list, like an empty one; the error
\* of the call itself is not caught, and the tokens are gone.
Lookup ==
  /\ pc = "lookup"
  /\ \/ /\ preferred # "personal" /\ Goto("return")
        /\ UNCHANGED <<progress, held, excuse, out, faults>>
     \/ /\ preferred = "personal" /\ Goto("return") /\ excuse' = "unlisted"
        /\ UNCHANGED <<progress, held, out, faults>>
     \/ /\ preferred = "personal"
        /\ \E entries \in SUBSET Workspace : \E w \in Choice(entries) :
             /\ Goto(IF Misplaced(entries, w) THEN "switch" ELSE "return")
             /\ sel' = IF Misplaced(entries, w) THEN w ELSE sel
             /\ excuse' = IF "personal" \in entries THEN excuse ELSE "absent"
        /\ UNCHANGED <<via, cand, hops, depth, held, out, faults>>
     \/ preferred = "personal" /\ Fault /\ held' = Nothing /\ Raise("other") /\ UNCHANGED excuse
  /\ UNCHANGED <<chosen, account, asked, floor, mailbox, issued, dropped>>

\* ... selects the workspace it chose and exchanges again; whatever goes wrong, the
\* tokens that it has are good.
SwitchOrRaise ==   \* mutant
  /\ pc = "switch"
  /\ \/ /\ held' = sel /\ issued' = issued + 1 /\ dropped' = dropped + 1
        /\ Goto("return") /\ UNCHANGED <<progress, excuse, out, faults>>
     \/ held' = Nothing /\ Raise("runtime") /\ UNCHANGED <<issued, dropped, excuse, faults>>
  /\ UNCHANGED <<chosen, account, asked, floor, mailbox>>
Switch ==
  /\ pc = "switch" /\ Goto("return")
  /\ \/ /\ held' = sel /\ issued' = issued + 1 /\ dropped' = dropped + 1
        /\ UNCHANGED <<excuse, faults>>
     \/ /\ excuse' = "refused" /\ UNCHANGED held
        /\ \/ issued' = issued + 1 /\ dropped' = dropped + 1 /\ UNCHANGED faults
           \/ issued' = issued + 1 /\ UNCHANGED dropped /\ Fault
           \/ UNCHANGED <<issued, dropped, faults>>
  /\ UNCHANGED <<chosen, progress, account, asked, floor, mailbox, out>>

Return ==
  /\ pc = "return" /\ run # "phone" /\ FinishWith("tokens")
  /\ UNCHANGED <<chosen, account, asked, floor, mailbox, tokens, faults>>

\* submit_phone_verification_code_from_path writes them to a file before it answers;
\* when that fails they are gone.
Save ==
  /\ pc = "return" /\ run = "phone"
  /\ \/ FinishWith("tokens") /\ UNCHANGED <<held, faults>>
     \/ FinishWith("error") /\ held' = Nothing /\ Fault
  /\ UNCHANGED <<chosen, account, asked, floor, mailbox, issued, dropped, excuse>>

-----------------------------------------------------------------------------
Step ==
  \/ Signup \/ SubmitEmail \/ Register \/ SendCode \/ ValidateSignup \/ CreateAccount
  \/ NoPassword \/ Stage2Login \/ Stage2Code \/ Stage2Workspace \/ Stage2Hop \/ Stage2Exchange
  \/ Baseline \/ Relogin \/ ResolveEntry \/ VerifyPassword \/ Passwordless \/ AskCode \/ RepairCode
  \/ Restore \/ Authorize \/ Browser \/ PhoneNumber \/ PhoneBrowser \/ PhoneCode
  \/ Look \/ NoCandidate \/ Replay \/ NoRedirect \/ Hop \/ Consent \/ SelectWorkspace
  \/ Exchange \/ Lookup \/ Switch \/ Return \/ Save

Next == Step \/ Deliver

\* Every call returns or times out.
Spec == Init /\ [][Next]_vars /\ WF_vars(Step)

-----------------------------------------------------------------------------
(* Properties *)

Label == {"signup", "submit", "register", "send", "code", "create", "nopassword", "login",
          "login_code", "stage2_workspace", "stage2_hop", "stage2_exchange", "baseline", "relogin",
          "page", "verify", "passwordless", "ask", "repair_code", "restore", "authorize", "browser", "number", "number_browser", "sms",
          "look", "nothing", "replay", "noredirect", "hop", "consent", "workspace",
          "exchange", "lookup", "switch", "return", "done"}
Attempt == {"none", "stage2", "prior", "replay", "exchange", "chain", "direct", "prime",
            "browser", "callback"}
Excuse == {"none", "unlisted", "absent", "refused"}

\* The types, and: a run is done exactly when it has a result, only an attempt at
\* the tokens is in the places that the attempts share, and no redirect chain or
\* nest of consent pages is longer than its limit.
TypeOK ==
  /\ pc \in Label /\ run \in Runs /\ preferred \in Preferred /\ named \in Named /\ recorded \in BOOLEAN
  /\ via \in Attempt
  /\ cand \in 1 .. 5 /\ hops \in 0 .. Hops /\ depth \in 0 .. Depth
  /\ account \in {"none", "registered", "made"} /\ asked \in 0 .. 6 + MaxFaults
  /\ floor \in 0 .. MaxMail + 1 /\ mail \in Seq(0 .. asked) /\ coming \subseteq 1 .. asked
  /\ sel \in Workspace \union {Nothing} /\ held \in Workspace \union {Nothing}
  /\ issued \in Nat /\ dropped \in Nat /\ excuse \in Excuse
  /\ out \in {"none", "tokens", "phone", "terminal", "error"} /\ faults \in 0 .. MaxFaults
  /\ (pc = "done") <=> (out # "none")
  /\ pc \in {"look", "nothing", "hop", "stage2_hop", "consent", "workspace", "exchange", "lookup"} => via # "none"

Count(b) == IF b THEN 1 ELSE 0

\* No tokens are lost: of the times that the server issued tokens to the run, it
\* has one, all that it dropped were dropped for others, and each other one had
\* an answer that was lost (submit_callback_url, _maybe_recover_personal_protocol_result).
TokensAccountedFor == issued <= dropped + faults + Count(held # Nothing)

\* A run that is to have tokens of the personal workspace returns others only for one
\* of four reasons: another workspace was asked for by its id or name; the account
\* was seen to have no personal one; the switch to it was refused; or the account's
\* workspaces could not be seen, as the tokens name no account or the lookup was
\* answered with an error or an empty list, and the tokens are kept as they are.
\* Stage 2 and the callback after a phone code do not look
\* (_maybe_recover_personal_protocol_result, _select_workspace_entry).
PersonalUnlessRefused ==
  out = "tokens" /\ preferred = "personal" /\ via \notin {"stage2", "callback"}
    => held \in {"personal", named} \/ excuse \in {"absent", "refused", "unlisted"}

\* Whatever pages the server answers with, the run comes to an end: the redirects,
\* the nested consent pages, the candidates of a response and the fallbacks from
\* one attempt to the next do not go round.
RunEnds == <>(pc = "done")
-----------------------------------------------------------------------------
(* What the code does not keep *)

\* A lookup that merely failed is no reason to keep tokens of the wrong workspace
\* (_fetch_chatgpt_account_entries_from_auth_payload, which has no list then).
PersonalWhenThereIs ==
  out = "tokens" /\ preferred = "personal" /\ via \notin {"stage2", "callback"}
    => held \in {"personal", named} \/ excuse \in {"absent", "refused"}
=============================================================================

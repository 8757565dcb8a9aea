-------------------------- MODULE CodexLoginProofs --------------------------
(***************************************************************************)
(* What becomes of the tokens in a run of protocol_register, for every     *)
(* limit of redirects and of nested consent pages, every mailbox and every *)
(* number of lost answers.                                                 *)
(***************************************************************************)
EXTENDS CodexLogin, SequenceTheorems, TLAPS

SignupAt == {"signup", "submit", "register", "send", "code", "create", "nopassword"}
Stage2At == {"login", "login_code", "stage2_workspace", "stage2_hop", "stage2_exchange"}
RepairAt == {"baseline", "relogin", "page", "verify", "passwordless", "ask", "repair_code"}
PagesAt == {"look", "nothing", "browser", "replay", "noredirect", "hop", "consent", "workspace",
            "exchange", "lookup", "switch"}

\* The attempt at the tokens a place belongs to, and the candidate there: an error
\* has a candidate to go on to.
Places ==
  /\ pc \in SignupAt \union RepairAt => via = "none"
  /\ pc \in Stage2At => via = "stage2"
  /\ pc \in PagesAt => via \notin {"none", "stage2"}
  /\ pc \in {"hop", "consent", "workspace", "exchange", "lookup"} => cand <= 4
  /\ pc \in {"browser", "noredirect"} => cand = 1
  /\ pc \in {"stage2_hop", "stage2_exchange"} => sel # Nothing

\* The run has tokens exactly where it looks at them, and when it returns them.
Holding ==
  held # Nothing <=> pc \in {"lookup", "switch", "return"} \/ out = "tokens"

\* Tokens of the wrong workspace go to the switch, and the others are returned.
Wanted ==
  pc = "return" /\ preferred = "personal" /\ via \notin {"stage2", "callback"}
    => held \in {"personal", named} \/ excuse \in {"absent", "refused", "unlisted"}

\* Tokens are taken to the switch from a way that looks at them.
Chosen ==
  pc = "switch" => sel \in {"personal", named} /\ sel # Nothing /\ preferred = "personal"

\* The parts of the type.
Choices ==
  /\ run \in Runs /\ preferred \in Preferred /\ named \in Named /\ recorded \in BOOLEAN
  /\ account \in {"none", "registered", "made"} /\ faults \in 0 .. MaxFaults

Progress ==
  /\ pc \in Label /\ via \in Attempt
  /\ cand \in 1 .. 5 /\ hops \in 0 .. Hops /\ depth \in 0 .. Depth
  /\ sel \in Workspace \union {Nothing}
  /\ out \in {"none", "tokens", "phone", "terminal", "error"}
  /\ (pc = "done") <=> (out # "none")

\* The most codes a run has asked for when it is at a place, but for those whose
\* request was made twice.
Codes ==
  /\ asked \in Nat /\ asked <= 6 + faults
  /\ pc \in {"signup", "submit", "register"} => asked <= faults
  /\ pc = "send" => asked <= 2 + faults
  /\ pc \in {"code", "create", "nopassword", "login"} => asked <= 3 + faults
  /\ pc \in (Stage2At \union RepairAt) \ {"ask", "repair_code"} => asked <= 4 + faults
  /\ pc = "ask" => asked <= 5 + faults

Box ==
  /\ floor \in 0 .. MaxMail + 1
  /\ mail \in Seq(0 .. asked) /\ Len(mail) <= MaxMail + 1
  /\ coming \subseteq 1 .. asked

Tokens ==
  /\ held \in Workspace \union {Nothing}
  /\ issued \in Nat /\ dropped \in Nat /\ excuse \in Excuse

IInv ==
  /\ Choices /\ Progress /\ Places /\ Codes /\ Box
  /\ Tokens /\ Holding /\ Chosen /\ Wanted /\ TokensAccountedFor /\ PersonalUnlessRefused

USE CodexAssumption, CodexBoundAssumption DEF CodexAssumption, CodexBoundAssumption

-----------------------------------------------------------------------------
(* Where an error may lead *)

Raised(e) ==
  \/ FinishWith("error") \/ FinishWith("phone")
  \/ via \in {"prior", "replay", "prime"} /\ cand > 1 /\ e # "other" /\ NextCandidate
  \/ via = "stage2" /\ Try("none", "baseline")
  \/ via \notin {"none", "stage2"} /\ (TryExchange \/ Try("chain", "hop"))

\* An error in an attempt at the tokens ends the run or leads to the next attempt.
LEMMA RaiseLeads ==
  ASSUME NEW e, Raise(e), via # "none"
  PROVE  Raised(e)
<1> USE DEF FinishWith, End, Goto, Try, TryExchange, NextCandidate, progress
<1>1. CASE Swallowed(e)
  BY <1>1 DEF Raise, Raised, Swallowed
<1>2. CASE ~Swallowed(e) /\ run = "handoff"
  <2>1. RaiseInHandoff(e)
    BY <1>2 DEF Raise
  <2>2. QED
    BY <2>1 DEF Raised, RaiseInHandoff
<1>3. CASE ~Swallowed(e) /\ run # "handoff"
  BY <1>3 DEF Raise, Raised
<1>4. QED
  BY <1>1, <1>2, <1>3

\* The kind of the run and the state of the account.
LEMMA ChoicesKept ==
  ASSUME IInv, Step
  PROVE  Choices'
<1> USE DEF IInv, Choices, SignupAt, RepairAt, Stage2At, PagesAt, chosen, progress, tokens,
   mailbox
<1>1. CASE Signup \/ SubmitEmail \/ Register \/ SendCode \/ ValidateSignup \/ CreateAccount \/
   NoPassword
  <2>1. CASE Signup
    BY <2>1 DEF Signup, Snapshot, Goto, End, Fault
  <2>2. CASE SubmitEmail
    <3>1. recorded' \in BOOLEAN
      BY <2>2 DEF SubmitEmail
    <3>2. run' \in Runs /\ preferred' \in Preferred /\ named' \in Named
          /\ account' \in {"none", "registered", "made"}
      BY <2>2 DEF SubmitEmail
    <3>3. faults' \in 0 .. MaxFaults
      BY <2>2 DEF SubmitEmail, SendRetried, SendTwice, Fault
    <3>4. QED
      BY <3>1, <3>2, <3>3
  <2>3. CASE Register \/ SendCode
    BY <2>3 DEF Register, SendCode, Goto, End, Fault, SendRetried, SendTwice
  <2>4. CASE ValidateSignup \/ CreateAccount \/ NoPassword
    BY <2>4 DEF ValidateSignup, CreateAccount, NoPassword, Fault
  <2>5. QED
    BY <1>1, <2>1, <2>2, <2>3, <2>4
<1>2. CASE Stage2Login \/ Stage2Code \/ Stage2Workspace \/ Stage2Hop \/ Stage2Exchange
  BY <1>2, RaiseLeads DEF Stage2Login, Stage2Code, Stage2Workspace, Stage2Hop, Stage2Exchange,
     Raised, NextCandidate, Error, Fault, Goto, End, FinishWith, Try, TryExchange, Send, Sent, Choice,
     Issue, LostIssue
<1>3. CASE Baseline \/ Relogin \/ ResolveEntry \/ VerifyPassword \/ Passwordless \/ AskCode \/
   RepairCode
  BY <1>3 DEF Baseline, Relogin, ResolveEntry, VerifyPassword, Passwordless, AskCode,
     RepairCode, Snapshot, Goto, Fault, FinishWith, End, Try, SendRetried, Send, Sent, SendTwice
<1>4. CASE Restore \/ Authorize \/ Browser \/ PhoneNumber \/ PhoneBrowser \/ PhoneCode
  BY <1>4, RaiseLeads DEF Restore, Authorize, Browser, PhoneNumber, PhoneBrowser, PhoneCode,
     Raised, NextCandidate, Error, Fault, Goto, End, FinishWith, Try, TryExchange
<1>5. CASE Look \/ NoCandidate \/ Replay \/ NoRedirect \/ Hop \/ Consent \/ SelectWorkspace
  BY <1>5, RaiseLeads DEF Look, NoCandidate, Replay, NoRedirect, Hop, Consent, SelectWorkspace,
     Raised, NextCandidate, Error, Fault, Goto, End, FinishWith, Try, TryExchange,
     SelectAndFollow, Choice, AccountEntries
<1>6. CASE Exchange \/ Lookup \/ Switch \/ Return \/ Save
  BY <1>6, RaiseLeads DEF Exchange, Lookup, Switch, Return, Save, Raised, NextCandidate, Error,
     Fault, Goto, End, FinishWith, Try, TryExchange, Issue, LostIssue, Misplaced, Choice
<1>7. QED
  BY <1>1, <1>2, <1>3, <1>4, <1>5, <1>6 DEF Step

\* The place, the candidate, the redirects and the nested pages; an outcome exactly at the end.
LEMMA ProgressKept ==
  ASSUME IInv, Step
  PROVE  Progress'
<1> USE DEF IInv, Choices, Progress, Places, Label, Attempt, SignupAt, RepairAt, Stage2At,
   PagesAt, chosen, progress, tokens, mailbox
<1>1. CASE Signup \/ SubmitEmail \/ Register \/ SendCode \/ ValidateSignup \/ CreateAccount \/
   NoPassword
  BY <1>1 DEF Signup, SubmitEmail, Register, SendCode, ValidateSignup, CreateAccount,
     NoPassword, Snapshot, Goto, End, Fault, Send, Sent, SendRetried, SendTwice, FinishWith, Try
<1>2. CASE Stage2Login \/ Stage2Code \/ Stage2Workspace \/ Stage2Hop \/ Stage2Exchange
  BY <1>2, RaiseLeads DEF Stage2Login, Stage2Code, Stage2Workspace, Stage2Hop, Stage2Exchange,
     Raised, NextCandidate, Error, Fault, Goto, End, FinishWith, Try, TryExchange, Send, Sent, Choice,
     Issue, LostIssue
<1>3. CASE Baseline \/ Relogin \/ ResolveEntry \/ VerifyPassword \/ Passwordless \/ AskCode \/
   RepairCode
  BY <1>3 DEF Baseline, Relogin, ResolveEntry, VerifyPassword, Passwordless, AskCode,
     RepairCode, Snapshot, Goto, Fault, FinishWith, End, Try, SendRetried, Send, Sent, SendTwice
<1>4. CASE Restore
  BY <1>4 DEF Restore, FinishWith, Try, End, Goto
<1>5. CASE Authorize
  BY <1>5 DEF Authorize, FinishWith, Try, TryExchange, End, Goto
<1>6. CASE Browser
  BY <1>6, RaiseLeads DEF Browser, Raised, NextCandidate, Error, Fault, Goto, End, FinishWith,
     Try, TryExchange
<1>7. CASE PhoneNumber
  BY <1>7 DEF PhoneNumber, Goto, FinishWith, End
<1>8. CASE PhoneBrowser
  BY <1>8 DEF PhoneBrowser, Goto, FinishWith, End
<1>9. CASE PhoneCode
  BY <1>9 DEF PhoneCode, FinishWith, Try, End, Goto
<1>10. CASE Look
  BY <1>10 DEF Look, Goto
<1>11. CASE NoCandidate
  BY <1>11 DEF NoCandidate, Goto, Try, TryExchange
<1>12. CASE Replay
  BY <1>12, RaiseLeads DEF Replay, Raised, NextCandidate, Error, Fault, Goto, End, FinishWith,
     Try, TryExchange
<1>13. CASE NoRedirect
  BY <1>13, RaiseLeads DEF NoRedirect, Raised, NextCandidate, Error, Fault, Goto, End,
     FinishWith, Try, TryExchange
<1>14. CASE Hop
  BY <1>14, RaiseLeads DEF Hop, Raised, NextCandidate, Error, Fault, Goto, End, FinishWith, Try,
     TryExchange
<1>15. CASE Consent
  BY <1>15, RaiseLeads DEF Consent, Raised, NextCandidate, Error, Fault, Goto, End, FinishWith,
     Try, TryExchange, SelectAndFollow
<1>16. CASE SelectWorkspace
  BY <1>16, RaiseLeads DEF SelectWorkspace, Raised, NextCandidate, Error, Fault, Goto, End,
     FinishWith, Try, TryExchange, SelectAndFollow, Choice, AccountEntries
<1>17. CASE Exchange \/ Lookup \/ Switch \/ Return \/ Save
  BY <1>17, RaiseLeads DEF Exchange, Lookup, Switch, Return, Save, Raised, NextCandidate, Error,
     Fault, Goto, End, FinishWith, Try, TryExchange, Issue, LostIssue, Misplaced, Choice
<1>18. QED
  BY <1>1, <1>2, <1>3, <1>4, <1>5, <1>6, <1>7, <1>8, <1>9, <1>10, <1>11, <1>12, <1>13, <1>14,
     <1>15, <1>16, <1>17 DEF Step

\* A place and its attempt belong together, and a page has a candidate left.
LEMMA PlacesKept ==
  ASSUME IInv, Step
  PROVE  Places'
<1> USE DEF IInv, Choices, Progress, Places, SignupAt, RepairAt, Stage2At, PagesAt, chosen,
   progress, tokens, mailbox
<1>1. CASE Signup \/ SubmitEmail \/ Register \/ SendCode \/ ValidateSignup \/ CreateAccount \/
   NoPassword
  BY <1>1 DEF Signup, SubmitEmail, Register, SendCode, ValidateSignup, CreateAccount,
     NoPassword, Snapshot, Goto, End, Fault, Send, Sent, SendRetried, SendTwice, FinishWith, Try
<1>2. CASE Stage2Login \/ Stage2Code \/ Stage2Workspace \/ Stage2Hop \/ Stage2Exchange
  BY <1>2, RaiseLeads DEF Stage2Login, Stage2Code, Stage2Workspace, Stage2Hop, Stage2Exchange,
     Raised, NextCandidate, Error, Fault, Goto, End, FinishWith, Try, TryExchange, Send, Sent, Choice,
     Issue, LostIssue
<1>3. CASE Baseline \/ Relogin \/ ResolveEntry \/ VerifyPassword \/ Passwordless \/ AskCode \/
   RepairCode
  BY <1>3 DEF Baseline, Relogin, ResolveEntry, VerifyPassword, Passwordless, AskCode,
     RepairCode, Snapshot, Goto, Fault, FinishWith, End, Try, SendRetried, Send, Sent, SendTwice
<1>4. CASE Restore
  BY <1>4 DEF Restore, FinishWith, Try, End, Goto
<1>5. CASE Authorize
  BY <1>5 DEF Authorize, FinishWith, Try, TryExchange, End, Goto
<1>6. CASE Browser
  BY <1>6, RaiseLeads DEF Browser, Raised, NextCandidate, Error, Fault, Goto, End, FinishWith,
     Try, TryExchange
<1>7. CASE PhoneNumber
  BY <1>7 DEF PhoneNumber, Goto, FinishWith, End
<1>8. CASE PhoneBrowser
  BY <1>8 DEF PhoneBrowser, Goto, FinishWith, End
<1>9. CASE PhoneCode
  BY <1>9 DEF PhoneCode, FinishWith, Try, End, Goto
<1>10. CASE Look
  BY <1>10 DEF Look, Goto
<1>11. CASE NoCandidate
  BY <1>11 DEF NoCandidate, Goto, Try, TryExchange
<1>12. CASE Replay
  BY <1>12, RaiseLeads DEF Replay, Raised, NextCandidate, Error, Fault, Goto, End, FinishWith,
     Try, TryExchange
<1>13. CASE NoRedirect
  BY <1>13, RaiseLeads DEF NoRedirect, Raised, NextCandidate, Error, Fault, Goto, End,
     FinishWith, Try, TryExchange
<1>14. CASE Hop
  BY <1>14, RaiseLeads DEF Hop, Raised, NextCandidate, Error, Fault, Goto, End, FinishWith, Try,
     TryExchange
<1>15. CASE Consent
  BY <1>15, RaiseLeads DEF Consent, Raised, NextCandidate, Error, Fault, Goto, End, FinishWith,
     Try, TryExchange, SelectAndFollow
<1>16. CASE SelectWorkspace
  BY <1>16, RaiseLeads DEF SelectWorkspace, Raised, NextCandidate, Error, Fault, Goto, End,
     FinishWith, Try, TryExchange, SelectAndFollow, Choice, AccountEntries
<1>17. CASE Exchange \/ Lookup \/ Switch \/ Return \/ Save
  BY <1>17, RaiseLeads DEF Exchange, Lookup, Switch, Return, Save, Raised, NextCandidate, Error,
     Fault, Goto, End, FinishWith, Try, TryExchange, Issue, LostIssue, Misplaced, Choice
<1>18. QED
  BY <1>1, <1>2, <1>3, <1>4, <1>5, <1>6, <1>7, <1>8, <1>9, <1>10, <1>11, <1>12, <1>13, <1>14,
     <1>15, <1>16, <1>17 DEF Step

\* A request for a code is made once on each way, or once more when its answer was lost.
LEMMA CodesKept ==
  ASSUME IInv, Step
  PROVE  Codes'
<1> USE DEF IInv, Choices, Progress, Codes, Places, SignupAt, RepairAt, Stage2At, PagesAt,
   chosen, progress, tokens, mailbox
<1>1. CASE Signup
  BY <1>1 DEF Signup, Snapshot, Goto, End, Fault
<1>2. CASE SubmitEmail
  BY <1>2 DEF SubmitEmail, Sent, Send, SendRetried, SendTwice, Fault, Goto, End
<1>3. CASE Register
  BY <1>3 DEF Register, Fault, Goto, End
<1>4. CASE SendCode
  BY <1>4 DEF SendCode, SendRetried, Goto, Send, Sent, SendTwice, Fault
<1>5. CASE ValidateSignup
  BY <1>5 DEF ValidateSignup, Goto, End
<1>6. CASE CreateAccount
  BY <1>6 DEF CreateAccount, Fault, FinishWith, Try, End, Goto
<1>7. CASE NoPassword
  BY <1>7 DEF NoPassword, FinishWith, End, Goto
<1>8. CASE Stage2Login
  BY <1>8, RaiseLeads DEF Stage2Login, Raised, NextCandidate, Error, Fault, Goto, End,
     FinishWith, Try, TryExchange, Send, Sent
<1>9. CASE Stage2Code
  BY <1>9, RaiseLeads DEF Stage2Code, Raised, NextCandidate, Error, Fault, Goto, End,
     FinishWith, Try, TryExchange
<1>10. CASE Stage2Workspace
  BY <1>10, RaiseLeads DEF Stage2Workspace, Raised, NextCandidate, Error, Fault, Goto, End,
     FinishWith, Try, TryExchange, Choice
<1>11. CASE Stage2Hop
  BY <1>11, RaiseLeads DEF Stage2Hop, Raised, NextCandidate, Error, Fault, Goto, End,
     FinishWith, Try, TryExchange
<1>12. CASE Stage2Exchange
  BY <1>12, RaiseLeads DEF Stage2Exchange, Raised, NextCandidate, Error, Fault, Goto, End,
     FinishWith, Try, TryExchange, Issue, LostIssue
<1>13. CASE Baseline
  BY <1>13 DEF Baseline, Snapshot, Goto, Fault
<1>14. CASE Relogin
  BY <1>14 DEF Relogin, Goto, FinishWith, End
<1>15. CASE ResolveEntry
  BY <1>15 DEF ResolveEntry, Goto, FinishWith, End
<1>16. CASE VerifyPassword
  BY <1>16 DEF VerifyPassword, Goto, FinishWith, Try, End
<1>17. CASE Passwordless
  BY <1>17 DEF Passwordless, SendRetried, Goto, FinishWith, Send, Sent, SendTwice, End, Fault
<1>18. CASE AskCode
  BY <1>18 DEF AskCode, SendRetried, Goto, FinishWith, Send, Sent, SendTwice, End, Fault
<1>19. CASE RepairCode
  BY <1>19 DEF RepairCode, FinishWith, Try, End, Goto
<1>20. CASE Restore
  BY <1>20 DEF Restore, FinishWith, Try, End, Goto
<1>21. CASE Authorize
  BY <1>21 DEF Authorize, FinishWith, Try, TryExchange, End, Goto
<1>22. CASE Browser
  BY <1>22, RaiseLeads DEF Browser, Raised, NextCandidate, Error, Fault, Goto, End, FinishWith,
     Try, TryExchange
<1>23. CASE PhoneNumber
  BY <1>23 DEF PhoneNumber, Goto, FinishWith, End
<1>24. CASE PhoneBrowser
  BY <1>24 DEF PhoneBrowser, Goto, FinishWith, End
<1>25. CASE PhoneCode
  BY <1>25 DEF PhoneCode, FinishWith, Try, End, Goto
<1>26. CASE Look
  BY <1>26 DEF Look, Goto
<1>27. CASE NoCandidate
  BY <1>27 DEF NoCandidate, Goto, Try, TryExchange
<1>28. CASE Replay
  BY <1>28, RaiseLeads DEF Replay, Raised, NextCandidate, Error, Fault, Goto, End, FinishWith,
     Try, TryExchange
<1>29. CASE NoRedirect
  BY <1>29, RaiseLeads DEF NoRedirect, Raised, NextCandidate, Error, Fault, Goto, End,
     FinishWith, Try, TryExchange
<1>30. CASE Hop
  BY <1>30, RaiseLeads DEF Hop, Raised, NextCandidate, Error, Fault, Goto, End, FinishWith, Try,
     TryExchange
<1>31. CASE Consent
  BY <1>31, RaiseLeads DEF Consent, Raised, NextCandidate, Error, Fault, Goto, End, FinishWith,
     Try, TryExchange, SelectAndFollow
<1>32. CASE SelectWorkspace
  BY <1>32, RaiseLeads DEF SelectWorkspace, Raised, NextCandidate, Error, Fault, Goto, End,
     FinishWith, Try, TryExchange, SelectAndFollow, Choice, AccountEntries
<1>33. CASE Exchange
  BY <1>33, RaiseLeads DEF Exchange, Raised, NextCandidate, Error, Fault, Goto, End, FinishWith,
     Try, TryExchange, Issue, LostIssue
<1>34. CASE Lookup
  BY <1>34, RaiseLeads DEF Lookup, Raised, NextCandidate, Error, Fault, Goto, End, FinishWith,
     Try, TryExchange, Misplaced
<1>35. CASE Switch
  BY <1>35 DEF Switch, Fault, Goto
<1>36. CASE Return
  BY <1>36 DEF Return, FinishWith, End, Goto
<1>37. CASE Save
  BY <1>37 DEF Save, Fault, FinishWith, End, Goto
<1>38. QED
  BY <1>1, <1>2, <1>3, <1>4, <1>5, <1>6, <1>7, <1>8, <1>9, <1>10, <1>11, <1>12, <1>13, <1>14,
     <1>15, <1>16, <1>17, <1>18, <1>19, <1>20, <1>21, <1>22, <1>23, <1>24, <1>25, <1>26, <1>27,
     <1>28, <1>29, <1>30, <1>31, <1>32, <1>33, <1>34, <1>35, <1>36, <1>37 DEF Step

\* What every step does to the mailbox: nothing, but for the codes that it asks for.
Asking ==
  /\ mail' = mail /\ floor' \in {floor, 0, Len(mail)}
  /\ \/ asked' = asked /\ coming' = coming
     \/ Sent(1) \/ Sent(2)

\* A step asks for no code, one or two, and what arrives answers one that was asked for.
LEMMA StepAsks ==
  ASSUME IInv, Step
  PROVE  Asking
<1> USE DEF Asking, chosen, progress, tokens, mailbox
<1>1. CASE Signup \/ SubmitEmail \/ Register \/ SendCode \/ ValidateSignup \/ CreateAccount \/
   NoPassword
  BY <1>1 DEF Signup, SubmitEmail, Register, SendCode, ValidateSignup, CreateAccount,
     NoPassword, Snapshot, Goto, End, Fault, Send, SendRetried, SendTwice, FinishWith, Try
<1>2. CASE Stage2Login \/ Stage2Code \/ Stage2Workspace \/ Stage2Hop \/ Stage2Exchange
  BY <1>2, RaiseLeads DEF Stage2Login, Stage2Code, Stage2Workspace, Stage2Hop, Stage2Exchange,
     Raised, NextCandidate, Error, Fault, Goto, End, FinishWith, Try, TryExchange, Send, Choice,
     Issue, LostIssue
<1>3. CASE Baseline \/ Relogin \/ ResolveEntry \/ VerifyPassword \/ Passwordless \/ AskCode \/
   RepairCode
  BY <1>3 DEF Baseline, Relogin, ResolveEntry, VerifyPassword, Passwordless, AskCode,
     RepairCode, Snapshot, Goto, Fault, FinishWith, End, Try, SendRetried, Send, SendTwice
<1>4. CASE Restore \/ Authorize \/ Browser \/ PhoneNumber \/ PhoneBrowser \/ PhoneCode
  BY <1>4, RaiseLeads DEF Restore, Authorize, Browser, PhoneNumber, PhoneBrowser, PhoneCode,
     Raised, NextCandidate, Error, Fault, Goto, End, FinishWith, Try, TryExchange
<1>5. CASE Look \/ NoCandidate \/ Replay \/ NoRedirect \/ Hop \/ Consent \/ SelectWorkspace
  BY <1>5, RaiseLeads DEF Look, NoCandidate, Replay, NoRedirect, Hop, Consent, SelectWorkspace,
     Raised, NextCandidate, Error, Fault, Goto, End, FinishWith, Try, TryExchange,
     SelectAndFollow, Choice, AccountEntries
<1>6. CASE Exchange \/ Lookup \/ Switch \/ Return \/ Save
  BY <1>6, RaiseLeads DEF Exchange, Lookup, Switch, Return, Save, Raised, NextCandidate, Error,
     Fault, Goto, End, FinishWith, Try, TryExchange, Issue, LostIssue, Misplaced, Choice
<1>7. QED
  BY <1>1, <1>2, <1>3, <1>4, <1>5, <1>6 DEF Step

\* The mailbox and the floor.
LEMMA BoxKept ==
  ASSUME IInv, Step
  PROVE  Box'
<1> USE DEF IInv, Box, Codes
<1>1. Asking
  BY StepAsks
<1>2. floor' \in 0 .. MaxMail + 1
  BY <1>1 DEF Asking
<1>3. asked' \in Nat /\ asked <= asked'
  BY <1>1 DEF Asking, Sent
<1>4. mail' \in Seq(0 .. asked') /\ Len(mail') <= MaxMail + 1
  <2>1. mail' = mail
    BY <1>1 DEF Asking
  <2>2. 0 .. asked \subseteq 0 .. asked'
    BY <1>3
  <2>3. mail \in Seq(0 .. asked')
    BY <2>2, SeqMonotonic
  <2>4. QED
    BY <2>1, <2>3
<1>5. coming' \subseteq 1 .. asked'
  <2>1. CASE asked' = asked /\ coming' = coming
    BY <2>1
  <2>2. ASSUME NEW n \in {1, 2}, Sent(n) PROVE coming' \subseteq 1 .. asked'
    <3>1. asked' = asked + n /\ coming' = coming \union (asked + 1 .. asked + n)
      BY <2>2 DEF Sent
    <3>2. asked + 1 .. asked + n \subseteq 1 .. asked + n /\ 1 .. asked \subseteq 1 .. asked + n
      OBVIOUS
    <3>3. QED
      BY <3>1, <3>2
  <2>3. QED
    BY <1>1, <2>1, <2>2 DEF Asking
<1>6. QED
  BY <1>2, <1>4, <1>5


-----------------------------------------------------------------------------
(* The tokens *)

\* Of the tokens a run has only a few actions have a say; every other one goes from
\* a place where there are none to another, and counts no more than a fault.
Quiet ==
  /\ UNCHANGED <<tokens, preferred, named>> /\ faults <= faults'
  /\ pc \notin {"lookup", "switch", "return", "done"}
  /\ pc' \notin {"lookup", "switch", "return"} /\ out' # "tokens"

\* Most steps neither get tokens nor give any up.
LEMMA QuietSteps ==
  ASSUME IInv, Step
  PROVE  Quiet \/ Stage2Exchange \/ Exchange \/ Lookup \/ Switch \/ Return \/ Save
<1> USE DEF IInv, Choices, Progress, Places, Quiet, SignupAt, RepairAt, Stage2At, PagesAt,
   chosen, progress, tokens, mailbox
<1>1. CASE Signup \/ SubmitEmail \/ Register \/ SendCode \/ ValidateSignup \/ CreateAccount \/
   NoPassword
  BY <1>1 DEF Signup, SubmitEmail, Register, SendCode, ValidateSignup, CreateAccount,
     NoPassword, Snapshot, Goto, End, Fault, Send, Sent, SendRetried, SendTwice, FinishWith, Try
<1>2. CASE Stage2Login \/ Stage2Code \/ Stage2Workspace \/ Stage2Hop
  BY <1>2, RaiseLeads DEF Stage2Login, Stage2Code, Stage2Workspace, Stage2Hop, Raised,
     NextCandidate, Error, Fault, Goto, End, FinishWith, Try, TryExchange, Send, Sent, Choice
<1>3. CASE Baseline \/ Relogin \/ ResolveEntry \/ VerifyPassword \/ Passwordless \/ AskCode \/
   RepairCode
  BY <1>3 DEF Baseline, Relogin, ResolveEntry, VerifyPassword, Passwordless, AskCode,
     RepairCode, Snapshot, Goto, Fault, FinishWith, End, Try, SendRetried, Send, Sent, SendTwice
<1>4. CASE Restore \/ Authorize \/ Browser \/ PhoneNumber \/ PhoneBrowser \/ PhoneCode
  BY <1>4, RaiseLeads DEF Restore, Authorize, Browser, PhoneNumber, PhoneBrowser, PhoneCode,
     Raised, NextCandidate, Error, Fault, Goto, End, FinishWith, Try, TryExchange
<1>5. CASE Look \/ NoCandidate \/ Replay \/ NoRedirect \/ Hop \/ Consent \/ SelectWorkspace
  BY <1>5, RaiseLeads DEF Look, NoCandidate, Replay, NoRedirect, Hop, Consent, SelectWorkspace,
     Raised, NextCandidate, Error, Fault, Goto, End, FinishWith, Try, TryExchange,
     SelectAndFollow, Choice, AccountEntries
<1>6. QED
  BY <1>1, <1>2, <1>3, <1>4, <1>5 DEF Step

\* The counts of tokens.
LEMMA TokensKept ==
  ASSUME IInv, Step
  PROVE  Tokens'
<1> USE DEF Progress, Places, Tokens, Excuse, SignupAt, RepairAt, Stage2At, PagesAt, chosen,
   progress, tokens, mailbox
<1>1. CASE Quiet
  BY <1>1 DEF Quiet, IInv, tokens
<1>2. CASE Stage2Exchange
  BY <1>2, RaiseLeads DEF IInv, Stage2Exchange, Raised, NextCandidate, Error, Fault, Goto, End,
     FinishWith, Try, TryExchange, Issue, LostIssue
<1>3. CASE Exchange
  BY <1>3, RaiseLeads DEF IInv, Exchange, Raised, NextCandidate, Error, Fault, Goto, End,
     FinishWith, Try, TryExchange, Issue, LostIssue
<1>4. CASE Lookup
  BY <1>4, RaiseLeads DEF IInv, Lookup, Raised, NextCandidate, Error, Fault, Goto, End,
     FinishWith, Try, TryExchange, Misplaced, Choice
<1>5. CASE Switch
  BY <1>5 DEF IInv, Switch
<1>6. CASE Return
  BY <1>6 DEF IInv, Return, FinishWith, End, Goto
<1>7. CASE Save
  BY <1>7 DEF IInv, Save, Fault, FinishWith, End, Goto
<1>8. QED
  BY QuietSteps, <1>1, <1>2, <1>3, <1>4, <1>5, <1>6, <1>7

\* Tokens are in hand exactly where they are looked at or returned.
LEMMA HoldingKept ==
  ASSUME IInv, Step
  PROVE  Holding'
<1> USE DEF Progress, Places, Holding, Tokens, SignupAt, RepairAt, Stage2At, PagesAt, chosen,
   progress, tokens, mailbox
<1>1. CASE Quiet
  BY <1>1 DEF Quiet, IInv, tokens
<1>2. CASE Stage2Exchange
  BY <1>2, RaiseLeads DEF IInv, Stage2Exchange, Raised, NextCandidate, Error, Fault, Goto, End,
     FinishWith, Try, TryExchange, Issue, LostIssue
<1>3. CASE Exchange
  BY <1>3, RaiseLeads DEF IInv, Exchange, Raised, NextCandidate, Error, Fault, Goto, End,
     FinishWith, Try, TryExchange, Issue, LostIssue
<1>4. CASE Lookup
  BY <1>4, RaiseLeads DEF IInv, Lookup, Raised, NextCandidate, Error, Fault, Goto, End,
     FinishWith, Try, TryExchange, Misplaced, Choice
<1>5. CASE Switch
  BY <1>5 DEF IInv, Chosen, Switch, Fault, Goto
<1>6. CASE Return
  BY <1>6 DEF IInv, Return, FinishWith, End, Goto
<1>7. CASE Save
  BY <1>7 DEF IInv, Save, Fault, FinishWith, End, Goto
<1>8. QED
  BY QuietSteps, <1>1, <1>2, <1>3, <1>4, <1>5, <1>6, <1>7

\* The workspace of the switch is the one that the lookup chose.
LEMMA ChosenKept ==
  ASSUME IInv, Step
  PROVE  Chosen'
<1> USE DEF Chosen, Progress, Places, SignupAt, RepairAt, Stage2At, PagesAt, chosen, progress,
   tokens, mailbox
<1>1. CASE Quiet
  BY <1>1 DEF Quiet
<1>2. CASE Stage2Exchange
  BY <1>2, RaiseLeads DEF IInv, Stage2Exchange, Raised, NextCandidate, Fault, Goto, End,
     FinishWith, Try, TryExchange, Issue, LostIssue
<1>3. CASE Exchange
  BY <1>3, RaiseLeads DEF IInv, Exchange, Raised, NextCandidate, Error, Fault, Goto, End,
     FinishWith, Try, TryExchange, Issue, LostIssue
<1>4. CASE Lookup
  <2>1. ASSUME NEW entries \in SUBSET Workspace, NEW w \in Choice(entries),
               Misplaced(entries, w), preferred = "personal"
        PROVE  w \in {"personal", named} /\ w # Nothing
    BY <2>1 DEF Choice, Misplaced
  <2>2. CASE pc' = "switch"
    BY <1>4, <2>1, <2>2, RaiseLeads DEF IInv, Lookup, Raised, NextCandidate, Fault, Goto, End,
       FinishWith, Try, TryExchange
  <2>3. QED
    BY <2>2
<1>5. CASE Switch
  BY <1>5 DEF Switch, Goto
<1>6. CASE Return \/ Save
  BY <1>6 DEF Return, Save, FinishWith, End, Goto
<1>7. QED
  BY QuietSteps, <1>1, <1>2, <1>3, <1>4, <1>5, <1>6

\* What is returned was looked at before, or came on a way that does not look.
LEMMA WantedKept ==
  ASSUME IInv, Step
  PROVE  Wanted'
<1> USE DEF Wanted, Progress, Places, Tokens, Choices, SignupAt, RepairAt, Stage2At, PagesAt,
   chosen, progress, tokens, mailbox
<1>1. CASE Quiet
  BY <1>1 DEF Quiet, IInv, tokens
<1>2. CASE Stage2Exchange
  BY <1>2, RaiseLeads DEF IInv, Stage2Exchange, Raised, NextCandidate, Error, Fault, Goto, End,
     FinishWith, Try, TryExchange, Issue, LostIssue
<1>3. CASE Exchange
  BY <1>3, RaiseLeads DEF IInv, Exchange, Raised, NextCandidate, Error, Fault, Goto, End,
     FinishWith, Try, TryExchange, Issue, LostIssue
<1>4. CASE Lookup
  BY <1>4, RaiseLeads DEF IInv, Lookup, Raised, NextCandidate, Error, Fault, Goto, End,
     FinishWith, Try, TryExchange, Misplaced, Choice
<1>5. CASE Switch
  BY <1>5 DEF IInv, Chosen, Switch, Fault, Goto
<1>6. CASE Return
  BY <1>6 DEF IInv, Return, FinishWith, End, Goto
<1>7. CASE Save
  BY <1>7 DEF IInv, Save, Fault, FinishWith, End, Goto
<1>8. QED
  BY QuietSteps, <1>1, <1>2, <1>3, <1>4, <1>5, <1>6, <1>7

\* Tokens come with an answer, are counted as dropped when others replace them, or are lost with a fault.
LEMMA TokensAccountedForKept ==
  ASSUME IInv, Step
  PROVE  TokensAccountedFor'
<1> USE DEF TokensAccountedFor, Count, Tokens, Holding, Choices, Places, Progress, SignupAt,
   RepairAt, Stage2At, PagesAt, chosen, progress, tokens, mailbox
<1>1. CASE Quiet
  BY <1>1, ChoicesKept DEF Quiet, IInv, tokens
<1>2. CASE Stage2Exchange
  BY <1>2, RaiseLeads DEF IInv, Stage2Exchange, Raised, NextCandidate, Error, Fault, Goto, End,
     FinishWith, Try, TryExchange, Issue, LostIssue
<1>3. CASE Exchange
  BY <1>3, RaiseLeads DEF IInv, Exchange, Raised, NextCandidate, Error, Fault, Goto, End,
     FinishWith, Try, TryExchange, Issue, LostIssue
<1>4. CASE Lookup
  BY <1>4, RaiseLeads DEF IInv, Lookup, Raised, NextCandidate, Error, Fault, Goto, End,
     FinishWith, Try, TryExchange, Misplaced, Choice
<1>5. CASE Switch
  BY <1>5 DEF IInv, Chosen, Switch, Fault, Goto
<1>6. CASE Return
  BY <1>6 DEF IInv, Return, FinishWith, End, Goto
<1>7. CASE Save
  BY <1>7 DEF IInv, Save, Fault, FinishWith, End, Goto
<1>8. QED
  BY QuietSteps, <1>1, <1>2, <1>3, <1>4, <1>5, <1>6, <1>7

\* The end of a run with tokens is a return.
LEMMA PersonalUnlessRefusedKept ==
  ASSUME IInv, Step
  PROVE  PersonalUnlessRefused'
<1> USE DEF PersonalUnlessRefused, Wanted, Progress, Places, Choices, SignupAt, RepairAt,
   Stage2At, PagesAt, chosen, progress, tokens, mailbox
<1>1. CASE Quiet
  BY <1>1 DEF Quiet, IInv, tokens
<1>2. CASE Stage2Exchange
  BY <1>2, RaiseLeads DEF IInv, Stage2Exchange, Raised, NextCandidate, Error, Fault, Goto, End,
     FinishWith, Try, TryExchange, Issue, LostIssue
<1>3. CASE Exchange
  BY <1>3, RaiseLeads DEF IInv, Exchange, Raised, NextCandidate, Error, Fault, Goto, End,
     FinishWith, Try, TryExchange, Issue, LostIssue
<1>4. CASE Lookup
  BY <1>4, RaiseLeads DEF IInv, Lookup, Raised, NextCandidate, Error, Fault, Goto, End,
     FinishWith, Try, TryExchange, Misplaced, Choice
<1>5. CASE Switch
  BY <1>5 DEF IInv, Switch, Fault, Goto
<1>6. CASE Return
  BY <1>6 DEF IInv, Return, FinishWith, End, Goto
<1>7. CASE Save
  BY <1>7 DEF IInv, Save, Fault, FinishWith, End, Goto
<1>8. QED
  BY QuietSteps, <1>1, <1>2, <1>3, <1>4, <1>5, <1>6, <1>7

-----------------------------------------------------------------------------
\* A message that arrives changes the mailbox alone.
LEMMA DeliverKeeps ==
  ASSUME IInv, Deliver
  PROVE  IInv'
<1> USE DEF IInv, Deliver, chosen, progress, tokens
<1>1. Choices' /\ Progress' /\ Places' /\ Codes'
  BY DEF Choices, Progress, Places, Codes
<1>2. Tokens' /\ Holding' /\ Chosen' /\ Wanted' /\ TokensAccountedFor' /\ PersonalUnlessRefused'
  BY DEF Tokens, Holding, Chosen, Wanted, TokensAccountedFor, PersonalUnlessRefused
<1>3. Box'
  <2>1. PICK n \in coming : mail' = Append(mail, n) /\ coming' = coming \ {n}
    OBVIOUS
  <2>2. n \in 0 .. asked
    BY DEF Box, Codes
  <2>3. mail' \in Seq(0 .. asked) /\ Len(mail') = Len(mail) + 1
    BY <2>1, <2>2 DEF Box
  <2>4. QED
    BY <2>1, <2>3 DEF Box
<1>4. QED
  BY <1>1, <1>2, <1>3

\* A run begins with no tokens and no code asked for.
LEMMA InitEstablishes == Init => IInv
<1> SUFFICES ASSUME Init PROVE IInv
  OBVIOUS
<1> USE DEF Init
<1>1. Choices
  <2>1. recorded \in BOOLEAN
    <3>1. CASE run = "repair"
      BY <3>1
    <3>2. CASE run # "repair"
      BY <3>2
    <3>3. QED
      BY <3>1, <3>2
  <2>2. account \in {"none", "registered", "made"}
    BY DEF Run
  <2>3. QED
    BY <2>1, <2>2 DEF Choices
<1>2. Progress /\ Places
  BY DEF Progress, Places, Label, Attempt, SignupAt, RepairAt, Stage2At, PagesAt, Run
<1>3. Codes
  BY DEF Codes, SignupAt, RepairAt, Stage2At
<1>4. Box
  <2>1. 0 \in 0 .. asked /\ << >> \in Seq(0 .. asked)
    OBVIOUS
  <2>2. mail \in Seq(0 .. asked) /\ Len(mail) <= 1
    <3>1. CASE mail = << >>
      BY <2>1, <3>1
    <3>2. CASE mail = <<0>>
      BY <2>1, <3>2
    <3>3. QED
      BY <3>1, <3>2
  <2>3. QED
    BY <2>2 DEF Box
<1>5. Tokens /\ Holding /\ Chosen /\ Wanted
  BY DEF Tokens, Holding, Chosen, Wanted, Excuse, Run
<1>6. TokensAccountedFor /\ PersonalUnlessRefused
  BY DEF TokensAccountedFor, Count, PersonalUnlessRefused
<1>7. QED
  BY <1>1, <1>2, <1>3, <1>4, <1>5, <1>6 DEF IInv

\* Everything above holds throughout every run of protocol_register.
THEOREM Invariance == Spec => []IInv
<1>1. IInv /\ [Next]_vars => IInv'
  <2> SUFFICES ASSUME IInv, [Next]_vars PROVE IInv'
    OBVIOUS
  <2>1. CASE Step
    BY <2>1, ChoicesKept, ProgressKept, PlacesKept, CodesKept, BoxKept, TokensKept, HoldingKept,
       ChosenKept, WantedKept, TokensAccountedForKept, PersonalUnlessRefusedKept DEF IInv
  <2>2. CASE Deliver
    BY <2>2, DeliverKeeps
  <2>3. CASE UNCHANGED vars
    BY <2>3 DEF IInv, vars, chosen, progress, tokens, mailbox, Choices, Progress, Places, Codes,
       Box, Tokens, Holding, Chosen, Wanted, TokensAccountedFor, PersonalUnlessRefused
  <2>4. QED
    BY <2>1, <2>2, <2>3 DEF Next
<1>2. QED
  BY <1>1, InitEstablishes, PTL DEF Spec

\* Whatever the pages of the server and the mailbox do, a run stays at one of its
\* places, follows no more redirects and opens no more nested consent pages than its
\* limits (_follow_redirect_chain_for_callback, _submit_codex_consent_form), is at a page
\* only with an attempt to get tokens from it, and asks for at most six codes and
\* one more for each request whose answer was lost.
THEOREM TypeCorrect == Spec => []TypeOK
<1>1. IInv => TypeOK
  BY DEF IInv, TypeOK, Choices, Progress, Places, Codes, Box, Tokens, Label, PagesAt, SignupAt, RepairAt, Stage2At
<1>2. QED
  BY <1>1, Invariance, PTL

\* Of the tokens that the server issued to a run none is lost but with an answer that
\* was lost: the run has them, or dropped them for others (submit_callback_url,
\* _maybe_recover_personal_protocol_result).
THEOREM TokensAreAccountedFor == Spec => []TokensAccountedFor
<1>1. IInv => TokensAccountedFor
  BY DEF IInv
<1>2. QED
  BY <1>1, Invariance, PTL

\* A run that is to have tokens of the personal workspace returns others only when
\* another was asked for by its id or name, the account was seen to have no such
\* workspace, the switch to it was refused, or the account's workspaces could not be
\* seen: then the tokens are kept as they are (_maybe_recover_personal_protocol_result).
THEOREM PersonalUnlessItWasRefused == Spec => []PersonalUnlessRefused
<1>1. IInv => PersonalUnlessRefused
  BY DEF IInv
<1>2. QED
  BY <1>1, Invariance, PTL

\* A run that ends in tokens has them, and one that ends otherwise has none: no
\* tokens that the run had are left in a run that failed.
THEOREM TokensExactlyWhenReturned == Spec => [](pc = "done" => (out = "tokens" <=> held # Nothing))
<1>1. IInv => (pc = "done" => (out = "tokens" <=> held # Nothing))
  BY DEF IInv, Holding
<1>2. QED
  BY <1>1, Invariance, PTL

=============================================================================

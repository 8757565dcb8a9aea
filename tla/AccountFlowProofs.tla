------------------------- MODULE AccountFlowProofs --------------------------
(***************************************************************************)
(* What the record of an account says is so, for every number of steps,    *)
(* attempts and faults.                                                    *)
(***************************************************************************)
EXTENDS AccountFlow, TLAPS

CreateAt == {"open", "warm", "authorize", "continue", "register", "wait", "validate", "make",
             "persist", "phone", "diagnose", "cleanup"}
InitAt == {"init_entry", "init_continue", "init_code", "init_write"}
LoginAt == {"login_open", "login_continue", "login_password", "login_code", "login_account",
            "login_write"}
AuditAt == {"audit_refresh", "audit_mailbox"}

Passwords == {NoPassword} \union ((1 .. MaxSteps) \X {1})

Records ==
  [st : {"none", "torn", "ok"}, pw : Passwords, box : 0 .. MaxSteps, code : BOOLEAN,
   init : BOOLEAN, login : BOOLEAN, session : BOOLEAN, org : BOOLEAN, token : BOOLEAN]

\* A record, and the password of one that can be read.
FileOK ==
  /\ file \in Records
  /\ file.st = "ok" => file.pw # NoPassword
  /\ file.box <= steps /\ box \in 0 .. steps

\* The session of a creation is open, or was handed over closed; before the mailbox
\* is kept it is in no record, unless it was handed over; a step on a record uses the
\* record's session.
SessionsInv ==
  /\ pc \in CreateAt => /\ kind = "create" /\ box \in open \union lent
                        /\ keep \/ file.box # box \/ box # steps
  /\ pc \in {"persist", "phone", "diagnose"} => keep
  /\ pc \in InitAt => box = file.box
  /\ pc \in LoginAt => kind = "audit" \/ (kind = "login" /\ box = file.box)
  /\ pc \in AuditAt => kind = "audit"

\* A callback, a code that is good and the tokens for it are of an account that was made.
MadeInv ==
  /\ surface = "callback" => account = "made"
  /\ pc \in {"org_login", "org_update", "org_user", "org_write"} => account = "made"
  /\ codeok \/ tokenok => account = "made"

\* What a step is about to report has happened.
ReportInv ==
  /\ pc = "init_write" => account # "none"
  /\ pc = "login_write" => account = "made"
  /\ pc = "org_write" => org = "done"

\* The counters, and the parts of the types that are sets of names.
CountOK ==
  /\ steps \in 0 .. MaxSteps /\ faults \in 0 .. MaxFaults
  /\ att \in 0 .. (IF kind = "create" THEN SignupAttempts ELSE LoginAttempts)
  /\ pc # "idle" => steps # 0

ServerOK ==
  /\ account \in {"none", "registered", "made"} /\ gone \in BOOLEAN
  /\ org \in {"new", "named", "done"} /\ codeok \in BOOLEAN /\ tokenok \in BOOLEAN

LocalOK ==
  /\ kind \in {"none", "create", "init", "login", "org", "oauth", "audit"}
  /\ keep \in BOOLEAN
  /\ surface \in {"early", "wall", "callback", "other"}
  /\ swept \in BOOLEAN /\ verdict \in {"none", "succeeded", "deleted", "inconclusive"}

NamesOK == pw \in Passwords /\ open \subseteq 1 .. MaxSteps /\ lent \subseteq 1 .. MaxSteps

IInv ==
  /\ CountOK /\ ServerOK /\ LocalOK /\ FileOK /\ NamesOK
  /\ SessionsInv /\ RecordHasMailbox /\ MadeInv /\ ReportInv /\ ReportsAreTrue

USE FlowAssumption, FlowBoundAssumption DEF FlowAssumption, FlowBoundAssumption

-----------------------------------------------------------------------------
(* What the steps do, to one part of the state at a time *)

LEMMA RecordSteps ==
  ASSUME [Next]_vars, FileOK
  PROVE  \/ file' = file
         \/ file' = [file EXCEPT !.st = "torn"]
         \/ PersistRecord /\ file' = Record
         \/ InitWrite /\ file' = [file EXCEPT !.init = TRUE, !.box = box]
         \/ LoginWrite /\ kind = "login" /\ file' = LoggedIn
         \/ OrgWrite /\ \E refresh \in BOOLEAN : file' = WithTokens(refresh)
         \/ ClearSession /\ file' = [file EXCEPT !.session = FALSE]
<1> USE DEF WriteFails, RaiseSignup, NextSignup, Goto, At, Ask, world, Rewrite, BeginOn
<1>1. CASE BeginCreate \/ BeginInit \/ BeginLogin \/ BeginOrg \/ BeginOAuth \/ BeginAudit
  BY <1>1 DEF BeginCreate, OwnMailbox, HandedMailbox, BeginInit, BeginLogin, BeginOrg, BeginOAuth, BeginAudit, Verdict
<1>2. CASE OpenSignup \/ WarmUp \/ Authorize \/ SubmitEmail \/ WaitCode \/ PersistPhoneRecord
  BY <1>2 DEF OpenSignup, WarmUp, Authorize, SubmitEmail, WaitCode, PersistPhoneRecord
<1>3. CASE UserRegister \/ ValidateCode \/ CreateAccount \/ Cleanup
  BY <1>3 DEF UserRegister, RegisterEffect, ValidateCode, Confirm, CreateAccount, Cleanup
<1>4. CASE PersistRecord
  BY <1>4 DEF PersistRecord
<1>5. CASE PersistDiagnostics
  BY <1>5 DEF PersistDiagnostics
<1>6. CASE InitEntry \/ InitContinue \/ InitCode
  BY <1>6 DEF InitEntry, InitContinue, InitCode, Confirm
<1>7. CASE InitWrite
  BY <1>7 DEF InitWrite
<1>8. CASE LoginBootstrap \/ LoginContinue \/ LoginPassword \/ LoginCode \/ PersonalAccount
  BY <1>8 DEF LoginBootstrap, LoginContinue, LoginPassword, LoginCode, PersonalAccount, Confirm,
     RefusedLogin, LostLogin, RaiseLogin
<1>9. CASE LoginWrite
  BY <1>9 DEF LoginWrite, AuditSucceeds
<1>10. CASE ExchangeCode \/ OnboardingLogin \/ OrganizationUpdate \/ UserUpdate
  BY <1>10 DEF ExchangeCode, OnboardingLogin, OrganizationUpdate, UserUpdate, OrgEffect
<1>11. CASE OrgWrite
  BY <1>11 DEF OrgWrite
<1>12. CASE BindMailbox \/ RunOAuth \/ ReleaseSessions
  BY <1>12 DEF BindMailbox, RunOAuth, ReleaseSessions
<1>13. CASE ClearSession
  BY <1>13 DEF ClearSession
<1>14. CASE AuditRefresh \/ AuditMailbox
  BY <1>14 DEF AuditRefresh, AuditMailbox, Rotate, Verdict
<1>15. CASE Kill \/ Deactivate \/ UNCHANGED vars
  BY <1>15 DEF Kill, Deactivate, vars
<1>16. QED
  BY <1>1, <1>2, <1>3, <1>4, <1>5, <1>6, <1>7, <1>8, <1>9, <1>10, <1>11, <1>12, <1>13, <1>14,
     <1>15
  DEF Next, Work

LEMMA ServerSteps ==
  ASSUME [Next]_vars
  PROVE  /\ \/ account' = account
            \/ account = "none" /\ account' = "registered"
            \/ account = "registered" /\ account' = "made"
         /\ pw' = pw \/ (pc = "register" /\ pw' = Generated)
         /\ org' = org \/ (org = "new" /\ org' = "named") \/ org' = "done"
         /\ gone => gone'
         /\ verdict' = "succeeded" => \/ verdict = "succeeded"
                                     \/ pc = "login_write" \/ tokenok
<1> USE DEF Goto, At, Ask, world, server, BeginOn, RaiseSignup
<1>1. CASE BeginCreate \/ BeginInit \/ BeginLogin \/ BeginOrg \/ BeginOAuth \/ BeginAudit
  BY <1>1 DEF BeginCreate, OwnMailbox, HandedMailbox, BeginInit, BeginLogin, BeginOrg, BeginOAuth, BeginAudit, Verdict
<1>2. CASE OpenSignup \/ WarmUp \/ Authorize \/ SubmitEmail \/ WaitCode \/ PersistPhoneRecord
  BY <1>2 DEF OpenSignup, WarmUp, Authorize, SubmitEmail, WaitCode, PersistPhoneRecord
<1>3. CASE UserRegister \/ ValidateCode \/ CreateAccount \/ Cleanup
  BY <1>3 DEF UserRegister, RegisterEffect, Registered, ValidateCode, Confirm, CreateAccount,
     Made, Cleanup
<1>4. CASE PersistRecord
  BY <1>4 DEF PersistRecord
<1>5. CASE PersistDiagnostics
  BY <1>5 DEF PersistDiagnostics
<1>6. CASE InitEntry \/ InitContinue \/ InitCode
  BY <1>6 DEF InitEntry, InitContinue, InitCode, Confirm
<1>7. CASE InitWrite
  BY <1>7 DEF InitWrite
<1>8. CASE LoginBootstrap \/ LoginContinue \/ LoginPassword \/ LoginCode \/ PersonalAccount
  BY <1>8 DEF LoginBootstrap, LoginContinue, LoginPassword, LoginCode, PersonalAccount, Confirm,
     RefusedLogin, LostLogin, RaiseLogin, LoginFails
<1>9. CASE LoginWrite
  BY <1>9 DEF LoginWrite, AuditSucceeds
<1>10. CASE ExchangeCode \/ OnboardingLogin \/ OrganizationUpdate \/ UserUpdate
  BY <1>10 DEF ExchangeCode, OnboardingLogin, OrganizationUpdate, UserUpdate, OrgEffect
<1>11. CASE OrgWrite
  BY <1>11 DEF OrgWrite
<1>12. CASE BindMailbox \/ RunOAuth \/ ReleaseSessions
  BY <1>12 DEF BindMailbox, RunOAuth, ReleaseSessions
<1>13. CASE ClearSession
  BY <1>13 DEF ClearSession
<1>14. CASE AuditRefresh \/ AuditMailbox
  BY <1>14 DEF AuditRefresh, AuditMailbox, Rotate, Verdict
<1>15. CASE Kill \/ Deactivate \/ UNCHANGED vars
  BY <1>15 DEF Kill, Deactivate, vars
<1>16. QED
  BY <1>1, <1>2, <1>3, <1>4, <1>5, <1>6, <1>7, <1>8, <1>9, <1>10, <1>11, <1>12, <1>13, <1>14,
     <1>15
  DEF Next, Work

LEMMA LentSteps ==
  ASSUME [Next]_vars
  PROVE  lent' = lent \/ BeginCreate \/ Cleanup
<1> USE DEF Goto, At, Ask, world, server, local, BeginOn, Begin, RaiseSignup, NextSignup,
   RefusedSignup, LostSignup, Proceed, Fails, Rewrite, Wall, Passwordless
<1>1. CASE BeginCreate \/ BeginInit \/ BeginLogin \/ BeginOrg \/ BeginOAuth \/ BeginAudit
  BY <1>1 DEF BeginCreate, OwnMailbox, HandedMailbox, BeginInit, BeginLogin, BeginOrg, BeginOAuth, BeginAudit, Verdict,
     Begin
<1>2. CASE OpenSignup \/ WarmUp \/ Authorize \/ SubmitEmail \/ WaitCode \/ PersistPhoneRecord
  BY <1>2 DEF OpenSignup, WarmUp, Authorize, SubmitEmail, WaitCode, NoCode,
     PersistPhoneRecord, KeepMailbox
<1>3. CASE UserRegister \/ ValidateCode \/ CreateAccount \/ Cleanup
  BY <1>3 DEF UserRegister, RegisterEffect, Registered, ValidateCode, Confirm, CreateAccount,
     Made, Cleanup
<1>4. CASE PersistRecord
  BY <1>4 DEF PersistRecord
<1>5. CASE PersistDiagnostics
  BY <1>5 DEF PersistDiagnostics
<1>6. CASE InitEntry \/ InitContinue \/ InitCode
  BY <1>6 DEF InitEntry, InitContinue, InitCode, Confirm
<1>7. CASE InitWrite
  BY <1>7 DEF InitWrite
<1>8. CASE LoginBootstrap \/ LoginContinue \/ LoginPassword \/ LoginCode \/ PersonalAccount
  BY <1>8 DEF LoginBootstrap, LoginContinue, LoginPassword, LoginCode, PersonalAccount, Confirm,
     RefusedLogin, LostLogin, RaiseLogin, LoginFails
<1>9. CASE LoginWrite
  BY <1>9 DEF LoginWrite, AuditSucceeds
<1>10. CASE ExchangeCode \/ OnboardingLogin \/ OrganizationUpdate \/ UserUpdate
  BY <1>10 DEF ExchangeCode, OnboardingLogin, OrganizationUpdate, UserUpdate, OrgEffect
<1>11. CASE OrgWrite
  BY <1>11 DEF OrgWrite
<1>12. CASE BindMailbox \/ RunOAuth \/ ReleaseSessions
  BY <1>12 DEF BindMailbox, RunOAuth, ReleaseSessions
<1>13. CASE ClearSession
  BY <1>13 DEF ClearSession
<1>14. CASE AuditRefresh \/ AuditMailbox
  BY <1>14 DEF AuditRefresh, AuditMailbox, Rotate, Verdict, Recover
<1>15. CASE Kill \/ Deactivate \/ UNCHANGED vars
  BY <1>15 DEF Kill, Deactivate, vars
<1>16. QED
  BY <1>1, <1>2, <1>3, <1>4, <1>5, <1>6, <1>7, <1>8, <1>9, <1>10, <1>11, <1>12, <1>13, <1>14,
     <1>15
  DEF Next, Work

LEMMA MailboxSteps ==
  ASSUME [Next]_vars
  PROVE  /\ \/ open \subseteq open' /\ swept' = swept
            \/ /\ Cleanup /\ ~keep /\ open' = open \ {box} /\ swept' = swept
               /\ box \in lent' \/ box = steps
            \/ swept'
            \/ PersistRecord /\ open' = open
         /\ open' \subseteq open \union {steps'}
         /\ open' \subseteq open \/ steps' = steps + 1 \/ pc # "idle"
         /\ lent \subseteq lent'
         /\ steps' \in {steps, steps + 1} /\ box' \in {box, file.box, steps'} \union 1 .. steps
<1> USE DEF Goto, At, Ask, world, server, local, BeginOn, Begin, RaiseSignup, NextSignup,
   RefusedSignup, LostSignup, Proceed, Fails, Rewrite, Wall, Passwordless
<1>1. CASE BeginCreate \/ BeginInit \/ BeginLogin \/ BeginOrg \/ BeginOAuth \/ BeginAudit
  BY <1>1 DEF BeginCreate, OwnMailbox, HandedMailbox, BeginInit, BeginLogin, BeginOrg, BeginOAuth, BeginAudit, Verdict,
     Begin
<1>2. CASE OpenSignup \/ WarmUp \/ Authorize \/ SubmitEmail \/ WaitCode \/ PersistPhoneRecord
  BY <1>2 DEF OpenSignup, WarmUp, Authorize, SubmitEmail, WaitCode, NoCode,
     PersistPhoneRecord, KeepMailbox
<1>3. CASE UserRegister \/ ValidateCode \/ CreateAccount \/ Cleanup
  BY <1>3 DEF UserRegister, RegisterEffect, Registered, ValidateCode, Confirm, CreateAccount,
     Made, Cleanup
<1>4. CASE PersistRecord
  BY <1>4 DEF PersistRecord
<1>5. CASE PersistDiagnostics
  BY <1>5 DEF PersistDiagnostics
<1>6. CASE InitEntry \/ InitContinue \/ InitCode
  BY <1>6 DEF InitEntry, InitContinue, InitCode, Confirm
<1>7. CASE InitWrite
  BY <1>7 DEF InitWrite
<1>8. CASE LoginBootstrap \/ LoginContinue \/ LoginPassword \/ LoginCode \/ PersonalAccount
  BY <1>8 DEF LoginBootstrap, LoginContinue, LoginPassword, LoginCode, PersonalAccount, Confirm,
     RefusedLogin, LostLogin, RaiseLogin, LoginFails
<1>9. CASE LoginWrite
  BY <1>9 DEF LoginWrite, AuditSucceeds
<1>10. CASE ExchangeCode \/ OnboardingLogin \/ OrganizationUpdate \/ UserUpdate
  BY <1>10 DEF ExchangeCode, OnboardingLogin, OrganizationUpdate, UserUpdate, OrgEffect
<1>11. CASE OrgWrite
  BY <1>11 DEF OrgWrite
<1>12. CASE BindMailbox \/ RunOAuth \/ ReleaseSessions
  BY <1>12 DEF BindMailbox, RunOAuth, ReleaseSessions
<1>13. CASE ClearSession
  BY <1>13 DEF ClearSession
<1>14. CASE AuditRefresh \/ AuditMailbox
  BY <1>14 DEF AuditRefresh, AuditMailbox, Rotate, Verdict, Recover
<1>15. CASE Kill \/ Deactivate \/ UNCHANGED vars
  BY <1>15 DEF Kill, Deactivate, vars
<1>16. QED
  BY <1>1, <1>2, <1>3, <1>4, <1>5, <1>6, <1>7, <1>8, <1>9, <1>10, <1>11, <1>12, <1>13, <1>14,
     <1>15
  DEF Next, Work

-----------------------------------------------------------------------------
(* Every part of the invariant survives every step *)

LEMMA NextSessions ==
  ASSUME CountOK, FileOK, SessionsInv, [Next]_vars
  PROVE  SessionsInv'
<1> USE DEF Goto, At, Ask, Answered, world, server, local, NextSignup, RefusedSignup,
   LostSignup, RaiseSignup, Proceed, Fails, RaiseLogin, RefusedLogin, LostLogin, LoginFails,
   SessionsInv, FileOK, CreateAt, InitAt, LoginAt, AuditAt
<1>1. CASE BeginInit \/ BeginLogin \/ BeginOrg \/ BeginOAuth \/ BeginAudit
  BY <1>1 DEF BeginInit, BeginLogin, BeginOrg, BeginOAuth, BeginAudit, BeginOn, Begin, Verdict
<1>1a. CASE BeginCreate
  <2>1. file.box # steps + 1
    BY DEF CountOK
  <2>2. CASE OwnMailbox
    BY <1>1a, <2>1, <2>2 DEF BeginCreate, OwnMailbox, Begin
  <2>3. ASSUME NEW n \in 1 .. steps, HandedMailbox(n) PROVE SessionsInv'
    <3>1. n # steps' /\ n \in open' \union lent'
      BY <1>1a, <2>3 DEF BeginCreate, HandedMailbox, Begin, CountOK
    <3>2. QED
      BY <1>1a, <2>3, <3>1 DEF BeginCreate, HandedMailbox, Begin
  <2>4. QED
    BY <1>1a, <2>2, <2>3 DEF BeginCreate
<1>2. CASE OpenSignup \/ WarmUp
  BY <1>2 DEF OpenSignup, WarmUp
<1>2a. CASE Authorize
  BY <1>2a DEF Authorize, Passwordless, Wall, KeepMailbox
<1>2b. CASE SubmitEmail
  BY <1>2b DEF SubmitEmail, Passwordless, Wall, KeepMailbox
<1>3. CASE UserRegister
  BY <1>3 DEF UserRegister, RegisterEffect, Registered, Wall, KeepMailbox
<1>3a. CASE WaitCode
  BY <1>3a DEF WaitCode, NoCode
<1>3b. CASE ValidateCode
  BY <1>3b DEF ValidateCode, Confirm, Wall, KeepMailbox
<1>3c. CASE CreateAccount
  BY <1>3c DEF CreateAccount, Made, Wall, KeepMailbox
<1>3d. CASE Cleanup
  BY <1>3d DEF Cleanup
<1>4. CASE PersistRecord
  BY <1>4 DEF PersistRecord, WriteFails, Record
<1>5. CASE PersistPhoneRecord \/ PersistDiagnostics
  BY <1>5 DEF PersistPhoneRecord, PersistDiagnostics, WriteFails
<1>6. CASE InitEntry \/ InitContinue \/ InitCode
  BY <1>6 DEF InitEntry, InitContinue, InitCode, Confirm
<1>7. CASE InitWrite
  BY <1>7 DEF InitWrite, Rewrite, WriteFails
<1>8. CASE LoginBootstrap \/ LoginContinue
  BY <1>8 DEF LoginBootstrap, LoginContinue
<1>8a. CASE LoginPassword \/ LoginCode \/ PersonalAccount
  BY <1>8a DEF LoginPassword, LoginCode, PersonalAccount, Confirm
<1>9. CASE LoginWrite
  BY <1>9 DEF LoginWrite, LoggedIn, AuditSucceeds, Rewrite, WriteFails
<1>10. CASE ExchangeCode \/ OnboardingLogin \/ OrganizationUpdate \/ UserUpdate
  BY <1>10 DEF ExchangeCode, OnboardingLogin, OrganizationUpdate, UserUpdate, OrgEffect
<1>11. CASE OrgWrite
  BY <1>11 DEF OrgWrite, WithTokens, Rewrite, WriteFails
<1>12. CASE BindMailbox \/ RunOAuth \/ ReleaseSessions
  BY <1>12 DEF BindMailbox, RunOAuth, ReleaseSessions
<1>13. CASE ClearSession
  BY <1>13 DEF ClearSession
<1>14. CASE AuditRefresh \/ AuditMailbox
  BY <1>14 DEF AuditRefresh, AuditMailbox, Rotate, Verdict, Recover
<1>15. CASE Kill \/ Deactivate \/ UNCHANGED vars
  BY <1>15 DEF Kill, Deactivate, vars, WriteFails
<1>16. QED
  BY <1>1, <1>1a, <1>2, <1>2a, <1>2b, <1>3, <1>3a, <1>3b, <1>3c, <1>3d, <1>4, <1>5, <1>6,
     <1>7, <1>8, <1>8a, <1>9, <1>10, <1>11, <1>12, <1>13, <1>14, <1>15
  DEF Next, Work

LEMMA NextReport ==
  ASSUME ReportInv, [Next]_vars
  PROVE  ReportInv'
<1> USE DEF Goto, At, Ask, Answered, world, server, local, NextSignup, RefusedSignup,
   LostSignup, RaiseSignup, Proceed, Fails, RaiseLogin, RefusedLogin, LostLogin, LoginFails,
   ReportInv
<1>1. CASE BeginCreate \/ BeginInit \/ BeginLogin \/ BeginOrg \/ BeginOAuth \/ BeginAudit
  BY <1>1 DEF BeginCreate, OwnMailbox, HandedMailbox, BeginInit, BeginLogin, BeginOrg, BeginOAuth, BeginAudit, BeginOn,
     Begin, Verdict
<1>2. CASE OpenSignup \/ WarmUp
  BY <1>2 DEF OpenSignup, WarmUp
<1>2a. CASE Authorize
  BY <1>2a DEF Authorize, Passwordless, Wall, KeepMailbox
<1>2b. CASE SubmitEmail
  BY <1>2b DEF SubmitEmail, Passwordless, Wall, KeepMailbox
<1>3. CASE UserRegister
  BY <1>3 DEF UserRegister, RegisterEffect, Registered, Wall, KeepMailbox
<1>3a. CASE WaitCode
  BY <1>3a DEF WaitCode, NoCode
<1>3b. CASE ValidateCode
  BY <1>3b DEF ValidateCode, Confirm, Wall, KeepMailbox
<1>3c. CASE CreateAccount
  BY <1>3c DEF CreateAccount, Made, Wall, KeepMailbox
<1>3d. CASE Cleanup
  BY <1>3d DEF Cleanup
<1>4. CASE PersistRecord
  BY <1>4 DEF PersistRecord, WriteFails, Record
<1>5. CASE PersistPhoneRecord \/ PersistDiagnostics
  BY <1>5 DEF PersistPhoneRecord, PersistDiagnostics, WriteFails
<1>6. CASE InitEntry \/ InitContinue \/ InitCode
  BY <1>6 DEF InitEntry, InitContinue, InitCode, Confirm
<1>7. CASE InitWrite
  <2>1. pc' = "idle"
    BY <1>7 DEF InitWrite, Rewrite
  <2>2. QED
    BY <2>1
<1>8. CASE LoginBootstrap \/ LoginContinue
  BY <1>8 DEF LoginBootstrap, LoginContinue
<1>8a. CASE LoginPassword \/ LoginCode \/ PersonalAccount
  BY <1>8a DEF LoginPassword, LoginCode, PersonalAccount, Confirm
<1>9. CASE LoginWrite
  BY <1>9 DEF LoginWrite, LoggedIn, AuditSucceeds, Rewrite, WriteFails
<1>10. CASE ExchangeCode \/ OnboardingLogin \/ OrganizationUpdate \/ UserUpdate
  BY <1>10 DEF ExchangeCode, OnboardingLogin, OrganizationUpdate, UserUpdate, OrgEffect
<1>11. CASE OrgWrite
  BY <1>11 DEF OrgWrite, WithTokens, Rewrite, WriteFails
<1>12. CASE BindMailbox \/ RunOAuth \/ ReleaseSessions
  BY <1>12 DEF BindMailbox, RunOAuth, ReleaseSessions
<1>13. CASE ClearSession
  BY <1>13 DEF ClearSession
<1>14. CASE AuditRefresh \/ AuditMailbox
  BY <1>14 DEF AuditRefresh, AuditMailbox, Rotate, Verdict, Recover
<1>15. CASE Kill \/ Deactivate \/ UNCHANGED vars
  BY <1>15 DEF Kill, Deactivate, vars, WriteFails
<1>16. QED
  BY <1>1, <1>2, <1>2a, <1>2b, <1>3, <1>3a, <1>3b, <1>3c, <1>3d, <1>4, <1>5, <1>6, <1>7, <1>8,
     <1>8a, <1>9, <1>10, <1>11, <1>12, <1>13, <1>14, <1>15
  DEF Next, Work

LEMMA NextCount ==
  ASSUME CountOK, SessionsInv, [Next]_vars
  PROVE  CountOK'
<1> USE DEF Goto, At, Ask, Answered, world, server, local, NextSignup, RefusedSignup,
   LostSignup, RaiseSignup, Proceed, Fails, RaiseLogin, RefusedLogin, LostLogin, LoginFails,
   SessionsInv, CountOK, Fault, NextAttempt, More, CreateAt, InitAt, LoginAt, AuditAt
<1>1. CASE BeginCreate \/ BeginInit \/ BeginLogin \/ BeginOrg \/ BeginOAuth \/ BeginAudit
  BY <1>1 DEF BeginCreate, OwnMailbox, HandedMailbox, BeginInit, BeginLogin, BeginOrg, BeginOAuth, BeginAudit, BeginOn,
     Begin, Verdict
<1>2. CASE OpenSignup \/ WarmUp
  BY <1>2 DEF OpenSignup, WarmUp
<1>2a. CASE Authorize
  BY <1>2a DEF Authorize, Passwordless, Wall, KeepMailbox
<1>2b. CASE SubmitEmail
  BY <1>2b DEF SubmitEmail, Passwordless, Wall, KeepMailbox
<1>3. CASE UserRegister
  BY <1>3 DEF UserRegister, RegisterEffect, Registered, Wall, KeepMailbox
<1>3a. CASE WaitCode
  BY <1>3a DEF WaitCode, NoCode
<1>3b. CASE ValidateCode
  BY <1>3b DEF ValidateCode, Confirm, Wall, KeepMailbox
<1>3c. CASE CreateAccount
  BY <1>3c DEF CreateAccount, Made, Wall, KeepMailbox
<1>3d. CASE Cleanup
  BY <1>3d DEF Cleanup
<1>4. CASE PersistRecord
  <2>1. /\ pc = "persist" /\ UNCHANGED <<kind, steps>>
        /\ att' = att \/ (att' = att + 1 /\ att < SignupAttempts)
    BY <1>4 DEF PersistRecord
  <2>2. faults' = faults \/ (faults < MaxFaults /\ faults' = faults + 1)
    BY <1>4 DEF PersistRecord, WriteFails
  <2>3. QED
    BY <2>1, <2>2
<1>5. CASE PersistPhoneRecord \/ PersistDiagnostics
  BY <1>5 DEF PersistPhoneRecord, PersistDiagnostics, WriteFails
<1>6. CASE InitEntry \/ InitContinue \/ InitCode
  BY <1>6 DEF InitEntry, InitContinue, InitCode, Confirm
<1>7. CASE InitWrite
  BY <1>7 DEF InitWrite, Rewrite, WriteFails
<1>8. CASE LoginBootstrap \/ LoginContinue
  BY <1>8 DEF LoginBootstrap, LoginContinue
<1>8a. CASE LoginPassword \/ LoginCode \/ PersonalAccount
  BY <1>8a DEF LoginPassword, LoginCode, PersonalAccount, Confirm
<1>9. CASE LoginWrite
  BY <1>9 DEF LoginWrite, LoggedIn, AuditSucceeds, Rewrite, WriteFails
<1>10. CASE ExchangeCode \/ OnboardingLogin \/ OrganizationUpdate \/ UserUpdate
  BY <1>10 DEF ExchangeCode, OnboardingLogin, OrganizationUpdate, UserUpdate, OrgEffect
<1>11. CASE OrgWrite
  BY <1>11 DEF OrgWrite, WithTokens, Rewrite, WriteFails
<1>12. CASE BindMailbox \/ RunOAuth \/ ReleaseSessions
  BY <1>12 DEF BindMailbox, RunOAuth, ReleaseSessions
<1>13. CASE ClearSession
  BY <1>13 DEF ClearSession
<1>14. CASE AuditRefresh \/ AuditMailbox
  BY <1>14 DEF AuditRefresh, AuditMailbox, Rotate, Verdict, Recover
<1>15. CASE Kill \/ Deactivate \/ UNCHANGED vars
  BY <1>15 DEF Kill, Deactivate, vars, WriteFails
<1>16. QED
  BY <1>1, <1>2, <1>2a, <1>2b, <1>3, <1>3a, <1>3b, <1>3c, <1>3d, <1>4, <1>5, <1>6, <1>7, <1>8,
     <1>8a, <1>9, <1>10, <1>11, <1>12, <1>13, <1>14, <1>15
  DEF Next, Work

LEMMA NextServer ==
  ASSUME ServerOK, [Next]_vars
  PROVE  ServerOK'
<1> USE DEF Goto, At, Ask, Answered, world, server, local, NextSignup, RefusedSignup,
   LostSignup, RaiseSignup, Proceed, Fails, RaiseLogin, RefusedLogin, LostLogin, LoginFails,
   ServerOK
<1>1. CASE BeginCreate \/ BeginInit \/ BeginLogin \/ BeginOrg \/ BeginOAuth \/ BeginAudit
  BY <1>1 DEF BeginCreate, OwnMailbox, HandedMailbox, BeginInit, BeginLogin, BeginOrg, BeginOAuth, BeginAudit, BeginOn,
     Begin, Verdict
<1>2. CASE OpenSignup \/ WarmUp
  BY <1>2 DEF OpenSignup, WarmUp
<1>2a. CASE Authorize
  BY <1>2a DEF Authorize, Passwordless, Wall, KeepMailbox
<1>2b. CASE SubmitEmail
  BY <1>2b DEF SubmitEmail, Passwordless, Wall, KeepMailbox
<1>3. CASE UserRegister
  BY <1>3 DEF UserRegister, RegisterEffect, Registered, Wall, KeepMailbox
<1>3a. CASE WaitCode
  BY <1>3a DEF WaitCode, NoCode
<1>3b. CASE ValidateCode
  BY <1>3b DEF ValidateCode, Confirm, Wall, KeepMailbox
<1>3c. CASE CreateAccount
  BY <1>3c DEF CreateAccount, Made, Wall, KeepMailbox
<1>3d. CASE Cleanup
  BY <1>3d DEF Cleanup
<1>4. CASE PersistRecord
  <2>1. Record.code \in BOOLEAN
    BY DEF Record, NoFile
  <2>2. codeok' = codeok \/ codeok' = Record.code
    BY <1>4 DEF PersistRecord
  <2>3. QED
    BY <1>4, <2>1, <2>2 DEF PersistRecord
<1>5. CASE PersistPhoneRecord \/ PersistDiagnostics
  BY <1>5 DEF PersistPhoneRecord, PersistDiagnostics, WriteFails
<1>6. CASE InitEntry \/ InitContinue \/ InitCode
  BY <1>6 DEF InitEntry, InitContinue, InitCode, Confirm
<1>7. CASE InitWrite
  BY <1>7 DEF InitWrite, Rewrite, WriteFails
<1>8. CASE LoginBootstrap \/ LoginContinue
  BY <1>8 DEF LoginBootstrap, LoginContinue
<1>8a. CASE LoginPassword \/ LoginCode \/ PersonalAccount
  BY <1>8a DEF LoginPassword, LoginCode, PersonalAccount, Confirm
<1>9. CASE LoginWrite
  BY <1>9 DEF LoginWrite, LoggedIn, AuditSucceeds, Rewrite, WriteFails
<1>10. CASE ExchangeCode \/ OnboardingLogin \/ OrganizationUpdate \/ UserUpdate
  BY <1>10 DEF ExchangeCode, OnboardingLogin, OrganizationUpdate, UserUpdate, OrgEffect
<1>11. CASE OrgWrite
  BY <1>11 DEF OrgWrite, WithTokens, Rewrite, WriteFails
<1>12. CASE BindMailbox \/ RunOAuth \/ ReleaseSessions
  BY <1>12 DEF BindMailbox, RunOAuth, ReleaseSessions
<1>13. CASE ClearSession
  BY <1>13 DEF ClearSession
<1>14. CASE AuditRefresh \/ AuditMailbox
  BY <1>14 DEF AuditRefresh, AuditMailbox, Rotate, Verdict, Recover
<1>15. CASE Kill \/ Deactivate \/ UNCHANGED vars
  BY <1>15 DEF Kill, Deactivate, vars, WriteFails
<1>16. QED
  BY <1>1, <1>2, <1>2a, <1>2b, <1>3, <1>3a, <1>3b, <1>3c, <1>3d, <1>4, <1>5, <1>6, <1>7, <1>8,
     <1>8a, <1>9, <1>10, <1>11, <1>12, <1>13, <1>14, <1>15
  DEF Next, Work

LEMMA NextMade ==
  ASSUME MadeInv, [Next]_vars
  PROVE  MadeInv'
<1> USE DEF Goto, At, Ask, Answered, world, server, local, NextSignup, RefusedSignup,
   LostSignup, RaiseSignup, Proceed, Fails, RaiseLogin, RefusedLogin, LostLogin, LoginFails,
   MadeInv
<1>1. CASE BeginCreate \/ BeginInit \/ BeginLogin \/ BeginOrg \/ BeginOAuth \/ BeginAudit
  BY <1>1 DEF BeginCreate, OwnMailbox, HandedMailbox, BeginInit, BeginLogin, BeginOrg, BeginOAuth, BeginAudit, BeginOn,
     Begin, Verdict
<1>2. CASE OpenSignup \/ WarmUp
  BY <1>2 DEF OpenSignup, WarmUp
<1>2a. CASE Authorize
  BY <1>2a DEF Authorize, Passwordless, Wall, KeepMailbox
<1>2b. CASE SubmitEmail
  BY <1>2b DEF SubmitEmail, Passwordless, Wall, KeepMailbox
<1>3. CASE UserRegister
  BY <1>3 DEF UserRegister, RegisterEffect, Registered, Wall, KeepMailbox
<1>3a. CASE WaitCode
  BY <1>3a DEF WaitCode, NoCode
<1>3b. CASE ValidateCode
  BY <1>3b DEF ValidateCode, Confirm, Wall, KeepMailbox
<1>3c. CASE CreateAccount
  BY <1>3c DEF CreateAccount, Made, Wall, KeepMailbox
<1>3d. CASE Cleanup
  BY <1>3d DEF Cleanup
<1>4. CASE PersistRecord
  <2>1. Record.code => surface = "callback"
    BY DEF Record, NoFile
  <2>2. QED
    BY <1>4, <2>1 DEF PersistRecord, WriteFails
<1>5. CASE PersistPhoneRecord \/ PersistDiagnostics
  BY <1>5 DEF PersistPhoneRecord, PersistDiagnostics, WriteFails
<1>6. CASE InitEntry \/ InitContinue \/ InitCode
  BY <1>6 DEF InitEntry, InitContinue, InitCode, Confirm
<1>7. CASE InitWrite
  BY <1>7 DEF InitWrite, Rewrite, WriteFails
<1>8. CASE LoginBootstrap \/ LoginContinue
  BY <1>8 DEF LoginBootstrap, LoginContinue
<1>8a. CASE LoginPassword \/ LoginCode \/ PersonalAccount
  BY <1>8a DEF LoginPassword, LoginCode, PersonalAccount, Confirm
<1>9. CASE LoginWrite
  BY <1>9 DEF LoginWrite, LoggedIn, AuditSucceeds, Rewrite, WriteFails
<1>10. CASE ExchangeCode \/ OnboardingLogin \/ OrganizationUpdate \/ UserUpdate
  BY <1>10 DEF ExchangeCode, OnboardingLogin, OrganizationUpdate, UserUpdate, OrgEffect
<1>11. CASE OrgWrite
  BY <1>11 DEF OrgWrite, WithTokens, Rewrite, WriteFails
<1>12. CASE BindMailbox \/ RunOAuth \/ ReleaseSessions
  BY <1>12 DEF BindMailbox, RunOAuth, ReleaseSessions
<1>13. CASE ClearSession
  BY <1>13 DEF ClearSession
<1>14. CASE AuditRefresh \/ AuditMailbox
  BY <1>14 DEF AuditRefresh, AuditMailbox, Rotate, Verdict, Recover
<1>15. CASE Kill \/ Deactivate \/ UNCHANGED vars
  BY <1>15 DEF Kill, Deactivate, vars, WriteFails
<1>16. QED
  BY <1>1, <1>2, <1>2a, <1>2b, <1>3, <1>3a, <1>3b, <1>3c, <1>3d, <1>4, <1>5, <1>6, <1>7, <1>8,
     <1>8a, <1>9, <1>10, <1>11, <1>12, <1>13, <1>14, <1>15
  DEF Next, Work

LEMMA NextLocal ==
  ASSUME LocalOK, [Next]_vars
  PROVE  LocalOK'
<1> USE DEF Goto, At, Ask, Answered, world, server, local, NextSignup, RefusedSignup,
   LostSignup, RaiseSignup, Proceed, Fails, RaiseLogin, RefusedLogin, LostLogin, LoginFails,
   LocalOK
<1>1. CASE BeginCreate \/ BeginInit \/ BeginLogin \/ BeginOrg \/ BeginOAuth \/ BeginAudit
  BY <1>1 DEF BeginCreate, OwnMailbox, HandedMailbox, BeginInit, BeginLogin, BeginOrg, BeginOAuth, BeginAudit, BeginOn,
     Begin, Verdict
<1>2. CASE OpenSignup \/ WarmUp
  BY <1>2 DEF OpenSignup, WarmUp
<1>2a. CASE Authorize
  BY <1>2a DEF Authorize, Passwordless, Wall, KeepMailbox
<1>2b. CASE SubmitEmail
  BY <1>2b DEF SubmitEmail, Passwordless, Wall, KeepMailbox
<1>3. CASE UserRegister
  BY <1>3 DEF UserRegister, RegisterEffect, Registered, Wall, KeepMailbox
<1>3a. CASE WaitCode
  BY <1>3a DEF WaitCode, NoCode
<1>3b. CASE ValidateCode
  BY <1>3b DEF ValidateCode, Confirm, Wall, KeepMailbox
<1>3c. CASE CreateAccount
  BY <1>3c DEF CreateAccount, Made, Wall, KeepMailbox
<1>3d. CASE Cleanup
  BY <1>3d DEF Cleanup
<1>4. CASE PersistRecord
  BY <1>4 DEF PersistRecord, WriteFails, Record
<1>5. CASE PersistPhoneRecord \/ PersistDiagnostics
  BY <1>5 DEF PersistPhoneRecord, PersistDiagnostics, WriteFails
<1>6. CASE InitEntry \/ InitContinue \/ InitCode
  BY <1>6 DEF InitEntry, InitContinue, InitCode, Confirm
<1>7. CASE InitWrite
  BY <1>7 DEF InitWrite, Rewrite, WriteFails
<1>8. CASE LoginBootstrap \/ LoginContinue
  BY <1>8 DEF LoginBootstrap, LoginContinue
<1>8a. CASE LoginPassword \/ LoginCode \/ PersonalAccount
  BY <1>8a DEF LoginPassword, LoginCode, PersonalAccount, Confirm
<1>9. CASE LoginWrite
  BY <1>9 DEF LoginWrite, LoggedIn, AuditSucceeds, Rewrite, WriteFails
<1>10. CASE ExchangeCode \/ OnboardingLogin \/ OrganizationUpdate \/ UserUpdate
  BY <1>10 DEF ExchangeCode, OnboardingLogin, OrganizationUpdate, UserUpdate, OrgEffect
<1>11. CASE OrgWrite
  BY <1>11 DEF OrgWrite, WithTokens, Rewrite, WriteFails
<1>12. CASE BindMailbox \/ RunOAuth \/ ReleaseSessions
  <2>1. UNCHANGED <<kind, keep, surface, verdict>>
    BY <1>12 DEF BindMailbox, RunOAuth, ReleaseSessions
  <2>2. swept' = swept \/ swept' = TRUE
    BY <1>12 DEF BindMailbox, RunOAuth, ReleaseSessions
  <2>3. QED
    BY <2>1, <2>2
<1>13. CASE ClearSession
  BY <1>13 DEF ClearSession
<1>14. CASE AuditRefresh \/ AuditMailbox
  BY <1>14 DEF AuditRefresh, AuditMailbox, Rotate, Verdict, Recover
<1>15. CASE Kill \/ Deactivate \/ UNCHANGED vars
  BY <1>15 DEF Kill, Deactivate, vars, WriteFails
<1>16. QED
  BY <1>1, <1>2, <1>2a, <1>2b, <1>3, <1>3a, <1>3b, <1>3c, <1>3d, <1>4, <1>5, <1>6, <1>7, <1>8,
     <1>8a, <1>9, <1>10, <1>11, <1>12, <1>13, <1>14, <1>15
  DEF Next, Work

LEMMA NextFile ==
  ASSUME CountOK, CountOK', FileOK, LocalOK, [Next]_vars
  PROVE  FileOK'
<1>1. /\ steps' \in {steps, steps + 1} /\ box' \in {box, file.box, steps'} \union 1 .. steps
      /\ steps \in Nat /\ steps' \in Nat
  BY MailboxSteps DEF CountOK
<1>2. box' \in 0 .. steps' /\ file.box <= steps'
  BY <1>1 DEF FileOK, Records
<1>3. CASE file' = file
  BY <1>2, <1>3 DEF FileOK, Records
<1>4. CASE file' = [file EXCEPT !.st = "torn"] \/ file' = [file EXCEPT !.session = FALSE]
  BY <1>2, <1>4 DEF FileOK, Records
<1>5. CASE PersistRecord /\ file' = Record
  <2>1. pc = "persist" /\ steps \in 1 .. MaxSteps /\ box \in 0 .. steps /\ steps' = steps
    BY <1>5 DEF PersistRecord, At, CountOK, FileOK
  <2>2. Generated \in Passwords /\ Generated # NoPassword
    BY <2>1 DEF Passwords, Generated, NoPassword
  <2>3. /\ Record \in Records
        /\ Record.pw = Generated /\ Record.box = box
    <3>1. PICK c \in BOOLEAN : c = (surface = "callback")
      OBVIOUS
    <3>2. Record = [NoFile EXCEPT !.st = "ok", !.pw = Generated, !.box = box, !.code = c]
      BY <3>1 DEF Record
    <3>3. QED
      <4>1. NoFile \in Records
        BY DEF Records, Passwords, NoFile
      <4>2. [NoFile EXCEPT !.st = "ok", !.pw = Generated] \in Records
        BY <2>2, <4>1 DEF Records
      <4>3. box \in 0 .. MaxSteps
        BY <2>1
      <4>4. Record \in Records
        BY <3>2, <4>2, <4>3 DEF Records
      <4>5. Record.pw = Generated /\ Record.box = box
        BY <3>2 DEF NoFile
      <4>6. QED
        BY <4>4, <4>5
  <2>4. QED
    BY <1>2, <1>5, <2>1, <2>2, <2>3 DEF FileOK, Records
<1>6. CASE file' = [file EXCEPT !.init = TRUE, !.box = box] \/ file' = LoggedIn
  <2>1. box \in 0 .. MaxSteps /\ box <= steps'
    BY <1>1 DEF FileOK, Records, CountOK
  <2>2. QED
    BY <1>2, <1>6, <2>1 DEF FileOK, Records, LoggedIn
<1>7. ASSUME NEW refresh \in BOOLEAN, file' = WithTokens(refresh) PROVE FileOK'
  <2>1. (file.token \/ refresh) \in BOOLEAN
    OBVIOUS
  <2>2. QED
    BY <1>2, <1>7, <2>1 DEF FileOK, Records, WithTokens
<1>8. QED
  BY <1>3, <1>4, <1>5, <1>6, <1>7, RecordSteps

LEMMA NextMailbox ==
  ASSUME CountOK, FileOK, SessionsInv, RecordHasMailbox, [Next]_vars
  PROVE  RecordHasMailbox'
<1>1. CASE swept'
  BY <1>1 DEF RecordHasMailbox
<1>2. CASE PersistRecord /\ file' = Record
  <2>1. box \in open \union lent /\ open' = open /\ lent' = lent
    BY <1>2 DEF PersistRecord, At, SessionsInv, CreateAt
  <2>2. Record.box = box
    BY DEF Record, NoFile
  <2>3. QED
    BY <1>2, <2>1, <2>2 DEF RecordHasMailbox
<1>3. CASE ~swept' /\ ~(PersistRecord /\ file' = Record)
  <2>1. /\ swept' = swept /\ lent \subseteq lent'
        /\ \/ open \subseteq open'
           \/ Cleanup /\ ~keep /\ open' = open \ {box} /\ (box \in lent' \/ box = steps)
    BY <1>3, MailboxSteps DEF PersistRecord
  <2>2. file'.box = file.box /\ (file'.st = "ok" => file.st = "ok")
    BY <1>3, RecordSteps DEF FileOK, Records, SessionsInv, InitWrite, LoginWrite, At, InitAt,
       LoginAt, LoggedIn, WithTokens
  <2>3. CASE open \subseteq open'
    BY <1>3, <2>1, <2>2, <2>3 DEF RecordHasMailbox
  <2>4. CASE Cleanup /\ ~keep /\ open' = open \ {box} /\ (box \in lent' \/ box = steps)
    <3>1. file.box # box \/ box \in lent'
      BY <2>4 DEF Cleanup, At, SessionsInv, CreateAt
    <3>2. QED
      BY <1>3, <2>1, <2>2, <2>4, <3>1 DEF RecordHasMailbox
  <2>5. QED
    BY <2>1, <2>3, <2>4
<1>4. QED
  BY <1>1, <1>2, <1>3

LEMMA NextReports ==
  ASSUME FileOK, ReportInv, MadeInv, ReportsAreTrue, ServerOK, [Next]_vars
  PROVE  ReportsAreTrue'
<1>1. /\ account # "none" => account' # "none"
      /\ account = "made" => account' = "made"
      /\ org = "done" => org' = "done"
      /\ verdict' = "succeeded" => \/ verdict = "succeeded"
                                  \/ pc = "login_write" \/ tokenok
  BY ServerSteps
<1>2. /\ file'.init => file.init \/ pc = "init_write"
      /\ file'.login => file.login \/ pc = "login_write"
      /\ file'.org => file.org \/ pc = "org_write"
  BY RecordSteps DEF FileOK, Records, InitWrite, LoginWrite, OrgWrite, At, LoggedIn,
     WithTokens, Record, NoFile
<1>3. QED
  BY <1>1, <1>2 DEF ReportsAreTrue, ReportInv, MadeInv

LEMMA PasswordsAgree ==
  ASSUME FileOK, NamesOK
  PROVE  RecordedPassword
<1>1. file.st = "ok" => \E m \in 1 .. MaxSteps : file.pw = <<m, 1>>
  BY DEF FileOK, Records, Passwords
<1>2. pw # NoPassword => \E n \in 1 .. MaxSteps : pw = <<n, 1>>
  BY DEF NamesOK, Passwords
<1>3. QED
  BY <1>1, <1>2 DEF RecordedPassword

LEMMA NextNames ==
  ASSUME CountOK, CountOK', NamesOK, SessionsInv, [Next]_vars
  PROVE  NamesOK'
<1>1. pw' \in Passwords
  <2>1. CASE pw' = pw
    BY <2>1 DEF NamesOK
  <2>2. CASE pc = "register" /\ pw' = Generated
    <3>1. steps \in 1 .. MaxSteps
      BY <2>2 DEF CountOK
    <3>2. QED
      BY <2>2, <3>1 DEF Generated, Passwords
  <2>3. QED
    BY <2>1, <2>2, ServerSteps
<1>2. open' \subseteq 1 .. MaxSteps
  <2>1. CASE open' \subseteq open
    BY <2>1 DEF NamesOK
  <2>2. CASE steps' = steps + 1 \/ pc # "idle"
    <3>1. steps' \in {steps, steps + 1}
      BY MailboxSteps
    <3>2. steps' \in 1 .. MaxSteps
      BY <2>2, <3>1 DEF CountOK
    <3>3. QED
      BY <3>2, MailboxSteps DEF NamesOK
  <2>3. QED
    BY <2>1, <2>2, MailboxSteps
<1>3. lent' \subseteq 1 .. MaxSteps
  <2>1. CASE lent' = lent
    BY <2>1 DEF NamesOK
  <2>2. CASE BeginCreate
    <3>1. ASSUME NEW n \in 1 .. steps, HandedMailbox(n) PROVE lent' \subseteq 1 .. MaxSteps
      BY <3>1 DEF HandedMailbox, NamesOK, CountOK
    <3>2. QED
      BY <2>1, <2>2, <3>1 DEF BeginCreate, OwnMailbox
  <2>3. CASE Cleanup
    <3>1. box \in 1 .. MaxSteps
      BY <2>3 DEF Cleanup, At, SessionsInv, CreateAt, NamesOK
    <3>2. QED
      BY <2>3, <3>1 DEF Cleanup, NamesOK
  <2>4. QED
    BY <2>1, <2>2, <2>3, LentSteps
<1>4. QED
  BY <1>1, <1>2, <1>3 DEF NamesOK

LEMMA TypesFollow ==
  ASSUME CountOK, ServerOK, LocalOK, FileOK, NamesOK
  PROVE  TypeOK
<1>1. pw \in {NoPassword} \union ((1 .. MaxSteps) \X (1 .. SignupAttempts))
  <2>1. 1 \in 1 .. SignupAttempts
    OBVIOUS
  <2>2. QED
    BY <2>1 DEF NamesOK, Passwords
<1>2. box \in 0 .. MaxSteps
  BY DEF FileOK, CountOK
<1>3. file.st \in {"none", "torn", "ok"} /\ file.box \in 0 .. MaxSteps
  BY DEF FileOK, Records
<1>4. /\ steps \in 0 .. MaxSteps /\ faults \in 0 .. MaxFaults
      /\ att \in 0 .. (IF kind = "create" THEN SignupAttempts ELSE LoginAttempts)
  BY DEF CountOK
<1>5. open \subseteq 1 .. MaxSteps /\ lent \subseteq 1 .. MaxSteps
  BY DEF NamesOK
<1> HIDE FlowAssumption, FlowBoundAssumption
<1>6. QED
  BY <1>1, <1>2, <1>3, <1>4, <1>5 DEF TypeOK, ServerOK, LocalOK

-----------------------------------------------------------------------------
(* The theorems *)

LEMMA InitInv == Init => IInv
<1>1. SUFFICES ASSUME Init PROVE IInv
  OBVIOUS
<1>2. 0 \in 0 .. MaxSteps /\ 0 \in 0 .. MaxFaults
  OBVIOUS
<1>3. CountOK
  BY <1>1, <1>2 DEF Init, CountOK
<1>4. ServerOK /\ LocalOK
  BY <1>1 DEF Init, ServerOK, LocalOK
<1>5. FileOK
  BY <1>1, <1>2 DEF Init, FileOK, Records, Passwords, NoFile
<1>6. NamesOK
  BY <1>1 DEF Init, NamesOK, Passwords
<1>7. SessionsInv /\ MadeInv /\ ReportInv
  BY <1>1 DEF Init, SessionsInv, MadeInv, ReportInv, CreateAt, InitAt, LoginAt, AuditAt
<1>8. RecordHasMailbox /\ ReportsAreTrue
  BY <1>1 DEF Init, RecordHasMailbox, ReportsAreTrue, NoFile
<1>9. QED
  BY <1>3, <1>4, <1>5, <1>6, <1>7, <1>8 DEF IInv

LEMMA NextInv == IInv /\ [Next]_vars => IInv'
<1>1. SUFFICES ASSUME IInv, [Next]_vars PROVE IInv'
  OBVIOUS
<1>2. /\ CountOK /\ ServerOK /\ LocalOK /\ FileOK /\ NamesOK
      /\ SessionsInv /\ RecordHasMailbox /\ MadeInv /\ ReportInv /\ ReportsAreTrue
  BY <1>1 DEF IInv
<1>3. CountOK' /\ ServerOK' /\ LocalOK'
  BY <1>1, <1>2, NextCount, NextServer, NextLocal
<1>4. FileOK' /\ NamesOK'
  BY <1>1, <1>2, <1>3, NextFile, NextNames
<1>5. SessionsInv' /\ MadeInv' /\ ReportInv'
  BY <1>1, <1>2, NextSessions, NextMade, NextReport
<1>6. RecordHasMailbox' /\ ReportsAreTrue'
  BY <1>1, <1>2, NextMailbox, NextReports
<1>7. QED
  BY <1>3, <1>4, <1>5, <1>6 DEF IInv

\* The inductive invariant of the account's steps: beside the types, which step
\* is at which place, whose session it uses, and what is done before it is told.
THEOREM AccountInvariance == Spec => []IInv
  BY InitInv, NextInv, PTL DEF Spec

\* Every variable keeps its type.
THEOREM AccountTypes == Spec => []TypeOK
<1>1. IInv => TypeOK
  BY TypesFollow DEF IInv
<1>2. QED
  BY <1>1, AccountInvariance, PTL

\* The record of the run that registered the account has the password the server
\* has, whichever attempt of the run registered it (generate_pwd before the loop).
THEOREM PasswordIsRecorded == Spec => []RecordedPassword
<1>1. IInv => RecordedPassword
  BY PasswordsAgree DEF IInv
<1>2. QED
  BY <1>1, AccountInvariance, PTL

\* Until an OAuth sweeps them, the session that a record names is closed by no creation
\* but one that its caller handed that session and that failed: one that opened its own
\* releases its own, and only when no record names it (resolve_mailbox, retain_mailbox).
THEOREM RecordsKeepTheirMailbox == Spec => []RecordHasMailbox
<1>1. IInv => RecordHasMailbox
  BY DEF IInv
<1>2. QED
  BY <1>1, AccountInvariance, PTL

\* What a record says of a step has happened at the server, and an audit finds a login
\* to work, by a token or by logging in, only for an account whose creation was
\* completed, however often steps are repeated or killed.
THEOREM WhatIsReportedHappened == Spec => []ReportsAreTrue
<1>1. IInv => ReportsAreTrue
  BY DEF IInv
<1>2. QED
  BY <1>1, AccountInvariance, PTL
=============================================================================

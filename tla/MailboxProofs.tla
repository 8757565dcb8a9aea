---------------------------- MODULE MailboxProofs ----------------------------
(***************************************************************************)
(* What a flow may take for its code, and what becomes of the sessions, for *)
(* every number of flows, sessions, messages, providers and lost calls.     *)
(***************************************************************************)
EXTENDS Mailbox, FiniteSetTheorems, SequenceTheorems, TLAPS

\* The flows that n messages, s sessions and r requests allow.
FlowOf(n, s, r) ==
  [kind : Kind, sess : 1 .. s, floor : 0 .. MaxTime, base : SUBSET (1 .. n), low : 0 .. MaxTime,
   auto : BOOLEAN, code : 0 .. n, req : 0 .. r, todo : SUBSET (1 .. s), ending : BOOLEAN,
   won : BOOLEAN, prov : 1 .. Providers, try : 0 .. Tries - 1]

Counters ==
  /\ now \in 1 .. MaxTime /\ sessions \in Session /\ requests \in 0 .. MaxRequests
  /\ faults \in 0 .. MaxFaults /\ runs \in 0 .. MaxRuns

\* The messages are in the order of their times; each answers a request of its own
\* but for the one that may be there at the start.
Post ==
  /\ mail \in Seq([at : 1 .. now, req : 0 .. requests])
  /\ coming \subseteq 1 .. requests
  /\ Len(mail) + Cardinality(coming) <= requests + 1
  /\ \A k \in 1 .. Len(mail) : \A i \in 1 .. k : mail[i].at <= mail[k].at

\* A session that is not empty has a newest message.
Boxes ==
  /\ inbox \in [Session -> SUBSET (1 .. Len(mail))]
  /\ \A s \in Session :
       inbox[s] # {} => \E k \in inbox[s] : \A i \in inbox[s] : i <= k

Holders ==
  open \subseteq 1 .. sessions /\ walled \subseteq 1 .. sessions /\ astray \subseteq 1 .. sessions

Flows ==
  /\ pc \in [Worker -> Label]
  /\ flow \in [Worker -> FlowOf(Len(mail), sessions, requests)]

\* Until it has opened a session a flow has the seed's, and a login keeps that; a
\* flow that releases its session is at its end.
BoundAt(l, f) ==
  /\ f.kind = "login" \/ l \in {"recover", "create"} => f.sess = Seed
  /\ l \in {"list", "close"} /\ ~f.ending => f.sess = Seed
  /\ l \in {"list", "close", "recover", "create", "release", "save"} => f.kind = "oauth"
  /\ l = "release" => f.ending
  /\ l = "use" => f.code # 0

\* What was in the mailbox at a baseline is not above it, so a wait for what is
\* above the baseline ends with another message.
FreshAt(l, f) ==
  f.floor > 0 =>
    /\ \A k \in f.base : Marker(k) <= f.floor
    /\ l = "wait" => f.low = f.floor /\ ~f.auto
    /\ l = "use" => f.code \notin f.base

Fit == \A w \in Worker : BoundAt(pc[w], flow[w]) /\ FreshAt(pc[w], flow[w])

\* The flow has done what it does to close its session.
Forsaken(w) == pc[w] = "save" \/ (pc[w] = "close" /\ flow[w].ending /\ flow[w].sess \notin flow[w].todo)
Uses(w, s) == pc[w] # "idle" /\ ~Forsaken(w) /\ flow[w].sess = s
Lost == {s \in open : s # Seed /\ s \notin walled /\ s \notin astray /\ \A w \in Worker : ~Uses(w, s)}

Accounted == Cardinality(Lost) <= faults

IInv ==
  /\ Counters /\ Post /\ Boxes /\ Holders /\ Flows
  /\ Fit /\ Accounted

USE MailboxAssumption, MailboxBoundAssumption DEF MailboxAssumption, MailboxBoundAssumption

-----------------------------------------------------------------------------
(* The operators the flows are built from *)

LEMMA MailTyped ==
  ASSUME IInv
  PROVE  /\ Len(mail) \in Nat /\ DOMAIN mail = 1 .. Len(mail)
         /\ \A k \in 1 .. Len(mail) : mail[k] \in [at : 1 .. now, req : 0 .. requests]
         /\ \A k \in 1 .. Len(mail) : Marker(k) \in 1 .. MaxTime
<1>1. mail \in Seq([at : 1 .. now, req : 0 .. requests])
  BY DEF IInv, Post
<1>2. Len(mail) \in Nat /\ DOMAIN mail = 1 .. Len(mail)
  BY <1>1
<1>3. \A k \in 1 .. Len(mail) : mail[k] \in [at : 1 .. now, req : 0 .. requests]
  BY <1>1, ElementOfSeq
<1>4. QED
  BY <1>2, <1>3 DEF IInv, Counters, Marker

\* The newest message of a session that has any.
LEMMA NewestIsNewest ==
  ASSUME IInv, NEW s \in Session, inbox[s] # {}
  PROVE  Newest(s) \in inbox[s] /\ \A i \in inbox[s] : i <= Newest(s)
BY DEF IInv, Boxes, Newest

\* No message of a session is above the marker that the service answers with, if any.
LEMMA LatestIsAbove ==
  ASSUME IInv, NEW s \in Session, Latest(s) > 0, NEW k \in inbox[s]
  PROVE  Marker(k) <= Latest(s)
<1>1. Latest(s) = Marker(Newest(s)) /\ inbox[s] # {}
  BY DEF Latest
<1>2. Newest(s) \in inbox[s] /\ k <= Newest(s)
  BY <1>1, NewestIsNewest
<1>3. k \in 1 .. Len(mail) /\ Newest(s) \in 1 .. Len(mail)
  BY <1>2 DEF IInv, Boxes
<1>4. k \in 1 .. Newest(s)
  BY <1>2, <1>3
<1>5. QED
  BY <1>1, <1>3, <1>4 DEF IInv, Post, Marker

LEMMA LatestTyped ==
  ASSUME IInv, NEW s \in Session
  PROVE  Latest(s) \in 0 .. MaxTime
<1>1. CASE Latest(s) = 0
  BY <1>1
<1>2. CASE Latest(s) # 0
  <2>1. Latest(s) = Marker(Newest(s)) /\ inbox[s] # {}
    BY <1>2 DEF Latest
  <2>2. Newest(s) \in 1 .. Len(mail)
    BY <2>1, NewestIsNewest DEF IInv, Boxes
  <2>3. QED
    BY <2>1, <2>2, MailTyped
<1>3. QED
  BY <1>1, <1>2

\* What the flows know of stays, when there is more of it.
LEMMA FlowGrows ==
  ASSUME NEW n \in Nat, NEW s \in Nat, NEW r \in Nat, NEW m \in Nat, NEW t \in Nat, NEW q \in Nat,
         n <= m, s <= t, r <= q
  PROVE  FlowOf(n, s, r) \subseteq FlowOf(m, t, q)
<1>1. 1 .. n \subseteq 1 .. m /\ 0 .. n \subseteq 0 .. m /\ 1 .. s \subseteq 1 .. t /\ 0 .. r \subseteq 0 .. q
  OBVIOUS
<1>2. QED
  BY <1>1 DEF FlowOf

LEMMA GotoMoves ==
  ASSUME IInv, NEW w \in Worker, NEW l, NEW f, Goto(w, l, f)
  PROVE  /\ pc'[w] = l /\ flow'[w] = IF l = "idle" THEN NoFlow ELSE f
         /\ \A v \in Worker \ {w} : pc'[v] = pc[v] /\ flow'[v] = flow[v]
BY DEF IInv, Flows, Goto

-----------------------------------------------------------------------------
(* What a step of a flow does to the service *)

\* Nothing but one request more, one session more or sessions fewer.
Serves ==
  /\ UNCHANGED <<now, mail>> /\ runs' \in {runs, runs + 1} /\ runs' <= MaxRuns
  /\ faults' \in {faults, faults + 1} /\ faults' <= MaxFaults
  /\ \/ UNCHANGED <<requests, coming>>
     \/ /\ requests < MaxRequests /\ requests' = requests + 1
        /\ coming' = coming \union {requests + 1}
  /\ \/ UNCHANGED <<sessions, inbox, astray>> /\ open' \subseteq open
     \/ /\ NewSession(sessions + 1, {}) \/ NewSession(sessions + 1, DOMAIN mail)
        /\ astray' \in {astray, astray \union {sessions + 1}}
  /\ walled' = walled \/ \E w \in Worker : walled' = walled \union {flow[w].sess}

LEMMA StepServes ==
  ASSUME IInv, NEW w \in Worker, Step(w)
  PROVE  Serves
<1> USE DEF IInv, Counters, Serves, serviceVars
<1>1. CASE Begin(w)
  BY <1>1 DEF Begin
<1>2. CASE List(w)
  BY <1>2 DEF List, Fault
<1>3. CASE CloseOne(w)
  <2>1. CASE flow[w].todo = {}
    BY <1>3, <2>1 DEF CloseOne, Goto
  <2>2. CASE flow[w].todo # {}
    <3>1. PICK s \in flow[w].todo : Close(s)
      BY <1>3, <2>2 DEF CloseOne
    <3>2. open' \subseteq open /\ (UNCHANGED faults \/ Fault)
      BY <3>1 DEF Close
    <3>3. UNCHANGED <<now, mail, inbox, sessions, astray, coming, requests, walled, runs>>
      BY <1>3 DEF CloseOne
    <3>4. QED
      BY <3>2, <3>3 DEF Fault
  <2>3. QED
    BY <2>1, <2>2
<1>4. CASE Recover(w)
  BY <1>4 DEF Recover, TakeSession, Unanswered, Unfit, Fault
<1>5. CASE Create(w)
  BY <1>5 DEF Create, TakeSession, Unanswered, Unfit, Fault
<1>6. CASE Baseline(w)
  BY <1>6 DEF Baseline, Answered, Fault
<1>7. CASE Ask(w)
  BY <1>7 DEF Ask, Wall
<1>8. CASE StartWait(w)
  <2>1. UNCHANGED <<serviceVars, walled, runs>> /\ (UNCHANGED faults \/ Fault)
    BY <1>8 DEF StartWait, Answered
  <2>2. QED
    BY <2>1 DEF Fault
<1>9. CASE Poll(w)
  BY <1>9 DEF Poll
<1>10. CASE GiveUp(w)
  BY <1>10 DEF GiveUp
<1>11. CASE Use(w)
  BY <1>11 DEF Use, Wall
<1>12. CASE Release(w)
  BY <1>12 DEF Release, Close, Fault
<1>13. CASE Save(w)
  BY <1>13 DEF Save
<1>14. CASE Kill(w)
  BY <1>14 DEF Kill, Fault
<1>15. QED
  BY <1>1, <1>2, <1>3, <1>4, <1>5, <1>6, <1>7, <1>8,
     <1>9, <1>10, <1>11, <1>12, <1>13, <1>14 DEF Step

LEMMA ServiceKept ==
  ASSUME IInv, Serves
  PROVE  Counters' /\ Post' /\ Boxes' /\ Holders'
<1> USE DEF IInv
<1>1. Counters'
  BY DEF Counters, Serves, NewSession
<1>2. Post'
  <2>1. CASE UNCHANGED <<requests, coming>>
    BY <2>1 DEF Serves, Post
  <2>2. CASE requests < MaxRequests /\ requests' = requests + 1 /\ coming' = coming \union {requests + 1}
    <3>1. requests \in Nat /\ coming \subseteq 1 .. requests
      BY DEF Counters, Post
    <3>2. IsFiniteSet(coming)
      <4>1. IsFiniteSet(1 .. requests)
        BY <3>1, FS_Interval
      <4>2. QED
        BY <3>1, <4>1, FS_Subset
    <3>3. requests + 1 \notin coming
      BY <3>1
    <3>4. Cardinality(coming') = Cardinality(coming) + 1
      BY <2>2, <3>2, <3>3, FS_AddElement
    <3>5. coming' \subseteq 1 .. requests'
      BY <2>2, <3>1
    <3>6. Cardinality(coming) \in Nat
      BY <3>2, FS_CardinalityType
    <3>7. mail' \in Seq([at : 1 .. now', req : 0 .. requests'])
      <4>1. [at : 1 .. now, req : 0 .. requests] \subseteq [at : 1 .. now', req : 0 .. requests']
        BY <2>2, <3>1 DEF Serves
      <4>2. mail \in Seq([at : 1 .. now', req : 0 .. requests'])
        BY <4>1, SeqMonotonic DEF Post
      <4>3. QED
        BY <4>2 DEF Serves
    <3>8. QED
      BY <2>2, <3>1, <3>4, <3>5, <3>6, <3>7, MailTyped DEF Serves, Post
  <2>3. QED
    BY <2>1, <2>2 DEF Serves
<1>3. Boxes'
  <2>1. CASE UNCHANGED inbox
    BY <2>1 DEF Serves, Boxes
  <2>2. CASE NewSession(sessions + 1, {})
    BY <2>2 DEF Serves, Boxes, NewSession
  <2>3. CASE NewSession(sessions + 1, DOMAIN mail)
    <3>1. DOMAIN mail = 1 .. Len(mail) /\ Len(mail) \in Nat
      BY MailTyped
    <3>2. DOMAIN mail # {} => Len(mail) \in DOMAIN mail /\ \A i \in DOMAIN mail : i <= Len(mail)
      BY <3>1
    <3>3. QED
      BY <2>3, <3>1, <3>2 DEF Serves, Boxes, NewSession
  <2>4. QED
    BY <2>1, <2>2, <2>3 DEF Serves
<1>4. Holders'
  <2>1. sessions \in Nat /\ sessions' \in Nat /\ sessions <= sessions'
    BY DEF Counters, Serves, NewSession, Session
  <2>2. 1 .. sessions \subseteq 1 .. sessions'
    BY <2>1
  <2>3. open' \subseteq 1 .. sessions'
    <3>1. open \subseteq 1 .. sessions'
      BY <2>2 DEF Holders
    <3>2. open' \subseteq open \/ (sessions' = sessions + 1 /\ open' = open \union {sessions'})
      BY DEF Serves, NewSession
    <3>3. CASE open' \subseteq open
      BY <3>1, <3>3
    <3>4. CASE sessions' = sessions + 1 /\ open' = open \union {sessions'}
      <4>1. sessions' \in 1 .. sessions'
        BY <2>1, <3>4
      <4>2. QED
        BY <3>1, <3>4, <4>1
    <3>5. QED
      BY <3>2, <3>3, <3>4
  <2>4. \A w \in Worker : flow[w].sess \in 1 .. sessions
    BY DEF Flows, FlowOf
  <2>5. walled' \subseteq 1 .. sessions'
    <3>1. walled \subseteq 1 .. sessions'
      BY <2>2 DEF Holders
    <3>2. walled' = walled \/ \E w \in Worker : walled' = walled \union {flow[w].sess}
      BY DEF Serves
    <3>3. CASE walled' = walled
      BY <3>1, <3>3
    <3>4. ASSUME NEW w \in Worker, walled' = walled \union {flow[w].sess}
          PROVE  walled' \subseteq 1 .. sessions'
      BY <2>2, <2>4, <3>1, <3>4
    <3>5. QED
      BY <3>2, <3>3, <3>4
  <2>6. astray' \subseteq 1 .. sessions'
    <3>1. astray \subseteq 1 .. sessions'
      BY <2>2 DEF Holders
    <3>2. astray' = astray \/ (sessions' = sessions + 1 /\ astray' = astray \union {sessions'})
      BY DEF Serves, NewSession
    <3>3. sessions' \in 1 .. sessions' \/ astray' = astray
      BY <2>1, <3>2
    <3>4. QED
      BY <3>1, <3>2, <3>3
  <2>7. QED
    BY <2>3, <2>5, <2>6 DEF Holders
<1>5. QED
  BY <1>1, <1>2, <1>3, <1>4

-----------------------------------------------------------------------------
(* Where a step of a flow goes *)

Goes(w) ==
  \E l \in Label : \E f :
    /\ Goto(w, l, f)
    /\ l = "idle" \/ (/\ f \in FlowOf(Len(mail), sessions', requests')
                      /\ BoundAt(l, f) /\ FreshAt(l, f))

LEMMA GoesThere ==
  ASSUME NEW w, NEW l \in Label, NEW f, Goto(w, l, f),
         f \in FlowOf(Len(mail), sessions', requests'), BoundAt(l, f), FreshAt(l, f)
  PROVE  Goes(w)
BY DEF Goes

LEMMA GoesIdle ==
  ASSUME NEW w, NEW f, Goto(w, "idle", f)
  PROVE  Goes(w)
BY DEF Goes, Label

LEMMA NoFlowFits ==
  ASSUME IInv
  PROVE  /\ NoFlow \in FlowOf(Len(mail), sessions, requests)
         /\ \A l \in {"idle", "list", "baseline"} : BoundAt(l, NoFlow) /\ FreshAt(l, NoFlow)
<1>1. NoFlow \in FlowOf(Len(mail), sessions, requests)
  BY MailTyped DEF NoFlow, FlowOf, Kind, Seed, IInv, Counters, Session
<1>2. QED
  BY <1>1 DEF NoFlow, BoundAt, FreshAt

LEMMA FlowFits ==
  ASSUME IInv, Serves, NEW w \in Worker
  PROVE  /\ flow[w] \in FlowOf(Len(mail), sessions, requests)
         /\ FlowOf(Len(mail), sessions, requests) \subseteq FlowOf(Len(mail), sessions', requests')
         /\ BoundAt(pc[w], flow[w]) /\ FreshAt(pc[w], flow[w])
<1>1. sessions \in Nat /\ sessions' \in Nat /\ sessions <= sessions'
  BY DEF IInv, Counters, Serves, NewSession, Session
<1>2. requests \in Nat /\ requests' \in Nat /\ requests <= requests'
  BY DEF IInv, Counters, Serves
<1>3. Len(mail) \in Nat /\ Len(mail) <= Len(mail)
  BY MailTyped
<1>4. FlowOf(Len(mail), sessions, requests) \subseteq FlowOf(Len(mail), sessions', requests')
  BY <1>1, <1>2, <1>3, FlowGrows
<1>5. QED
  BY <1>4 DEF IInv, Flows, Fit

LEMMA GoesKeeps ==
  ASSUME IInv, Serves, NEW w \in Worker, Goes(w)
  PROVE  Flows' /\ Fit'
<1>1. PICK l \in Label : \E f :
        /\ Goto(w, l, f)
        /\ l = "idle" \/ (/\ f \in FlowOf(Len(mail), sessions', requests')
                          /\ BoundAt(l, f) /\ FreshAt(l, f))
  BY DEF Goes
<1>2. PICK f :
        /\ Goto(w, l, f)
        /\ l = "idle" \/ (/\ f \in FlowOf(Len(mail), sessions', requests')
                          /\ BoundAt(l, f) /\ FreshAt(l, f))
  BY <1>1
<1> DEFINE g == IF l = "idle" THEN NoFlow ELSE f
<1>3. g \in FlowOf(Len(mail), sessions', requests') /\ BoundAt(l, g) /\ FreshAt(l, g)
  BY <1>2, NoFlowFits, FlowFits
<1>4. pc' = [pc EXCEPT ![w] = l] /\ flow' = [flow EXCEPT ![w] = g]
  BY <1>2 DEF Goto
<1>5. mail' = mail
  BY DEF Serves
<1> HIDE DEF g
<1>6. Flows'
  BY <1>3, <1>4, <1>5, FlowFits DEF IInv, Flows
<1>7. ASSUME NEW v \in Worker
      PROVE  BoundAt(pc[v], flow[v])' /\ FreshAt(pc[v], flow[v])'
  <2>1. CASE v = w
    <3>1. pc'[v] = l /\ flow'[v] = g
      BY <1>4, <2>1 DEF IInv, Flows
    <3>2. QED
      BY <1>3, <1>5, <3>1 DEF BoundAt, FreshAt, Marker
  <2>2. CASE v # w
    <3>1. pc'[v] = pc[v] /\ flow'[v] = flow[v]
      BY <1>4, <2>2 DEF IInv, Flows
    <3>2. QED
      BY <1>5, <3>1, FlowFits DEF BoundAt, FreshAt, Marker
  <2>3. QED
    BY <2>1, <2>2
<1>8. QED
  BY <1>6, <1>7 DEF Fit

LEMMA EndsGoes ==
  ASSUME IInv, Serves, NEW w \in Worker, NEW won \in BOOLEAN, Ends(w, won)
  PROVE  Goes(w)
<1> DEFINE f == [NoFlow EXCEPT !.sess = flow[w].sess, !.ending = TRUE, !.won = won]
<1>1. flow[w].sess \in 1 .. sessions'
  BY FlowFits DEF FlowOf
<1>2. f \in FlowOf(Len(mail), sessions', requests')
  BY <1>1, NoFlowFits, FlowFits DEF FlowOf
<1>3. BoundAt("release", f) /\ FreshAt("release", f)
  BY DEF BoundAt, FreshAt, NoFlow
<1>4. QED
  BY <1>2, <1>3, GoesThere DEF Label, Ends

LEMMA FailsGoes ==
  ASSUME IInv, Serves, NEW w \in Worker, Fails(w)
  PROVE  Goes(w)
<1>1. CASE Goto(w, "idle", flow[w])
  BY <1>1, GoesIdle
<1>2. CASE /\ flow[w].kind = "login" /\ flow[w].try + 1 < Tries
           /\ Goto(w, "baseline", [NoFlow EXCEPT !.kind = "login", !.try = flow[w].try + 1])
  <2> DEFINE f == [NoFlow EXCEPT !.kind = "login", !.try = flow[w].try + 1]
  <2>1. f \in FlowOf(Len(mail), sessions', requests')
    <3>1. flow[w].try \in 0 .. Tries - 1
      BY FlowFits DEF FlowOf
    <3>2. flow[w].try + 1 \in 0 .. Tries - 1 /\ "login" \in Kind
      BY <1>2, <3>1 DEF Kind
    <3>3. NoFlow \in FlowOf(Len(mail), sessions', requests')
      BY NoFlowFits, FlowFits
    <3>4. QED
      BY <3>2, <3>3 DEF FlowOf
  <2>2. BoundAt("baseline", f) /\ FreshAt("baseline", f)
    BY DEF BoundAt, FreshAt, NoFlow
  <2>3. QED
    BY <1>2, <2>1, <2>2, GoesThere DEF Label
<1>3. CASE flow[w].kind = "oauth" /\ Ends(w, FALSE)
  BY <1>3, EndsGoes
<1>4. QED
  BY <1>1, <1>2, <1>3 DEF Fails

LEMMA SucceedsGoes ==
  ASSUME IInv, Serves, NEW w \in Worker, Succeeds(w)
  PROVE  Goes(w)
<1>1. CASE flow[w].kind = "login"
  BY <1>1, GoesIdle DEF Succeeds
<1>2. CASE flow[w].kind # "login"
  BY <1>2, EndsGoes DEF Succeeds
<1>3. QED
  BY <1>1, <1>2

LEMMA NextProviderGoes ==
  ASSUME IInv, Serves, NEW w \in Worker, pc[w] \in {"recover", "create"}, NextProvider(w)
  PROVE  Goes(w)
<1>1. CASE flow[w].prov < Providers
  <2> DEFINE f == [flow[w] EXCEPT !.prov = @ + 1]
  <2>1. f \in FlowOf(Len(mail), sessions', requests')
    <3>1. flow[w].prov \in 1 .. Providers
      BY FlowFits DEF FlowOf
    <3>2. flow[w].prov + 1 \in 1 .. Providers
      BY <1>1, <3>1
    <3>3. flow[w] \in FlowOf(Len(mail), sessions', requests')
      BY FlowFits
    <3>4. QED
      BY <3>2, <3>3 DEF FlowOf
  <2>2. BoundAt("recover", f) /\ FreshAt("recover", f)
    BY FlowFits DEF BoundAt, FreshAt, FlowOf
  <2>3. QED
    BY <1>1, <2>1, <2>2, GoesThere DEF Label, NextProvider
<1>2. CASE ~(flow[w].prov < Providers)
  BY <1>2, GoesIdle DEF NextProvider
<1>3. QED
  BY <1>1, <1>2

LEMMA BeginGoes ==
  ASSUME IInv, Serves, NEW w \in Worker, Begin(w)
  PROVE  Goes(w)
<1>1. PICK k \in Kinds :
        Goto(w, IF k = "oauth" /\ Fresh THEN "list" ELSE "baseline", [NoFlow EXCEPT !.kind = k])
  BY DEF Begin
<1> DEFINE f == [NoFlow EXCEPT !.kind = k]
           l == IF k = "oauth" /\ Fresh THEN "list" ELSE "baseline"
<1>2. f \in FlowOf(Len(mail), sessions', requests')
  BY NoFlowFits, FlowFits DEF FlowOf
<1>3. l \in Label /\ BoundAt(l, f) /\ FreshAt(l, f)
  BY DEF Label, BoundAt, FreshAt, NoFlow
<1>4. QED
  BY <1>1, <1>2, <1>3, GoesThere

LEMMA ClosingGoes ==
  ASSUME IInv, Serves, NEW w \in Worker, List(w) \/ CloseOne(w) \/ Release(w) \/ Save(w) \/ Kill(w)
  PROVE  Goes(w)
<1> USE FlowFits
<1>1. CASE List(w)
  <2> DEFINE f == [flow[w] EXCEPT !.todo = open \ astray]
  <2>1. CASE Goto(w, "close", f)
    <3>1. f \in FlowOf(Len(mail), sessions', requests')
      BY DEF FlowOf, IInv, Holders
    <3>2. BoundAt("close", f) /\ FreshAt("close", f)
      BY <1>1 DEF List, BoundAt, FreshAt, FlowOf
    <3>3. QED
      BY <2>1, <3>1, <3>2, GoesThere DEF Label
  <2>2. QED
    BY <1>1, <2>1, GoesIdle DEF List
<1>2. CASE CloseOne(w)
  <2>1. ASSUME NEW s \in flow[w].todo, Goto(w, "close", [flow[w] EXCEPT !.todo = @ \ {s}])
        PROVE  Goes(w)
    <3> DEFINE f == [flow[w] EXCEPT !.todo = @ \ {s}]
    <3>1. f \in FlowOf(Len(mail), sessions', requests')
      BY DEF FlowOf
    <3>2. BoundAt("close", f) /\ FreshAt("close", f)
      BY <1>2 DEF CloseOne, BoundAt, FreshAt, FlowOf
    <3>3. QED
      BY <2>1, <3>1, <3>2, GoesThere DEF Label
  <2>2. CASE flow[w].todo = {} /\ ~flow[w].ending
    <3>1. BoundAt("recover", flow[w]) /\ FreshAt("recover", flow[w])
      BY <1>2, <2>2 DEF CloseOne, BoundAt, FreshAt
    <3>2. QED
      BY <1>2, <2>2, <3>1, GoesThere DEF Label, CloseOne
  <2>3. CASE flow[w].todo = {} /\ flow[w].ending
    <3>1. BoundAt("save", flow[w]) /\ FreshAt("save", flow[w])
      BY <1>2, <2>3 DEF CloseOne, BoundAt, FreshAt
    <3>2. QED
      BY <1>2, <2>3, <3>1, GoesThere, GoesIdle DEF Label, CloseOne
  <2>4. QED
    BY <1>2, <2>1, <2>2, <2>3 DEF CloseOne
<1>3. CASE Release(w)
  <2>1. BoundAt("list", flow[w]) /\ FreshAt("list", flow[w])
    BY <1>3 DEF Release, BoundAt, FreshAt
  <2>2. QED
    BY <1>3, <2>1, GoesThere DEF Label, Release
<1>4. CASE Save(w) \/ Kill(w)
  BY <1>4, GoesIdle DEF Save, Kill
<1>5. QED
  BY <1>1, <1>2, <1>3, <1>4

LEMMA OpeningGoes ==
  ASSUME IInv, Serves, NEW w \in Worker, Recover(w) \/ Create(w)
  PROVE  Goes(w)
<1> DEFINE f == [NoFlow EXCEPT !.sess = sessions + 1]
<1>1. ASSUME NEW box, TakeSession(w, box)
      PROVE  Goes(w)
  <2>1. sessions' = sessions + 1 /\ sessions \in Nat
    BY <1>1 DEF TakeSession, NewSession, IInv, Counters, Session
  <2>2. sessions + 1 \in 1 .. sessions'
    BY <2>1
  <2>3. f \in FlowOf(Len(mail), sessions', requests')
    BY <2>2, NoFlowFits, FlowFits DEF FlowOf
  <2>4. BoundAt("baseline", f) /\ FreshAt("baseline", f)
    BY DEF BoundAt, FreshAt, NoFlow
  <2>5. QED
    BY <1>1, <2>3, <2>4, GoesThere DEF Label, TakeSession
<1>2. ASSUME NEW l \in {"recover", "create"}, Goto(w, l, flow[w])
      PROVE  Goes(w)
  <2>1. BoundAt(l, flow[w]) /\ FreshAt(l, flow[w])
    BY FlowFits DEF Recover, Create, BoundAt, FreshAt
  <2>2. QED
    BY <1>2, <2>1, FlowFits, GoesThere DEF Label
<1>3. NextProvider(w) => Goes(w)
  BY NextProviderGoes DEF Recover, Create
<1>4. QED
  BY <1>1, <1>2, <1>3 DEF Recover, Create, Unfit

LEMMA LoginGoes ==
  ASSUME IInv, Serves, NEW w \in Worker,
         Baseline(w) \/ Ask(w) \/ StartWait(w) \/ GiveUp(w) \/ Use(w)
  PROVE  Goes(w)
<1> USE FlowFits
<1>1. CASE Baseline(w)
  <2>1. PICK m \in 0 .. MaxTime :
          /\ Answered(flow[w].sess, m)
          /\ Goto(w, "ask", [flow[w] EXCEPT !.floor = m, !.base = inbox[flow[w].sess]])
    BY <1>1 DEF Baseline
  <2> DEFINE f == [flow[w] EXCEPT !.floor = m, !.base = inbox[flow[w].sess]]
  <2>2. flow[w].sess \in Session
    BY DEF FlowOf, IInv, Counters, Session
  <2>3. inbox[flow[w].sess] \subseteq 1 .. Len(mail)
    BY <2>2 DEF IInv, Boxes
  <2>4. f \in FlowOf(Len(mail), sessions', requests')
    BY <2>3 DEF FlowOf
  <2>5. m > 0 => m = Latest(flow[w].sess)
    BY <2>1 DEF Answered
  <2>6. m > 0 => \A k \in inbox[flow[w].sess] : Marker(k) <= m
    BY <2>2, <2>5, LatestIsAbove
  <2>7. BoundAt("ask", f) /\ FreshAt("ask", f)
    BY <2>6 DEF BoundAt, FreshAt, FlowOf
  <2>8. QED
    BY <2>1, <2>4, <2>7, GoesThere DEF Label
<1>2. CASE Ask(w)
  <2>1. CASE /\ requests' = requests + 1
             /\ Goto(w, "start", [flow[w] EXCEPT !.req = requests + 1])
    <3> DEFINE f == [flow[w] EXCEPT !.req = requests + 1]
    <3>1. requests + 1 \in 0 .. requests'
      BY <2>1 DEF IInv, Counters
    <3>2. f \in FlowOf(Len(mail), sessions', requests')
      BY <3>1 DEF FlowOf
    <3>3. BoundAt("start", f) /\ FreshAt("start", f)
      BY DEF BoundAt, FreshAt, FlowOf
    <3>4. QED
      BY <2>1, <3>2, <3>3, GoesThere DEF Label
  <2>2. QED
    BY <1>2, <2>1, SucceedsGoes, FailsGoes, GoesIdle DEF Ask, Wall
<1>3. CASE StartWait(w)
  <2>1. PICK m \in 0 .. MaxTime, a \in BOOLEAN :
          /\ Goto(w, "wait", [flow[w] EXCEPT !.low = m, !.auto = a])
          /\ flow[w].floor > 0 => m = flow[w].floor /\ ~a
    <3>1. CASE flow[w].floor > 0
      <4>1. flow[w].floor \in 0 .. MaxTime
        BY DEF FlowOf
      <4>2. QED
        BY <1>3, <3>1, <4>1 DEF StartWait
    <3>2. CASE ~(flow[w].floor > 0)
      <4>1. PICK m \in 0 .. MaxTime : Goto(w, "wait", [flow[w] EXCEPT !.low = m, !.auto = m > 0])
        BY <1>3, <3>2 DEF StartWait
      <4>2. (m > 0) \in BOOLEAN
        OBVIOUS
      <4>3. QED
        BY <3>2, <4>1, <4>2
    <3>3. QED
      BY <3>1, <3>2
  <2> DEFINE f == [flow[w] EXCEPT !.low = m, !.auto = a]
  <2>2. f \in FlowOf(Len(mail), sessions', requests')
    BY DEF FlowOf
  <2>3. BoundAt("wait", f) /\ FreshAt("wait", f)
    BY <2>1 DEF BoundAt, FreshAt, FlowOf
  <2>4. QED
    BY <2>1, <2>2, <2>3, GoesThere DEF Label
<1>4. CASE GiveUp(w)
  BY <1>4, FailsGoes, GoesIdle DEF GiveUp
<1>5. CASE Use(w)
  BY <1>5, SucceedsGoes, FailsGoes, GoesIdle DEF Use, Wall
<1>6. QED
  BY <1>1, <1>2, <1>3, <1>4, <1>5

LEMMA PollGoes ==
  ASSUME IInv, Serves, NEW w \in Worker, Poll(w)
  PROVE  Goes(w)
<1> USE FlowFits
<1>1. flow[w].sess \in Session
  BY DEF FlowOf, IInv, Counters, Session
<1>2. PICK k \in inbox[flow[w].sess] : Acceptable(flow[w], k) /\ Take(w, k)
  <2>1. CASE /\ inbox[flow[w].sess] # {} /\ Acceptable(flow[w], Newest(flow[w].sess))
             /\ Take(w, Newest(flow[w].sess))
    BY <1>1, <2>1, NewestIsNewest
  <2>2. CASE \E k \in Snapshot(flow[w]) : Take(w, k)
    BY <2>2 DEF Snapshot
  <2>3. QED
    BY <2>1, <2>2 DEF Poll
<1> DEFINE f == [flow[w] EXCEPT !.code = k]
<1>3. k \in 1 .. Len(mail)
  BY <1>1 DEF IInv, Boxes
<1>4. f \in FlowOf(Len(mail), sessions', requests')
  <2>1. k \in 0 .. Len(mail)
    BY <1>3
  <2>2. QED
    BY <2>1 DEF FlowOf
<1>5. f.floor > 0 => k \notin f.base
  <2> SUFFICES ASSUME flow[w].floor > 0 PROVE k \notin flow[w].base
    BY DEF FlowOf
  <2>1. flow[w].low = flow[w].floor /\ ~flow[w].auto
    BY DEF Poll, FreshAt
  <2>2. Marker(k) > flow[w].floor
    BY <1>2, <2>1 DEF Acceptable
  <2>3. flow[w].floor \in Nat /\ Marker(k) \in Nat
    BY <1>3, MailTyped DEF FlowOf
  <2>4. QED
    BY <2>2, <2>3 DEF FreshAt
<1>6. BoundAt("use", f)
  <2>1. f.code # 0 /\ f.kind = flow[w].kind /\ f.sess = flow[w].sess
    BY <1>3, MailTyped DEF FlowOf
  <2>2. QED
    BY <2>1 DEF BoundAt
<1>7. FreshAt("use", f)
  <2>1. f.floor = flow[w].floor /\ f.base = flow[w].base /\ f.code = k
    BY DEF FlowOf
  <2>2. QED
    BY <1>5, <2>1 DEF FreshAt
<1>8. QED
  BY <1>2, <1>4, <1>6, <1>7, GoesThere DEF Label, Take

LEMMA StepGoes ==
  ASSUME IInv, NEW w \in Worker, Step(w)
  PROVE  Goes(w)
BY StepServes, BeginGoes, ClosingGoes, OpeningGoes, LoginGoes, PollGoes DEF Step

-----------------------------------------------------------------------------
(* What a step may lose *)

\* A session that a step loses is one that it opened, or that its flow has let go.
LEMMA LostByTheFlow ==
  ASSUME IInv, NEW w \in Worker, Step(w), NEW s, s \in Lost', s \notin Lost
  PROVE  /\ s \in open' /\ s # Seed /\ s \notin walled' /\ s \notin astray' /\ ~Uses(w, s)'
         /\ s \notin open \/ Uses(w, s)
<1>1. walled \subseteq walled' /\ astray \subseteq astray'
  BY StepServes DEF Serves
<1>2. PICK l, f : Goto(w, l, f)
  BY StepGoes DEF Goes
<1>3. ASSUME NEW v \in Worker, v # w
      PROVE  Uses(v, s)' <=> Uses(v, s)
  BY <1>2, <1>3, GotoMoves DEF Uses, Forsaken
<1>4. QED
  BY <1>1, <1>3 DEF Lost

\* As long as it is in the middle of its work a flow uses its session.
LEMMA KeepsIt ==
  ASSUME IInv, NEW w \in Worker, NEW l, NEW f, Goto(w, l, f), l \notin {"idle", "close", "save"}
  PROVE  pc'[w] # "idle" /\ ~Forsaken(w)' /\ flow'[w].sess = f.sess
BY GotoMoves DEF Forsaken

\* A flow with the seed's session has nothing to lose.
LEMMA SeedIsKept ==
  ASSUME IInv, NEW w \in Worker, Step(w), UNCHANGED open, flow[w].sess = Seed
  PROVE  Lost' \subseteq Lost
BY LostByTheFlow DEF Uses

\* A step loses nothing, or one session with a call that fails or a flow that is killed.
Loses ==
  \/ Lost' \subseteq Lost
  \/ faults' = faults + 1 /\ \E x : Lost' \subseteq Lost \union {x}

LEMMA FaultLosesOne ==
  ASSUME IInv, NEW w \in Worker, Step(w), Fault, open' \subseteq open
  PROVE  Loses
<1>1. Lost' \subseteq Lost \union {flow[w].sess}
  BY LostByTheFlow DEF Uses
<1>2. QED
  BY <1>1 DEF Loses, Fault

LEMMA FailsLoses ==
  ASSUME IInv, NEW w \in Worker, Step(w), UNCHANGED open, Fails(w) \/ Succeeds(w)
  PROVE  Lost' \subseteq Lost
<1>1. CASE flow[w].kind = "login"
  BY <1>1, SeedIsKept DEF IInv, Fit, BoundAt
<1>2. CASE flow[w].kind # "login"
  <2>1. PICK won \in BOOLEAN : Ends(w, won)
    BY <1>2 DEF Fails, Succeeds
  <2>2. pc'[w] # "idle" /\ ~Forsaken(w)' /\ flow'[w].sess = flow[w].sess
    <3> DEFINE f == [NoFlow EXCEPT !.sess = flow[w].sess, !.ending = TRUE, !.won = won]
    <3>1. f.sess = flow[w].sess
      BY DEF NoFlow
    <3>2. Goto(w, "release", f)
      BY <2>1 DEF Ends
    <3> HIDE DEF f
    <3>3. QED
      BY <3>1, <3>2, KeepsIt
  <2>3. QED
    BY <2>2, LostByTheFlow DEF Uses
<1>3. QED
  BY <1>1, <1>2

LEMMA NextProviderLoses ==
  ASSUME IInv, NEW w \in Worker, Step(w), NextProvider(w), pc[w] \in {"recover", "create"}, UNCHANGED open
  PROVE  Lost' \subseteq Lost
BY SeedIsKept DEF IInv, Fit, BoundAt

LEMMA ClosingLoses ==
  ASSUME IInv, NEW w \in Worker, Step(w),
         Begin(w) \/ List(w) \/ CloseOne(w) \/ Release(w) \/ Save(w) \/ Kill(w)
  PROVE  Loses
<1>1. CASE Begin(w)
  BY <1>1, LostByTheFlow DEF Begin, Uses, Loses, serviceVars
<1>2. CASE List(w)
  <2>1. CASE Goto(w, "close", [flow[w] EXCEPT !.todo = open \ astray])
    <3>1. flow'[w].sess = flow[w].sess /\ flow'[w].todo = open \ astray /\ pc'[w] = "close"
      <4>1. flow[w] \in FlowOf(Len(mail), sessions, requests)
        BY DEF IInv, Flows
      <4>2. pc'[w] = "close" /\ flow'[w] = [flow[w] EXCEPT !.todo = open \ astray]
        BY <2>1, GotoMoves
      <4>3. QED
        BY <4>1, <4>2 DEF FlowOf
    <3>2. UNCHANGED <<open, astray>>
      BY <1>2 DEF List, serviceVars
    <3>3. QED
      BY <3>1, <3>2, LostByTheFlow DEF Uses, Forsaken, Loses
  <2>2. CASE Fault /\ UNCHANGED open
    BY <2>2, FaultLosesOne
  <2>3. QED
    BY <1>2, <2>1, <2>2 DEF List, serviceVars
<1>3. CASE CloseOne(w)
  <2>1. ASSUME NEW s \in flow[w].todo, Close(s),
               Goto(w, "close", [flow[w] EXCEPT !.todo = @ \ {s}])
        PROVE  Loses
    <3>1. CASE Fault
      BY <2>1, <3>1, FaultLosesOne DEF Close
    <3>2. CASE ~Fault
      <4>1. open' = open \ {s}
        BY <2>1, <3>2 DEF Close
      <4>2. flow'[w].sess = flow[w].sess /\ flow'[w].todo = flow[w].todo \ {s}
            /\ flow'[w].ending = flow[w].ending /\ pc'[w] = "close" /\ pc[w] = "close"
        <5>1. flow[w] \in FlowOf(Len(mail), sessions, requests)
          BY DEF IInv, Flows
        <5>2. pc'[w] = "close" /\ flow'[w] = [flow[w] EXCEPT !.todo = @ \ {s}]
          BY <2>1, GotoMoves
        <5>3. QED
          BY <1>3, <5>1, <5>2 DEF FlowOf, CloseOne
      <4>3. QED
        BY <4>1, <4>2, LostByTheFlow DEF Uses, Forsaken, Loses
    <3>3. QED
      BY <3>1, <3>2
  <2>2. CASE flow[w].todo = {} /\ UNCHANGED open /\ flow[w].ending
    BY <1>3, <2>2, LostByTheFlow DEF CloseOne, Uses, Forsaken, Loses
  <2>3. CASE flow[w].todo = {} /\ UNCHANGED open /\ ~flow[w].ending
    BY <1>3, <2>3, SeedIsKept DEF CloseOne, IInv, Fit, BoundAt, Loses
  <2>4. QED
    BY <1>3, <2>1, <2>2, <2>3 DEF CloseOne
<1>4. CASE Release(w)
  <2>1. open' \subseteq open
    BY <1>4 DEF Release, Close
  <2>2. pc'[w] # "idle" /\ ~Forsaken(w)' /\ flow'[w].sess = flow[w].sess
    BY <1>4, KeepsIt DEF Release
  <2>3. QED
    BY <2>1, <2>2, LostByTheFlow DEF Uses, Loses
<1>5. CASE Save(w)
  BY <1>5, LostByTheFlow DEF Save, Uses, Forsaken, Loses, serviceVars
<1>6. CASE Kill(w)
  BY <1>6, FaultLosesOne DEF Kill, serviceVars
<1>7. QED
  BY <1>1, <1>2, <1>3, <1>4, <1>5, <1>6

LEMMA OpeningLoses ==
  ASSUME IInv, NEW w \in Worker, Step(w), Recover(w) \/ Create(w)
  PROVE  Loses
<1>1. flow[w].sess = Seed
  BY DEF Recover, Create, IInv, Fit, BoundAt
<1>2. CASE UNCHANGED open
  BY <1>1, <1>2, SeedIsKept DEF Loses
<1>3. ASSUME NEW box, TakeSession(w, box)
      PROVE  Loses
  <2> DEFINE f == [NoFlow EXCEPT !.sess = sessions + 1]
  <2>1. f.sess = sessions + 1 /\ Goto(w, "baseline", f) /\ open' = open \union {sessions + 1}
    BY <1>3 DEF TakeSession, NewSession, NoFlow
  <2> HIDE DEF f
  <2>2. pc'[w] # "idle" /\ ~Forsaken(w)' /\ flow'[w].sess = sessions + 1
    BY <2>1, KeepsIt
  <2>3. QED
    BY <1>1, <2>1, <2>2, LostByTheFlow DEF Uses, Loses
<1>4. ASSUME NEW box, Unanswered(box)
      PROVE  Loses
  <2>1. open' \subseteq open \union {sessions + 1} /\ faults' = faults + 1
    BY <1>4 DEF Unanswered, NewSession, Fault
  <2>2. Lost' \subseteq Lost \union {sessions + 1}
    BY <1>1, <2>1, LostByTheFlow DEF Uses
  <2>3. QED
    BY <2>1, <2>2 DEF Loses
<1>5. CASE Unfit(w)
  <2>1. open' \subseteq open \union astray'
    BY <1>5 DEF Unfit, NewSession
  <2>2. Lost' \subseteq Lost
    BY <1>1, <2>1, LostByTheFlow DEF Uses
  <2>3. QED
    BY <2>2 DEF Loses
<1>6. QED
  BY <1>2, <1>3, <1>4, <1>5 DEF Recover, Create

LEMMA LoginLoses ==
  ASSUME IInv, NEW w \in Worker, Step(w),
         Baseline(w) \/ Ask(w) \/ StartWait(w) \/ Poll(w) \/ GiveUp(w) \/ Use(w)
  PROVE  Loses
<1>1. UNCHANGED open
  BY DEF Baseline, Ask, StartWait, Poll, GiveUp, Use, serviceVars
<1>2. ASSUME NEW l \in {"ask", "start", "wait", "use"}, NEW f, Goto(w, l, f), f.sess = flow[w].sess
      PROVE  Loses
  <2>1. pc'[w] # "idle" /\ ~Forsaken(w)' /\ flow'[w].sess = flow[w].sess
    BY <1>2, KeepsIt
  <2>2. QED
    BY <1>1, <2>1, LostByTheFlow DEF Uses, Loses
<1>3. flow[w] \in FlowOf(Len(mail), sessions, requests)
  BY DEF IInv, Flows
<1>4. CASE Wall(w)
  BY <1>1, <1>4, LostByTheFlow DEF Wall, Uses, Loses
<1>5. CASE Fails(w) \/ Succeeds(w)
  BY <1>1, <1>5, FailsLoses DEF Loses
<1>6. CASE Baseline(w)
  BY <1>2, <1>3, <1>6 DEF Baseline, FlowOf
<1>7. CASE Ask(w)
  BY <1>2, <1>3, <1>4, <1>5, <1>7 DEF Ask, FlowOf
<1>8. CASE StartWait(w)
  BY <1>2, <1>3, <1>8 DEF StartWait, FlowOf
<1>9. CASE Poll(w)
  BY <1>2, <1>3, <1>9 DEF Poll, Take, FlowOf
<1>10. CASE GiveUp(w)
  BY <1>5, <1>10 DEF GiveUp, Fails
<1>11. CASE Use(w)
  BY <1>4, <1>5, <1>11 DEF Use
<1>12. QED
  BY <1>6, <1>7, <1>8, <1>9, <1>10, <1>11

LEMMA StepAccounts ==
  ASSUME IInv, NEW w \in Worker, Step(w)
  PROVE  Accounted'
<1>1. Loses
  BY ClosingLoses, OpeningLoses, LoginLoses DEF Step
<1>2. faults \in Nat /\ faults' \in {faults, faults + 1}
  BY StepServes DEF IInv, Counters, Serves
<1>3. IsFiniteSet(Lost) /\ Cardinality(Lost) \in Nat
  <2>1. IsFiniteSet(1 .. sessions)
    BY FS_Interval DEF IInv, Counters, Session
  <2>2. Lost \subseteq 1 .. sessions
    BY DEF Lost, IInv, Holders
  <2>3. QED
    BY <2>1, <2>2, FS_Subset, FS_CardinalityType
<1>4. CASE Lost' \subseteq Lost
  <2>1. Cardinality(Lost') <= Cardinality(Lost) /\ Cardinality(Lost') \in Nat
    BY <1>3, <1>4, FS_Subset, FS_CardinalityType
  <2>2. QED
    BY <1>2, <1>3, <2>1 DEF Accounted, IInv
<1>5. ASSUME NEW x, Lost' \subseteq Lost \union {x}, faults' = faults + 1
      PROVE  Accounted'
  <2>1. IsFiniteSet(Lost \union {x}) /\ Cardinality(Lost \union {x}) <= Cardinality(Lost) + 1
    <3>1. /\ IsFiniteSet(Lost \union {x})
          /\ Cardinality(Lost \union {x}) = IF x \in Lost THEN Cardinality(Lost) ELSE Cardinality(Lost) + 1
      BY <1>3, FS_AddElement
    <3>2. QED
      BY <1>3, <3>1
  <2>2. Cardinality(Lost \union {x}) \in Nat
    BY <2>1, FS_CardinalityType
  <2>3. Cardinality(Lost') <= Cardinality(Lost \union {x}) /\ Cardinality(Lost') \in Nat
    BY <1>5, <2>1, FS_Subset, FS_CardinalityType
  <2>4. QED
    BY <1>2, <1>3, <1>5, <2>1, <2>2, <2>3 DEF Accounted, IInv
<1>6. QED
  BY <1>1, <1>4, <1>5 DEF Loses

-----------------------------------------------------------------------------
(* The outside world *)

LEMMA DeliverKeeps ==
  ASSUME IInv, Deliver
  PROVE  IInv'
<1>1. PICK r \in coming :
        /\ coming' = coming \ {r}
        /\ \/ /\ mail' = Append(mail, [at |-> now, req |-> r])
              /\ inbox' = [s \in Session |->
                             IF s \in open \ astray THEN inbox[s] \union {Len(mail) + 1} ELSE inbox[s]]
           \/ UNCHANGED <<mail, inbox>>
  BY DEF Deliver
<1>2. UNCHANGED <<now, open, sessions, astray, requests, pc, flow, walled, faults, runs>>
  BY DEF Deliver
<1>3. Counters' /\ Holders' /\ Accounted'
  BY <1>2 DEF IInv, Counters, Holders, Accounted, Lost, Uses, Forsaken
<1>4. /\ IsFiniteSet(coming) /\ requests \in Nat /\ coming \subseteq 1 .. requests
      /\ Cardinality(coming') = Cardinality(coming) - 1 /\ Cardinality(coming) \in Nat
  <2>1. requests \in Nat /\ coming \subseteq 1 .. requests
    BY DEF IInv, Counters, Post
  <2>2. IsFiniteSet(coming)
    <3>1. IsFiniteSet(1 .. requests)
      BY <2>1, FS_Interval
    <3>2. QED
      BY <2>1, <3>1, FS_Subset
  <2>3. QED
    BY <1>1, <2>1, <2>2, FS_RemoveElement, FS_CardinalityType
<1>5. CASE UNCHANGED <<mail, inbox>>
  <2>1. Post'
    BY <1>1, <1>2, <1>4, <1>5, MailTyped DEF IInv, Post
  <2>2. Boxes' /\ Flows' /\ Fit'
    BY <1>2, <1>5 DEF IInv, Boxes, Flows, FlowOf, Fit, BoundAt, FreshAt, Marker
  <2>3. QED
    BY <1>3, <2>1, <2>2 DEF IInv
<1>6. CASE /\ mail' = Append(mail, [at |-> now, req |-> r])
           /\ inbox' = [s \in Session |->
                          IF s \in open \ astray THEN inbox[s] \union {Len(mail) + 1} ELSE inbox[s]]
  <2> DEFINE M == [at : 1 .. now, req : 0 .. requests]
             n == Len(mail)
  <2>1. mail \in Seq(M) /\ n \in Nat /\ [at |-> now, req |-> r] \in M
    BY <1>1, <1>4 DEF IInv, Post, Counters
  <2>2. /\ mail' \in Seq(M) /\ Len(mail') = n + 1
        /\ \A k \in 1 .. n : mail'[k] = mail[k]
        /\ mail'[n + 1] = [at |-> now, req |-> r]
    <3> HIDE DEF M
    <3>1. QED
      BY <1>6, <2>1
  <2>3. 1 .. n \subseteq 1 .. n + 1 /\ 1 .. n + 1 = (1 .. n) \union {n + 1}
    BY <2>1
  <2>4. Post'
    <3>1. \A k \in 1 .. n : mail[k].at <= now /\ mail[k].at \in Nat
      BY MailTyped DEF IInv, Counters
    <3>2. \A k \in 1 .. n + 1 : \A i \in 1 .. k : mail'[i].at <= mail'[k].at
      <4> SUFFICES ASSUME NEW k \in 1 .. n + 1, NEW i \in 1 .. k
                   PROVE  mail'[i].at <= mail'[k].at
        OBVIOUS
      <4>1. CASE k \in 1 .. n
        <5>1. i \in 1 .. n
          BY <2>1, <4>1
        <5>2. QED
          BY <2>2, <4>1, <5>1 DEF IInv, Post
      <4>2. CASE k = n + 1
        <5>1. i \in 1 .. n \/ i = n + 1
          BY <2>1, <4>2
        <5>2. now <= now /\ mail'[k].at = now
          BY <2>2, <4>2 DEF IInv, Counters
        <5>3. QED
          BY <2>2, <3>1, <4>2, <5>1, <5>2
      <4>3. QED
        BY <2>3, <4>1, <4>2
    <3>3. n + 1 + Cardinality(coming') <= requests + 1
      BY <1>4, <2>1 DEF IInv, Post
    <3>4. QED
      BY <1>1, <1>2, <1>4, <2>2, <3>2, <3>3 DEF Post
  <2>5. Boxes'
    <3>1. inbox' \in [Session -> SUBSET (1 .. n + 1)]
      BY <1>6, <2>1, <2>3 DEF IInv, Boxes
    <3>2. ASSUME NEW s \in Session, inbox'[s] # {}
          PROVE  \E k \in inbox'[s] : \A i \in inbox'[s] : i <= k
      <4>1. CASE s \in open \ astray
        <5>1. inbox'[s] = inbox[s] \union {n + 1} /\ inbox[s] \subseteq 1 .. n
          BY <1>6, <4>1 DEF IInv, Boxes
        <5>2. \A i \in inbox'[s] : i <= n + 1
          BY <2>1, <5>1
        <5>3. QED
          BY <5>1, <5>2
      <4>2. CASE s \notin open \ astray
        <5>1. inbox'[s] = inbox[s]
          BY <1>6, <4>2
        <5>2. QED
          BY <3>2, <5>1 DEF IInv, Boxes
      <4>3. QED
        BY <4>1, <4>2
    <3>3. QED
      BY <2>2, <3>1, <3>2 DEF Boxes
  <2>6. Flows'
    <3>1. FlowOf(n, sessions, requests) \subseteq FlowOf(n + 1, sessions, requests)
      <4>1. sessions \in Nat /\ n + 1 \in Nat /\ n <= n + 1
        BY <2>1 DEF IInv, Counters, Session
      <4>2. n \in Nat /\ requests \in Nat /\ sessions <= sessions /\ requests <= requests
        BY <1>4, <2>1, <4>1
      <4>3. QED
        BY <4>1, <4>2, FlowGrows
    <3>2. QED
      BY <1>2, <2>2, <3>1 DEF IInv, Flows
  <2>7. Fit'
    <3>1. ASSUME NEW w \in Worker, NEW k \in flow[w].base
          PROVE  Marker(k)' = Marker(k)
      <4>1. k \in 1 .. n
        BY DEF IInv, Flows, FlowOf
      <4>2. QED
        BY <2>2, <4>1 DEF Marker
    <3>2. QED
      BY <1>2, <3>1 DEF IInv, Fit, BoundAt, FreshAt
  <2>8. QED
    BY <1>3, <2>4, <2>5, <2>6, <2>7 DEF IInv
<1>7. QED
  BY <1>1, <1>5, <1>6

LEMMA TickKeeps ==
  ASSUME IInv, Tick
  PROVE  IInv'
<1>1. /\ now' = now + 1 /\ now' \in 1 .. MaxTime
      /\ UNCHANGED <<mail, inbox, open, sessions, astray, coming, requests, pc, flow, walled, faults, runs>>
  BY DEF Tick, IInv, Counters
<1>2. Counters' /\ Holders' /\ Accounted' /\ Boxes' /\ Flows' /\ Fit'
  BY <1>1 DEF IInv, Counters, Holders, Accounted, Lost, Uses, Forsaken, Boxes, Flows, FlowOf, Fit,
     BoundAt, FreshAt, Marker
<1>3. Post'
  <2>1. [at : 1 .. now, req : 0 .. requests] \subseteq [at : 1 .. now', req : 0 .. requests]
    BY <1>1 DEF IInv, Counters
  <2>2. mail \in Seq([at : 1 .. now', req : 0 .. requests])
    BY <2>1, SeqMonotonic DEF IInv, Post
  <2>3. QED
    BY <1>1, <2>2 DEF IInv, Post
<1>4. QED
  BY <1>2, <1>3 DEF IInv

LEMMA LapseKeeps ==
  ASSUME IInv, Lapse
  PROVE  IInv'
<1>1. /\ open' \subseteq open
      /\ UNCHANGED <<now, mail, inbox, sessions, astray, coming, requests, pc, flow, walled, faults, runs>>
  BY DEF Lapse
<1>2. Counters' /\ Post' /\ Boxes' /\ Holders' /\ Flows' /\ Fit'
  BY <1>1 DEF IInv, Counters, Post, Boxes, Holders, Flows, FlowOf, Fit, BoundAt, FreshAt, Marker
<1>3. Accounted'
  <2>1. Lost' \subseteq Lost
    BY <1>1 DEF Lost, Uses, Forsaken
  <2>2. IsFiniteSet(1 .. sessions)
    BY FS_Interval DEF IInv, Counters, Session
  <2>3. IsFiniteSet(Lost)
    BY <2>2, FS_Subset DEF Lost, IInv, Holders
  <2>4. Cardinality(Lost') <= Cardinality(Lost)
        /\ Cardinality(Lost') \in Nat /\ Cardinality(Lost) \in Nat
    BY <2>1, <2>3, FS_Subset, FS_CardinalityType
  <2>5. QED
    BY <1>1, <2>4 DEF IInv, Accounted, Counters
<1>4. QED
  BY <1>2, <1>3 DEF IInv

LEMMA InitEstablishes == Init => IInv
<1> SUFFICES ASSUME Init PROVE IInv
  OBVIOUS
<1>1. Counters /\ Holders
  BY DEF Init, Counters, Holders, Session, Seed
<1>2. /\ mail \in Seq([at : 1 .. now, req : 0 .. requests]) /\ Len(mail) \in {0, 1}
      /\ Len(mail) = 1 => mail[1].at = 1
  <2>1. CASE mail = << >>
    BY <2>1
  <2>2. CASE mail = <<[at |-> 1, req |-> 0]>>
    <3>1. [at |-> 1, req |-> 0] \in [at : 1 .. now, req : 0 .. requests]
      BY DEF Init
    <3>2. QED
      BY <2>2, <3>1
  <2>3. QED
    BY <2>1, <2>2 DEF Init
<1>3. DOMAIN mail = 1 .. Len(mail) /\ Cardinality(coming) = 0 /\ requests = 0
  BY <1>2, FS_EmptySet DEF Init
<1>4. Post
  BY <1>2, <1>3 DEF Init, Post
<1>5. Boxes
  <2>1. inbox \in [Session -> SUBSET (1 .. Len(mail))]
    BY <1>3 DEF Init
  <2>2. ASSUME NEW s \in Session, inbox[s] # {}
        PROVE  \E k \in inbox[s] : \A i \in inbox[s] : i <= k
    BY <1>2, <1>3, <2>2 DEF Init
  <2>3. QED
    BY <2>1, <2>2 DEF Boxes
<1>6. NoFlow \in FlowOf(Len(mail), sessions, requests)
  BY <1>1, <1>2, <1>3 DEF NoFlow, FlowOf, Kind, Seed, Counters, Session
<1>7. Flows
  BY <1>6 DEF Init, Flows, Label
<1>8. Fit
  BY DEF Init, Fit, BoundAt, FreshAt, NoFlow
<1>9. Accounted
  <2>1. Lost = {}
    BY DEF Init, Lost, Seed
  <2>2. QED
    BY <2>1, FS_EmptySet DEF Accounted, Init
<1>10. QED
  BY <1>1, <1>4, <1>5, <1>7, <1>8, <1>9 DEF IInv

-----------------------------------------------------------------------------
\* The order of the messages, the fit of every flow to the place it is at, and the
\* account of the lost sessions, hold throughout.
THEOREM Invariance == Spec => []IInv
<1>1. IInv /\ [Next]_vars => IInv'
  <2> SUFFICES ASSUME IInv, [Next]_vars PROVE IInv'
    OBVIOUS
  <2>1. ASSUME NEW w \in Worker, Step(w)
        PROVE  IInv'
    <3>1. Counters' /\ Post' /\ Boxes' /\ Holders'
      BY <2>1, StepServes, ServiceKept
    <3>2. Flows' /\ Fit'
      BY <2>1, StepServes, StepGoes, GoesKeeps
    <3>3. Accounted'
      BY <2>1, StepAccounts
    <3>4. QED
      BY <3>1, <3>2, <3>3 DEF IInv
  <2>2. CASE UNCHANGED vars
    <3>1. Counters' /\ Post' /\ Boxes' /\ Holders'
      BY <2>2 DEF IInv, vars, serviceVars, Counters, Post, Boxes, Holders
    <3>2. Flows' /\ Fit'
      BY <2>2 DEF IInv, vars, serviceVars, Flows, FlowOf, Fit, BoundAt, FreshAt, Marker
    <3>3. Accounted'
      BY <2>2 DEF IInv, vars, serviceVars, Accounted, Lost, Uses, Forsaken
    <3>4. QED
      BY <3>1, <3>2, <3>3 DEF IInv
  <2>3. QED
    BY <2>1, <2>2, DeliverKeeps, TickKeeps, LapseKeeps DEF Next
<1>2. QED
  BY <1>1, InitEstablishes, PTL DEF Spec

\* However many flows there are and whatever arrives, every flow knows of sessions,
\* messages and requests only that there are, a code is taken only of a message, and
\* there is at most one message more than there were requests.
THEOREM TypeCorrect == Spec => []TypeOK
<1>1. IInv => TypeOK
  <2> SUFFICES ASSUME IInv PROVE TypeOK
    OBVIOUS
  <2>1. Len(mail) <= MaxRequests + 1
    <3>1. IsFiniteSet(1 .. requests)
      BY FS_Interval DEF IInv, Counters
    <3>2. Cardinality(coming) \in Nat
      BY <3>1, FS_Subset, FS_CardinalityType DEF IInv, Post
    <3>3. QED
      BY <3>2, MailTyped DEF IInv, Counters, Post
  <2>2. DOMAIN mail = 1 .. Len(mail)
    BY MailTyped
  <2>3. QED
    BY <2>1, <2>2 DEF IInv, TypeOK, Counters, Post, Boxes, Holders, Flows, FlowOf, Fit, BoundAt
<1>2. QED
  BY <1>1, Invariance, PTL

\* A code that is taken by a flow with a baseline was not in the mailbox when the
\* baseline was taken, however many messages share a second (wait_openai_code,
\* _snapshot_session_openai_code).
THEOREM CodesAreFresh == Spec => []FreshAfterBaseline
<1>1. IInv => FreshAfterBaseline
  BY DEF IInv, Fit, FreshAt, FreshAfterBaseline
<1>2. QED
  BY <1>1, Invariance, PTL

\* Of the sessions of the address that nobody answers for any more there are no more
\* than calls that had no answer, each sending of one counted, and flows that were
\* killed; a session that came with another address or without an id is none of the
\* address (run_protocol_oauth_once, resolve_mailbox, _mail_service_request).
THEOREM SessionsAreAccountedFor == Spec => []SessionsAccountedFor
<1>1. IInv => SessionsAccountedFor
  <2> SUFFICES ASSUME IInv PROVE SessionsAccountedFor
    OBVIOUS
  <2> DEFINE L == open \ ({Seed} \union walled \union astray \union
                          {flow[w].sess : w \in {v \in Worker : pc[v] # "idle"}})
  <2>1. L \subseteq Lost
    BY DEF Lost, Uses
  <2>2. IsFiniteSet(1 .. sessions)
    BY FS_Interval DEF IInv, Counters, Session
  <2>3. IsFiniteSet(Lost)
    BY <2>2, FS_Subset DEF Lost, IInv, Holders
  <2>4. Cardinality(L) <= Cardinality(Lost) /\ Cardinality(L) \in Nat /\ Cardinality(Lost) \in Nat
    BY <2>1, <2>3, FS_Subset, FS_CardinalityType
  <2>5. QED
    BY <2>4 DEF IInv, Accounted, Counters, SessionsAccountedFor
<1>2. QED
  BY <1>1, Invariance, PTL

=============================================================================

---------------------------- MODULE BrokerProofs ----------------------------
(***************************************************************************)
(* Proofs about the proposal store and its broker, for every set of        *)
(* requests and issues, every limit, every number of failures and every    *)
(* interleaving of the broker with the other commands.                     *)
(*                                                                         *)
(* The store first.  Every command ends in Write, so the proofs go through *)
(* one lemma, CommandWrites: a command writes one row and one event, and   *)
(* the event's status and detail follow from the row before by a few       *)
(* rules.  The inductive invariant Inv is then kept by any Write that      *)
(* obeys the rules, by Expire and by Tick.  The bound MaxEvents plays no   *)
(* part, so the lemmas also serve the broker, which has no such bound on   *)
(* its own steps.                                                          *)
(*                                                                         *)
(* Then the broker.  A broker step is a store step or leaves the store     *)
(* alone (BrokerStepsStore), so Inv carries over.  Locals says what the    *)
(* loops know about the rows they still have to visit, in spite of         *)
(* everything that happened to the rows since the listing was read.        *)
(***************************************************************************)
EXTENDS ProposalsBroker, FiniteSetTheorems, WellFoundedInduction, TLAPS

Open == {"pending", "notified"}
Underway == {"approved", "issue_created", "implementing"}

\* How a command moves the status of row id.
StatusMoves(id, from, to) ==
  \/ to = from
  \/ (from = "absent" \/ Terminal(from)) /\ to = "pending"
  \/ from \in Open /\ to \in {"notified", "approved", "declined"}
  \/ from \in Underway /\ to \in {"issue_created", "implementing", "completed", "failed"}
  \/ from = "failed" /\ to \in {"approved", "issue_created"} /\ EverApproved(id)

\* What a command may write over row id.
Rules(id, row, detail) ==
  /\ row \in Row /\ row.status # "absent" /\ detail \in Details
  /\ row.status # "expired" /\ detail # "expired"
  /\ StatusMoves(id, rows[id].status, row.status)
  /\ rows[id].status # "absent" => row.created = rows[id].created
  \* past approval only from past approval, or by the owner's own answer
  /\ row.status \in Downstream =>
       \/ row.status = "approved" /\ detail = "answered"
       \/ rows[id].status \in Downstream /\ detail # "reopened"
  \* the issue goes with its stage
  /\ row.status \in Tracked => row.issue # 0
  /\ row.issue # 0 => row.status \in Tracked \cup {"failed"}
  /\ row.agent # 0 => row.issue # 0
  /\ rows[id].issue # 0 /\ row.issue # rows[id].issue
       => Terminal(rows[id].status) /\ row.status = "pending" /\ row.issue = 0
  \* every request restarts the clock of the expiry
  /\ row.requested = IF detail \in Asks THEN now ELSE rows[id].requested

\* Every command logs the status it leaves the row with, so the end of a trail tells the row.
TrailExplainsRow ==
  \A id \in Ids :
    IF trail[id] = <<>> THEN rows[id].status = "absent"
                       ELSE rows[id].status = trail[id][Len(trail[id])].status

\* The clock never runs behind an event, and a row knows its last request.
RequestsAreTimed ==
  \A id \in Ids :
    /\ rows[id].requested <= now
    /\ \A k \in DOMAIN trail[id] :
         trail[id][k].detail \in Asks => trail[id][k].at <= rows[id].requested

Inv ==
  /\ TypeOK
  /\ TrailExplainsRow
  /\ WorkIsGranted
  /\ IssueMatchesStage
  /\ RequestsAreTimed
  /\ ExpiryFollowsOwner

\* A step of the store, whoever takes it and however long the trails are.
StoreStep == Tick \/ Expire \/ \E id \in Ids : Command(id)

----------------------------------------------------------------------------
\* The types of one request's row and trail.
LEMMA RowAt ==
  ASSUME TypeOK, NEW id \in Ids
  PROVE  /\ rows[id] \in Row /\ trail[id] \in Seq(Event)
         /\ now \in Nat
BY DEF TypeOK

LEMMA RecordWrites ==
  ASSUME TypeOK, IssueMatchesStage, NEW id \in Ids, Record(id)
  PROVE  \E row, detail : /\ Write(id, row, row.status, detail) /\ Rules(id, row, detail)
                          /\ row.issue \in {0, rows[id].issue} /\ detail # "asked"
<1> USE RowAt
<1>1. CASE rows[id].status = "absent"
  <2> DEFINE r == [NoRow EXCEPT !.status = "pending", !.requested = now, !.created = now]
  <2>1. Write(id, r, "pending", "recorded")
    BY <1>1 DEF Record, Terminal
  <2>2. Rules(id, r, "recorded") /\ r.issue \in {0, rows[id].issue} /\ r.status = "pending"
    BY <1>1 DEF Rules, StatusMoves, Open, Underway, Row, NoRow, Statuses, Details, Downstream, Tracked, Terminal, Asks,
       IssueMatchesStage
  <2> QED BY <2>1, <2>2
<1>2. CASE Terminal(rows[id].status)
  <2> DEFINE r == [rows[id] EXCEPT !.status = "pending", !.issue = 0, !.agent = 0,
                                   !.notified = 0, !.requested = now]
  <2>1. Write(id, r, "pending", "reopened")
    BY <1>2 DEF Record, Terminal
  <2>2. Rules(id, r, "reopened") /\ r.issue \in {0, rows[id].issue} /\ r.status = "pending"
    BY <1>2 DEF Rules, StatusMoves, Open, Underway, Row, Statuses, Details, Downstream, Tracked, Terminal, Asks
  <2> QED BY <2>1, <2>2
<1>3. CASE rows[id].status # "absent" /\ ~Terminal(rows[id].status)
  <2> DEFINE r == [rows[id] EXCEPT !.requested = now]
  <2>1. Write(id, r, r.status, "requested again")
    BY <1>3 DEF Record, Row
  <2>2. Rules(id, r, "requested again") /\ r.issue \in {0, rows[id].issue}
    BY <1>3 DEF Rules, StatusMoves, Open, Underway, Row, Statuses, Details, Downstream, Tracked, Terminal, Asks,
       IssueMatchesStage
  <2> QED BY <2>1, <2>2
<1> QED BY <1>1, <1>2, <1>3

LEMMA TransitionWrites ==
  ASSUME TypeOK, IssueMatchesStage, NEW id \in Ids,
         NEW to, NEW detail, Transition(id, to, detail),
         \/ to = "notified" /\ detail = "asked"
         \/ to \in {"approved", "declined"} /\ detail = "answered"
         \/ to = "completed" /\ detail = "completed"
         \/ to = "failed" /\ detail = "failed"
  PROVE  \E row : /\ Write(id, row, row.status, detail) /\ Rules(id, row, detail)
                  /\ row.issue \in {0, rows[id].issue} /\ row.status = to
<1> DEFINE r == [rows[id] EXCEPT !.status = to, !.notified = IF to = "notified" THEN now ELSE @]
<1>1. Write(id, r, to, detail)
  BY DEF Transition
<1>2. LegalTransition(rows[id].status, to)
  BY DEF Transition
<1>3. Rules(id, r, detail) /\ r.issue = rows[id].issue /\ r.status = to
  BY <1>2, RowAt DEF Rules, StatusMoves, Open, Underway, Row, Statuses, Details, Downstream, Tracked, Terminal, Asks,
     LegalTransition, IssueMatchesStage
<1> QED BY <1>1, <1>3

\* The commands that record no number, and no question.
Quiet(id) ==
  \/ Record(id) \/ Approve(id) \/ Decline(id) \/ Complete(id) \/ Fail(id) \/ Retry(id)

LEMMA QuietWrites ==
  ASSUME TypeOK, IssueMatchesStage, NEW id \in Ids, Quiet(id)
  PROVE  \E row, detail : /\ Write(id, row, row.status, detail) /\ Rules(id, row, detail)
                          /\ row.issue \in {0, rows[id].issue} /\ detail # "asked"
<1>1. CASE Record(id)
  BY <1>1, RecordWrites
<1>2. CASE Approve(id)
  BY <1>2, TransitionWrites DEF Approve
<1>3. CASE Decline(id)
  BY <1>3, TransitionWrites DEF Decline
<1>4. CASE Complete(id)
  BY <1>4, TransitionWrites DEF Complete
<1>5. CASE Fail(id)
  BY <1>5, TransitionWrites DEF Fail
<1>6. CASE Retry(id)
  <2> DEFINE r == [rows[id] EXCEPT !.status = IF rows[id].issue # 0 THEN "issue_created"
                                                                    ELSE "approved"]
  <2>1. Write(id, r, r.status, "retrying") /\ EverApproved(id)
    BY <1>6 DEF Retry
  <2>2. Rules(id, r, "retrying") /\ r.issue = rows[id].issue
    BY <1>6, <2>1, RowAt DEF Retry, Rules, StatusMoves, Row, Statuses, Details, Downstream,
       Tracked, Terminal, Asks, Open, Underway, IssueMatchesStage
  <2> QED BY <2>1, <2>2
<1> QED BY <1>1, <1>2, <1>3, <1>4, <1>5, <1>6 DEF Quiet

LEMMA NotifyWrites ==
  ASSUME TypeOK, IssueMatchesStage, NEW id \in Ids, Notify(id)
  PROVE  \E row : /\ Write(id, row, "notified", "asked") /\ Rules(id, row, "asked")
                  /\ row.issue \in {0, rows[id].issue} /\ row.status = "notified"
BY TransitionWrites DEF Notify

LEMMA SetIssueWrites ==
  ASSUME TypeOK, IssueMatchesStage, NEW id \in Ids, NEW n \in Issues, SetIssue(id, n)
  PROVE  \E row, detail : /\ Write(id, row, row.status, detail) /\ Rules(id, row, detail)
                          /\ row.issue = n /\ detail # "asked"
<1> DEFINE r == [rows[id] EXCEPT !.issue = n, !.status = "issue_created"]
<1>1. Write(id, r, "issue_created", "issue")
  BY DEF SetIssue
<1>2. Rules(id, r, "issue") /\ r.issue = n /\ r.status = "issue_created"
  BY RowAt, ProposalsAssumption DEF SetIssue, TakesIssue, LegalTransition, Rules, StatusMoves, Row,
     Statuses, Details, Downstream, Tracked, Terminal, Asks, Open, Underway, IssueMatchesStage
<1> QED BY <1>1, <1>2

LEMMA SetAgentWrites ==
  ASSUME TypeOK, IssueMatchesStage, NEW id \in Ids, NEW n \in Issues, SetAgent(id, n)
  PROVE  \E row, detail : /\ Write(id, row, row.status, detail) /\ Rules(id, row, detail)
                          /\ row.issue = rows[id].issue /\ detail # "asked"
<1> DEFINE r == [rows[id] EXCEPT !.agent = n, !.status = "implementing"]
<1>1. Write(id, r, "implementing", "seat")
  BY DEF SetAgent
<1>2. Rules(id, r, "seat") /\ r.issue = rows[id].issue /\ r.status = "implementing"
  BY RowAt DEF SetAgent, TakesAgent, LegalTransition, Rules, StatusMoves, Row, Statuses, Details,
     Downstream, Tracked, Terminal, Asks, Open, Underway, IssueMatchesStage
<1> QED BY <1>1, <1>2

LEMMA CommandWrites ==
  ASSUME TypeOK, IssueMatchesStage, NEW id \in Ids, Command(id)
  PROVE  \E row, detail : Write(id, row, row.status, detail) /\ Rules(id, row, detail)
BY QuietWrites, NotifyWrites, SetIssueWrites, SetAgentWrites DEF Command, Quiet

----------------------------------------------------------------------------
\* What Write leaves behind: the row and the longer trail of id, everything else untouched.
LEMMA WriteEffect ==
  ASSUME TypeOK, NEW id \in Ids, NEW row, NEW detail, Write(id, row, row.status, detail), Rules(id, row, detail)
  PROVE  /\ TypeOK'
         /\ now' = now
         /\ \A o \in Ids : o # id => rows'[o] = rows[o] /\ trail'[o] = trail[o]
         /\ rows'[id] = row
         /\ Len(trail'[id]) = Len(trail[id]) + 1
         /\ \A k \in DOMAIN trail[id] : trail'[id][k] = trail[id][k]
         /\ trail'[id][Len(trail[id]) + 1] = [status |-> row.status, detail |-> detail, at |-> now]
<1> DEFINE e == [status |-> row.status, detail |-> detail, at |-> now]
<1>1. e \in Event /\ row \in Row /\ now \in Nat
  BY DEF Rules, Row, Event, Details, TypeOK
<1>2. rows' = [rows EXCEPT ![id] = row] /\ trail' = [trail EXCEPT ![id] = Append(@, e)]
      /\ now' = now
  BY DEF Write
<1>3. trail[id] \in Seq(Event)
  BY RowAt
<1>4. trail'[id] = Append(trail[id], e)
  BY <1>2 DEF TypeOK
<1>5. /\ Append(trail[id], e) \in Seq(Event)
      /\ Len(Append(trail[id], e)) = Len(trail[id]) + 1
      /\ \A k \in 1..Len(trail[id]) : Append(trail[id], e)[k] = trail[id][k]
      /\ Append(trail[id], e)[Len(trail[id]) + 1] = e
  BY <1>1, <1>3
<1>6. TypeOK'
  BY <1>1, <1>2, <1>5 DEF TypeOK
<1>7. DOMAIN trail[id] = 1..Len(trail[id])
  BY <1>3
<1> HIDE DEF e
<1>8. \A o \in Ids : o # id => rows'[o] = rows[o] /\ trail'[o] = trail[o]
  BY <1>2 DEF TypeOK
<1>9. rows'[id] = row
  BY <1>2 DEF TypeOK
<1> QED BY <1>2, <1>4, <1>5, <1>6, <1>7, <1>8, <1>9 DEF e

\* A grant in the past of a trail is still one when the trail grows.
LEMMA GrantKept ==
  ASSUME TypeOK, TypeOK', NEW id \in Ids, NEW n \in Nat, NEW k \in 1..n, GrantedBy(id, k),
         \A j \in 1..n : trail'[id][j] = trail[id][j]
  PROVE  GrantedBy(id, k)'
BY DEF GrantedBy

LEMMA InvWrite ==
  ASSUME Inv, NEW id \in Ids, NEW row, NEW detail, Write(id, row, row.status, detail), Rules(id, row, detail)
  PROVE  Inv'
<1>0. PICK n : n = Len(trail[id])
  OBVIOUS
<1>1. TypeOK /\ trail[id] \in Seq(Event) /\ now \in Nat /\ rows[id] \in Row
  BY RowAt DEF Inv
<1>2. /\ TypeOK' /\ now' = now
      /\ \A o \in Ids : o # id => rows'[o] = rows[o] /\ trail'[o] = trail[o]
      /\ rows'[id] = row
      /\ Len(trail'[id]) = n + 1
      /\ \A k \in DOMAIN trail[id] : trail'[id][k] = trail[id][k]
      /\ trail'[id][n + 1] = [status |-> row.status, detail |-> detail, at |-> now]
  BY <1>0, <1>1, WriteEffect
<1>3. /\ n \in Nat /\ DOMAIN trail[id] = 1..n
      /\ DOMAIN (trail'[id]) = 1..(n + 1) /\ trail'[id] # <<>>
  <2>1. trail'[id] \in Seq(Event)
    BY <1>2 DEF TypeOK
  <2> QED BY <1>0, <1>1, <1>2, <2>1
<1>4. TrailExplainsRow'
  BY <1>0, <1>2, <1>3 DEF Inv, TrailExplainsRow
<1>5. WorkIsGranted'
  <2>1. ASSUME NEW o \in Ids, o # id, NEW k \in DOMAIN trail[o],
               trail[o][k].status \in Downstream
        PROVE  GrantedBy(o, k)'
    <3>1. trail'[o] = trail[o] /\ GrantedBy(o, k)
      BY <1>2, <2>1 DEF Inv, WorkIsGranted
    <3> QED BY <3>1 DEF GrantedBy
  <2>2. ASSUME NEW k \in 1..n, trail[id][k].status \in Downstream
        PROVE  GrantedBy(id, k)'
    <3>1. GrantedBy(id, k)
      BY <1>3, <2>2 DEF Inv, WorkIsGranted
    <3> QED BY <1>1, <1>2, <1>3, <3>1, GrantKept
  <2>3. ASSUME row.status \in Downstream
        PROVE  GrantedBy(id, n + 1)'
    <3>1. CASE row.status = "approved" /\ detail = "answered"
      <4>1. /\ trail'[id][n + 1].status = "approved"
            /\ trail'[id][n + 1].detail = "answered"
        BY <1>2, <3>1
      <4>2. \A j \in (n + 1)..(n + 1) : trail'[id][j].detail # "reopened"
        BY <1>3, <4>1
      <4>3. n + 1 \in 1..(n + 1)
        BY <1>3
      <4> QED BY <4>1, <4>2, <4>3 DEF GrantedBy
    <3>2. CASE rows[id].status \in Downstream /\ detail # "reopened"
      <4>1. trail[id] # <<>> /\ rows[id].status = trail[id][n].status
        BY <1>0, <3>2 DEF Inv, TrailExplainsRow, Downstream
      <4>2. n \in 1..n
        BY <1>0, <1>1, <1>3, <4>1
      <4>3. GrantedBy(id, n)'
        BY <2>2, <3>2, <4>1, <4>2
      <4>4. PICK g \in 1..n :
              /\ trail'[id][g].status = "approved" /\ trail'[id][g].detail = "answered"
              /\ \A j \in g..n : trail'[id][j].detail # "reopened"
        BY <4>3 DEF GrantedBy
      <4>5. \A j \in g..(n + 1) : trail'[id][j].detail # "reopened"
        <5>1. \A j \in g..(n + 1) : j \in g..n \/ j = n + 1
          BY <1>3
        <5>2. trail'[id][n + 1].detail # "reopened"
          BY <1>2, <3>2
        <5> QED BY <4>4, <5>1, <5>2
      <4>6. g \in 1..(n + 1)
        BY <1>3
      <4> QED BY <4>4, <4>5, <4>6 DEF GrantedBy
    <3> QED BY <2>3, <3>1, <3>2 DEF Rules
  <2>4. \A k \in DOMAIN (trail'[id]) : k \in 1..n \/ k = n + 1
    BY <1>3
  <2>5. ASSUME NEW o \in Ids, NEW k \in DOMAIN (trail'[o]), trail'[o][k].status \in Downstream
        PROVE  GrantedBy(o, k)'
    <3>1. CASE o # id
      BY <1>2, <2>1, <2>5, <3>1
    <3>2. CASE o = id /\ k \in 1..n
      <4>1. trail[id][k].status \in Downstream
        BY <1>2, <1>3, <2>5, <3>2
      <4> QED BY <2>2, <3>2, <4>1
    <3>3. CASE o = id /\ k = n + 1
      <4>1. row.status \in Downstream
        BY <1>2, <2>5, <3>3
      <4> QED BY <2>3, <3>3, <4>1
    <3> QED BY <2>4, <3>1, <3>2, <3>3
  <2> QED BY <2>5 DEF WorkIsGranted
<1>6. IssueMatchesStage'
  BY <1>2 DEF Inv, IssueMatchesStage, Rules
<1>7. RequestsAreTimed'
  <2>1. row.requested = IF detail \in Asks THEN now ELSE rows[id].requested
    BY DEF Rules
  <2>2. /\ rows[id].requested \in Nat /\ rows[id].requested <= now
        /\ \A k \in 1..n : trail[id][k].detail \in Asks => trail[id][k].at <= rows[id].requested
        /\ \A k \in 1..n : trail[id][k].at \in Nat
    <3>1. rows[id].requested \in Nat
      BY <1>1 DEF Row
    <3>2. \A k \in 1..n : trail[id][k] \in Event
      BY <1>1, <1>3
    <3>3. \A k \in 1..n : trail[id][k].at \in Nat
      BY <3>2 DEF Event
    <3> QED BY <1>3, <3>1, <3>3 DEF Inv, RequestsAreTimed
  <2>3. ASSUME NEW k \in 1..(n + 1), trail'[id][k].detail \in Asks
        PROVE  trail'[id][k].at <= row.requested
    <3>1. CASE k \in 1..n
      <4>1. trail'[id][k] = trail[id][k]
        BY <1>2, <1>3, <3>1
      <4>2. trail[id][k].at <= rows[id].requested /\ trail[id][k].at \in Nat
        BY <2>2, <2>3, <3>1, <4>1
      <4>3. rows[id].requested <= row.requested
        BY <1>1, <2>1, <2>2
      <4>4. row.requested \in Nat
        BY <1>1, <2>1, <2>2
      <4> QED BY <2>2, <4>1, <4>2, <4>3, <4>4
    <3>2. CASE k = n + 1
      BY <1>1, <1>2, <2>1, <2>3, <3>2
    <3> QED BY <1>3, <3>1, <3>2
  <2>4. row.requested <= now
    BY <1>1, <2>1, <2>2
  <2> QED BY <1>2, <1>3, <2>3, <2>4 DEF Inv, RequestsAreTimed
<1>8. ExpiryFollowsOwner'
  <2>1. row.status # "expired"
    BY DEF Rules
  <2>2. ASSUME NEW k \in 1..(n + 1), trail'[id][k].status = "expired"
        PROVE  k \in 1..n /\ trail[id][k].status = "expired"
    BY <1>2, <1>3, <2>1, <2>2
  <2>3. ASSUME NEW k \in 1..n, trail[id][k].status = "expired", NEW j \in 1..(k - 1),
               trail'[id][j].detail \in Asks
        PROVE  trail'[id][j].at + ExpireAfter <= trail'[id][k].at
    <3>1. j \in 1..n
      BY <1>3
    <3>2. trail'[id][j] = trail[id][j] /\ trail'[id][k] = trail[id][k]
      BY <1>2, <1>3, <3>1
    <3> QED BY <1>3, <2>3, <3>2 DEF Inv, ExpiryFollowsOwner
  <2>4. \A o \in Ids : o # id => trail'[o] = trail[o]
    BY <1>2
  <2> QED BY <1>3, <2>2, <2>3, <2>4 DEF Inv, ExpiryFollowsOwner
<1> QED BY <1>2, <1>4, <1>5, <1>6, <1>7, <1>8 DEF Inv

----------------------------------------------------------------------------
\* What Expire leaves behind: every stale row is closed with an event, no other row moves.
LEMMA ExpireEffect ==
  ASSUME TypeOK, Expire
  PROVE  /\ TypeOK' /\ now' = now
         /\ \A o \in Ids : ~Stale(o) => rows'[o] = rows[o] /\ trail'[o] = trail[o]
         /\ \A o \in Ids : Stale(o) =>
              /\ rows'[o] = [rows[o] EXCEPT !.status = "expired"]
              /\ Len(trail'[o]) = Len(trail[o]) + 1
              /\ \A k \in 1..Len(trail[o]) : trail'[o][k] = trail[o][k]
              /\ trail'[o][Len(trail[o]) + 1] =
                   [status |-> "expired", detail |-> "expired", at |-> now]
<1> DEFINE e == [status |-> "expired", detail |-> "expired", at |-> now]
<1>1. e \in Event
  BY DEF Event, Statuses, Details, TypeOK
<1> HIDE DEF e
<1>2. /\ rows' = [o \in Ids |-> IF Stale(o) THEN [rows[o] EXCEPT !.status = "expired"]
                                          ELSE rows[o]]
      /\ trail' = [o \in Ids |-> IF Stale(o) THEN Append(trail[o], e) ELSE trail[o]]
      /\ now' = now
  BY DEF Expire, e
<1>3. ASSUME NEW o \in Ids
      PROVE  /\ Append(trail[o], e) \in Seq(Event)
             /\ Len(Append(trail[o], e)) = Len(trail[o]) + 1
             /\ \A k \in 1..Len(trail[o]) : Append(trail[o], e)[k] = trail[o][k]
             /\ Append(trail[o], e)[Len(trail[o]) + 1] = e
  BY <1>1, RowAt
<1>4. ASSUME NEW o \in Ids
      PROVE  [rows[o] EXCEPT !.status = "expired"] \in Row
  BY RowAt DEF Row, Statuses
<1>5. \A o \in Ids : rows'[o] \in Row /\ trail'[o] \in Seq(Event)
  BY <1>2, <1>3, <1>4, RowAt
<1>6. TypeOK'
  BY <1>2, <1>5 DEF TypeOK
<1>7. ASSUME NEW o \in Ids, Stale(o)
      PROVE  /\ rows'[o] = [rows[o] EXCEPT !.status = "expired"]
             /\ trail'[o] = Append(trail[o], e)
  BY <1>2, <1>7
<1>8. ASSUME NEW o \in Ids, ~Stale(o)
      PROVE  rows'[o] = rows[o] /\ trail'[o] = trail[o]
  BY <1>2, <1>8
<1> QED BY <1>2, <1>3, <1>6, <1>7, <1>8 DEF e

\* A stale row is open, so its cycle has no issue and no trail past approval to protect.
LEMMA InvExpire ==
  ASSUME Inv, Expire
  PROVE  Inv'
<1>1. TypeOK
  BY DEF Inv
<1>2. /\ TypeOK' /\ now' = now
      /\ \A o \in Ids : ~Stale(o) => rows'[o] = rows[o] /\ trail'[o] = trail[o]
      /\ \A o \in Ids : Stale(o) =>
              /\ rows'[o] = [rows[o] EXCEPT !.status = "expired"]
              /\ Len(trail'[o]) = Len(trail[o]) + 1
              /\ \A k \in 1..Len(trail[o]) : trail'[o][k] = trail[o][k]
              /\ trail'[o][Len(trail[o]) + 1] =
                   [status |-> "expired", detail |-> "expired", at |-> now]
  BY <1>1, ExpireEffect
\* Each conjunct of Inv speaks of one request at a time.
<1>3. ASSUME NEW o \in Ids
      PROVE  /\ IF trail'[o] = <<>> THEN rows'[o].status = "absent"
                                    ELSE rows'[o].status = trail'[o][Len(trail'[o])].status
             /\ \A k \in DOMAIN (trail'[o]) :
                  trail'[o][k].status \in Downstream => GrantedBy(o, k)'
             /\ rows'[o].status \in Tracked => rows'[o].issue # 0
             /\ rows'[o].issue # 0 => rows'[o].status \in Tracked \cup {"failed"}
             /\ rows'[o].agent # 0 => rows'[o].issue # 0
             /\ rows'[o].requested <= now'
             /\ \A k \in DOMAIN (trail'[o]) :
                  trail'[o][k].detail \in Asks => trail'[o][k].at <= rows'[o].requested
             /\ \A k \in DOMAIN (trail'[o]) : trail'[o][k].status = "expired" =>
                  \A j \in 1..(k - 1) : trail'[o][j].detail \in Asks =>
                    trail'[o][j].at + ExpireAfter <= trail'[o][k].at
  <2>1. CASE ~Stale(o)
    <3>1. rows'[o] = rows[o] /\ trail'[o] = trail[o] /\ now' = now
      BY <1>2, <2>1
    <3>2. \A k \in DOMAIN trail[o] : trail[o][k].status \in Downstream => GrantedBy(o, k)
      BY DEF Inv, WorkIsGranted
    <3>3. \A k : GrantedBy(o, k)' <=> GrantedBy(o, k)
      BY <3>1 DEF GrantedBy
    <3> QED BY <3>1, <3>2, <3>3 DEF Inv, TrailExplainsRow, IssueMatchesStage, RequestsAreTimed,
            ExpiryFollowsOwner
  <2>2. CASE Stale(o)
    <3>0. PICK n : n = Len(trail[o])
      OBVIOUS
    <3>1. trail[o] \in Seq(Event) /\ rows[o] \in Row /\ now \in Nat
          /\ trail'[o] \in Seq(Event)
      BY <1>1, <1>2, RowAt DEF TypeOK
    <3>2. n \in Nat /\ DOMAIN trail[o] = 1..n /\ DOMAIN (trail'[o]) = 1..(n + 1)
          /\ trail'[o] # <<>> /\ Len(trail'[o]) = n + 1
      <4>1. n \in Nat /\ DOMAIN trail[o] = 1..n
        BY <3>0, <3>1
      <4>2. Len(trail'[o]) = n + 1
        BY <1>2, <2>2, <3>0
      <4> QED BY <3>1, <4>1, <4>2
    <3>3. /\ rows'[o] = [rows[o] EXCEPT !.status = "expired"]
          /\ \A k \in 1..n : trail'[o][k] = trail[o][k]
          /\ trail'[o][n + 1] = [status |-> "expired", detail |-> "expired", at |-> now]
      BY <1>2, <2>2, <3>0
    <3>4. /\ rows'[o].status = "expired" /\ rows'[o].issue = rows[o].issue
          /\ rows'[o].agent = rows[o].agent /\ rows'[o].requested = rows[o].requested
      BY <3>1, <3>3 DEF Row
    <3>5. rows[o].status \in {"pending", "notified"} /\ rows[o].requested + ExpireAfter <= now
      BY <2>2 DEF Stale
    <3>6. rows[o].issue = 0 /\ rows[o].agent = 0
      BY <3>5 DEF Inv, IssueMatchesStage, Tracked
    <3>7. ASSUME NEW k \in 1..(n + 1), trail'[o][k].status \in Downstream
          PROVE  GrantedBy(o, k)'
      <4>1. k \in 1..n
        BY <3>2, <3>3, <3>7 DEF Downstream
      <4>2. GrantedBy(o, k)
        BY <3>2, <3>3, <3>7, <4>1 DEF Inv, WorkIsGranted
      <4> QED BY <1>1, <1>2, <3>2, <3>3, <4>1, <4>2, GrantKept
    <3>8. /\ rows[o].requested <= now /\ rows[o].requested \in Nat
          /\ \A k \in 1..n : trail[o][k].detail \in Asks => trail[o][k].at <= rows[o].requested
          /\ \A k \in 1..n : trail[o][k].at \in Nat
      <4>1. rows[o].requested \in Nat
        BY <3>1 DEF Row
      <4>2. \A k \in 1..n : trail[o][k] \in Event
        BY <3>1, <3>2
      <4>3. \A k \in 1..n : trail[o][k].at \in Nat
        BY <4>2 DEF Event
      <4> QED BY <3>2, <4>1, <4>3 DEF Inv, RequestsAreTimed
    <3>9. ASSUME NEW k \in 1..(n + 1), trail'[o][k].detail \in Asks
          PROVE  k \in 1..n /\ trail'[o][k] = trail[o][k] /\ trail'[o][k].at <= rows[o].requested
      <4>1. k \in 1..n
        <5>1. trail'[o][n + 1].detail = "expired" /\ "expired" \notin Asks
          BY <3>3 DEF Asks
        <5>2. k # n + 1
          BY <3>9, <5>1
        <5> QED BY <3>2, <5>2
      <4> QED BY <3>3, <3>8, <3>9, <4>1
    <3>10. ASSUME NEW k \in 1..(n + 1), trail'[o][k].status = "expired",
                  NEW j \in 1..(k - 1), trail'[o][j].detail \in Asks
           PROVE  trail'[o][j].at + ExpireAfter <= trail'[o][k].at
      <4>1. j \in 1..n
        BY <3>2
      <4>2. CASE k \in 1..n
        BY <3>2, <3>3, <3>10, <4>1, <4>2 DEF Inv, ExpiryFollowsOwner
      <4>3. CASE k = n + 1
        <5>1. trail'[o][j].at <= rows[o].requested /\ trail'[o][j].at \in Nat
          BY <3>3, <3>8, <3>9, <3>10, <4>1, <3>2
        <5>2. trail'[o][k].at = now
          BY <3>3, <4>3
        <5>3. /\ rows[o].requested \in Nat /\ now \in Nat /\ ExpireAfter \in Nat
              /\ rows[o].requested + ExpireAfter <= now
          BY <3>1, <3>5, <3>8, ProposalsAssumption
        <5>4. trail'[o][j].at + ExpireAfter <= now
          BY <5>1, <5>3
        <5> QED BY <5>2, <5>4
      <4> QED BY <3>2, <4>2, <4>3
    <3>11. rows'[o].status = trail'[o][n + 1].status
      BY <3>3, <3>4
    <3>12. rows'[o].status \notin Tracked
      BY <3>4 DEF Tracked
    <3>13. rows'[o].requested <= now'
      BY <1>2, <3>4, <3>8
    <3> QED BY <3>2, <3>4, <3>6, <3>7, <3>9, <3>10, <3>11, <3>12, <3>13
  <2> QED BY <2>1, <2>2
<1> QED BY <1>2, <1>3 DEF Inv, TrailExplainsRow, WorkIsGranted, IssueMatchesStage,
        RequestsAreTimed, ExpiryFollowsOwner

LEMMA InvTick ==
  ASSUME Inv, rows' = rows, trail' = trail, now' \in Nat, now' >= now
  PROVE  Inv'
<1>1. TypeOK'
  BY DEF Inv, TypeOK
<1>2. \A id \in Ids : rows[id].requested \in Nat
  BY RowAt DEF Inv, Row
<1>3. RequestsAreTimed'
  BY <1>2 DEF Inv, RequestsAreTimed, TypeOK
<1>4. WorkIsGranted'
  BY DEF Inv, WorkIsGranted, GrantedBy
<1> QED BY <1>1, <1>3, <1>4 DEF Inv, TrailExplainsRow, IssueMatchesStage, ExpiryFollowsOwner

\* Every step of the store keeps the invariant.
LEMMA StoreStepKeepsInv ==
  ASSUME Inv, StoreStep \/ UNCHANGED storeVars
  PROVE  Inv'
<1>0. TypeOK /\ IssueMatchesStage /\ now \in Nat
  BY DEF Inv, TypeOK
<1>1. CASE Tick
  BY <1>0, <1>1, InvTick DEF Tick
<1>2. CASE Expire
  BY <1>2, InvExpire
<1>3. ASSUME NEW id \in Ids, Command(id)
      PROVE  Inv'
  <2>1. PICK row, detail : Write(id, row, row.status, detail) /\ Rules(id, row, detail)
    BY <1>0, <1>3, CommandWrites
  <2> QED BY <2>1, InvWrite
<1>4. CASE UNCHANGED storeVars
  BY <1>0, <1>4, InvTick DEF storeVars
<1> QED BY <1>1, <1>2, <1>3, <1>4 DEF StoreStep

LEMMA InitInv == Init => Inv
<1> SUFFICES ASSUME Init PROVE Inv
  OBVIOUS
<1>1. TypeOK
  BY DEF Init, TypeOK, NoRow, Row
<1>2. \A id \in Ids : rows[id] = NoRow /\ trail[id] = <<>> /\ DOMAIN trail[id] = {}
  BY DEF Init
<1> QED BY <1>1, <1>2 DEF Init, Inv, TrailExplainsRow, WorkIsGranted, IssueMatchesStage,
        RequestsAreTimed, ExpiryFollowsOwner, NoRow, Tracked

LEMMA SpecInv == Spec => []Inv
<1>1. Next => StoreStep
  BY DEF Next, StoreStep
<1>2. Inv /\ [Next]_storeVars => Inv'
  BY <1>1, StoreStepKeepsInv
<1> QED BY <1>2, InitInv, PTL DEF Spec

----------------------------------------------------------------------------
\* The columns hold what they may hold after any commands (proposal.go, the schema).
THEOREM TypeCorrect == Spec => []TypeOK
<1>1. Inv => TypeOK
  BY DEF Inv
<1> QED BY <1>1, SpecInv, PTL

\* The authorization boundary: nothing past approval without the owner's answer in the same cycle,
\* whatever is recorded, declined, failed, retried and expired in between.
THEOREM AuthorizationBoundary == Spec => []WorkIsGranted
<1>1. Inv => WorkIsGranted
  BY DEF Inv
<1> QED BY <1>1, SpecInv, PTL

\* A row carries an issue exactly while its cycle is past filing, which Retry relies on.
THEOREM IssueGoesWithStage == Spec => []IssueMatchesStage
<1>1. Inv => IssueMatchesStage
  BY DEF Inv
<1> QED BY <1>1, SpecInv, PTL

\* Silence for ExpireAfter, and nothing less, retires a proposal (Store.Expire).
THEOREM ExpiryNeedsSilence == Spec => []ExpiryFollowsOwner
<1>1. Inv => ExpiryFollowsOwner
  BY DEF Inv
<1> QED BY <1>1, SpecInv, PTL

\* Once recorded, a number is never repointed; reopening a closed cycle clears it (SetIssue, Record).
THEOREM IssueIsPermanent == Spec => IssueSticks
<1> DEFINE Sticks == \A id \in Ids :
       rows[id].issue # 0 /\ rows'[id].issue # rows[id].issue
         => /\ Terminal(rows[id].status)
            /\ rows'[id].status = "pending" /\ rows'[id].issue = 0
<1>1. ASSUME Inv, [Next]_storeVars
      PROVE  [Sticks]_rows
  <2>0. TypeOK /\ IssueMatchesStage
    BY <1>1 DEF Inv
  <2>1. CASE rows' = rows
    BY <2>1
  <2>2. CASE Expire
    <3>1. ASSUME NEW id \in Ids PROVE rows'[id].issue = rows[id].issue
      <4>1. rows[id] \in Row
        BY <2>0, RowAt
      <4>2. rows'[id] \in {rows[id], [rows[id] EXCEPT !.status = "expired"]}
        BY <2>0, <2>2, ExpireEffect
      <4> QED BY <4>1, <4>2 DEF Row
    <3> QED BY <3>1
  <2>3. ASSUME NEW id \in Ids, Command(id)
        PROVE  Sticks
    <3>1. PICK row, detail : Write(id, row, row.status, detail) /\ Rules(id, row, detail)
      BY <2>0, <2>3, CommandWrites
    <3>2. rows'[id] = row /\ \A o \in Ids : o # id => rows'[o] = rows[o]
      BY <2>0, <3>1, WriteEffect
    <3> QED BY <3>1, <3>2 DEF Rules
  <2> QED BY <1>1, <2>1, <2>2, <2>3 DEF Next, Tick, storeVars
<1>2. Inv /\ [Next]_storeVars => [Sticks]_rows
  BY <1>1
<1> QED BY <1>2, SpecInv, PTL DEF Spec, IssueSticks

(***************************************************************************)
(* The broker.                                                             *)
(***************************************************************************)
Filing == {"search", "create", "issue", "file_failed"}
Launching == {"launch", "implementing", "launch_failed"}

\* What stays true of a listed row however old the listing is.
Locals ==
  /\ \A row \in todo : rows[row.id].status # "absent"
  /\ pc \in Filing => \A row \in todo : EverApproved(row.id)
  /\ pc = "issue" => /\ number \in Issues
                     /\ \A row \in todo : Visiting(row) => github[number] = row.id
  /\ pc \in Launching => \A row \in todo : row.issue \in Issues /\ github[row.issue] = row.id

BrokerInv ==
  /\ Inv
  /\ BrokerTypeOK
  /\ Locals
  /\ RowTracksOwnIssue
  /\ WorkNeedsGrant

----------------------------------------------------------------------------
\* Every broker step moves the store by one command, or not at all.

LEMMA IdsAreNotZero == 0 \notin Ids /\ 0 \notin Issues
BY ProposalsAssumption

\* The pass records that the row it visits was asked about.
Asking(id) ==
  /\ pc = "notified" /\ pc' = "ask" /\ asked' = asked
  /\ \E row \in todo : Visiting(row) /\ row.id = id /\ todo' = todo \ {row}

\* What a step of the broker, or of the others beside it, may do to the store.
StoreEffect ==
  \/ UNCHANGED storeVars
  \/ Tick
  \/ Expire
  \/ \E id \in Ids : Quiet(id)
  \/ \E id \in Ids : Notify(id) /\ Asking(id)
  \/ \E id \in Ids, n \in Issues : SetIssue(id, n) /\ pc = "issue" /\ n = number
                                   /\ \E row \in todo : Visiting(row) /\ row.id = id
  \/ \E id \in Ids, n \in Issues : SetAgent(id, n)

LEMMA BrokerStepsStore ==
  ASSUME BrokerInv, BrokerNext
  PROVE  StoreEffect
<1> USE DEF StoreEffect
<1>0. /\ todo \subseteq [id : Ids, issue : Issues \cup {0}]
      /\ pc = "issue" => number \in Issues
      /\ pc \in Launching => \A row \in todo : row.issue \in Issues
  BY DEF BrokerInv, BrokerTypeOK, Locals
<1>1. CASE RecordNotice
  <2>1. PICK row \in todo : /\ Visiting(row) /\ todo' = todo \ {row}
                            /\ RunsTransition(row.id, "notified", "asked")
    BY <1>1 DEF RecordNotice, Visited
  <2>2. row.id \in Ids
    BY <1>0
  <2>3. Notify(row.id) \/ UNCHANGED storeVars
    BY <2>1 DEF RunsTransition, Runs, Notify
  <2>4. Asking(row.id)
    BY <1>1, <2>1 DEF Asking, RecordNotice, world
  <2> QED BY <2>2, <2>3, <2>4
<1>2. CASE FailWithoutGh
  <2>1. PICK row \in todo : RunsTransition(row.id, "failed", "failed")
    BY <1>2 DEF FailWithoutGh
  <2>2. row.id \in Ids
    BY <1>0
  <2>3. Fail(row.id) \/ UNCHANGED storeVars
    BY <2>1 DEF RunsTransition, Runs, Fail
  <2> QED BY <2>2, <2>3 DEF Quiet
<1>3. CASE RecordFileFailure
  <2>1. PICK row \in todo : RunsTransition(row.id, "failed", "failed")
    BY <1>3 DEF RecordFileFailure
  <2>2. row.id \in Ids
    BY <1>0
  <2>3. Fail(row.id) \/ UNCHANGED storeVars
    BY <2>1 DEF RunsTransition, Runs, Fail
  <2> QED BY <2>2, <2>3 DEF Quiet
<1>4. CASE RecordLaunchFailure
  <2>1. PICK row \in todo : RunsTransition(row.id, "failed", "failed")
    BY <1>4 DEF RecordLaunchFailure
  <2>2. row.id \in Ids
    BY <1>0
  <2>3. Fail(row.id) \/ UNCHANGED storeVars
    BY <2>1 DEF RunsTransition, Runs, Fail
  <2> QED BY <2>2, <2>3 DEF Quiet
<1>5. CASE RecordIssue
  <2>1. PICK row \in todo :
          Visiting(row) /\ Runs(TakesIssue(row.id, number), SetIssue(row.id, number))
    BY <1>5 DEF RecordIssue
  <2>2. pc = "issue" /\ row.id \in Ids /\ number \in Issues
    BY <1>0, <1>5 DEF RecordIssue
  <2> QED BY <2>1, <2>2 DEF Runs
<1>6. CASE RecordSeat
  <2>1. PICK row \in todo : Runs(TakesAgent(row.id, row.issue), SetAgent(row.id, row.issue))
    BY <1>6 DEF RecordSeat
  <2>2. row.id \in Ids /\ row.issue \in Issues
    BY <1>0, <1>6 DEF RecordSeat, Launching
  <2> QED BY <2>1, <2>2 DEF Runs
<1>7. CASE RetireStale
  BY <1>7 DEF RetireStale, Runs
<1>8. CASE Others
  BY <1>8 DEF Others, Quiet
<1>9. CASE Clock
  BY <1>9 DEF Clock
<1>10. CASE StartPass \/ AskOwner \/ ListApproved \/ SearchIssue \/ CreateIssue \/ ListFiled
            \/ LaunchSeat \/ Crash \/ SeatEnds
  BY <1>10 DEF StartPass, AskOwner, ListApproved, SearchIssue, CreateIssue, ListFiled, LaunchSeat,
     Crash, SeatEnds
<1> QED BY <1>1, <1>2, <1>3, <1>4, <1>5, <1>6, <1>7, <1>8, <1>9, <1>10 DEF BrokerNext, PassStep

\* What holds of the store across any such step.
StoreKept ==
  /\ \A id \in Ids : rows[id].status # "absent" =>
       rows'[id].status # "absent" /\ rows'[id].created = rows[id].created
  /\ \A id \in Ids : EverApproved(id) => EverApproved(id)'
  /\ \A id \in Ids : \/ rows'[id].issue \in {0, rows[id].issue}
                     \/ /\ pc = "issue" /\ rows'[id].issue = number
                        /\ \E row \in todo : Visiting(row) /\ row.id = id

LEMMA StoreEffectKeeps ==
  ASSUME Inv, StoreEffect
  PROVE  Inv' /\ StoreKept
<1>0. TypeOK /\ IssueMatchesStage
  BY DEF Inv
<1>1. Inv'
  BY StoreStepKeepsInv DEF StoreEffect, StoreStep, Command, Quiet
\* A write to one row that obeys the rules, and takes over no number.
<1>2. ASSUME NEW id \in Ids, NEW row, NEW detail, Write(id, row, row.status, detail), Rules(id, row, detail)
      PROVE  /\ \A o \in Ids : rows[o].status # "absent" =>
                  rows'[o].status # "absent" /\ rows'[o].created = rows[o].created
             /\ \A o \in Ids : EverApproved(o) => EverApproved(o)'
             /\ rows'[id].issue = row.issue
             /\ \A o \in Ids : o # id => rows'[o].issue = rows[o].issue
  <2>1. /\ \A o \in Ids : o # id => rows'[o] = rows[o] /\ trail'[o] = trail[o]
        /\ rows'[id] = row
        /\ Len(trail'[id]) = Len(trail[id]) + 1
        /\ \A k \in DOMAIN trail[id] : trail'[id][k] = trail[id][k]
        /\ TypeOK'
    BY <1>0, <1>2, WriteEffect
  <2>2. DOMAIN trail[id] \subseteq DOMAIN (trail'[id])
    <3>1. trail[id] \in Seq(Event) /\ trail'[id] \in Seq(Event)
      BY <1>0, <2>1 DEF TypeOK
    <3> QED BY <2>1, <3>1
  <2>3. \A o \in Ids : EverApproved(o) => EverApproved(o)'
    BY <2>1, <2>2 DEF EverApproved
  <2> QED BY <1>2, <2>1, <2>3 DEF Rules
<1>3. CASE UNCHANGED storeVars \/ Tick
  BY <1>1, <1>3 DEF storeVars, Tick, StoreKept, EverApproved
<1>4. CASE Expire
  <2>1. /\ \A o \in Ids : ~Stale(o) => rows'[o] = rows[o] /\ trail'[o] = trail[o]
        /\ \A o \in Ids : Stale(o) =>
             /\ rows'[o] = [rows[o] EXCEPT !.status = "expired"]
             /\ Len(trail'[o]) = Len(trail[o]) + 1
             /\ \A k \in 1..Len(trail[o]) : trail'[o][k] = trail[o][k]
        /\ TypeOK'
    BY <1>0, <1>4, ExpireEffect
  <2>2. ASSUME NEW o \in Ids
        PROVE  /\ rows[o].status # "absent" =>
                    rows'[o].status # "absent" /\ rows'[o].created = rows[o].created
               /\ rows'[o].issue = rows[o].issue
    BY <1>0, <2>1, RowAt DEF Row
  <2>3. ASSUME NEW o \in Ids, EverApproved(o)
        PROVE  EverApproved(o)'
    <3>1. trail[o] \in Seq(Event) /\ trail'[o] \in Seq(Event)
      BY <1>0, <2>1 DEF TypeOK
    <3>2. PICK k \in DOMAIN trail[o] : trail[o][k].status = "approved"
      BY <2>3 DEF EverApproved
    <3>3. k \in DOMAIN (trail'[o]) /\ trail'[o][k] = trail[o][k]
      <4>1. DOMAIN trail[o] = 1..Len(trail[o]) /\ DOMAIN (trail'[o]) = 1..Len(trail'[o])
            /\ Len(trail[o]) \in Nat
        BY <3>1
      <4>2. CASE Stale(o)
        <5>1. Len(trail'[o]) = Len(trail[o]) + 1 /\ trail'[o][k] = trail[o][k]
          BY <2>1, <3>2, <4>1, <4>2
        <5> QED BY <3>2, <4>1, <5>1
      <4>3. CASE ~Stale(o)
        BY <2>1, <3>2, <4>3
      <4> QED BY <4>2, <4>3
    <3> QED BY <3>2, <3>3 DEF EverApproved
  <2> QED BY <1>1, <2>2, <2>3 DEF StoreKept
<1>5. ASSUME NEW id \in Ids, Quiet(id) \/ Notify(id)
      PROVE  StoreKept
  BY <1>0, <1>2, <1>5, QuietWrites, NotifyWrites DEF StoreKept
<1>6. ASSUME NEW id \in Ids, NEW n \in Issues, SetIssue(id, n), pc = "issue", n = number,
             \E row \in todo : Visiting(row) /\ row.id = id
      PROVE  StoreKept
  BY <1>0, <1>2, <1>6, SetIssueWrites DEF StoreKept
<1>7. ASSUME NEW id \in Ids, NEW n \in Issues, SetAgent(id, n)
      PROVE  StoreKept
  BY <1>0, <1>2, <1>7, SetAgentWrites DEF StoreKept
<1> QED BY <1>1, <1>3, <1>4, <1>5, <1>6, <1>7 DEF StoreEffect

----------------------------------------------------------------------------
\* The loops visit one row at a time, and a row does not change its place.

LEMMA TodoRows ==
  ASSUME BrokerInv, NEW row \in todo
  PROVE  /\ row.id \in Ids /\ row.issue \in Issues \cup {0}
         /\ row = [id |-> row.id, issue |-> row.issue]
         /\ row.id \in Nat /\ row.id # 0
         /\ rows[row.id].created \in Nat
<1>1. todo \subseteq [id : Ids, issue : Issues \cup {0}]
  BY DEF BrokerInv, BrokerTypeOK
<1>2. row.id \in Ids /\ row.issue \in Issues \cup {0} /\ row = [id |-> row.id, issue |-> row.issue]
  BY <1>1
<1>3. rows[row.id] \in Row
  BY <1>2, RowAt DEF BrokerInv, Inv
<1> QED BY <1>2, <1>3, ProposalsAssumption DEF Row

LEMMA VisitingUnique ==
  ASSUME BrokerInv, NEW r \in todo, NEW q \in todo, Visiting(r), Visiting(q)
  PROVE  r = q
<1> SUFFICES ASSUME r # q PROVE FALSE
  OBVIOUS
<1>1. Before(r.id, q.id) /\ Before(q.id, r.id)
  BY DEF Visiting
<1> QED BY <1>1, TodoRows DEF Before

LEMMA VisitingStable ==
  ASSUME BrokerInv, StoreKept, todo' = todo, NEW r \in todo, Visiting(r)'
  PROVE  Visiting(r)
<1>1. \A q \in todo : rows'[q.id].created = rows[q.id].created
  BY TodoRows DEF BrokerInv, Locals, StoreKept
<1> QED BY <1>1 DEF Visiting, Before

----------------------------------------------------------------------------
\* Once filed, an issue belongs to its proposal.
FiledKept == \A n \in Issues : github[n] # 0 => github'[n] = github[n]

LEMMA StepKeepsFiled ==
  ASSUME BrokerInv, BrokerNext
  PROVE  FiledKept
<1>1. CASE CreateIssue
  <2>1. PICK row \in todo, n \in Filed(0) :
          github' \in {github, [github EXCEPT ![n] = row.id]}
    BY <1>1 DEF CreateIssue
  <2>2. github[n] = 0 /\ n \in Issues
    BY <2>1 DEF Filed
  <2>3. \A m \in Issues : m # n => github'[m] = github[m]
    BY <2>1 DEF BrokerInv, BrokerTypeOK
  <2> QED BY <2>2, <2>3 DEF FiledKept
<1>2. CASE ~CreateIssue
  <2>1. github' = github
    BY <1>2 DEF BrokerNext, PassStep, StartPass, AskOwner, RecordNotice, ListApproved,
       FailWithoutGh, SearchIssue, RecordIssue, RecordFileFailure, ListFiled, LaunchSeat,
       RecordSeat, RecordLaunchFailure, RetireStale, Crash, Others, SeatEnds, Clock, world
  <2> QED BY <2>1 DEF FiledKept
<1> QED BY <1>1, <1>2

\* The steps that visit, skip or forget rows of the list at hand.
LEMMA LocalsShrink ==
  ASSUME BrokerInv, StoreKept, FiledKept, todo' \subseteq todo, pc' # "issue",
         pc' \in Filing => pc \in Filing \/ todo' = {},
         pc' \in Launching => pc \in Launching \/ todo' = {}
  PROVE  Locals'
<1>1. \A row \in todo' : rows'[row.id].status # "absent"
  BY TodoRows DEF BrokerInv, Locals, StoreKept
<1>2. ASSUME pc' \in Filing, NEW row \in todo'
      PROVE  EverApproved(row.id)'
  BY <1>2, TodoRows DEF BrokerInv, Locals, StoreKept
<1>3. ASSUME pc' \in Launching, NEW row \in todo'
      PROVE  row.issue \in Issues /\ github'[row.issue] = row.id
  <2>1. row.issue \in Issues /\ github[row.issue] = row.id /\ row.id # 0
    BY <1>3, TodoRows DEF BrokerInv, Locals
  <2> QED BY <2>1 DEF FiledKept
<1> QED BY <1>1, <1>2, <1>3 DEF Locals

\* The steps of the others, which leave the loop alone.
LEMMA LocalsSame ==
  ASSUME BrokerInv, StoreKept, FiledKept, todo' = todo, pc' = pc, number' = number
  PROVE  Locals'
<1>1. \A row \in todo' : rows'[row.id].status # "absent"
  BY TodoRows DEF BrokerInv, Locals, StoreKept
<1>2. ASSUME pc' \in Filing, NEW row \in todo'
      PROVE  EverApproved(row.id)'
  BY <1>2, TodoRows DEF BrokerInv, Locals, StoreKept
<1>3. ASSUME pc' \in Launching, NEW row \in todo'
      PROVE  row.issue \in Issues /\ github'[row.issue] = row.id
  <2>1. row.issue \in Issues /\ github[row.issue] = row.id /\ row.id # 0
    BY <1>3, TodoRows DEF BrokerInv, Locals
  <2> QED BY <2>1 DEF FiledKept
<1>4. ASSUME pc' = "issue"
      PROVE  number' \in Issues
  BY <1>4 DEF BrokerInv, Locals
<1>5. ASSUME pc' = "issue", NEW row \in todo', Visiting(row)'
      PROVE  github'[number'] = row.id
  <2>1. Visiting(row)
    BY <1>5, VisitingStable
  <2>2. number \in Issues /\ github[number] = row.id /\ row.id # 0
    BY <1>5, <2>1, TodoRows DEF BrokerInv, Locals
  <2> QED BY <2>2 DEF FiledKept
<1> QED BY <1>1, <1>2, <1>3, <1>4, <1>5 DEF Locals

\* The steps that read a new listing.
LEMMA LocalsListed ==
  ASSUME BrokerInv, UNCHANGED <<storeVars, github>>, StartPass \/ ListApproved \/ ListFiled
  PROVE  Locals'
<1>0. \A id \in Ids : rows[id] \in Row
  BY RowAt DEF BrokerInv, Inv
<1>1. CASE StartPass
  <2>1. \A row \in Due : row.id \in Ids /\ rows[row.id].status \in Open
    <3>1. \A id \in DueForNotice : id \in Ids /\ rows[id].status \in Open
      <4> HIDE DEF NoticesCounted, Before
      <4> QED BY Zenon DEF DueForNotice, Open
    <3> QED BY <3>1 DEF Due
  <2>2. \A row \in todo' : rows[row.id].status # "absent"
    BY <1>1, <2>1 DEF StartPass, Open
  <2>3. pc' = "ask"
    BY <1>1 DEF StartPass
  <2> QED BY <2>2, <2>3 DEF Locals, Filing, Launching, storeVars
<1>2. CASE ListApproved
  <2>1. \A row \in todo' : row.id \in Ids /\ rows[row.id].status = "approved"
    BY <1>2 DEF ListApproved, Snapshot
  <2>2. \A row \in todo' : EverApproved(row.id)
    <3>1. ASSUME NEW id \in Ids, rows[id].status = "approved"
          PROVE  EverApproved(id)
      <4>1. trail[id] # <<>> /\ trail[id][Len(trail[id])].status = "approved"
        BY <3>1 DEF BrokerInv, Inv, TrailExplainsRow
      <4>2. trail[id] \in Seq(Event)
        BY RowAt DEF BrokerInv, Inv
      <4>3. Len(trail[id]) \in DOMAIN trail[id]
        BY <4>1, <4>2
      <4> QED BY <4>1, <4>3 DEF EverApproved
    <3> QED BY <2>1, <3>1
  <2>3. pc' \in {"search", "no_gh"}
    BY <1>2 DEF ListApproved
  <2> QED BY <2>1, <2>2, <2>3 DEF Locals, Launching, EverApproved, storeVars
<1>3. CASE ListFiled
  <2>1. \A row \in todo' :
          row.id \in Ids /\ rows[row.id].status = "issue_created" /\ row.issue = rows[row.id].issue
    BY <1>3 DEF ListFiled, Snapshot
  <2>2. \A row \in todo' : row.issue # 0 /\ row.issue \in Issues \cup {0}
    BY <1>0, <2>1 DEF BrokerInv, Inv, IssueMatchesStage, Tracked, Row
  <2>3. \A row \in todo' : github[row.issue] = row.id
    BY <2>1, <2>2 DEF BrokerInv, RowTracksOwnIssue
  <2>4. pc' = "launch"
    BY <1>3 DEF ListFiled
  <2> QED BY <2>1, <2>2, <2>3, <2>4 DEF Locals, Filing, storeVars
<1> QED BY <1>1, <1>2, <1>3

\* The steps that hold the number of the row being visited.
LEMMA LocalsNumber ==
  ASSUME BrokerInv, FiledKept, UNCHANGED <<storeVars, todo>>, pc' = "issue", pc \in Filing,
         number' \in Issues, NEW row \in todo, Visiting(row), github'[number'] = row.id
  PROVE  Locals'
<1>1. \A q \in todo : Visiting(q)' => q = row
  BY VisitingUnique DEF Visiting, Before, storeVars
<1>2. \A q \in todo : rows[q.id].status # "absent" /\ EverApproved(q.id)
  BY DEF BrokerInv, Locals
<1> QED BY <1>1, <1>2 DEF Locals, Launching, EverApproved, storeVars

LEMMA StepKeepsLocals ==
  ASSUME BrokerInv, BrokerNext
  PROVE  Locals'
<1>0. StoreKept /\ FiledKept
  BY BrokerStepsStore, StoreEffectKeeps, StepKeepsFiled DEF BrokerInv
<1> USE <1>0
<1>1. CASE StartPass
  BY <1>1, LocalsListed DEF StartPass, world
<1>2. CASE AskOwner
  BY <1>2, LocalsShrink DEF AskOwner, Visited, Filing, Launching
<1>3. CASE RecordNotice
  BY <1>3, LocalsShrink DEF RecordNotice, Visited, Filing, Launching
<1>4. CASE ListApproved
  BY <1>4, LocalsListed DEF ListApproved, world
<1>5. CASE FailWithoutGh
  BY <1>5, LocalsShrink DEF FailWithoutGh, Visited, Filing, Launching
<1>6. CASE SearchIssue
  <2>1. PICK row \in todo :
          /\ Visiting(row)
          /\ \/ \E n \in Filed(row.id) : number' = n /\ pc' = "issue"
             \/ pc' = "create"
    BY <1>6 DEF SearchIssue
  <2>2. UNCHANGED <<storeVars, todo, github>> /\ pc \in Filing
    BY <1>6 DEF SearchIssue, world, Filing
  <2>3. CASE pc' = "issue"
    <3>1. number' \in Issues /\ github[number'] = row.id
      BY <2>1, <2>3 DEF Filed
    <3> QED BY <2>1, <2>2, <2>3, <3>1, LocalsNumber
  <2>4. CASE pc' = "create"
    BY <2>2, <2>4, LocalsShrink DEF Launching
  <2> QED BY <2>1, <2>3, <2>4
<1>7. CASE CreateIssue
  <2>1. PICK row \in todo, n \in Filed(0) :
          /\ Visiting(row)
          /\ \/ /\ github' = [github EXCEPT ![n] = row.id]
                /\ number' = n /\ pc' = "issue"
             \/ pc' = "file_failed"
    BY <1>7 DEF CreateIssue
  <2>2. UNCHANGED <<storeVars, todo>> /\ pc \in Filing
    BY <1>7 DEF CreateIssue, Filing
  <2>3. CASE pc' = "issue"
    <3>1. n \in Issues /\ number' = n
          /\ github' = [github EXCEPT ![n] = row.id]
      BY <2>1, <2>3 DEF Filed
    <3>2. github'[number'] = row.id
      BY <3>1 DEF BrokerInv, BrokerTypeOK
    <3> QED BY <2>1, <2>2, <2>3, <3>1, <3>2, LocalsNumber
  <2>4. CASE pc' = "file_failed"
    BY <2>2, <2>4, LocalsShrink DEF Launching
  <2> QED BY <2>1, <2>3, <2>4
<1>8. CASE RecordIssue
  BY <1>8, LocalsShrink DEF RecordIssue, Visited, Filing, Launching
<1>9. CASE RecordFileFailure
  BY <1>9, LocalsShrink DEF RecordFileFailure, Visited, Filing, Launching
<1>10. CASE ListFiled
  BY <1>10, LocalsListed DEF ListFiled, world
<1>11. CASE LaunchSeat
  BY <1>11, LocalsShrink DEF LaunchSeat, Filing, Launching
<1>12. CASE RecordSeat
  BY <1>12, LocalsShrink DEF RecordSeat, Visited, Filing, Launching
<1>13. CASE RecordLaunchFailure
  BY <1>13, LocalsShrink DEF RecordLaunchFailure, Visited, Filing, Launching
<1>14. CASE RetireStale
  BY <1>14, LocalsShrink DEF RetireStale, Filing, Launching
<1>15. CASE Crash
  BY <1>15, LocalsShrink DEF Crash, Filing, Launching
<1>16. CASE Others \/ SeatEnds \/ Clock
  BY <1>16, LocalsSame DEF Others, SeatEnds, Clock, brokerVars
<1> QED BY <1>1, <1>2, <1>3, <1>4, <1>5, <1>6, <1>7, <1>8, <1>9, <1>10, <1>11, <1>12, <1>13,
        <1>14, <1>15, <1>16 DEF BrokerNext, PassStep

----------------------------------------------------------------------------
\* An issue is filed, and a seat started, only with an approval in the history.
LEMMA StepKeepsWork ==
  ASSUME BrokerInv, BrokerNext
  PROVE  RowTracksOwnIssue' /\ WorkNeedsGrant'
<1>0. StoreKept /\ FiledKept
  BY BrokerStepsStore, StoreEffectKeeps, StepKeepsFiled DEF BrokerInv
<1>1. ASSUME NEW id \in Ids, rows'[id].issue # 0
      PROVE  github'[rows'[id].issue] = id
  <2>0. rows[id].issue \in Issues \cup {0} /\ id # 0
    BY RowAt, IdsAreNotZero DEF BrokerInv, Inv, Row
  <2>1. CASE rows'[id].issue = rows[id].issue
    BY <1>0, <1>1, <2>0, <2>1 DEF BrokerInv, RowTracksOwnIssue, FiledKept
  <2>2. CASE /\ pc = "issue" /\ rows'[id].issue = number
             /\ \E row \in todo : Visiting(row) /\ row.id = id
    <3>1. number \in Issues /\ github[number] = id
      BY <2>2 DEF BrokerInv, Locals
    <3> QED BY <1>0, <2>0, <2>2, <3>1 DEF FiledKept
  <2> QED BY <1>0, <1>1, <2>1, <2>2 DEF StoreKept
<1>2. ASSUME NEW n \in Issues, github'[n] # 0
      PROVE  EverApproved(github[n])'
  <2>1. CASE github[n] # 0
    <3>1. github'[n] = github[n] /\ github[n] \in Ids
      BY <1>0, <2>1 DEF FiledKept, BrokerInv, BrokerTypeOK
    <3>2. EverApproved(github[n])'
      <4>1. PICK id \in Ids : id = github[n]
        BY <3>1
      <4>2. EverApproved(id)'
        BY <1>0, <2>1, <4>1 DEF BrokerInv, WorkNeedsGrant, StoreKept
      <4> QED BY <3>1, <4>1, <4>2 DEF EverApproved
    <3> QED BY <3>2
  <2>2. CASE github[n] = 0
    <3>1. CreateIssue
      BY <1>2, <2>2 DEF BrokerNext, PassStep, StartPass, AskOwner, RecordNotice, ListApproved,
         FailWithoutGh, SearchIssue, RecordIssue, RecordFileFailure, ListFiled, LaunchSeat,
         RecordSeat, RecordLaunchFailure, RetireStale, Crash, Others, SeatEnds, Clock, world
    <3>2. PICK row \in todo, m \in Filed(0) :
            github' \in {github, [github EXCEPT ![m] = row.id]}
      BY <3>1 DEF CreateIssue
    <3>3. github'[n] = row.id
      BY <1>2, <2>2, <3>2 DEF BrokerInv, BrokerTypeOK
    <3>4. EverApproved(row.id) /\ row.id \in Ids
      BY <3>1, TodoRows DEF CreateIssue, BrokerInv, Locals, Filing
    <3>5. EverApproved(row.id)'
      BY <1>0, <3>4 DEF StoreKept
    <3> QED BY <3>3, <3>5 DEF EverApproved
  <2> QED BY <2>1, <2>2
<1>3. ASSUME NEW n \in Issues, seats'[n] > 0
      PROVE  github'[n] # 0
  <2>1. CASE seats[n] > 0
    BY <1>0, <2>1 DEF BrokerInv, WorkNeedsGrant, FiledKept, BrokerTypeOK
  <2>2. CASE ~(seats[n] > 0)
    <3>1. LaunchSeat
      <4>1. CASE SeatEnds
        BY <1>3, <2>2, <4>1 DEF SeatEnds, BrokerInv, BrokerTypeOK
      <4> QED BY <1>3, <2>2, <4>1 DEF BrokerNext, PassStep, StartPass, AskOwner, RecordNotice,
          ListApproved, FailWithoutGh, SearchIssue, CreateIssue, RecordIssue, RecordFileFailure,
          ListFiled, RecordSeat, RecordLaunchFailure, RetireStale, Crash, Others, Clock, world
    <3>2. PICK row \in todo : seats' \in {seats, [seats EXCEPT ![row.issue] = @ + 1]}
      BY <3>1 DEF LaunchSeat
    <3>3. n = row.issue
      BY <1>3, <2>2, <3>2 DEF BrokerInv, BrokerTypeOK
    <3>4. github[row.issue] = row.id /\ row.id # 0
      BY <3>1, TodoRows DEF LaunchSeat, BrokerInv, Locals, Launching
    <3> QED BY <1>0, <3>3, <3>4 DEF FiledKept
  <2> QED BY <2>1, <2>2
<1> QED BY <1>1, <1>2, <1>3 DEF RowTracksOwnIssue, WorkNeedsGrant

----------------------------------------------------------------------------
LEMMA StepKeepsTypes ==
  ASSUME BrokerInv, BrokerNext
  PROVE  BrokerTypeOK'
<1>0. /\ BrokerTypeOK /\ TypeOK'
      /\ \A row \in todo : row.id \in Ids /\ row.issue \in Issues \cup {0}
  BY BrokerStepsStore, StoreEffectKeeps, TodoRows DEF BrokerInv, Inv
<1>1. ASSUME NEW status
      PROVE  Snapshot(status) \subseteq [id : Ids, issue : Issues \cup {0}]
  <2>1. \A id \in Ids : rows[id].issue \in Issues \cup {0}
    BY RowAt DEF BrokerInv, Inv, Row
  <2> QED BY <2>1 DEF Snapshot
<1>2. Due \subseteq [id : Ids, issue : Issues \cup {0}]
  <2>1. \A id \in Ids : rows[id].issue \in Issues \cup {0}
    BY RowAt DEF BrokerInv, Inv, Row
  <2>2. DueForNotice \subseteq Ids
    BY Zenon DEF DueForNotice
  <2> QED BY <2>1, <2>2 DEF Due
<1>4. faults' \in 0..MaxFaults
  <2>1. faults' = faults \/ (faults < MaxFaults /\ faults' = faults + 1)
    BY DEF BrokerNext, PassStep, StartPass, AskOwner, RecordNotice, ListApproved, FailWithoutGh,
       SearchIssue, CreateIssue, RecordIssue, RecordFileFailure, ListFiled, LaunchSeat, RecordSeat,
       RecordLaunchFailure, RetireStale, Crash, Others, SeatEnds, Clock, RunsTransition, Runs, Fault,
       NoFault
  <2> QED BY <1>0, <2>1, BrokerAssumption DEF BrokerTypeOK
<1>5. asked' \in [Ids -> Nat]
  <2>1. CASE AskOwner
    BY <1>0, <2>1 DEF AskOwner, BrokerTypeOK
  <2> QED BY <1>0, <2>1 DEF BrokerNext, PassStep, StartPass, RecordNotice, ListApproved,
          FailWithoutGh, SearchIssue, CreateIssue, RecordIssue, RecordFileFailure, ListFiled,
          LaunchSeat, RecordSeat, RecordLaunchFailure, RetireStale, Crash, Others, SeatEnds, Clock,
          world, BrokerTypeOK
<1>6. github' \in [Issues -> Ids \cup {0}]
  <2>1. CASE CreateIssue
    <3>1. PICK row \in todo, n \in Filed(0) :
            github' \in {github, [github EXCEPT ![n] = row.id]}
      BY <2>1 DEF CreateIssue
    <3> QED BY <1>0, <3>1 DEF BrokerTypeOK
  <2> QED BY <1>0, <2>1 DEF BrokerNext, PassStep, StartPass, AskOwner, RecordNotice, ListApproved,
          FailWithoutGh, SearchIssue, RecordIssue, RecordFileFailure, ListFiled,
          LaunchSeat, RecordSeat, RecordLaunchFailure, RetireStale, Crash, Others, SeatEnds, Clock,
          world, BrokerTypeOK
<1>12. blind' \in [Ids -> Nat]
  <2>1. CASE SearchIssue
    BY <1>0, <2>1 DEF SearchIssue, Misses, BrokerTypeOK
  <2> QED BY <1>0, <2>1 DEF BrokerNext, PassStep, StartPass, AskOwner, RecordNotice, ListApproved,
          FailWithoutGh, CreateIssue, RecordIssue, RecordFileFailure, ListFiled, LaunchSeat,
          RecordSeat, RecordLaunchFailure, RetireStale, Crash, Others, SeatEnds, Clock,
          world, BrokerTypeOK
<1>7. seats' \in [Issues -> Nat]
  <2>1. CASE LaunchSeat
    BY <1>0, <2>1 DEF LaunchSeat, BrokerTypeOK
  <2>2. CASE SeatEnds
    BY <1>0, <2>2 DEF SeatEnds, BrokerTypeOK
  <2> QED BY <1>0, <2>1, <2>2 DEF BrokerNext, PassStep, StartPass, AskOwner, RecordNotice,
          ListApproved, FailWithoutGh, SearchIssue, CreateIssue, RecordIssue, RecordFileFailure,
          ListFiled, RecordSeat, RecordLaunchFailure, RetireStale, Crash, Others, Clock,
          world, BrokerTypeOK
<1>8. pc' \in Steps
  BY <1>0 DEF BrokerNext, PassStep, StartPass, AskOwner, RecordNotice, ListApproved, FailWithoutGh,
     SearchIssue, CreateIssue, RecordIssue, RecordFileFailure, ListFiled, LaunchSeat, RecordSeat,
     RecordLaunchFailure, RetireStale, Crash, Others, SeatEnds, Clock, brokerVars, Steps,
     BrokerTypeOK
<1>9. todo' \subseteq [id : Ids, issue : Issues \cup {0}]
  <2>1. \/ todo' \subseteq todo \/ todo' \in {Due, {}}
        \/ todo' \in {Snapshot("approved"), Snapshot("issue_created")}
    BY DEF BrokerNext, PassStep, StartPass, AskOwner, RecordNotice, ListApproved, FailWithoutGh,
       SearchIssue, CreateIssue, RecordIssue, RecordFileFailure, ListFiled, LaunchSeat, RecordSeat,
       RecordLaunchFailure, RetireStale, Crash, Others, SeatEnds, Clock, brokerVars, Visited
  <2>2. todo \subseteq [id : Ids, issue : Issues \cup {0}]
    BY <1>0 DEF BrokerTypeOK
  <2> QED BY <1>1, <1>2, <2>1, <2>2
<1>10. number' \in Issues \cup {0}
  BY <1>0 DEF BrokerNext, PassStep, StartPass, AskOwner, RecordNotice, ListApproved, FailWithoutGh,
     SearchIssue, CreateIssue, RecordIssue, RecordFileFailure, ListFiled, LaunchSeat, RecordSeat,
     RecordLaunchFailure, RetireStale, Crash, Others, SeatEnds, Clock, brokerVars, Visited, Filed,
     BrokerTypeOK
<1>11. listed' \subseteq Issues
  BY <1>0 DEF BrokerNext, PassStep, StartPass, AskOwner, RecordNotice, ListApproved, FailWithoutGh,
     SearchIssue, CreateIssue, RecordIssue, RecordFileFailure, ListFiled, LaunchSeat, RecordSeat,
     RecordLaunchFailure, RetireStale, Crash, Others, SeatEnds, Clock, brokerVars, BrokerTypeOK
<1> QED BY <1>0, <1>4, <1>5, <1>6, <1>7, <1>8, <1>9, <1>10, <1>11, <1>12 DEF BrokerTypeOK

LEMMA BrokerInitInv == BrokerInit => BrokerInv
<1> SUFFICES ASSUME BrokerInit PROVE BrokerInv
  OBVIOUS
<1>1. Inv
  BY InitInv DEF BrokerInit
<1>2. BrokerTypeOK
  BY <1>1, BrokerAssumption DEF BrokerInit, BrokerTypeOK, Inv, Steps
<1>3. RowTracksOwnIssue /\ WorkNeedsGrant
  BY DEF BrokerInit, Init, NoRow, RowTracksOwnIssue, WorkNeedsGrant
<1>4. Locals
  BY DEF BrokerInit, Locals, Filing, Launching
<1> QED BY <1>1, <1>2, <1>3, <1>4 DEF BrokerInv

LEMMA BrokerStutter ==
  ASSUME BrokerInv, UNCHANGED vars
  PROVE  BrokerInv'
<1>1. UNCHANGED <<rows, trail, now, pc, todo, number, listed, faults, asked, blind, github, seats>>
  BY DEF vars, storeVars, brokerVars, world
<1>2. Inv'
  BY <1>1, StoreStepKeepsInv DEF BrokerInv, storeVars
<1> QED BY <1>1, <1>2 DEF BrokerInv, BrokerTypeOK, TypeOK, Locals, RowTracksOwnIssue,
        WorkNeedsGrant, EverApproved, Visiting, Before

LEMMA BrokerSpecInv == BrokerSpec => []BrokerInv
<1>1. ASSUME BrokerInv, BrokerNext
      PROVE  BrokerInv'
  <2>1. Inv'
    BY <1>1, BrokerStepsStore, StoreEffectKeeps DEF BrokerInv
  <2> QED BY <1>1, <2>1, StepKeepsTypes, StepKeepsLocals, StepKeepsWork DEF BrokerInv
<1>2. BrokerInv /\ [BrokerNext]_vars => BrokerInv'
  BY <1>1, BrokerStutter
<1> QED BY <1>2, BrokerInitInv, PTL DEF BrokerSpec

----------------------------------------------------------------------------
\* Types of the pass and of the world around it.
THEOREM BrokerTypeCorrect == BrokerSpec => []BrokerTypeOK
<1>1. BrokerInv => BrokerTypeOK
  BY DEF BrokerInv
<1> QED BY <1>1, BrokerSpecInv, PTL

\* No issue is filed and no seat started without the owner's approval in the history, whatever
\* fails, dies or is decided between two steps of a pass (phases 2 and 3 of the broker).
THEOREM NoWorkWithoutGrant == BrokerSpec => []WorkNeedsGrant
<1>1. BrokerInv => WorkNeedsGrant
  BY DEF BrokerInv
<1> QED BY <1>1, BrokerSpecInv, PTL

\* The issue a row carries was filed for that proposal: the loops never mix rows up.
THEOREM IssuesAreNotMixedUp == BrokerSpec => []RowTracksOwnIssue
<1>1. BrokerInv => RowTracksOwnIssue
  BY DEF BrokerInv
<1> QED BY <1>1, BrokerSpecInv, PTL

----------------------------------------------------------------------------
\* The flow implements OwnerApproval: a command moves one stage, an expiry refuses the silent ones,
\* and an issue is the beginning of the work.

Stage == [id \in Ids |-> StageOf(rows[id].status)]
Granted == {id \in Ids : EverApproved(id)}
Begun == {github[n] : n \in Issues} \ {0}

LEMMA StageWrite ==
  ASSUME Inv, NEW id \in Ids, NEW row, NEW detail, Write(id, row, row.status, detail), Rules(id, row, detail)
  PROVE  /\ Stage' = [Stage EXCEPT ![id] = StageOf(row.status)]
         /\ Granted' = IF row.status = "approved" THEN Granted \cup {id} ELSE Granted
<1>0. TypeOK
  BY DEF Inv
<1>1. /\ \A o \in Ids : o # id => rows'[o] = rows[o] /\ trail'[o] = trail[o]
      /\ rows'[id] = row
      /\ Len(trail'[id]) = Len(trail[id]) + 1
      /\ \A k \in DOMAIN trail[id] : trail'[id][k] = trail[id][k]
      /\ trail'[id][Len(trail[id]) + 1] = [status |-> row.status, detail |-> detail, at |-> now]
      /\ TypeOK'
  BY <1>0, WriteEffect
<1>2. EverApproved(id)' <=> EverApproved(id) \/ row.status = "approved"
  <2>1. trail[id] \in Seq(Event) /\ trail'[id] \in Seq(Event)
    BY <1>0, <1>1 DEF TypeOK
  <2>2. DOMAIN (trail'[id]) = DOMAIN trail[id] \cup {Len(trail[id]) + 1}
    BY <1>1, <2>1
  <2>3. trail'[id][Len(trail[id]) + 1].status = row.status
    BY <1>1
  <2> QED BY <1>1, <2>2, <2>3 DEF EverApproved
<1>3. \A o \in Ids : o # id => (EverApproved(o)' <=> EverApproved(o))
  BY <1>1 DEF EverApproved
<1>4. \A o \in Ids : StageOf(rows'[o].status) = IF o = id THEN StageOf(row.status)
                                                       ELSE StageOf(rows[o].status)
  BY <1>1
<1>5. Stage' = [Stage EXCEPT ![id] = StageOf(row.status)]
  BY <1>4 DEF Stage
<1>6. Granted' = IF row.status = "approved" THEN Granted \cup {id} ELSE Granted
  BY <1>2, <1>3 DEF Granted
<1> QED BY <1>5, <1>6

LEMMA WriteImplements ==
  ASSUME Inv, NEW id \in Ids, NEW row, NEW detail, Write(id, row, row.status, detail), Rules(id, row, detail),
         github' = github
  PROVE  [Owner!Next]_(Owner!vars)
<1> DEFINE from == rows[id].status
           to == row.status
<1>1. /\ Stage' = [Stage EXCEPT ![id] = StageOf(to)]
      /\ Granted' = IF to = "approved" THEN Granted \cup {id} ELSE Granted
  BY StageWrite
<1>2. Stage[id] = StageOf(from)
  BY DEF Stage
<1>3. Begun' = Begun
  BY DEF Begun
<1>4. from = "approved" => id \in Granted
  <2>1. trail[id] \in Seq(Event)
    BY RowAt DEF Inv
  <2>2. ASSUME from = "approved"
        PROVE  EverApproved(id)
    <3>1. trail[id] # <<>> /\ trail[id][Len(trail[id])].status = "approved"
      BY <2>2 DEF Inv, TrailExplainsRow
    <3>2. Len(trail[id]) \in DOMAIN trail[id]
      BY <2>1, <3>1
    <3> QED BY <3>1, <3>2 DEF EverApproved
  <2> QED BY <2>2 DEF Granted
<1>5. /\ StatusMoves(id, from, to)
      /\ from \in Statuses \cup {"absent"}
  BY RowAt DEF Rules, Inv, Row
<1>6. ASSUME StageOf(to) = StageOf(from), to = "approved" => id \in Granted
      PROVE  UNCHANGED Owner!vars
  <2>1. Stage' = Stage
    BY <1>1, <1>2, <1>6 DEF Stage
  <2>2. Granted' = Granted
    BY <1>1, <1>6
  <2> QED BY <1>3, <2>1, <2>2 DEF Owner!vars, Stage, Granted, Begun
<1> HIDE DEF from, to
<1>7. CASE to = from
  BY <1>4, <1>6, <1>7
<1>8. CASE (from = "absent" \/ Terminal(from)) /\ to = "pending"
  <2>1. Owner!Ask(id)
    <3>1. StageOf(from) \in {"none", "refused", "stopped", "done"} /\ StageOf(to) = "open"
      BY <1>8 DEF StageOf, Terminal
    <3>2. Granted' = Granted
      BY <1>1, <1>8
    <3> QED BY <1>1, <1>2, <1>3, <3>1, <3>2 DEF Owner!Ask, Owner!Moves, Stage, Granted, Begun
  <2> QED BY <2>1 DEF Owner!Next
<1>9. CASE from \in Open /\ to = "notified"
  BY <1>6, <1>9 DEF StageOf, Open
<1>10. CASE from \in Open /\ to = "approved"
  <2>1. Owner!Grant(id)
    <3>1. StageOf(from) = "open" /\ StageOf(to) = "granted"
      BY <1>10 DEF StageOf, Open
    <3>2. Granted' = Granted \cup {id}
      BY <1>1, <1>10
    <3> QED BY <1>1, <1>2, <1>3, <3>1, <3>2 DEF Owner!Grant, Owner!Moves, Stage, Granted, Begun
  <2> QED BY <2>1 DEF Owner!Next
<1>11. CASE from \in Open /\ to = "declined"
  <2>1. StageOf(from) = "open" /\ StageOf(to) = "refused"
    BY <1>11 DEF StageOf, Open
  <2>2. Granted' = Granted
    BY <1>1, <1>11
  <2>3. Stage' = [o \in Ids |-> IF o \in {id} THEN "refused" ELSE Stage[o]]
    BY <1>1, <2>1 DEF Stage
  <2>4. \A o \in {id} : Stage[o] = "open"
    BY <1>2, <2>1
  <2>5. {id} \in (SUBSET Ids) \ {{}}
    OBVIOUS
  <2>6. Owner!Refuse
    BY <1>3, <2>2, <2>3, <2>4, <2>5 DEF Owner!Refuse, Stage, Granted, Begun
  <2> QED BY <2>6 DEF Owner!Next
<1>12. CASE from \in Underway /\ to \in {"issue_created", "implementing"}
  BY <1>6, <1>12 DEF StageOf, Underway
<1>13. CASE from \in Underway /\ to = "completed"
  <2>1. Owner!Finish(id)
    <3>1. StageOf(from) = "granted" /\ StageOf(to) = "done"
      BY <1>13 DEF StageOf, Underway
    <3>2. Granted' = Granted
      BY <1>1, <1>13
    <3> QED BY <1>1, <1>2, <1>3, <3>1, <3>2 DEF Owner!Finish, Owner!Moves, Stage, Granted, Begun
  <2> QED BY <2>1 DEF Owner!Next
<1>14. CASE from \in Underway /\ to = "failed"
  <2>1. Owner!Stop(id)
    <3>1. StageOf(from) = "granted" /\ StageOf(to) = "stopped"
      BY <1>14 DEF StageOf, Underway
    <3>2. Granted' = Granted
      BY <1>1, <1>14
    <3> QED BY <1>1, <1>2, <1>3, <3>1, <3>2 DEF Owner!Stop, Owner!Moves, Stage, Granted, Begun
  <2> QED BY <2>1 DEF Owner!Next
<1>15. CASE from = "failed" /\ to \in {"approved", "issue_created"} /\ EverApproved(id)
  <2>1. Owner!Resume(id)
    <3>1. StageOf(from) = "stopped" /\ StageOf(to) = "granted"
      BY <1>15 DEF StageOf
    <3>2. Granted' = Granted
      BY <1>1, <1>15 DEF Granted
    <3> QED BY <1>1, <1>2, <1>3, <3>1, <3>2 DEF Owner!Resume, Owner!Moves, Stage, Granted, Begun
  <2> QED BY <2>1 DEF Owner!Next
<1> QED BY <1>5, <1>7, <1>8, <1>9, <1>10, <1>11, <1>12, <1>13, <1>14, <1>15 DEF StatusMoves

LEMMA ExpireImplements ==
  ASSUME Inv, Expire, github' = github
  PROVE  Owner!Next
<1> DEFINE silent == {id \in Ids : Stale(id)}
<1>0. TypeOK
  BY DEF Inv
<1>1. /\ \A o \in Ids : ~Stale(o) => rows'[o] = rows[o] /\ trail'[o] = trail[o]
      /\ \A o \in Ids : Stale(o) =>
           /\ rows'[o] = [rows[o] EXCEPT !.status = "expired"]
           /\ Len(trail'[o]) = Len(trail[o]) + 1
           /\ \A k \in 1..Len(trail[o]) : trail'[o][k] = trail[o][k]
           /\ trail'[o][Len(trail[o]) + 1] =
                [status |-> "expired", detail |-> "expired", at |-> now]
      /\ TypeOK'
  BY <1>0, ExpireEffect
<1>2. ASSUME NEW o \in Ids, Stale(o)
      PROVE  /\ Stage[o] = "open" /\ StageOf(rows'[o].status) = "refused"
             /\ EverApproved(o)' <=> EverApproved(o)
  <2>1. rows[o].status \in {"pending", "notified"} /\ rows'[o].status = "expired"
    BY <1>0, <1>1, <1>2, RowAt DEF Stale, Row
  <2>2. Stage[o] = "open" /\ StageOf(rows'[o].status) = "refused"
    BY <2>1 DEF Stage, StageOf
  <2>3. trail[o] \in Seq(Event) /\ trail'[o] \in Seq(Event)
    BY <1>0, <1>1 DEF TypeOK
  <2>4. DOMAIN trail[o] = 1..Len(trail[o])
        /\ DOMAIN (trail'[o]) = DOMAIN trail[o] \cup {Len(trail[o]) + 1}
    <3>1. Len(trail'[o]) = Len(trail[o]) + 1
      BY <1>1, <1>2
    <3> QED BY <2>3, <3>1
  <2>5. trail'[o][Len(trail[o]) + 1].status # "approved"
        /\ \A k \in DOMAIN trail[o] : trail'[o][k] = trail[o][k]
    <3>1. trail'[o][Len(trail[o]) + 1].status = "expired"
      <4>1. trail'[o][Len(trail[o]) + 1] = [status |-> "expired", detail |-> "expired", at |-> now]
        BY <1>1, <1>2
      <4> QED BY <4>1
    <3>2. \A k \in DOMAIN trail[o] : trail'[o][k] = trail[o][k]
      BY <1>1, <1>2, <2>4
    <3> QED BY <3>1, <3>2
  <2> QED BY <2>2, <2>4, <2>5 DEF EverApproved
<1>3. ASSUME NEW o \in Ids, ~Stale(o)
      PROVE  /\ StageOf(rows'[o].status) = Stage[o]
             /\ EverApproved(o)' <=> EverApproved(o)
  <2>1. rows'[o] = rows[o] /\ trail'[o] = trail[o]
    BY <1>1, <1>3
  <2> QED BY <2>1 DEF Stage, EverApproved
<1>4. Stage' = [o \in Ids |-> IF o \in silent THEN "refused" ELSE Stage[o]]
  <2>1. \A o \in Ids : StageOf(rows'[o].status) = IF o \in silent THEN "refused" ELSE Stage[o]
    BY <1>2, <1>3
  <2> QED BY <2>1 DEF Stage
<1>5. Granted' = Granted
  BY <1>2, <1>3 DEF Granted
<1>6. silent \in (SUBSET Ids) \ {{}}
  BY DEF Expire
<1>7. \A o \in silent : Stage[o] = "open"
  BY <1>2
<1> HIDE DEF silent
<1>8. Owner!Refuse
  BY <1>4, <1>5, <1>6, <1>7 DEF Owner!Refuse, Stage, Granted, Begun
<1> QED BY <1>8 DEF Owner!Next

LEMMA CreateImplements ==
  ASSUME BrokerInv, CreateIssue
  PROVE  [Owner!Next]_(Owner!vars)
<1>1. PICK row \in todo, n \in Filed(0) :
        github' \in {github, [github EXCEPT ![n] = row.id]}
  BY DEF CreateIssue
<1>2. UNCHANGED storeVars
  BY DEF CreateIssue
<1>3. Stage' = Stage /\ Granted' = Granted
  BY <1>2 DEF Stage, Granted, StageOf, EverApproved, storeVars
<1>4. CASE github' = github
  BY <1>3, <1>4 DEF Owner!vars, Stage, Granted, Begun
<1>5. CASE github' = [github EXCEPT ![n] = row.id]
  <2>1. n \in Issues /\ github[n] = 0 /\ row.id \in Ids /\ row.id # 0 /\ row.id \in Granted
    BY TodoRows DEF Filed, CreateIssue, BrokerInv, Locals, Filing, Granted
  <2>2. \A m \in Issues : github'[m] = IF m = n THEN row.id ELSE github[m]
    BY <1>5, <2>1 DEF BrokerInv, BrokerTypeOK
  <2>3. Begun' = Begun \cup {row.id}
    BY <2>1, <2>2 DEF Begun
  <2>4. Owner!Begin(row.id)
    BY <1>3, <2>1, <2>3 DEF Owner!Begin, Stage, Granted, Begun
  <2> QED BY <2>1, <2>4 DEF Owner!Next
<1> QED BY <1>1, <1>4, <1>5

\* Store, broker, issue tracker and seats together implement what the owner is promised.
THEOREM FlowImplementsOwnerApproval == BrokerSpec => ImplementsOwnerApproval
<1>1. BrokerInit => Owner!Init
  BY DEF BrokerInit, Init, NoRow, Owner!Init, StageOf, EverApproved
<1>2. ASSUME BrokerInv, BrokerNext
      PROVE  [Owner!Next]_(Owner!vars)
  <2>0. StoreEffect /\ Inv /\ TypeOK /\ IssueMatchesStage
    BY <1>2, BrokerStepsStore DEF BrokerInv, Inv
  <2>1. CASE CreateIssue
    BY <1>2, <2>1, CreateImplements
  <2>2. CASE ~CreateIssue
    <3>1. github' = github
      BY <1>2, <2>2 DEF BrokerNext, PassStep, StartPass, AskOwner, RecordNotice, ListApproved,
         FailWithoutGh, SearchIssue, RecordIssue, RecordFileFailure, ListFiled, LaunchSeat,
         RecordSeat, RecordLaunchFailure, RetireStale, Crash, Others, SeatEnds, Clock, world
    <3>2. CASE UNCHANGED storeVars \/ Tick
      <4>1. Stage' = Stage /\ Granted' = Granted /\ Begun' = Begun
        <5>1. rows' = rows /\ trail' = trail
          BY <3>2 DEF storeVars, Tick
        <5> QED BY <3>1, <5>1 DEF Stage, Granted, Begun, EverApproved
      <4> QED BY <4>1 DEF Owner!vars, Stage, Granted, Begun
    <3>3. CASE Expire
      BY <2>0, <3>1, <3>3, ExpireImplements
    <3>4. ASSUME NEW id \in Ids, Command(id)
          PROVE  [Owner!Next]_(Owner!vars)
      <4>1. PICK row, detail : Write(id, row, row.status, detail) /\ Rules(id, row, detail)
        BY <2>0, <3>4, CommandWrites
      <4> QED BY <2>0, <3>1, <4>1, WriteImplements
    <3> QED BY <2>0, <3>2, <3>3, <3>4 DEF StoreEffect, Command, Quiet
  <2> QED BY <2>1, <2>2
<1>3. ASSUME UNCHANGED vars
      PROVE  UNCHANGED Owner!vars
  BY <1>3 DEF vars, storeVars, world, Owner!vars, StageOf, EverApproved
<1>4. BrokerInv /\ [BrokerNext]_vars => [Owner!Next]_(Owner!vars)
  BY <1>2, <1>3
<1> QED BY <1>1, <1>4, BrokerSpecInv, PTL DEF BrokerSpec, ImplementsOwnerApproval, Owner!Spec

----------------------------------------------------------------------------
(***************************************************************************)
(* The broker does each thing once and within its bounds.                  *)
(*                                                                         *)
(* One issue per proposal, but for the searches that failed, and one seat  *)
(* per issue, for any number of deaths and failed commands at any step:    *)
(* what the pass has looked up before it acts (a search that found none, a *)
(* list without the seat) stays true until the act, since nobody else      *)
(* files issues or launches seats.                                         *)
(*                                                                         *)
(* No question is recorded unasked, and no hour holds more questions than  *)
(* the cap: what a pass found due fits into the hour, and the room it has  *)
(* left shrinks exactly with the rows it has left.                         *)
(***************************************************************************)
\* While an issue is being created the proposal still has room for one.
OnceFiled ==
  \A id \in Ids :
    /\ IsFiniteSet(Filed(id))
    /\ Cardinality(Filed(id)) <= 1 + blind[id]
    /\ pc = "create" => \A row \in todo : Visiting(row) /\ row.id = id
                                            => Cardinality(Filed(id)) <= blind[id]

\* While seats are being launched every live seat of a row still to be visited is a listed one.
OnceLaunched ==
  /\ OneSeatPerIssue
  /\ pc = "launch" => \A row \in todo : seats[row.issue] > 0 => row.issue \in listed
  /\ pc \in {"implementing", "launch_failed"} =>
       \A row \in todo : ~Visiting(row) /\ seats[row.issue] > 0 => row.issue \in listed

LEMMA OnlyCreateFiles ==
  ASSUME BrokerNext, ~CreateIssue
  PROVE  github' = github
BY DEF BrokerNext, PassStep, StartPass, AskOwner, RecordNotice, ListApproved, FailWithoutGh,
   SearchIssue, RecordIssue, RecordFileFailure, ListFiled, LaunchSeat, RecordSeat,
   RecordLaunchFailure, RetireStale, Crash, Others, SeatEnds, Clock, world

\* Issues and failed searches only ever get more, one at a time.
LEMMA OnlySearchMisses ==
  ASSUME BrokerNext, ~SearchIssue
  PROVE  blind' = blind
BY DEF BrokerNext, PassStep, StartPass, AskOwner, RecordNotice, ListApproved, FailWithoutGh,
   CreateIssue, RecordIssue, RecordFileFailure, ListFiled, LaunchSeat, RecordSeat,
   RecordLaunchFailure, RetireStale, Crash, Others, SeatEnds, Clock, world

LEMMA StepKeepsOnceFiled ==
  ASSUME BrokerInv, OnceFiled, BrokerNext
  PROVE  OnceFiled'
<1>0. StoreKept /\ blind \in [Ids -> Nat] /\ github \in [Issues -> Ids \cup {0}]
  BY BrokerStepsStore, StoreEffectKeeps DEF BrokerInv, BrokerTypeOK
<1>1. \A id \in Ids : Cardinality(Filed(id)) \in Nat
  BY FS_CardinalityType DEF OnceFiled
<1>2. CASE CreateIssue
  <2>1. PICK row \in todo, n \in Filed(0) :
          /\ Visiting(row)
          /\ github' \in {github, [github EXCEPT ![n] = row.id]}
    BY <1>2 DEF CreateIssue
  <2>2. n \in Issues /\ github[n] = 0 /\ row.id \in Ids /\ row.id # 0
    BY <2>1, TodoRows DEF Filed, BrokerInv
  <2>3. blind' = blind /\ pc = "create" /\ pc' # "create"
    BY <1>2 DEF CreateIssue
  <2>4. ASSUME NEW id \in Ids
        PROVE  \/ Filed(id)' = Filed(id)
               \/ id = row.id /\ Filed(id)' = Filed(id) \cup {n}
    <3>1. CASE github' = github
      BY <3>1 DEF Filed
    <3>2. CASE github' = [github EXCEPT ![n] = row.id]
      <4>1. \A m \in Issues : github'[m] = IF m = n THEN row.id ELSE github[m]
        BY <1>0, <2>2, <3>2
      <4>2. id # 0
        BY <2>4, ProposalsAssumption
      <4>3. CASE id = row.id
        BY <2>2, <4>1, <4>3 DEF Filed
      <4>4. CASE id # row.id
        <5>1. \A m \in Issues : github'[m] = id <=> github[m] = id
          BY <2>2, <4>1, <4>2, <4>4
        <5> QED BY <5>1 DEF Filed
      <4> QED BY <4>3, <4>4
    <3> QED BY <2>1, <3>1, <3>2
  <2>5. ASSUME NEW id \in Ids, Filed(id)' = Filed(id)
        PROVE  IsFiniteSet(Filed(id)') /\ Cardinality(Filed(id)') <= 1 + blind'[id]
    BY <2>3, <2>5 DEF OnceFiled
  <2>6. ASSUME Filed(row.id)' = Filed(row.id) \cup {n}
        PROVE  /\ IsFiniteSet(Filed(row.id)')
               /\ Cardinality(Filed(row.id)') <= 1 + blind'[row.id]
    <3> DEFINE F == Filed(row.id)
    <3>1. IsFiniteSet(F) /\ Cardinality(F) <= blind[row.id] /\ Cardinality(F) \in Nat
      BY <1>1, <2>1, <2>2, <2>3 DEF OnceFiled
    <3>2. n \notin F
      BY <2>2 DEF Filed
    <3> HIDE DEF F
    <3>3. IsFiniteSet(F \cup {n}) /\ Cardinality(F \cup {n}) = Cardinality(F) + 1
      BY <3>1, <3>2, FS_AddElement
    <3>4. blind[row.id] \in Nat
      BY <1>0, <2>2
    <3> QED BY <2>3, <2>6, <3>1, <3>3, <3>4 DEF F
  <2> QED BY <2>2, <2>3, <2>4, <2>5, <2>6 DEF OnceFiled
<1>3. CASE SearchIssue
  <2>1. PICK q \in todo :
          /\ Visiting(q)
          /\ \/ pc' = "issue" /\ blind' = blind
             \/ Filed(q.id) = {} /\ blind' = blind
             \/ Misses(q.id)
    BY <1>3 DEF SearchIssue
  <2>2. q.id \in Ids
    BY <2>1, TodoRows DEF BrokerInv
  <2>3. todo' = todo /\ UNCHANGED storeVars /\ github' = github
    BY <1>3 DEF SearchIssue
  <2>4. \A id \in Ids : blind[id] \in Nat /\ blind'[id] \in {blind[id], blind[id] + 1}
    BY <1>0, <2>1, <2>2 DEF Misses
  <2>5. ASSUME NEW id \in Ids
        PROVE  Filed(id)' = Filed(id)
    BY <2>3 DEF Filed
  <2>6. ASSUME pc' = "create"
        PROVE  Cardinality(Filed(q.id)) <= blind'[q.id]
    <3>1. CASE Filed(q.id) = {}
      BY <2>2, <2>4, <3>1, FS_EmptySet
    <3>2. CASE Filed(q.id) # {}
      <4>1. blind'[q.id] = blind[q.id] + 1
        BY <1>0, <2>1, <2>2, <2>6, <3>2 DEF Misses
      <4> QED BY <1>1, <2>2, <2>4, <4>1 DEF OnceFiled
    <3> QED BY <3>1, <3>2
  <2>7. ASSUME pc' = "create", NEW row \in todo', Visiting(row)'
        PROVE  row = q
    <3>1. row \in todo /\ Visiting(row)
      BY <1>0, <2>3, <2>7, VisitingStable
    <3> QED BY <2>1, <3>1, VisitingUnique
  <2>8. ASSUME NEW id \in Ids
        PROVE  Cardinality(Filed(id)) <= 1 + blind'[id]
    BY <1>1, <2>4, <2>8 DEF OnceFiled
  <2> QED BY <2>5, <2>6, <2>7, <2>8 DEF OnceFiled
<1>4. CASE ~CreateIssue /\ ~SearchIssue
  <2>1. github' = github /\ blind' = blind
    BY <1>4, OnlyCreateFiles, OnlySearchMisses
  <2>2. \A id \in Ids : Filed(id)' = Filed(id)
    BY <2>1 DEF Filed
  <2>3. ASSUME pc' = "create"
        PROVE  pc = "create" /\ todo' = todo
    BY <1>4, <2>3 DEF BrokerNext, PassStep, StartPass, AskOwner, RecordNotice, ListApproved,
       FailWithoutGh, RecordIssue, RecordFileFailure, ListFiled, LaunchSeat, RecordSeat,
       RecordLaunchFailure, RetireStale, Crash, Others, SeatEnds, Clock, brokerVars
  <2>4. ASSUME pc' = "create", NEW row \in todo', Visiting(row)'
        PROVE  pc = "create" /\ row \in todo /\ Visiting(row)
    BY <1>0, <2>3, <2>4, VisitingStable
  <2> QED BY <2>1, <2>2, <2>4 DEF OnceFiled
<1> QED BY <1>2, <1>3, <1>4

\* One proposal, one issue, wherever passes die or lose the reply of `gh issue create`; every
\* further issue is paid for by a search that failed while there was one to find
\* (voice-proposals-broker:194-231).  Without failing searches that is exactly one.
THEOREM FiledOnce == BrokerSpec => []IssuesPerBlindSearch
<1>1. BrokerInit => OnceFiled
  <2>1. SUFFICES ASSUME BrokerInit PROVE OnceFiled
    OBVIOUS
  <2>2. \A id \in Ids : Filed(id) = {} /\ blind[id] = 0
    BY <2>1, ProposalsAssumption DEF BrokerInit, Filed
  <2> QED BY <2>1, <2>2, FS_EmptySet DEF OnceFiled, BrokerInit
<1>2. ASSUME BrokerInv, OnceFiled, UNCHANGED vars
      PROVE  OnceFiled'
  BY <1>2 DEF vars, storeVars, brokerVars, world, OnceFiled, Visiting, Before, Filed
<1>3. BrokerInv /\ OnceFiled /\ [BrokerNext]_vars => OnceFiled'
  BY <1>2, StepKeepsOnceFiled
<1>4. OnceFiled => IssuesPerBlindSearch
  BY DEF OnceFiled, IssuesPerBlindSearch
<1> QED BY <1>1, <1>3, <1>4, BrokerSpecInv, PTL DEF BrokerSpec

----------------------------------------------------------------------------
\* While launching, two rows of the list have different issues.
LEMMA LaunchDistinct ==
  ASSUME BrokerInv, pc \in Launching, NEW r \in todo, NEW q \in todo, r.issue = q.issue
  PROVE  r = q
<1>1. r.id = q.id
  BY DEF BrokerInv, Locals
<1>2. r = [id |-> r.id, issue |-> r.issue] /\ q = [id |-> q.id, issue |-> q.issue]
  BY TodoRows
<1> QED BY <1>1, <1>2

LEMMA StepKeepsOnceLaunched ==
  ASSUME BrokerInv, OnceLaunched, BrokerNext
  PROVE  OnceLaunched'
<1>0. /\ StoreKept
      /\ \A row \in todo : pc \in Launching => row.issue \in Issues
      /\ seats \in [Issues -> Nat]
  BY BrokerStepsStore, StoreEffectKeeps DEF BrokerInv, BrokerTypeOK, Locals
<1>1. CASE LaunchSeat
  <2>1. PICK row \in todo :
          /\ Visiting(row)
          /\ \/ row.issue \in listed /\ seats' = seats
             \/ row.issue \notin listed /\ seats' \in {seats, [seats EXCEPT ![row.issue] = @ + 1]}
    BY <1>1 DEF LaunchSeat
  <2>2. pc = "launch" /\ pc' \in {"implementing", "launch_failed"} /\ todo' = todo
        /\ UNCHANGED <<storeVars, listed>>
    BY <1>1 DEF LaunchSeat
  <2>3. row.issue \in Issues
    BY <1>0, <2>2 DEF Launching
  <2>4. OneSeatPerIssue'
    <3>1. CASE seats' = seats
      BY <3>1 DEF OnceLaunched, OneSeatPerIssue
    <3>2. CASE row.issue \notin listed /\ seats' = [seats EXCEPT ![row.issue] = @ + 1]
      <4>1. ~(seats[row.issue] > 0)
        BY <2>2, <3>2 DEF OnceLaunched
      <4> QED BY <1>0, <2>3, <3>2, <4>1 DEF OnceLaunched, OneSeatPerIssue
    <3> QED BY <2>1, <3>1, <3>2
  <2>5. ASSUME NEW q \in todo', ~Visiting(q)', seats'[q.issue] > 0
        PROVE  q.issue \in listed'
    <3>1. q \in todo /\ q # row
      BY <2>1, <2>2, <2>5 DEF Visiting, Before, storeVars
    <3>2. q.issue # row.issue /\ q.issue \in Issues
      BY <1>0, <2>2, <3>1, LaunchDistinct DEF Launching
    <3>3. seats'[q.issue] = seats[q.issue]
      BY <1>0, <2>1, <2>3, <3>2
    <3> QED BY <2>2, <2>5, <3>1, <3>3 DEF OnceLaunched
  <2> QED BY <2>2, <2>4, <2>5 DEF OnceLaunched
<1>2. CASE RecordSeat \/ RecordLaunchFailure
  <2>1. PICK row \in todo : Visiting(row) /\ todo' = todo \ {row}
    BY <1>2 DEF RecordSeat, RecordLaunchFailure, Visited
  <2>2. pc \in {"implementing", "launch_failed"} /\ pc' = "launch" /\ seats' = seats
        /\ listed' = listed
    BY <1>2 DEF RecordSeat, RecordLaunchFailure, world
  <2>3. \A q \in todo' : ~Visiting(q) /\ q \in todo
    BY <2>1, VisitingUnique
  <2> QED BY <2>2, <2>3 DEF OnceLaunched, OneSeatPerIssue
<1>3. CASE ListFiled
  <2>1. pc' = "launch" /\ seats' = seats
    BY <1>3 DEF ListFiled, world
  <2>2. \A q \in todo' : q.issue \in Issues
    <3>1. pc' \in Launching
      BY <2>1 DEF Launching
    <3> QED BY <3>1, StepKeepsLocals DEF Locals
  <2>3. todo' = {} \/ listed' = {n \in Issues : seats[n] > 0}
    BY <1>3 DEF ListFiled
  <2> QED BY <2>1, <2>2, <2>3 DEF OnceLaunched, OneSeatPerIssue
<1>4. CASE Others \/ Clock
  <2>1. UNCHANGED <<pc, todo, listed, seats>>
    BY <1>4 DEF Others, Clock, brokerVars, world
  <2>2. \A q \in todo' : Visiting(q)' <=> Visiting(q)
    <3>1. \A q \in todo : rows'[q.id].created = rows[q.id].created
      BY <1>0, TodoRows DEF BrokerInv, Locals, StoreKept
    <3> QED BY <2>1, <3>1 DEF Visiting, Before
  <2> QED BY <2>1, <2>2 DEF OnceLaunched, OneSeatPerIssue
<1>5. CASE SeatEnds
  <2>1. PICK n \in Issues : seats' = [seats EXCEPT ![n] = 0]
    BY <1>5 DEF SeatEnds
  <2>2. \A m \in Issues : seats'[m] <= seats[m] /\ seats'[m] \in Nat
    BY <1>0, <2>1
  <2>3. UNCHANGED <<storeVars, pc, todo, listed>>
    BY <1>5 DEF SeatEnds, brokerVars
  <2>4. \A q \in todo : pc \in Launching /\ seats'[q.issue] > 0 => seats[q.issue] > 0
    BY <1>0, <2>2
  <2>5. \A q \in todo' : Visiting(q)' <=> Visiting(q)
    BY <2>3 DEF Visiting, Before, storeVars
  <2>6. OneSeatPerIssue'
    BY <1>0, <2>2 DEF OnceLaunched, OneSeatPerIssue
  <2> QED BY <2>3, <2>4, <2>5, <2>6 DEF OnceLaunched, Launching
<1>6. CASE \/ StartPass \/ AskOwner \/ RecordNotice \/ ListApproved \/ FailWithoutGh \/ SearchIssue
           \/ CreateIssue \/ RecordIssue \/ RecordFileFailure \/ RetireStale \/ Crash
  <2>1. seats' = seats
    BY <1>6 DEF StartPass, AskOwner, RecordNotice, ListApproved, FailWithoutGh, SearchIssue,
       CreateIssue, RecordIssue, RecordFileFailure, RetireStale, Crash, world
  <2>2. pc' \notin {"launch", "implementing", "launch_failed"}
    BY <1>6 DEF StartPass, AskOwner, RecordNotice, ListApproved, FailWithoutGh, SearchIssue,
       CreateIssue, RecordIssue, RecordFileFailure, RetireStale, Crash
  <2> QED BY <2>1, <2>2 DEF OnceLaunched, OneSeatPerIssue
<1> QED BY <1>1, <1>2, <1>3, <1>4, <1>5, <1>6 DEF BrokerNext, PassStep

\* One issue, one live seat, wherever passes die or launches fail half-way
\* (voice-proposals-broker:240-378).
THEOREM LaunchedOnce == BrokerSpec => []OneSeatPerIssue
<1>1. BrokerInit => OnceLaunched
  BY DEF BrokerInit, OnceLaunched, OneSeatPerIssue
<1>2. ASSUME OnceLaunched, UNCHANGED vars
      PROVE  OnceLaunched'
  BY <1>2 DEF vars, storeVars, brokerVars, world, OnceLaunched, OneSeatPerIssue, Visiting, Before
<1>3. BrokerInv /\ OnceLaunched /\ [BrokerNext]_vars => OnceLaunched'
  BY <1>2, StepKeepsOnceLaunched
<1>4. OnceLaunched => OneSeatPerIssue
  BY DEF OnceLaunched
<1> QED BY <1>1, <1>3, <1>4, BrokerSpecInv, PTL DEF BrokerSpec

----------------------------------------------------------------------------
\* Questions.  The trails only grow, and only the pass that put a question to
\* the owner records one; Qs and Asked are Questions and QuestionsUpTo over
\* the trails as an argument.

Qs(s) == {k \in DOMAIN s : s[k].detail = "asked"}

Counted(s, t) == {k \in Qs(s) : s[k].at <= t /\ t < s[k].at + Hour}

Asked(h, t) == UNION {{<<id, k>> : k \in Counted(h[id], t)} : id \in Ids}

Longer(s, r, e) ==
  /\ Len(r) = Len(s) + 1
  /\ \A k \in 1..Len(s) : r[k] = s[k]
  /\ r[Len(s) + 1] = e

LEMMA QuestionsAreQs ==
  /\ \A id \in Ids : Questions(id) = Qs(trail[id])
  /\ \A t : QuestionsUpTo(t) = Asked(trail, t)
BY DEF Questions, Qs, QuestionsUpTo, Asked, Counted

LEMMA FiniteQs ==
  ASSUME NEW s \in Seq(Event)
  PROVE  /\ IsFiniteSet(Qs(s)) /\ Cardinality(Qs(s)) \in Nat
         /\ Qs(s) \subseteq 1..Len(s)
<1>1. DOMAIN s = 1..Len(s) /\ Len(s) \in Nat
  OBVIOUS
<1>2. IsFiniteSet(1..Len(s))
  BY <1>1, FS_Interval
<1>3. Qs(s) \in SUBSET (1..Len(s))
  BY <1>1 DEF Qs
<1> QED BY <1>2, <1>3, FS_Subset, FS_CardinalityType

LEMMA LongerQs ==
  ASSUME NEW s \in Seq(Event), NEW r \in Seq(Event), NEW e \in Event, Longer(s, r, e)
  PROVE  /\ DOMAIN r = DOMAIN s \cup {Len(s) + 1} /\ Len(s) + 1 \notin DOMAIN s
         /\ \A k \in DOMAIN s : r[k] = s[k]
         /\ e.detail # "asked" => Qs(r) = Qs(s)
         /\ e.detail = "asked" => Qs(r) = Qs(s) \cup {Len(s) + 1} /\ Len(s) + 1 \notin Qs(s)
<1>1. DOMAIN s = 1..Len(s) /\ DOMAIN r = 1..Len(r) /\ Len(s) \in Nat
  OBVIOUS
<1>2. /\ DOMAIN r = DOMAIN s \cup {Len(s) + 1} /\ Len(s) + 1 \notin DOMAIN s
      /\ \A k \in DOMAIN s : r[k] = s[k]
      /\ r[Len(s) + 1] = e
  BY <1>1 DEF Longer
<1> QED BY <1>2 DEF Qs

Tagged(A, K) == UNION {{<<a, k>> : k \in K[a]} : a \in A}

\* A finite union of finite sets, each tagged with its index.
LEMMA TaggedFinite ==
  ASSUME NEW A, IsFiniteSet(A), NEW K, \A a \in A : IsFiniteSet(K[a])
  PROVE  IsFiniteSet(Tagged(A, K)) /\ Cardinality(Tagged(A, K)) \in Nat
<1> DEFINE T(a) == {<<a, k>> : k \in K[a]}
           S == {T(a) : a \in A}
<1>1. ASSUME NEW a \in A
      PROVE  IsFiniteSet(T(a))
  <2> DEFINE f == [k \in K[a] |-> <<a, k>>]
  <2>1. f \in Surjection(K[a], T(a))
    BY DEF Surjection
  <2> QED BY <1>1, <2>1, FS_Surjection
<1>2. IsFiniteSet(S)
  <2> DEFINE f == [a \in A |-> T(a)]
  <2>1. f \in Surjection(A, S)
    BY DEF Surjection
  <2> HIDE DEF f, S
  <2> QED BY <2>1, FS_Surjection
<1>3. \A V \in S : IsFiniteSet(V)
  BY <1>1
<1>4. IsFiniteSet(UNION S)
  <2> HIDE DEF S
  <2> QED BY <1>2, <1>3, FS_UNION
<1> QED BY <1>4, FS_CardinalityType DEF Tagged

LEMMA AskedFinite ==
  ASSUME NEW h \in [Ids -> Seq(Event)], NEW t
  PROVE  IsFiniteSet(Asked(h, t)) /\ Cardinality(Asked(h, t)) \in Nat
<1> DEFINE K == [id \in Ids |-> Counted(h[id], t)]
<1>1. \A id \in Ids : IsFiniteSet(K[id])
  <2>1. ASSUME NEW id \in Ids
        PROVE  IsFiniteSet(Counted(h[id], t))
    <3>1. IsFiniteSet(Qs(h[id]))
      BY FiniteQs
    <3>2. Counted(h[id], t) \in SUBSET Qs(h[id])
      BY DEF Counted
    <3> QED BY <3>1, <3>2, FS_Subset
  <2> QED BY <2>1
<1>2. IsFiniteSet(Ids)
  BY ProposalsAssumption
<1>3. Asked(h, t) = Tagged(Ids, K)
  BY DEF Asked, Tagged
<1> HIDE DEF K
<1> QED BY <1>1, <1>2, <1>3, TaggedFinite

LEMMA InAsked ==
  ASSUME NEW h, NEW t, NEW id, NEW k
  PROVE  <<id, k>> \in Asked(h, t) <=> id \in Ids /\ k \in Counted(h[id], t)
BY DEF Asked

\* What a step does to a trail.
LEMMA StepGrows ==
  ASSUME BrokerInv, BrokerNext, NEW o \in Ids
  PROVE  /\ TypeOK' /\ now \in Nat /\ now' \in Nat /\ now' >= now
         /\ \/ trail'[o] = trail[o]
            \/ \E e \in Event :
                 /\ Longer(trail[o], trail'[o], e) /\ e.at = now /\ now' = now
                 /\ e.detail = "asked" => /\ e.status = "notified" /\ Asking(o)
                                          /\ \A p \in Ids \ {o} : trail'[p] = trail[p]
<1>0. TypeOK /\ TypeOK' /\ IssueMatchesStage /\ StoreEffect
  BY BrokerStepsStore, StoreEffectKeeps DEF BrokerInv, Inv
<1>1. ASSUME NEW id \in Ids, NEW row, NEW detail, Write(id, row, row.status, detail), Rules(id, row, detail),
             detail = "asked" => row.status = "notified" /\ Asking(id)
      PROVE  /\ now' = now
             /\ \/ trail'[o] = trail[o]
                \/ \E e \in Event :
                     /\ Longer(trail[o], trail'[o], e) /\ e.at = now
                     /\ e.detail = "asked" => /\ e.status = "notified" /\ Asking(o)
                                              /\ \A p \in Ids \ {o} : trail'[p] = trail[p]
  <2> DEFINE e == [status |-> row.status, detail |-> detail, at |-> now]
  <2>1. /\ now' = now
        /\ \A p \in Ids : p # id => trail'[p] = trail[p]
        /\ Len(trail'[id]) = Len(trail[id]) + 1
        /\ \A k \in DOMAIN trail[id] : trail'[id][k] = trail[id][k]
        /\ trail'[id][Len(trail[id]) + 1] = e
    BY <1>0, <1>1, WriteEffect
  <2>2. e \in Event /\ e.detail = detail /\ e.status = row.status /\ e.at = now
    BY <1>0, <1>1 DEF Rules, Row, Event, TypeOK
  <2>3. CASE o # id
    BY <2>1, <2>3
  <2>4. CASE o = id
    <3>1. DOMAIN trail[id] = 1..Len(trail[id])
      BY <1>0 DEF TypeOK
    <3> HIDE DEF e
    <3>2. Longer(trail[o], trail'[o], e)
      BY <2>1, <2>4, <3>1 DEF Longer
    <3> QED BY <1>1, <2>1, <2>2, <2>4, <3>2
  <2> QED BY <2>3, <2>4
<1>2. CASE UNCHANGED storeVars
  BY <1>0, <1>2 DEF storeVars, TypeOK
<1>3. CASE Tick
  BY <1>0, <1>3 DEF Tick, TypeOK
<1>4. CASE Expire
  <2>1. /\ ~Stale(o) => trail'[o] = trail[o]
        /\ Stale(o) =>
              /\ Len(trail'[o]) = Len(trail[o]) + 1
              /\ \A k \in 1..Len(trail[o]) : trail'[o][k] = trail[o][k]
              /\ trail'[o][Len(trail[o]) + 1] =
                   [status |-> "expired", detail |-> "expired", at |-> now]
        /\ now' = now
    BY <1>0, <1>4, ExpireEffect
  <2> DEFINE e == [status |-> "expired", detail |-> "expired", at |-> now]
  <2>2. e \in Event /\ e.at = now /\ e.detail # "asked"
    BY <1>0 DEF Event, Statuses, Details, TypeOK
  <2>3. Stale(o) => Longer(trail[o], trail'[o], e)
    BY <2>1 DEF Longer
  <2> HIDE DEF e
  <2> QED BY <1>0, <2>1, <2>2, <2>3 DEF TypeOK
<1>5. ASSUME NEW id \in Ids, Quiet(id)
      PROVE  \E row, detail : Write(id, row, row.status, detail) /\ Rules(id, row, detail) /\ detail # "asked"
  BY <1>0, <1>5, QuietWrites
<1>6. ASSUME NEW id \in Ids, Notify(id)
      PROVE  \E row : Write(id, row, "notified", "asked") /\ Rules(id, row, "asked") /\ row.status = "notified"
  BY <1>0, <1>6, NotifyWrites
<1>7. ASSUME NEW id \in Ids, NEW n \in Issues, SetIssue(id, n) \/ SetAgent(id, n)
      PROVE  \E row, detail : Write(id, row, row.status, detail) /\ Rules(id, row, detail) /\ detail # "asked"
  BY <1>0, <1>7, SetIssueWrites, SetAgentWrites
<1>8. CASE UNCHANGED storeVars \/ Tick \/ Expire
  BY <1>2, <1>3, <1>4, <1>8
<1>9. CASE ~(UNCHANGED storeVars \/ Tick \/ Expire)
  <2>1. \E id \in Ids : \E row, detail :
          /\ Write(id, row, row.status, detail) /\ Rules(id, row, detail)
          /\ detail = "asked" => row.status = "notified" /\ Asking(id)
    BY <1>0, <1>5, <1>6, <1>7, <1>9 DEF StoreEffect
  <2>2. PICK id \in Ids : \E row, detail :
          /\ Write(id, row, row.status, detail) /\ Rules(id, row, detail)
          /\ detail = "asked" => row.status = "notified" /\ Asking(id)
    BY <2>1
  <2>3. PICK row, detail :
          /\ Write(id, row, row.status, detail) /\ Rules(id, row, detail)
          /\ detail = "asked" => row.status = "notified" /\ Asking(id)
    BY <2>2
  <2>4. now' = now /\ now \in Nat
    BY <1>0, <1>1, <2>3 DEF TypeOK
  <2> QED BY <1>0, <1>1, <2>3, <2>4
<1> QED BY <1>8, <1>9

\* A question was put to the owner before it is recorded.
Told ==
  /\ NoticeWasAsked
  /\ pc = "notified" => \A row \in todo : Visiting(row) => Cardinality(Qs(trail[row.id])) < asked[row.id]

LEMMA StepKeepsTold ==
  ASSUME BrokerInv, Told, BrokerNext
  PROVE  Told'
<1>0. /\ StoreKept /\ TypeOK /\ TypeOK' /\ asked \in [Ids -> Nat]
      /\ \A id \in Ids : Cardinality(Qs(trail[id])) <= asked[id]
      /\ \A id \in Ids : trail[id] \in Seq(Event) /\ trail'[id] \in Seq(Event)
  BY BrokerStepsStore, StoreEffectKeeps, QuestionsAreQs
  DEF BrokerInv, Inv, BrokerTypeOK, Told, NoticeWasAsked, TypeOK
<1>1. SUFFICES /\ \A id \in Ids : Cardinality(Qs(trail'[id])) <= asked'[id]
               /\ pc' = "notified" => \A row \in todo' : Visiting(row)' =>
                                        Cardinality(Qs(trail'[row.id])) < asked'[row.id]
  BY DEF Told, NoticeWasAsked, Questions, Qs
<1>2. ASSUME NEW o \in Ids
      PROVE  \/ Qs(trail'[o]) = Qs(trail[o])
             \/ Asking(o) /\ Cardinality(Qs(trail'[o])) = Cardinality(Qs(trail[o])) + 1
  <2>1. CASE trail'[o] = trail[o]
    BY <2>1
  <2>2. CASE trail'[o] # trail[o]
    <3>1. PICK e \in Event : Longer(trail[o], trail'[o], e) /\ (e.detail = "asked" => Asking(o))
      BY <2>2, StepGrows
    <3>2. CASE e.detail # "asked"
      BY <1>0, <3>1, <3>2, LongerQs
    <3>3. CASE e.detail = "asked"
      <4>1. Qs(trail'[o]) = Qs(trail[o]) \cup {Len(trail[o]) + 1} /\ Len(trail[o]) + 1 \notin Qs(trail[o])
        <5>1. trail[o] \in Seq(Event) /\ trail'[o] \in Seq(Event) /\ Longer(trail[o], trail'[o], e)
          BY <1>0, <3>1
        <5> QED BY <3>3, <5>1, LongerQs
      <4>2. IsFiniteSet(Qs(trail[o]))
        BY <1>0, FiniteQs
      <4> QED BY <3>1, <3>3, <4>1, <4>2, FS_AddElement
    <3> QED BY <3>2, <3>3
  <2> QED BY <2>1, <2>2
<1>3. CASE AskOwner
  <2>1. PICK row \in todo :
          /\ Visiting(row)
          /\ \/ asked' = [asked EXCEPT ![row.id] = @ + 1] /\ todo' = todo
             \/ pc' = pc /\ asked' = asked
    BY <1>3 DEF AskOwner
  <2>2. pc = "ask" /\ rows' = rows /\ trail' = trail /\ row.id \in Ids
    BY <1>3, TodoRows DEF AskOwner, storeVars
  <2>3. CASE pc' = pc /\ asked' = asked
    BY <1>0, <2>2, <2>3
  <2>4. CASE asked' = [asked EXCEPT ![row.id] = @ + 1] /\ todo' = todo
    <3>1. \A id \in Ids : asked'[id] = IF id = row.id THEN asked[id] + 1 ELSE asked[id]
      BY <1>0, <2>4
    <3>2. \A id \in Ids : Cardinality(Qs(trail'[id])) \in Nat /\ asked[id] \in Nat
      BY <1>0, FiniteQs
    <3>3. \A q \in todo' : Visiting(q)' => q = row
      BY <2>1, <2>2, <2>4, VisitingUnique DEF Visiting, Before
    <3> QED BY <1>0, <2>2, <3>1, <3>2, <3>3
  <2> QED BY <2>1, <2>3, <2>4
<1>4. CASE \E o \in Ids : Asking(o)
  <2>1. PICK o \in Ids : Asking(o)
    BY <1>4
  <2>2. pc' # "notified" /\ asked' = asked /\ Cardinality(Qs(trail[o])) < asked[o]
    BY <2>1 DEF Asking, Told
  <2>3. \A p \in Ids : Asking(p) => p = o
    BY <2>1, VisitingUnique DEF Asking
  <2>4. \A p \in Ids : Cardinality(Qs(trail[p])) \in Nat /\ asked[p] \in Nat
    BY <1>0, FiniteQs
  <2> QED BY <1>0, <1>2, <2>2, <2>3, <2>4
<1>5. CASE ~AskOwner /\ ~(\E o \in Ids : Asking(o))
  <2>1. asked' = asked
    BY <1>5
    DEF BrokerNext, PassStep, StartPass, RecordNotice, ListApproved, FailWithoutGh, SearchIssue,
        CreateIssue, RecordIssue, RecordFileFailure, ListFiled, LaunchSeat, RecordSeat,
        RecordLaunchFailure, RetireStale, Crash, Others, SeatEnds, Clock, world
  <2>2. pc' = "notified" => pc = "notified" /\ todo' = todo
    BY <1>5
    DEF BrokerNext, PassStep, StartPass, RecordNotice, ListApproved, FailWithoutGh, SearchIssue,
        CreateIssue, RecordIssue, RecordFileFailure, ListFiled, LaunchSeat, RecordSeat,
        RecordLaunchFailure, RetireStale, Crash, Others, SeatEnds, Clock, brokerVars
  <2>3. \A id \in Ids : Qs(trail'[id]) = Qs(trail[id])
    BY <1>2, <1>5
  <2>4. \A row \in todo : row.id \in Ids
    BY TodoRows
  <2> QED BY <1>0, <2>1, <2>2, <2>3, <2>4, VisitingStable DEF Told
<1> QED BY <1>3, <1>4, <1>5

\* No question is recorded that was not put to the owner: nobody is silenced unasked
\* (voice-proposals-broker:131-158).
THEOREM NoticesWereAsked == BrokerSpec => []NoticeWasAsked
<1>1. BrokerInit => Told
  <2>1. SUFFICES ASSUME BrokerInit PROVE NoticeWasAsked
    BY DEF BrokerInit, Told
  <2>2. ASSUME NEW id \in Ids
        PROVE  Questions(id) = {} /\ asked[id] = 0
    <3>1. trail[id] = <<>>
      <4>1. trail = [o \in Ids |-> <<>>]
        BY <2>1 DEF BrokerInit, Init
      <4> QED BY <4>1
    <3>2. asked[id] = 0
      <4>1. asked = [o \in Ids |-> 0]
        BY <2>1 DEF BrokerInit
      <4> QED BY <4>1
    <3>3. DOMAIN trail[id] = {}
      <4>1. \A s \in Seq(Event) : s = <<>> => DOMAIN s = {}
        OBVIOUS
      <4>2. <<>> \in Seq(Event)
        OBVIOUS
      <4> QED BY <3>1, <4>1, <4>2
    <3> QED BY <3>2, <3>3 DEF Questions
  <2> QED BY <2>2, FS_EmptySet DEF NoticeWasAsked
<1>2. ASSUME Told, UNCHANGED vars
      PROVE  Told'
  BY <1>2 DEF vars, storeVars, brokerVars, world, Told, NoticeWasAsked, Questions, Visiting, Before
<1>3. BrokerInv /\ Told /\ [BrokerNext]_vars => Told'
  BY <1>2, StepKeepsTold
<1>4. Told => NoticeWasAsked
  BY DEF Told
<1> QED BY <1>1, <1>3, <1>4, BrokerSpecInv, PTL DEF BrokerSpec

----------------------------------------------------------------------------
\* The cap.  `proposals due` leaves out what the hour has no room for; the
\* room it found is still there when the last of them is asked, because the
\* pass alone records questions and time only takes them out of the hour.

\* Of some proposals one is listed last: every other one comes before it.
LEMMA ListedLast ==
  ASSUME TypeOK, NEW D \in SUBSET Ids, D # {}
  PROVE  \E m \in D : \A o \in D \ {m} : Before(o, m)
<1>1. \A a \in D : a \in Nat /\ rows[a].created \in Nat
  BY ProposalsAssumption DEF TypeOK, Row
<1> DEFINE After(d) == {o \in D : Before(d, o)}
           T == {After(d) : d \in D}
           R == StrictSubsetOrdering(D)
<1>2. IsFiniteSet(D)
  BY ProposalsAssumption, FS_Subset
<1>3. T \in SUBSET FiniteSubsetsOf(D) /\ T # {}
  <2>1. FiniteSubsetsOf(D) = SUBSET D
    BY <1>2, FS_FiniteSubsetsOfFinite
  <2>2. T \in SUBSET (SUBSET D)
    OBVIOUS
  <2>3. T # {}
    OBVIOUS
  <2> HIDE DEF T
  <2> QED BY <2>1, <2>2, <2>3
<1>4. \E V \in T : \A W \in T : <<W, V>> \notin R
  <2>1. IsWellFoundedOn(R, FiniteSubsetsOf(D))
    BY FS_StrictSubsetOrderingWellFounded DEF R
  <2>2. T \subseteq FiniteSubsetsOf(D) /\ T # {}
    BY <1>3
  <2> HIDE DEF T, R
  <2>3. \E x \in T : \A y \in T : ~ (<<y, x>> \in R)
    BY <2>1, <2>2, WFMin
  <2> QED BY <2>3
<1>5. PICK m \in D : \A W \in T : <<W, After(m)>> \notin R
  BY <1>4
<1>6. \A o \in D : ~Before(m, o)
  <2> SUFFICES ASSUME NEW o \in D, Before(m, o)
               PROVE  FALSE
    OBVIOUS
  <2>1. After(o) \subseteq After(m)
    BY <1>1 DEF Before
  <2>2. o \in After(m) /\ o \notin After(o)
    BY <1>1 DEF Before
  <2>3. <<After(o), After(m)>> \in R
    BY <2>1, <2>2 DEF StrictSubsetOrdering
  <2> QED BY <1>5, <2>3
<1> QED BY <1>1, <1>6 DEF Before

\* Every recorded question is a notice in the sense of the cap.
QuestionsAreNotices ==
  \A id \in Ids : \A k \in Qs(trail[id]) : trail[id][k].status = "notified"

LEMMA CapCountsQuestions ==
  ASSUME TypeOK, QuestionsAreNotices
  PROVE  NoticesCounted \in Nat /\ Cardinality(Asked(trail, now)) <= NoticesCounted
<1> DEFINE Noticed(id) == {i \in DOMAIN trail[id] :
             trail[id][i].status = "notified" /\ now < trail[id][i].at + Hour}
           K == [id \in Ids |-> Noticed(id)]
           U == UNION {{<<id, k>> : k \in Noticed(id)} : id \in Ids}
<1>1. \A id \in Ids : IsFiniteSet(Noticed(id))
  <2>1. ASSUME NEW id \in Ids
        PROVE  IsFiniteSet(Noticed(id))
    <3>1. DOMAIN trail[id] = 1..Len(trail[id]) /\ Len(trail[id]) \in Nat
      BY DEF TypeOK
    <3>2. IsFiniteSet(1..Len(trail[id])) /\ Noticed(id) \in SUBSET (1..Len(trail[id]))
      BY <3>1, FS_Interval
    <3> QED BY <3>2, FS_Subset
  <2> QED BY <2>1
<1>2. NoticesCounted = Cardinality(U)
  BY DEF NoticesCounted
<1>3. U = Tagged(Ids, K)
  BY DEF Tagged
<1>4. IsFiniteSet(U) /\ Cardinality(U) \in Nat
  <2>1. IsFiniteSet(Ids)
    BY ProposalsAssumption
  <2>2. \A id \in Ids : IsFiniteSet(K[id])
    BY <1>1
  <2> HIDE DEF K, Noticed, U
  <2> QED BY <1>3, <2>1, <2>2, TaggedFinite
<1>5. Asked(trail, now) \in SUBSET U
  BY DEF QuestionsAreNotices, Asked, Counted, Qs
<1> HIDE DEF U
<1> QED BY <1>2, <1>4, <1>5, FS_Subset

\* What is due fits into the hour: the questions it already holds and the due ones together
\* stay within the cap.
LEMMA DueFits ==
  ASSUME TypeOK, QuestionsAreNotices
  PROVE  /\ IsFiniteSet(Due)
         /\ Due # {} => Cardinality(Asked(trail, now)) + Cardinality(Due) <= MaxPerHour
<1> DEFINE D == DueForNotice
           Waits(id) == \/ rows[id].status = "pending"
                        \/ /\ RetryAfter > 0 /\ rows[id].status = "notified"
                           /\ rows[id].notified # 0 /\ rows[id].notified + RetryAfter <= now
           Ahead(m) == {o \in {i \in Ids : Waits(i)} : Before(o, m)}
<1>1. /\ D \in SUBSET Ids
      /\ \A m \in D : /\ Cardinality(Ahead(m)) + NoticesCounted < MaxPerHour
                      /\ D \subseteq {i \in Ids : Waits(i)}
  BY DEF DueForNotice
<1>2. IsFiniteSet(D) /\ Cardinality(D) \in Nat
  BY <1>1, ProposalsAssumption, FS_Subset, FS_CardinalityType
<1>3. IsFiniteSet(Due) /\ Cardinality(Due) <= Cardinality(D) /\ Cardinality(Due) \in Nat
  <2> DEFINE f == [id \in D |-> [id |-> id, issue |-> rows[id].issue]]
  <2>1. f \in Surjection(D, Due)
    BY DEF Surjection, Due
  <2> HIDE DEF f, D
  <2> QED BY <1>2, <2>1, FS_Surjection, FS_CardinalityType
<1>4. ASSUME D # {}
      PROVE  Cardinality(Asked(trail, now)) + Cardinality(Due) <= MaxPerHour
  <2>1. PICK m \in D : \A o \in D \ {m} : Before(o, m)
    BY <1>1, <1>4, ListedLast
  <2>2. D \ {m} \in SUBSET Ahead(m)
    BY <1>1, <2>1
  <2>3. IsFiniteSet(Ahead(m)) /\ Cardinality(Ahead(m)) \in Nat
    <3>1. Ahead(m) \in SUBSET Ids /\ IsFiniteSet(Ids)
      BY ProposalsAssumption
    <3> HIDE DEF Ahead
    <3> QED BY <3>1, FS_Subset, FS_CardinalityType
  <2>4. Cardinality(D \ {m}) <= Cardinality(Ahead(m))
    <3> HIDE DEF Ahead, D
    <3> QED BY <2>2, <2>3, FS_Subset
  <2>5. Cardinality(D \ {m}) = Cardinality(D) - 1
    <3> HIDE DEF D
    <3> QED BY <1>2, FS_RemoveElement
  <2>6. Cardinality(Ahead(m)) + NoticesCounted < MaxPerHour
    BY <1>1
  <2>7. /\ NoticesCounted \in Nat /\ Cardinality(Asked(trail, now)) <= NoticesCounted
        /\ Cardinality(Asked(trail, now)) \in Nat /\ MaxPerHour \in Nat
    BY CapCountsQuestions, AskedFinite, ProposalsAssumption DEF TypeOK
  <2> HIDE DEF D, Ahead
  <2> QED BY <1>2, <1>3, <2>3, <2>4, <2>5, <2>6, <2>7
<1>5. Due # {} => D # {}
  BY DEF Due
<1> QED BY <1>3, <1>4, <1>5

LEMMA CountedLonger ==
  ASSUME NEW s \in Seq(Event), NEW r \in Seq(Event), NEW e \in Event, Longer(s, r, e),
         NEW t \in Nat
  PROVE  /\ Counted(r, t) \subseteq Counted(s, t) \cup {Len(s) + 1}
         /\ e.detail # "asked" \/ t < e.at => Counted(r, t) = Counted(s, t)
<1>1. /\ \A k \in DOMAIN s : r[k] = s[k]
      /\ Qs(s) \subseteq DOMAIN s
      /\ \/ Qs(r) = Qs(s)
         \/ Qs(r) = Qs(s) \cup {Len(s) + 1} /\ e.detail = "asked"
  BY LongerQs DEF Qs
<1>2. r[Len(s) + 1] = e /\ e.at \in Nat
  BY DEF Longer, Event
<1> QED BY <1>1, <1>2 DEF Counted

\* What a step does to the questions of an hour.
LEMMA StepAsks ==
  ASSUME BrokerInv, BrokerNext, NEW t \in Nat
  PROVE  \/ Asked(trail', t) = Asked(trail, t)
         \/ /\ now' = now /\ ~(t < now)
            /\ \E o \in Ids : /\ Asking(o)
                              /\ Asked(trail', t) \subseteq
                                   Asked(trail, t) \cup {<<o, Len(trail[o]) + 1>>}
<1>0. /\ TypeOK /\ TypeOK'
      /\ \A id \in Ids : trail[id] \in Seq(Event) /\ trail'[id] \in Seq(Event)
  BY BrokerStepsStore, StoreEffectKeeps DEF BrokerInv, Inv, TypeOK
<1>1. CASE \A id \in Ids : Counted(trail'[id], t) = Counted(trail[id], t)
  BY <1>1 DEF Asked
<1>2. CASE \E id \in Ids : Counted(trail'[id], t) # Counted(trail[id], t)
  <2>1. PICK o \in Ids : Counted(trail'[o], t) # Counted(trail[o], t)
    BY <1>2
  <2>2. PICK e \in Event :
          /\ Longer(trail[o], trail'[o], e) /\ e.at = now /\ now' = now
          /\ e.detail = "asked" => Asking(o) /\ \A p \in Ids \ {o} : trail'[p] = trail[p]
    BY <2>1, StepGrows
  <2>3. /\ Counted(trail'[o], t) \subseteq Counted(trail[o], t) \cup {Len(trail[o]) + 1}
        /\ e.detail = "asked" /\ ~(t < now)
    <3>1. trail[o] \in Seq(Event) /\ trail'[o] \in Seq(Event) /\ Longer(trail[o], trail'[o], e)
      BY <1>0, <2>2
    <3> QED BY <2>1, <2>2, <3>1, CountedLonger
  <2>4. \A p \in Ids \ {o} : Counted(trail'[p], t) = Counted(trail[p], t)
    BY <2>2, <2>3
  <2>5. Asked(trail', t) \subseteq Asked(trail, t) \cup {<<o, Len(trail[o]) + 1>>}
    BY <2>3, <2>4 DEF Asked
  <2> QED BY <2>2, <2>3, <2>5
<1> QED BY <1>1, <1>2

\* The inductive form of the cap: the hour has room for what the pass still has to ask.
Roomy ==
  /\ QuestionsAreNotices
  /\ now >= 1
  /\ \A id \in Ids : \A k \in DOMAIN trail[id] : trail[id][k].at <= now
  /\ \A t \in 1..now : Cardinality(Asked(trail, t)) <= MaxPerHour
  /\ pc \in {"ask", "notified"} =>
       IsFiniteSet(todo) /\ Cardinality(Asked(trail, now)) + Cardinality(todo) <= MaxPerHour

LEMMA EventTimes ==
  ASSUME NEW h \in [Ids -> Seq(Event)], NEW id \in Ids, NEW k \in DOMAIN h[id]
  PROVE  h[id][k].at \in Nat
<1>1. h[id] \in Seq(Event)
  OBVIOUS
<1>2. h[id][k] \in Event
  BY <1>1
<1> QED BY <1>2 DEF Event

\* Time only takes questions out of the hour.
LEMMA HourPasses ==
  ASSUME TypeOK, Roomy, NEW t \in Nat, now <= t
  PROVE  Cardinality(Asked(trail, t)) <= Cardinality(Asked(trail, now))
<1>1. \A id \in Ids : \A k \in DOMAIN trail[id] : trail[id][k].at \in Nat /\ trail[id][k].at <= now
  BY EventTimes DEF TypeOK, Roomy
<1>2. now \in Nat /\ Hour \in Nat
  BY ProposalsAssumption DEF TypeOK
<1>3. Asked(trail, t) \in SUBSET Asked(trail, now)
  <2>1. \A id \in Ids : Counted(trail[id], t) \subseteq Counted(trail[id], now)
    BY <1>1, <1>2 DEF Counted, Qs
  <2> QED BY <2>1 DEF Asked
<1>4. IsFiniteSet(Asked(trail, now))
  BY AskedFinite DEF TypeOK
<1> QED BY <1>3, <1>4, FS_Subset

\* How the loop over the due proposals moves.
LEMMA AskLoop ==
  ASSUME BrokerNext, pc' \in {"ask", "notified"}
  PROVE  \/ pc = "idle" /\ trail' = trail /\ now' = now /\ todo' \in {Due, {}}
         \/ /\ pc \in {"ask", "notified"} /\ todo' = todo
            /\ ~(\E o \in Ids : Asking(o))
         \/ /\ pc \in {"ask", "notified"}
            /\ now' = now /\ \E row \in todo : todo' = todo \ {row}
<1>1. CASE StartPass
  BY <1>1 DEF StartPass, storeVars
<1>2. CASE AskOwner
  <2>1. PICK row \in todo : todo' = todo \/ todo' = todo \ {row}
    BY <1>2 DEF AskOwner, Visited
  <2>2. pc = "ask" /\ now' = now
    BY <1>2 DEF AskOwner, storeVars
  <2> QED BY <2>1, <2>2 DEF Asking
<1>3. CASE RecordNotice
  <2>1. PICK row \in todo : todo' = todo \ {row} /\ RunsTransition(row.id, "notified", "asked")
    BY <1>3 DEF RecordNotice, Visited
  <2>2. pc = "notified"
    BY <1>3 DEF RecordNotice
  <2>3. now' = now
    BY <2>1 DEF RunsTransition, Runs, Transition, Write, storeVars
  <2> QED BY <2>1, <2>2, <2>3
<1>4. CASE Others \/ SeatEnds \/ Clock
  <2>1. todo' = todo /\ pc' = pc
    BY <1>4 DEF Others, SeatEnds, Clock, brokerVars
  <2> QED BY <2>1 DEF Asking
<1> QED
  BY <1>1, <1>2, <1>3, <1>4
  DEF BrokerNext, PassStep, ListApproved, FailWithoutGh, SearchIssue,
      CreateIssue, RecordIssue, RecordFileFailure, ListFiled, LaunchSeat, RecordSeat,
      RecordLaunchFailure, RetireStale, Crash

LEMMA StepKeepsRoomy ==
  ASSUME BrokerInv, Roomy, BrokerNext
  PROVE  Roomy'
<1>0. /\ TypeOK /\ TypeOK' /\ now \in Nat /\ now' \in Nat /\ now' >= now /\ now >= 1
      /\ trail \in [Ids -> Seq(Event)] /\ trail' \in [Ids -> Seq(Event)]
      /\ \A id \in Ids : trail[id] \in Seq(Event) /\ trail'[id] \in Seq(Event)
      /\ MaxPerHour \in Nat
  <2>1. TypeOK /\ TypeOK' /\ StoreEffect
    BY BrokerStepsStore, StoreEffectKeeps DEF BrokerInv, Inv
  <2>2. now' >= now
    <3>1. CASE Ids = {}
      BY <2>1, <3>1
      DEF StoreEffect, Tick, Expire, storeVars, TypeOK
    <3>2. CASE Ids # {}
      BY <3>2, StepGrows
    <3> QED BY <3>1, <3>2
  <2> QED BY <2>1, <2>2, ProposalsAssumption DEF TypeOK, Roomy
<1>1. ASSUME NEW id \in Ids
      PROVE  /\ \A k \in DOMAIN trail'[id] : trail'[id][k].at <= now'
             /\ \A k \in Qs(trail'[id]) : trail'[id][k].status = "notified"
  <2>1. CASE trail'[id] = trail[id]
    <3>1. \A k \in DOMAIN trail[id] : trail[id][k].at <= now /\ trail[id][k].at \in Nat
      BY <1>0, EventTimes DEF Roomy
    <3> QED BY <1>0, <2>1, <3>1 DEF Roomy, QuestionsAreNotices
  <2>2. CASE trail'[id] # trail[id]
    <3>1. PICK e \in Event :
            /\ Longer(trail[id], trail'[id], e) /\ e.at = now /\ now' = now
            /\ e.detail = "asked" => e.status = "notified"
      BY <2>2, StepGrows
    <3>2. /\ DOMAIN trail'[id] = DOMAIN trail[id] \cup {Len(trail[id]) + 1}
          /\ \A k \in DOMAIN trail[id] : trail'[id][k] = trail[id][k]
      BY <1>0, <3>1, LongerQs
    <3>3. trail'[id][Len(trail[id]) + 1] = e
      BY <3>1 DEF Longer
    <3> QED BY <1>0, <3>1, <3>2, <3>3 DEF Roomy, QuestionsAreNotices, Qs
  <2> QED BY <2>1, <2>2
<1>2. \A t : /\ IsFiniteSet(Asked(trail, t)) /\ Cardinality(Asked(trail, t)) \in Nat
             /\ Cardinality(Asked(trail', t)) \in Nat
  BY <1>0, AskedFinite
<1>3. ASSUME NEW t \in Nat, now' = now, NEW o \in Ids,
             Asked(trail', t) \subseteq Asked(trail, t) \cup {<<o, Len(trail[o]) + 1>>}
      PROVE  Cardinality(Asked(trail', t)) <= Cardinality(Asked(trail, t)) + 1
  <2> DEFINE A == Asked(trail, t)
             x == <<o, Len(trail[o]) + 1>>
             B == Asked(trail', t)
  <2>1. IsFiniteSet(A) /\ B \in SUBSET (A \cup {x})
    BY <1>2, <1>3
  <2>2. Cardinality(A) \in Nat /\ Cardinality(B) \in Nat
    BY <1>2
  <2> HIDE DEF A, B, x
  <2>3. IsFiniteSet(A \cup {x}) /\ Cardinality(A \cup {x}) <= Cardinality(A) + 1
    BY <2>1, <2>2, FS_AddElement
  <2>4. Cardinality(B) <= Cardinality(A \cup {x})
    BY <2>1, <2>3, FS_Subset
  <2>5. Cardinality(A \cup {x}) \in Nat
    BY <2>3, FS_CardinalityType
  <2>6. Cardinality(B) <= Cardinality(A) + 1
    BY <2>2, <2>3, <2>4, <2>5
  <2> QED BY <2>6 DEF A, B
\* The loop's room.
<1>4. ASSUME pc' \in {"ask", "notified"}
      PROVE  IsFiniteSet(todo') /\ Cardinality(Asked(trail', now')) + Cardinality(todo') <= MaxPerHour
  <2>1. CASE pc = "idle" /\ trail' = trail /\ now' = now /\ todo' \in {Due, {}}
    <3>1. Cardinality(Asked(trail, now)) <= MaxPerHour
      BY <1>0 DEF Roomy
    <3>2. CASE todo' = {}
      <4>1. IsFiniteSet(todo') /\ Cardinality(todo') = 0
        BY <3>2, FS_EmptySet
      <4> QED BY <1>2, <2>1, <3>1, <4>1
    <3>3. CASE todo' = Due /\ Due # {}
      <4>1. IsFiniteSet(Due) /\ Cardinality(Asked(trail, now)) + Cardinality(Due) <= MaxPerHour
        BY <1>0, <3>3, DueFits DEF Roomy
      <4> QED BY <2>1, <3>3, <4>1
    <3> QED BY <2>1, <3>2, <3>3
  <2>2. CASE /\ pc \in {"ask", "notified"} /\ todo' = todo
             /\ ~(\E o \in Ids : Asking(o))
    <3>1. /\ IsFiniteSet(todo) /\ Cardinality(todo) \in Nat
          /\ Cardinality(Asked(trail, now)) + Cardinality(todo) <= MaxPerHour
      BY <2>2, FS_CardinalityType DEF Roomy
    <3>2. Asked(trail', now') = Asked(trail, now')
      BY <1>0, <2>2, StepAsks
    <3>3. Cardinality(Asked(trail, now')) <= Cardinality(Asked(trail, now))
      BY <1>0, HourPasses
    <3> QED BY <1>0, <1>2, <2>2, <3>1, <3>2, <3>3
  <2>3. CASE /\ pc \in {"ask", "notified"}
             /\ now' = now /\ \E row \in todo : todo' = todo \ {row}
    <3>1. /\ IsFiniteSet(todo) /\ Cardinality(todo) \in Nat
          /\ Cardinality(Asked(trail, now)) + Cardinality(todo) <= MaxPerHour
      BY <2>3, FS_CardinalityType DEF Roomy
    <3>2. PICK row \in todo : todo' = todo \ {row}
      BY <2>3
    <3>3. IsFiniteSet(todo') /\ Cardinality(todo') = Cardinality(todo) - 1
      BY <3>1, <3>2, FS_RemoveElement
    <3>4. Cardinality(Asked(trail', now)) <= Cardinality(Asked(trail, now)) + 1
      <4>1. \/ Asked(trail', now) = Asked(trail, now)
            \/ \E o \in Ids : Asked(trail', now) \subseteq
                                Asked(trail, now) \cup {<<o, Len(trail[o]) + 1>>}
        BY <1>0, StepAsks
      <4>2. CASE Asked(trail', now) = Asked(trail, now)
        BY <1>2, <4>2
      <4>3. CASE \E o \in Ids : Asked(trail', now) \subseteq
                                  Asked(trail, now) \cup {<<o, Len(trail[o]) + 1>>}
        BY <1>0, <1>3, <2>3, <4>3
      <4> QED BY <4>1, <4>2, <4>3
    <3> QED BY <1>0, <1>2, <2>3, <3>1, <3>3, <3>4
  <2> QED BY <1>4, <2>1, <2>2, <2>3, AskLoop
\* Every hour up to now.
<1>5. ASSUME NEW t \in 1..now'
      PROVE  Cardinality(Asked(trail', t)) <= MaxPerHour
  <2>1. CASE Asked(trail', t) = Asked(trail, t)
    <3>1. CASE t <= now
      BY <1>0, <2>1, <3>1 DEF Roomy
    <3>2. CASE ~(t <= now)
      <4>1. Cardinality(Asked(trail, t)) <= Cardinality(Asked(trail, now))
        BY <1>0, <3>2, HourPasses
      <4>2. Cardinality(Asked(trail, now)) <= MaxPerHour
        BY <1>0 DEF Roomy
      <4> QED BY <1>0, <1>2, <2>1, <4>1, <4>2
    <3> QED BY <3>1, <3>2
  <2>2. CASE now' = now /\ ~(t < now) /\ \E o \in Ids : Asking(o)
    <3>1. t = now' /\ pc' = "ask"
      BY <1>0, <2>2 DEF Asking
    <3>2. /\ IsFiniteSet(todo')
          /\ Cardinality(Asked(trail', t)) + Cardinality(todo') <= MaxPerHour
      BY <1>4, <3>1
    <3>3. Cardinality(todo') \in Nat
      BY <3>2, FS_CardinalityType
    <3> QED BY <1>0, <1>2, <3>2, <3>3
  <2> QED BY <1>0, <2>1, <2>2, StepAsks
<1>6. QuestionsAreNotices'
  BY <1>1 DEF QuestionsAreNotices
<1>7. now' >= 1
  BY <1>0
<1> QED BY <1>1, <1>4, <1>5, <1>6, <1>7 DEF Roomy

\* No hour holds more recorded questions than the cap, whatever fails and whoever else uses the
\* store: what the pass computed as due at its start still fits when it asks the last of it
\* (proposal.go:700-760, voice-proposals-broker:131-158).
THEOREM NoticesStayWithinCap == BrokerSpec => []NoticesWithinCap
<1>1. BrokerInit => Roomy
  <2>1. SUFFICES ASSUME BrokerInit PROVE Roomy
    OBVIOUS
  <2>2. now = 1 /\ pc = "idle"
    BY <2>1 DEF BrokerInit, Init
  <2>3. ASSUME NEW id \in Ids
        PROVE  DOMAIN trail[id] = {}
    <3>1. trail = [o \in Ids |-> <<>>]
      BY <2>1 DEF BrokerInit, Init
    <3>2. \A s \in Seq(Event) : s = <<>> => DOMAIN s = {}
      OBVIOUS
    <3>3. <<>> \in Seq(Event)
      OBVIOUS
    <3> QED BY <3>1, <3>2, <3>3
  <2>4. \A t : Asked(trail, t) = {}
    BY <2>3 DEF Asked, Counted, Qs
  <2>5. QuestionsAreNotices
    BY <2>3 DEF QuestionsAreNotices, Qs
  <2> QED BY <2>2, <2>3, <2>4, <2>5, FS_EmptySet, ProposalsAssumption DEF Roomy
<1>2. ASSUME Roomy, UNCHANGED vars
      PROVE  Roomy'
  BY <1>2 DEF vars, storeVars, brokerVars, Roomy, QuestionsAreNotices
<1>3. BrokerInv /\ Roomy /\ [BrokerNext]_vars => Roomy'
  BY <1>2, StepKeepsRoomy
<1>4. Roomy => NoticesWithinCap
  BY QuestionsAreQs DEF Roomy, NoticesWithinCap
<1> QED BY <1>1, <1>3, <1>4, BrokerSpecInv, PTL DEF BrokerSpec
=============================================================================

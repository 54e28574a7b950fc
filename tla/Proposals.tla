----------------------------- MODULE Proposals -----------------------------
(***************************************************************************)
(* The durable store of feature proposals (internal/proposal) behind the   *)
(* `voice proposals` commands (cmd/voice/proposals.go).                    *)
(*                                                                         *)
(* Every command is one SQLite transaction that writes a row and appends   *)
(* one event to that row's audit trail, so each operation is one action.   *)
(* A proposal is identified with its fingerprint: an element of Ids is one *)
(* request, whose row may not exist yet.  Wording (title, scope, risks,    *)
(* the text of a detail) is left out; a detail is reduced to the kind of   *)
(* event that wrote it, which is what tells the owner's own approval from  *)
(* a row that merely carries the status "approved".                        *)
(***************************************************************************)
EXTENDS Naturals, Sequences, FiniteSets

CONSTANTS
  Ids,          \* the requests, numbered so that equal creation times have an order
  Issues,       \* GitHub issue numbers
  Hour,         \* the trailing window of the notice cap
  MaxPerHour,   \* proposals.max_per_hour: notices per Hour, 0 asks nobody
  RetryAfter,   \* proposals.retry_after: an unanswered question is asked again
  ExpireAfter,  \* proposals.expire
  MaxTime,      \* bound: the clock stops there
  MaxEvents     \* bound: a trail this long takes no new request and no retry

ASSUME ProposalsAssumption ==
  /\ Ids \subseteq Nat \ {0} /\ IsFiniteSet(Ids)
  /\ Issues \subseteq Nat \ {0}
  /\ Hour \in Nat /\ MaxPerHour \in Nat /\ RetryAfter \in Nat
  /\ ExpireAfter \in Nat \ {0}
  /\ MaxTime \in Nat /\ MaxEvents \in Nat

VARIABLES
  rows,   \* the proposals table; status "absent" where no row exists
  trail,  \* the proposal_events table: the events of each proposal, oldest first
  now     \* the wall clock the commands read

storeVars == <<rows, trail, now>>

----------------------------------------------------------------------------
Statuses == {"pending", "notified", "approved", "declined", "issue_created",
             "implementing", "completed", "failed", "expired"}

\* What wrote an event: the request itself, a question, an answer, ...
Details == {"recorded", "reopened", "requested again", "asked", "answered", "issue",
            "seat", "completed", "failed", "retrying", "expired"}

Event == [status : Statuses, detail : Details, at : Nat]

\* An implementation seat is named after its issue, so the name is the number.
Row == [status : Statuses \cup {"absent"}, issue : Issues \cup {0}, agent : Issues \cup {0},
        notified : Nat, requested : Nat, created : Nat]

Terminal(s) == s \in {"declined", "completed", "failed", "expired"}

\* Mutant: an answer that comes after the question expired still counts.
LegalTransition_LateAnswer(from, to) ==
  \/ from \in {"pending", "notified"} /\ to \in {"notified", "approved", "declined", "expired"}
  \/ from = "expired" /\ to \in {"approved", "declined"}
  \/ from = "approved" /\ to \in {"issue_created", "failed"}
  \/ from = "issue_created" /\ to \in {"implementing", "failed"}
  \/ from = "implementing" /\ to \in {"completed", "failed"}

\* Mutant: a question that could not be asked may be failed before the owner answered.
LegalTransition_FailsOpen(from, to) ==
  \/ from \in {"pending", "notified"}
     /\ to \in {"notified", "approved", "declined", "expired", "failed"}
  \/ from = "approved" /\ to \in {"issue_created", "failed"}
  \/ from = "issue_created" /\ to \in {"implementing", "failed"}
  \/ from = "implementing" /\ to \in {"completed", "failed"}

LegalTransition(from, to) ==
  \/ from \in {"pending", "notified"} /\ to \in {"notified", "approved", "declined", "expired"}
  \/ from = "approved" /\ to \in {"issue_created", "failed"}
  \/ from = "issue_created" /\ to \in {"implementing", "failed"}
  \/ from = "implementing" /\ to \in {"completed", "failed"}

\* Time 0 is the zero time: a row never notified.
NoRow == [status |-> "absent", issue |-> 0, agent |-> 0, notified |-> 0,
          requested |-> 0, created |-> 0]

Init ==
  /\ rows = [id \in Ids |-> NoRow]
  /\ trail = [id \in Ids |-> <<>>]
  /\ now = 1

----------------------------------------------------------------------------
\* One transaction: a row and an audit event, both or neither.
Write(id, row, status, detail) ==
  /\ rows' = [rows EXCEPT ![id] = row]
  /\ trail' = [trail EXCEPT ![id] =
                 Append(@, [status |-> status, detail |-> detail, at |-> now])]
  /\ UNCHANGED now

\* A request the agent could not satisfy, folded into the proposal that already covers it.
Record(id) ==
  LET row == rows[id] IN
  \/ /\ row.status = "absent"
     /\ Write(id, [NoRow EXCEPT !.status = "pending", !.requested = now, !.created = now],
              "pending", "recorded")
  \/ /\ Terminal(row.status)
     /\ Write(id, [row EXCEPT !.status = "pending", !.issue = 0, !.agent = 0,
                              !.notified = 0, !.requested = now], "pending", "reopened")
  \/ /\ row.status # "absent" /\ ~Terminal(row.status)
     /\ Write(id, [row EXCEPT !.requested = now], row.status, "requested again")

Transition(id, to, detail) ==
  /\ LegalTransition(rows[id].status, to)
  /\ Write(id, [rows[id] EXCEPT !.status = to,
                                !.notified = IF to = "notified" THEN now ELSE @], to, detail)

Notify(id)   == Transition(id, "notified", "asked")
Approve(id)  == Transition(id, "approved", "answered")
Decline(id)  == Transition(id, "declined", "answered")
Complete(id) == Transition(id, "completed", "completed")
Fail(id)     == Transition(id, "failed", "failed")

\* A second, different number is refused; repeating the recorded one changes nothing.
TakesIssue(id, number) ==
  /\ rows[id].issue \in {0, number}
  /\ ~(rows[id].issue = number /\ rows[id].status = "issue_created")
  /\ LegalTransition(rows[id].status, "issue_created")

SetIssue(id, number) ==
  /\ TakesIssue(id, number)
  /\ Write(id, [rows[id] EXCEPT !.issue = number, !.status = "issue_created"],
           "issue_created", "issue")

\* A relaunched seat may rename an implementing proposal.
TakesAgent(id, name) ==
  /\ ~(rows[id].agent = name /\ rows[id].status = "implementing")
  /\ rows[id].status = "implementing" \/ LegalTransition(rows[id].status, "implementing")

SetAgent(id, name) ==
  /\ TakesAgent(id, name)
  /\ Write(id, [rows[id] EXCEPT !.agent = name, !.status = "implementing"],
           "implementing", "seat")

\* approvedTx: the evidence is the trail, not the status the row has now.
EverApproved(id) == \E k \in DOMAIN trail[id] : trail[id][k].status = "approved"

\* Back to the last stage that succeeded.
Retry(id) ==
  LET resume == IF rows[id].issue # 0 THEN "issue_created" ELSE "approved" IN
  /\ rows[id].status = "failed"
  /\ EverApproved(id)
  /\ Write(id, [rows[id] EXCEPT !.status = resume], resume, "retrying")

\* Mutant: the clock runs from the first request.
Stale_SinceCreated(id) ==
  /\ rows[id].status \in {"pending", "notified"}
  /\ rows[id].created + ExpireAfter <= now

\* The clock of an expiry runs from the last request, never from the last notice.
Stale(id) ==
  /\ rows[id].status \in {"pending", "notified"}
  /\ rows[id].requested + ExpireAfter <= now

Expire ==
  /\ \E id \in Ids : Stale(id)
  /\ rows' = [id \in Ids |-> IF Stale(id) THEN [rows[id] EXCEPT !.status = "expired"]
                                          ELSE rows[id]]
  /\ trail' = [id \in Ids |->
       IF Stale(id)
       THEN Append(trail[id], [status |-> "expired", detail |-> "expired", at |-> now])
       ELSE trail[id]]
  /\ UNCHANGED now

\* Mutant: only the notices of this very instant count.
NoticesCounted_Instant ==
  Cardinality(UNION {{<<id, k>> : k \in {i \in DOMAIN trail[id] :
                         trail[id][i].status = "notified" /\ trail[id][i].at = now}} : id \in Ids})

\* The events of every proposal whose status is "notified", in the trailing hour.
NoticesCounted ==
  LET Counts(event) == event.status = "notified" /\ now < event.at + Hour IN
  Cardinality(UNION {{<<id, k>> : k \in {i \in DOMAIN trail[id] : Counts(trail[id][i])}} :
                     id \in Ids})

Before(a, b) == \/ rows[a].created < rows[b].created
                \/ rows[a].created = rows[b].created /\ a < b

\* The questions the broker may carry to the owner now: the oldest ones the cap leaves room for.
DueForNotice ==
  LET waiting == {id \in Ids :
        \/ rows[id].status = "pending"
        \/ /\ RetryAfter > 0 /\ rows[id].status = "notified"
           /\ rows[id].notified # 0 /\ rows[id].notified + RetryAfter <= now}
      recent == NoticesCounted
  IN {id \in waiting : Cardinality({o \in waiting : Before(o, id)}) + recent < MaxPerHour}

Tick == now < MaxTime /\ now' = now + 1 /\ UNCHANGED <<rows, trail>>

----------------------------------------------------------------------------
\* Any command, from any caller, in any order.
Command(id) ==
  \/ Record(id) \/ Notify(id) \/ Approve(id) \/ Decline(id) \/ Complete(id) \/ Fail(id)
  \/ Retry(id)
  \/ \E n \in Issues : SetIssue(id, n) \/ SetAgent(id, n)

Next ==
  \/ Tick
  \/ Expire
  \/ \E id \in Ids : Len(trail[id]) < MaxEvents /\ Command(id)

Spec == Init /\ [][Next]_storeVars

----------------------------------------------------------------------------
\* The tables and the clock hold what their columns may hold.
TypeOK ==
  /\ rows \in [Ids -> Row]
  /\ trail \in [Ids -> Seq(Event)]
  /\ now \in Nat

\* The stages only the owner's answer opens, and the ones that carry an issue.
Downstream == {"approved", "issue_created", "implementing", "completed", "failed"}
Tracked == {"issue_created", "implementing", "completed"}

Asks == {"recorded", "reopened", "requested again"}

\* By event k the owner had approved the current cycle: nothing reopened it since.
GrantedBy(id, k) ==
  \E g \in 1..k :
    /\ trail[id][g].status = "approved" /\ trail[id][g].detail = "answered"
    /\ \A j \in g..k : trail[id][j].detail # "reopened"

\* The authorization boundary, over the whole history: every event at a stage past approval
\* follows an approval the owner gave in the same cycle.  A decline, an expiry, a reopening
\* or a retry never leads to work by any sequence of commands.
WorkIsGranted ==
  \A id \in Ids : \A k \in DOMAIN trail[id] :
    trail[id][k].status \in Downstream => GrantedBy(id, k)

\* A row has an issue exactly while its cycle is past filing; Retry relies on this to choose
\* between filing again and launching again (a failed row may be on either side).
IssueMatchesStage ==
  \A id \in Ids :
    /\ rows[id].status \in Tracked => rows[id].issue # 0
    /\ rows[id].issue # 0 => rows[id].status \in Tracked \cup {"failed"}
    /\ rows[id].agent # 0 => rows[id].issue # 0

\* One proposal, one issue: once set, the number is never repointed; only the reopening of a
\* closed cycle clears it.
IssueSticks ==
  [][\A id \in Ids :
       rows[id].issue # 0 /\ rows'[id].issue # rows[id].issue
         => /\ Terminal(rows[id].status)
            /\ rows'[id].status = "pending" /\ rows'[id].issue = 0]_rows

\* A proposal expires only after ExpireAfter without a request, however often it was notified.
ExpiryFollowsOwner ==
  \A id \in Ids : \A k \in DOMAIN trail[id] :
    trail[id][k].status = "expired" =>
      \A j \in 1..(k - 1) :
        trail[id][j].detail \in Asks => trail[id][j].at + ExpireAfter <= trail[id][k].at
=============================================================================

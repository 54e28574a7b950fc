-------------------------- MODULE ProposalsBroker --------------------------
(***************************************************************************)
(* The owner-side broker (packaging/voice-proposals-broker) over the store *)
(* of module Proposals, with the outside it drives: the approver's seat,   *)
(* the GitHub issue tracker and the herdr implementation seats.            *)
(*                                                                         *)
(* One pass asks the owner about due proposals, files an issue for each    *)
(* approved one, launches a seat for each filed one and retires stale      *)
(* ones.  A systemd timer starts passes, so two never overlap.  Every      *)
(* `proposals`, `gh` and `herdr` call is one step; between two steps the   *)
(* voice agent, the owner and an operator run commands of their own, and   *)
(* the pass may die.  Each loop works through a snapshot (todo) it read    *)
(* before its first step.                                                  *)
(***************************************************************************)
EXTENDS Proposals

CONSTANTS
  FaultKinds,  \* the outside calls that may fail
  MaxFaults    \* bound: how many of them fail

ASSUME BrokerAssumption ==
  /\ FaultKinds \subseteq {"approver", "no_gh", "search", "create", "herdr", "launch", "store",
                     "crash"}
  /\ MaxFaults \in Nat

VARIABLES
  pc,      \* the step of the pass under way, "idle" between passes
  todo,    \* the rows the current loop still has to visit
  number,  \* $number: the issue found or filed for the row being visited
  listed,  \* $agents: the implementation seats named by `herdr agent list`
  faults,  \* failures so far
  asked,   \* how often each proposal was put to the owner
  blind,   \* ghost: how often a search failed for a proposal that had an issue
  github,  \* the issues filed: the proposal of each number, 0 where none
  seats    \* per issue: how many live agents are named after it

brokerVars == <<pc, todo, number, listed>>
world == <<asked, blind, github, seats>>
vars == <<storeVars, brokerVars, faults, world>>

----------------------------------------------------------------------------
Steps == {"idle", "ask", "notified", "search", "create", "issue", "file_failed", "no_gh",
          "launch", "implementing", "launch_failed", "expire"}

BrokerInit ==
  /\ Init
  /\ pc = "idle" /\ todo = {} /\ number = 0 /\ listed = {}
  /\ faults = 0
  /\ asked = [id \in Ids |-> 0]
  /\ blind = [id \in Ids |-> 0]
  /\ github = [n \in Issues |-> 0]
  /\ seats = [n \in Issues |-> 0]

Fault(kind) == kind \in FaultKinds /\ faults < MaxFaults /\ faults' = faults + 1
NoFault == UNCHANGED faults

\* `proposals list --json`: the rows at one stage, with the issue each carries.
Snapshot(status) ==
  {[id |-> id, issue |-> rows[id].issue] : id \in {i \in Ids : rows[i].status = status}}

\* `proposals due --json`.
Due == {[id |-> id, issue |-> rows[id].issue] : id \in DueForNotice}

\* The loops visit the rows in the order of the listing.
Visiting(row) == row \in todo /\ \A other \in todo \ {row} : Before(row.id, other.id)

\* A command the broker runs: where the store refuses it nothing changes, it may also fail, and
\* the pass carries on either way.
Runs(allowed, command) ==
  \/ command /\ NoFault
  \/ ~allowed /\ UNCHANGED storeVars /\ NoFault
  \/ UNCHANGED storeVars /\ Fault("store")

RunsTransition(id, to, detail) ==
  Runs(LegalTransition(rows[id].status, to), Transition(id, to, detail))

\* The loop moves on to its next row.
Visited(row) == todo' = todo \ {row} /\ number' = 0

----------------------------------------------------------------------------
\* 1. Ask the owner.  The timer starts a pass only when none runs.

\* An approver's seat that is missing or silent skips the questions, never the rest.
StartPass ==
  /\ pc = "idle" /\ pc' = "ask"
  /\ \/ todo' = Due /\ NoFault
     \/ todo' = {} /\ Due # {} /\ Fault("approver")
  /\ UNCHANGED <<storeVars, number, listed, world>>

\* Mutant: a question that could not be delivered is recorded all the same.
AskOwner_RecordsAll ==
  /\ pc = "ask" /\ pc' = "notified"
  /\ \E row \in todo :
       /\ Visiting(row)
       /\ \/ asked' = [asked EXCEPT ![row.id] = @ + 1] /\ NoFault
          \/ UNCHANGED asked /\ Fault("approver")
  /\ UNCHANGED <<storeVars, todo, number, listed, blind, github, seats>>

\* The question is put to the owner through the approver's seat, without waiting for the answer.
AskOwner ==
  /\ pc = "ask"
  /\ \E row \in todo :
       /\ Visiting(row)
       /\ \/ /\ asked' = [asked EXCEPT ![row.id] = @ + 1]
             /\ pc' = "notified" /\ UNCHANGED <<todo, number>> /\ NoFault
          \/ UNCHANGED <<pc, asked>> /\ Visited(row) /\ Fault("approver")
  /\ UNCHANGED <<storeVars, listed, blind, github, seats>>

\* Mutant: the pass waits for the owner's answer.
RecordNotice_Waits ==
  /\ pc = "notified" /\ pc' = "ask"
  /\ \E row \in todo : /\ Visiting(row) /\ Visited(row)
                       /\ rows[row.id].status \notin {"pending", "notified"}
  /\ UNCHANGED <<storeVars, listed, faults, world>>

\* Only after delivery was accepted.
RecordNotice ==
  /\ pc = "notified" /\ pc' = "ask"
  /\ \E row \in todo : /\ Visiting(row) /\ Visited(row)
                       /\ RunsTransition(row.id, "notified", "asked")
  /\ UNCHANGED <<listed, world>>

----------------------------------------------------------------------------
\* 2. File one issue per approved proposal.

\* Mutant: the rows the owner was asked about are filed with the approved ones.
ListApproved_Asked ==
  /\ pc = "ask" /\ todo = {} /\ pc' = "search"
  /\ todo' = Snapshot("approved") \cup Snapshot("notified")
  /\ UNCHANGED <<storeVars, number, listed, faults, world>>

ListApproved ==
  /\ pc = "ask" /\ todo = {}
  /\ todo' = Snapshot("approved")
  /\ \/ pc' = "search" /\ NoFault
     \/ pc' = "no_gh" /\ todo' # {} /\ Fault("no_gh")
  /\ UNCHANGED <<storeVars, number, listed, world>>

\* Without the GitHub CLI every approved proposal is failed, and nothing is filed.
FailWithoutGh ==
  /\ pc = "no_gh"
  /\ \E row \in todo : /\ Visiting(row) /\ Visited(row)
                       /\ RunsTransition(row.id, "failed", "failed")
                       /\ pc' = IF todo' = {} THEN "search" ELSE pc
  /\ UNCHANGED <<listed, world>>

\* Mutant: the search result is not narrowed to the issues whose body holds the proposal's id.
Filed_AnyIssue(id) == {n \in Issues : (github[n] = 0) <=> (id = 0)}

\* The issues filed for a proposal; under 0, the numbers not used yet.
Filed(id) == {n \in Issues : github[n] = id}

\* Mutant: an approved proposal is filed without looking for an issue it already has.
SearchIssue_Skipped ==
  /\ pc = "search" /\ pc' = "create"
  /\ \E row \in todo : Visiting(row)
  /\ UNCHANGED <<storeVars, todo, number, listed, faults, world>>

\* A search that fails misses the issues the proposal has.
Misses(id) == blind' = IF Filed(id) = {} THEN blind ELSE [blind EXCEPT ![id] = @ + 1]

\* Ask GitHub before filing; a search that fails reads like a search that finds nothing.
SearchIssue ==
  /\ pc = "search"
  /\ \E row \in todo :
       /\ Visiting(row)
       /\ \/ \E n \in Filed(row.id) :
               number' = n /\ pc' = "issue" /\ UNCHANGED blind /\ NoFault
          \/ Filed(row.id) = {} /\ number' = 0 /\ pc' = "create" /\ UNCHANGED blind /\ NoFault
          \/ number' = 0 /\ pc' = "create" /\ Misses(row.id) /\ Fault("search")
  /\ UNCHANGED <<storeVars, todo, listed, asked, github, seats>>

\* `gh issue create` files the next number.  Its failure may hide an issue that was filed: the
\* reply was lost, or named no number.
CreateIssue ==
  /\ pc = "create"
  /\ \E row \in todo, n \in Filed(0) :
       /\ Visiting(row) /\ \A m \in Filed(0) : n <= m
       /\ LET filed == [github EXCEPT ![n] = row.id] IN
          \/ github' = filed /\ number' = n /\ pc' = "issue" /\ NoFault
          \/ github' \in {filed, github} /\ number' = 0 /\ pc' = "file_failed" /\ Fault("create")
  /\ UNCHANGED <<storeVars, todo, listed, asked, blind, seats>>

RecordIssue ==
  /\ pc = "issue" /\ pc' = "search"
  /\ \E row \in todo :
       /\ Visiting(row) /\ Visited(row)
       /\ Runs(TakesIssue(row.id, number), SetIssue(row.id, number))
  /\ UNCHANGED <<listed, world>>

RecordFileFailure ==
  /\ pc = "file_failed" /\ pc' = "search"
  /\ \E row \in todo : /\ Visiting(row) /\ Visited(row)
                       /\ RunsTransition(row.id, "failed", "failed")
  /\ UNCHANGED <<listed, world>>

----------------------------------------------------------------------------
\* 3. Launch one seat per filed issue.

\* Mutant: the seats that already run are not consulted.
ListFiled_NoSeats ==
  /\ pc = "search" /\ todo = {} /\ pc' = "launch"
  /\ todo' = Snapshot("issue_created")
  /\ UNCHANGED <<storeVars, number, listed, faults, world>>

\* The list is read again, so an approval decided during the pass is not left for the next.
ListFiled ==
  /\ pc = "search" /\ todo = {} /\ pc' = "launch"
  /\ \/ /\ todo' = Snapshot("issue_created")
        /\ listed' = {n \in Issues : seats[n] > 0}
        /\ NoFault
     \/ todo' = {} /\ UNCHANGED listed /\ Fault("herdr")
  /\ UNCHANGED <<storeVars, number, world>>

\* A seat that already carries the issue's name is this proposal's seat.  Otherwise launch_seat
\* starts one, renames it and briefs it, and may fail before the rename or after it.
LaunchSeat ==
  /\ pc = "launch"
  /\ \E row \in todo :
       /\ Visiting(row)
       /\ IF row.issue \in listed
          THEN pc' = "implementing" /\ UNCHANGED seats /\ NoFault
          ELSE LET started == [seats EXCEPT ![row.issue] = @ + 1]
               IN \/ seats' = started /\ pc' = "implementing" /\ NoFault
                  \/ seats' \in {seats, started} /\ pc' = "launch_failed" /\ Fault("launch")
  /\ UNCHANGED <<storeVars, todo, number, listed, asked, blind, github>>

RecordSeat ==
  /\ pc = "implementing" /\ pc' = "launch"
  /\ \E row \in todo :
       /\ Visiting(row) /\ Visited(row)
       /\ Runs(TakesAgent(row.id, row.issue), SetAgent(row.id, row.issue))
  /\ UNCHANGED <<listed, world>>

RecordLaunchFailure ==
  /\ pc = "launch_failed" /\ pc' = "launch"
  /\ \E row \in todo : /\ Visiting(row) /\ Visited(row)
                       /\ RunsTransition(row.id, "failed", "failed")
  /\ UNCHANGED <<listed, world>>

\* 4. Age out the rest.
RetireStale ==
  /\ pc = "launch" /\ todo = {} /\ pc' = "idle"
  /\ listed' = {}
  /\ Runs(\E id \in Ids : Stale(id), Expire)
  /\ UNCHANGED <<todo, number, world>>

\* The pass is killed, or a listing it cannot do without fails.
Crash ==
  /\ pc # "idle" /\ pc' = "idle"
  /\ todo' = {} /\ number' = 0 /\ listed' = {}
  /\ Fault("crash")
  /\ UNCHANGED <<storeVars, world>>

----------------------------------------------------------------------------
\* The agent records requests, the owner answers, an operator closes and retries.
Others ==
  /\ \E id \in Ids : \/ Len(trail[id]) < MaxEvents /\ (Record(id) \/ Retry(id))
                     \/ Approve(id) \/ Decline(id) \/ Complete(id) \/ Fail(id)
  /\ UNCHANGED <<brokerVars, faults, world>>

\* An implementation seat finishes or is closed.
SeatEnds ==
  /\ \E n \in Issues : seats[n] > 0 /\ seats' = [seats EXCEPT ![n] = 0]
  /\ UNCHANGED <<storeVars, brokerVars, faults, asked, blind, github>>

Clock == Tick /\ UNCHANGED <<brokerVars, faults, world>>

PassStep ==
  \/ StartPass \/ AskOwner \/ RecordNotice
  \/ ListApproved \/ FailWithoutGh \/ SearchIssue \/ CreateIssue \/ RecordIssue
  \/ RecordFileFailure
  \/ ListFiled \/ LaunchSeat \/ RecordSeat \/ RecordLaunchFailure
  \/ RetireStale

BrokerNext == PassStep \/ Crash \/ Others \/ SeatEnds \/ Clock

BrokerSpec == BrokerInit /\ [][BrokerNext]_vars

\* The timer keeps starting passes and a pass takes its next step; nobody is obliged to speak,
\* answer or repair.  Failures are finitely many (MaxFaults).
FairBrokerSpec == BrokerSpec /\ WF_vars(PassStep)

----------------------------------------------------------------------------
BrokerTypeOK ==
  /\ TypeOK
  /\ pc \in Steps
  /\ todo \subseteq [id : Ids, issue : Issues \cup {0}]
  /\ number \in Issues \cup {0}
  /\ listed \subseteq Issues
  /\ faults \in 0..MaxFaults
  /\ asked \in [Ids -> Nat]
  /\ blind \in [Ids -> Nat]
  /\ github \in [Issues -> Ids \cup {0}]
  /\ seats \in [Issues -> Nat]

\* Nothing happens in the owner's name without the owner: an issue is filed, and a seat started
\* for it, only for a proposal whose history holds the owner's approval.
WorkNeedsGrant ==
  \A n \in Issues :
    /\ github[n] # 0 => EverApproved(github[n])
    /\ seats[n] > 0 => github[n] # 0

\* The issue a row carries is one filed for that very proposal.
RowTracksOwnIssue == \A id \in Ids : rows[id].issue # 0 => github[rows[id].issue] = id

\* However the pass dies between filing and recording, and however often a proposal is retried
\* or reopened: a proposal has one issue, and one more for each search that failed when it had.
IssuesPerBlindSearch == \A id \in Ids : Cardinality(Filed(id)) <= 1 + blind[id]

\* However the pass dies between launching and recording, an issue has one live seat.
OneSeatPerIssue == \A n \in Issues : seats[n] <= 1

Questions(id) == {k \in DOMAIN trail[id] : trail[id][k].detail = "asked"}

\* The events that record a question, in the hour that ends at t.
QuestionsUpTo(t) ==
  UNION {{<<id, k>> : k \in {q \in Questions(id) :
            trail[id][q].at <= t /\ t < trail[id][q].at + Hour}} : id \in Ids}

\* No hour holds more recorded questions than proposals.max_per_hour.
NoticesWithinCap == \A t \in 1..now : Cardinality(QuestionsUpTo(t)) <= MaxPerHour

\* A question is recorded only if one reached the owner, so no proposal is silenced unasked.
NoticeWasAsked == \A id \in Ids : Cardinality(Questions(id)) <= asked[id]

\* A proposal the owner approved is worked on, or says that it failed.
ApprovedIsSettled ==
  \A id \in Ids : rows[id].status \in {"approved", "issue_created"}
                    ~> rows[id].status \notin {"approved", "issue_created"}

\* The flow implements the owner's view of it.
StageOf(status) ==
  CASE status = "absent" -> "none"
    [] status \in {"pending", "notified"} -> "open"
    [] status \in {"approved", "issue_created", "implementing"} -> "granted"
    [] status \in {"declined", "expired"} -> "refused"
    [] status = "failed" -> "stopped"
    [] status = "completed" -> "done"

Owner == INSTANCE OwnerApproval WITH
  stage <- [id \in Ids |-> StageOf(rows[id].status)],
  granted <- {id \in Ids : EverApproved(id)},
  begun <- {github[n] : n \in Issues} \ {0}

\* Store, broker, tracker and seats together keep the promise of module OwnerApproval.
ImplementsOwnerApproval == Owner!Spec

----------------------------------------------------------------------------
\* What the code says of itself and does not do.

\* proposal.go:703: the cap counts the notices already sent.
CapCountsNotices == NoticesCounted = Cardinality(QuestionsUpTo(now))

\* proposal.go:409: a fresh approval is never pointed at the closed cycle's issue.  An issue is
\* recorded once in a cycle, so each recording needs an issue of its own.
FreshIssuePerCycle ==
  \A id \in Ids :
    Cardinality({k \in DOMAIN trail[id] : trail[id][k].detail = "issue"})
      <= Cardinality(Filed(id))
=============================================================================

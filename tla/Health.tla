------------------------------- MODULE Health -------------------------------
(***************************************************************************)
(* What the listener observes of itself (internal/health/health.go) and    *)
(* what it makes of it: the time stamps that capture, segmenter and event  *)
(* loop leave, the stages in progress with their deadlines, and the        *)
(* diagnosis of a snapshot.  A stamp is its age in seconds; seconds are    *)
(* shorter and deadlines nearer than the code's, in the same order.        *)
(* Capture hands its frames to the segmenter one at a time, and where it   *)
(* may recover another microphone (CaptureBoundary) only after the last    *)
(* one is acknowledged.                                                    *)
(***************************************************************************)
EXTENDS Integers, Sequences, FiniteSetsExt

CONSTANTS
    CaptureFreshFor, FreshFor,     \* ages beyond which a stamp is stale
    Budget,        \* seconds a stage may take before it is overdue
    MaxStages      \* bound: stages in progress at once

ASSUME HealthAssumption ==
    CaptureFreshFor \in Nat /\ FreshFor \in Nat /\ CaptureFreshFor < FreshFor /\ Budget \in Nat

Never == -1
Old == FreshFor + 1     \* ages beyond this tell nothing more apart

VARIABLES
    wakeState,   \* "starting", "ready", "unverified" (no detector to start) or "failed"
    handshake,   \* capture recovery is on: a frame is sent once the last is acknowledged
    age,         \* of the start, and of the last frame, delivery, wake progress and loop turn
    closed,      \* the segmenter has returned and the utterances have ended
    pending,     \* a frame was received and not delivered to the segmenter
    stages,      \* in the order they began: name, seconds left
    broken,      \* what is stuck for good: "capture", "segmenter", "loop", "provider", or nothing
    brokenFor

monitorVars == <<wakeState, handshake, closed, age, pending, stages, broken, brokenFor>>

Stamps == {"start", "frame", "delivered", "progress", "loop"}

\* Begin, and what the session runs: the detector's start, work the event loop
\* waits for (wake_transcribe; synthesize, playback, front: "speak"), and the planner's.
Stage(name) == [name |-> name, left |-> Budget]
Waited(s) == s.name # "plan"

LoopWaits == \E i \in DOMAIN stages : Waited(stages[i])
Overdue(s) == s.left < 0

Stale(stamp, limit) == age[stamp] = Never \/ age[stamp] > limit

(***************************************************************************)
(* Snapshot: each rule that applies overrides the ones before it.          *)
(***************************************************************************)
FirstFrameAwaited == age["frame"] = Never /\ age["start"] <= CaptureFreshFor
FirstOverdue == {i \in DOMAIN stages : Overdue(stages[i]) /\ \A j \in 1 .. i - 1 : ~Overdue(stages[j])}

CaptureProblem ==
    IF Stale("frame", CaptureFreshFor) THEN ~FirstFrameAwaited
    ELSE \/ Stale("delivered", CaptureFreshFor)
         \/ wakeState = "ready" /\ age["progress"] # Never /\ Stale("progress", CaptureFreshFor)

DetectorStarts ==
    \E i \in DOMAIN stages :
        /\ stages[i].name = "wake_start" /\ ~Overdue(stages[i]) /\ age["frame"] = Never
        /\ \A j \in 1 .. i - 1 : ~Overdue(stages[j])

\* Bug: the start of the detector excuses whatever else is overdue.
Problem_StartExcuses ==
    /\ ~\E i \in DOMAIN stages : stages[i].name = "wake_start" /\ age["frame"] = Never
    /\ \/ CaptureProblem
       \/ pending /\ Stale("frame", CaptureFreshFor)
       \/ age["loop"] # Never /\ Stale("loop", FreshFor) /\ stages = <<>>
       \/ wakeState = "failed"
       \/ FirstOverdue # {}

Problem ==
    \/ FirstOverdue # {}
    \/ /\ ~DetectorStarts
       /\ \/ CaptureProblem
          \/ pending /\ Stale("frame", CaptureFreshFor)
          \/ age["loop"] # Never /\ Stale("loop", FreshFor) /\ stages = <<>>
          \/ wakeState = "failed"

\* The culprit the diagnosis names, where it names one.  The rules overlap: their order counts.
Diagnosis ==
    IF FirstOverdue # {} THEN "overdue " \o stages[Max(FirstOverdue)].name
    ELSE IF DetectorStarts THEN "starting"
    ELSE IF wakeState = "failed" THEN "wake failed"
    ELSE IF age["loop"] # Never /\ Stale("loop", FreshFor) /\ stages = <<>> THEN "loop"
    ELSE IF pending /\ Stale("frame", CaptureFreshFor) THEN "segmenter"
    ELSE IF FirstFrameAwaited THEN "starting"
    ELSE IF Stale("frame", CaptureFreshFor) THEN "capture"
    ELSE IF Stale("delivered", CaptureFreshFor) THEN "segmenter"
    ELSE IF CaptureProblem THEN "wake progress" ELSE "flowing"

(***************************************************************************)
(* The listener.                                                           *)
(***************************************************************************)
Fresh == [s \in Stamps |-> IF s \in {"start", "loop"} THEN 0 ELSE Never]

\* Run: the loop's first stamp; a detector starts under its stage, before capture.
Reset ==
    /\ \/ wakeState' = "starting" /\ stages' = <<Stage("wake_start")>>
       \/ wakeState' = "unverified" /\ stages' = <<>>
    /\ handshake' \in BOOLEAN /\ closed' = FALSE
    /\ age' = Fresh /\ pending' = FALSE /\ broken' = "nothing" /\ brokenFor' = 0

MonitorInit ==
    /\ \/ wakeState = "starting" /\ stages = <<Stage("wake_start")>>
       \/ wakeState = "unverified" /\ stages = <<>>
    /\ handshake \in BOOLEAN /\ closed = FALSE
    /\ age = Fresh /\ pending = FALSE /\ broken = "nothing" /\ brokenFor = 0

Listening == wakeState # "starting" /\ ~closed

\* A detector has started; it alone reports progress.  Without one, the wake word is
\* looked for in what is transcribed.
Detects == age["progress"] # Never

\* The detector is ready.  If its start fails the process ends with Run.
WakeStarted ==
    /\ wakeState = "starting" /\ broken # "provider"
    /\ wakeState' = "ready" /\ stages' = <<>> /\ age' = [age EXCEPT !["progress"] = 0]
    /\ UNCHANGED <<handshake, closed, pending, broken, brokenFor>>

\* The loop begins one stage at a time; the planner works beside it.  Timers are
\* spoken after the utterances have ended, too.
Begin(name) ==
    /\ wakeState # "starting" /\ broken # "loop" /\ ~LoopWaits /\ Len(stages) < MaxStages
    /\ name = "plan" => Listening
    /\ name = "wake_transcribe" => Listening /\ ~Detects
    /\ \A i \in DOMAIN stages : stages[i].name # name
    /\ stages' = Append(stages, Stage(name))
    /\ UNCHANGED <<wakeState, handshake, closed, age, pending, broken, brokenFor>>

Without(i) == SubSeq(stages, 1, i - 1) \o SubSeq(stages, i + 1, Len(stages))

\* done(err); a provider that is stuck ignores its context and never returns.  Whether
\* an utterance could be transcribed says whether there is wake recognition.
Done(i) ==
    /\ wakeState # "starting" /\ broken # "provider" /\ stages' = Without(i)
    /\ age' = IF Waited(stages[i]) /\ broken # "loop" THEN [age EXCEPT !["loop"] = 0] ELSE age
    /\ IF stages[i].name = "wake_transcribe" THEN wakeState' \in {"ready", "failed"}
       ELSE UNCHANGED wakeState
    /\ UNCHANGED <<handshake, closed, pending, broken, brokenFor>>

\* The segmenter is stuck in a frame it has taken: without the handshake the
\* next one has been received and is pending, with it no other is sent.
Breaks(b) ==
    /\ broken = "nothing" /\ broken' = b /\ brokenFor' = 0
    /\ b = "provider" => stages # <<>>
    /\ b \in {"capture", "segmenter"} => Listening
    /\ b = "loop" => wakeState # "starting"
    /\ IF b = "segmenter"
       THEN pending' = ~handshake /\ age' = [age EXCEPT !["frame"] = 0, !["delivered"] = 0]
       ELSE UNCHANGED <<pending, age>>
    /\ UNCHANGED <<wakeState, handshake, closed, stages>>

\* The utterances end: the session says the detector has failed.
SegmenterCloses ==
    /\ Listening /\ broken \notin {"segmenter", "loop"} /\ ~LoopWaits
    /\ closed' = TRUE /\ wakeState' = "failed"
    /\ UNCHANGED <<handshake, age, pending, stages, broken, brokenFor>>

Older(n, bound) == IF n = Never \/ n >= bound THEN n ELSE n + 1

\* Many frames pass in a second, and the loop turns at least once, if they may.
Captures == wakeState # "starting" /\ broken # "capture"
Segments == Listening /\ broken # "segmenter"
Turns == wakeState # "starting" /\ broken # "loop" /\ ~LoopWaits

\* Utterances that the loop does not fetch fill the segmenter's output: it may stop.
Backlog == LoopWaits \/ broken = "loop"

\* The segmenter takes none: one frame is received and waits for it.  With the handshake
\* there is none to receive while one is unacknowledged; who has returned owes nothing.
Forwards == Captures /\ ~pending /\ (~handshake \/ closed)

\* The stamps renewed in a second in which the segmenter takes frames, or does not.
Renewed(takes) ==
    (IF Captures /\ (takes \/ Forwards) THEN {"frame"} ELSE {})
        \union (IF takes /\ (Captures \/ pending)
                THEN {"delivered"} \union (IF Detects THEN {"progress"} ELSE {}) ELSE {})
        \union (IF Turns THEN {"loop"} ELSE {})

\* A second of the listener's life.  A provider that is not stuck heeds its
\* deadline: no second passes with its stage overdue.
MonitorTick(bound) ==
    /\ broken # "provider" => \A i \in DOMAIN stages : stages[i].left > 0
    /\ \E takes \in {Segments, Segments /\ ~Backlog} :
          /\ age' = [s \in Stamps |-> IF s \in Renewed(takes) THEN 0 ELSE Older(age[s], Old)]
          /\ pending' = (~takes /\ (pending \/ Forwards))
    /\ stages' = [i \in DOMAIN stages |-> [stages[i] EXCEPT !.left = IF @ < 0 THEN @ ELSE @ - 1]]
    /\ brokenFor' = IF broken = "nothing" THEN 0 ELSE Older(brokenFor, bound)
    /\ UNCHANGED <<wakeState, handshake, closed, broken>>

\* What the listener does between two seconds.
MonitorStep ==
    \/ WakeStarted
    \/ \E name \in {"wake_transcribe", "speak", "plan"} : Begin(name)
    \/ \E i \in DOMAIN stages : Done(i)
    \/ \E b \in {"capture", "segmenter", "loop", "provider"} : Breaks(b)
    \/ SegmenterCloses

\* Bound: by then a part that is stuck has used up every allowance.
Horizon == Budget + 2 * FreshFor + 2

(***************************************************************************)
(* What a stuck part may cost before it shows: the age of its stamp, and   *)
(* for the loop, which is excused while a stage is in progress, the stage. *)
(***************************************************************************)
Allowance(b) ==
    CASE b = "nothing" -> Budget + FreshFor
      [] b \in {"capture", "segmenter"} -> CaptureFreshFor
      [] b = "provider" -> Budget
      [] b = "loop" -> Budget + FreshFor

\* Whom the diagnosis may blame.  A recorder that stops while the segmenter waits for the
\* loop leaves a pending frame: the source is then "unverified".  And behind the handshake
\* (recovery.go:296-306) a stuck segmenter has no frame pending and looks like a recorder
\* that stopped: there the code does not keep what observe.go:7-8 says, that "a stuck
\* consumer cannot masquerade as a stalled capture source".
Suspected(b) ==
    CASE b = "provider" -> {"overdue " \o stages[i].name : i \in DOMAIN stages}
      [] b = "segmenter" -> IF handshake THEN {"capture"} ELSE {"segmenter"}
      [] b = "capture" -> IF pending THEN {"segmenter"} ELSE {"capture"}
      [] b = "loop" -> {"loop"}

\* A part that is stuck shows: once its allowance is used up there is a problem, and the
\* diagnosis names a part that may be at fault as far as the stamps can tell, whatever
\* stages are in progress and however the rules override one another (Snapshot,
\* health.go:230-278).
CulpritNamed ==
    wakeState # "failed" /\ broken # "nothing" /\ brokenFor > Allowance(broken) =>
        Problem /\ Diagnosis \in Suspected(broken)
=============================================================================

# A verification of Voice

Voice is a local voice assistant: a wake phrase, speech recognition, a planner,
devices, timers, and a flow in which the agent proposes work and its owner
approves it. This directory holds TLA+ models of its concurrent and durable
parts, TLC runs over small instances, and proofs for every instance.

    tlc -workers 2 -config Session.cfg Session      # a run: module and .cfg below
    tlapm BrokerProofs.tla                          # a proof module

## 1. Inventory

What each part keeps, does, and owes. Paths are under `src/`.

| Part | State | Operations | Talks to | Hard behaviour | Correct when | Modelled |
|---|---|---|---|---|---|---|
| Proposal store `internal/proposal`, `cmd/voice/proposals.go` | SQLite rows, audit events, notice and expiry limits | record, notify, approve, decline, complete, fail, retry, issue, agent, expire, list, due | agent, owner, operator and broker run it as a command each | any command in any order from any caller; two tables in step; the cap and the expiry read the trail | work only after the owner's answer in this cycle; no answer is reopened unasked; the issue number sticks | `Proposals` |
| Proposal broker `packaging/voice-proposals-broker` | a pass: its loops' listings, the number found; GitHub issues, herdr seats | ask, file, launch, retire | store, approver's seat, `gh`, `herdr` | stale listings, death between two calls, failed or unanswered calls, retries | no second issue but after a search that failed, one seat per issue, nothing without a grant, approved work settles | `ProposalsBroker`, `OwnerApproval` |
| Timers and reminders `internal/timer`, `session/timers.go` | timer set, table, alarm, `changed` token, `fired` channel, missed list | set, snooze, cancel, list, consume, announce | scheduler goroutine, session loop, other processes | save failures, restarts, full channel, alarm against a changed set | each due timer announced once, series in phase, cancelled stays gone | `Timers`, `TimersShared` |
| Session loop `session/session.go` | turn, work in flight, conversation budget and deadline, pending timers, light | wake, follow-up, control, correction, answer, timer, cue | gate, planner goroutine, feedback, player, scheduler | results against cancellations, deadlines against answers, lost audio at any point | nothing is heard while Voice sounds; windows within budget and owner; cancelled is silent | `Session` |
| Wake gate `internal/vad/keyword.go` | window (deadline, turns), suspension, epoch, capture state, output slot, fault flag | SetInFlightWindow, Suspend, ResumeAfter, Accepts, frame loop | session, feedback, capture | atomics read by one goroutine while another changes them | an utterance is used only under the authorization it was heard under | `Keyword` |
| Thinking feedback `internal/feedback` | pulse loop, indicator | Accepted, Thinking, stop, Restore | gate hooks, player, light | pulse against cue or speech | never sounds into an open microphone; stop joins | `Session` |
| Microphone recovery `audio/recovery.go`, `boundary.go`, `session/build_audio.go` | active and probe attempts, probe index, routed choice | start, stop, probe, switch, recover | recorders, segmenter, routed player, light | devices that fail, stall, or will not close; elective return | devices exclusive, no utterance across two microphones, preferred one returns | `Capture`, `Microphone` |
| Energy segmenter `vad/energy.go` | candidate/active, counters, frames, pre-roll | frame loop, acknowledge, discontinuity | capture, session | when it may call itself idle, what a gap leaves behind | one stretch of sound per utterance, idle means it holds nothing | `Energy`, `Microphone` |
| Players `audio/serial.go`, `command.go`, `routed.go` | turn, running command, routed choice | play, stop, select | session, feedback, capture | cancellation while waiting, a choice selected during a sound | one owner of the speaker, Stop reaches the sound that plays | `Player`, `Hardware` |
| Telephony HID `hid/*`, `feedback/light.go` | one retained output report per handle, the controls found in the descriptor | ParseOutputs, Reopen, Set, SetReportBit, Select | capture, light | shared bits over reopenings, failed writes, pulled cables | off hook while capturing and the device shows what was asked, unless another choice's handle sends the same report; controls are where the descriptor puts them | `HidDescriptor`, `HidDeclared`, `Telephony`, `Hardware` |
| Health `internal/health`, `cmd/voice/health.go` | time stamps, stages with deadlines, published file, lock | Begin/done, Snapshot, Publish, Read | every stage, CLI | overdue stages, rules that override each other, two listeners, crashes, numbers used again | what is stuck shows and no innocent part is blamed that the stamps clear; `healthy` is earned | `Health`, `HealthFile` |
| Planner chain `internal/brain` | none | Plan | HTTP, agent command | names that read alike, several phones, who may answer | what is done unasked is done to the device that was meant | `Planner`, `Request` |
| Speech `internal/speech` | none | Transcribe, Synthesize | programs, HTTP | fallback, process groups | – | a choice of `Session`, a stage of `Health` |
| Devices `internal/device`, ApplyActions in `session.go` | registry; the devices' own state | Apply, Read | LAN hardware, services, people | late or lost effects, errors that hide an effect, somebody else at the device, one of several actions fails | success was real, playback is not taken, replies are earned | `Device`, `HomeAssistant`, `Spotify`, `Android`, `LocalDrivers`, `Request` |
| Wake match `internal/wake` | none | Match | session (STT route) | sound folding | no collision of short words | no (section 7) |
| Calendar `timer/calendar.go` | none | ResolveSchedule, next | timers | DST gaps and folds | next valid wall time, once | `Calendar`, `Timers` |
| Grammar, config, requests, CLI, packaging, proc, faults, codecheck | files at most | – | – | – | – | no (see section 7) |

Interactions: one goroutine, `Assistant.Run`, selects over capture reports,
planner results, fired timers, the conversation timer and utterances. The
segmenter runs beside it and shares the gate's atomics with it and with the
thinking goroutine. The recovery loop feeds the segmenter and waits for its
acknowledgement of each frame. The scheduler goroutine sends due timers. The
agent, the owner and the broker reach the proposal store as processes.

## 2. Plan

Ordered by what would hurt most: acting without the owner, hearing what was not
meant for Voice, losing or repeating a reminder, mixing microphones.

1. *Done.* `Proposals`, `ProposalsBroker` over it, `OwnerApproval` as the abstract specification; proofs.
2. *Done.* `Timers` over `Calendar`, and `TimersShared` (a second process over it); proofs.
3. *Done.* `Keyword` (gate and frame loop) and `Session` over it; proofs.
4. *Done.* `Capture`; `Microphone`, which composes it with `Energy` and implements it; proofs.
5. *Done.* `Telephony` and `Player`, composed in `Hardware`; proofs. `HidDescriptor` implements `HidDeclared`; proofs.
6. *Done.* `Health`, and `HealthFile` over it; proofs.
7. *Done.* `Planner` and the four drivers over `Device`, composed in `Request`; proofs.
8. The agent's look at the phone (`device/android_agent.go`): the lock that observers share, the screenshot they replace, the fallback when the interface cannot be read.
9. Session's WakeSTT and single-STT routes, and with them `wake/match.go`.

## 3. Modules and the code

**Proposals.** `rows` and `trail` are the two tables; `now` the clock in hours
of the limits. Each `voice proposals` command and the agent's `Record` is one
action, since each is one SQLite transaction; `Write` is `save` and `eventTx` in
it, which the code gives the row and the event's status separately. `trail`
keeps the event's detail as a small set of words. Text, titles and occurrence
counts are left out.

**ProposalsBroker** extends it with one pass of the script. `pc` is the next
external call, `todo` the listing a loop works through, `number` the issue
found, `listed` the seats named. Between two calls any command may run
(`Others`), a seat may end, an hour may pass, the pass may die (`Crash`).
`FaultKinds` names the calls that may fail and `MaxFaults` how often. The
configuration checks at the top of the script are taken as passed. GitHub and
herdr are external, modelled by what the script asks of them: a search finds
what was created, or fails, which the script takes for finding nothing; a name
is unique among live agents. `blind` (ghost) counts the failed searches for a
proposal that has an issue.

**OwnerApproval** says what the flow promises, in three variables (stage,
granted, begun). `ImplementsOwnerApproval` maps the broker's state to it.

**Timers.** `timers`/`disk` are the set and its table, `sched`, `alarm`,
`changed`, `sending`, `fired` the scheduler goroutine and its channels. A save
that fails leaves memory as it was and sets `retryAfter`. `Start` is `New`
(load, consume what is due into `missed`), `Crash` ends the process. The code
does nothing about an announcement whose voice fails, so `settled` holds what
was announced and what was lost.
**Calendar** gives the daily and weekly series their wall times: instants and
wall times are numbers, the zone has one gap and one fold, and `CivilTime` is
the set of instants the code may mean by a wall time (empty for a skipped one).
Go's `time` package is external. **TimersShared** adds a `voice` command, which
also runs `New`.

**Keyword.** One record `k` holds the gate (`left` and `turns` of the window,
`guard` for the suspension, `fault`), the capture in progress (`state`,
`fresh`, `acked`) and the output (`out`, and `hand` for what the session has
received). Deadlines count down. An epoch number matters only by being the
current one, so `fresh` replaces it; `clean` is a ghost for what the audio
really is. What a frame contains is a choice among what it may complete.

**Session.** `pc` is where `Run` blocks: `select`, `got` (an utterance
received), `earcon`, `transcribe`, `say`, `cue`, `open` (between the last check
for a discontinuity and opening a window). `active` is `plannerWork`, `worker`
its goroutine, `conv` the conversation budget and deadline, `pulse` the
Thinking goroutine (`checked` is the gap between `CanThink` and
`BeforeThinking`). A sound may fail; a transcription is any text.

**Capture.** `active` and `probe` are attempts (`starting`, `streaming`,
`failing`, `stopping`, `stopped`); `pc` is the recovery loop's `select`, its
`barrier` on a closing recorder, its `forward`/`wait` handshake and its retry
`delay`. A frame is the device it came from; `heard` (ghost) collects them. Of
the segmenter Capture knows only its promise: it takes a frame (`Deliver`), it
acknowledges (`GoOn`, `ComeBack`), it holds nothing after a discontinuity and
nothing when it calls itself idle.

**Energy** is the frame loop of the energy segmenter; a frame is whether it was
louder than the threshold of the moment. `seg` is Run's variables, `out` the
utterance that this frame ended, `tape` (ghost) the frames since the latest gap
or utterance. **Microphone** puts a segmenter under Capture's loop: the energy
segmenter, whose holding and idleness are computed, or the keyword segmenter,
which stays Capture's promise (its own frame loop is in `Keyword`).
`ImplementsCapture` says that a run of the composition is a run of Capture, so
what is proved of Capture holds of the loop with this segmenter.

**HidDescriptor.** `ParseOutputs` walks the items of a report descriptor with
the parser's own state (globals, pushed globals, usages, offset per report).
`Parse` is that state after each item. **HidDeclared** is what it should find,
read without a parser: an item is in force at an output if no Pop undid it
(`InForce`, over the depth of nesting), a usage reaches an output if no main
item lies between (`Reaches`), an output's first bit is the number of bits that
the outputs before it take in its report (`Taken`), a name given twice counts
where it was given last (`IsLast`). An item's value is the one the parser keeps
after truncation to the field's width.
**Telephony.** `outs` is the parsed map of each handle, `state` the report bits
it retains, `device` the bits the node shows. `Reopen`, `TakeOffHook`,
`PutOnHook` are what a capture attempt does with its handle, `SetLight` and
`Select` what the light does; a write changes `state` first and may then fail.
Choices may name one node, each with a handle of its own: `foreign` (ghost) are
the reports of a handle that another one was the last to send.
**Player.** `turn` is SerialPlayer's slot, `active` RoutedPlayer's field, `cmd`
the running command of each player. **Hardware** composes both: the selected
choice routes the light and the next sound.

**Health.** `age` holds the seconds since the start, the last frame, delivery,
wake progress and loop turn; `stages` are the calls of Begin whose done has not
come, with the seconds left. `wakeState` is "unverified" where there is no
detector to start, until the first `wake_transcribe` says what recognition is
worth. Capture hands on one frame at a time: without recovery the next one is
received and `pending` while the segmenter is busy, with it (`handshake`) none
is sent before the last is acknowledged. Utterances that a busy loop does not
fetch may stop the segmenter (`Backlog`); `closed` is that they have ended.
`Problem` and `Diagnosis` are Snapshot's rules in their order of precedence.
`broken` names what got stuck, which the listener does not know; `Suspected`
is what it can tell from its stamps. **HealthFile** adds the processes that share a path: lock,
publish, update, close (remove, then unlock), death, and the reader's two
steps. Process numbers are used again with another start time.

**Planner.** Who answers a transcript. A transcript is its form, its operation
and the words of its target; `RulesPlans`, `JevPlans` and `AgentAllowed` say what each
may answer and `Delegated` who is next. **Device** holds the driver call under way: `call.at` is its step, `seen`
what it looked at. **HomeAssistant** (absolute service from a look, accepted
calls that take effect later or never, polling), **Spotify** (look, connect,
command, check, with orders that hit whatever is active then), **Android**
(connection and request; the fast actions with their evidence from dumps) and
**LocalDrivers** (Magic Home, CEC) are the drivers. People change the devices
at any step. **Request** is HandleText, ApplyPlan and ApplyActions over them:
actions in order, an error ends the request, replies collected, the words
chosen last. `met` (ghost) says that the goal of the call held at some moment
since its command was sent.

## 4. Runs

All pass runs explore their whole state space; sizes are distinct states.

| Run | Question | Instance |
|---|---|---|
| `broker_faults` | Do an issue more only for a search that failed, single seat, grant, expiry and refinement survive two failures anywhere, failed searches included? | 1 request, 2 issues, 5 events, 2 faults of all 8 kinds; 0.67 million |
| `broker_two` | Do two proposals stay apart, is the cap kept by passes at different times of one hour, is every approved one settled? | 2 requests, cap 1 in an hour of 2 ticks, 1 fault of 7 kinds; 0.9 million |
| `broker_cap` (violation) | Does the cap count the notices sent (proposal.go:703)? | no fault |
| `broker_stale_issue` (violation) | Is a fresh approval never pointed at a closed cycle's issue (proposal.go:409)? | no fault |
| `timers` | Once, in phase, at the wall time, durable, never back; and every due one is dealt with | 2 births, channel and history of one, 1 snooze, 2 faults of 3 kinds, days of 2 ticks with one gap and one fold; 0.6 million |
| `timers_swallowed` (violation) | Is a timer missed while Voice was off reported (README.md:568)? | one `voice` command beside a restart |
| `session` | Gate, windows, budgets, loss, cancellation; is every request settled? | 1 in-flight turn, 2 conversation turns, windows and tail of one tick |
| `session_light` (violation) | Does the light go out when nothing came of a wake (keyword.go:70)? | as `session` |
| `capture` | Exclusion, purity, uncut and whole utterances, idleness, return | 3 microphones, first and last on one device, 5 faults, either segmenter; utterances of 2 to 6 frames after 2 of pre-roll; 121 thousand |
| `hardware` | Off hook while capturing, shared reports and nodes, one sound, the parser | 3 choices on 2 speakerphones (shared and separate reports), 2 faults, in silence, or 2 sounds; 462 descriptors, one control to a byte; 1.2 million |
| `health` | Does what is stuck show and is only a part blamed that the stamps do not clear, is `healthy` earned, does a successor keep its file? | with and without detector, stale after 0 and 1 s, budget 1 s: one process with 2 overlapping stages, with and without handshake; or 2 starts under 2 numbers, one stage at a time, no handshake; 1.9 million |
| `request` | Was success real, was the right device meant, is playback left alone, are replies earned? | a house of 8 devices and a phone off limits, 5 ways to name them, every single action, 25 pairs, 2 changes by others; 2.6 million |

Why the bounds are enough. One request reaches every stage twice; two are
needed only where requests compete (the cap, the listings). Two issues are one
more than the code files where searches work. Two faults allow a failure of the repair of the
first. Channel and history of one make "full" and "trimmed" happen at once. A
zone of one gap and one fold is every kind of clock change there is, and days
of two ticks put a series on each side of both. Windows of one tick make every
deadline race with every step; two conversation turns separate the last turn
from an earlier one. Three microphones with a shared device are the least for
which a probe must skip one choice and still try a better one; five faults
bring capture to the last one and back with a failed probe and a failed switch
on the way. One control to a byte lets a descriptor of a few items name too
many, which at the code's eight takes hundreds. Utterances of six frames with runs of two make room for a rejected
candidate in the pre-roll, a pause that is too short, the silence and the limit
in one utterance. Two choices on one speakerphone and one on another are the
least that share a report and do not. Two faults on the reports are a write that
fails and a cable pulled before the next; the sounds know nothing of reports, so
failures happen in a silent room; two sounds are a waiting one and a playing one. Two
starts under two numbers give a crash, a successor and a number used again (a
second process shares the path and the reader with the first, never its stages
or its capture, so `MCHealth` keeps overlapping stages and the handshake to one);
staleness after none and one second, and a budget of one, keep the
deadlines in the code's order.
Two changes by others move playback away and back. The store's own behaviour
over long histories has no run of its own: its properties are checked in
`broker_faults` and proved for every value of the constants.

### What the violations say

* `broker_cap`: a request repeated while its question is open writes another
  event with status notified (proposal.go:424), and the cap counts events by
  status: repeats use up the owner's budget and other proposals go unasked. The
  cap errs on the quiet side, so `NoticesWithinCap` holds.
* `broker_stale_issue`: a reopened proposal loses its issue's number but
  keeps its id, by which the search (`--state all`) finds the closed issue
  again; the broker attaches it to the new approval, against proposal.go:409.
* `timers_swallowed`: any `voice` command consumes what is due without
  announcing it.
* `session_light`: a standalone wake lights the indicator; a timer spoken
  before the command resets the capture without restoring it.

### Behaviour seen in the code and not given a run

* A failing `gh` search reads like an empty one (voice-proposals-broker:199), so
  a pass that died between creating an issue and recording it, and a search that
  then fails, make two issues, against voice-proposals-broker:12 and
  proposal.go:558. `broker_faults` shows that nothing else does:
  `IssuesPerBlindSearch` allows one more for each search that failed for a
  proposal which had an issue.
* A proposal that ends, is requested again and approved anew between
  `gh issue create` and `proposals issue` (voice-proposals-broker:233) gets the issue created for the
  earlier approval.
* A seat that was named but not briefed is adopted by the retry (:341) without
  its task.
* A command that loaded the table before the listener saved a new timer, and
  then consumes a due one, rewrites the table without the new one
  (timer.go:416).
* `Accepts` clears `queued` (keyword.go:118) for the utterance received while
  the segmenter may have queued the next; a pulse may then discard that one.
* A discontinuity between `captureInterrupted` and `SetInFlightWindow`
  (session.go:475, :663) leaves a window open until the report is taken; the
  check before a command is acted on (:539) keeps that harmless, which is what
  `LossEndsAuthorization` states from the report on.
* The command of a standalone wake that ends the old conversation turns the
  light off while it is handled (session.go:785).
* The keyword segmenter may report itself idle while the session opens a window
  (keyword.go:346); an elective switch then closes that window.
* The energy segmenter emits a partial utterance when its input closes, so a
  service that stops may hand over half a sentence (energy.go:114).
* Each capture choice opens a handle of its own (build_audio.go:58), also on a
  node that another choice names, against telephony.go:15-19. Until the first
  frame the light goes through the handle of the choice selected before, whose
  report lacks the off-hook bit that the new choice has just set: the microphone
  falls silent. `MicrophoneOpen` therefore lasts until another choice's handle
  sends the report, and `hardware` and the theorem say that nothing else ends it.
* With capture recovery no frame is sent before the last one is acknowledged
  (recovery.go:296-306), so a segmenter that is stuck in a frame has none pending
  and the diagnosis names the recorder (health.go:239), against observe.go:7-8;
  one that only waits for a busy loop is taken for a recorder as well.
  `CulpritNamed` allows for the former in `Suspected`.
* A device whose light sits at report 2 bit 0 without advertising off-hook would
  share that bit with the hook (`TwoBits` excepts it); for one that advertises
  off-hook it is proved that it does not.
* Select moves the light without a write: what was lit on the previous choice
  stays lit there until that choice is used again. `Player.Stop` has no caller.
* A synchronous stage that took longer than the loop's freshness leaves, for
  a moment after it ends, the diagnosis that the event loop has stopped.
* Magic Home and CEC report what they read without comparing it with the
  command, against device.go:72-74; a brightness drives the white channel and
  clears the colour (magichome.go).
* Spotify: a skip from a track without a name succeeds unchecked, volume 0 is
  "verified" when nothing is active, and play succeeds if anything plays.
* A command the rules understand for a device that lacks the operation is an
  error and does not go on to the agent.
* killGroup's second reading of /proc is not atomic (command.go:220): a member
  that forks after the listing and exits before its own entry is read leaves an
  empty group in the eyes of the check. proc.Run has no WaitDelay (proc.go:48):
  a descendant that keeps the pipe open holds the call past its timeout; in
  Health that is a provider which ignores its deadline.

## 5. Fairness

* Broker: `WF(PassStep)`: systemd's timer starts passes again and a pass takes
  its next step. Owner, agent and operator are under no obligation; failures
  are finitely many.
* Timers: weak fairness of restart (the unit restarts), the scheduler, the
  loop's announcements, and time. Faults are finitely many.
* Session: `WF(Blocked)`, for each sound, transcription and planner call has a
  deadline; `WF(PlannerEnds)`, the planner's budget; `SF(TakeResult)`, because
  Go's `select` chooses at random among ready cases, so a result that is ready
  again and again is taken. Speech, timers and the clock are not fair.
* Capture: attempts answer or fail within their deadline, cancelled recorders
  close, the segmenter acknowledges; strong fairness of the `select` cases for
  the same reason as above. `PreferredReturns` assumes a room that becomes
  quiet (`QuietRoom`), as the code's election does. Microphone states the same
  of each segmenter's own steps.
* Hardware, Health and Request promise safety only and assume no fairness.

## 6. Proofs

Assumptions are those the modules name (`ProposalsAssumption`,
`BrokerAssumption`, `TimersAssumption`, `CalendarAssumption`,
`PlaybackTailAssumption`, `BudgetAssumption`, `ChoicesAssumption`,
`GroupAssumption`, `ParamsAssumption`, `MicrophonesAssumption`,
`NodeAssumption`, `FirmwareAssumption`, `DescriptorAssumption`,
`SpeakerAssumption`, `HealthAssumption`, `FileAssumption`, `HaAssumption`,
`SpotifyAssumption`, `ChangesAssumption`, `HouseAssumption`,
`NamesAssumption`). No theorem adds one of its own, and nothing is assumed of
the bounds. Almost all of them are types; the others are `CalendarAssumption` (below), `CaptureFreshFor <
FreshFor` (3 s and 5 s in health.go), a playback tail and a history longer than
nothing, that players exist for the choices, and `NamesAssumption`: an
identifier is configured once, the target is among the words that were said,
and of several phones each has a name.

**BrokerProofs**, the store. `Inv` strengthens the checked invariants with
`RequestsAreTimed` (no event lies ahead of the clock, a row knows its last
request): without it expiry could not be related to earlier requests. Every
command ends in `Write`; `CommandWrites` reduces a command to one row and one
event obeying `Rules`, so the preservation proof (`InvWrite`) is done once.
Results: `TypeCorrect`, `AuthorizationBoundary`,
`IssueGoesWithStage`, `ExpiryNeedsSilence`, `IssueIsPermanent`.

The broker. `BrokerStepsStore` shows that a broker step is one store
command or none, so `Inv` carries over. `Locals` is what remains true of a
listing however old it is: a listed row exists, was once approved, and its
issue is its own. Results: `BrokerTypeCorrect`, `NoWorkWithoutGrant`,
`IssuesAreNotMixedUp`, and `FlowImplementsOwnerApproval`, by showing that each
store write is a step of `OwnerApproval` or a stutter. `FiledOnce` (`IssuesPerBlindSearch`)
and `LaunchedOnce`: what the pass looked up just before it acts is still true
when it acts, since nobody else files or launches; a pass about to file without
having found an issue either has none or has counted its failed search.
`NoticesWereAsked`: between the question and its record there is one question
more than events that say so (`Told`). `NoticesStayWithinCap`: the cap is
checked once, when the pass begins, and spent over many steps, so the inductive
form (`Roomy`) adds that the questions of the current hour and the rows still to
be asked about fit into it together, and that every earlier hour kept to it.
The counting is over sets of event positions (`Asked`), a step adding one.

**TimersProofs.** First the calendar, for every length of a day and every
summer. `CivilTimeIsFirst`: the instant the code means by a wall time is the
first that shows it. `CivilAfterIsNext`: the look-ahead finds the next
occurrence and passes none over. `CalendarAssumption` is what they need: a
change of the clock is no longer than a day, than the summer and than the look
back, and the look-ahead covers two weeks, a day and the change (the code looks
370 days ahead and three hours back). `IntervalIsNext` is the same for a
period. Then `TimersInv`, over every set, snooze, save that fails, crash and
restart: `Table` says of the stored records that a series is in phase, that
what is still to ring rings after all that was taken of it, and that no
occurrence lies between; `Account` orders what was taken; `Flows` says that each
of these is in exactly one place between the table and the announcement. Only
with `Flows` is `AnnouncedOnce` inductive, and only with `NonePassed` is
`Coalesced`. Results: `TypeCorrect`, `DurableMemory`, `Once`,
`NothingIsSwallowed`, `NextOfItsSeries`, and the action property `HistoryKept`,
which argues with the earliest of the forgotten records (the natural order is
well-founded): as many as the history holds came after it.

**SessionProofs.** What the gate's operations and the segmenter's frames do to a
gate is proved once (`GateOperations`, `SegmenterSteps`), so that the loop's
actions are treated without looking into it. `SessionInv` is what each point of
the loop relies on: which goroutine may still sound (`SoundsApart`), what audio
of the epoch in force has heard (`Untouched`), what is left of the two budgets
(`Budgeted`), that an open window belongs to one of them (`Granted`) and that a
loss leaves none (`Unauthorized`). Its hard part is the budgets: a window is
given back to the gate by another step than the one that opened it, an utterance
in a slot is a turn already used, and work of a follow-up spends the
conversation's turns. Results, for any budgets, windows and playback tail:
`GuardedWhileSounding`, `TranscribesCleanAudio`, `FreeTurnsWithinBudgets`,
`LossIsFinal`, and the action properties `DeadlineNeverMoves` and
`CancelledStaysSilent`.

**CaptureProofs.** `CaptureInv` says what the loop may rely on at each of its
points: which attempt holds a device there (`Separate`, `Settled`) and what the
segmenter may have heard by then (`Pure`, `Uncut`). The checked invariants are
not inductive without it: only `pc` and `then` carry that knowledge from one
select to the next, and `selected` and `delivered` say whether there is
anything heard to separate. Results, for any number of microphones, any
grouping of them and any number of failures: `TypesHold`, `NeverJoined`,
`NeverCut`, `OneOwner`. `MicrophoneInv` then says of the energy segmenter that
its frames are the end of the tape, that its counters count the end of its
frames (`Sought` before an utterance, `Heard` within one), and that it holds
frames whenever the loop believes so (`Held`). From it follow
`UtterancesAreWhole`, for any durations, even those that leave no room for the
pre-roll in the longest utterance, and the refinement
`MicrophoneImplementsCapture`: a step of the composition is a step of Capture or
a stutter, because the segmenter that says it is idle has neither candidate nor
utterance and therefore no frames. `MicrophoneKeepsPromises` carries Capture's
properties over.

**HardwareProofs.** `SpeakerHasOneOwner` (`OneSound`) for any number of
sounds, players and choices: `SpeakerInv` adds that only the owner of the turn
is past it (`Owner`) and that the fields of the routed and the command player
follow its progress (`Follows`). `MicrophoneStaysOpen` (`MicrophoneOpen`) for
any number of microphones and any descriptors: `HookInv` says that a streaming
attempt's off-hook bit is in the retained report as well as on the device
(`Remembers`), so that no light write can send a report without it; on the
device only as long as the report is not `foreign`, which it never is to a
handle that has its node for itself (`Unshared`).
`DevicesShowIntent` (`DeviceShowsIntent`): a handle retains exactly what is
wanted of it even when the write that was to say so failed (`Intended`), and a
report whose last write succeeded and was the handle's own reads on the device
as it is retained (`ShownAt`). Neither assumes anything of the nodes: choices may
share them. Of the firmware the properties except a light at the standard
off-hook bit (`TwoBits`); where off-hook is advertised nothing is excepted, for
light and hook are two usages, and `ControlsKeepApart` (below) gives them two
bits (`LightIsAnotherBit`).

**HidProofs.** `ParserMeetsContract` (`ControlsPlaced`): for every descriptor and
every limit the parser finds what `HidDeclared` reads in it. The parser and
`Nesting` are functions defined from their own value one item earlier. The
library's induction rules are out of reach, but a least counterexample is not:
the inclusion of initial segments is well-founded on finite sets of numbers, so
a set of numbers that is not empty has a least member (`LeastOf`), and a set with
0 and all successors is Nat (`Induction`). That such a function exists at all,
and hence obeys its own equation, is proved the same way, by extending it one
item at a time (`NestingIs`, `ParseIs`). The inductive statement is `Agrees`,
which says what every variable of the parser stands for in the items read so
far: the globals and each pushed copy are the values in force at their depth
(`StatesAgree`; a Pop finds again what was in force before its Push), the list
of usages is those in reach, in order (`UsagesAgree`), the ends of a range the
last ones said, each on its page (`RangeAgrees`), the offsets count the bits
taken (`OffsetsAgree`), the index counts the names and holds the place of the
last claim to each (`BitsAgree`), the depth is what is open (`PairsAgree`), and
there is an error exactly when something was refused. Each has a lemma for what
an item does to it. `ControlsKeepApart` follows: a bit of an output has one name
(`NamesAreOne`), and the outputs of a report lie one after the other
(`OutputsFollow`).

**HealthProofs.** `HealthInv` is what the monitor's stamps and stages tell of
the time since a part got stuck: a stamp of that part has not been renewed since
(`StampsTell`), what a stuck segmenter leaves behind, with the handshake or
without (`SegmenterTells`), a stage that works on it began no later
(`StagesTell`); and a snapshot, in the file or half read, tells it of the moment
it was written (`Telling`), as long as the process number still stands for its
writer. Results, for any deadlines, stages and starts: `CulpritIsNamed`, by
going through the diagnosis's rules in their order of precedence, and the action
properties `HealthIsEarned` and `SuccessorIsKept`.

**RequestProofs.** For any house, plans, words and number of changes by others,
and with the drivers' steps reduced to what they do to the call (`DriversMove`),
so that the request's own steps are treated apart from them. `RulesActOnMeant`:
the target the rules find is the one thing the words can mean (`TargetIsMeant`),
and what the rules planned is carried out as planned. `RepliesAreEarned`:
`ReplyInv` says of every point of a request that the replies collected so far
are those of the actions already done, one each and in their order, and that
words of a failure carry none. `OthersKeepPlayback`: `PlaybackInv` relates every
Spotify order still under way, and the look a call goes on with, to the moves of
playback since (`Fair`, `Looked`), because an order takes effect long after the
look it was given on. `EffectsAreReal` goes driver by driver, with what each
knows at its steps: which service calls Home Assistant may still carry out
(`HomeInv`), that a brightness read back within one step of 255 is the
percentage asked for within the tolerance (`Rounded`), that an applied Spotify
order has reached its goal (`AppliedGoal`, over `PlaybackInv`), and that the
words the phone driver takes for evidence are in the dump only when the phone
shows it (`EvidenceIs`).

`TypeCorrect`, `BrokerTypeCorrect`, `AuthorizationBoundary`,
`IssueGoesWithStage`, `IssueIsPermanent`, `TypesHold`, `ControlsKeepApart`, the
calendar's theorems and the inductive invariants state more than a run checks: what is proved needs
no instance.

Left to TLC: the four liveness properties `ApprovedIsSettled`,
`EveryTimerAnnounced`, `RequestIsSettled` and `PreferredReturns` (fairness and
ENABLED are beyond the prover), and the violations. Every other property of a
passing run is stated by a theorem.

## 7. Not modelled

* Text and wording everywhere; signal processing and thresholds; the network
  and the programs behind speech, planning and devices, except as choices.
* Session's WakeSTT and single-STT routes (session.go:835-920) and with them
  the wake phrases (`wake/match.go`): the model has the keyword detector, whose
  routes share `accept` with these but need the gate. Matching itself is a
  function of two texts.
* Speech engines: a cascade without state; what a call costs and whether it
  heeds its deadline is in Health.
* Configuration loading (its valid values are the constants' assumptions), the
  request journal (append-only), the spoken timer grammar (its outcome is a
  choice of an action in Timers), the phone tool of the agent, discovery,
  installation and unit files, terminal-seat scripts, helpers without state.
* In Session a frame is handled in one step: a change of the gate between
  keyword.go:389 and :414 can let at most one frame and its pre-roll of the
  earlier window in, which the epoch check of the next frame throws away with
  the capture. In Energy the output is received at once: a full output slot
  only delays the acknowledgement.

Ghost variables, which the code does not have: `asked`, `blind` (broker);
`uid`, `phase`, `consumed`, `settled`, `cancelled`, `unread`
(timers); `clean` (gate); `spent`, `lost` (session); `heard` (capture); `tape`
(energy); `lit`, `stale`, `foreign` (telephony); `broken`, `brokenFor` (health); `met`,
`finished`, `meant` in `heard`, `reached`, `moves` (request).

------------------------------ MODULE Session ------------------------------
(***************************************************************************)
(* The listener (internal/session/session.go, Run): one loop that owns     *)
(* speech and authorization, the planner it starts for a request, and the  *)
(* thinking pulses of internal/feedback, all around the wake gate of       *)
(* Keyword.  Every point at which the loop blocks or looks at something    *)
(* another goroutine writes is a value of pc; between two of them the loop *)
(* takes one step.                                                         *)
(***************************************************************************)
EXTENDS Keyword

CONSTANTS
    InFlightTurns, InFlightWindow,         \* zero: no window during work
    ConversationTurns, ConversationWindow  \* zero: no window after an answer

ASSUME BudgetAssumption ==
    /\ InFlightTurns \in Nat /\ InFlightWindow \in Nat
    /\ ConversationTurns \in Nat /\ ConversationWindow \in Nat

VARIABLES
    pc,        \* where the loop is
    then,      \* what the loop does after the sound it is playing
    turn,      \* the utterance being handled, accepted by the gate
    active,    \* plannerWork, if any
    worker,    \* the planner goroutine: its result waits once it is done
    conv,      \* conversationUntil, conversationRemaining, conversationTimer
    pulse,     \* the Thinking goroutine of the request being handled
    spent,     \* ghost: wake-free turns taken since the last fresh wake
    lost       \* ghost: a loss of audio was reported since the last fresh wake

sessionVars == <<pc, then, turn, active, worker, conv, pulse, spent, lost>>
vars == <<keywordVars, sessionVars>>

windowEnabled == InFlightTurns > 0 /\ InFlightWindow > 0
conversationEnabled == ConversationTurns > 0 /\ ConversationWindow > 0

NoWork == [on |-> FALSE, left |-> 0, turns |-> 0, cancel |-> FALSE,
           follow |-> FALSE, allow |-> FALSE]

NoConversation == [left |-> 0, turns |-> 0, timer |-> FALSE]

NoTurn == [free |-> FALSE, clean |-> FALSE]

Less(n) == IF n = 0 THEN 0 ELSE n - 1

\* Stopping a Thinking loop waits for the pulse it is playing, or about to.
Joined(m) ==
    CASE pulse = "playing" -> ResumeAfter(m)
      [] pulse = "checked" -> ResumeAfter(Suspend(m))
      [] OTHER -> m

(***************************************************************************)
(* closeConversation, over the gate as it stands and the work there is.    *)
(***************************************************************************)
\* Bug: the work keeps its own window and its leave to open a conversation.
Disallowed_Kept(work) == work

Disallowed(work) ==
    IF work.on THEN [work EXCEPT !.left = 0, !.turns = 0, !.allow = FALSE] ELSE work

\* Bug: the budget is dropped but the gate is left open.
CloseConversation_GateOpen(m, work) ==
    /\ k' = m
    /\ conv' = NoConversation
    /\ active' = Disallowed(work)
    /\ light' = IF work.on THEN light ELSE "idle"

CloseConversation(m, work) ==
    /\ k' = Shut(m)
    /\ conv' = NoConversation
    /\ active' = Disallowed(work)
    /\ light' = IF work.on THEN light ELSE "idle"

Goto(point, next) == pc' = point /\ then' = next

\* captureInterrupted: the report is taken and the conversation is over.
Interrupted(m, work) ==
    /\ k.fault
    /\ CloseConversation([m EXCEPT !.fault = FALSE], work)
    /\ lost' = TRUE

(***************************************************************************)
(* finishAnswer: the answer was heard, so cue and open the conversation.   *)
(***************************************************************************)
FinishAnswer(m, follow) ==
    \/ Interrupted(m, active) /\ Goto("select", "none")
    \/ /\ ~k.fault /\ ~conversationEnabled
       /\ k' = m /\ Goto("select", "none")
       /\ UNCHANGED <<light, active, conv, lost>>
    \/ /\ ~k.fault /\ conversationEnabled
       /\ follow /\ (conv.turns = 0 \/ conv.left = 0)
       /\ CloseConversation(m, active) /\ Goto("select", "none")
       /\ UNCHANGED lost
    \/ /\ ~k.fault /\ conversationEnabled
       /\ follow => conv.turns > 0 /\ conv.left > 0
       /\ k' = Suspend(m) /\ light' = "listening"
       /\ pc' = "cue" /\ then' = IF follow THEN "followAnswer" ELSE "answer"
       /\ UNCHANGED <<active, conv, lost>>

\* The cue was heard in full, or the conversation is not opened.
CueEnds ==
    /\ pc = "cue"
    /\ \/ Interrupted(ResumeAfter(k), active) /\ Goto("select", "none")
       \/ /\ CloseConversation(ResumeAfter(k), active) /\ Goto("select", "none")
          /\ UNCHANGED lost
       \/ /\ ~k.fault
          /\ k' = ResumeAfter(k) /\ pc' = "open"
          /\ UNCHANGED <<light, active, conv, then, lost>>
    /\ UNCHANGED <<turn, worker, pulse, spent>>

\* Bug: every answer opens the window anew.
OpenAnswer_Extends ==
    /\ pc = "open" /\ then \in {"answer", "followAnswer"}
    /\ LET left == PlaybackTail + ConversationWindow
           turns == IF then = "answer" THEN ConversationTurns ELSE conv.turns
       IN  /\ k' = SetInFlightWindow(k, left, turns)
           /\ conv' = [left |-> left, turns |-> turns, timer |-> TRUE]
    /\ Goto("select", "none")
    /\ UNCHANGED <<light, active, turn, worker, pulse, spent, lost>>

OpenAnswer ==
    /\ pc = "open" /\ then \in {"answer", "followAnswer"}
    /\ LET due == IF then = "answer"
                  THEN [left |-> PlaybackTail + ConversationWindow,
                        turns |-> ConversationTurns, timer |-> TRUE]
                  ELSE conv
       IN  IF due.left > 0
           THEN /\ k' = SetInFlightWindow(k, due.left, due.turns) /\ conv' = due
                /\ UNCHANGED <<light, active>>
           ELSE CloseConversation(k, active)
    /\ Goto("select", "none")
    /\ UNCHANGED <<turn, worker, pulse, spent, lost>>

(***************************************************************************)
(* speakDuringWork: shut the gate and join the pulses, make the sound,     *)
(* then go back to what the work or the conversation still allows.         *)
(***************************************************************************)
\* Bug: the pulses are joined after the gate was shut for the sound.
SpeakDuringWork_JoinLate(m) == k' = Joined(Suspend(Shut(m))) /\ pulse' = "off" /\ pc' = "say"

SpeakDuringWork(m) == k' = Suspend(Joined(Shut(m))) /\ pulse' = "off" /\ pc' = "say"

\* What the loop goes back to, once work and talk are what is authorized.
Back(work, talk) ==
    IF \/ work.on /\ worker = "running" /\ ~work.cancel
       \/ ~work.on /\ talk.turns > 0 /\ talk.left > 0
    THEN Goto("open", "during") ELSE Goto("select", "none")

\* After the sound fn made, heard or not, in a gate that is m.
Resume(m, heard) ==
    \/ Interrupted(m, active) /\ Back(active, NoConversation)
    \/ /\ ~k.fault /\ heard
       /\ k' = m /\ Back(active, conv)
       /\ UNCHANGED <<light, active, conv, lost>>
    \/ /\ ~k.fault /\ ~heard
       /\ CloseConversation(m, active) /\ Back(active, NoConversation)
       /\ UNCHANGED lost

OpenDuring ==
    /\ pc = "open" /\ then = "during"
    /\ LET owner == IF active.on THEN active ELSE conv
       IN  k' = IF owner.turns > 0 /\ owner.left > 0
                THEN SetInFlightWindow(k, owner.left, owner.turns) ELSE k
    /\ pulse' = IF active.on THEN "quiet" ELSE pulse
    /\ Goto("select", "none")
    /\ UNCHANGED <<light, turn, active, worker, conv, spent, lost>>

(***************************************************************************)
(* The select: an utterance, and the gate's verdict on it.  The receive    *)
(* and Accepts are two steps, for the segmenter may emit between them.     *)
(***************************************************************************)
Receive ==
    /\ pc = "select" /\ k.out # <<>>
    /\ k' = [k EXCEPT !.hand = k.out, !.out = <<>>]
    /\ Goto("got", "none")
    /\ UNCHANGED <<light, turn, active, worker, conv, pulse, spent, lost>>

\* Who has authorized a wake-free turn, and how long it still does.
Owner == IF active.on THEN active ELSE conv

Authorized == Owner.turns > 0 /\ Owner.left > 0 /\ ~(active.on /\ active.cancel)

Taken(m) == [m EXCEPT !.queued = FALSE, !.hand = <<>>]

Refuse ==
    /\ pc = "got"
    /\ LET u == Head(k.hand) IN ~Accepts(k, u) \/ (u.free /\ ~Authorized)
    /\ k' = Taken(k)
    /\ Goto("select", "none")
    /\ UNCHANGED <<light, turn, active, worker, conv, pulse, spent, lost>>

\* beginAuthorized: the earcon of an inline wake, or straight to the pulses.
Begin(m, u, lit) ==
    IF ~active.on /\ ~u.acked
    THEN k' = Suspend(m) /\ light' = "listening" /\ pc' = "earcon" /\ UNCHANGED pulse
    ELSE /\ k' = m /\ light' = lit /\ pc' = "transcribe"
         /\ pulse' = IF active.on THEN pulse ELSE "quiet"

\* Bug: a control during a follow-up costs the conversation nothing.
TakeFree_WorkOnly ==
    /\ pc = "got"
    /\ LET u == Head(k.hand) IN
          /\ Accepts(k, u) /\ u.free /\ Authorized
          /\ turn' = [free |-> u.free, clean |-> u.clean]
          /\ Begin(Taken(k), u, light)
    /\ active' = IF active.on THEN [active EXCEPT !.turns = @ - 1] ELSE active
    /\ conv' = IF ~active.on THEN [conv EXCEPT !.turns = Less(@)] ELSE conv
    /\ spent' = spent + 1
    /\ UNCHANGED <<then, worker, lost>>

TakeFree ==
    /\ pc = "got"
    /\ LET u == Head(k.hand) IN
          /\ Accepts(k, u) /\ u.free /\ Authorized
          /\ turn' = [free |-> u.free, clean |-> u.clean]
          /\ Begin(Taken(k), u, light)
    /\ active' = IF active.on THEN [active EXCEPT !.turns = @ - 1] ELSE active
    /\ conv' = IF ~active.on \/ active.follow THEN [conv EXCEPT !.turns = Less(@)] ELSE conv
    /\ spent' = spent + 1
    /\ UNCHANGED <<then, worker, lost>>

\* Only a fresh wake with no work under way starts a new budget.
TakeWake ==
    /\ pc = "got"
    /\ LET u == Head(k.hand) IN
          /\ Accepts(k, u) /\ ~u.free
          /\ turn' = [free |-> u.free, clean |-> u.clean]
          /\ IF active.on
             THEN Begin(Taken(k), u, light) /\ UNCHANGED <<conv, spent, lost>>
             ELSE /\ Begin(Shut(Taken(k)), u, "idle")
                  /\ conv' = NoConversation /\ spent' = 0 /\ lost' = FALSE
    /\ UNCHANGED <<then, active, worker>>

InlineEarconEnds ==
    /\ pc = "earcon"
    /\ k' = ResumeAfter(k)
    /\ pulse' = "quiet" /\ pc' = "transcribe"
    /\ UNCHANGED <<light, then, turn, active, worker, conv, spent, lost>>

(***************************************************************************)
(* Transcription, and what accept makes of the command.  stopThinking is   *)
(* this request's own pulses; those of work under way are the work's.      *)
(***************************************************************************)
Hushed(m) == IF active.on THEN m ELSE Joined(m)
HushedPulse == IF active.on THEN pulse ELSE "off"

\* A failed or empty transcript, or one too late for its authorization.
TranscribeFails ==
    /\ pc = "transcribe"
    /\ CloseConversation(Hushed(k), active)
    /\ pulse' = HushedPulse
    /\ Goto("select", "none")
    /\ UNCHANGED <<worker, spent, lost>>

InTime == turn.free => Owner.left > 0

\* What every command finds first: a report of lost audio.
AcceptInterrupted ==
    /\ pc = "transcribe" /\ InTime
    /\ Interrupted(Hushed(k), active)
    /\ pulse' = HushedPulse
    /\ Goto("select", "none")
    /\ UNCHANGED <<worker, spent>>

Heard == pc = "transcribe" /\ InTime /\ ~k.fault

\* "That's all."
AcceptClose ==
    /\ Heard
    /\ CloseConversation(Suspend(Joined(k)), active)
    /\ pulse' = "off" /\ Goto("say", "during")
    /\ UNCHANGED <<worker, spent, lost>>

\* With work under way: its result is there already.
AcceptDone ==
    /\ Heard /\ active.on /\ worker = "done"
    /\ \/ UNCHANGED <<k, pulse>>
       \/ k' = Joined(Shut(k)) /\ pulse' = "off"    \* it came during the front reply
    /\ Goto("select", "none")
    /\ UNCHANGED <<light, active, worker, conv, spent, lost>>

Busy == Heard /\ active.on /\ worker = "running"

\* A timer or local command, a status, a correction, a busy reply.
AcceptBusy ==
    /\ Busy
    /\ SpeakDuringWork(k) /\ then' = "during"
    /\ UNCHANGED <<light, active, worker, conv, spent, lost>>

AcceptCancel ==
    /\ Busy
    /\ CloseConversation(Suspend(Joined(k)), [active EXCEPT !.cancel = TRUE])
    /\ pulse' = "off" /\ Goto("say", "during")
    /\ UNCHANGED <<worker, spent, lost>>

\* Wake-free speech that is no control: ignored without a sound.
AcceptIgnored ==
    /\ Busy /\ turn.free
    /\ Resume(Joined(Shut(k)), TRUE)
    /\ pulse' = "off"
    /\ UNCHANGED <<worker, spent>>

\* "Turn off": nothing reopens, whatever the sound does.
AcceptOffDuring ==
    /\ Busy
    /\ SpeakDuringWork(k) /\ then' = "off"
    /\ active' = [active EXCEPT !.cancel = TRUE]
    /\ UNCHANGED <<light, worker, conv, spent, lost>>

Free == Heard /\ ~active.on

\* No words after the wake phrase, or a control with nothing to control.
AcceptNothing ==
    /\ Free
    /\ CloseConversation(Suspend(Joined(k)), active)
    /\ pulse' = "off" /\ Goto("say", "plain")
    /\ UNCHANGED <<worker, spent, lost>>

\* A timer or local command is answered here and may open a conversation.
AcceptLocal ==
    /\ Free
    /\ k' = Suspend(Joined(k)) /\ pulse' = "off" /\ light' = "idle"
    /\ Goto("say", IF turn.free THEN "followAnswer" ELSE "answer")
    /\ UNCHANGED <<active, worker, conv, spent, lost>>

AcceptOff ==
    /\ Free
    /\ k' = Suspend(Joined(k)) /\ pulse' = "off" /\ light' = "idle"
    /\ Goto("say", "off")
    /\ UNCHANGED <<active, worker, conv, spent, lost>>

\* Anything else is the planner's.
AcceptRequest ==
    /\ Free
    /\ active' = [NoWork EXCEPT !.on = TRUE, !.follow = turn.free, !.allow = TRUE]
    /\ worker' = "running"
    /\ IF windowEnabled \/ turn.free THEN Goto("open", "work") ELSE Goto("select", "none")
    /\ UNCHANGED <<k, light, conv, pulse, spent, lost>>

OpenWork ==
    /\ pc = "open" /\ then = "work"
    /\ LET left  == IF active.follow THEN conv.left ELSE InFlightWindow
           turns == IF active.follow THEN conv.turns ELSE InFlightTurns
       IN  IF worker = "done"
           THEN UNCHANGED <<k, active>>
           ELSE /\ active' = [active EXCEPT !.left = left, !.turns = turns]
                /\ k' = IF left > 0 /\ turns > 0 THEN SetInFlightWindow(k, left, turns) ELSE k
    /\ Goto("select", "none")
    /\ UNCHANGED <<light, turn, worker, conv, pulse, spent, lost>>

Transcribed ==
  /\ turn' = NoTurn
  /\ \/ TranscribeFails \/ AcceptInterrupted \/ AcceptClose \/ AcceptDone \/ AcceptBusy
     \/ AcceptCancel \/ AcceptIgnored \/ AcceptOffDuring \/ AcceptNothing \/ AcceptLocal
     \/ AcceptOff \/ AcceptRequest

(***************************************************************************)
(* The end of a spoken sentence, heard or not.                             *)
(***************************************************************************)
AnswerHeard ==
    /\ pc = "say" /\ then \in {"answer", "followAnswer"}
    /\ FinishAnswer(ResumeAfter(k), then = "followAnswer")
    /\ UNCHANGED <<turn, worker, pulse, spent>>

AnswerFails ==
    /\ pc = "say" /\ then \in {"answer", "followAnswer"}
    /\ CloseConversation(ResumeAfter(k), active)
    /\ Goto("select", "none")
    /\ UNCHANGED <<turn, worker, pulse, spent, lost>>

PlainEnds ==
    /\ pc = "say" /\ then = "plain"
    /\ k' = ResumeAfter(k)
    /\ Goto("select", "none")
    /\ UNCHANGED <<light, turn, active, worker, conv, pulse, spent, lost>>

\* The answer that may not open a conversation: closed once it was spoken.
LastAnswerEnds ==
    /\ pc = "say" /\ then = "last"
    /\ CloseConversation(ResumeAfter(k), active)
    /\ Goto("select", "none")
    /\ UNCHANGED <<turn, worker, pulse, spent, lost>>

DuringEnds ==
    /\ pc = "say" /\ then = "during"
    /\ \E heard \in BOOLEAN : Resume(ResumeAfter(k), heard)
    /\ UNCHANGED <<turn, worker, pulse, spent>>

\* Run returns: the deferred calls shut everything it opened.
Leave(m) ==
    /\ k' = Shut(Joined(m)) /\ light' = "idle"
    /\ active' = NoWork /\ conv' = NoConversation
    /\ worker' = "idle" /\ pulse' = "off"
    /\ Goto("gone", "none")
    /\ UNCHANGED <<turn, spent, lost>>

OffEnds == pc = "say" /\ then = "off" /\ Leave(ResumeAfter(k))

(***************************************************************************)
(* The other cases of the select.                                          *)
(***************************************************************************)
\* Bug: the result of a cancelled request is spoken like any other.
TakeResult_SpeaksCancelled ==
    /\ pc = "select" /\ worker = "done"
    /\ k' = Suspend(Shut(Joined(k))) /\ conv' = NoConversation
    /\ Goto("say", "last")
    /\ active' = NoWork /\ worker' = "idle" /\ pulse' = "off" /\ light' = "idle"
    /\ UNCHANGED <<turn, spent, lost>>

\* Bug: the result of a cancelled request is dropped before the work is.
TakeResult_DropsCancelled ==
    /\ pc = "select" /\ worker = "done"
    /\ k' = Shut(Joined(k)) /\ conv' = NoConversation
    /\ Goto("select", "none")
    /\ active' = IF active.cancel THEN active ELSE NoWork
    /\ worker' = "idle" /\ pulse' = "off" /\ light' = "idle"
    /\ UNCHANGED <<turn, spent, lost>>

\* A result: pulses joined and the window closed before a word is said.
TakeResult ==
    /\ pc = "select" /\ worker = "done"
    /\ LET talk  == IF k.fault THEN NoConversation ELSE conv
           allow == active.allow /\ ~k.fault
           m     == Shut(Joined([k EXCEPT !.fault = FALSE]))
       IN  \/ /\ k' = m /\ conv' = NoConversation        \* cancelled, or no words
              /\ Goto("select", "none")
           \/ /\ ~active.cancel                          \* "I couldn't do that."
              /\ k' = Suspend(m) /\ conv' = NoConversation
              /\ Goto("say", "plain")
           \/ /\ ~active.cancel
              /\ k' = Suspend(m) /\ conv' = talk
              /\ Goto("say", IF ~allow THEN "last"
                            ELSE IF active.follow THEN "followAnswer" ELSE "answer")
    /\ lost' = (lost \/ k.fault)
    /\ active' = NoWork /\ worker' = "idle" /\ pulse' = "off" /\ light' = "idle"
    /\ UNCHANGED <<turn, spent>>

TakeFault ==
    /\ pc = "select"
    /\ Interrupted(k, active)
    /\ UNCHANGED <<pc, then, turn, worker, pulse, spent>>

ConversationExpires ==
    /\ pc = "select" /\ conv.timer /\ conv.left = 0
    /\ CloseConversation(k, active)
    /\ UNCHANGED <<pc, then, turn, worker, pulse, spent, lost>>

TimerFires ==
    /\ pc = "select"
    /\ SpeakDuringWork(k) /\ then' = "during"
    /\ UNCHANGED <<light, turn, active, worker, conv, spent, lost>>

UtterancesClosed ==
    /\ pc = "select" /\ k.state = "closed" /\ k.out = <<>>
    /\ CloseConversation([k EXCEPT !.state = "drained"], active)
    /\ UNCHANGED <<pc, then, turn, worker, pulse, spent, lost>>

NothingLeft == pc = "select" /\ k.state = "drained" /\ ~active.on /\ Leave(k)

\* The service stops, or capture fails for good.
Stop == pc = "select" /\ Leave(k)

(***************************************************************************)
(* The planner, the thinking pulses and time.                              *)
(***************************************************************************)
PlannerEnds ==
    /\ worker = "running" /\ worker' = "done"
    /\ UNCHANGED <<k, light, pc, then, turn, active, conv, pulse, spent, lost>>

\* CanThink, and then BeforeThinking: not one step.
PulseChecks ==
    /\ pulse = "quiet" /\ CanThink(k) /\ pulse' = "checked"
    /\ UNCHANGED <<k, light, pc, then, turn, active, worker, conv, spent, lost>>

PulseStarts ==
    /\ pulse = "checked" /\ pulse' = "playing" /\ k' = Suspend(k)
    /\ UNCHANGED <<light, pc, then, turn, active, worker, conv, spent, lost>>

\* A pulse that could not be played is the last one.
PulseEnds ==
    /\ pulse = "playing" /\ pulse' \in {"quiet", "off"} /\ k' = ResumeAfter(k)
    /\ UNCHANGED <<light, pc, then, turn, active, worker, conv, spent, lost>>

Tick ==
    /\ pc # "gone"
    /\ k' = [k EXCEPT !.left = Less(@), !.guard = IF @ = Forever THEN @ ELSE Less(@)]
    /\ active' = [active EXCEPT !.left = Less(@)]
    /\ conv' = [conv EXCEPT !.left = Less(@)]
    /\ UNCHANGED <<light, pc, then, turn, worker, pulse, spent, lost>>

Init ==
    /\ KeywordInit
    /\ pc = "select" /\ then = "none" /\ turn = NoTurn
    /\ active = NoWork /\ worker = "idle" /\ conv = NoConversation /\ pulse = "off"
    /\ spent = 0 /\ lost = FALSE

Blocked ==
    \/ Refuse \/ TakeFree \/ TakeWake \/ InlineEarconEnds \/ Transcribed
    \/ AnswerHeard \/ AnswerFails \/ PlainEnds \/ LastAnswerEnds \/ DuringEnds \/ OffEnds
    \/ CueEnds \/ OpenAnswer \/ OpenDuring \/ OpenWork

Select ==
    \/ Receive \/ TakeResult \/ TakeFault \/ ConversationExpires \/ TimerFires
    \/ UtterancesClosed \/ NothingLeft \/ Stop

Next ==
    \/ Segmenter /\ pc # "gone" /\ UNCHANGED sessionVars
    \/ Blocked \/ Select
    \/ PlannerEnds \/ PulseChecks \/ PulseStarts \/ PulseEnds
    \/ Tick

\* Every sound, transcription and planner call ends (each has a deadline), and
\* select chooses among what is ready at random, so no case waits for ever.
Fairness == WF_vars(Blocked) /\ WF_vars(PlannerEnds) /\ SF_vars(TakeResult)

Spec == Init /\ [][Next]_vars /\ Fairness

(***************************************************************************)
(* What the listener owes its owner.                                       *)
(***************************************************************************)
Point == {"select", "got", "earcon", "transcribe", "say", "cue", "open", "gone"}
After == {"none", "answer", "followAnswer", "last", "plain", "during", "off", "work"}

\* The types of the session's state and of the gate's.
TypeOK ==
    /\ k.turns \in 0 .. InFlightTurns + ConversationTurns
    /\ k.left \in 0 .. InFlightWindow + PlaybackTail + ConversationWindow
    /\ k.guard \in 0 .. Forever /\ k.state \in State
    /\ k.out \in {<<>>} \cup {<<u>> : u \in Utterance}
    /\ k.hand \in {<<>>} \cup {<<u>> : u \in Utterance}
    /\ light \in Light /\ pc \in Point /\ then \in After
    /\ turn \in [free : BOOLEAN, clean : BOOLEAN]
    /\ worker \in {"idle", "running", "done"} /\ pulse \in {"off", "quiet", "checked", "playing"}

\* Sounds the loop or the pulses are making (session.go:273, feedback.go:152).
Sounding == pc \in {"earcon", "say", "cue"} \/ pulse = "playing"

\* While Voice makes a sound no frame is captured, whichever goroutine plays it
\* and whichever other one stops playing meanwhile (keyword.go:103).
MicrophoneGuarded == Sounding => k.guard = Forever

\* The utterance being transcribed was heard in silence and under the
\* authorization in force when it was accepted (README.md:242).
HeardUnderItsAuthorization == pc \in {"earcon", "transcribe"} => turn.clean

\* One wake opens at most one window of each kind, and an open window is always
\* somebody's: the wake-free turns taken since the wake are within the two
\* budgets, whatever was opened, closed and reopened meanwhile, and the gate
\* admits no more turns than the work or the conversation has left, counting
\* those already spoken, and closes no later (session.go:312, :485, :525, :649,
\* README.md:240).
Spoken ==
    LET waiting(q) == IF q # <<>> /\ Head(q).free /\ Head(q).fresh THEN 1 ELSE 0
    IN  waiting(k.out) + waiting(k.hand)

FreeTurnsAreGranted ==
    /\ spent <= InFlightTurns + ConversationTurns
    /\ k.left > 0 =>
          \E owner \in {active, conv} : k.turns + Spoken <= owner.turns /\ k.left <= owner.left

\* Once a loss of audio is reported, only a fresh wake authorizes again: the
\* gate stays shut and no answer reopens it (keyword.go:51, session.go:455).
LossEndsAuthorization ==
    lost => ~InFlight(k) /\ conv.turns = 0 /\ ~active.allow

\* The deadline of a conversation is absolute: no answer moves it, not even
\* that of a follow-up (README.md:239).
DeadlineIsAbsolute == [][conv.left > 0 => conv'.left <= conv.left]_vars

\* A cancelled request is never answered, and no conversation follows it.
CancelledIsSilent ==
    [][active.cancel /\ ~active'.on => pc' \in {"select", "gone"} /\ conv' = NoConversation]_vars

\* The light of the gate goes out when nothing came of a wake (keyword.go:70).
LightGoesOut ==
    pc = "select" /\ ~active.on /\ k.state = "armed" /\ k.out = <<>> /\ ~k.fault
    /\ k.guard = 0 /\ conv.turns = 0 => light = "idle"

\* Every request is settled, answered or cancelled, however often the loop
\* turns to speech, timers and sounds meanwhile.
RequestIsSettled == active.on ~> ~active.on
=============================================================================

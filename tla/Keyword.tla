------------------------------ MODULE Keyword ------------------------------
(***************************************************************************)
(* The streaming wake gate (internal/vad/keyword.go): what the session and *)
(* the segmenter goroutine share of a Keyword, and the frame loop.         *)
(*                                                                         *)
(* A deadline is the number of ticks it still has, zero once it has passed *)
(* or was never set.  An epoch only matters by being the current one, so a *)
(* capture and an utterance carry "fresh" (its GateEpoch is still the      *)
(* gate's) instead of a number.  "clean" is not in the code: it says what  *)
(* the audio really is, heard with no sound of Voice's own and no change   *)
(* of authorization since.  Levels, frame counts and PCM are abstracted to *)
(* the choice of what a frame completes.                                   *)
(***************************************************************************)
EXTENDS Naturals, Sequences

CONSTANTS PlaybackTail     \* ticks that playbackTail keeps the microphone closed

ASSUME PlaybackTailAssumption == PlaybackTail \in Nat \ {0}

VARIABLES
    k,        \* the Keyword: gate, capture in progress, output and flags
    light     \* the indicator its acknowledge and restore callbacks drive

keywordVars == <<k, light>>

Forever == PlaybackTail + 1        \* suspendUntil = 1<<63 - 1

Light == {"idle", "listening"}

State == {"armed", "probing", "inline", "earcon", "waiting", "follow",
          "busyProbing", "busy", "closed", "drained"}

Utterance == [free : BOOLEAN, acked : BOOLEAN, fresh : BOOLEAN, clean : BOOLEAN]

\* Atomic and mutex-guarded fields, and the segmenter goroutine's locals.
Closed(m) == m.state \in {"closed", "drained"}

InFlight(m) == m.turns > 0 /\ m.left > 0

Suspended(m) == m.guard > 0

CanThink(m) == m.state \in {"armed", "closed", "drained"} /\ ~m.queued

(***************************************************************************)
(* The gate's operations.  Each change of authorization and each playback  *)
(* starts a new epoch: nothing captured before it is fresh any more.       *)
(***************************************************************************)
\* Bug: a change leaves the epoch, and what was captured before it, valid.
NewEpoch_Kept(m) == m

NewEpoch(m) ==
    [m EXCEPT !.fresh = FALSE,
              !.out  = [i \in DOMAIN @ |-> [@[i] EXCEPT !.fresh = FALSE]],
              !.hand = [i \in DOMAIN @ |-> [@[i] EXCEPT !.fresh = FALSE]]]

\* Ghost: the audio captured so far was heard before what happens now.
Spoil(m) ==
    [m EXCEPT !.clean = FALSE,
              !.out  = [i \in DOMAIN @ |-> [@[i] EXCEPT !.clean = FALSE]],
              !.hand = [i \in DOMAIN @ |-> [@[i] EXCEPT !.clean = FALSE]]]

SetInFlightWindow(m, left, turns) ==
    [Spoil(NewEpoch(m)) EXCEPT !.left = left, !.turns = turns]

Suspend(m) == [Spoil(NewEpoch(m)) EXCEPT !.guard = Forever]

ResumeAfter(m) == [m EXCEPT !.guard = PlaybackTail]

Shut(m) == SetInFlightWindow(m, 0, 0)

Accepts(m, u) == u.fresh /\ ~Suspended(m) /\ (u.free => m.left > 0)

(***************************************************************************)
(* The frame loop.  Reset forgets the capture in progress.                 *)
(***************************************************************************)
Reset(m) == [m EXCEPT !.state = "armed", !.acked = FALSE, !.clean = TRUE]

Dropped(m) == Suspended(m) \/ (m.state \in {"busyProbing", "busy"} /\ ~InFlight(m))

\* The guards every frame passes before the state machine sees it.
Guarded(m) ==
    IF Dropped(m) \/ ~m.fresh THEN [Reset(m) EXCEPT !.fresh = @ \/ ~Dropped(m)] ELSE m

UsedInFlightTurn(m) ==
    IF m.fresh /\ m.turns > 0 THEN [m EXCEPT !.turns = @ - 1] ELSE m

\* One output slot: an utterance that finds it full is dropped.
Emit(m) ==
    IF m.out # <<>>
    THEN Reset(m)
    ELSE LET u    == [free  |-> m.state = "busy", acked |-> m.acked,
                      fresh |-> m.fresh, clean |-> m.clean]
             sent == [m EXCEPT !.out = <<u>>, !.queued = TRUE]
         IN  Reset(IF m.state = "busy" THEN UsedInFlightTurn(sent) ELSE sent)

\* What a frame past the guards may do to the capture, light apart.
Captured(m) ==
    CASE m.state = "armed" ->
            IF InFlight(m) THEN {m, [m EXCEPT !.state = "busyProbing"]}
                           ELSE {m, [m EXCEPT !.state = "probing"]}
      [] m.state = "probing"     -> {m, [m EXCEPT !.state = "inline"]}
      [] m.state = "waiting"     -> {m, [m EXCEPT !.state = "follow"]}
      [] m.state = "busyProbing" -> {m, Reset(m), [m EXCEPT !.state = "busy", !.acked = TRUE]}
      [] m.state \in {"inline", "follow", "busy"} -> {m, Emit(m)}

\* A frame that leaves the indicator alone.
Frame ==
    /\ k.state # "earcon" /\ ~Closed(k)
    /\ IF Dropped(k) THEN k' = Guarded(k) ELSE k' \in Captured(Guarded(k))
    /\ UNCHANGED light

\* A standalone wake: acknowledge blocks the segmenter while the earcon plays.
Acknowledge ==
    /\ k.state = "probing" /\ ~Dropped(k) /\ k.fresh
    /\ k' = [k EXCEPT !.state = "earcon", !.acked = TRUE]
    /\ light' = "listening"

\* The frames of the earcon are dropped, and the epoch is read again.
EarconEnds ==
    /\ k.state = "earcon"
    /\ k' = [k EXCEPT !.state = "waiting", !.fresh = TRUE, !.clean = TRUE]
    /\ UNCHANGED light

FollowUpTimeout ==
    /\ k.state = "waiting" /\ ~Dropped(k) /\ k.fresh
    /\ k' = Reset(k)
    /\ light' = "idle"

\* An empty frame: capture lost audio.  The detector may fail to restart.
Discontinue ==
    /\ k.state # "earcon" /\ ~Closed(k)
    /\ \E state \in {"armed", "closed"} :
          k' = [Reset(Shut(k)) EXCEPT !.fault = TRUE, !.state = state]
    /\ light' = "idle"

\* The capture stream ends: a command in progress is still delivered.
CaptureEnds ==
    /\ k.state # "earcon" /\ ~Closed(k)
    /\ LET speaking == k.state \in {"inline", "follow"} \/ (k.state = "busy" /\ InFlight(k))
       IN  /\ k' = [(IF speaking THEN Emit(k) ELSE Reset(k)) EXCEPT !.state = "closed"]
           /\ light' = IF ~speaking /\ k.acked THEN "idle" ELSE light

Segmenter ==
    Frame \/ Acknowledge \/ EarconEnds \/ FollowUpTimeout \/ Discontinue \/ CaptureEnds

KeywordInit ==
    /\ k = [turns |-> 0, left |-> 0, guard |-> 0, state |-> "armed", fresh |-> TRUE,
            acked |-> FALSE, clean |-> TRUE, out |-> <<>>, hand |-> <<>>,
            queued |-> FALSE, fault |-> FALSE]
    /\ light = "idle"

=============================================================================

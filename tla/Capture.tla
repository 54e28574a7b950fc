------------------------------ MODULE Capture ------------------------------
(***************************************************************************)
(* Microphone recovery: the loop of RecoveringRecorder (audio/recovery.go),*)
(* the attempt goroutines that own a device each, and the handshake with   *)
(* the segmenter over a CaptureBoundary (audio/boundary.go).  Choice 0 is  *)
(* the preferred microphone; the loop falls back in order and probes its   *)
(* way up again.  Deadlines are choices an attempt may take, PCM is where  *)
(* it came from.                                                           *)
(***************************************************************************)
EXTENDS Naturals

CONSTANTS
    Choices,      \* how many microphones are configured
    Group,        \* the exclusive hardware of each
    MaxFaults     \* bound: failures of attempts, of any kind

ASSUME ChoicesAssumption == Choices \in Nat \ {0} /\ MaxFaults \in Nat

Devices == 0 .. Choices - 1
ASSUME GroupAssumption == DOMAIN Group = Devices

None == Choices            \* no device

VARIABLES
    pc,          \* where the recovery loop is
    then,        \* what it does once the barrier or the handshake is passed
    active, probe,         \* captureAttempt: a device and what it is doing
    probeIndex, probeQuiet,
    selected, delivered,
    routed,      \* the choice whose speaker and light are in use
    segmenter,   \* "ready" for a frame, or "busy" with the last one
    utterance,   \* the segmenter holds part of an utterance
    heard,       \* ghost: the devices it heard since the last discontinuity
    faults

loopVars == <<pc, then, probeIndex, probeQuiet, selected, delivered, routed>>
segmenterVars == <<segmenter, utterance, heard>>
vars == <<loopVars, active, probe, segmenterVars, faults>>

Phase == {"starting", "streaming", "failing", "stopping", "stopped"}

NoAttempt == [dev |-> None, phase |-> "stopped"]

Started(d) == [dev |-> d, phase |-> "starting"]

\* The device is the attempt's until its recorder has closed both channels.
Holds(a) == a.dev # None /\ a.phase # "stopped"

Cancelled(a) == IF Holds(a) THEN [a EXCEPT !.phase = "stopping"] ELSE a

\* Every configured choice has a group: its HID, or else its device.
SameGroup(d, e) == Group[d] = Group[e]

(***************************************************************************)
(* An attempt.  Backpressure from the loop is not a fault: an attempt that *)
(* has a frame to send waits as long as it takes.                          *)
(***************************************************************************)
ActiveReady ==
    /\ active.phase = "starting" /\ active' = [active EXCEPT !.phase = "streaming"]
    /\ UNCHANGED <<probe, loopVars, segmenterVars, faults>>

ProbeReady ==
    /\ probe.phase = "starting" /\ probe' = [probe EXCEPT !.phase = "streaming"]
    /\ UNCHANGED <<active, loopVars, segmenterVars, faults>>

\* Not ready in time, stalled, zeros only, an error or the end of the stream.
AttemptFails ==
    /\ faults < MaxFaults /\ faults' = faults + 1
    /\ \/ /\ active.phase \in {"starting", "streaming"}
          /\ active' = [active EXCEPT !.phase = "failing"] /\ UNCHANGED probe
       \/ /\ probe.phase \in {"starting", "streaming"}
          /\ probe' = [probe EXCEPT !.phase = "failing"] /\ UNCHANGED active
    /\ UNCHANGED <<loopVars, segmenterVars>>

\* The recorder closes after cancellation, and the device is free.
Released ==
    \/ /\ active.phase = "stopping" /\ active' = [active EXCEPT !.phase = "stopped"]
       /\ UNCHANGED <<probe, loopVars, segmenterVars, faults>>
    \/ /\ probe.phase = "stopping" /\ probe' = [probe EXCEPT !.phase = "stopped"]
       /\ UNCHANGED <<active, loopVars, segmenterVars, faults>>

(***************************************************************************)
(* The loop's select.                                                      *)
(***************************************************************************)
\* The first better choice, from probeIndex on, that shares no hardware.
\* Bug: a choice on the hardware in use is probed like any other.
Probeable_Shared ==
    {d \in Devices : d = probeIndex /\ d < active.dev}

\* Bug: a choice on the hardware in use ends the search.
Probeable_NoSkip ==
    {d \in Devices : d = probeIndex /\ d < active.dev /\ ~SameGroup(d, active.dev)}

Probeable ==
    {d \in Devices : probeIndex <= d /\ d < active.dev /\ ~SameGroup(d, active.dev)
        /\ \A e \in probeIndex .. d - 1 : SameGroup(e, active.dev)}

PreferredDue ==
    /\ pc = "select" /\ active.dev > 0 /\ probe = NoAttempt
    /\ IF Probeable = {}
       THEN probeIndex' = 0 /\ UNCHANGED <<probe, probeQuiet>>
       ELSE \E d \in Probeable :
               probeIndex' = d /\ probe' = Started(d) /\ probeQuiet' = FALSE
    /\ UNCHANGED <<pc, then, active, selected, delivered, routed, segmenterVars, faults>>

ProbeFrame ==
    /\ pc = "select" /\ probe.phase = "streaming"
    /\ probeQuiet' \in BOOLEAN
    /\ UNCHANGED <<pc, then, active, probe, probeIndex, selected, delivered, routed,
                   segmenterVars, faults>>

ProbeFails ==
    /\ pc = "select" /\ probe.phase = "failing"
    /\ probe' = Cancelled(probe)
    /\ pc' = "barrier" /\ then' = "drop"
    /\ UNCHANGED <<active, probeIndex, probeQuiet, selected, delivered, routed,
                   segmenterVars, faults>>

ActiveFrame ==
    /\ pc = "select" /\ active.phase = "streaming"
    /\ routed' = IF selected THEN routed ELSE active.dev
    /\ selected' = TRUE
    /\ pc' = "forward" /\ then' = "frame"
    /\ UNCHANGED <<active, probe, probeIndex, probeQuiet, delivered, segmenterVars, faults>>

ActiveFails ==
    /\ pc = "select" /\ active.phase = "failing"
    /\ active' = Cancelled(active) /\ probe' = Cancelled(probe)
    /\ pc' = "barrier" /\ then' = "recover"
    /\ UNCHANGED <<probeIndex, probeQuiet, selected, delivered, routed, segmenterVars, faults>>

(***************************************************************************)
(* stopCapture: no step past it while a device is still held.              *)
(***************************************************************************)
DropProbe ==
    /\ pc = "barrier" /\ then = "drop" /\ ~Holds(probe)
    /\ probe' = NoAttempt
    /\ probeIndex' = IF probeIndex + 1 >= active.dev THEN 0 ELSE probeIndex + 1
    /\ pc' = "select" /\ then' = "none"
    /\ UNCHANGED <<active, probeQuiet, selected, delivered, routed, segmenterVars, faults>>

\* Bug: the next microphone goes on where the broken one stopped.
Recover_NoGap ==
    /\ pc = "barrier" /\ then = "recover" /\ ~Holds(active) /\ ~Holds(probe)
    /\ probe' = NoAttempt
    /\ pc' = "delay" /\ then' = "none"
    /\ UNCHANGED <<active, probeIndex, probeQuiet, selected, delivered, routed,
                   segmenterVars, faults>>

Recover ==
    /\ pc = "barrier" /\ then = "recover" /\ ~Holds(active) /\ ~Holds(probe)
    /\ probe' = NoAttempt
    /\ IF delivered THEN pc' = "forward" /\ then' = "lost" ELSE pc' = "delay" /\ then' = "none"
    /\ UNCHANGED <<active, probeIndex, probeQuiet, selected, delivered, routed,
                   segmenterVars, faults>>

Retry ==
    /\ pc = "delay"
    /\ active' = Started((active.dev + 1) % Choices)
    /\ selected' = FALSE /\ probeQuiet' = FALSE /\ probeIndex' = 0
    /\ pc' = "select" /\ then' = "none"
    /\ UNCHANGED <<probe, delivered, routed, segmenterVars, faults>>

\* The preferred microphone takes over, behind a discontinuity.
Switch ==
    /\ pc = "barrier" /\ then = "switch" /\ ~Holds(active)
    /\ active' = probe /\ probe' = NoAttempt
    /\ selected' = FALSE /\ probeQuiet' = FALSE /\ probeIndex' = 0
    /\ pc' = "forward" /\ then' = "switched"
    /\ UNCHANGED <<delivered, routed, segmenterVars, faults>>

\* A device that will not close: no retry may overlap it.
Stuck ==
    /\ pc = "barrier" /\ (active.phase = "stopping" \/ probe.phase = "stopping")
    /\ faults < MaxFaults /\ faults' = faults + 1
    /\ pc' = "gone" /\ then' = "none"
    /\ UNCHANGED <<active, probe, probeIndex, probeQuiet, selected, delivered, routed,
                   segmenterVars>>

(***************************************************************************)
(* The handshake: the segmenter takes a frame, and acknowledges it with    *)
(* whether it is quiet and holds nothing.                                  *)
(***************************************************************************)
Deliver(holds) ==
    /\ pc = "forward" /\ segmenter = "ready"
    /\ segmenter' = "busy" /\ pc' = "wait" /\ utterance' = holds
    /\ heard' = IF then = "frame" THEN heard \cup {active.dev} ELSE {}
    /\ UNCHANGED <<then, active, probe, probeIndex, probeQuiet, selected, delivered, routed,
                   faults>>

\* A discontinuity leaves no part of an utterance.
Take == \E holds \in BOOLEAN : (then # "frame" => ~holds) /\ Deliver(holds)

Acknowledged ==
    /\ pc = "wait" /\ segmenter = "busy" /\ segmenter' = "ready"
    /\ UNCHANGED <<probe, probeIndex, probeQuiet, selected, routed, utterance, heard, faults>>

CanSwitch == probe # NoAttempt /\ probeQuiet

\* Nothing to do but go on; after a loss, wait before the next attempt.
GoOn(idle) ==
    /\ Acknowledged /\ ~(idle /\ then = "frame" /\ CanSwitch)
    /\ delivered' = (delivered \/ then = "frame")
    /\ pc' = (IF then = "lost" THEN "delay" ELSE "select") /\ then' = "none"
    /\ UNCHANGED active

\* Both microphones quiet and the segmenter idle at this very frame.
ComeBack ==
    /\ Acknowledged /\ then = "frame" /\ CanSwitch
    /\ delivered' = TRUE
    /\ active' = Cancelled(active)
    /\ pc' = "barrier" /\ then' = "switch"

\* What the loop relies on: a segmenter that says it is idle holds nothing.
Acknowledge == \E idle \in BOOLEAN : (idle => ~utterance) /\ GoOn(idle)

\* Bug: the probe's silence is taken for the segmenter's.
Elect_Unasked == ComeBack

Elect == ~utterance /\ ComeBack

Stop == pc # "gone" /\ pc' = "gone" /\ then' = "none"
        /\ UNCHANGED <<active, probe, probeIndex, probeQuiet, selected, delivered, routed,
                       segmenterVars, faults>>

Init ==
    /\ pc = "select" /\ then = "none"
    /\ active = Started(0) /\ probe = NoAttempt
    /\ probeIndex = 0 /\ probeQuiet = FALSE /\ selected = FALSE /\ delivered = FALSE
    /\ routed = 0 /\ segmenter = "ready" /\ utterance = FALSE /\ heard = {} /\ faults = 0

Loop ==
    \/ PreferredDue \/ ProbeFrame \/ ProbeFails \/ ActiveFrame \/ ActiveFails
    \/ DropProbe \/ Recover \/ Retry \/ Switch \/ Take \/ Acknowledge \/ Elect

Next ==
    \/ ActiveReady \/ ProbeReady \/ AttemptFails \/ Released
    \/ Loop \/ Stuck \/ Stop

\* Devices answer or fail in time, cancelled recorders close, the segmenter
\* acknowledges, and select chooses at random among what is ready.
Fairness ==
    /\ WF_vars(ActiveReady) /\ WF_vars(ProbeReady) /\ WF_vars(Released)
    /\ WF_vars(DropProbe \/ Recover \/ Retry \/ Switch \/ Take \/ Acknowledge)
    /\ SF_vars(PreferredDue) /\ SF_vars(ProbeFrame) /\ SF_vars(ProbeFails)
    /\ SF_vars(ActiveFrame) /\ SF_vars(ActiveFails) /\ SF_vars(Elect)

Spec == Init /\ [][Next]_vars /\ Fairness

(***************************************************************************)
(* What recovery promises.                                                 *)
(***************************************************************************)
\* The types of the loop's, the attempts' and the segmenter's state.
TypeOK ==
    /\ pc \in {"select", "barrier", "forward", "wait", "delay", "gone"}
    /\ then \in {"none", "drop", "recover", "switch", "frame", "lost", "switched"}
    /\ {active, probe} \subseteq [dev : Devices \cup {None}, phase : Phase]
    /\ active.dev \in Devices /\ probeIndex \in Devices /\ routed \in Devices /\ heard \subseteq Devices
    /\ {probeQuiet, selected, delivered, utterance} \subseteq BOOLEAN
    /\ segmenter \in {"ready", "busy"} /\ faults \in 0 .. MaxFaults

\* No two attempts hold one piece of hardware, and none is started or put in
\* the place of an attempt that still holds its device (recovery.go:34, :132).
DevicesExclusive ==
    [][ /\ Holds(active') /\ Holds(probe') => ~SameGroup(active'.dev, probe'.dev)
        /\ Holds(active) /\ Holds(active') =>
              /\ active'.dev = active.dev
              /\ active'.phase = "starting" => active.phase = "starting"
        /\ Holds(probe) /\ Holds(probe') =>
              /\ probe'.dev = probe.dev
              /\ probe'.phase = "starting" => probe.phase = "starting" ]_vars

\* What the segmenter has since the last discontinuity comes from one
\* microphone, and its speaker and light are the ones in use: speech of two
\* microphones is never joined (README.md:319, routed.go:8).
HeardFromRouted == heard \subseteq {routed}

\* An elective return never cuts an utterance (boundary.go:5).
UtteranceNotCut == pc = "forward" /\ then = "switched" => ~utterance

\* Once devices stop failing and the room is quiet, capture comes back to the
\* preferred microphone, past choices that share hardware with the one in use.
QuietRoom == <>[]~utterance /\ <>[][ProbeFrame => probeQuiet']_vars
PreferredReturns == QuietRoom => <>[](active.dev = 0 \/ pc = "gone")
=============================================================================

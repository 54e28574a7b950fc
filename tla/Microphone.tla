----------------------------- MODULE Microphone -----------------------------
(***************************************************************************)
(* The recovery loop with its segmenter (internal/session/build.go): the   *)
(* energy segmenter of the transcription routes, whose every answer is     *)
(* computed here, or the keyword segmenter, of which the loop knows only    *)
(* what Capture says.                                                      *)
(***************************************************************************)
EXTENDS Capture, Energy

VARIABLE keyword      \* the segmenter is the keyword segmenter

microphoneVars == <<vars, energyVars, keyword>>

\* A discontinuity is a frame without samples.
EnergyTakes ==
    \/ then = "frame" /\ \E loud \in BOOLEAN : Hear(loud) /\ Deliver(seg'.frames # <<>>)
    \/ then # "frame" /\ Discontinuity /\ Deliver(seg'.frames # <<>>)

EnergyAcknowledges == GoOn(Idle) /\ UNCHANGED energyVars
EnergyElects == Idle /\ ComeBack /\ UNCHANGED energyVars

\* The recorder has closed its channel.
EnergyEnds == pc = "gone" /\ FramesEnd /\ UNCHANGED vars

\* What neither segmenter takes part in.
Elsewhere ==
    \/ ActiveReady \/ ProbeReady \/ AttemptFails \/ Released
    \/ PreferredDue \/ ProbeFrame \/ ProbeFails \/ ActiveFrame \/ ActiveFails
    \/ DropProbe \/ Recover \/ Retry \/ Switch \/ Stuck \/ Stop

MicrophoneInit == Init /\ EnergyInit /\ keyword \in BOOLEAN

MicrophoneNext ==
    /\ \/ Elsewhere /\ UNCHANGED energyVars
       \/ keyword /\ (Take \/ Acknowledge \/ Elect) /\ UNCHANGED energyVars
       \/ ~keyword /\ (EnergyTakes \/ EnergyAcknowledges \/ EnergyElects \/ EnergyEnds)
    /\ UNCHANGED keyword

\* As Capture's, with the segmenter's answers in the place of what it allows.
MicrophoneFairness ==
    /\ WF_vars(ActiveReady) /\ WF_vars(ProbeReady) /\ WF_vars(Released)
    /\ WF_vars(DropProbe \/ Recover \/ Retry \/ Switch)
    /\ WF_vars(keyword /\ (Take \/ Acknowledge))
    /\ WF_vars(~keyword /\ (EnergyTakes \/ EnergyAcknowledges))
    /\ SF_vars(PreferredDue) /\ SF_vars(ProbeFrame) /\ SF_vars(ProbeFails)
    /\ SF_vars(ActiveFrame) /\ SF_vars(ActiveFails)
    /\ SF_vars((keyword /\ Elect) \/ (~keyword /\ EnergyElects))

MicrophoneSpec == MicrophoneInit /\ [][MicrophoneNext]_microphoneVars /\ MicrophoneFairness

\* The energy segmenter gives the recovery loop what Capture, and every theorem
\* about it, relies on: whenever it says that it is idle it holds no part of an
\* utterance, and a discontinuity leaves it none (boundary.go:5-10).
ImplementsCapture == Init /\ [][Next]_vars
=============================================================================

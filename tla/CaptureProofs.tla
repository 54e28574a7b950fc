--------------------------- MODULE CaptureProofs ---------------------------
(***************************************************************************)
(* Proofs about microphone recovery, for any number of microphones on any  *)
(* hardware and any number of failures, and about the energy segmenter     *)
(* that listens to it, for any durations.                                  *)
(*                                                                         *)
(* The inductive invariant says what the loop may rely on at each of its   *)
(* points: which attempts hold a device there (Separate, Settled) and what *)
(* the segmenter may have heard by then (Pure, Uncut).  Nothing but pc and *)
(* then carries that knowledge from one select to the next.                *)
(***************************************************************************)
EXTENDS Microphone, SequenceTheorems, TLAPS

\* What the loop still has to do, at each of its points.
Fits ==
    /\ pc \in {"select", "delay", "gone"} => then = "none"
    /\ pc = "barrier" => then \in {"drop", "recover", "switch"}
    /\ pc \in {"forward", "wait"} => then \in {"frame", "lost", "switched"}

\* A probe never shares the hardware of the microphone in use.
Separate ==
    probe # NoAttempt => probe.dev \in Devices /\ ~SameGroup(probe.dev, active.dev)

\* Where the next attempt is started nothing is held; where the probe is to
\* take over there is one.
Settled ==
    /\ pc = "delay" \/ then = "lost" => ~Holds(active) /\ probe = NoAttempt
    /\ then = "switch" => probe # NoAttempt

\* What was heard came from the routed microphone; where another one may
\* become that, nothing was heard since the last discontinuity.
Pure ==
    /\ heard \subseteq {routed}
    /\ selected => routed = active.dev
    /\ then = "frame" => selected
    /\ pc # "gone" /\ ~selected => heard = {} \/ (pc = "forward" /\ then = "switched")
    /\ pc # "gone" /\ ~delivered => heard = {} \/ (pc = "wait" /\ then = "frame")
    /\ pc = "delay" \/ (pc = "wait" /\ then = "lost") => heard = {}

\* From the election to the discontinuity the segmenter holds no utterance.
Uncut == then = "switch" \/ (pc = "forward" /\ then = "switched") => ~utterance

CaptureInv == TypeOK /\ Fits /\ Separate /\ Settled /\ Pure /\ Uncut

----------------------------------------------------------------------------
LEMMA Constants ==
    /\ Choices \in Nat /\ Choices > 0 /\ MaxFaults \in Nat
    /\ None \notin Devices /\ 0 \in Devices
BY ChoicesAssumption DEF Devices, None

\* Cancelling an attempt keeps its device and only stops it if it holds one.
LEMMA CancelKeeps ==
    ASSUME NEW a \in [dev : Devices \cup {None}, phase : Phase]
    PROVE  /\ Cancelled(a) \in [dev : Devices \cup {None}, phase : Phase]
           /\ Cancelled(a).dev = a.dev
           /\ Cancelled(a).phase \in {a.phase, "stopping"}
           /\ Holds(a) => Cancelled(a) = [dev |-> a.dev, phase |-> "stopping"]
           /\ ~Holds(a) => Cancelled(a) = a
BY DEF Cancelled, Holds, Phase

\* An attempt is no attempt exactly when it has no device: what stops or
\* starts it leaves it an attempt.
LEMMA Attempts ==
    ASSUME NEW d \in Devices
    PROVE  /\ Started(d) \in [dev : Devices \cup {None}, phase : Phase]
           /\ Started(d).dev = d /\ Started(d).phase = "starting" /\ Started(d) # NoAttempt
           /\ NoAttempt \in [dev : Devices \cup {None}, phase : Phase] /\ ~Holds(NoAttempt)
BY Constants DEF Started, NoAttempt, Holds, Phase

----------------------------------------------------------------------------
\* The types.

LEMMA StepKeepsTypes ==
    ASSUME CaptureInv, Next
    PROVE  TypeOK'
<1> USE DEF CaptureInv, TypeOK
<1>1. CASE ActiveReady \/ ProbeReady \/ AttemptFails \/ Released
  BY <1>1, Constants DEF ActiveReady, ProbeReady, AttemptFails, Released, loopVars, segmenterVars, Phase
<1>2. CASE PreferredDue
  <2>1. CASE Probeable = {}
    BY <1>2, <2>1, Constants DEF PreferredDue, segmenterVars
  <2>2. CASE Probeable # {}
    <3>1. PICK d \in Devices : probeIndex' = d /\ probe' = Started(d) /\ probeQuiet' = FALSE
      BY <1>2, <2>2 DEF PreferredDue, Probeable
    <3>2. probe' \in [dev : Devices \cup {None}, phase : Phase]
      BY <3>1, Attempts
    <3> QED BY <1>2, <3>1, <3>2 DEF PreferredDue, segmenterVars
  <2> QED BY <2>1, <2>2
<1>3. CASE ProbeFrame
  BY <1>3 DEF ProbeFrame, segmenterVars
<1>4. CASE ProbeFails
  BY <1>4, CancelKeeps DEF ProbeFails, segmenterVars
<1>5. CASE ActiveFrame
  BY <1>5 DEF ActiveFrame, segmenterVars
<1>6. CASE ActiveFails
  BY <1>6, CancelKeeps DEF ActiveFails, segmenterVars
<1>7. CASE DropProbe
  <2>1. probeIndex' \in Devices
    BY <1>7, Constants DEF DropProbe, Devices
  <2> QED BY <1>7, <2>1, Attempts, Constants DEF DropProbe, segmenterVars
<1>8. CASE Recover
  BY <1>8, Attempts, Constants DEF Recover, segmenterVars
<1>9. CASE Retry
  <2>1. (active.dev + 1) % Choices \in Devices
    BY Constants DEF Devices
  <2> QED BY <1>9, <2>1, Attempts, Constants DEF Retry, segmenterVars
<1>10. CASE Switch
  <2>1. probe \in [dev : Devices \cup {None}, phase : Phase] /\ probe.dev \in Devices
    BY <1>10 DEF Switch, Settled, Separate
  <2> QED BY <1>10, <2>1, Attempts, Constants DEF Switch, segmenterVars
<1>11. CASE Take
  BY <1>11 DEF Take, Deliver
<1>12. CASE Acknowledge
  BY <1>12 DEF Acknowledge, GoOn, Acknowledged
<1>13. CASE Elect
  BY <1>13, CancelKeeps DEF Elect, ComeBack, Acknowledged
<1>14. CASE Stuck
  BY <1>14, Constants DEF Stuck, segmenterVars
<1>15. CASE Stop
  BY <1>15 DEF Stop, segmenterVars
<1> QED
  BY <1>1, <1>2, <1>3, <1>4, <1>5, <1>6, <1>7, <1>8, <1>9, <1>10, <1>11, <1>12, <1>13, <1>14, <1>15
  DEF Next, Loop

LEMMA StepKeepsFits ==
    ASSUME CaptureInv, Next
    PROVE  Fits'
BY DEF CaptureInv, Fits, Next, Loop, ActiveReady, ProbeReady, AttemptFails, Released,
       PreferredDue, ProbeFrame, ProbeFails, ActiveFrame, ActiveFails, DropProbe, Recover, Retry,
       Switch, Take, Deliver, Acknowledge, GoOn, Acknowledged, Elect, ComeBack, Stuck, Stop, loopVars

----------------------------------------------------------------------------
\* Who holds what.

\* An attempt's own steps keep its device, and end or begin nothing for the loop.
LEMMA AttemptSteps ==
    ASSUME CaptureInv, ActiveReady \/ ProbeReady \/ AttemptFails \/ Released
    PROVE  /\ active'.dev = active.dev /\ probe'.dev = probe.dev
           /\ Holds(active') => Holds(active) /\ (active'.phase = "starting" => active' = active)
           /\ Holds(probe') => Holds(probe) /\ (probe'.phase = "starting" => probe' = probe)
           /\ probe = NoAttempt <=> probe' = NoAttempt
           /\ UNCHANGED <<loopVars, segmenterVars>>
BY Constants DEF CaptureInv, TypeOK, Separate, ActiveReady, ProbeReady, AttemptFails, Released,
                 Holds, NoAttempt, Phase

LEMMA StepKeepsSeparate ==
    ASSUME CaptureInv, Next
    PROVE  Separate'
<1>1. CASE ActiveReady \/ ProbeReady \/ AttemptFails \/ Released
  BY <1>1, AttemptSteps DEF CaptureInv, Separate, SameGroup
<1>2. CASE PreferredDue
  <2>1. CASE Probeable = {}
    BY <1>2, <2>1 DEF PreferredDue, Separate
  <2>2. CASE Probeable # {}
    <3>1. PICK d \in Devices : probe' = Started(d) /\ ~SameGroup(d, active.dev)
      BY <1>2, <2>2 DEF PreferredDue, Probeable
    <3> QED BY <1>2, <3>1, Attempts DEF PreferredDue, Separate, SameGroup
  <2> QED BY <2>1, <2>2
<1>3. CASE ProbeFails \/ ActiveFails \/ Elect
  <2>1. active'.dev = active.dev /\ probe'.dev = probe.dev /\ (probe = NoAttempt => probe' = NoAttempt)
    BY <1>3, CancelKeeps, Attempts DEF ProbeFails, ActiveFails, Elect, ComeBack, Acknowledged, CaptureInv, TypeOK
  <2> QED BY <2>1 DEF CaptureInv, Separate, SameGroup
<1>4. CASE Retry
  BY <1>4 DEF Retry, CaptureInv, Settled, Separate
<1>5. CASE ~(ActiveReady \/ ProbeReady \/ AttemptFails \/ Released \/ PreferredDue \/ ProbeFails
              \/ ActiveFails \/ Elect \/ Retry)
  BY <1>5 DEF Next, Loop, CaptureInv, Separate, SameGroup, ProbeFrame, ActiveFrame, DropProbe,
              Recover, Switch, Take, Deliver, Acknowledge, GoOn, Acknowledged, Stuck, Stop
<1> QED BY <1>1, <1>2, <1>3, <1>4, <1>5

LEMMA StepKeepsSettled ==
    ASSUME CaptureInv, Next
    PROVE  Settled'
<1> USE DEF CaptureInv, Settled, Fits
<1>1. CASE ActiveReady \/ ProbeReady \/ AttemptFails \/ Released
  BY <1>1, AttemptSteps DEF loopVars
<1>2. CASE PreferredDue \/ ProbeFrame \/ ProbeFails \/ ActiveFrame \/ ActiveFails
  BY <1>2 DEF PreferredDue, ProbeFrame, ProbeFails, ActiveFrame, ActiveFails
<1>3. CASE DropProbe \/ Recover \/ Retry \/ Switch
  BY <1>3 DEF DropProbe, Recover, Retry, Switch
<1>4. CASE Take \/ Acknowledge \/ Elect
  BY <1>4 DEF Take, Deliver, Acknowledge, GoOn, Acknowledged, Elect, ComeBack, CanSwitch
<1>5. CASE Stuck \/ Stop
  BY <1>5 DEF Stuck, Stop
<1> QED BY <1>1, <1>2, <1>3, <1>4, <1>5 DEF Next, Loop

----------------------------------------------------------------------------
\* What was heard.

LEMMA StepKeepsPure ==
    ASSUME CaptureInv, Next
    PROVE  Pure'
<1> USE DEF CaptureInv, Pure, Fits
<1>1. CASE ActiveReady \/ ProbeReady \/ AttemptFails \/ Released
  BY <1>1, AttemptSteps DEF loopVars, segmenterVars
<1>2. CASE PreferredDue \/ ProbeFrame \/ ProbeFails \/ DropProbe
  BY <1>2 DEF PreferredDue, ProbeFrame, ProbeFails, DropProbe, segmenterVars
<1>3. CASE ActiveFrame
  BY <1>3 DEF ActiveFrame, segmenterVars, TypeOK
<1>4. CASE ActiveFails \/ Elect
  <2>1. active'.dev = active.dev
    BY <1>4, CancelKeeps DEF ActiveFails, Elect, ComeBack, TypeOK
  <2>2. CASE ActiveFails
    BY <2>1, <2>2 DEF ActiveFails, segmenterVars
  <2>3. CASE Elect
    BY <2>1, <2>3 DEF Elect, ComeBack, Acknowledged
  <2> QED BY <1>4, <2>2, <2>3
<1>5. CASE Recover
  BY <1>5 DEF Recover, segmenterVars
<1>6. CASE Retry
  BY <1>6 DEF Retry, segmenterVars
<1>7. CASE Switch
  BY <1>7 DEF Switch, segmenterVars
<1>8. CASE Take
  BY <1>8 DEF Take, Deliver
<1>9. CASE Acknowledge
  <2>1. /\ pc = "wait" /\ then \in {"frame", "lost", "switched"}
        /\ UNCHANGED <<active, selected, routed, heard>>
        /\ delivered' = (delivered \/ then = "frame")
        /\ pc' = (IF then = "lost" THEN "delay" ELSE "select") /\ then' = "none"
    BY <1>9 DEF Acknowledge, GoOn, Acknowledged
  <2>2. delivered \in BOOLEAN /\ selected \in BOOLEAN
    BY DEF TypeOK
  <2>3. CASE then = "frame"
    BY <2>1, <2>2, <2>3
  <2>4. CASE then # "frame"
    BY <2>1, <2>2, <2>4
  <2> QED BY <2>3, <2>4
<1>10. CASE Stuck \/ Stop
  BY <1>10 DEF Stuck, Stop, segmenterVars
<1> QED BY <1>1, <1>2, <1>3, <1>4, <1>5, <1>6, <1>7, <1>8, <1>9, <1>10 DEF Next, Loop

LEMMA StepKeepsUncut ==
    ASSUME CaptureInv, Next
    PROVE  Uncut'
BY DEF CaptureInv, Fits, Uncut, Next, Loop, ActiveReady, ProbeReady, AttemptFails, Released,
       PreferredDue, ProbeFrame, ProbeFails, ActiveFrame, ActiveFails, DropProbe, Recover, Retry,
       Switch, Take, Deliver, Acknowledge, GoOn, Acknowledged, Elect, ComeBack, Stuck, Stop, loopVars, segmenterVars

----------------------------------------------------------------------------
\* The invariant of every execution.

LEMMA StutterKeepsInv ==
    ASSUME CaptureInv, UNCHANGED vars
    PROVE  CaptureInv'
BY DEF CaptureInv, TypeOK, Fits, Separate, Settled, Pure, Uncut, vars, loopVars, segmenterVars,
       SameGroup, Holds, NoAttempt

LEMMA InitInv == Init => CaptureInv
<1> SUFFICES ASSUME Init PROVE CaptureInv
  OBVIOUS
<1>1. TypeOK
  <2>1. {active, probe} \subseteq [dev : Devices \cup {None}, phase : Phase] /\ active.dev \in Devices
    BY Constants, Attempts DEF Init
  <2>2. probeIndex \in Devices /\ routed \in Devices /\ heard \subseteq Devices
        /\ faults \in 0 .. MaxFaults
    BY Constants DEF Init
  <2>3. {probeQuiet, selected, delivered, utterance} \subseteq BOOLEAN
        /\ segmenter \in {"ready", "busy"} /\ pc = "select" /\ then = "none"
    BY DEF Init
  <2> QED BY <2>1, <2>2, <2>3 DEF TypeOK
<1> QED BY <1>1, Attempts DEF Init, CaptureInv, Fits, Separate, Settled, Pure, Uncut

LEMMA SpecInv == ImplementsCapture => []CaptureInv
<1>1. CaptureInv /\ [Next]_vars => CaptureInv'
  <2>1. CaptureInv /\ Next => CaptureInv'
    BY StepKeepsTypes, StepKeepsFits, StepKeepsSeparate, StepKeepsSettled, StepKeepsPure,
       StepKeepsUncut DEF CaptureInv
  <2> QED BY <2>1, StutterKeepsInv
<1> QED BY <1>1, InitInv, PTL DEF ImplementsCapture

\* The loop's, the attempts' and the segmenter's state keep their types.
THEOREM TypesHold == Spec => []TypeOK
<1>1. CaptureInv => TypeOK
  BY DEF CaptureInv
<1> QED BY <1>1, SpecInv, PTL DEF Spec, ImplementsCapture

\* Speech of two microphones is never joined, and what was heard came from the
\* microphone whose speaker and light are in use.
THEOREM NeverJoined == Spec => []HeardFromRouted
<1>1. CaptureInv => HeardFromRouted
  BY DEF CaptureInv, Pure, HeardFromRouted
<1> QED BY <1>1, SpecInv, PTL DEF Spec, ImplementsCapture

\* An elective return to a better microphone finds no utterance to cut.
THEOREM NeverCut == Spec => []UtteranceNotCut
<1>1. CaptureInv => UtteranceNotCut
  BY DEF CaptureInv, Uncut, UtteranceNotCut
<1> QED BY <1>1, SpecInv, PTL DEF Spec, ImplementsCapture

----------------------------------------------------------------------------
\* One owner per device.

\* What holds a device after a step of the loop held it before, or is started
\* where nothing was held.
LEMMA LoopReplaces ==
    ASSUME CaptureInv, Loop \/ Stuck \/ Stop
    PROVE  /\ Holds(active) /\ Holds(active') => active' \in {active, Cancelled(active)}
           /\ Holds(probe) /\ Holds(probe') => probe' \in {probe, Cancelled(probe)}
<1> USE DEF CaptureInv
<1>1. CASE PreferredDue
  <2>1. active' = active /\ probe = NoAttempt /\ ~Holds(probe)
    BY <1>1, Constants, Attempts DEF PreferredDue
  <2> QED BY <2>1
<1>2. CASE ProbeFrame \/ ProbeFails \/ ActiveFrame \/ ActiveFails
  BY <1>2 DEF ProbeFrame, ProbeFails, ActiveFrame, ActiveFails
<1>3. CASE DropProbe \/ Recover
  <2>1. active' = active /\ probe' = NoAttempt /\ ~Holds(NoAttempt)
    BY <1>3, Attempts, Constants DEF DropProbe, Recover
  <2> QED BY <2>1
<1>4. CASE Retry
  BY <1>4 DEF Retry, Settled
<1>5. CASE Switch
  <2>1. ~Holds(active) /\ probe' = NoAttempt /\ ~Holds(NoAttempt)
    BY <1>5, Attempts, Constants DEF Switch
  <2> QED BY <2>1
<1>6. CASE Take \/ Acknowledge \/ Elect
  BY <1>6 DEF Take, Deliver, Acknowledge, GoOn, Acknowledged, Elect, ComeBack
<1>7. CASE Stuck \/ Stop
  BY <1>7 DEF Stuck, Stop
<1> QED BY <1>1, <1>2, <1>3, <1>4, <1>5, <1>6, <1>7 DEF Loop

LEMMA Owners == ImplementsCapture => DevicesExclusive
<1> DEFINE Apart == Holds(active') /\ Holds(probe') => ~SameGroup(active'.dev, probe'.dev)
           Kept(a, b) == Holds(a) /\ Holds(b) =>
                            /\ b.dev = a.dev
                            /\ b.phase = "starting" => a.phase = "starting"
<1>1. CaptureInv /\ CaptureInv' /\ [Next]_vars =>
        (Apart /\ Kept(active, active') /\ Kept(probe, probe')) \/ UNCHANGED vars
  <2> SUFFICES ASSUME CaptureInv, CaptureInv', Next
               PROVE  Apart /\ Kept(active, active') /\ Kept(probe, probe')
    OBVIOUS
  <2>1. Apart
    BY DEF CaptureInv, Separate, SameGroup, Holds, NoAttempt
  <2>2. CASE ActiveReady \/ ProbeReady \/ AttemptFails \/ Released
    BY <2>1, <2>2, AttemptSteps
  <2>3. CASE Loop \/ Stuck \/ Stop
    <3>1. \A a \in {active, probe} : Kept(a, a) /\ Kept(a, Cancelled(a))
      BY CancelKeeps DEF CaptureInv, TypeOK
    <3>2. /\ Holds(active) /\ Holds(active') => active' \in {active, Cancelled(active)}
          /\ Holds(probe) /\ Holds(probe') => probe' \in {probe, Cancelled(probe)}
      BY <2>3, LoopReplaces
    <3>3. Kept(active, active')
      BY <3>1, <3>2
    <3>4. Kept(probe, probe')
      BY <3>1, <3>2
    <3> QED BY <2>1, <3>3, <3>4
  <2> QED BY <2>2, <2>3 DEF Next
<1>2. CaptureInv /\ CaptureInv' /\ [Next]_vars =>
        [ /\ Holds(active') /\ Holds(probe') => ~SameGroup(active'.dev, probe'.dev)
          /\ Holds(active) /\ Holds(active') =>
              /\ active'.dev = active.dev
              /\ active'.phase = "starting" => active.phase = "starting"
          /\ Holds(probe) /\ Holds(probe') =>
              /\ probe'.dev = probe.dev
              /\ probe'.phase = "starting" => probe.phase = "starting" ]_vars
  BY <1>1
<1> QED BY <1>2, SpecInv, PTL DEF ImplementsCapture, DevicesExclusive

\* No two attempts hold one piece of hardware, and no attempt is replaced while
\* it holds its device.
THEOREM OneOwner == Spec => DevicesExclusive
BY Owners, PTL DEF Spec, ImplementsCapture

----------------------------------------------------------------------------
(***************************************************************************)
(* The energy segmenter.  Its frames are the end of the tape; what the      *)
(* counters say of them decides what an utterance looks like when it is     *)
(* emitted.  Nothing is assumed of the durations: validation (config.go:884) *)
(* leaves open whether pre-roll and speech fit into the longest utterance.  *)
(***************************************************************************)
EndOf(a, s) == Len(a) <= Len(s) /\ \A i \in 1 .. Len(a) : a[i] = s[Len(s) - Len(a) + i]

SegTyped ==
    /\ seg \in [candidate : BOOLEAN, active : BOOLEAN, speech : Nat, silent : Nat,
                frames : Seq(BOOLEAN), pre : Seq(BOOLEAN), quiet : Nat]
    /\ tape \in Seq(BOOLEAN)

\* The silence that ends an utterance is at its frame i.
QuietAt(s, i) == i >= Silence /\ \A j \in i - Silence + 1 .. i : ~s[j]
Spoken(s, p) == \A i \in p + 1 .. p + MinSpeech : i \in DOMAIN s /\ s[i]

\* A run of speech after at most the pre-roll, and no silence that would have ended it up to n.
Speaks(s, n) ==
    \E p \in 0 .. PreRoll : Spoken(s, p) /\ \A i \in p + MinSpeech + Silence .. n : ~QuietAt(s, i)

\* Before an utterance.
Sought ==
    /\ seg.silent = 0 /\ Len(seg.pre) <= PreRoll /\ EndOf(seg.pre, tape)
    /\ seg.candidate =>
          /\ seg.frames # <<>> /\ seg.speech < MinSpeech
          /\ \E p \in 0 .. PreRoll : /\ Len(seg.frames) = p + seg.speech
                                     /\ \A i \in p + 1 .. Len(seg.frames) : seg.frames[i]
    /\ ~seg.candidate => seg.frames = <<>> /\ seg.speech = 0

\* In an utterance: the frames since the last loud one are counted.
Heard ==
    /\ seg.candidate /\ seg.silent < Silence /\ seg.silent < Len(seg.frames)
    /\ seg.frames[Len(seg.frames) - seg.silent]
    /\ \A i \in Len(seg.frames) - seg.silent + 1 .. Len(seg.frames) : ~seg.frames[i]
    /\ Speaks(seg.frames, Len(seg.frames))
    /\ Len(seg.frames) <= PreRoll + MinSpeech \/ Len(seg.frames) < MaxUtterance

SegInv ==
    /\ SegTyped
    /\ EndOf(seg.frames, tape)
    /\ ~seg.active => Sought
    /\ seg.active => Heard

\* What an utterance owes once it is out.
Whole(u) ==
    /\ Speaks(u.pcm, Len(u.pcm) - 1)
    /\ u.ended = "silence" => QuietAt(u.pcm, Len(u.pcm))
    /\ u.ended # "closed" => (u.ended = "limit" <=> Len(u.pcm) >= MaxUtterance)

\* What the recovery loop takes from the segmenter's answers.
Held == ~keyword /\ pc # "gone" /\ utterance => seg.frames # <<>>

MicrophoneInv == SegInv /\ (out # Nothing => Whole(out)) /\ Held

LEMMA Durations ==
    /\ MinSpeech \in Nat /\ MinSpeech >= 1 /\ Silence \in Nat /\ Silence >= 1
    /\ MaxUtterance \in Nat /\ MaxUtterance >= 1 /\ PreRoll \in Nat
    /\ TapeLength \in Nat /\ TapeLength >= MaxUtterance /\ TapeLength > PreRoll + MinSpeech
BY ParamsAssumption DEF TapeLength

LEMMA LatestIs ==
    ASSUME NEW s \in Seq(BOOLEAN), NEW n \in Nat
    PROVE  /\ Latest(n, s) \in Seq(BOOLEAN) /\ Len(Latest(n, s)) <= n
           /\ Len(s) > n => Len(Latest(n, s)) = n
           /\ Len(s) <= n => Latest(n, s) = s
           /\ EndOf(Latest(n, s), s)
<1> DEFINE m == Len(s)
<1>1. m \in Nat
    OBVIOUS
<1>2. CASE m > n
    <2>1. Latest(n, s) = SubSeq(s, m - n + 1, m)
        BY <1>2 DEF Latest
    <2> DEFINE r == SubSeq(s, m - n + 1, m)
    <2>2. r \in Seq(BOOLEAN) /\ Len(r) = n /\ \A i \in 1 .. n : r[i] = s[m - n + i]
        BY <1>1, <1>2
    <2> HIDE DEF r
    <2>3. EndOf(r, s)
        BY <1>1, <1>2, <2>2 DEF EndOf
    <2> QED BY <1>1, <1>2, <2>1, <2>2, <2>3 DEF r
<1>3. CASE ~(m > n)
    <2>1. Latest(n, s) = SubSeq(s, 1, m)
        BY <1>3 DEF Latest
    <2>2. SubSeq(s, 1, m) = s
        BY <1>1
    <2>3. EndOf(s, s)
        BY <1>1 DEF EndOf
    <2>4. Latest(n, s) = s /\ Len(s) <= n
        BY <1>1, <1>3, <2>1, <2>2
    <2>5. EndOf(Latest(n, s), s) /\ Latest(n, s) \in Seq(BOOLEAN)
        BY <2>3, <2>4
    <2>6. Len(Latest(n, s)) <= n /\ ~(Len(s) > n)
        BY <1>3, <2>4
    <2> QED BY <2>4, <2>5, <2>6
<1> QED BY <1>2, <1>3

LEMMA EndOfEnd ==
    ASSUME NEW a \in Seq(BOOLEAN), NEW b \in Seq(BOOLEAN), NEW s \in Seq(BOOLEAN), EndOf(a, b), EndOf(b, s)
    PROVE  EndOf(a, s)
<1>1. Len(a) \in Nat /\ Len(b) \in Nat /\ Len(s) \in Nat /\ Len(a) <= Len(b) /\ Len(b) <= Len(s)
    BY DEF EndOf
<1>2. ASSUME NEW i \in 1 .. Len(a)
      PROVE  a[i] = s[Len(s) - Len(a) + i]
    <2> DEFINE j == Len(b) - Len(a) + i
    <2>1. j \in 1 .. Len(b) /\ Len(s) - Len(b) + j = Len(s) - Len(a) + i
        BY <1>1
    <2>2. a[i] = b[j]
        BY DEF EndOf
    <2> HIDE DEF j
    <2>3. b[j] = s[Len(s) - Len(b) + j]
        BY <2>1 DEF EndOf
    <2> QED BY <2>1, <2>2, <2>3
<1> QED BY <1>1, <1>2 DEF EndOf

LEMMA EndGrows ==
    ASSUME NEW a \in Seq(BOOLEAN), NEW s \in Seq(BOOLEAN), NEW x \in BOOLEAN, EndOf(a, s)
    PROVE  EndOf(Append(a, x), Append(s, x))
<1> DEFINE b == Append(a, x)
           t == Append(s, x)
<1>1. /\ b \in Seq(BOOLEAN) /\ Len(b) = Len(a) + 1 /\ b[Len(a) + 1] = x
      /\ \A i \in 1 .. Len(a) : b[i] = a[i]
    OBVIOUS
<1>2. /\ t \in Seq(BOOLEAN) /\ Len(t) = Len(s) + 1 /\ t[Len(s) + 1] = x
      /\ \A i \in 1 .. Len(s) : t[i] = s[i]
    OBVIOUS
<1>3. Len(a) \in Nat /\ Len(s) \in Nat /\ Len(a) <= Len(s)
    BY DEF EndOf
<1> HIDE DEF b, t
<1>4. ASSUME NEW i \in 1 .. Len(a) + 1
      PROVE  b[i] = t[Len(t) - Len(b) + i]
    <2>1. CASE i = Len(a) + 1
        <3>1. Len(t) - Len(b) + i = Len(s) + 1
            BY <1>1, <1>2, <1>3, <2>1
        <3> QED BY <1>1, <1>2, <2>1, <3>1
    <2>2. CASE i # Len(a) + 1
        <3> DEFINE j == Len(s) - Len(a) + i
        <3>1. i \in 1 .. Len(a) /\ j \in 1 .. Len(s) /\ Len(t) - Len(b) + i = j
            BY <1>1, <1>2, <1>3, <2>2
        <3>2. a[i] = s[j]
            BY <3>1 DEF EndOf
        <3> HIDE DEF j
        <3> QED BY <1>1, <1>2, <3>1, <3>2
    <2> QED BY <2>1, <2>2
<1>5. EndOf(b, t)
    BY <1>1, <1>2, <1>3, <1>4 DEF EndOf
<1> QED BY <1>5 DEF b, t

LEMMA EndStays ==
    ASSUME NEW a \in Seq(BOOLEAN), NEW s \in Seq(BOOLEAN), NEW n \in Nat, EndOf(a, s), Len(a) <= n
    PROVE  EndOf(a, Latest(n, s))
<1>1. /\ Latest(n, s) \in Seq(BOOLEAN) /\ EndOf(Latest(n, s), s)
      /\ Len(s) > n => Len(Latest(n, s)) = n
      /\ Len(s) <= n => Latest(n, s) = s
    BY LatestIs
<1> DEFINE b == Latest(n, s)
<1>2. b \in Seq(BOOLEAN) /\ EndOf(b, s) /\ (Len(s) > n => Len(b) = n) /\ (Len(s) <= n => b = s)
    BY <1>1
<1> HIDE DEF b
<1>3. CASE Len(s) > n
    <2>1. /\ Len(b) = n /\ Len(a) \in Nat /\ Len(s) \in Nat
          /\ \A i \in 1 .. Len(b) : b[i] = s[Len(s) - Len(b) + i]
          /\ \A i \in 1 .. Len(a) : a[i] = s[Len(s) - Len(a) + i]
        BY <1>2, <1>3 DEF EndOf
    <2>2. ASSUME NEW i \in 1 .. Len(a)
          PROVE  a[i] = b[Len(b) - Len(a) + i]
        <3> DEFINE j == Len(b) - Len(a) + i
        <3>1. j \in 1 .. Len(b) /\ Len(s) - Len(b) + j = Len(s) - Len(a) + i
            BY <1>3, <2>1
        <3> HIDE DEF j
        <3>2. b[j] = s[Len(s) - Len(b) + j] /\ a[i] = s[Len(s) - Len(a) + i]
            BY <2>1, <3>1
        <3>3. a[i] = b[j]
            BY <3>1, <3>2
        <3> QED BY <3>3 DEF j
    <2> QED BY <2>1, <2>2 DEF EndOf, b
<1>4. CASE ~(Len(s) > n)
    <2>1. Len(s) <= n
        BY <1>4
    <2> QED BY <1>2, <2>1 DEF b
<1> QED BY <1>3, <1>4

\* The tape takes a frame.
LEMMA TapeTakes ==
    ASSUME NEW a \in Seq(BOOLEAN), NEW s \in Seq(BOOLEAN), NEW x \in BOOLEAN, EndOf(a, s),
           Len(a) < TapeLength
    PROVE  EndOf(Append(a, x), Latest(TapeLength, Append(s, x)))
<1>1. EndOf(Append(a, x), Append(s, x))
    BY EndGrows
<1>2. Append(a, x) \in Seq(BOOLEAN) /\ Append(s, x) \in Seq(BOOLEAN) /\ Len(Append(a, x)) <= TapeLength
    BY Durations
<1> QED BY <1>1, <1>2, Durations, EndStays

LEMMA EndIsLatest ==
    ASSUME NEW a \in Seq(BOOLEAN), NEW s \in Seq(BOOLEAN), EndOf(a, s)
    PROVE  a = Latest(Len(a), s)
<1> DEFINE b == Latest(Len(a), s)
<1>1. Len(a) \in Nat /\ Len(s) \in Nat /\ Len(a) <= Len(s)
    BY DEF EndOf
<1>2. b \in Seq(BOOLEAN) /\ EndOf(b, s) /\ Len(b) = Len(a)
    <2>1. /\ b \in Seq(BOOLEAN) /\ EndOf(b, s)
          /\ Len(s) > Len(a) => Len(b) = Len(a)
          /\ Len(s) <= Len(a) => b = s
        <3> DEFINE n == Len(a)
        <3>1. n \in Nat
            BY <1>1
        <3> HIDE DEF n
        <3>2. /\ Latest(n, s) \in Seq(BOOLEAN) /\ EndOf(Latest(n, s), s)
              /\ Len(s) > n => Len(Latest(n, s)) = n
              /\ Len(s) <= n => Latest(n, s) = s
            BY <3>1, LatestIs
        <3> QED BY <3>2 DEF n
    <2> HIDE DEF b
    <2> QED BY <1>1, <2>1
<1> HIDE DEF b
<1>3. \A i \in 1 .. Len(a) : a[i] = b[i]
    BY <1>2 DEF EndOf
<1>4. a = b
    BY <1>2, <1>3, SeqEqual
<1> QED BY <1>4 DEF b

LEMMA SegIs ==
    ASSUME SegInv
    PROVE  /\ seg.candidate \in BOOLEAN /\ seg.active \in BOOLEAN
           /\ seg.speech \in Nat /\ seg.silent \in Nat /\ seg.quiet \in Nat
           /\ seg.frames \in Seq(BOOLEAN) /\ seg.pre \in Seq(BOOLEAN) /\ tape \in Seq(BOOLEAN)
BY DEF SegInv, SegTyped

\* Of the segmenter's record, what a loud or a quiet frame changes.
LEMMA Changed ==
    ASSUME NEW B, NEW r \in [candidate : BOOLEAN, active : BOOLEAN, speech : Nat, silent : Nat,
                             frames : B, pre : B, quiet : Nat],
           NEW c \in BOOLEAN, NEW f \in B, NEW n \in Nat
    PROVE  LET q == [r EXCEPT !.candidate = c, !.frames = f, !.speech = n] IN
           /\ q \in [candidate : BOOLEAN, active : BOOLEAN, speech : Nat, silent : Nat,
                     frames : B, pre : B, quiet : Nat]
           /\ q.candidate = c /\ q.frames = f /\ q.speech = n
           /\ q.active = r.active /\ q.silent = r.silent /\ q.pre = r.pre
OBVIOUS

LEMMA IdlingIs ==
    /\ Idling \in [candidate : BOOLEAN, active : BOOLEAN, speech : Nat, silent : Nat,
                   frames : Seq(BOOLEAN), pre : Seq(BOOLEAN), quiet : Nat]
    /\ ~Idling.candidate /\ ~Idling.active /\ Idling.speech = 0 /\ Idling.silent = 0
    /\ Idling.frames = <<>> /\ Idling.pre = <<>>
BY DEF Idling

LEMMA NothingBegun ==
    ASSUME SegTyped', ~seg'.candidate, ~seg'.active, seg'.speech = 0, seg'.silent = 0,
           seg'.frames = <<>>, Len(seg'.pre) <= PreRoll, EndOf(seg'.pre, tape')
    PROVE  SegInv'
<1>1. EndOf(seg'.frames, tape')
    BY DEF EndOf, SegTyped
<1>2. Sought'
    BY DEF Sought
<1> QED BY <1>1, <1>2 DEF SegInv

LEMMA EmptyEnds == \A s \in Seq(BOOLEAN) : EndOf(<<>>, s) /\ Len(<<>>) = 0
BY DEF EndOf

\* One frame more leaves what was said before.
LEMMA SpeaksOn ==
    ASSUME NEW s \in Seq(BOOLEAN), NEW x \in BOOLEAN, Speaks(s, Len(s))
    PROVE  LET t == Append(s, x) IN
           /\ t \in Seq(BOOLEAN) /\ Len(t) = Len(s) + 1 /\ Speaks(t, Len(s))
           /\ ~QuietAt(t, Len(t)) => Speaks(t, Len(t))
<1> DEFINE t == Append(s, x)
           n == Len(s)
<1>1. /\ t \in Seq(BOOLEAN) /\ Len(t) = n + 1 /\ n \in Nat
      /\ \A i \in 1 .. n : t[i] = s[i]
    OBVIOUS
<1>2. DOMAIN s = 1 .. n /\ DOMAIN t = 1 .. n + 1
    BY <1>1
<1> HIDE DEF t, n
<1>3. PICK p \in 0 .. PreRoll : Spoken(s, p) /\ \A i \in p + MinSpeech + Silence .. n : ~QuietAt(s, i)
    BY DEF Speaks, n
<1>4. Spoken(t, p)
    BY <1>1, <1>2, <1>3 DEF Spoken
<1>5. ASSUME NEW i \in p + MinSpeech + Silence .. n
      PROVE  ~QuietAt(t, i)
    <2>1. i >= Silence /\ i \in Nat /\ i <= n /\ Silence \in Nat
        BY <1>1, <1>3, Durations
    <2>2. PICK j \in i - Silence + 1 .. i : s[j]
        BY <1>3, <2>1 DEF QuietAt
    <2>3. j \in 1 .. n
        BY <1>1, <2>1, <2>2
    <2> QED BY <1>1, <2>2, <2>3 DEF QuietAt
<1>6. Speaks(t, n)
    BY <1>4, <1>5 DEF Speaks
<1>7. ASSUME ~QuietAt(t, n + 1)
      PROVE  Speaks(t, n + 1)
    <2>1. \A i \in p + MinSpeech + Silence .. n + 1 : ~QuietAt(t, i)
        <3> SUFFICES ASSUME NEW i \in p + MinSpeech + Silence .. n + 1
                     PROVE  ~QuietAt(t, i)
            OBVIOUS
        <3>1. i = n + 1 \/ i \in p + MinSpeech + Silence .. n
            BY <1>1, <1>3, Durations
        <3> QED BY <1>5, <1>7, <3>1
    <2> QED BY <1>4, <2>1 DEF Speaks
<1> QED BY <1>1, <1>6, <1>7 DEF t, n

\* Before an utterance: a frame goes to the pre-roll, and a loud one to the candidate.
LEMMA SearchKeeps ==
    ASSUME SegInv, NEW loud \in BOOLEAN, ~seg.active,
           seg' = Searching(loud), tape' = Latest(TapeLength, Append(tape, loud))
    PROVE  SegInv'
<1> DEFINE base == IF seg.candidate THEN seg.frames ELSE seg.pre
           speech == (IF seg.candidate THEN seg.speech ELSE 0) + 1
           pre == Latest(PreRoll, Append(seg.pre, loud))
           quiet == Quieter(loud)
           rest == [seg EXCEPT !.quiet = quiet, !.pre = pre]
<1>0. /\ seg.candidate \in BOOLEAN /\ seg.active \in BOOLEAN
      /\ seg.speech \in Nat /\ seg.silent \in Nat /\ seg.quiet \in Nat
      /\ seg.frames \in Seq(BOOLEAN) /\ seg.pre \in Seq(BOOLEAN) /\ tape \in Seq(BOOLEAN)
    BY SegIs
<1>1. Sought /\ EndOf(seg.frames, tape)
    BY DEF SegInv
<1>2. quiet \in Nat
    BY <1>0 DEF Quieter
<1>3. \A s \in Seq(BOOLEAN) : s \o <<loud>> = Append(s, loud) /\ Append(s, loud) \in Seq(BOOLEAN)
    BY AppendIsConcat
<1>4. base \in Seq(BOOLEAN) /\ EndOf(base, tape) /\ speech \in Nat
    BY <1>0, <1>1 DEF Sought
<1>5. seg' = IF loud
             THEN [rest EXCEPT !.candidate = TRUE, !.frames = Append(base, loud), !.speech = speech,
                               !.active = speech >= MinSpeech]
             ELSE [rest EXCEPT !.candidate = FALSE, !.frames = <<>>, !.speech = 0]
    BY <1>0, <1>3, <1>4 DEF Searching
<1>6. /\ tape' \in Seq(BOOLEAN)
      /\ pre \in Seq(BOOLEAN) /\ Len(pre) <= PreRoll
      /\ EndOf(pre, tape')
    <2>1. Append(tape, loud) \in Seq(BOOLEAN) /\ Append(seg.pre, loud) \in Seq(BOOLEAN)
        BY <1>0, <1>3
    <2>2. tape' \in Seq(BOOLEAN)
        BY <2>1, Durations, LatestIs
    <2>3. pre \in Seq(BOOLEAN) /\ Len(pre) <= PreRoll /\ EndOf(pre, Append(seg.pre, loud))
        BY <2>1, Durations, LatestIs
    <2>4. EndOf(Append(seg.pre, loud), Append(tape, loud))
        BY <1>0, <1>1, EndGrows DEF Sought
    <2> HIDE DEF pre
    <2>5. EndOf(pre, Append(tape, loud))
        BY <2>1, <2>3, <2>4, EndOfEnd
    <2>6. Len(pre) <= TapeLength
        BY <2>3, Durations
    <2> QED BY <2>1, <2>2, <2>3, <2>5, <2>6, Durations, EndStays
<1>7. PICK p \in 0 .. PreRoll : /\ Len(base) = p + (speech - 1)
                                /\ \A i \in p + 1 .. Len(base) : base[i]
                                /\ speech - 1 < MinSpeech
    <2>1. CASE seg.candidate
        BY <1>0, <1>1, <2>1 DEF Sought
    <2>2. CASE ~seg.candidate
        <3>1. Len(base) \in 0 .. PreRoll /\ base = seg.pre /\ speech = 1
            BY <1>0, <1>1, <2>2, Durations DEF Sought
        <3> HIDE DEF base, speech
        <3> QED BY <3>1, Durations
    <2> QED BY <2>1, <2>2
<1> HIDE DEF base, speech, pre, quiet
<1>8. rest \in [candidate : BOOLEAN, active : BOOLEAN, speech : Nat, silent : Nat,
                frames : Seq(BOOLEAN), pre : Seq(BOOLEAN), quiet : Nat]
      /\ rest.pre = pre /\ rest.silent = seg.silent /\ rest.active = seg.active
    BY <1>2, <1>6 DEF SegInv, SegTyped
<1> HIDE DEF rest
<1>9. CASE ~loud
    <2>1. seg' = [rest EXCEPT !.candidate = FALSE, !.frames = <<>>, !.speech = 0]
        BY <1>5, <1>9
    <2>2. /\ seg' \in [candidate : BOOLEAN, active : BOOLEAN, speech : Nat, silent : Nat,
                       frames : Seq(BOOLEAN), pre : Seq(BOOLEAN), quiet : Nat]
          /\ ~seg'.candidate /\ seg'.frames = <<>> /\ seg'.speech = 0
          /\ seg'.active = seg.active /\ seg'.silent = seg.silent /\ seg'.pre = pre
        <3>1. <<>> \in Seq(BOOLEAN) /\ FALSE \in BOOLEAN /\ 0 \in Nat
            OBVIOUS
        <3> QED BY ONLY <1>8, <2>1, <3>1, Changed
    <2>3. SegTyped'
        BY <1>6, <2>2 DEF SegTyped
    <2> QED BY <1>1, <1>6, <2>2, <2>3, NothingBegun DEF Sought
<1>10. CASE loud
    <2> DEFINE f == Append(base, loud)
    <2>1. /\ f \in Seq(BOOLEAN) /\ Len(f) = Len(base) + 1 /\ f[Len(base) + 1] = loud
          /\ \A i \in 1 .. Len(base) : f[i] = base[i]
          /\ DOMAIN f = 1 .. Len(base) + 1 /\ Len(base) \in Nat
        BY <1>4
    <2>2. EndOf(f, tape')
        <3>1. Len(base) < TapeLength
            BY <1>4, <1>7, Durations
        <3> QED BY <1>0, <1>4, <3>1, TapeTakes
    <2> HIDE DEF f
    <2>3. seg' = [rest EXCEPT !.candidate = TRUE, !.frames = f, !.speech = speech,
                              !.active = speech >= MinSpeech]
        BY <1>5, <1>10 DEF f
    <2>4. /\ seg' \in [candidate : BOOLEAN, active : BOOLEAN, speech : Nat, silent : Nat,
                       frames : Seq(BOOLEAN), pre : Seq(BOOLEAN), quiet : Nat]
          /\ seg'.candidate /\ seg'.frames = f /\ seg'.speech = speech
          /\ seg'.active = (speech >= MinSpeech) /\ seg'.silent = seg.silent /\ seg'.pre = pre
        <3>1. (speech >= MinSpeech) \in BOOLEAN
            OBVIOUS
        <3> QED BY <1>4, <1>8, <2>1, <2>3, <3>1
    <2>5. SegTyped' /\ seg'.silent = 0 /\ f # <<>>
        BY <1>1, <1>6, <2>1, <2>4 DEF SegTyped, Sought
    <2>6. Len(f) = p + speech /\ \A i \in p + 1 .. Len(f) : f[i]
        <3>1. Len(f) = p + speech
            BY <1>4, <1>7, <2>1
        <3>2. ASSUME NEW i \in p + 1 .. Len(f)
              PROVE  f[i]
            <4>1. i = Len(base) + 1 \/ (i \in p + 1 .. Len(base) /\ i \in 1 .. Len(base))
                BY <2>1
            <4> QED BY <1>7, <1>10, <2>1, <4>1
        <3> QED BY <3>1, <3>2
    <2>7. CASE speech >= MinSpeech
        <3>1. speech = MinSpeech
            BY <1>4, <1>7, <2>7, Durations
        <3>2. Speaks(f, Len(f))
            <4>1. Spoken(f, p)
                BY <2>1, <2>6, <3>1, Durations DEF Spoken
            <4>2. p + MinSpeech + Silence .. Len(f) = {}
                BY <2>6, <3>1, Durations
            <4> QED BY <4>1, <4>2 DEF Speaks
        <3>3. Len(f) <= PreRoll + MinSpeech /\ 0 < Len(f) /\ 0 < Silence
            BY <2>1, <2>6, <3>1, Durations
        <3>4. f[Len(f) - 0] /\ Len(f) - 0 + 1 .. Len(f) = {}
            <4>1. PICK n \in Nat : n = Len(base)
                BY <2>1
            <4>2. Len(f) - 0 = n + 1 /\ Len(f) - 0 + 1 = n + 2 /\ Len(f) = n + 1
                BY <2>1, <4>1
            <4>3. n + 2 .. n + 1 = {}
                BY <4>1
            <4>4. f[n + 1]
                BY <1>10, <2>1, <4>1
            <4> QED BY <4>2, <4>3, <4>4
        <3>5. Heard'
            BY <2>4, <2>5, <3>2, <3>3, <3>4 DEF Heard
        <3> QED BY <2>2, <2>4, <2>5, <2>7, <3>5 DEF SegInv
    <2>8. CASE ~(speech >= MinSpeech)
        <3>1. speech < MinSpeech
            BY <1>4, <2>8, Durations
        <3>2. Sought'
            BY <1>6, <2>4, <2>5, <2>6, <3>1 DEF Sought
        <3> QED BY <2>2, <2>4, <2>5, <2>8, <3>2 DEF SegInv
    <2> QED BY <2>7, <2>8
<1> QED BY <1>9, <1>10

\* An utterance with one more frame.
LEMMA HeardMore ==
    ASSUME SegInv, seg.active, NEW loud \in BOOLEAN
    PROVE  LET pcm == Append(seg.frames, loud)
               silent == IF loud THEN 0 ELSE seg.silent + 1
           IN /\ pcm \in Seq(BOOLEAN) /\ Len(pcm) = Len(seg.frames) + 1
              /\ EndOf(pcm, Latest(TapeLength, Append(tape, loud)))
              /\ Speaks(pcm, Len(pcm) - 1)
              /\ silent \in Nat /\ silent <= Silence /\ silent < Len(pcm) /\ pcm[Len(pcm) - silent]
              /\ \A i \in Len(pcm) - silent + 1 .. Len(pcm) : ~pcm[i]
              /\ ~QuietAt(pcm, Len(pcm)) => Speaks(pcm, Len(pcm))
<1> DEFINE s == seg.frames
           pcm == Append(s, loud)
           silent == IF loud THEN 0 ELSE seg.silent + 1
<1>1. seg.frames \in Seq(BOOLEAN) /\ tape \in Seq(BOOLEAN) /\ seg.silent \in Nat
    BY SegIs
<1>2. Heard /\ EndOf(seg.frames, tape)
    BY DEF SegInv
<1>3. Len(s) < TapeLength
    BY <1>1, <1>2, Durations DEF Heard
<1>4. EndOf(pcm, Latest(TapeLength, Append(tape, loud)))
    BY <1>1, <1>2, <1>3, TapeTakes
<1>5. /\ pcm \in Seq(BOOLEAN) /\ Len(pcm) = Len(s) + 1 /\ Speaks(pcm, Len(s))
      /\ ~QuietAt(pcm, Len(pcm)) => Speaks(pcm, Len(pcm))
    <2>1. Speaks(s, Len(s)) /\ s \in Seq(BOOLEAN)
        BY <1>1, <1>2 DEF Heard
    <2> HIDE DEF s
    <2> QED BY <2>1, SpeaksOn
<1>6. PICK n \in Nat : n = Len(s)
    BY <1>1
<1>7. pcm[n + 1] = loud /\ \A i \in 1 .. n : pcm[i] = s[i]
    BY <1>1, <1>6
<1>8. /\ seg.silent < Silence /\ seg.silent < n /\ s[n - seg.silent]
      /\ \A i \in n - seg.silent + 1 .. n : ~s[i]
    BY <1>2, <1>6 DEF Heard
<1> HIDE DEF pcm, s
<1>9. Len(pcm) - 1 = n /\ Len(pcm) = n + 1
    BY <1>5, <1>6
<1>10. /\ silent \in Nat /\ silent <= Silence /\ silent < n + 1 /\ pcm[n + 1 - silent]
       /\ \A i \in n + 1 - silent + 1 .. n + 1 : ~pcm[i]
    <2>1. CASE loud
        <3>1. silent = 0 /\ n + 1 - 0 = n + 1 /\ n + 1 - 0 + 1 .. n + 1 = {}
            BY <1>6, <2>1
        <3> HIDE DEF silent
        <3>2. pcm[n + 1 - silent] /\ n + 1 - silent + 1 .. n + 1 = {}
            BY <1>7, <2>1, <3>1
        <3> QED BY <1>6, <3>1, <3>2, Durations
    <2>2. CASE ~loud
        <3>1. PICK m \in Nat : m = seg.silent
            BY <1>1
        <3>2. silent = m + 1 /\ n + 1 - (m + 1) = n - m /\ n - m \in 1 .. n
            BY <1>6, <1>8, <2>2, <3>1
        <3> HIDE DEF silent
        <3>3. pcm[n + 1 - silent]
            BY <1>7, <1>8, <3>1, <3>2
        <3>4. ASSUME NEW i \in n + 1 - silent + 1 .. n + 1
              PROVE  ~pcm[i]
            <4>1. n + 1 - silent + 1 = n - m + 1 /\ m < n
                BY <1>6, <1>8, <3>1, <3>2
            <4>2. i \in n - m + 1 .. n + 1
                BY <4>1
            <4>3. i = n + 1 \/ (i \in n - m + 1 .. n /\ i \in 1 .. n)
                BY ONLY <1>6, <3>1, <4>1, <4>2
            <4>4. \A k \in n - m + 1 .. n : ~s[k]
                BY <1>8, <3>1
            <4> QED BY ONLY <1>7, <2>2, <4>3, <4>4
        <3>5. silent \in Nat /\ silent <= Silence /\ silent < n + 1
            <4>1. m < Silence /\ m < n
                BY <1>8, <3>1
            <4> QED BY ONLY <1>6, <3>1, <3>2, <4>1, Durations
        <3> QED BY ONLY <3>3, <3>4, <3>5
    <2> QED BY <2>1, <2>2
<1> HIDE DEF silent
<1>11. /\ Len(pcm) = Len(s) + 1 /\ Speaks(pcm, Len(pcm) - 1)
       /\ silent < Len(pcm) /\ pcm[Len(pcm) - silent]
       /\ \A i \in Len(pcm) - silent + 1 .. Len(pcm) : ~pcm[i]
    BY <1>5, <1>6, <1>9, <1>10
<1> QED BY <1>4, <1>5, <1>10, <1>11 DEF pcm, s, silent

LEMMA EmitKeeps ==
    ASSUME SegInv, NEW loud \in BOOLEAN, NEW pcm \in Seq(BOOLEAN), NEW why, Emit(pcm, why, loud)
    PROVE  SegInv' /\ out' = [pcm |-> pcm, ended |-> why] /\ seg'.frames = <<>>
<1>1. Quieter(loud) \in Nat
    BY SegIs DEF Quieter
<1>2. /\ seg' \in [candidate : BOOLEAN, active : BOOLEAN, speech : Nat, silent : Nat,
                   frames : Seq(BOOLEAN), pre : Seq(BOOLEAN), quiet : Nat]
      /\ ~seg'.candidate /\ ~seg'.active /\ seg'.speech = 0 /\ seg'.silent = 0
      /\ seg'.frames = <<>> /\ seg'.pre = <<>>
    BY <1>1, IdlingIs DEF Emit
<1>3. SegTyped' /\ tape' \in Seq(BOOLEAN)
    BY <1>2 DEF SegTyped, Emit
<1>4. Len(seg'.pre) <= PreRoll /\ EndOf(seg'.pre, tape')
    BY <1>2, <1>3, EmptyEnds, Durations
<1> QED BY <1>2, <1>3, <1>4, NothingBegun DEF Emit

\* Whatever the frame, what comes out is whole.
LEMMA HearKeeps ==
    ASSUME SegInv, NEW loud \in BOOLEAN, Hear(loud)
    PROVE  SegInv' /\ (out' # Nothing => Whole(out'))
<1> DEFINE pcm == Append(seg.frames, loud)
           silent == IF loud THEN 0 ELSE seg.silent + 1
<1>1. CASE ~seg.active
    <2>1. seg' = Searching(loud) /\ tape' = Latest(TapeLength, Append(tape, loud)) /\ out' = Nothing
        BY <1>1 DEF Hear
    <2> QED BY <1>1, <2>1, SearchKeeps
<1>2. CASE seg.active
    <2>1. /\ pcm \in Seq(BOOLEAN) /\ Len(pcm) = Len(seg.frames) + 1
          /\ EndOf(pcm, Latest(TapeLength, Append(tape, loud)))
          /\ Speaks(pcm, Len(pcm) - 1)
          /\ silent \in Nat /\ silent <= Silence /\ silent < Len(pcm) /\ pcm[Len(pcm) - silent]
          /\ \A i \in Len(pcm) - silent + 1 .. Len(pcm) : ~pcm[i]
          /\ ~QuietAt(pcm, Len(pcm)) => Speaks(pcm, Len(pcm))
        BY <1>2, HeardMore
    <2>2. \/ Len(pcm) >= MaxUtterance /\ Emit(pcm, "limit", loud)
          \/ Len(pcm) < MaxUtterance /\ silent >= Silence /\ Emit(pcm, "silence", loud)
          \/ /\ Len(pcm) < MaxUtterance /\ silent < Silence
             /\ seg' = [seg EXCEPT !.frames = pcm, !.silent = silent, !.quiet = Quieter(loud)]
             /\ tape' = Latest(TapeLength, Append(tape, loud)) /\ out' = Nothing
        BY <1>2 DEF Hear
    <2> HIDE DEF pcm, silent
    <2>3. PICK n \in Nat : n = Len(pcm)
        BY <2>1
    <2>4. CASE Len(pcm) >= MaxUtterance /\ Emit(pcm, "limit", loud)
        <3>1. SegInv' /\ out' = [pcm |-> pcm, ended |-> "limit"]
            BY <2>1, <2>4, EmitKeeps
        <3>2. out'.pcm = pcm /\ out'.ended = "limit"
            BY <3>1
        <3>3. Whole(out')
            BY <2>1, <2>4, <3>2 DEF Whole
        <3> QED BY <3>1, <3>3
    <2>5. CASE Len(pcm) < MaxUtterance /\ silent >= Silence /\ Emit(pcm, "silence", loud)
        <3>1. SegInv' /\ out' = [pcm |-> pcm, ended |-> "silence"]
            BY <2>1, <2>5, EmitKeeps
        <3>2. out'.pcm = pcm /\ out'.ended = "silence"
            BY <3>1
        <3>3. silent = Silence
            BY <2>1, <2>5, Durations
        <3>4. QuietAt(pcm, Len(pcm))
            BY <2>1, <2>3, <3>3, Durations DEF QuietAt
        <3>5. ~(Len(pcm) >= MaxUtterance)
            BY <2>3, <2>5, Durations
        <3>6. Whole(out')
            BY <2>1, <3>2, <3>4, <3>5 DEF Whole
        <3> QED BY <3>1, <3>6
    <2>6. CASE /\ Len(pcm) < MaxUtterance /\ silent < Silence
               /\ seg' = [seg EXCEPT !.frames = pcm, !.silent = silent, !.quiet = Quieter(loud)]
               /\ tape' = Latest(TapeLength, Append(tape, loud)) /\ out' = Nothing
        <3>1. Quieter(loud) \in Nat
            BY SegIs DEF Quieter
        <3>2. /\ seg' \in [candidate : BOOLEAN, active : BOOLEAN, speech : Nat, silent : Nat,
                           frames : Seq(BOOLEAN), pre : Seq(BOOLEAN), quiet : Nat]
              /\ seg'.candidate = seg.candidate /\ seg'.active = seg.active
              /\ seg'.frames = pcm /\ seg'.silent = silent
            BY <2>1, <2>6, <3>1 DEF SegInv, SegTyped
        <3>3. tape' \in Seq(BOOLEAN)
            <4>1. Append(tape, loud) \in Seq(BOOLEAN)
                BY SegIs
            <4> QED BY <2>6, <4>1, LatestIs, Durations
        <3>4. ~QuietAt(pcm, Len(pcm))
            <4>1. PICK k \in Nat : k = silent
                BY <2>1
            <4>2. k < Silence /\ k < n /\ pcm[n - k]
                BY <2>1, <2>3, <2>6, <4>1
            <4>3. n - k \in n - Silence + 1 .. n
                BY ONLY <2>3, <4>1, <4>2, Durations
            <4> QED BY ONLY <2>3, <4>2, <4>3 DEF QuietAt
        <3>5. Heard'
            BY <1>2, <2>1, <2>6, <3>2, <3>4 DEF Heard, SegInv
        <3>6. SegInv'
            BY <1>2, <2>1, <2>6, <3>2, <3>3, <3>5 DEF SegInv, SegTyped
        <3> QED BY <2>6, <3>6
    <2> QED BY <2>2, <2>4, <2>5, <2>6
<1> QED BY <1>1, <1>2, SegIs

\* After a discontinuity, and when the frames have ended, nothing is left.
LEMMA IdlingKeeps ==
    ASSUME seg' = Idling, tape' = <<>>
    PROVE  SegInv' /\ seg'.frames = <<>>
<1>1. SegTyped' /\ tape' \in Seq(BOOLEAN)
    BY IdlingIs DEF SegTyped
<1>2. EndOf(seg'.pre, tape') /\ Len(seg'.pre) <= PreRoll
    BY <1>1, IdlingIs, EmptyEnds, Durations
<1> QED BY <1>1, <1>2, IdlingIs, NothingBegun

LEMMA EndKeeps ==
    ASSUME SegInv, FramesEnd
    PROVE  SegInv' /\ (out' # Nothing => Whole(out'))
<1>1. SegInv'
    BY IdlingKeeps DEF FramesEnd
<1>2. ASSUME out' # Nothing
      PROVE  Whole(out')
    <2>1. out' = [pcm |-> seg.frames, ended |-> "closed"]
        BY <1>2 DEF FramesEnd
    <2>2. out'.pcm = seg.frames /\ out'.ended = "closed"
        BY <2>1
    <2>3. seg.frames \in Seq(BOOLEAN) /\ Speaks(seg.frames, Len(seg.frames))
        BY SegIs DEF SegInv, FramesEnd, Heard
    <2>4. PICK n \in Nat : n = Len(seg.frames)
        BY <2>3
    <2>5. Speaks(seg.frames, n - 1)
        <3>1. PICK p \in 0 .. PreRoll :
                 /\ Spoken(seg.frames, p)
                 /\ \A i \in p + MinSpeech + Silence .. n : ~QuietAt(seg.frames, i)
            BY <2>3, <2>4 DEF Speaks
        <3>2. p + MinSpeech + Silence .. n - 1 \subseteq p + MinSpeech + Silence .. n
            BY <2>4, <3>1, Durations
        <3> QED BY <3>1, <3>2 DEF Speaks
    <2> QED BY <2>2, <2>4, <2>5 DEF Whole
<1> QED BY <1>1, <1>2

LEMMA MicrophoneStep ==
    ASSUME MicrophoneInv, [MicrophoneNext]_microphoneVars
    PROVE  MicrophoneInv'
<1>1. SegInv /\ (out # Nothing => Whole(out)) /\ Held
    BY DEF MicrophoneInv
<1>2. ASSUME UNCHANGED energyVars
      PROVE  SegInv' /\ (out' # Nothing => Whole(out'))
    <2>1. seg' = seg /\ out' = out /\ tape' = tape
        BY <1>2 DEF energyVars
    <2>2. SegInv'
        BY <1>1, <2>1 DEF SegInv, SegTyped, Sought, Heard
    <2> QED BY <1>1, <2>1, <2>2
<1>3. CASE UNCHANGED microphoneVars
    <2>1. UNCHANGED energyVars /\ UNCHANGED <<keyword, pc, utterance>>
        BY <1>3 DEF microphoneVars, vars, loopVars, segmenterVars
    <2>2. Held'
        BY <1>1, <2>1 DEF Held, energyVars
    <2> QED BY <1>2, <2>1, <2>2 DEF MicrophoneInv
<1>4. CASE Elsewhere /\ UNCHANGED energyVars /\ UNCHANGED keyword
    <2>1. utterance' = utterance /\ (pc = "gone" => pc' = "gone")
        BY <1>4 DEF Elsewhere, ActiveReady, ProbeReady, AttemptFails, Released, PreferredDue, ProbeFrame,
                    ProbeFails, ActiveFrame, ActiveFails, DropProbe, Recover, Retry, Switch, Stuck, Stop,
                    loopVars, segmenterVars
    <2>2. Held'
        BY <1>1, <1>4, <2>1 DEF Held, energyVars
    <2> QED BY <1>2, <1>4, <2>2 DEF MicrophoneInv
<1>5. CASE keyword /\ UNCHANGED energyVars /\ UNCHANGED keyword
    BY <1>2, <1>5 DEF MicrophoneInv, Held
<1>6. CASE EnergyTakes /\ UNCHANGED keyword
    <2>1. utterance' = (seg'.frames # <<>>)
        BY <1>6 DEF EnergyTakes, Deliver
    <2>2. SegInv' /\ (out' # Nothing => Whole(out'))
        <3>1. CASE \E loud \in BOOLEAN : Hear(loud)
            BY <1>1, <3>1, HearKeeps
        <3>2. CASE Discontinuity
            BY <3>2, IdlingKeeps DEF Discontinuity
        <3> QED BY <1>6, <3>1, <3>2 DEF EnergyTakes
    <2> QED BY <2>1, <2>2 DEF MicrophoneInv, Held
<1>7. CASE (EnergyAcknowledges \/ EnergyElects) /\ UNCHANGED keyword
    <2>1. UNCHANGED energyVars /\ utterance' = utterance /\ pc # "gone"
        BY <1>7 DEF EnergyAcknowledges, EnergyElects, GoOn, ComeBack, Acknowledged
    <2>2. Held'
        BY <1>1, <1>7, <2>1 DEF Held, energyVars
    <2> QED BY <1>2, <2>1, <2>2 DEF MicrophoneInv
<1>8. CASE EnergyEnds /\ UNCHANGED keyword
    <2>1. pc' = "gone"
        BY <1>8 DEF EnergyEnds, vars, loopVars
    <2>2. SegInv' /\ (out' # Nothing => Whole(out'))
        BY <1>1, <1>8, EndKeeps DEF EnergyEnds
    <2> QED BY <2>1, <2>2 DEF MicrophoneInv, Held
<1> QED BY <1>3, <1>4, <1>5, <1>6, <1>7, <1>8 DEF MicrophoneNext

LEMMA MicrophoneStart == MicrophoneInit => MicrophoneInv
<1> SUFFICES ASSUME MicrophoneInit PROVE MicrophoneInv
    OBVIOUS
<1>1. seg = Idling /\ out = Nothing /\ tape = <<>> /\ utterance = FALSE
    BY DEF MicrophoneInit, EnergyInit, Init
<1>2. SegTyped /\ tape \in Seq(BOOLEAN)
    BY <1>1, IdlingIs DEF SegTyped
<1>3. EndOf(seg.frames, tape) /\ EndOf(seg.pre, tape) /\ Len(seg.pre) <= PreRoll
    BY <1>1, <1>2, IdlingIs, EmptyEnds, Durations
<1> QED BY <1>1, <1>2, <1>3, IdlingIs DEF MicrophoneInv, SegInv, Sought, Held

\* What the energy segmenter keeps and emits, and what the loop takes from it.
THEOREM MicrophoneInvariant == MicrophoneSpec => []MicrophoneInv
<1>1. MicrophoneInv /\ [MicrophoneNext]_microphoneVars => MicrophoneInv'
    BY MicrophoneStep
<1> QED BY <1>1, MicrophoneStart, PTL DEF MicrophoneSpec

\* An utterance is one stretch of sound, from at most the pre-roll and a full run
\* of speech to the first silence or the limit, for any durations.
THEOREM UtterancesAreWhole == MicrophoneSpec => []UtterancesWhole
<1>1. ASSUME MicrophoneInv
      PROVE  UtterancesWhole
    <2>1. seg.frames = Latest(Len(seg.frames), tape)
        BY <1>1, SegIs, EndIsLatest DEF MicrophoneInv, SegInv
    <2>2. out # Nothing => Whole(out)
        BY <1>1 DEF MicrophoneInv
    <2> QED BY <2>1, <2>2 DEF UtterancesWhole, Whole, Speaks, Spoken, QuietAt
<1> QED BY <1>1, MicrophoneInvariant, PTL

\* With the energy segmenter, every step of the loop is one Capture allows: what
\* holds of every segmenter Capture describes holds of this one.
THEOREM MicrophoneImplementsCapture == MicrophoneSpec => ImplementsCapture
<1>1. MicrophoneInit => Init
    BY DEF MicrophoneInit
<1>2. ASSUME MicrophoneInv, [MicrophoneNext]_microphoneVars
      PROVE  [Next]_vars
    <2>1. CASE UNCHANGED microphoneVars
        BY <2>1 DEF microphoneVars
    <2>2. CASE Elsewhere
        BY <2>2 DEF Elsewhere, Next, Loop
    <2>3. CASE Take \/ Acknowledge \/ Elect
        BY <2>3 DEF Next, Loop
    <2>4. CASE EnergyTakes
        <3>1. then # "frame" /\ Discontinuity => seg'.frames = <<>>
            BY IdlingIs DEF Discontinuity
        <3>2. PICK holds \in BOOLEAN : (then # "frame" => ~holds) /\ Deliver(holds)
            BY <2>4, <3>1 DEF EnergyTakes
        <3> QED BY <3>2 DEF Next, Loop, Take
    <2>5. CASE ~keyword /\ (EnergyAcknowledges \/ EnergyElects)
        <3>1. pc = "wait" /\ (Idle => ~utterance)
            BY <1>2, <2>5 DEF EnergyAcknowledges, EnergyElects, GoOn, ComeBack, Acknowledged, Idle,
                              MicrophoneInv, SegInv, Sought, Held
        <3>2. PICK idle \in BOOLEAN : idle = Idle
            BY DEF Idle
        <3> QED BY <2>5, <3>1, <3>2 DEF EnergyAcknowledges, EnergyElects, Next, Loop, Acknowledge, Elect
    <2>6. CASE EnergyEnds
        BY <2>6 DEF EnergyEnds
    <2> QED BY <1>2, <2>1, <2>2, <2>3, <2>4, <2>5, <2>6 DEF MicrophoneNext
<1> QED BY <1>1, <1>2, MicrophoneInvariant, PTL DEF MicrophoneSpec, ImplementsCapture

\* What the loop promises with any segmenter it promises with this one: no speech
\* of two microphones is joined, no return cuts an utterance, no device has two owners.
THEOREM MicrophoneKeepsPromises ==
    MicrophoneSpec => []HeardFromRouted /\ []UtteranceNotCut /\ DevicesExclusive
<1>1. CaptureInv => HeardFromRouted /\ UtteranceNotCut
    BY DEF CaptureInv, Pure, HeardFromRouted, Uncut, UtteranceNotCut
<1> QED BY <1>1, MicrophoneImplementsCapture, SpecInv, Owners, PTL
=============================================================================

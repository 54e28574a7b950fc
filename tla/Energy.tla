------------------------------- MODULE Energy -------------------------------
(***************************************************************************)
(* The energy segmenter (internal/vad/energy.go): cuts the frames of a      *)
(* microphone into utterances by their loudness.  A frame is whether it     *)
(* was louder than the threshold of the moment.  The output is received at *)
(* once: a session that is busy only delays the acknowledgement.           *)
(***************************************************************************)
EXTENDS Naturals, Sequences

CONSTANTS
    MinSpeech,      \* loud frames in a row that make an utterance
    Silence,        \* quiet frames in a row that end it
    MaxUtterance,   \* frames after which it is cut
    PreRoll         \* frames kept from before it

ASSUME ParamsAssumption ==
    MinSpeech \in Nat \ {0} /\ Silence \in Nat \ {0} /\ MaxUtterance \in Nat \ {0} /\ PreRoll \in Nat

VARIABLES
    seg,       \* Run's variables
    out,       \* the utterance this very frame has ended, if it has, and what ended it
    tape       \* ghost: the last frames since the latest discontinuity or utterance

energyVars == <<seg, out, tape>>

Nothing == [pcm |-> <<>>, ended |-> "never"]
Idling == [candidate |-> FALSE, active |-> FALSE, speech |-> 0, silent |-> 0,
           frames |-> <<>>, pre |-> <<>>, quiet |-> 0]

\* The last n of a sequence.
Latest(n, s) == SubSeq(s, IF Len(s) > n THEN Len(s) - n + 1 ELSE 1, Len(s))
TapeLength == IF MaxUtterance > PreRoll + MinSpeech THEN MaxUtterance ELSE PreRoll + MinSpeech + 1

Quieter(loud) == IF loud THEN 0 ELSE IF seg.quiet < Silence THEN seg.quiet + 1 ELSE seg.quiet

\* Before an utterance: a run of loud frames is a candidate, which a quiet one
\* rejects whatever its length.
Searching(loud) ==
    LET frames == (IF seg.candidate THEN seg.frames ELSE seg.pre) \o <<loud>>
        speech == (IF seg.candidate THEN seg.speech ELSE 0) + 1
        rest == [seg EXCEPT !.quiet = Quieter(loud), !.pre = Latest(PreRoll, @ \o <<loud>>)]
    IN IF loud
       THEN [rest EXCEPT !.candidate = TRUE, !.frames = frames, !.speech = speech,
                         !.active = speech >= MinSpeech]
       ELSE [rest EXCEPT !.candidate = FALSE, !.frames = <<>>, !.speech = 0]

\* Bug: what preceded an utterance stays behind for the next one.
Emit_KeepsPre(pcm, why, loud) ==
    /\ out' = [pcm |-> pcm, ended |-> why]
    /\ seg' = [Idling EXCEPT !.quiet = Quieter(loud), !.pre = seg.pre]
    /\ tape' = <<>>

\* The frames of an utterance are not kept as what precedes the next one.
Emit(pcm, why, loud) ==
    /\ out' = [pcm |-> pcm, ended |-> why]
    /\ seg' = [Idling EXCEPT !.quiet = Quieter(loud)]
    /\ tape' = <<>>

Hear(loud) ==
    LET pcm == Append(seg.frames, loud)
        silent == IF loud THEN 0 ELSE seg.silent + 1
    IN \/ /\ ~seg.active /\ seg' = Searching(loud)
          /\ tape' = Latest(TapeLength, Append(tape, loud)) /\ out' = Nothing
       \/ /\ seg.active /\ Len(pcm) >= MaxUtterance /\ Emit(pcm, "limit", loud)
       \/ /\ seg.active /\ Len(pcm) < MaxUtterance /\ silent >= Silence /\ Emit(pcm, "silence", loud)
       \/ /\ seg.active /\ Len(pcm) < MaxUtterance /\ silent < Silence
          /\ seg' = [seg EXCEPT !.frames = pcm, !.silent = silent, !.quiet = Quieter(loud)]
          /\ tape' = Latest(TapeLength, Append(tape, loud)) /\ out' = Nothing

\* Bug: the utterance goes on over the gap.
Discontinuity_GoesOn == seg' = [seg EXCEPT !.quiet = 0] /\ tape' = <<>> /\ out' = Nothing

\* A frame without samples: the microphone has changed or was lost.
Discontinuity == seg' = Idling /\ tape' = <<>> /\ out' = Nothing

\* The frames end: what there is of an utterance is emitted, unless the
\* context that ended them is seen first.
FramesEnd ==
    /\ seg.active /\ seg' = Idling /\ tape' = <<>>
    /\ out' \in {Nothing, [pcm |-> seg.frames, ended |-> "closed"]}

\* What is acknowledged: the room is quiet and nothing has begun.
Idle == seg.quiet >= Silence /\ ~seg.candidate /\ ~seg.active

EnergyInit == seg = Idling /\ out = Nothing /\ tape = <<>>

\* An utterance is one stretch of sound: it begins with at most the pre-roll
\* and then a full run of speech, every frame of it followed the one before
\* without a discontinuity or another utterance between, none was used twice,
\* and it ends with the silence that ended it, the first one, or at the limit
\* (energy.go:119-127, :177-183); unless it is what there was when the frames ended.
UtterancesWhole ==
    /\ seg.frames = Latest(Len(seg.frames), tape)
    /\ out # Nothing =>
        LET quietAt(i) == i >= Silence /\ \A j \in i - Silence + 1 .. i : ~out.pcm[j]
            spoken(p) == \A i \in p + 1 .. p + MinSpeech : i \in DOMAIN out.pcm /\ out.pcm[i]
        IN /\ \E p \in 0 .. PreRoll :
                /\ spoken(p)
                /\ \A i \in p + MinSpeech + Silence .. Len(out.pcm) - 1 : ~quietAt(i)
           /\ out.ended = "silence" => quietAt(Len(out.pcm))
           /\ out.ended # "closed" => (out.ended = "limit" <=> Len(out.pcm) >= MaxUtterance)
=============================================================================

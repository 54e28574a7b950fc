------------------------------ MODULE Hardware ------------------------------
(***************************************************************************)
(* What buildAudio puts together: the capture choices with their HID       *)
(* handles, and the speaker and the light that follow the selected one.    *)
(***************************************************************************)
EXTENDS Telephony

CONSTANTS Sounds, PlayerOf, Nobody

VARIABLES caller, cancelled, turn, active, cmd, on

ASSUME SpeakerAssumption == Handles \subseteq DOMAIN PlayerOf /\ Nobody \notin Sounds

Speaker == INSTANCE Player

speakerVars == <<caller, cancelled, turn, active, cmd, on>>

vars == <<hidVars, speakerVars>>

Init == HidInit /\ Speaker!PlayerInit

Next ==
    \/ HidNext /\ UNCHANGED speakerVars
    \/ Speaker!PlayerNext /\ UNCHANGED <<outs, state, device, attempt, lit, stale, foreign, faults>>

Spec == Init /\ [][Next]_vars

OneSound == Speaker!OneSound
=============================================================================

----------------------------- MODULE Telephony -----------------------------
(***************************************************************************)
(* The USB speakerphones: hid.Telephony, one handle per capture choice     *)
(* (internal/hid/telephony.go), the capture attempts that take them off    *)
(* hook (CommandRecorder.Stream) and the listening light that shares their *)
(* output reports (internal/feedback/light.go).  A report is the set of    *)
(* its bits that are on; writes hold the handle's lock, so each is a step. *)
(* Choices may name one node: each has a handle of its own, that knows     *)
(* nothing of what the other has sent.                                     *)
(***************************************************************************)
EXTENDS HidDescriptor

CONSTANTS
    Microphones,   \* how many microphones are configured; 1 is preferred
    NodeOf,        \* the hidraw node of each
    Descriptor,    \* what each node's firmware says of itself
    LightChoice,   \* feedback.light: "auto" or one of the lights
    MaxFaults      \* bound: failed writes and unplugged cables

Handles == 1 .. Microphones
ASSUME MicrophonesAssumption == Microphones \in Nat \ {0} /\ MaxFaults \in Nat
ASSUME NodeAssumption == DOMAIN NodeOf = Handles

Nodes == {NodeOf[c] : c \in Handles}
ASSUME FirmwareAssumption == \A n \in Nodes : Descriptor[n] \in Descriptors

PageLED == 8
LEDOffHook == Key(PageLED, 23)
leds == [mic |-> Key(PageLED, 33), ring |-> Key(PageLED, 24),
         mute |-> Key(PageLED, 9), hold |-> Key(PageLED, 32)]
autoOrder == <<"mic", "ring", "mute", "hold">>

\* Where a bit lives; the standard headset's off-hook bit.
Place(bit) == <<bit.report, bit.bit>>
StandardOffHook == <<2, 0>>

VARIABLES
    outs,        \* the controls a handle found in the descriptor, or none
    state,       \* the report bits a handle retains
    device,      \* a node: is it plugged in, and which bits does it show
    attempt,     \* a capture attempt: "idle", "opened", "streaming", "closing"
    selected,    \* the choice whose light and speaker are in use
    lit,         \* ghost: the light was last asked to be on through this handle
    stale,       \* ghost: reports not written since something changed behind them
    foreign,     \* ghost: reports that another handle of the node was the last to send
    faults

hidVars == <<outs, state, device, attempt, selected, lit, stale, foreign, faults>>

Layout == [n \in Nodes |-> ParseOutputs(Descriptor[n])]
Reports(n) == {2} \cup {Layout[n][u].report : u \in DOMAIN Layout[n]}

\* setOffHook: the advertised LED, or else the standard report.
OffHookPlace(layout) ==
    IF LEDOffHook \in DOMAIN layout THEN Place(layout[LEDOffHook]) ELSE StandardOffHook

HookBit(c) == OffHookPlace(outs[c])

Advertised(c) == {name \in DOMAIN leds : leds[name] \in DOMAIN outs[c]}

\* NewLight, resolved at every write: the configured light if the device has
\* it, the first of autoOrder for "auto", or none.
LightBit(c) ==
    LET candidates == IF LightChoice = "auto" THEN Advertised(c) ELSE Advertised(c) \cap {LightChoice}
        rank == {i \in DOMAIN autoOrder : autoOrder[i] \in candidates}
    IN IF rank = {} THEN {} ELSE {Place(outs[c][leds[autoOrder[Min(rank)]]])}

InReport(bits, r) == {b \in bits : b[1] = r}

\* Nothing keeps a firmware that advertises no off-hook LED from having its light where
\* that bit is in the standard report: light and hook are then one bit.
TwoBits(c) == LEDOffHook \in DOMAIN outs[c] \/ HookBit(c) \notin LightBit(c)

\* Every handle's wishes: off hook while it captures, lit when asked to be.
Wanted(c) ==
    (IF attempt[c] \in {"streaming", "closing"} THEN {HookBit(c)} ELSE {})
        \cup (IF lit[c] THEN LightBit(c) ELSE {})

(***************************************************************************)
(* writeLocked: the retained report is changed, then sent whole.           *)
(***************************************************************************)
\* Bug: only the bit at hand is sent.
Sent_OneBit(c, b, on) == IF on THEN {b} ELSE {}

Retained(c, b, on, ok) == IF on THEN state[c] \cup {b} ELSE state[c] \ {b}

Sent(c, b, on) == InReport(Retained(c, b, on, TRUE), b[1])

\* The device takes the whole report and keeps its others.
Merged(c, b, on) == Sent(c, b, on) \cup {x \in device[NodeOf[c]].bits : x[1] # b[1]}

\* What another handle of the node has sent in that report is gone.
Deliver(c, b, on) ==
    /\ device' = [device EXCEPT ![NodeOf[c]] = [plugged |-> TRUE, bits |-> Merged(c, b, on)]]
    /\ foreign' = [d \in Handles |->
           IF d = c THEN foreign[d] \ {b[1]}
           ELSE IF NodeOf[d] = NodeOf[c] THEN foreign[d] \cup {b[1]} ELSE foreign[d]]

\* A write succeeds; or it fails before the device has it, or only its close
\* fails, after.
Write(c, b, on, ok) ==
    /\ state' = [state EXCEPT ![c] = Retained(c, b, on, ok)]
    /\ \/ /\ ok /\ device[NodeOf[c]].plugged /\ Deliver(c, b, on)
          /\ stale' = [stale EXCEPT ![c] = @ \ {b[1]}]
          /\ UNCHANGED faults
       \/ /\ ~ok /\ device[NodeOf[c]].plugged /\ faults < MaxFaults /\ faults' = faults + 1
          /\ Deliver(c, b, on) \/ UNCHANGED <<device, foreign>>
          /\ stale' = [stale EXCEPT ![c] = @ \cup {b[1]}]
       \/ /\ ~ok /\ ~device[NodeOf[c]].plugged
          /\ stale' = [stale EXCEPT ![c] = @ \cup {b[1]}]
          /\ UNCHANGED <<device, foreign, faults>>

(***************************************************************************)
(* A capture attempt.                                                      *)
(***************************************************************************)
\* A choice shares no hardware with an attempt that is still running.
Free(c) == \A d \in Handles : NodeOf[d] = NodeOf[c] => attempt[d] = "idle"

\* Bug: the bits of the last capture are kept.
Reopen_Retains(c) ==
    /\ Free(c)
    /\ outs' \in {[outs EXCEPT ![c] = o] : o \in {<<>>, Layout[NodeOf[c]]}}
    /\ attempt' = [attempt EXCEPT ![c] = IF device[NodeOf[c]].plugged THEN "opened" ELSE "idle"]
    /\ stale' = [stale EXCEPT ![c] = Reports(NodeOf[c])]
    /\ lit' = [lit EXCEPT ![c] = FALSE]
    /\ foreign' = [foreign EXCEPT ![c] = {}]
    /\ UNCHANGED <<state, device, selected, faults>>

\* Everything retained is dropped, the lit bit too.  A node that is away rejects
\* the attempt; a descriptor that cannot be read or trusted does not.
Reopen(c) ==
    /\ Free(c)
    /\ IF device[NodeOf[c]].plugged
       THEN /\ outs' \in {[outs EXCEPT ![c] = o] : o \in {<<>>, Layout[NodeOf[c]]}}
            /\ attempt' = [attempt EXCEPT ![c] = "opened"]
       ELSE outs' = [outs EXCEPT ![c] = <<>>] /\ UNCHANGED attempt
    /\ state' = [state EXCEPT ![c] = {}]
    /\ stale' = [stale EXCEPT ![c] = Reports(NodeOf[c])]
    /\ lit' = [lit EXCEPT ![c] = FALSE]
    /\ foreign' = [foreign EXCEPT ![c] = {}]
    /\ UNCHANGED <<device, selected, faults>>

\* setOffHook(true); the deferred clearing is already in place.
TakeOffHook(c) ==
    /\ attempt[c] = "opened"
    /\ \E ok \in BOOLEAN :
          /\ Write(c, HookBit(c), TRUE, ok)
          /\ attempt' = [attempt EXCEPT ![c] = IF ok THEN "streaming" ELSE "closing"]
    /\ UNCHANGED <<outs, selected, lit>>

\* The command cannot start, ends, fails or is cancelled.
CaptureEnds(c) ==
    /\ attempt[c] = "streaming" /\ attempt' = [attempt EXCEPT ![c] = "closing"]
    /\ UNCHANGED <<outs, state, device, selected, lit, stale, foreign, faults>>

\* The deferred setOffHook(false): a failure is reported, the attempt is over.
PutOnHook(c) ==
    /\ attempt[c] = "closing" /\ attempt' = [attempt EXCEPT ![c] = "idle"]
    /\ \E ok \in BOOLEAN : Write(c, HookBit(c), FALSE, ok)
    /\ UNCHANGED <<outs, selected, lit>>

(***************************************************************************)
(* The light of the selected choice, and the cable.                        *)
(***************************************************************************)
\* The first frame of the active attempt: audio.NewRecoveringRecorder's callback.
Select(c) ==
    /\ attempt[c] = "streaming" /\ selected # c /\ selected' = c
    /\ UNCHANGED <<outs, state, device, attempt, lit, stale, foreign, faults>>

\* A device without the light is no error and no write.
SetLight(on) ==
    /\ \E b \in LightBit(selected), ok \in BOOLEAN : Write(selected, b, on, ok)
    /\ lit' = [lit EXCEPT ![selected] = on]
    /\ UNCHANGED <<outs, attempt, selected>>

\* The device forgets its report; capture on it ends.
Unplug(n) ==
    /\ device[n].plugged /\ faults < MaxFaults /\ faults' = faults + 1
    /\ device' = [device EXCEPT ![n] = [plugged |-> FALSE, bits |-> {}]]
    /\ stale' = [c \in Handles |-> IF NodeOf[c] = n THEN Reports(n) ELSE stale[c]]
    /\ attempt' = [c \in Handles |->
           IF NodeOf[c] = n /\ attempt[c] = "streaming" THEN "closing" ELSE attempt[c]]
    /\ UNCHANGED <<outs, state, selected, lit, foreign>>

Plug(n) ==
    /\ ~device[n].plugged /\ device' = [device EXCEPT ![n] = [plugged |-> TRUE, bits |-> {}]]
    /\ UNCHANGED <<outs, state, attempt, selected, lit, stale, foreign, faults>>

\* NewReconnecting has opened every handle once; a node may be absent.
HidInit ==
    /\ device \in [Nodes -> [plugged : BOOLEAN, bits : {{}}]]
    /\ outs = [c \in Handles |-> IF device[NodeOf[c]].plugged THEN Layout[NodeOf[c]] ELSE <<>>]
    /\ state = [c \in Handles |-> {}]
    /\ attempt = [c \in Handles |-> "idle"]
    /\ selected = 1
    /\ lit = [c \in Handles |-> FALSE]
    /\ stale = [c \in Handles |-> {}] /\ foreign = [c \in Handles |-> {}]
    /\ faults = 0

HidNext ==
    \/ \E c \in Handles : Reopen(c) \/ TakeOffHook(c) \/ CaptureEnds(c) \/ PutOnHook(c) \/ Select(c)
    \/ \E on \in BOOLEAN : SetLight(on)
    \/ \E n \in Nodes : Unplug(n) \/ Plug(n)

(***************************************************************************)
(* Properties.                                                             *)
(***************************************************************************)
\* A speakerphone that is on hook streams digital silence.  While a capture
\* command runs, its device shows the off-hook bit, whatever the light writes
\* to the same report meanwhile (Telephony's comment, telephony.go:15-19): if the
\* light is another bit, and if the choice has the node for itself or no other
\* choice's handle was the last to send that report.  The comment asks that every
\* writer go through one object; choices on one node do not (build_audio.go:58),
\* and there the light of one does silence the microphone of the other.
Alone(c) == \A d \in Handles : NodeOf[d] = NodeOf[c] => d = c

MicrophoneOpen ==
    \A c \in Handles :
        attempt[c] = "streaming" /\ TwoBits(c) /\ (Alone(c) \/ HookBit(c)[1] \notin foreign[c]) =>
            HookBit(c) \in device[NodeOf[c]].bits

\* After a write that succeeded, and until another choice's handle sends the report,
\* the device shows both controls as they were last asked for, those included whose
\* own write had failed: capture that is over leaves no device off hook, and a light
\* that was put out stays out.
DeviceShowsIntent ==
    \A c \in Handles : TwoBits(c) =>
        \A r \in Reports(NodeOf[c]) \ (stale[c] \cup foreign[c]) :
            InReport(device[NodeOf[c]].bits, r) = InReport(Wanted(c), r)
=============================================================================

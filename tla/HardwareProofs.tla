--------------------------- MODULE HardwareProofs ---------------------------
(***************************************************************************)
(* Proofs about the speaker and the telephony handles, for any number of   *)
(* microphones, players, sounds and failures.                              *)
(***************************************************************************)
EXTENDS Hardware, HidProofs

----------------------------------------------------------------------------
(***************************************************************************)
(* The speaker.  A sound that has the turn is the only one that has it, and *)
(* from there on every field is that sound's: who plays is never decided by *)
(* looking at what is playing.                                             *)
(***************************************************************************)
Stage == {"away", "waiting", "turn", "routed", "playing", "over"}

SpeakerTypes ==
    /\ selected \in DOMAIN PlayerOf
    /\ caller \in [Sounds -> Stage]
    /\ cmd \in [Speaker!Players -> Sounds \cup {Nobody}]
    /\ on \in [Sounds -> Speaker!Players \cup {Nobody}]

Owner ==
    \A s \in Sounds : caller[s] \in {"turn", "routed", "playing", "over"} => turn = s

Follows ==
    \A s \in Sounds :
        /\ caller[s] \in {"routed", "playing", "over"} => on[s] \in Speaker!Players /\ active = on[s]
        /\ caller[s] = "playing" => cmd[on[s]] = s

SpeakerInv == SpeakerTypes /\ Owner /\ Follows

LEMMA SpeakerStarts == Init => SpeakerInv
BY MicrophonesAssumption, SpeakerAssumption
   DEF Init, HidInit, Speaker!PlayerInit, Handles, SpeakerInv, SpeakerTypes, Owner, Follows, Stage

\* Whatever the capture loop and the light do, they only route the next sound.
LEMMA HidLeavesSpeaker ==
    ASSUME SpeakerInv, HidNext, UNCHANGED speakerVars
    PROVE  SpeakerInv'
<1>1. selected' \in DOMAIN PlayerOf
  BY SpeakerAssumption
     DEF HidNext, Reopen, TakeOffHook, CaptureEnds, PutOnHook, Select, SetLight, Unplug, Plug,
         SpeakerInv, SpeakerTypes
<1>2. QED
  BY <1>1 DEF SpeakerInv, SpeakerTypes, Owner, Follows, speakerVars

LEMMA SoundKeepsSpeaker ==
    ASSUME SpeakerInv, Speaker!PlayerNext
    PROVE  SpeakerInv'
<1> USE DEF SpeakerInv, SpeakerTypes, Owner, Follows, Stage
<1>1. PICK s \in Sounds :
        \/ Speaker!Ask(s) \/ Speaker!Cancel(s) \/ Speaker!TakeTurn(s) \/ Speaker!GiveUp(s)
        \/ Speaker!Route(s) \/ Speaker!Launch(s) \/ Speaker!Ends(s) \/ Speaker!Finish(s)
  BY DEF Speaker!PlayerNext
<1>2. s # Nobody
  BY SpeakerAssumption
<1>3. CASE Speaker!Ask(s)
  BY <1>3 DEF Speaker!Ask
<1>4. CASE Speaker!Cancel(s)
  BY <1>4 DEF Speaker!Cancel
<1>5. CASE Speaker!TakeTurn(s)
  \* The turn was nobody's, so no other sound is past it.
  BY <1>2, <1>5, SpeakerAssumption DEF Speaker!TakeTurn
<1>6. CASE Speaker!GiveUp(s)
  BY <1>6 DEF Speaker!GiveUp
<1>7. CASE Speaker!Route(s)
  BY <1>7 DEF Speaker!Route, Speaker!Players
<1>8. CASE Speaker!Launch(s)
  BY <1>8 DEF Speaker!Launch
<1>9. CASE Speaker!Ends(s)
  BY <1>9 DEF Speaker!Ends
<1>10. CASE Speaker!Finish(s)
  BY <1>10 DEF Speaker!Finish
<1>11. QED
  BY <1>1, <1>3, <1>4, <1>5, <1>6, <1>7, <1>8, <1>9, <1>10

LEMMA OwnerIsOneSound == SpeakerInv => OneSound
BY DEF SpeakerInv, Owner, Follows, OneSound, Speaker!OneSound

\* One sound at a time in the room, and the fields through which Stop would reach it name that
\* very sound, for any number of sounds and of players, however the microphone is changed.
THEOREM SpeakerHasOneOwner == Spec => []OneSound
<1>1. Init => SpeakerInv
  BY SpeakerStarts
<1>2. SpeakerInv /\ [Next]_vars => SpeakerInv'
  <2>1. ASSUME SpeakerInv, UNCHANGED vars
        PROVE  SpeakerInv'
    BY <2>1 DEF SpeakerInv, SpeakerTypes, Owner, Follows, vars, hidVars, speakerVars
  <2>2. QED
    BY <2>1, HidLeavesSpeaker, SoundKeepsSpeaker DEF Next
<1>3. QED
  BY <1>1, <1>2, OwnerIsOneSound, PTL DEF Spec

----------------------------------------------------------------------------
(***************************************************************************)
(* The microphone.  What the device shows is not enough: a write of the     *)
(* light sends the whole retained report, so the handle must remember the   *)
(* bit as long as the device shows it; and the device shows it only as long *)
(* as no other handle of the node sends that report.                       *)
(***************************************************************************)
HandleTypes ==
    /\ outs \in [Handles -> {<<>>} \cup {Layout[n] : n \in Nodes}]
    /\ \A c \in Handles : outs[c] \in {<<>>, Layout[NodeOf[c]]}
    /\ state = [c \in Handles |-> state[c]]
    /\ device = [n \in Nodes |-> device[n]]
    /\ \A n \in Nodes :
          /\ device[n] = [plugged |-> device[n].plugged, bits |-> device[n].bits]
          /\ device[n].plugged \in BOOLEAN
    /\ attempt \in [Handles -> {"idle", "opened", "streaming", "closing"}]
    /\ selected \in Handles
    /\ foreign = [c \in Handles |-> foreign[c]]

Remembers(c) ==
    /\ device[NodeOf[c]].plugged
    /\ TwoBits(c) =>
          /\ HookBit(c) \in state[c]
          /\ HookBit(c)[1] \notin foreign[c] => HookBit(c) \in device[NodeOf[c]].bits

Remembered == \A c \in Handles : attempt[c] = "streaming" => Remembers(c)

\* Only a handle of the same node sends reports behind a handle's back.
Unshared == \A c \in Handles : Alone(c) => foreign[c] = {}

HookInv == HandleTypes /\ Remembered /\ Unshared

LEMMA HookStarts == Init => HookInv
<1> SUFFICES ASSUME Init PROVE HookInv
  OBVIOUS
<1>1. Handles # {} /\ 1 \in Handles
  BY MicrophonesAssumption DEF Handles
<1>2. \A c \in Handles : NodeOf[c] \in Nodes
  BY DEF Nodes
<1>3. QED
  BY <1>1, <1>2 DEF Init, HidInit, HookInv, HandleTypes, Remembered, Unshared

\* The light's bit is never the off-hook bit of the same handle: a node's light and its off-hook
\* LED are two usages, and two usages are two bits.
LEMMA LightIsAnotherBit ==
    ASSUME HandleTypes, NEW c \in Handles, TwoBits(c), NEW b \in LightBit(c)
    PROVE  b # HookBit(c)
<1>1. PICK i \in DOMAIN autoOrder :
        autoOrder[i] \in Advertised(c) /\ b = Place(outs[c][leds[autoOrder[i]]])
  <2> DEFINE candidates == IF LightChoice = "auto" THEN Advertised(c) ELSE Advertised(c) \cap {LightChoice}
             rank == {i \in DOMAIN autoOrder : autoOrder[i] \in candidates}
  <2>1. rank # {} /\ b = Place(outs[c][leds[autoOrder[Min(rank)]]])
    BY DEF LightBit
  <2>2. Min(rank) \in rank
    <3>1. rank \subseteq 1..4
      BY DEF autoOrder
    <3>2. \E m \in rank : \A n \in rank : m <= n
      BY <2>1, <3>1
    <3>3. QED
      BY <3>2 DEF Min
  <2>3. QED
    BY <2>1, <2>2
<1>2. PICK name \in DOMAIN leds : leds[name] \in DOMAIN outs[c] /\ b = Place(outs[c][leds[name]])
  BY <1>1 DEF Advertised
<1>3. NodeOf[c] \in Nodes
  BY DEF Nodes
<1>4. outs[c] = <<>> => DOMAIN outs[c] = {}
  OBVIOUS
<1>5. outs[c] = Layout[NodeOf[c]]
  BY <1>2, <1>4 DEF HandleTypes
<1>6. CASE LEDOffHook \in DOMAIN outs[c]
  <2>1. outs[c] = ParseOutputs(Descriptor[NodeOf[c]]) /\ Descriptor[NodeOf[c]] \in Descriptors
    BY <1>3, <1>5, FirmwareAssumption DEF Layout
  <2>2. leds[name] # LEDOffHook
    BY DEF leds, LEDOffHook, Key, PageLED
  <2>3. \/ outs[c][leds[name]].report # outs[c][LEDOffHook].report
        \/ outs[c][leds[name]].bit # outs[c][LEDOffHook].bit
    BY <1>2, <1>6, <2>1, <2>2, ControlsKeepApart
  <2>4. Place(outs[c][leds[name]]) # Place(outs[c][LEDOffHook])
    BY <2>3 DEF Place
  <2>5. HookBit(c) = Place(outs[c][LEDOffHook])
    BY <1>6 DEF HookBit, OffHookPlace
  <2>6. QED
    BY <1>2, <2>4, <2>5
<1>7. CASE LEDOffHook \notin DOMAIN outs[c]
  BY <1>7 DEF TwoBits
<1>8. QED
  BY <1>6, <1>7

\* A handle's controls are those it found in its descriptor.
LEMMA SameControls ==
    ASSUME NEW d, outs'[d] = outs[d]
    PROVE  /\ HookBit(d)' = HookBit(d) /\ LightBit(d)' = LightBit(d)
           /\ TwoBits(d)' <=> TwoBits(d)
<1>1. HookBit(d)' = HookBit(d)
  BY DEF HookBit, OffHookPlace
<1>2. LightBit(d)' = LightBit(d)
  <2>1. Advertised(d)' = Advertised(d)
    BY DEF Advertised
  <2>2. QED
    BY <2>1 DEF LightBit
<1>3. QED
  BY <1>1, <1>2 DEF TwoBits

\* A write that is sent replaces the device's report; one that is not only the retained one.
LEMMA WriteSends ==
    ASSUME NEW c, NEW b, NEW onBit, NEW ok, Write(c, b, onBit, ok)
    PROVE  /\ state' = [state EXCEPT ![c] = Retained(c, b, onBit, ok)]
           /\ \/ device[NodeOf[c]].plugged /\ Deliver(c, b, onBit)
              \/ ~ok /\ device' = device /\ foreign' = foreign
BY DEF Write

\* Sending changes the node of the handle, and nothing of another.
LEMMA DeliverOne ==
    ASSUME HandleTypes, NEW c \in Handles, NEW b, NEW onBit, Deliver(c, b, onBit)
    PROVE  /\ device' = [m \in Nodes |-> device'[m]]
           /\ device'[NodeOf[c]] = [plugged |-> TRUE, bits |-> Merged(c, b, onBit)]
           /\ \A m \in Nodes \ {NodeOf[c]} : device'[m] = device[m]
           /\ foreign' = [d \in Handles |-> foreign'[d]]
           /\ foreign'[c] = foreign[c] \ {b[1]}
           /\ \A d \in Handles \ {c} : foreign'[d] =
                 IF NodeOf[d] = NodeOf[c] THEN foreign[d] \cup {b[1]} ELSE foreign[d]
<1> DEFINE n == NodeOf[c]
           report == [plugged |-> TRUE, bits |-> Merged(c, b, onBit)]
           F(d) == IF d = c THEN foreign[d] \ {b[1]}
                   ELSE IF NodeOf[d] = n THEN foreign[d] \cup {b[1]} ELSE foreign[d]
<1>1. n \in Nodes /\ device = [m \in Nodes |-> device[m]]
  BY DEF Nodes, HandleTypes
<1>2. device' = [device EXCEPT ![n] = report] /\ foreign' = [d \in Handles |-> F(d)]
  BY DEF Deliver
<1>3. foreign' = [d \in Handles |-> foreign'[d]] /\ \A d \in Handles : foreign'[d] = F(d)
  <2> HIDE DEF F
  <2>1. QED
    BY <1>2
<1>4. /\ device' = [m \in Nodes |-> device'[m]] /\ device'[n] = report
      /\ \A m \in Nodes \ {n} : device'[m] = device[m]
  <2> HIDE DEF n, report
  <2>1. QED
    BY <1>1, <1>2
<1>5. QED
  BY <1>3, <1>4

\* What a write changes: the handle's report and its own node's, nothing else.
LEMMA WriteKeeps ==
    ASSUME HandleTypes, NEW c \in Handles, NEW b, NEW onBit \in BOOLEAN, NEW ok \in BOOLEAN,
           Write(c, b, onBit, ok)
    PROVE  /\ state' = [d \in Handles |-> state'[d]]
           /\ device' = [n \in Nodes |-> device'[n]]
           /\ \A n \in Nodes : device'[n] = [plugged |-> device[n].plugged, bits |-> device'[n].bits]
           /\ \A n \in Nodes \ {NodeOf[c]} : device'[n] = device[n]
           /\ \A d \in Handles \ {c} : state'[d] = state[d]
           /\ onBit => b \in state'[c]
           /\ onBit /\ ok => device[NodeOf[c]].plugged /\ b \in device'[NodeOf[c]].bits
           /\ foreign' = [d \in Handles |-> foreign'[d]]
<1>1. NodeOf[c] \in Nodes
  BY DEF Nodes
<1>2. state' = [state EXCEPT ![c] = Retained(c, b, onBit, ok)]
  BY WriteSends
<1>3. /\ state' = [d \in Handles |-> state'[d]] /\ \A d \in Handles \ {c} : state'[d] = state[d]
      /\ state'[c] = Retained(c, b, onBit, ok)
  BY <1>2 DEF HandleTypes
<1>4. onBit => b \in state'[c]
  BY <1>3 DEF Retained
<1>5. CASE ~ok /\ device' = device /\ foreign' = foreign
  BY <1>3, <1>4, <1>5 DEF HandleTypes
<1>6. CASE device[NodeOf[c]].plugged /\ Deliver(c, b, onBit)
  <2>1. /\ device' = [m \in Nodes |-> device'[m]]
        /\ device'[NodeOf[c]] = [plugged |-> TRUE, bits |-> Merged(c, b, onBit)]
        /\ \A m \in Nodes \ {NodeOf[c]} : device'[m] = device[m]
        /\ foreign' = [d \in Handles |-> foreign'[d]]
    BY <1>6, DeliverOne
  <2>2. device[NodeOf[c]].plugged = TRUE
    BY <1>1, <1>6 DEF HandleTypes
  <2>3. device'[NodeOf[c]].bits = Merged(c, b, onBit)
    BY <2>1
  <2>4. onBit => b \in Merged(c, b, onBit)
    BY DEF Merged, Sent, Retained, InReport
  <2>5. \A n \in Nodes : device'[n] = [plugged |-> device[n].plugged, bits |-> device'[n].bits]
    <3>1. TAKE n \in Nodes
    <3>2. CASE n = NodeOf[c]
      BY <2>1, <2>2, <2>3, <3>2
    <3>3. CASE n # NodeOf[c]
      BY <2>1, <3>3 DEF HandleTypes
    <3>4. QED
      BY <3>2, <3>3
  <2>6. QED
    BY <1>3, <1>4, <1>6, <2>1, <2>3, <2>4, <2>5
<1>7. QED
  BY <1>5, <1>6, WriteSends

\* Of the reports that another handle sees, a write changes only one that is foreign to it then.
LEMMA WriteSpares ==
    ASSUME HandleTypes, NEW c \in Handles, NEW b, NEW onBit \in BOOLEAN, NEW ok \in BOOLEAN,
           Write(c, b, onBit, ok), NEW d \in Handles, d # c
    PROVE  /\ foreign[d] \subseteq foreign'[d]
           /\ \A r : r \notin foreign'[d] =>
                 InReport(device'[NodeOf[d]].bits, r) = InReport(device[NodeOf[d]].bits, r)
           /\ NodeOf[d] # NodeOf[c] => foreign'[d] = foreign[d]
<1>1. NodeOf[c] \in Nodes /\ NodeOf[d] \in Nodes
  BY DEF Nodes
<1>2. CASE device' = device /\ foreign' = foreign
  BY <1>2
<1>3. CASE Deliver(c, b, onBit)
  <2>1. foreign'[d] = IF NodeOf[d] = NodeOf[c] THEN foreign[d] \cup {b[1]} ELSE foreign[d]
    <3>1. \A e \in Handles \ {c} : foreign'[e] =
             IF NodeOf[e] = NodeOf[c] THEN foreign[e] \cup {b[1]} ELSE foreign[e]
      BY <1>3, DeliverOne
    <3>2. QED
      BY <3>1
  <2>2. /\ device'[NodeOf[c]].bits = Merged(c, b, onBit)
        /\ NodeOf[d] # NodeOf[c] => device'[NodeOf[d]] = device[NodeOf[d]]
    <3>1. /\ device'[NodeOf[c]] = [plugged |-> TRUE, bits |-> Merged(c, b, onBit)]
          /\ \A m \in Nodes \ {NodeOf[c]} : device'[m] = device[m]
      BY <1>3, DeliverOne
    <3>2. QED
      BY <1>1, <3>1
  <2>3. ASSUME NEW r, r # b[1]
        PROVE  InReport(Merged(c, b, onBit), r) = InReport(device[NodeOf[c]].bits, r)
    BY <2>3 DEF Merged, Sent, InReport
  <2>4. QED
    BY <2>1, <2>2, <2>3
<1>4. QED
  BY <1>2, <1>3, WriteSends

\* Another capture notices nothing of a write, but of what is foreign to it then.
LEMMA OthersStream ==
    ASSUME HookInv, NEW c \in Handles, NEW b, NEW onBit \in BOOLEAN, NEW ok \in BOOLEAN,
           Write(c, b, onBit, ok), UNCHANGED outs,
           NEW d \in Handles, d # c, attempt[d] = "streaming"
    PROVE  Remembers(d)'
<1>1. HandleTypes /\ Remembers(d) /\ NodeOf[d] \in Nodes
  BY DEF HookInv, Remembered, Nodes
<1>2. /\ \A n \in Nodes : device'[n] = [plugged |-> device[n].plugged, bits |-> device'[n].bits]
      /\ \A e \in Handles \ {c} : state'[e] = state[e]
  BY <1>1, WriteKeeps
<1>3. device'[NodeOf[d]].plugged = device[NodeOf[d]].plugged /\ state'[d] = state[d]
  <2>1. device'[NodeOf[d]] =
            [plugged |-> device[NodeOf[d]].plugged, bits |-> device'[NodeOf[d]].bits]
    BY <1>1, <1>2
  <2>2. device'[NodeOf[d]].plugged = device[NodeOf[d]].plugged
    BY <2>1
  <2>3. QED
    BY <1>2, <2>2
<1>4. /\ foreign[d] \subseteq foreign'[d]
      /\ \A r : r \notin foreign'[d] =>
            InReport(device'[NodeOf[d]].bits, r) = InReport(device[NodeOf[d]].bits, r)
  BY <1>1, WriteSpares
<1>5. HookBit(d)' = HookBit(d) /\ (TwoBits(d)' <=> TwoBits(d))
  BY DEF HookBit, OffHookPlace, TwoBits, LightBit, Advertised
<1>6. ASSUME TwoBits(d), HookBit(d)[1] \notin foreign'[d]
      PROVE  HookBit(d) \in device'[NodeOf[d]].bits
  <2>1. HookBit(d) \in device[NodeOf[d]].bits
    BY <1>1, <1>4, <1>6 DEF Remembers
  <2>2. HookBit(d) \in InReport(device[NodeOf[d]].bits, HookBit(d)[1])
    BY <2>1 DEF InReport
  <2>3. HookBit(d) \in InReport(device'[NodeOf[d]].bits, HookBit(d)[1])
    BY <1>4, <1>6, <2>2
  <2>4. QED
    BY <2>3 DEF InReport
<1>7. QED
  BY <1>1, <1>3, <1>5, <1>6 DEF Remembers

\* A handle whose node no other handle shares has sent all its reports itself.
LEMMA WriteKeepsUnshared ==
    ASSUME HandleTypes, Unshared, NEW c \in Handles, NEW b, NEW onBit \in BOOLEAN, NEW ok \in BOOLEAN,
           Write(c, b, onBit, ok)
    PROVE  Unshared'
<1> SUFFICES ASSUME NEW d \in Handles, Alone(d)
             PROVE  foreign'[d] = {}
  BY DEF Unshared, Alone
<1>1. foreign[d] = {}
  BY DEF Unshared
<1>2. CASE d # c
  <2>1. NodeOf[d] # NodeOf[c]
    BY <1>2 DEF Alone
  <2>2. QED
    BY <1>1, <1>2, <2>1, WriteSpares
<1>3. CASE d = c
  <2>1. Deliver(c, b, onBit) => foreign'[c] = foreign[c] \ {b[1]}
    BY DeliverOne
  <2>2. foreign'[c] \in {foreign[c], foreign[c] \ {b[1]}}
    BY <2>1, WriteSends
  <2>3. QED
    BY <1>1, <1>3, <2>2
<1>4. QED
  BY <1>2, <1>3

LEMMA WriteKeepsTypes ==
    ASSUME HandleTypes, NEW c \in Handles, NEW b, NEW onBit \in BOOLEAN, NEW ok \in BOOLEAN,
           Write(c, b, onBit, ok), UNCHANGED <<outs, selected>>,
           attempt' \in [Handles -> {"idle", "opened", "streaming", "closing"}]
    PROVE  HandleTypes'
<1>1. /\ state' = [d \in Handles |-> state'[d]]
      /\ device' = [n \in Nodes |-> device'[n]]
      /\ \A n \in Nodes : device'[n] = [plugged |-> device[n].plugged, bits |-> device'[n].bits]
  BY WriteKeeps
<1>2. \A n \in Nodes : device'[n].plugged = device[n].plugged
  BY <1>1
<1>3. \A n \in Nodes :
        /\ device'[n] = [plugged |-> device'[n].plugged, bits |-> device'[n].bits]
        /\ device'[n].plugged \in BOOLEAN
  BY <1>1, <1>2 DEF HandleTypes
<1>4. foreign' = [d \in Handles |-> foreign'[d]]
  BY WriteKeeps
<1>5. QED
  BY <1>1, <1>3, <1>4 DEF HandleTypes

LEMMA ReopenKeepsHook ==
    ASSUME HookInv, NEW c \in Handles, Reopen(c)
    PROVE  HookInv'
<1>1. NodeOf[c] \in Nodes
  BY DEF Nodes
<1>2. attempt[c] = "idle"
  BY DEF Reopen, Free
<1>3. attempt'[c] \in {"idle", "opened"} /\ \A d \in Handles \ {c} : attempt'[d] = attempt[d]
  BY <1>2 DEF Reopen, HookInv, HandleTypes
<1>4. \A d \in Handles \ {c} : outs'[d] = outs[d] /\ state'[d] = state[d] /\ foreign'[d] = foreign[d]
  BY DEF Reopen, HookInv, HandleTypes
<1>5. HandleTypes'
  <2>1. PICK o \in {<<>>, Layout[NodeOf[c]]} : outs' = [outs EXCEPT ![c] = o]
    BY DEF Reopen
  <2>2. /\ outs' \in [Handles -> {<<>>} \cup {Layout[n] : n \in Nodes}]
        /\ \A d \in Handles : outs'[d] \in {<<>>, Layout[NodeOf[d]]}
    BY <1>1, <2>1 DEF HookInv, HandleTypes
  <2>3. QED
    BY <2>2 DEF Reopen, HookInv, HandleTypes
<1>6. Remembered'
  <2> SUFFICES ASSUME NEW d \in Handles, attempt'[d] = "streaming"
               PROVE  Remembers(d)'
    BY DEF Remembered
  <2>1. d # c /\ attempt[d] = "streaming"
    BY <1>3
  <2>2. outs'[d] = outs[d] /\ state'[d] = state[d] /\ foreign'[d] = foreign[d] /\ device' = device
    BY <1>4, <2>1 DEF Reopen
  <2>3. Remembers(d)
    BY <2>1 DEF HookInv, Remembered
  <2>4. QED
    BY <2>2, <2>3 DEF Remembers, TwoBits, HookBit, OffHookPlace, LightBit, Advertised
<1>7. Unshared'
  BY <1>4 DEF Reopen, HookInv, HandleTypes, Unshared, Alone
<1>8. QED
  BY <1>5, <1>6, <1>7 DEF HookInv

LEMMA TakeOffHookKeepsHook ==
    ASSUME HookInv, NEW c \in Handles, TakeOffHook(c)
    PROVE  HookInv'
<1>1. PICK ok \in BOOLEAN :
        /\ Write(c, HookBit(c), TRUE, ok)
        /\ attempt' = [attempt EXCEPT ![c] = IF ok THEN "streaming" ELSE "closing"]
  BY DEF TakeOffHook
<1>2. UNCHANGED <<outs, selected>>
  BY DEF TakeOffHook
<1>3. HandleTypes'
  BY <1>1, <1>2, WriteKeepsTypes DEF HookInv, HandleTypes
<1>4. HookBit(c)' = HookBit(c)
  BY <1>2 DEF HookBit, OffHookPlace
<1>5. NodeOf[c] \in Nodes
  BY DEF Nodes
<1>6. /\ HookBit(c) \in state'[c]
      /\ ok => /\ device'[NodeOf[c]].plugged
               /\ HookBit(c) \in device'[NodeOf[c]].bits
  <2>1. HandleTypes /\ TRUE \in BOOLEAN
    BY DEF HookInv
  <2>2. TRUE => HookBit(c) \in state'[c]
    BY ONLY <1>1, <2>1, WriteKeeps, c \in Handles, ok \in BOOLEAN
  <2>3. TRUE /\ ok => device[NodeOf[c]].plugged /\ HookBit(c) \in device'[NodeOf[c]].bits
    BY ONLY <1>1, <2>1, WriteKeeps, c \in Handles, ok \in BOOLEAN
  <2>4. device'[NodeOf[c]] =
            [plugged |-> device[NodeOf[c]].plugged, bits |-> device'[NodeOf[c]].bits]
    BY ONLY <1>1, <1>5, <2>1, WriteKeeps, c \in Handles, ok \in BOOLEAN
  <2>5. device'[NodeOf[c]].plugged = device[NodeOf[c]].plugged
    BY <2>4
  <2>6. QED
    BY <2>2, <2>3, <2>5
<1>7. ASSUME NEW d \in Handles, attempt'[d] = "streaming"
      PROVE  Remembers(d)'
  <2>1. CASE d = c
    <3>1. ok
      BY <1>1, <1>7, <2>1 DEF HookInv, HandleTypes
    <3>2. QED
      BY <1>4, <1>6, <2>1, <3>1 DEF Remembers
  <2>2. CASE d # c
    <3>1. attempt[d] = "streaming"
      BY <1>1, <1>7, <2>2 DEF HookInv, HandleTypes
    <3>2. QED
      BY <1>1, <1>2, <2>2, <3>1, OthersStream
  <2>3. QED
    BY <2>1, <2>2
<1>8. Unshared'
  BY ONLY <1>1, WriteKeepsUnshared, HookInv, c \in Handles, ok \in BOOLEAN, TRUE \in BOOLEAN DEF HookInv
<1>9. QED
  BY <1>3, <1>7, <1>8 DEF HookInv, Remembered

LEMMA PutOnHookKeepsHook ==
    ASSUME HookInv, NEW c \in Handles, PutOnHook(c)
    PROVE  HookInv'
<1>1. PICK ok \in BOOLEAN : Write(c, HookBit(c), FALSE, ok)
  BY DEF PutOnHook
<1>2. attempt' = [attempt EXCEPT ![c] = "idle"] /\ UNCHANGED <<outs, selected>>
  BY DEF PutOnHook
<1>3. HandleTypes'
  BY <1>1, <1>2, WriteKeepsTypes DEF HookInv, HandleTypes
<1>4. ASSUME NEW d \in Handles, attempt'[d] = "streaming"
      PROVE  Remembers(d)'
  <2>1. d # c /\ attempt[d] = "streaming"
    BY <1>2, <1>4 DEF HookInv, HandleTypes
  <2>2. QED
    BY <1>1, <1>2, <2>1, OthersStream
<1>5. Unshared'
  BY ONLY <1>1, WriteKeepsUnshared, HookInv, c \in Handles, FALSE \in BOOLEAN DEF HookInv
<1>6. QED
  BY <1>3, <1>4, <1>5 DEF HookInv, Remembered

\* A write keeps every other bit that the handle remembers; and the device shows it, unless its
\* report is foreign.
LEMMA WriteKeepsBit ==
    ASSUME HandleTypes, NEW c \in Handles, NEW b, NEW onBit \in BOOLEAN, NEW ok \in BOOLEAN,
           Write(c, b, onBit, ok),
           NEW h, h # b, h \in state[c], h[1] \notin foreign[c] => h \in device[NodeOf[c]].bits
    PROVE  /\ h \in state'[c]
           /\ h[1] \notin foreign'[c] => h \in device'[NodeOf[c]].bits
<1>1. h \in Retained(c, b, onBit, ok) /\ h \in Retained(c, b, onBit, TRUE)
  BY DEF Retained
<1>2. h \in state'[c]
  <2>1. state' = [state EXCEPT ![c] = Retained(c, b, onBit, ok)]
    BY WriteSends
  <2>2. QED
    BY <1>1, <2>1 DEF HandleTypes
<1>3. CASE device' = device /\ foreign' = foreign
  BY <1>2, <1>3
<1>4. CASE Deliver(c, b, onBit)
  <2>1. /\ device'[NodeOf[c]] = [plugged |-> TRUE, bits |-> Merged(c, b, onBit)]
        /\ foreign'[c] = foreign[c] \ {b[1]}
    BY <1>4, DeliverOne
  <2>2. h[1] = b[1] => h \in Merged(c, b, onBit)
    BY <1>1 DEF Merged, Sent, InReport, Retained
  <2>3. h[1] # b[1] /\ h[1] \notin foreign'[c] => h \in Merged(c, b, onBit)
    BY <2>1 DEF Merged
  <2>4. device'[NodeOf[c]].bits = Merged(c, b, onBit)
    BY <2>1
  <2>5. QED
    BY <1>2, <2>2, <2>3, <2>4
<1>5. QED
  BY <1>3, <1>4, WriteSends

LEMMA OtherBitKeepsHook ==
    ASSUME HookInv, NEW c \in Handles, NEW b, TwoBits(c) => b # HookBit(c),
           NEW onBit \in BOOLEAN, NEW ok \in BOOLEAN, Write(c, b, onBit, ok),
           UNCHANGED <<outs, attempt, selected>>
    PROVE  HookInv'
<1>1. HandleTypes'
  <2>1. HandleTypes /\ attempt' \in [Handles -> {"idle", "opened", "streaming", "closing"}]
    BY DEF HookInv, HandleTypes
  <2>2. UNCHANGED <<outs, selected>>
    OBVIOUS
  <2>3. QED
    BY <2>1, <2>2, WriteKeepsTypes
<1>2. HookBit(c)' = HookBit(c) /\ (TwoBits(c)' <=> TwoBits(c))
  BY DEF HookBit, OffHookPlace, TwoBits, LightBit, Advertised
<1>3. ASSUME NEW d \in Handles, attempt'[d] = "streaming"
      PROVE  Remembers(d)'
  <2>1. CASE d = c
    <3>1. Remembers(c) /\ HandleTypes /\ NodeOf[c] \in Nodes
      BY <1>3, <2>1 DEF HookInv, Remembered, Nodes
    <3>2. device'[NodeOf[c]].plugged
      <4>1. device'[NodeOf[c]] = [plugged |-> device[NodeOf[c]].plugged, bits |-> device'[NodeOf[c]].bits]
        BY <3>1, WriteKeeps
      <4>2. QED
        BY <3>1, <4>1 DEF Remembers
    <3>3. ASSUME TwoBits(c)
          PROVE  /\ HookBit(c) \in state'[c]
                 /\ HookBit(c)[1] \notin foreign'[c] => HookBit(c) \in device'[NodeOf[c]].bits
      BY <3>1, <3>3, WriteKeepsBit DEF Remembers
    <3>4. QED
      BY <1>2, <2>1, <3>2, <3>3 DEF Remembers
  <2>2. CASE d # c
    BY <1>3, <2>2, OthersStream
  <2>3. QED
    BY <2>1, <2>2
<1>4. Unshared'
  BY WriteKeepsUnshared DEF HookInv
<1>5. QED
  BY <1>1, <1>3, <1>4 DEF HookInv, Remembered

LEMMA SetLightKeepsHook ==
    ASSUME HookInv, NEW onBit \in BOOLEAN, SetLight(onBit)
    PROVE  HookInv'
<1>1. PICK b \in LightBit(selected), ok \in BOOLEAN : Write(selected, b, onBit, ok)
  BY DEF SetLight
<1>2. selected \in Handles /\ HandleTypes
  BY DEF HookInv, HandleTypes
<1>3. UNCHANGED <<outs, attempt, selected>>
  BY DEF SetLight
<1>4. TwoBits(selected) => b # HookBit(selected)
  BY <1>2, LightIsAnotherBit
<1>5. QED
  BY <1>1, <1>2, <1>3, <1>4, OtherBitKeepsHook

LEMMA CableKeepsHook ==
    ASSUME HookInv, NEW n \in Nodes, Unplug(n) \/ Plug(n)
    PROVE  HookInv'
<1>1. /\ UNCHANGED <<outs, state, selected, foreign>>
      /\ device' = [m \in Nodes |-> device'[m]]
      /\ \A m \in Nodes \ {n} : device'[m] = device[m]
      /\ \E p \in BOOLEAN : device'[n] = [plugged |-> p, bits |-> {}]
  BY DEF Unplug, Plug, HookInv, HandleTypes
<1>2. /\ attempt' \in [Handles -> {"idle", "opened", "streaming", "closing"}]
      /\ \A d \in Handles : attempt'[d] = "streaming" => attempt[d] = "streaming" /\ NodeOf[d] # n
  <2>1. CASE Unplug(n)
    BY <2>1 DEF Unplug, HookInv, HandleTypes
  <2>2. CASE Plug(n)
    BY <2>2 DEF Plug, HookInv, HandleTypes, Remembered, Remembers
  <2>3. QED
    BY <2>1, <2>2
<1>3. \A m \in Nodes :
        /\ device'[m] = [plugged |-> device'[m].plugged, bits |-> device'[m].bits]
        /\ device'[m].plugged \in BOOLEAN
  <2>1. TAKE m \in Nodes
  <2>2. CASE m = n
    BY <1>1, <2>2
  <2>3. CASE m # n
    BY <1>1, <2>3 DEF HookInv, HandleTypes
  <2>4. QED
    BY <2>2, <2>3
<1>4. HandleTypes'
  BY <1>1, <1>2, <1>3 DEF HookInv, HandleTypes
<1>5. ASSUME NEW d \in Handles, attempt'[d] = "streaming"
      PROVE  Remembers(d)'
  <2>1. Remembers(d) /\ NodeOf[d] \in Nodes \ {n}
    BY <1>2, <1>5 DEF HookInv, Remembered, Nodes
  <2>2. device'[NodeOf[d]] = device[NodeOf[d]]
    BY <1>1, <2>1
  <2>3. QED
    BY <1>1, <2>1, <2>2 DEF Remembers, TwoBits, HookBit, OffHookPlace, LightBit, Advertised
<1>6. QED
  BY <1>1, <1>4, <1>5 DEF HookInv, Remembered, Unshared, Alone

LEMMA QuietKeepsHook ==
    ASSUME HookInv, UNCHANGED <<outs, state, device, foreign>>, selected' \in Handles,
           attempt' \in [Handles -> {"idle", "opened", "streaming", "closing"}],
           \A d \in Handles : attempt'[d] = "streaming" => attempt[d] = "streaming"
    PROVE  HookInv'
<1>1. HandleTypes'
  BY DEF HandleTypes, HookInv
<1>2. ASSUME NEW d \in Handles, attempt'[d] = "streaming"
      PROVE  Remembers(d)'
  <2>1. Remembers(d)
    BY <1>2 DEF HookInv, Remembered
  <2>2. HookBit(d)' = HookBit(d) /\ (TwoBits(d)' <=> TwoBits(d))
    BY SameControls
  <2>3. QED
    BY <2>1, <2>2 DEF Remembers
<1>3. QED
  BY <1>1, <1>2 DEF HookInv, Remembered, Unshared, Alone

LEMMA HidKeepsHook ==
    ASSUME HookInv, HidNext
    PROVE  HookInv'
<1>1. ASSUME NEW c \in Handles, CaptureEnds(c) \/ Select(c)
      PROVE  HookInv'
  <2>1. /\ UNCHANGED <<outs, state, device, foreign>> /\ selected' \in Handles
        /\ attempt' \in [Handles -> {"idle", "opened", "streaming", "closing"}]
        /\ \A d \in Handles : attempt'[d] = "streaming" => attempt[d] = "streaming"
    BY <1>1 DEF CaptureEnds, Select, HookInv, HandleTypes
  <2>2. QED
    BY <2>1, QuietKeepsHook
<1>2. QED
  BY <1>1, ReopenKeepsHook, TakeOffHookKeepsHook, PutOnHookKeepsHook, SetLightKeepsHook,
     CableKeepsHook DEF HidNext

\* While a capture command runs its device shows the off-hook bit, whatever the light writes to
\* the same report and whichever writes fail, for any number of microphones on any nodes and any
\* firmware whose light is not the off-hook bit itself: until the handle of another choice on the
\* same node sends that report.  A choice that has its node for itself keeps its microphone open.
THEOREM MicrophoneStaysOpen == Spec => []MicrophoneOpen
<1>1. Init => HookInv
  BY HookStarts
<1>2. HookInv /\ [Next]_vars => HookInv'
  <2>1. ASSUME HookInv, UNCHANGED <<outs, state, device, attempt, selected, foreign>>
        PROVE  HookInv'
    <3>1. selected' \in Handles /\ attempt' \in [Handles -> {"idle", "opened", "streaming", "closing"}]
      BY <2>1 DEF HookInv, HandleTypes
    <3>2. QED
      BY <2>1, <3>1, QuietKeepsHook
  <2>2. Speaker!PlayerNext => UNCHANGED selected
    BY DEF Speaker!PlayerNext, Speaker!Ask, Speaker!Cancel, Speaker!TakeTurn, Speaker!GiveUp,
           Speaker!Route, Speaker!Launch, Speaker!Ends, Speaker!Finish
  <2>3. QED
    BY <2>1, <2>2, HidKeepsHook DEF Next, vars, hidVars
<1>3. HookInv => MicrophoneOpen
  BY DEF HookInv, Remembered, Remembers, Unshared, MicrophoneOpen
<1>4. QED
  BY <1>1, <1>2, <1>3, PTL DEF Spec

----------------------------------------------------------------------------
(***************************************************************************)
(* What the devices show.  Reports that are neither stale nor foreign are  *)
(* the retained ones; and a handle retains exactly what is wanted of it, also  *)
(* when the write that was to say so has failed.                           *)
(***************************************************************************)
Away == \A n \in Nodes : ~device[n].plugged => device[n].bits = {}

Intended == \A c \in Handles : TwoBits(c) => state[c] = Wanted(c)

ShownAt(c) ==
    \A r \in Reports(NodeOf[c]) \ (stale[c] \cup foreign[c]) :
        InReport(device[NodeOf[c]].bits, r) = InReport(state[c], r)

IntentInv ==
    /\ HandleTypes
    /\ stale = [c \in Handles |-> stale[c]] /\ lit = [c \in Handles |-> lit[c]]
    /\ \A c \in Handles : lit[c] \in BOOLEAN
    /\ Away /\ Intended
    /\ \A c \in Handles : ShownAt(c)

LEMMA IntentStarts == Init => IntentInv
<1> SUFFICES ASSUME Init PROVE IntentInv
  OBVIOUS
<1>1. HandleTypes
  BY HookStarts DEF HookInv
<1>2. /\ state = [c \in Handles |-> {}] /\ stale = [c \in Handles |-> {}]
      /\ lit = [c \in Handles |-> FALSE] /\ attempt = [c \in Handles |-> "idle"]
      /\ device \in [Nodes -> [plugged : BOOLEAN, bits : {{}}]]
  BY DEF Init, HidInit
<1>3. \A c \in Handles : NodeOf[c] \in Nodes
  BY DEF Nodes
<1>4. \A n \in Nodes : device[n].bits = {}
  BY <1>2
<1>5. Away
  BY <1>4 DEF Away
<1>6. Intended
  BY <1>2 DEF Intended, Wanted
<1>7. \A c \in Handles : ShownAt(c)
  BY <1>2, <1>3, <1>4 DEF ShownAt, InReport
<1>8. QED
  BY <1>1, <1>2, <1>5, <1>6, <1>7 DEF IntentInv

\* A write leaves the handle with the report it was to send; of the device's reports it renews
\* the one it sent, unless it marks it as stale.
LEMMA WriteShows ==
    ASSUME IntentInv, NEW c \in Handles, NEW b, NEW onBit \in BOOLEAN, NEW ok \in BOOLEAN,
           Write(c, b, onBit, ok)
    PROVE  /\ state'[c] = IF onBit THEN state[c] \cup {b} ELSE state[c] \ {b}
           /\ \A d \in Handles \ {c} : state'[d] = state[d] /\ stale'[d] = stale[d]
           /\ stale' = [d \in Handles |-> stale'[d]]
           /\ Away'
           /\ ShownAt(c)'
<1> DEFINE n == NodeOf[c]
           kept == IF onBit THEN state[c] \cup {b} ELSE state[c] \ {b}
           bits == Merged(c, b, onBit)
<1>1. n \in Nodes /\ HandleTypes
  BY DEF Nodes, IntentInv
<1>2. Retained(c, b, onBit, ok) = kept /\ Sent(c, b, onBit) = InReport(kept, b[1])
  BY DEF Retained, Sent
<1>3. state' = [state EXCEPT ![c] = kept]
  BY <1>2, WriteSends
<1> HIDE DEF kept
<1>5. state'[c] = kept /\ \A d \in Handles \ {c} : state'[d] = state[d]
  BY <1>1, <1>3 DEF HandleTypes
<1>6. InReport(bits, b[1]) = InReport(kept, b[1])
  BY <1>2 DEF Merged, InReport
<1>7. \A r : r # b[1] => InReport(bits, r) = InReport(device[n].bits, r)
  BY <1>2 DEF Merged, InReport
<1>8. \A r : r # b[1] => InReport(kept, r) = InReport(state[c], r)
  BY DEF InReport, kept
<1> DEFINE Sends == Deliver(c, b, onBit)
<1>9. Sends => /\ device'[n].plugged /\ device'[n].bits = bits
               /\ \A m \in Nodes \ {n} : device'[m] = device[m]
               /\ foreign'[c] = foreign[c] \ {b[1]}
  <2> SUFFICES ASSUME Sends PROVE /\ device'[n].plugged /\ device'[n].bits = bits
                                  /\ \A m \in Nodes \ {n} : device'[m] = device[m]
                                  /\ foreign'[c] = foreign[c] \ {b[1]}
    OBVIOUS
  <2>1. /\ device'[n] = [plugged |-> TRUE, bits |-> bits]
        /\ \A m \in Nodes \ {n} : device'[m] = device[m]
        /\ foreign'[c] = foreign[c] \ {b[1]}
    BY <1>1, DeliverOne
  <2>2. device'[n].plugged = TRUE /\ device'[n].bits = bits
    BY <2>1
  <2>3. QED
    BY <2>1, <2>2
<1> HIDE DEF bits
<1>4. \/ Sends /\ stale' = [stale EXCEPT ![c] = stale[c] \ {b[1]}]
      \/ /\ Sends \/ (device' = device /\ foreign' = foreign)
         /\ stale' = [stale EXCEPT ![c] = stale[c] \cup {b[1]}]
  BY DEF Write
<1> HIDE DEF Sends
<1>10. /\ stale' = [d \in Handles |-> stale'[d]]
       /\ \A d \in Handles \ {c} : stale'[d] = stale[d]
       /\ stale'[c] = stale[c] \ {b[1]} \/ stale'[c] = stale[c] \cup {b[1]}
       /\ b[1] \notin stale'[c] => Sends
  BY <1>4 DEF IntentInv
<1>11. Away'
  <2>1. CASE device' = device
    BY <2>1 DEF Away, IntentInv
  <2>2. CASE Sends
    BY <1>9, <2>2 DEF Away, IntentInv
  <2>3. QED
    BY <1>4, <2>1, <2>2
<1>12. ShownAt(c)'
  <2> SUFFICES ASSUME NEW r \in Reports(n), r \notin stale'[c], r \notin foreign'[c]
               PROVE  InReport(device'[n].bits, r) = InReport(kept, r)
    BY <1>5 DEF ShownAt, Reports, Layout, Nodes
  <2>1. CASE r = b[1]
    <3>1. Sends
      BY <1>10, <2>1
    <3>2. QED
      BY <1>6, <1>9, <2>1, <3>1
  <2>2. CASE r # b[1]
    <3>1. r \notin stale[c] \cup foreign[c]
      BY <1>4, <1>9, <1>10, <2>2
    <3>2. InReport(device[n].bits, r) = InReport(state[c], r)
      BY <3>1 DEF IntentInv, ShownAt
    <3>3. InReport(device'[n].bits, r) = InReport(device[n].bits, r)
      BY <1>4, <1>7, <1>9, <2>2
    <3>4. QED
      BY <1>8, <2>2, <3>2, <3>3
  <2>3. QED
    BY <2>1, <2>2
<1>13. QED
  BY <1>5, <1>10, <1>11, <1>12 DEF kept

\* Of a write that leaves every other handle's wishes alone only those of its own handle matter.
LEMMA WriteKeepsIntent ==
    ASSUME IntentInv, NEW c \in Handles, NEW b, NEW onBit \in BOOLEAN, NEW ok \in BOOLEAN,
           Write(c, b, onBit, ok), UNCHANGED <<outs, selected>>,
           attempt' \in [Handles -> {"idle", "opened", "streaming", "closing"}],
           lit' = [d \in Handles |-> lit'[d]], \A d \in Handles : lit'[d] \in BOOLEAN,
           \A d \in Handles \ {c} : attempt'[d] = attempt[d] /\ lit'[d] = lit[d],
           TwoBits(c) => Wanted(c)' = IF onBit THEN state[c] \cup {b} ELSE state[c] \ {b}
    PROVE  IntentInv'
<1>1. HandleTypes'
  <2>1. HandleTypes
    BY DEF IntentInv
  <2>2. QED
    BY <2>1, WriteKeepsTypes
<1>2. /\ state'[c] = IF onBit THEN state[c] \cup {b} ELSE state[c] \ {b}
      /\ \A d \in Handles \ {c} : state'[d] = state[d] /\ stale'[d] = stale[d]
      /\ stale' = [d \in Handles |-> stale'[d]]
      /\ Away'
      /\ ShownAt(c)'
  BY ONLY WriteShows, IntentInv, c \in Handles, onBit \in BOOLEAN, ok \in BOOLEAN,
          Write(c, b, onBit, ok)
<1>3. ASSUME NEW d \in Handles, d # c
      PROVE  ShownAt(d)' /\ (TwoBits(d)' => Wanted(d)' = state'[d])
  <2>1. /\ foreign[d] \subseteq foreign'[d]
        /\ \A r : r \notin foreign'[d] =>
              InReport(device'[NodeOf[d]].bits, r) = InReport(device[NodeOf[d]].bits, r)
    <3>1. HandleTypes
      BY DEF IntentInv
    <3>2. QED
      BY <1>3, <3>1, WriteSpares
  <2>2. ShownAt(d) /\ state'[d] = state[d] /\ stale'[d] = stale[d]
    BY <1>2, <1>3 DEF IntentInv
  <2>3. ShownAt(d)'
    <3> SUFFICES ASSUME NEW r \in Reports(NodeOf[d]), r \notin stale'[d], r \notin foreign'[d]
                 PROVE  InReport(device'[NodeOf[d]].bits, r) = InReport(state'[d], r)
      BY DEF ShownAt, Reports, Layout, Nodes
    <3>1. r \notin stale[d] \cup foreign[d]
      BY <2>1, <2>2
    <3>2. InReport(device[NodeOf[d]].bits, r) = InReport(state[d], r)
      BY <2>2, <3>1 DEF ShownAt
    <3>3. QED
      BY <2>1, <2>2, <3>2
  <2>4. Wanted(d)' = Wanted(d) /\ (TwoBits(d)' <=> TwoBits(d))
    BY <1>3 DEF Wanted, TwoBits, HookBit, OffHookPlace, LightBit, Advertised
  <2>5. QED
    BY <2>2, <2>3, <2>4 DEF IntentInv, Intended
<1>4. Intended'
  <2>1. TwoBits(c)' <=> TwoBits(c)
    BY DEF TwoBits, HookBit, OffHookPlace, LightBit, Advertised
  <2>2. QED
    BY <1>2, <1>3, <2>1 DEF Intended
<1>5. QED
  BY <1>1, <1>2, <1>3, <1>4 DEF IntentInv

LEMMA ReopenKeepsIntent ==
    ASSUME IntentInv, NEW c \in Handles, Reopen(c)
    PROVE  IntentInv'
<1>1. NodeOf[c] \in Nodes /\ HandleTypes
  BY DEF Nodes, IntentInv
<1>2. /\ attempt[c] = "idle"
      /\ state' = [state EXCEPT ![c] = {}] /\ stale' = [stale EXCEPT ![c] = Reports(NodeOf[c])]
      /\ lit' = [lit EXCEPT ![c] = FALSE] /\ UNCHANGED <<device, selected>>
  BY DEF Reopen, Free
<1>3. PICK o \in {<<>>, Layout[NodeOf[c]]} : outs' = [outs EXCEPT ![c] = o]
  BY DEF Reopen
<1>4. /\ attempt' \in [Handles -> {"idle", "opened", "streaming", "closing"}]
      /\ attempt'[c] \in {"idle", "opened"} /\ \A d \in Handles \ {c} : attempt'[d] = attempt[d]
  BY <1>1, <1>2 DEF Reopen, HandleTypes
<1>5. /\ outs' \in [Handles -> {<<>>} \cup {Layout[n] : n \in Nodes}]
      /\ \A d \in Handles : outs'[d] \in {<<>>, Layout[NodeOf[d]]}
      /\ \A d \in Handles \ {c} : outs'[d] = outs[d]
  BY <1>1, <1>3 DEF HandleTypes
<1>14. foreign' = [foreign EXCEPT ![c] = {}]
  BY DEF Reopen
<1>6. HandleTypes'
  BY <1>1, <1>2, <1>4, <1>5, <1>14 DEF HandleTypes
<1>7. /\ stale' = [d \in Handles |-> stale'[d]] /\ lit' = [d \in Handles |-> lit'[d]]
      /\ \A d \in Handles \ {c} : stale'[d] = stale[d] /\ lit'[d] = lit[d] /\ state'[d] = state[d]
      /\ stale'[c] = Reports(NodeOf[c]) /\ lit'[c] = FALSE /\ state'[c] = {}
  BY <1>1, <1>2 DEF IntentInv, HandleTypes
<1>8. \A d \in Handles : lit'[d] \in BOOLEAN
  BY <1>7 DEF IntentInv
<1>9. /\ Wanted(c)' = {}
      /\ \A d \in Handles \ {c} : Wanted(d)' = Wanted(d) /\ (TwoBits(d)' <=> TwoBits(d))
  <2>1. Wanted(c)' = {}
    BY <1>4, <1>7 DEF Wanted
  <2>2. ASSUME NEW d \in Handles \ {c}
        PROVE  Wanted(d)' = Wanted(d) /\ (TwoBits(d)' <=> TwoBits(d))
    <3>1. outs'[d] = outs[d] /\ attempt'[d] = attempt[d] /\ lit'[d] = lit[d]
      BY <1>4, <1>5, <1>7
    <3>2. /\ HookBit(d)' = HookBit(d) /\ LightBit(d)' = LightBit(d)
          /\ TwoBits(d)' <=> TwoBits(d)
      BY <3>1, SameControls
    <3>3. QED
      BY <3>1, <3>2 DEF Wanted
  <2>3. QED
    BY <2>1, <2>2
<1>10. Intended'
  BY <1>7, <1>9 DEF Intended, IntentInv
<1>11. \A d \in Handles : ShownAt(d)'
  <2>1. ShownAt(c)'
    BY <1>7 DEF ShownAt
  <2>2. ASSUME NEW d \in Handles \ {c}
        PROVE  ShownAt(d)'
    <3>1. ShownAt(d) /\ device' = device /\ state'[d] = state[d] /\ stale'[d] = stale[d]
      BY <1>2, <1>7 DEF IntentInv
    <3>2. foreign'[d] = foreign[d]
      BY <1>1, <1>14 DEF HandleTypes
    <3>3. QED
      BY <3>1, <3>2 DEF ShownAt
  <2>3. QED
    BY <2>1, <2>2
<1>12. Away'
  BY <1>2 DEF Away, IntentInv
<1>13. QED
  BY <1>6, <1>7, <1>8, <1>10, <1>11, <1>12 DEF IntentInv

LEMMA HookKeepsIntent ==
    ASSUME IntentInv, NEW c \in Handles, TakeOffHook(c) \/ PutOnHook(c)
    PROVE  IntentInv'
<1>1. PICK onBit \in BOOLEAN, ok \in BOOLEAN :
        /\ Write(c, HookBit(c), onBit, ok)
        /\ \E a \in {"idle", "streaming", "closing"} :
              attempt' = [attempt EXCEPT ![c] = a] /\ (onBit <=> a # "idle")
        /\ onBit <=> attempt[c] = "opened"
        /\ ~onBit => attempt[c] = "closing"
  <2>1. CASE TakeOffHook(c)
    <3>1. PICK ok \in BOOLEAN :
            /\ Write(c, HookBit(c), TRUE, ok)
            /\ attempt' = [attempt EXCEPT ![c] = IF ok THEN "streaming" ELSE "closing"]
      BY <2>1 DEF TakeOffHook
    <3>2. attempt[c] = "opened"
      BY <2>1 DEF TakeOffHook
    <3>3. QED
      BY <3>1, <3>2
  <2>2. CASE PutOnHook(c)
    <3>1. PICK ok \in BOOLEAN : Write(c, HookBit(c), FALSE, ok)
      BY <2>2 DEF PutOnHook
    <3>2. attempt[c] = "closing" /\ attempt' = [attempt EXCEPT ![c] = "idle"]
      BY <2>2 DEF PutOnHook
    <3>3. QED
      BY <3>1, <3>2
  <2>3. QED
    BY <2>1, <2>2
<1>2. UNCHANGED <<outs, selected, lit>>
  BY DEF TakeOffHook, PutOnHook
<1>3. HandleTypes
  BY DEF IntentInv
<1>4. /\ attempt' \in [Handles -> {"idle", "opened", "streaming", "closing"}]
      /\ \A d \in Handles \ {c} : attempt'[d] = attempt[d]
      /\ onBit <=> attempt'[c] \in {"streaming", "closing"}
  BY <1>1, <1>3 DEF HandleTypes
<1>5. /\ lit' = [d \in Handles |-> lit'[d]] /\ \A d \in Handles : lit'[d] \in BOOLEAN
      /\ \A d \in Handles : lit'[d] = lit[d]
  BY <1>2 DEF IntentInv
<1>6. HookBit(c)' = HookBit(c) /\ LightBit(c)' = LightBit(c)
  BY <1>2 DEF HookBit, OffHookPlace, LightBit, Advertised
<1>9. ASSUME TwoBits(c)
      PROVE  Wanted(c)' = IF onBit THEN state[c] \cup {HookBit(c)} ELSE state[c] \ {HookBit(c)}
  <2> DEFINE h == HookBit(c)
             L == IF lit[c] THEN LightBit(c) ELSE {}
  <2>7. HookBit(c) \notin LightBit(c)
    BY <1>3, <1>9, LightIsAnotherBit
  <2>8. state[c] = Wanted(c)
    BY <1>9 DEF IntentInv, Intended
  <2>1. Wanted(c)' = (IF attempt'[c] \in {"streaming", "closing"} THEN {h} ELSE {}) \cup L
    BY <1>5, <1>6 DEF Wanted
  <2>2. state[c] = (IF attempt[c] \in {"streaming", "closing"} THEN {h} ELSE {}) \cup L
    BY <2>8 DEF Wanted
  <2>3. h \notin L
    BY <2>7
  <2> HIDE DEF h, L
  <2>4. CASE onBit
    <3>1. attempt[c] = "opened" /\ attempt'[c] \in {"streaming", "closing"}
      BY <1>1, <1>4, <2>4
    <3>2. Wanted(c)' = {h} \cup L /\ state[c] = L
      BY <2>1, <2>2, <3>1
    <3>3. Wanted(c)' = state[c] \cup {h}
      BY <3>2
    <3>4. QED
      BY <2>4, <3>3 DEF h
  <2>5. CASE ~onBit
    <3>1. attempt[c] = "closing" /\ attempt'[c] \notin {"streaming", "closing"}
      BY <1>1, <1>4, <2>5
    <3>2. Wanted(c)' = L /\ state[c] = {h} \cup L
      BY <2>1, <2>2, <3>1
    <3>3. Wanted(c)' = state[c] \ {h}
      BY <2>3, <3>2
    <3>4. QED
      BY <2>5, <3>3 DEF h
  <2>6. QED
    BY <2>4, <2>5
<1>10. Write(c, HookBit(c), onBit, ok) /\ UNCHANGED <<outs, selected>>
  BY <1>1, <1>2
<1>11. \A d \in Handles \ {c} : attempt'[d] = attempt[d] /\ lit'[d] = lit[d]
  BY <1>4, <1>5
<1>12. QED
  BY ONLY <1>4, <1>5, <1>9, <1>10, <1>11, WriteKeepsIntent, IntentInv, c \in Handles,
          onBit \in BOOLEAN, ok \in BOOLEAN

LEMMA LightKeepsIntent ==
    ASSUME IntentInv, NEW onBit \in BOOLEAN, SetLight(onBit)
    PROVE  IntentInv'
<1>1. PICK b \in LightBit(selected), ok \in BOOLEAN : Write(selected, b, onBit, ok)
  BY DEF SetLight
<1>2. selected \in Handles /\ HandleTypes
  BY DEF IntentInv, HandleTypes
<1>3. UNCHANGED <<outs, attempt, selected>> /\ lit' = [lit EXCEPT ![selected] = onBit]
  BY DEF SetLight
<1>4. PICK c \in Handles : c = selected
  BY <1>2
<1>5. /\ lit' = [d \in Handles |-> lit'[d]] /\ \A d \in Handles : lit'[d] \in BOOLEAN
      /\ lit'[c] = onBit /\ \A d \in Handles \ {c} : lit'[d] = lit[d]
  BY <1>3, <1>4 DEF IntentInv
<1>6. HookBit(c)' = HookBit(c) /\ LightBit(c)' = LightBit(c)
  BY <1>3 DEF HookBit, OffHookPlace, LightBit, Advertised
<1>7. LightBit(c) = {b}
  BY <1>1, <1>4 DEF LightBit
<1>10. ASSUME TwoBits(c)
       PROVE  Wanted(c)' = IF onBit THEN state[c] \cup {b} ELSE state[c] \ {b}
  <2> DEFINE H == IF attempt[c] \in {"streaming", "closing"} THEN {HookBit(c)} ELSE {}
  <2>7. b # HookBit(c)
    BY <1>2, <1>7, <1>10, LightIsAnotherBit
  <2>8. state[c] = Wanted(c)
    BY <1>10 DEF IntentInv, Intended
  <2>1. Wanted(c)' = H \cup (IF lit'[c] THEN {b} ELSE {})
    BY <1>3, <1>6, <1>7 DEF Wanted
  <2>2. state[c] = H \cup (IF lit[c] THEN {b} ELSE {})
    BY <1>7, <2>8 DEF Wanted
  <2>3. b \notin H
    BY <2>7
  <2> HIDE DEF H
  <2>4. CASE onBit
    BY <1>5, <2>1, <2>2, <2>4
  <2>5. CASE ~onBit
    BY <1>5, <2>1, <2>2, <2>3, <2>5
  <2>6. QED
    BY <2>4, <2>5
<1>11. Write(c, b, onBit, ok) /\ UNCHANGED <<outs, selected>>
  BY <1>1, <1>3, <1>4
<1>12. /\ attempt' \in [Handles -> {"idle", "opened", "streaming", "closing"}]
       /\ \A d \in Handles \ {c} : attempt'[d] = attempt[d] /\ lit'[d] = lit[d]
  BY <1>2, <1>3, <1>5 DEF HandleTypes
<1>13. QED
  BY ONLY <1>5, <1>10, <1>11, <1>12, WriteKeepsIntent, IntentInv, c \in Handles,
          onBit \in BOOLEAN, ok \in BOOLEAN

LEMMA CableKeepsIntent ==
    ASSUME IntentInv, NEW n \in Nodes, Unplug(n) \/ Plug(n)
    PROVE  IntentInv'
<1>1. HandleTypes
  BY DEF IntentInv
<1>2. /\ UNCHANGED <<outs, state, selected, lit, foreign>>
      /\ device' = [m \in Nodes |-> device'[m]]
      /\ \A m \in Nodes \ {n} : device'[m] = device[m]
      /\ \E p \in BOOLEAN : device'[n] = [plugged |-> p, bits |-> {}]
  BY <1>1 DEF Unplug, Plug, HandleTypes
<1>3. /\ attempt' \in [Handles -> {"idle", "opened", "streaming", "closing"}]
      /\ \A d \in Handles :
            attempt'[d] \in {"streaming", "closing"} <=> attempt[d] \in {"streaming", "closing"}
  <2>1. CASE Unplug(n)
    BY <1>1, <2>1 DEF Unplug, HandleTypes
  <2>2. CASE Plug(n)
    BY <1>1, <2>2 DEF Plug, HandleTypes
  <2>3. QED
    BY <2>1, <2>2
<1>4. \A m \in Nodes :
        /\ device'[m] = [plugged |-> device'[m].plugged, bits |-> device'[m].bits]
        /\ device'[m].plugged \in BOOLEAN
  <2>1. TAKE m \in Nodes
  <2>2. CASE m = n
    BY <1>2, <2>2
  <2>3. CASE m # n
    BY <1>1, <1>2, <2>3 DEF HandleTypes
  <2>4. QED
    BY <2>2, <2>3
<1>5. HandleTypes'
  BY <1>1, <1>2, <1>3, <1>4 DEF HandleTypes
<1>6. \A d \in Handles : Wanted(d)' = Wanted(d) /\ (TwoBits(d)' <=> TwoBits(d))
  BY <1>2, <1>3 DEF Wanted, TwoBits, HookBit, OffHookPlace, LightBit, Advertised
<1>7. Intended'
  BY <1>2, <1>6 DEF Intended, IntentInv
<1>8. device'[n].bits = {}
  BY <1>2
<1>9. Away'
  BY <1>2, <1>8 DEF Away, IntentInv
<1>10. /\ stale' = [d \in Handles |-> stale'[d]]
       /\ \A d \in Handles : NodeOf[d] # n => stale'[d] = stale[d]
       /\ \A d \in Handles : NodeOf[d] = n =>
             stale'[d] = Reports(n) \/ (device'[n].bits = device[n].bits /\ stale'[d] = stale[d])
  <2>1. CASE Unplug(n)
    BY <2>1 DEF Unplug
  <2>2. CASE Plug(n)
    <3>1. device[n].bits = {}
      BY <2>2 DEF Plug, Away, IntentInv
    <3>2. QED
      BY <1>8, <2>2, <3>1 DEF Plug, IntentInv
  <2>3. QED
    BY <2>1, <2>2
<1>11. ASSUME NEW d \in Handles
       PROVE  ShownAt(d)'
  <2>1. /\ ShownAt(d) /\ NodeOf[d] \in Nodes
        /\ state'[d] = state[d] /\ foreign'[d] = foreign[d]
    BY <1>2 DEF IntentInv, Nodes
  <2>2. CASE NodeOf[d] # n
    BY <1>2, <1>10, <2>1, <2>2 DEF ShownAt
  <2>3. CASE NodeOf[d] = n
    BY <1>10, <2>1, <2>3 DEF ShownAt
  <2>4. QED
    BY <2>2, <2>3
<1>12. QED
  BY <1>2, <1>5, <1>7, <1>9, <1>10, <1>11 DEF IntentInv

LEMMA QuietKeepsIntent ==
    ASSUME IntentInv, UNCHANGED <<outs, state, device, lit, stale, foreign>>, selected' \in Handles,
           attempt' \in [Handles -> {"idle", "opened", "streaming", "closing"}],
           \A d \in Handles :
               attempt'[d] \in {"streaming", "closing"} <=> attempt[d] \in {"streaming", "closing"}
    PROVE  IntentInv'
<1>1. HandleTypes'
  BY DEF HandleTypes, IntentInv
<1>2. \A d \in Handles : Wanted(d)' = Wanted(d) /\ (TwoBits(d)' <=> TwoBits(d))
  BY DEF Wanted, TwoBits, HookBit, OffHookPlace, LightBit, Advertised
<1>3. Intended' /\ Away'
  BY <1>2 DEF Intended, Away, IntentInv
<1>4. \A d \in Handles : ShownAt(d)'
  BY DEF ShownAt, IntentInv
<1>5. QED
  BY <1>1, <1>3, <1>4 DEF IntentInv

\* After a write that succeeded, and until the handle of another choice on the same node sends
\* the report, a device shows both controls as they were last asked for, those included whose own
\* write had failed: whatever the order of captures, light and cable, for any number of microphones
\* and failures, any nodes, and any firmware whose light is not the off-hook bit itself.
THEOREM DevicesShowIntent == Spec => []DeviceShowsIntent
<1>1. Init => IntentInv
  BY IntentStarts
<1>2. IntentInv /\ [Next]_vars => IntentInv'
  <2> SUFFICES ASSUME IntentInv, [Next]_vars
               PROVE  IntentInv'
    OBVIOUS
  <2>1. HandleTypes
    BY DEF IntentInv
  <2>2. ASSUME NEW c \in Handles, CaptureEnds(c) \/ Select(c)
        PROVE  IntentInv'
    <3>1. /\ UNCHANGED <<outs, state, device, lit, stale, foreign>> /\ selected' \in Handles
          /\ attempt' \in [Handles -> {"idle", "opened", "streaming", "closing"}]
          /\ \A d \in Handles :
                attempt'[d] \in {"streaming", "closing"} <=> attempt[d] \in {"streaming", "closing"}
      BY <2>1, <2>2 DEF CaptureEnds, Select, HandleTypes
    <3>2. QED
      BY <3>1, QuietKeepsIntent
  <2>3. ASSUME UNCHANGED <<outs, state, device, attempt, selected, lit, stale, foreign>>
        PROVE  IntentInv'
    <3>1. selected' \in Handles /\ attempt' \in [Handles -> {"idle", "opened", "streaming", "closing"}]
      BY <2>1, <2>3 DEF HandleTypes
    <3>2. QED
      BY <2>3, <3>1, QuietKeepsIntent
  <2>4. Speaker!PlayerNext => UNCHANGED selected
    BY DEF Speaker!PlayerNext, Speaker!Ask, Speaker!Cancel, Speaker!TakeTurn, Speaker!GiveUp,
           Speaker!Route, Speaker!Launch, Speaker!Ends, Speaker!Finish
  <2>5. HidNext => IntentInv'
    BY <2>2, ReopenKeepsIntent, HookKeepsIntent, LightKeepsIntent, CableKeepsIntent DEF HidNext
  <2>6. QED
    BY <2>3, <2>4, <2>5 DEF Next, vars, hidVars
<1>3. IntentInv => DeviceShowsIntent
  BY DEF IntentInv, Intended, ShownAt, DeviceShowsIntent
<1>4. QED
  BY <1>1, <1>2, <1>3, PTL DEF Spec
=============================================================================

------------------------------ MODULE Request ------------------------------
(***************************************************************************)
(* One request (internal/session/session.go: ApplyPlan, ApplyActions): the *)
(* planner's actions are sent to the drivers one after the other, and what *)
(* is spoken in the end is what the devices answered and what the proposal *)
(* store saved, not what the planner said.  The request may be cancelled   *)
(* at any moment, any step may fail, and people use the same devices.  It  *)
(* begins when the planner has answered (HandleText), or with a plan given *)
(* to `voice execute`, which nobody has looked at.                         *)
(***************************************************************************)
EXTENDS HomeAssistant, Spotify, Android, LocalDrivers

CONSTANTS
    Plans,          \* what the agent or `voice execute` asks for: sequences of [device, op, arg]
    Idle,           \* configured devices that offer nothing: a phone without agent control
    Kind,           \* the kind of every device
    Namings,        \* ways to name the house: the normalised name of each device configured
    Utterances      \* what is said (module Planner)

VARIABLES
    heard,          \* until the plan is applied: who made it, and ghost, the device that was meant
    plan,           \* the actions of this request
    asks,           \* the plan holds a proposal
    next,           \* the action at hand
    replies,        \* the answers collected so far
    speak,          \* Plan.Speak, as a sequence of parts
    outcome,        \* "new", "running", "done" or "failed"
    met,            \* the goal of the call held at some moment since its command
    finished        \* the actions whose driver returned without an error

requestVars == <<heard, plan, asks, next, replies, speak, outcome, finished>>
worldVars == <<haVars, spotifyVars, androidVars, localVars>>
vars == <<callVars, worldVars, requestVars, met>>

Registry == HaDevices \cup Speakers \cup Phones \cup Lamps \cup Displays \cup Idle

Capabilities(d) ==
    CASE d \in HaDevices -> HaCapabilities(d)
      [] d \in Speakers -> SpotifyOps
      [] d \in Phones -> PhoneCapabilities
      [] d \in Lamps -> LampOps
      [] d \in Displays -> TvOps
      [] d \in Idle -> {}
Supports(d, op) == op \in Capabilities(d)

ASSUME HouseAssumption ==
    /\ \A d \in HaDevices : Kind[d] = Domain[d]
    /\ \A d \in Speakers : Kind[d] = "music"
    /\ \A d \in Phones \cup Idle : Kind[d] = "phone"
    /\ \A d \in Lamps : Kind[d] = "light"
    /\ \A d \in Displays : Kind[d] = "tv"
    /\ \A naming \in Namings : DOMAIN naming \subseteq Registry
    /\ \A p \in Plans : p \in Seq({p[i] : i \in DOMAIN p})

\* An identifier is configured once (config.go:1070), a target occurs in what was said, and
\* of several phones each has a name that can be said.  One phone at most is configured.
ASSUME NamesAssumption ==
    /\ HaDevices \cap Speakers = {} /\ (HaDevices \cup Speakers) \cap Phones = {}
    /\ (HaDevices \cup Speakers \cup Phones) \cap (Lamps \cup Displays \cup Idle) = {}
    /\ \A u \in Utterances : u.target \in u.named
    /\ \A naming \in Namings : \A d, e \in DOMAIN naming :
            Kind[d] = "phone" /\ Kind[e] = "phone" /\ d # e => naming[d] # "none"

P == INSTANCE Planner WITH AgentPlans <- Plans

Inventory(naming) ==
    {[id |-> d, kind |-> Kind[d], name |-> naming[d], caps |-> Capabilities(d)] : d \in DOMAIN naming}

\* The rules, if they are configured, have the first word; Jev and the agent make the plans
\* they do not, and only the agent's may hold a proposal.
NoWords == [by |-> "nobody", meant |-> "none"]
Heard(u, inventory) ==
    IF ~P!Delegated(u, inventory)
      THEN \E meant \in {d.id : d \in P!Meanings(u, inventory)} \cup {"none"} :
             /\ P!Meanings(u, inventory) # {} => meant # "none"
             /\ heard = [by |-> "rules", meant |-> meant]
             /\ plan \in P!RulesPlans(u, inventory)
             /\ asks = FALSE
      ELSE /\ heard = [by |-> "planner", meant |-> "none"]
           /\ \/ plan \in P!JevPlans(inventory) /\ asks = FALSE
              \/ plan \in P!AgentAllowed(inventory) /\ asks \in BOOLEAN

\* What the saved proposal lets Voice say: a note on the state of the request,
\* or that it could not be saved.
Notes == {"saved", "not saved"}

\* A part of a reply that comes from no action of the plan.
Words(w) == [action |-> 0, says |-> w]
Said(parts) == {parts[i].says : i \in {j \in DOMAIN parts : parts[j].action = 0}}
Answering(parts) == {i \in DOMAIN parts : parts[i].action # 0}

Start ==
    /\ outcome = "new"
    /\ IF live
         THEN /\ outcome' = "running"
              /\ IF asks THEN \E n \in Notes : speak' = <<Words(n)>> ELSE UNCHANGED speak
         ELSE outcome' = "failed" /\ UNCHANGED speak
    /\ heard' = NoWords
    /\ UNCHANGED <<callVars, worldVars, plan, asks, next, replies, finished>>

StartAction ==
    /\ outcome = "running" /\ call.at = "idle" /\ next <= Len(plan)
    /\ LET a == plan[next]
       IN IF live /\ a.device \in Registry /\ Supports(a.device, a.op)
            THEN call' = Call(a.device, a.op, a.arg) /\ UNCHANGED outcome
            ELSE outcome' = "failed" /\ UNCHANGED call
    /\ UNCHANGED <<live, changes, worldVars, heard, plan, asks, next, replies, speak, finished>>

(* The answer of one action: the state that was read, or a phone's receipt. *)
Answer(c) ==
    CASE c.op = "read" -> <<[action |-> next, says |-> c.state.state]>>
      [] c.op # "read" /\ c.device \in Phones -> <<[action |-> next, says |-> c.state.receipt]>>
      [] OTHER -> <<>>

EndAction_Onward ==
    /\ outcome = "running" /\ call.at \in {"ok", "failed"}
    /\ IF call.at = "ok"
         THEN replies' = replies \o Answer(call) /\ finished' = Append(finished, next)
         ELSE UNCHANGED <<replies, finished>>
    /\ next' = next + 1
    /\ call' = NoCall
    /\ UNCHANGED <<live, changes, worldVars, heard, plan, asks, speak, outcome>>

EndAction ==
    /\ outcome = "running" /\ call.at \in {"ok", "failed"}
    /\ IF call.at = "ok"
         THEN /\ replies' = replies \o Answer(call)
              /\ finished' = Append(finished, next)
              /\ next' = next + 1
              /\ UNCHANGED outcome
         ELSE outcome' = "failed" /\ UNCHANGED <<replies, finished, next>>
    /\ call' = NoCall
    /\ UNCHANGED <<live, changes, worldVars, heard, plan, asks, speak>>

\* withNote: the answers first, then the note.
Spoken(words, answers) ==
    CASE answers = <<>> -> words
      [] answers # <<>> /\ asks -> answers \o words
      [] OTHER -> answers

Finish ==
    /\ outcome = "running" /\ call.at = "idle" /\ next > Len(plan)
    /\ speak' = Spoken(speak, replies)
    /\ outcome' = "done"
    /\ UNCHANGED <<callVars, worldVars, heard, plan, asks, next, replies, finished>>

Goal(c) ==
    CASE c.device \in HaDevices -> HaGoal(c)
      [] c.device \in Speakers -> SpotifyGoal(c)
      [] c.device \in Phones -> PhoneGoal(c)
      [] OTHER -> TRUE

Concerned == {plan[i].device : i \in DOMAIN plan}

Init ==
    /\ \/ \E naming \in Namings, u \in Utterances : Heard(u, Inventory(naming))
       \/ heard = [by |-> "execute", meant |-> "none"] /\ plan \in Plans /\ asks \in BOOLEAN
    /\ next = 1 /\ replies = <<>> /\ speak = <<Words("planner")>> /\ outcome = "new" /\ finished = <<>>
    /\ call = NoCall /\ live = TRUE /\ changes = 0 /\ met = FALSE
    /\ HaInit /\ SpotifyInit /\ PhoneInit /\ LocalInit
    /\ Concerned \cap Speakers = {} => playback = [on |-> "none", playing |-> FALSE, track |-> 1, volume |-> 95]
    /\ Concerned \cap Phones = {} => phone = [connected |-> TRUE, screen |-> "off", guard |-> "locked", front |-> "app"]

Handler == Start \/ StartAction \/ EndAction \/ Finish

Drivers ==
    /\ \/ HaStep /\ UNCHANGED <<spotifyVars, androidVars, localVars>>
       \/ SpotifyStep /\ UNCHANGED <<haVars, androidVars, localVars>>
       \/ PhoneStep /\ UNCHANGED <<haVars, spotifyVars, localVars>>
       \/ LocalStep /\ UNCHANGED <<haVars, spotifyVars, androidVars>>
       \/ CallFails /\ UNCHANGED worldVars
    /\ UNCHANGED requestVars

People(d) ==
    \/ d \in HaDevices /\ HaPeople(d) /\ UNCHANGED <<spotifyVars, androidVars, localVars>>
    \/ d \in Speakers /\ SpotifyPeople(d) /\ UNCHANGED <<haVars, androidVars, localVars>>
    \/ d \in Phones /\ PhonePeople(d) /\ UNCHANGED <<haVars, spotifyVars, localVars>>
    \/ d \in Lamps \cup Displays /\ LocalPeople(d) /\ UNCHANGED <<haVars, spotifyVars, androidVars>>

\* Devices change while the request runs; what they do after it is no concern.
World ==
    /\ outcome = "running"
    /\ \/ \E d \in Concerned \cap Registry : People(d)
       \/ ServiceEnds /\ UNCHANGED <<spotifyVars, androidVars, localVars>>
       \/ OrderEnds /\ UNCHANGED <<haVars, androidVars, localVars>>
       \/ ScreenComesOn /\ UNCHANGED <<haVars, spotifyVars, localVars>>
    /\ UNCHANGED requestVars

Interrupted == outcome \in {"new", "running"} /\ Cancel /\ UNCHANGED <<worldVars, requestVars>>

Watch == met' = (call'.sent /\ ((call.sent /\ met) \/ Goal(call)'))

Next == (Handler \/ Drivers \/ World \/ Interrupted) /\ Watch

Spec == Init /\ [][Next]_vars
-----------------------------------------------------------------------------
\* A driver that verifies never reports success for what did not happen: when
\* a Home Assistant, a Spotify or a fast phone action returns without an error,
\* its goal held at some moment after its command was sent, whatever people did
\* meanwhile, however late a command took effect, and whatever else the phone
\* printed (device.go:72-74; homeassistant.go:283; android_quick.go:113-133).
\* A skip from a track Spotify did not name is the exception (spotify.go:310).
EffectWasReal == call.at = "ok" /\ call.sent => met

\* What the rules carry out without asking anybody is done to the one device the words can
\* mean: not to the first of two whose names read alike, nor to the phone that happens to be
\* able when another one is configured (rules.go:57-61, phone_rules.go:53).
ActsOnMeant == heard.by = "rules" => \A i \in DOMAIN plan : plan[i].device = heard.meant

\* Voice takes playback from nobody: a pause, a skip or a volume change acts on
\* another device, and playback starts there, only when somebody moved playback
\* after Voice had looked; and a pause or a volume change never starts music
\* (spotify.go:142-145, 186-187).
PlaybackRespected ==
    \A r \in reached :
        /\ r.hit = Other /\ (LeavesOthers(r.by) \/ r.op # "connect") => r.moved
        /\ r.by \in {"pause"} \cup VolumeOps => ~r.starts

\* What is spoken was earned: a request that failed on one of several actions
\* speaks none of their answers; one that was carried out had every action end
\* without an error, in order; then each reading and each phone action is
\* answered by its own device, and the planner's words are spoken only when no
\* device answered and no proposal was made (session.go:99-101, 189-191).
ReplyIsEarned ==
    /\ outcome = "failed" => Answering(speak) = {}
    /\ outcome = "done" =>
        LET answered == {i \in DOMAIN plan : plan[i].op = "read" \/ plan[i].device \in Phones}
            own == Answering(speak)
        IN /\ finished = [i \in 1 .. Len(plan) |-> i]
           /\ {speak[i].action : i \in own} = answered /\ Cardinality(own) = Cardinality(answered)
           /\ asks <=> Said(speak) \cap Notes # {}
           /\ "planner" \in Said(speak) => ~asks /\ answered = {}
=============================================================================

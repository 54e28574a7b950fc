------------------------------ MODULE Planner ------------------------------
(***************************************************************************)
(* Who answers a transcript, and with which actions (internal/brain): the   *)
(* rules answer complete local commands by themselves, Jev may turn a       *)
(* direct request into one action that needs no argument, and the agent     *)
(* gets everything else.                                                    *)
(*                                                                         *)
(* An inventory is a set of [id, kind, name, caps]; the name is the id as    *)
(* normalise leaves it, and two ids may share one.  A transcript is its      *)
(* form, the operation it asks for, the words of its target ("none" without) *)
(* and `named`, the device names that occur in it:                           *)
(*   "talk"     the time, the date, stop: nothing to do                      *)
(*   "music"    a music command, which names no device                       *)
(*   "quick"    wake, go home or open settings, on a phone                   *)
(*   "command"  a complete command or question about the target             *)
(*   "mention"  anything else                                               *)
(***************************************************************************)
EXTENDS Naturals, FiniteSets, Sequences

CONSTANT
    AgentPlans      \* what the agent may ask for: sequences of [device, op, arg]

ClimateOps == {"temperature", "hvac_mode"}

\* The operations Jev may choose.
JevSafe == {"on", "off", "toggle", "volume_up", "volume_down", "mute",
            "play", "resume", "pause", "next", "previous"}

OfKind(kind, inventory) == {d \in inventory : d.kind = kind}
Named(u, inventory) == {d \in inventory : d.name # "none" /\ d.name \in u.named}

\* The one that is meant, if there is just one.
Only(devices) == {d \in devices : devices = {d}}

\* An action a device does not offer is an error and no plan at all.
ActionPlan(d, op, arg) ==
    IF op \in d.caps THEN {<<[device |-> d.id, op |-> op, arg |-> arg]>>} ELSE {}

Generic(u) == u.target \in {"none", "phone"}

\* Mutant: a phone without the capability is not counted.
QuickTarget_CapableOnly(u, inventory) ==
    LET phones == {d \in OfKind("phone", inventory) : u.op \in d.caps /\ (Generic(u) \/ d.name = u.target)}
    IN {d \in Only(phones) : Named(u, inventory) \subseteq {d}}

\* phoneQuickTarget: the phones are counted before their capabilities, and no other device may
\* be named in the same words.
QuickTarget(u, inventory) ==
    LET phones == {d \in OfKind("phone", inventory) : d.name # "none" /\ (Generic(u) \/ d.name = u.target)}
    IN {d \in Only(phones) : Named(u, inventory) \subseteq {d} /\ u.op \in d.caps}

\* A device whose whole command this is.
Complete(u, d) == u.form = "command" /\ u.target = d.name /\ (u.op \in ClimateOps => d.kind = "climate")

\* Mutant: of the devices that are named, the first one that the command fits is used.
CommandTarget_First(u, inventory) ==
    LET fits == {d \in Named(u, inventory) : Complete(u, d)}
    IN IF fits = {} THEN {} ELSE {CHOOSE d \in fits : TRUE}

CommandTarget(u, inventory) ==
    {d \in Only(Named(u, inventory)) : Complete(u, d)}

Target(u, inventory) ==
    CASE u.form = "music" -> Only(OfKind("music", inventory))
      [] u.form = "quick" -> QuickTarget(u, inventory)
      [] u.form \in {"command", "mention"} -> CommandTarget(u, inventory)
      [] OTHER -> {}

\* Nobody can be meant but several are named: the rules ask, unless a phone is among them.
AsksWhich(u, inventory) ==
    /\ u.form \in {"command", "mention"}
    /\ Cardinality(Named(u, inventory)) > 1
    /\ OfKind("phone", Named(u, inventory)) = {}

\* What the rules do not answer goes to the next planner.
Delegated(u, inventory) ==
    /\ u.form \in {"quick", "command", "mention"}
    /\ Target(u, inventory) = {} /\ ~AsksWhich(u, inventory)

RulesPlans(u, inventory) ==
    IF Target(u, inventory) = {} THEN {<<>>}
    ELSE UNION {ActionPlan(d, u.op, u.arg) : d \in Target(u, inventory)}

\* Jev's model chooses one of the routes it was offered, with confidence.
JevPlans(inventory) == UNION {ActionPlan(d, op, 0) : d \in inventory, op \in JevSafe}

\* Every action of the agent's plan must be offered by a listed device, or none is carried out.
AgentAllowed(inventory) ==
    {p \in AgentPlans :
        \A i \in DOMAIN p : \E d \in inventory : d.id = p[i].device /\ p[i].op \in d.caps}

\* Whom the words can mean.
Meanings(u, inventory) ==
    CASE u.form = "music" -> OfKind("music", inventory)
      [] u.form = "quick" /\ Generic(u) -> OfKind("phone", inventory) \cup Named(u, inventory)
      [] OTHER -> Named(u, inventory)
=============================================================================

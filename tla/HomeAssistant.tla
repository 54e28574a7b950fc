--------------------------- MODULE HomeAssistant ---------------------------
(***************************************************************************)
(* The Home Assistant driver (internal/device/homeassistant.go): one       *)
(* allowlisted entity per device.  Apply looks at the entity, chooses an   *)
(* absolute service call from what it saw, posts it, and then polls the    *)
(* entity until it shows the requested state.  A service call that is      *)
(* accepted takes effect later or never.                                   *)
(***************************************************************************)
EXTENDS Device

CONSTANTS
    HaDevices,      \* the configured entities
    Domain,         \* the domain of each: "light", "switch", "climate" or "lock"
    Operations,     \* the operations the owner listed for each
    ColorModes,     \* supported_color_modes of each light
    HvacModes,      \* hvac_modes of each thermostat
    OneSetpoint,    \* the thermostats that take a single set point
    MinTemp, MaxTemp

ASSUME HaAssumption ==
    /\ \A d \in HaDevices : Domain[d] \in {"light", "switch", "climate", "lock"}
    /\ MinTemp <= MaxTemp

VARIABLES
    entity,         \* what Home Assistant reports of each entity
    services        \* accepted service calls that have not taken effect

haVars == <<entity, services>>

AllowedOps(domain) ==
    {"read"} \cup (IF domain \in {"light", "switch"} THEN {"on", "off", "toggle"} ELSE {})
             \cup (IF domain = "light" THEN {"brightness", "color"} ELSE {})
             \cup (IF domain = "climate" THEN {"temperature", "hvac_mode"} ELSE {})

\* One operation the domain does not allow leaves the device without any.
HaCapabilities(d) ==
    IF Operations[d] \subseteq AllowedOps(Domain[d]) THEN {"read"} \cup Operations[d] ELSE {}

Recognized(domain) ==
    CASE domain \in {"light", "switch"} -> {"on", "off"}
      [] domain = "lock" -> {"locked", "unlocked", "locking", "unlocking", "jammed", "open", "opening"}
      [] domain = "climate" -> {"off", "heat", "cool", "heat_cool", "auto", "dry", "fan_only"}

\* An unavailable or an unrecognized state is an error of the read.
Readable(d) == entity[d].state \in Recognized(Domain[d])

Snapshot(d) == [state |-> entity[d].state]

(* The service call for a command, and what the entity must show after it. *)
Round255(level) == (2 * 255 * level + 100) \div 200
Opposite(state) == IF state = "on" THEN "off" ELSE "on"
Target(op, before) == IF op = "toggle" THEN Opposite(before.state) ELSE op

Refused(d, c, before) ==
    CASE c.op \in {"on", "off", "toggle"} -> before.state \notin {"on", "off"}
      [] c.op = "brightness" -> c.arg \notin 0 .. 100 \/ ColorModes[d] \subseteq {"onoff", "unknown"}
      [] c.op = "color" -> ColorModes[d] \cap {"rgb", "rgbw", "rgbww", "hs", "xy"} = {} \/ c.arg \notin Colors
      [] c.op = "temperature" -> \/ c.arg \notin MinTemp .. MaxTemp
                              \/ d \notin OneSetpoint
                              \/ before.state = "heat_cool"
      [] c.op = "hvac_mode" -> c.arg \notin HvacModes[d] \cap Recognized("climate")

Service(c, before) ==
    CASE c.op \in {"on", "off", "toggle"} -> [name |-> Target(c.op, before), data |-> <<>>]
      [] c.op = "brightness" -> [name |-> "on", data |-> <<"brightness", c.arg>>]
      [] c.op = "color" -> [name |-> "on", data |-> <<"color", c.arg>>]
      [] c.op = "temperature" -> [name |-> "temperature", data |-> <<"temperature", c.arg>>]
      [] c.op = "hvac_mode" -> [name |-> "hvac_mode", data |-> <<"state", c.arg>>]

Matches(c, s) ==
    CASE c.op \in {"on", "off", "toggle"} -> s.state = Target(c.op, c.seen)
      [] c.op = "brightness" -> IF c.arg = 0 THEN s.state = "off"
                                ELSE s.state = "on" /\ s.brightness - Round255(c.arg) \in -1 .. 1
      [] c.op = "color" -> s.state = "on" /\ s.color = c.arg
      [] c.op = "temperature" -> s.temperature = c.arg
      [] c.op = "hvac_mode" -> s.state = c.arg

(* The steps of Apply. *)
HaRead ==
    /\ At(HaDevices, "start") /\ call.op = "read"
    /\ IF Readable(call.device) THEN Returns(Snapshot(call.device)) ELSE Fails
    /\ UNCHANGED <<live, changes, haVars>>

HaLook ==
    /\ At(HaDevices, "start") /\ call.op # "read"
    /\ LET before == entity[call.device]
       IN IF Readable(call.device) /\ ~Refused(call.device, call, before) THEN Saw("post", before) ELSE Fails
    /\ UNCHANGED <<live, changes, haVars>>

\* An error may come back for a service call that Home Assistant accepted.
HaPost_Trusting ==
    /\ At(HaDevices, "post")
    /\ services' = services \cup {<<call.device, Service(call, call.seen)>>}
    /\ \/ call' = [call EXCEPT !.at = "ok", !.sent = TRUE, !.state = Snapshot(call.device)]
       \/ Fails
    /\ UNCHANGED <<live, changes, entity>>
HaPost ==
    /\ At(HaDevices, "post")
    /\ services' = services \cup {<<call.device, Service(call, call.seen)>>}
    /\ Sent("verify") \/ Fails
    /\ UNCHANGED <<live, changes, entity>>

HaVerify ==
    /\ At(HaDevices, "verify")
    /\ CASE ~Readable(call.device) -> Fails
         [] Readable(call.device) /\ Matches(call, entity[call.device]) -> Returns(Snapshot(call.device))
         [] OTHER -> UNCHANGED call
    /\ UNCHANGED <<live, changes, haVars>>

(* Home Assistant and the house. *)
Carried(e, s) ==
    CASE s.name = "off" -> [e EXCEPT !.state = "off"]
      [] s.name = "on" /\ s.data = <<>> -> [e EXCEPT !.state = "on"]
      [] s.name = "on" /\ s.data # <<>> /\ s.data[1] = "brightness" ->
            IF s.data[2] = 0 THEN [e EXCEPT !.state = "off"]
            ELSE [e EXCEPT !.state = "on", !.brightness = (255 * s.data[2]) \div 100]
      [] s.name = "on" /\ s.data # <<>> /\ s.data[1] = "color" -> [e EXCEPT !.state = "on", !.color = s.data[2]]
      [] s.name = "temperature" -> [e EXCEPT !.temperature = s.data[2]]
      [] s.name = "hvac_mode" -> [e EXCEPT !.state = s.data[2]]

ServiceEnds ==
    /\ \E s \in services :
        /\ services' = services \ {s}
        /\ \/ entity' = [entity EXCEPT ![s[1]] = Carried(@, s[2])]
           \/ UNCHANGED entity
    /\ UNCHANGED callVars

HaPeople(d) ==
    /\ Touched
    /\ \E state \in Recognized(Domain[d]) \cup {"unavailable"} :
        /\ Domain[d] = "climate" => state \in HvacModes[d] \cup {"unavailable"}
        /\ Domain[d] = "lock" => state \in {"locked", "jammed", "unavailable"}
        /\ state # entity[d].state
        /\ entity' = [entity EXCEPT ![d].state = state]
    /\ UNCHANGED services

HaInit ==
    /\ entity = [d \in HaDevices |->
                    [state |-> IF Domain[d] = "lock" THEN "locked" ELSE "off",
                     brightness |-> 255, color |-> "white", temperature |-> MinTemp]]
    /\ services = {}

HaStep == HaRead \/ HaLook \/ HaPost \/ HaVerify

HaGoal(c) ==
    LET e == entity[c.device]
    IN CASE c.op \in {"on", "off", "hvac_mode"} -> e.state = (IF c.op = "hvac_mode" THEN c.arg ELSE c.op)
         [] c.op = "toggle" -> {e.state, c.seen.state} = {"on", "off"}
         [] c.op = "brightness" ->
                (e.state = "off" /\ c.arg = 0) \/ (e.state = "on" /\ c.arg > 0 /\ 100 * e.brightness - 255 * c.arg \in -150 .. 150)
         [] c.op = "color" -> e.state = "on" /\ e.color = c.arg
         [] c.op = "temperature" -> e.temperature = c.arg
         [] OTHER -> TRUE
=============================================================================

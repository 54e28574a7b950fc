---------------------------- MODULE LocalDrivers ----------------------------
(***************************************************************************)
(* The two drivers that act and then report whatever they read: Magic Home *)
(* light controllers (internal/device/magichome.go) and HDMI-CEC displays  *)
(* (internal/device/cec.go).  Neither compares the state it reads with the *)
(* command.                                                                *)
(***************************************************************************)
EXTENDS Device

CONSTANTS
    Lamps,          \* the Magic Home controllers
    Displays        \* the CEC displays

VARIABLES
    lamp,           \* each controller: power, and the channels it drives
    tv              \* the power status of each display

localVars == <<lamp, tv>>

LampOps == {"on", "off", "toggle", "color", "brightness", "white"}
TvOps == {"on", "off", "volume_up", "volume_down", "mute"}

\* A level goes to the white channel and clears the colour, whichever of the
\* two operations asked for it.
White(level) == ((IF level = Absent THEN 100 ELSE level) * 255) \div 100
Frame(c, op) ==
    CASE op \in {"on", "off"} -> [power |-> op]
      [] op = "color" -> [color |-> c.arg, white |-> 0]
      [] op \in {"white", "brightness"} -> [color |-> "none", white |-> White(c.arg)]

LampRefuses(c) ==
    \/ c.op \in {"white", "brightness"} /\ c.arg \notin {Absent} \cup 0 .. 100
    \/ c.op = "color" /\ c.arg \notin Colors

LampLook ==
    /\ At(Lamps, "start")
    /\ CASE call.op = "toggle" -> Saw("frame", IF lamp[call.device].power = "on" THEN "off" ELSE "on")
         [] LampRefuses(call) -> Fails
         [] OTHER -> Saw("frame", call.op)
    /\ UNCHANGED <<live, changes, localVars>>

\* The controller does not acknowledge a frame: it may ignore it.
SendFrame ==
    /\ At(Lamps, "frame")
    /\ LET f == Frame(call, call.seen)
           taken == [k \in DOMAIN lamp[call.device] |-> IF k \in DOMAIN f THEN f[k] ELSE lamp[call.device][k]]
       IN lamp' \in {lamp, [lamp EXCEPT ![call.device] = taken]}
    /\ Sent("lamp read") \/ Fails
    /\ UNCHANGED <<live, changes, tv>>

LampRead ==
    /\ At(Lamps, "lamp read")
    /\ Returns(lamp[call.device])
    /\ UNCHANGED <<live, changes, localVars>>

\* One cec-ctl process at a time: cecMu is held by the one call under way.
CecSend ==
    /\ At(Displays, "start")
    /\ tv' \in {tv} \cup {[tv EXCEPT ![call.device] = s] :
                            s \in CASE call.op = "on" -> {"on", "to-on"} [] call.op = "off" -> {"standby"} [] OTHER -> {}}
    /\ \/ IF call.op \in {"on", "off"} THEN Sent("tv read")
          ELSE call' = [call EXCEPT !.at = "ok", !.sent = TRUE, !.state = [command |-> call.op]]
       \/ Fails
    /\ UNCHANGED <<live, changes, lamp>>

CecRead ==
    /\ At(Displays, "tv read")
    /\ Returns([power |-> tv[call.device]])
    /\ UNCHANGED <<live, changes, localVars>>

LocalPeople(d) ==
    /\ Touched
    /\ \/ /\ d \in Lamps
          /\ lamp' = [lamp EXCEPT ![d].power = IF @ = "on" THEN "off" ELSE "on"]
          /\ UNCHANGED tv
       \/ /\ d \in Displays
          /\ tv' = [tv EXCEPT ![d] = IF @ = "standby" THEN "on" ELSE "standby"]
          /\ UNCHANGED lamp

LocalInit ==
    /\ lamp = [d \in Lamps |-> [power |-> "off", color |-> "red", white |-> 0]]
    /\ tv = [d \in Displays |-> "standby"]

LocalStep == LampLook \/ SendFrame \/ LampRead \/ CecSend \/ CecRead
=============================================================================

----------------------------- MODULE MCRequest -----------------------------
(***************************************************************************)
(* A house with one device of each kind, and a second phone that is off    *)
(* limits.                                                                 *)
(***************************************************************************)
EXTENDS Request

MCDomain == [d \in {"lamp", "fan", "hall", "door"} |->
                CASE d = "lamp" -> "light" [] d = "fan" -> "switch" [] d = "hall" -> "climate" [] d = "door" -> "lock"]
MCOperations == [d \in {"lamp", "fan", "hall", "door"} |->
                CASE d = "lamp" -> {"on", "toggle", "brightness", "color"}
                  [] d = "fan" -> {"off", "brightness"}
                  [] d = "hall" -> {"temperature", "hvac_mode"}
                  [] d = "door" -> {"read"}]
MCColorModes == [d \in {"lamp", "fan", "hall", "door"} |-> IF d = "lamp" THEN {"onoff", "rgb"} ELSE {}]
MCHvacModes == [d \in {"lamp", "fan", "hall", "door"} |-> IF d = "hall" THEN {"off", "heat", "heat_cool"} ELSE {}]

Act(d, op, arg) == [device |-> d, op |-> op, arg |-> arg]

Singles ==
    {Act("lamp", op, 0) : op \in {"on", "toggle", "read"}}
    \cup {Act("lamp", "brightness", level) : level \in {0, 1, 50, 101}}
    \cup {Act("lamp", "color", "red"), Act("lamp", "color", "mauve"), Act("fan", "off", 0), Act("door", "read", 0), Act("hall", "read", 0),
          Act("hall", "temperature", 21), Act("hall", "temperature", 31), Act("hall", "hvac_mode", "heat"),
          Act("hall", "hvac_mode", "dry"), Act("door", "on", 0), Act("attic", "on", 0)}
    \cup {Act("music", op, 0) : op \in SpotifyOps \cup {"read"}}
    \cup {Act("music", "volume", 11), Act("music", "volume", 5)}
    \cup {Act("phone", op, 0) : op \in QuickOps \cup {"read", "pause", "mute"}}
    \cup {Act("phone", "open_app", "mail"), Act("phone", "open_app", "bank"), Act("phone", "dial", "digits"),
          Act("phone", "wake", 1)}
    \cup {Act("strip", op, 0) : op \in {"on", "off", "toggle"}}
    \cup {Act("strip", "color", "blue"), Act("strip", "brightness", 50), Act("strip", "color", "mauve"), Act("strip", "white", 101), Act("strip", "white", Absent)}
    \cup {Act("tv", op, 0) : op \in {"on", "off", "mute"}}

Firsts == {Act("lamp", "on", 0), Act("music", "play", 0), Act("phone", "wake", 0), Act("door", "read", 0), Act("strip", "on", 0)}
Seconds == {Act("lamp", "toggle", 0), Act("music", "pause", 0), Act("phone", "home", 0), Act("lamp", "read", 0), Act("tv", "off", 0)}

MCPlans == {<<>>} \cup {<<a>> : a \in Singles} \cup {<<a, b>> : a \in Firsts, b \in Seconds}

House == {"lamp", "fan", "hall", "door", "music", "phone", "strip", "tv"}
MCKind == [d \in House \cup {"old"} |->
              CASE d \in {"music", "tv"} -> d
                [] d \in {"phone", "old"} -> "phone"
                [] d = "strip" -> "light"
                [] OTHER -> MCDomain[d]]

\* Each device by its own name; a second phone; two lights whose names read alike; a name
\* within another; and a fan that is called phone.
OwnName == [d \in House |-> d]
MCNamings ==
    {OwnName, [OwnName EXCEPT !["strip"] = "lamp"], [OwnName EXCEPT !["strip"] = "desk lamp"],
     [OwnName EXCEPT !["fan"] = "phone", !["phone"] = "pixel"],
     [d \in House \cup {"old"} |-> IF d = "phone" THEN "pixel" ELSE d]}

\* The names within a name.
WithinName(target) == IF target = "desk lamp" THEN {"desk lamp", "lamp"} ELSE {target}

Says(form, op, arg, target, others) ==
    [form |-> form, op |-> op, arg |-> arg, target |-> target, named |-> WithinName(target) \cup others]

MCUtterances ==
    {Says("talk", "none", 0, "none", {}), Says("music", "volume", 5, "none", {"music"}), Says("mention", "none", 0, "none", {}),
     Says("mention", "none", 0, "none", {"lamp"}), Says("mention", "none", 0, "none", {"lamp", "fan"}), Says("mention", "none", 0, "none", {"fan", "pixel"})}
    \cup {Says("music", op, 0, "none", {}) : op \in {"play", "pause", "next"}}
    \cup {Says("quick", op, 0, target, {}) : op \in {"wake", "home"}, target \in {"none", "phone", "pixel", "old", "lamp"}}
    \cup {Says("command", op, 0, target, {}) : op \in {"on", "read", "mute"}, target \in {"lamp", "desk lamp", "tv", "phone"}}
    \cup {Says("command", "temperature", 21, target, {}) : target \in {"hall", "lamp"}}
=============================================================================

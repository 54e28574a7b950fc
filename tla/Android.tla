------------------------------ MODULE Android ------------------------------
(***************************************************************************)
(* The phone driver (internal/device/android.go, android_quick.go).  The   *)
(* older operations check the connection and send one request; their       *)
(* receipts claim no more than that.  The fast actions (wake, home,        *)
(* settings) read the phone's own dumps back and claim an outcome, so      *)
(* missing, malformed or ambiguous evidence must be refused.               *)
(***************************************************************************)
EXTENDS Device, SequencesExt

CONSTANTS
    Phones,         \* the configured phones
    PhoneOps,       \* the operations the owner listed
    AgentControl,   \* android.agent_control
    Apps            \* allowlisted app aliases

VARIABLES
    phone,          \* the phone itself
    power           \* the power dump that the driver has read

androidVars == <<phone, power>>

QuickOps == {"wake", "home", "settings"}

PhoneCapabilities == PhoneOps \cup (IF AgentControl THEN QuickOps ELSE {})

(* The evidence.  A dump of the window policy holds flags, the sections of   *)
(* the keyguard delegate and the focus lines, in any number: other services  *)
(* print lines of the same names.                                            *)
Flag_First(window, key, value) ==
    \E i \in DOMAIN window.flags : window.flags[i] = <<key, value>>
Flag(window, key, value) ==
    \E i \in DOMAIN window.flags :
        window.flags[i] = <<key, value>> /\ \A j \in DOMAIN window.flags : window.flags[j][1] = key => j = i

Awake(lines, window) ==
    /\ lines = <<"Awake">>
    /\ \A key \in {"mAwake", "mScreenOnEarly", "mScreenOnFully"} : Flag(window, key, TRUE)

KeyguardUnrestricted(window) ==
    /\ Len(window.keyguard) = 1
    /\ window.keyguard[1] = [showing |-> <<FALSE>>, inputRestricted |-> <<FALSE>>]

Unlocked(window) ==
    /\ \A key \in {"isKeyguardShowing", "mShowingDream", "mDreamingLockscreen"} : Flag(window, key, FALSE)
    /\ KeyguardUnrestricted(window)

\* One exact activity: no resolver, no chooser, no window without a component.
Component(name) == IF name \in {"resolver", "no component"} THEN "nothing" ELSE name
Foreground(window) == IF Len(window.focus) = 1 THEN Component(window.focus[1]) ELSE "nothing"

(* What the phone prints. *)
Policy ==
    <<<<"mAwake", phone.screen # "off">>, <<"mScreenOnEarly", phone.screen # "off">>,
      <<"mScreenOnFully", phone.screen = "on">>, <<"isKeyguardShowing", phone.guard = "locked">>,
      <<"mShowingDream", phone.guard = "dream">>, <<"mDreamingLockscreen", phone.guard = "dream">>>>

Delegate ==
    [showing |-> <<phone.guard = "locked">>, inputRestricted |-> <<phone.guard \in {"locked", "occluded"}>>]

Shown == IF phone.guard \in {"open", "occluded"} THEN phone.front ELSE "no component"

Window == [flags |-> Policy, keyguard |-> <<Delegate>>, focus |-> <<Shown>>]

\* Another service prints a field of the same name, before or after; or a
\* second display has a focus line of its own.
Windows ==
    {Window}
    \cup {[Window EXCEPT !.flags = <<<<key, b>>>> \o @] : key \in {"mAwake", "mScreenOnFully", "mShowingDream"}, b \in BOOLEAN}
    \cup {[Window EXCEPT !.keyguard = <<[showing |-> <<FALSE>>, inputRestricted |-> <<FALSE>>]>> \o @],
          [Window EXCEPT !.keyguard = <<>>],
          [Window EXCEPT !.focus = <<"home">> \o @]}

PowerLines == <<IF phone.screen = "off" THEN "Asleep" ELSE "Awake">>

(* The steps of Apply. *)
BadArgument(c) ==
    CASE c.op = "open_app" -> c.arg \notin Apps
      [] c.op = "dial" -> c.arg # "digits"
      [] OTHER -> c.arg # 0

PhoneStart ==
    /\ At(Phones, "start")
    /\ CASE BadArgument(call) \/ call.op \notin PhoneCapabilities -> Fails
         [] ~BadArgument(call) /\ call.op \in QuickOps -> Goto(IF call.op = "wake" THEN "wake up" ELSE "resolve")
         [] OTHER -> Goto("connection")
    /\ UNCHANGED <<live, changes, androidVars>>

PhoneConnection ==
    /\ At(Phones, "connection")
    /\ CASE ~phone.connected -> Fails
         [] phone.connected /\ call.op = "read" -> Returns([state |-> "connected"])
         [] OTHER -> Goto("send")
    /\ UNCHANGED <<live, changes, androidVars>>

\* The request reaches the phone, or is lost on the way, and the phone may not
\* acknowledge an activity it started.
PhoneSend ==
    /\ At(Phones, "send")
    /\ \/ call' = [call EXCEPT !.at = "ok", !.sent = TRUE, !.state = [receipt |-> <<"sent", call.op>>]]
       \/ Fails
    /\ phone' \in {phone} \cup (IF call.op \in {"open_app", "dial"} THEN {[phone EXCEPT !.front = "app"]} ELSE {})
    /\ UNCHANGED <<live, changes, power>>

Resolve ==
    /\ At(Phones, "resolve")
    /\ \E answer \in {call.op, "resolver"} :
        IF Component(answer) = "nothing" THEN Fails ELSE Saw("wake up", answer)
    /\ UNCHANGED <<live, changes, androidVars>>

WakeUp ==
    /\ At(Phones, "wake up")
    /\ phone' \in {phone, [phone EXCEPT !.screen = IF @ = "off" THEN "coming on" ELSE @]}
    /\ IF call.op = "wake" THEN Sent("power") \/ Fails ELSE Goto("show") \/ Fails
    /\ UNCHANGED <<live, changes, power>>

Show ==
    /\ At(Phones, "show")
    /\ phone' \in {phone, [phone EXCEPT !.front = IF phone.guard = "open" THEN call.seen ELSE @]}
    /\ Sent("power") \/ Fails
    /\ UNCHANGED <<live, changes, power>>

PowerDump ==
    /\ At(Phones, "power")
    /\ power' \in {PowerLines, PowerLines \o PowerLines}
    /\ Goto("window")
    /\ UNCHANGED <<live, changes, phone>>

WindowDump ==
    /\ At(Phones, "window")
    /\ \E w \in Windows :
        IF /\ Awake(power, w)
           /\ call.op # "wake" => Unlocked(w) /\ Foreground(w) = call.seen
          THEN Returns([receipt |-> <<"seen", call.op>>])
          ELSE Fails
    /\ power' = <<>>
    /\ UNCHANGED <<live, changes, phone>>

(* The phone and the person who holds it. *)
ScreenComesOn ==
    /\ phone.screen = "coming on"
    /\ phone' = [phone EXCEPT !.screen = "on"]
    /\ UNCHANGED <<callVars, power>>

PhonePeople(d) ==
    /\ Touched
    /\ phone' \in {[phone EXCEPT !.screen = "off", !.guard = "locked"],
                   [phone EXCEPT !.screen = "on"],
                   [phone EXCEPT !.guard = "open"],
                   [phone EXCEPT !.guard = "occluded", !.front = "app"],
                   [phone EXCEPT !.guard = "dream"],
                   [phone EXCEPT !.front = "home"],
                   [phone EXCEPT !.front = "settings"],
                   [phone EXCEPT !.connected = ~@]} \ {phone}
    /\ UNCHANGED power

PhoneInit ==
    /\ phone \in [connected : {TRUE}, screen : {"off", "on"}, guard : {"open", "locked"}, front : {"app", "settings"}]
    /\ power = <<>>

PhoneStep == PhoneStart \/ PhoneConnection \/ PhoneSend \/ Resolve \/ WakeUp \/ Show \/ PowerDump \/ WindowDump

PhoneGoal(c) ==
    CASE c.op = "wake" -> phone.screen = "on"
      [] c.op \in {"home", "settings"} -> phone.screen = "on" /\ phone.guard = "open" /\ phone.front = c.op
      [] OTHER -> TRUE
=============================================================================

------------------------------ MODULE Spotify ------------------------------
(***************************************************************************)
(* The Spotify driver (internal/device/spotify.go): commands for a daemon  *)
(* on this machine, while the account's playback may be on somebody's      *)
(* phone.  Only play and resume may take playback over; a pause, a skip    *)
(* and a volume change must leave the other device alone.  The daemon's    *)
(* commands return before they take effect, and they act on whatever       *)
(* device is then active.                                                  *)
(***************************************************************************)
EXTENDS Device

CONSTANTS
    Speakers        \* the configured Spotify devices

Other == "another device"
ASSUME SpotifyAssumption == Other \notin Speakers /\ "none" \notin Speakers

VARIABLES
    playback,       \* the account: the active device, playing, track and volume
    orders,         \* daemon commands that have not taken effect
    moves,          \* how often somebody moved playback to another device
    reached         \* what the commands did: op, device it reached, moves since the look

spotifyVars == <<playback, orders, moves, reached>>

SpotifyOps == {"play", "resume", "pause", "next", "previous", "volume", "volume_up", "volume_down"}
VolumeOps == {"volume", "volume_up", "volume_down"}

Silent == [on |-> "none", playing |-> FALSE, track |-> 0, volume |-> 0]

Active == playback.on # "none"
OnTarget == playback.on = call.device

\* Read: with nothing active there is neither a track nor a volume to report.
Report == IF Active THEN playback ELSE Silent

LeavesOthers(op) == op \notin {"play", "resume"}
NeedsTarget_Always(op) == TRUE
NeedsTarget(op) == op # "pause"

Look(step) == Saw(step, [on |-> Report.on, track |-> Report.track, volume |-> Report.volume, moves |-> moves])

(* Apply: the look, the connection, the command, the check. *)
SpotifyLook ==
    /\ At(Speakers, "start")
    /\ CASE call.op \in VolumeOps /\ ~Active -> Fails
         [] Active /\ ~OnTarget /\ LeavesOthers(call.op) -> Fails
         [] OTHER -> Look(IF ~OnTarget /\ NeedsTarget(call.op) THEN "connect" ELSE "command")
    /\ UNCHANGED <<live, changes, spotifyVars>>

\* An order keeps the look it was given on, for the properties.
Order(op, volume) == [op |-> op, for |-> call.device, by |-> call.op, volume |-> volume, looked |-> call.seen.moves]

Connect ==
    /\ At(Speakers, "connect")
    /\ orders' = Append(orders, Order("connect", 0))
    /\ Goto("wait") \/ Fails
    /\ UNCHANGED <<live, changes, playback, moves, reached>>

WaitForDevice_Once ==
    /\ At(Speakers, "wait")
    /\ Look("command")
    /\ UNCHANGED <<live, changes, spotifyVars>>
WaitForDevice ==
    /\ At(Speakers, "wait")
    /\ IF OnTarget THEN Look("command") ELSE UNCHANGED call
    /\ UNCHANGED <<live, changes, spotifyVars>>

Volume(c) ==
    CASE c.op = "volume" -> c.arg * 10
      [] c.op = "volume_up" -> Min({100, c.seen.volume + 10})
      [] c.op = "volume_down" -> Max({0, c.seen.volume - 10})
      [] OTHER -> -1

CommandArgsFail(c) ==
    \/ c.op = "volume" /\ c.arg \notin 0 .. 10
    \/ c.op \in {"volume_up", "volume_down"} /\ c.seen.on = "none"

Command ==
    /\ At(Speakers, "command")
    /\ IF CommandArgsFail(call)
         THEN Fails /\ UNCHANGED orders
         ELSE /\ orders' = Append(orders, Order(call.op, Volume(call)))
              /\ Sent("check") \/ Fails
    /\ UNCHANGED <<live, changes, playback, moves, reached>>

\* What waitForApplied accepts.  A skip from an unknown track is not checked.
Applied(c) ==
    CASE c.op = "pause" -> ~Report.playing
      [] c.op \in {"play", "resume"} -> Report.playing
      [] c.op \in {"next", "previous"} -> c.seen.track = 0 \/ Report.track \notin {0, c.seen.track}
      [] c.op \in VolumeOps -> Report.volume = Volume(c)

WaitForApplied ==
    /\ At(Speakers, "check")
    /\ IF Applied(call) THEN Returns(Report) ELSE UNCHANGED call
    /\ UNCHANGED <<live, changes, spotifyVars>>

(* The account. *)
\* A connection resumes what was paused, or does not.
Carry(o) ==
    CASE o.op = "connect" -> {[playback EXCEPT !.on = o.for, !.playing = p, !.track = 1] : p \in {playback.playing, TRUE}}
      [] o.op \in {"play", "resume"} -> {[playback EXCEPT !.playing = TRUE]}
      [] o.op = "pause" -> {[playback EXCEPT !.playing = FALSE]}
      [] o.op \in {"next", "previous"} -> {[playback EXCEPT !.track = t] : t \in {1, 2} \ {playback.track}}
      [] OTHER -> {[playback EXCEPT !.volume = o.volume]}

OrderEnds ==
    /\ orders # <<>>
    /\ LET o == Head(orders)
       IN \/ /\ o.op = "connect" \/ Active
             /\ playback' \in Carry(o)
             /\ reached' = reached \cup
                    {[op |-> o.op, by |-> o.by, hit |-> IF o.op = "connect" THEN playback.on ELSE playback'.on,
                      for |-> o.for, moved |-> moves > o.looked,
                      starts |-> playback'.playing /\ ~playback.playing]}
          \/ UNCHANGED <<playback, reached>>
    /\ orders' = Tail(orders)
    /\ UNCHANGED <<callVars, moves>>

SpotifyPeople(d) ==
    /\ Touched
    /\ \/ /\ playback' \in {[playback EXCEPT !.on = o, !.playing = o # "none", !.track = 1] : o \in {d, Other, "none"} \ {playback.on}}
          /\ moves' = moves + 1
       \/ /\ Active
          /\ playback' \in {[playback EXCEPT !.playing = ~@], [playback EXCEPT !.volume = 50]}
          /\ UNCHANGED moves
    /\ UNCHANGED <<orders, reached>>

SpotifyInit ==
    /\ playback \in [on : Speakers \cup {Other, "none"}, playing : BOOLEAN, track : {1}, volume : {95}]
    /\ orders = <<>>
    /\ moves = 0
    /\ reached = {}

SpotifyStep == SpotifyLook \/ Connect \/ WaitForDevice \/ Command \/ WaitForApplied

SpotifyGoal(c) ==
    CASE c.op = "pause" -> ~Report.playing
      [] c.op \in {"play", "resume"} -> Report.playing
      [] c.op \in {"next", "previous"} -> c.seen.track # 0 => Report.track # c.seen.track
      [] c.op = "volume" -> Report.volume = 10 * c.arg
      [] c.op = "volume_up" -> Report.volume > c.seen.volume \/ Report.volume = 100
      [] c.op = "volume_down" -> Report.volume < c.seen.volume \/ Report.volume = 0
=============================================================================

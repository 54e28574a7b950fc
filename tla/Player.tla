------------------------------- MODULE Player -------------------------------
(***************************************************************************)
(* The speaker: every sound of Voice waits for its turn (SerialPlayer),    *)
(* goes to the player of the selected choice (RoutedPlayer) and runs one   *)
(* command there (CommandPlayer).  Stop, which nothing calls, finds the    *)
(* command through the fields active and cmd.                              *)
(***************************************************************************)
EXTENDS Naturals

CONSTANTS
    Sounds,      \* callers with something to play
    PlayerOf,    \* the player of each capture choice; fallbacks may share one
    Nobody

VARIABLES
    selected,    \* the choice the capture loop selected
    caller,      \* what each sound is doing
    cancelled,   \* sounds whose context is done
    turn,        \* the owner of the one slot of SerialPlayer.turn
    active,      \* RoutedPlayer.active
    cmd,         \* CommandPlayer.cmd of each player
    on           \* the player each sound was routed to

playerVars == <<caller, cancelled, turn, active, cmd, on>>

Players == {PlayerOf[c] : c \in DOMAIN PlayerOf}

Ask(s) ==
    /\ caller[s] = "away" /\ caller' = [caller EXCEPT ![s] = "waiting"]
    /\ UNCHANGED <<cancelled, turn, active, cmd, on, selected>>

Cancel(s) ==
    /\ caller[s] # "away" /\ s \notin cancelled /\ cancelled' = cancelled \cup {s}
    /\ UNCHANGED <<caller, turn, active, cmd, on, selected>>

\* Bug: the turn is a counter of two.
TakeTurn_Shared(s) ==
    /\ caller[s] = "waiting" /\ s \notin cancelled /\ turn' = s
    /\ caller' = [caller EXCEPT ![s] = "turn"]
    /\ UNCHANGED <<cancelled, active, cmd, on, selected>>

TakeTurn(s) ==
    /\ caller[s] = "waiting" /\ s \notin cancelled /\ turn = Nobody /\ turn' = s
    /\ caller' = [caller EXCEPT ![s] = "turn"]
    /\ UNCHANGED <<cancelled, active, cmd, on, selected>>

\* The select may take the turn of a sound that is cancelled: it gives it back.
GiveUp(s) ==
    /\ caller[s] = "waiting" /\ s \in cancelled
    /\ caller' = [caller EXCEPT ![s] = "away"] /\ cancelled' = cancelled \ {s}
    /\ UNCHANGED <<turn, active, cmd, on, selected>>

\* RoutedPlayer.play, up to its unlock.
Route(s) ==
    /\ caller[s] = "turn" /\ caller' = [caller EXCEPT ![s] = "routed"]
    /\ active' = PlayerOf[selected] /\ on' = [on EXCEPT ![s] = PlayerOf[selected]]
    /\ UNCHANGED <<cancelled, turn, cmd, selected>>

\* The field is set, and the command starts unless its context is done.
Launch(s) ==
    /\ caller[s] = "routed"
    /\ cmd' = [cmd EXCEPT ![on[s]] = s]
    /\ caller' = [caller EXCEPT ![s] = IF s \in cancelled THEN "over" ELSE "playing"]
    /\ UNCHANGED <<cancelled, turn, active, on, selected>>

\* The command ends by itself, fails or is killed with its context.
Ends(s) ==
    /\ caller[s] = "playing" /\ caller' = [caller EXCEPT ![s] = "over"]
    /\ UNCHANGED <<cancelled, turn, active, cmd, on, selected>>

\* cmd and active are cleared, and only then is the turn given back.
Finish(s) ==
    /\ caller[s] = "over" /\ caller' = [caller EXCEPT ![s] = "away"]
    /\ cmd' = [cmd EXCEPT ![on[s]] = Nobody] /\ active' = Nobody /\ turn' = Nobody
    /\ on' = [on EXCEPT ![s] = Nobody] /\ cancelled' = cancelled \ {s}
    /\ UNCHANGED selected

PlayerInit ==
    /\ caller = [s \in Sounds |-> "away"] /\ cancelled = {} /\ turn = Nobody
    /\ active = Nobody /\ cmd = [p \in Players |-> Nobody]
    /\ on = [s \in Sounds |-> Nobody]

PlayerNext ==
    \E s \in Sounds :
        \/ Ask(s) \/ Cancel(s) \/ TakeTurn(s) \/ GiveUp(s) \/ Route(s)
        \/ Launch(s) \/ Ends(s) \/ Finish(s)

\* One sound at a time in the room, on one speaker, and the two fields through
\* which Stop would reach it name that very sound, however the microphone (and
\* its speaker) changes and requests are cancelled around it.
OneSound ==
    \A s \in Sounds : caller[s] = "playing" =>
        /\ active = on[s] /\ cmd[on[s]] = s
        /\ \A o \in Sounds \ {s} : caller[o] # "playing"
=============================================================================

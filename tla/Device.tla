------------------------------- MODULE Device -------------------------------
(***************************************************************************)
(* The contract of every driver (internal/device/device.go): a call is one *)
(* command for one device, it talks to the device in several steps, and it *)
(* ends with a state or an error.  The drivers extend this module and each *)
(* adds the device it talks to and the steps of its own Apply.             *)
(*                                                                         *)
(* One call is under way at a time: ApplyActions runs them in order.       *)
(***************************************************************************)
EXTENDS Integers, Sequences, FiniteSets, FiniteSetsExt

CONSTANTS
    MaxChanges      \* bound: what people and the devices do by themselves

ASSUME ChangesAssumption == MaxChanges \in Nat

VARIABLES
    call,           \* the driver call under way, or the last one
    live,           \* the request's context has not been cancelled
    changes         \* how often somebody else touched a device

callVars == <<call, live, changes>>

\* "seen" is what the driver remembers of its first look at the device, "state"
\* what it hands back.
Call(d, op, arg) ==
    [device |-> d, op |-> op, arg |-> arg, at |-> "start", seen |-> <<>>, sent |-> FALSE, state |-> <<>>]

NoCall == [device |-> "none", op |-> "none", arg |-> 0, at |-> "idle", seen |-> <<>>, sent |-> FALSE, state |-> <<>>]

\* Colours are named; a level that the command does not carry is Absent.
Colors == {"red", "green", "blue", "purple", "orange", "yellow", "cyan", "pink", "white"}
Absent == -1

Ended(c) == c.at \in {"idle", "ok", "failed"}

\* A driver at one of its steps, with the context still alive: every request,
\* subprocess and connection is made under it.
At(ds, step) == live /\ call.device \in ds /\ call.at = step

Goto(step) == call' = [call EXCEPT !.at = step]
Saw(step, what) == call' = [call EXCEPT !.at = step, !.seen = what]
Sent(step) == call' = [call EXCEPT !.at = step, !.sent = TRUE]
Returns(state) == call' = [call EXCEPT !.at = "ok", !.state = state]
Fails == call' = [call EXCEPT !.at = "failed"]

\* Any step may end in an error: the connection, the deadline, the exit status,
\* the decoding, or the cancelled context.
CallFails ==
    /\ ~Ended(call)
    /\ Fails
    /\ UNCHANGED <<live, changes>>

\* The request is cancelled: a shutdown, a stop command, a deadline above it.
Cancel == live /\ live' = FALSE /\ UNCHANGED <<call, changes>>

\* Somebody uses the device in another way.
Touched == changes < MaxChanges /\ changes' = changes + 1 /\ UNCHANGED <<call, live>>
=============================================================================

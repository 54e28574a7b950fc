---------------------------- MODULE TimersShared ----------------------------
(***************************************************************************)
(* The timers of module Timers with a second process on the same database: *)
(* every `voice` command builds an assistant before it looks at what it    *)
(* was asked (cmd/voice/main.go), and building one runs timer.New          *)
(* (internal/session/build.go), which loads the table and consumes what is *)
(* due.  Only the listener announces.                                      *)
(***************************************************************************)
EXTENDS Timers

VARIABLE command  \* {}, or {S} once the command has loaded the set S

CommandLoads ==
  /\ command = {} /\ command' = {disk}
  /\ UNCHANGED vars

\* The whole table is rewritten from what the command loaded.
CommandConsumes ==
  /\ command' = {}
  /\ \E S \in command :
       IF DueIn(S) = {} THEN UNCHANGED <<disk, consumed>>
       ELSE /\ disk' = Remaining(S)
            /\ consumed' = consumed \cup
                 {[uid |-> o.uid, at |-> o.at, when |-> now] : o \in Taken(S)}
  /\ UNCHANGED <<now, up, timers, nextID, retryAfter, goroutine, changed, queues, counts,
                 settled, unread, cancelled>>

SharedInit == Init /\ command = {}
SharedNext == (Next /\ UNCHANGED command) \/ CommandLoads \/ CommandConsumes
SharedSpec == SharedInit /\ [][SharedNext]_<<vars, command>>

\* README.md:568: a timer that came due while Voice was off is reported, exactly once.  What
\* was taken out of the table is announced, on its way, lost with the process that took it or
\* with a voice that failed, or still to be taken by the listener.
MissedIsReported == NothingSwallowed
=============================================================================

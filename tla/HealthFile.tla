----------------------------- MODULE HealthFile -----------------------------
(***************************************************************************)
(* `voice health`: the snapshot that the service's listener publishes      *)
(* (internal/health/file.go) and another process reads.  A second listener *)
(* of the account shares the path; listeners crash, their identity is a    *)
(* process number and a start time, and numbers are used again.            *)
(***************************************************************************)
EXTENDS Health

CONSTANTS
    MaxStarts      \* bound: processes started in all

ASSUME FileAssumption == MaxStarts \in Nat

\* Process numbers; the service's main process has the first.
Pids == {"main", "other"}
Nothing == [start |-> 0]

VARIABLES
    proc,      \* of each number: what runs under it, and since which start
    lock,      \* the holder of the flock on path.lock, or ""
    file,      \* the snapshot at path and its age, or Nothing
    reader,    \* `voice health`: "idle", or the snapshot it has read
    verdict,   \* its last answer: "none", "unverified", "problem" or "healthy"
    starts

fileVars == <<proc, lock, file, reader, verdict, starts>>
vars == <<monitorVars, fileVars>>

\* Only the main process has its monitor modelled: the other's snapshots are fine.
Snap(p) ==
    [pid |-> p, start |-> proc[p].start, seconds |-> 0,
     problem |-> IF p = "main" THEN Problem ELSE FALSE]

Doing(p, what) == proc' = [proc EXCEPT ![p].does = what]
Released(p) == IF lock = p THEN "" ELSE lock

\* A process takes its monitor with it.
Forgotten(p) == IF p = "main" THEN Reset ELSE UNCHANGED monitorVars

(***************************************************************************)
(* Publisher.                                                              *)
(***************************************************************************)
\* A process starts under a free number: a listener, or a stranger.
StartProcess(p) ==
    /\ proc[p].does = "gone" /\ starts < MaxStarts /\ starts' = starts + 1
    /\ \E what \in {"starting", "stranger"} :
          proc' = [proc EXCEPT ![p] = [does |-> what, start |-> starts + 1]]
    /\ UNCHANGED <<monitorVars, lock, file, reader, verdict>>

\* The lock without waiting, then the first snapshot; without the lock the
\* listener does not start.
Publish(p) ==
    /\ proc[p].does = "starting"
    /\ IF lock = ""
       THEN lock' = p /\ Doing(p, "publishing") /\ file' = Snap(p)
       ELSE Doing(p, "gone") /\ UNCHANGED <<lock, file>>
    /\ UNCHANGED <<monitorVars, reader, verdict, starts>>

\* The ticker's update: a temporary file renamed over the path.
Update(p) ==
    /\ proc[p].does = "publishing" /\ file' = Snap(p)
    /\ UNCHANGED <<monitorVars, proc, lock, reader, verdict, starts>>

\* An update that fails ends the publishing, not the listener.
UpdateFails(p) ==
    /\ proc[p].does = "publishing" /\ Doing(p, "silent")
    /\ UNCHANGED <<monitorVars, lock, file, reader, verdict, starts>>

\* Bug: the lock is released before the file is removed.
CloseStart_Unlocks(p) ==
    /\ proc[p].does \in {"publishing", "silent"} /\ Doing(p, "closing") /\ lock' = ""
    /\ UNCHANGED <<monitorVars, file, reader, verdict, starts>>

\* Close: the publishing goroutine is cancelled and awaited.
CloseStart(p) ==
    /\ proc[p].does \in {"publishing", "silent"} /\ Doing(p, "closing")
    /\ UNCHANGED <<monitorVars, lock, file, reader, verdict, starts>>

RemoveFile(p) ==
    /\ proc[p].does = "closing" /\ Doing(p, "removed") /\ file' = Nothing
    /\ UNCHANGED <<monitorVars, lock, reader, verdict, starts>>

\* The lock's file stays, so that a later publisher locks the same inode.
Unlock(p) ==
    /\ proc[p].does = "removed" /\ Doing(p, "gone") /\ lock' = Released(p)
    /\ Forgotten(p) /\ UNCHANGED <<file, reader, verdict, starts>>

\* The kernel releases the lock of a process that dies; the file stays.
Dies(p) ==
    /\ proc[p].does # "gone" /\ Doing(p, "gone") /\ lock' = Released(p)
    /\ Forgotten(p) /\ UNCHANGED <<file, reader, verdict, starts>>

(***************************************************************************)
(* Read; for the service the expected number is systemd's MainPID.         *)
(***************************************************************************)
ReadFile ==
    /\ reader = Nothing /\ file # Nothing /\ reader' = file /\ verdict' = "none"
    /\ UNCHANGED <<monitorVars, proc, lock, file, starts>>

\* Bug: a number is a process.
Verified_NumberOnly(s, expected) ==
    s.seconds <= FreshFor /\ expected \in {"", s.pid} /\ proc[s.pid].does # "gone"

Verified(s, expected) ==
    /\ s.seconds <= FreshFor
    /\ expected \in {"", s.pid}
    /\ proc[s.pid].does # "gone" /\ proc[s.pid].start = s.start

\* With --file any process will do.
Answer ==
    /\ reader # Nothing /\ reader' = Nothing
    /\ \E expected \in {"main", ""} :
          verdict' = IF ~Verified(reader, expected) THEN "unverified"
                     ELSE IF reader.problem THEN "problem" ELSE "healthy"
    /\ UNCHANGED <<monitorVars, proc, lock, file, starts>>

Listens(p) == proc[p].does \in {"publishing", "silent", "closing", "removed"}

\* What the service's listener does, while it runs.
Listener == Listens("main") /\ MonitorStep /\ UNCHANGED fileVars

\* A reader takes less than a second from the file to its answer.
Tick ==
    /\ reader = Nothing /\ verdict' = "none"
    /\ file' = IF file = Nothing THEN file ELSE [file EXCEPT !.seconds = Older(@, Old)]
    /\ IF Listens("main") THEN MonitorTick(Horizon) ELSE UNCHANGED monitorVars
    /\ UNCHANGED <<proc, lock, reader, starts>>

Init ==
    /\ MonitorInit
    /\ proc = [p \in Pids |-> [does |-> "gone", start |-> 0]]
    /\ lock = "" /\ file = Nothing /\ reader = Nothing /\ verdict = "none"
    /\ starts = 0

Next ==
    \/ \E p \in Pids :
          \/ StartProcess(p) \/ Publish(p) \/ Update(p) \/ UpdateFails(p)
          \/ CloseStart(p) \/ RemoveFile(p) \/ Unlock(p) \/ Dies(p)
    \/ ReadFile \/ Answer \/ Listener \/ Tick

Spec == Init /\ [][Next]_vars

(***************************************************************************)
(* Properties.                                                             *)
(***************************************************************************)
\* `voice health` calls a listener healthy only if the process that wrote the
\* snapshot is the one that runs now, and none of its parts has been stuck for
\* longer than that part's allowance and the age a snapshot may have: not after
\* a crash, a restart under the same number, an overdue provider, a stall or a
\* publisher that stopped (Read's comment, file.go:44-46).
HealthyIsEarned ==
    [][verdict # "healthy" /\ verdict' = "healthy" =>
          /\ Listens(reader.pid) /\ proc[reader.pid].start = reader.start
          /\ reader.pid = "main" /\ broken # "nothing" =>
                brokenFor <= Allowance(broken) + FreshFor]_vars

\* A listener that closes never removes the snapshot of its successor
\* (Publish's comment, file.go:99-100): the file goes only by the hand of the
\* listener that wrote it, or of the next one after a crash.
SuccessorKept ==
    [][file # Nothing /\ file' = Nothing =>
          \A p \in Pids : proc[p].does = "closing" /\ proc'[p].does = "removed" =>
              file.start <= proc[p].start]_vars
=============================================================================

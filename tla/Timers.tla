------------------------------- MODULE Timers -------------------------------
(***************************************************************************)
(* Local timers and reminders: the scheduler (internal/timer/timer.go), its *)
(* SQLite store (store.go) and the session loop that drives both            *)
(* (internal/session/timers.go).  TimersShared adds a second process.       *)
(*                                                                         *)
(* The listener's goroutines are the scheduler (arm an alarm, wait, consume *)
(* what is due, send it) and the session loop (announce, add, snooze,       *)
(* cancel); they share the timer set under a lock and the bounded channel   *)
(* `fired`.  Time is a count of seconds, 0 being the zero time.  Text and   *)
(* labels are left out: a record has a ghost uid instead, which unlike its  *)
(* id is never reused.  A series is its period and phase, on the clock      *)
(* for an interval (where the phase is a ghost) and on the wall for a daily *)
(* or weekly one, whose rules are those of module Calendar.  The set is     *)
(* kept unordered, since every reader takes its earliest or latest member.  *)
(***************************************************************************)
EXTENDS Calendar, Sequences, FiniteSets

CONSTANTS
  Durations,   \* lengths a timer, a reminder or a snooze may be given
  Periods,     \* periods a recurring reminder may be given
  DailyAt,     \* wall times of the day a daily reminder may be given
  WeeklyAt,    \* and of the week, a weekly one
  MaxAhead,    \* how far ahead a date may lie (365 days)
  Capacity,    \* of the fired channel (8)
  History,     \* completed reminders kept for a snooze (32)
  MaxTime,     \* bound: the clock stops there, one later for each failure
  MaxBirths,   \* bound: timers and reminders ever set
  MaxSnoozes,  \* bound: snoozes
  FaultKinds,  \* what may fail
  MaxFaults    \* bound: how many failures

ASSUME TimersAssumption ==
  /\ Durations \subseteq Nat \ {0} /\ Periods \subseteq Nat \ {0} /\ MaxAhead \in Nat
  /\ DailyAt \subseteq 0..(Day - 1) /\ WeeklyAt \subseteq 0..(Week - 1)
  /\ Capacity \in Nat \ {0} /\ History \in Nat \ {0}
  /\ MaxTime \in Nat /\ MaxBirths \in Nat /\ MaxSnoozes \in Nat
  /\ FaultKinds \subseteq {"save", "load", "crash"} /\ MaxFaults \in Nat

VARIABLES
  now,
  up,          \* the listener runs
  timers,      \* Scheduler.timers, the live set
  disk,        \* the timers table
  nextID,
  retryAfter,  \* no alarm before this time, after a save that failed
  sched,       \* the scheduler goroutine: "arm", "wait" or "send"
  alarm,       \* the alarm it waits for, 0 for none
  changed,     \* the changed channel holds its one token
  sending,     \* consumed occurrences it still has to send
  fired,       \* the fired channel
  missed,      \* came due while Voice was off, still to be announced
  births, snoozes, faults,
  consumed,    \* ghost: occurrences taken out of the live set, with the time it happened
  settled,     \* ghost: occurrences announced, or lost with a voice or a process that failed
  unread,      \* ghost: the listener runs on a table it could not read
  cancelled    \* ghost: uids cancelled

goroutine == <<sched, alarm>>
queues == <<sending, fired, missed>>
ghosts == <<consumed, settled, unread, cancelled>>
counts == <<births, snoozes, faults>>
vars == <<now, up, timers, disk, nextID, retryAfter, goroutine, changed, queues,
          counts, ghosts>>

----------------------------------------------------------------------------
Timer == [uid : Nat, id : Nat, deadline : Nat, reminder : BOOLEAN, period : Nat,
          civil : BOOLEAN, resume : Nat, last : Nat, archived : BOOLEAN, phase : Nat]

Occurrence == [uid : Nat, at : Nat]
Of(t) == [uid |-> t.uid, at |-> t.deadline]

Init ==
  /\ now = 1 /\ up = FALSE
  /\ timers = {} /\ disk = {} /\ nextID = 0 /\ retryAfter = 0
  /\ sched = "arm" /\ alarm = 0 /\ changed = FALSE
  /\ sending = {} /\ fired = <<>> /\ missed = {}
  /\ births = 0 /\ snoozes = 0 /\ faults = 0
  /\ consumed = {} /\ settled = {} /\ unread = FALSE /\ cancelled = {}

Fault(kind) == kind \in FaultKinds /\ faults < MaxFaults /\ faults' = faults + 1
NoFault == UNCHANGED faults

Earliest(S) ==
  CHOOSE o \in S : \A p \in S : o.at < p.at \/ (o.at = p.at /\ o.uid <= p.uid)

----------------------------------------------------------------------------
\* What is due, and the set that remains once it has been consumed.

Live(S) == {t \in S : ~t.archived}

\* Mutant: a timer rings a second early.
DueIn_Early(S) == {t \in Live(S) : t.deadline <= now + 1}

DueIn(S) == {t \in Live(S) : t.deadline <= now}

\* Mutant: every occurrence missed during a downtime is caught up one by one.
NextAfter_Replay(anchor, period) == anchor + period

\* Recurrence.next of an interval: the first occurrence of the series after now.
NextAfter(anchor, period) ==
  IF anchor > now THEN anchor ELSE now + (period - ((now - anchor) % period))

\* The occurrence of the series itself, which a snooze puts aside.
DueOf(t) == IF t.resume # 0 THEN t.resume ELSE t.deadline

\* Mutant: the series continues from the snoozed deadline.
Advanced_FromSnooze(t) ==
  IF t.period = 0
  THEN [t EXCEPT !.last = t.deadline, !.archived = TRUE]
  ELSE [t EXCEPT !.last = t.deadline, !.resume = 0,
                 !.deadline = IF t.civil THEN CivilAfter(t.period, t.phase, now)
                              ELSE NextAfter(t.deadline, t.period)]

\* A delivered reminder is archived, or moved on along the phase its series had before a snooze.
Advanced(t) ==
  IF t.period = 0
  THEN [t EXCEPT !.last = t.deadline, !.archived = TRUE]
  ELSE [t EXCEPT !.last = t.deadline, !.resume = 0,
                 !.deadline = IF t.civil THEN CivilAfter(t.period, t.phase, now)
                              ELSE NextAfter(DueOf(t), t.period)]

\* Mutant: the history keeps the completed reminders delivered first.
Retained_Oldest(S) ==
  {t \in S : t.archived =>
     Cardinality({o \in S : o.archived /\ o.last < t.last}) < History}

\* Only the latest completed reminders remain.
Retained(S) ==
  {t \in S : t.archived =>
     Cardinality({o \in S : /\ o.archived
                            /\ o.last > t.last \/ (o.last = t.last /\ o.id > t.id)}) < History}

Remaining(S) ==
  LET due == DueIn(S) IN
  Retained((S \ due) \cup {Advanced(t) : t \in {d \in due : d.reminder}})

Taken(S) == {Of(t) : t \in DueIn(S)}

\* Mutant: the occurrences are taken before the save is known to have succeeded.
Consume_SaveLast(S) ==
  /\ timers' = Remaining(S)
  /\ consumed' = consumed \cup {[uid |-> o.uid, at |-> o.at, when |-> now] : o \in Taken(S)}
  /\ \/ disk' = timers' /\ NoFault
     \/ UNCHANGED disk /\ Fault("save")

\* consumeDue, when its save succeeds: one transition of memory and disk.
Consume(S) ==
  /\ timers' = Remaining(S) /\ disk' = timers'
  /\ consumed' = consumed \cup {[uid |-> o.uid, at |-> o.at, when |-> now] : o \in Taken(S)}
  /\ NoFault

----------------------------------------------------------------------------
\* Mutant: the next id is the number of records.
Fresh_Count(S) == Cardinality(S)

\* One above the highest id in the table.
Fresh(S) == IF S = {} THEN 0 ELSE 1 + (CHOOSE n \in {t.id : t \in S} : \A t \in S : t.id <= n)

\* The listener starts: New loads the table and consumes what came due while it was off.
Start ==
  /\ ~up /\ up' = TRUE
  /\ \/ /\ nextID' = Fresh(disk)
        /\ \/ DueIn(disk) # {} /\ Consume(disk) /\ missed' = Taken(disk) /\ retryAfter' = 0
           \/ /\ DueIn(disk) = {} /\ timers' = disk /\ missed' = {} /\ retryAfter' = 0
              /\ UNCHANGED <<disk, consumed>> /\ NoFault
           \/ /\ DueIn(disk) # {} /\ timers' = disk /\ missed' = {} /\ retryAfter' = now + 1
              /\ UNCHANGED <<disk, consumed>> /\ Fault("save")
        /\ unread' = FALSE
     \/ \* unreadable state costs the old timers, not the ability to set new ones
        /\ unread' = TRUE /\ nextID' = 0 /\ timers' = {} /\ missed' = {} /\ retryAfter' = 0
        /\ UNCHANGED <<disk, consumed>> /\ Fault("load")
  /\ sched' = "arm" /\ alarm' = 0 /\ changed' = FALSE
  /\ UNCHANGED <<now, sending, fired, births, snoozes, settled, cancelled>>

InFlight == sending \cup missed \cup {fired[i] : i \in DOMAIN fired}

\* The process dies, or is switched off; what was consumed and not yet spoken dies with it.
Crash ==
  /\ up /\ up' = FALSE
  /\ Fault("crash")
  /\ timers' = {} /\ nextID' = 0 /\ retryAfter' = 0
  /\ sched' = "arm" /\ alarm' = 0 /\ changed' = FALSE
  /\ sending' = {} /\ fired' = <<>> /\ missed' = {}
  /\ settled' = settled \cup InFlight
  /\ UNCHANGED <<now, disk, births, snoozes, consumed, unread, cancelled>>

----------------------------------------------------------------------------
\* The scheduler goroutine.

\* untilNext: the earliest deadline, but not before retryAfter.
NextAlarm ==
  IF Live(timers) = {} THEN 0
  ELSE LET first == CHOOSE d \in {t.deadline : t \in Live(timers)} :
                      \A t \in Live(timers) : d <= t.deadline
       IN IF retryAfter > first THEN retryAfter ELSE first

Arm ==
  /\ up /\ sched = "arm" /\ sched' = "wait"
  /\ alarm' = NextAlarm
  /\ UNCHANGED <<now, up, timers, disk, nextID, retryAfter, changed, queues, counts,
                 ghosts>>

Wake ==
  /\ up /\ sched = "wait" /\ changed
  /\ changed' = FALSE /\ sched' = "arm"
  /\ UNCHANGED <<now, up, timers, disk, nextID, retryAfter, alarm, queues, counts,
                 ghosts>>

\* emitDue: a save that fails defers delivery; the set may have nothing due any more.
EmitDue ==
  /\ up /\ sched = "wait" /\ alarm # 0 /\ alarm <= now
  /\ \/ /\ DueIn(timers) # {} /\ Consume(timers)
        /\ sending' = Taken(timers) /\ sched' = "send" /\ retryAfter' = 0
     \/ /\ DueIn(timers) = {}
        /\ sched' = "arm" /\ retryAfter' = 0
        /\ UNCHANGED <<timers, disk, consumed, sending>> /\ NoFault
     \/ /\ DueIn(timers) # {}
        /\ sched' = "arm" /\ retryAfter' = now + 1
        /\ UNCHANGED <<timers, disk, consumed, sending>> /\ Fault("save")
  /\ UNCHANGED <<now, up, nextID, alarm, changed, fired, missed, births, snoozes,
                 settled, unread, cancelled>>

\* Mutant: a full channel drops the occurrence instead of holding the goroutine.
Send_Drops ==
  /\ up /\ sched = "send"
  /\ \E o \in sending :
       /\ o = Earliest(sending)
       /\ fired' = IF Len(fired) < Capacity THEN Append(fired, o) ELSE fired
       /\ sending' = sending \ {o}
       /\ sched' = IF sending' = {} THEN "arm" ELSE "send"
  /\ UNCHANGED <<now, up, timers, disk, nextID, retryAfter, alarm, changed, missed,
                 counts, ghosts>>

\* The send waits, without the lock, for room in the channel.
Send ==
  /\ up /\ sched = "send" /\ Len(fired) < Capacity
  /\ LET o == Earliest(sending) IN
       /\ fired' = Append(fired, o)
       /\ sending' = sending \ {o}
  /\ sched' = IF sending' = {} THEN "arm" ELSE "send"
  /\ UNCHANGED <<now, up, timers, disk, nextID, retryAfter, alarm, changed, missed,
                 counts, ghosts>>

----------------------------------------------------------------------------
\* The session loop.  It announces what was missed before it serves anything else.

\* The occurrence is said, or the voice fails: either way nobody hears of it again.
Say(o) == settled' = settled \cup {o}

AnnounceMissed ==
  /\ up /\ missed # {}
  /\ LET o == Earliest(missed) IN missed' = missed \ {o} /\ Say(o)
  /\ UNCHANGED <<now, up, timers, disk, nextID, retryAfter, goroutine, changed, sending, fired,
                 counts, consumed, unread, cancelled>>

Serving == up /\ missed = {}

AnnounceFired ==
  /\ Serving /\ fired # <<>>
  /\ fired' = Tail(fired) /\ Say(Head(fired))
  /\ UNCHANGED <<now, up, timers, disk, nextID, retryAfter, goroutine, changed, sending, missed,
                 counts, consumed, unread, cancelled>>

\* Mutant: the waiting scheduler is not told of the change.
Saves_NoWake(next) ==
  \/ /\ timers' = next /\ disk' = next /\ UNCHANGED changed /\ NoFault
  \/ /\ UNCHANGED <<timers, disk, changed>> /\ Fault("save")

\* The change is saved first; a save that fails leaves memory and disk as they were.
Saves(next) ==
  \/ /\ timers' = next /\ disk' = next /\ changed' = TRUE /\ NoFault
  \/ /\ UNCHANGED <<timers, disk, changed>> /\ Fault("save")

\* insert
Add(deadline, reminder, period, civil) ==
  /\ Serving /\ births < MaxBirths
  /\ LET t == [uid |-> births + 1, id |-> nextID, deadline |-> deadline, reminder |-> reminder,
               period |-> period, civil |-> civil, resume |-> 0, last |-> 0, archived |-> FALSE,
               phase |-> IF period = 0 THEN 0
                         ELSE (IF civil THEN Local(deadline) ELSE deadline) % period]
     IN Saves(timers \cup {t})
  /\ births' = births + 1
  /\ nextID' = IF timers' = timers THEN nextID ELSE nextID + 1
  /\ UNCHANGED <<now, up, retryAfter, goroutine, queues, snoozes, ghosts>>

AddTimer    == \E d \in Durations : Add(now + d, FALSE, 0, FALSE)
AddReminder == \E d \in Durations : Add(now + d, TRUE, 0, FALSE)
AddSeries   == \E p \in Periods : Add(now + p, TRUE, p, FALSE)

\* A date and time: refused when the clocks skip it, and when it is past or too far ahead.
AddOnDate ==
  \E wall \in 0..(Local(now) + MaxAhead + Shift) : \E when \in CivilTime(wall) :
    /\ when > now /\ when - now <= MaxAhead
    /\ Add(when, TRUE, 0, FALSE)

AddDaily  == \E wall \in DailyAt : Add(CivilAfter(Day, wall, now), TRUE, Day, TRUE)
AddWeekly == \E wall \in WeeklyAt : Add(CivilAfter(Week, wall, now), TRUE, Week, TRUE)

\* A delivered reminder, named by its text or the latest one, rings again after d; a series
\* remembers the occurrence it comes back to.
Snoozed(t, d) ==
  [t EXCEPT !.resume = IF t.period # 0 /\ @ = 0 THEN t.deadline ELSE @,
            !.deadline = now + d, !.archived = FALSE]

Snooze ==
  /\ Serving /\ snoozes < MaxSnoozes /\ snoozes' = snoozes + 1
  /\ \E t \in {r \in timers : r.reminder /\ r.last # 0}, d \in Durations :
       Saves((timers \ {t}) \cup {Snoozed(t, d)})
  /\ UNCHANGED <<now, up, nextID, retryAfter, goroutine, queues, births, ghosts>>

\* Mutant: a cancellation is not saved.
Cancel_Unsaved ==
  /\ Serving
  /\ \E t \in timers :
       /\ timers' = timers \ {t} /\ changed' = TRUE
       /\ cancelled' = cancelled \cup {t.uid}
  /\ UNCHANGED <<now, up, disk, nextID, retryAfter, goroutine, queues, counts,
                 consumed, settled, unread>>

\* The running timers that match, or one reminder or all of them, completed ones included.
Cancel ==
  /\ Serving
  /\ \E match \in (SUBSET timers) \ {{}} :
       /\ \/ \A t \in match : ~t.reminder
          \/ \E t \in match : t.reminder /\ match = {t}
          \/ match = {t \in timers : t.reminder}
       /\ Saves(timers \ match)
       /\ cancelled' = IF timers' = timers THEN cancelled
                       ELSE cancelled \cup {t.uid : t \in match}
  /\ UNCHANGED <<now, up, nextID, retryAfter, goroutine, queues, births, snoozes,
                 consumed, settled, unread>>

----------------------------------------------------------------------------
Tick ==
  /\ now < MaxTime + faults /\ now' = now + 1
  /\ UNCHANGED <<up, timers, disk, nextID, retryAfter, goroutine, changed, queues,
                 counts, ghosts>>

----------------------------------------------------------------------------
Scheduler == Arm \/ Wake \/ EmitDue \/ Send
Announce == AnnounceMissed \/ AnnounceFired
Speech ==
  AddTimer \/ AddReminder \/ AddOnDate \/ AddSeries \/ AddDaily \/ AddWeekly \/ Snooze \/ Cancel

Next ==
  Start \/ Crash \/ Scheduler \/ Announce \/ Speech \/ Tick

Spec == Init /\ [][Next]_vars

\* The service manager restarts the listener, the scheduler runs, the loop serves its channel
\* and time passes.  The session's select may take any ready case, so an utterance can delay an
\* announcement but not for ever: speech is bounded.
FairSpec ==
  Spec /\ WF_vars(Start) /\ WF_vars(Scheduler) /\ WF_vars(Announce) /\ WF_vars(Tick)

----------------------------------------------------------------------------
TypeOK ==
  /\ now \in Nat /\ up \in BOOLEAN
  /\ timers \subseteq Timer /\ disk \subseteq Timer
  /\ nextID \in Nat /\ retryAfter \in Nat
  /\ sched \in {"arm", "wait", "send"} /\ alarm \in Nat /\ changed \in BOOLEAN
  /\ sending \subseteq Occurrence /\ missed \subseteq Occurrence
  /\ fired \in Seq(Occurrence) /\ Len(fired) <= Capacity
  /\ sched = "send" <=> sending # {}
  /\ births \in 0..MaxBirths /\ snoozes \in 0..MaxSnoozes /\ faults \in 0..MaxFaults
  /\ consumed \subseteq [uid : Nat, at : Nat, when : Nat]
  /\ settled \subseteq Occurrence
  /\ cancelled \subseteq Nat

\* Memory and table never disagree while the listener runs, whichever saves failed; an id names
\* one record, the next one being unused; and no later save, snooze or restart brings a
\* cancelled record back (timer.go:109, 416).
MemoryIsDurable ==
  /\ up => timers = disk \/ (unread /\ timers = {})
  /\ up => /\ \A t, o \in timers : t.id = o.id => t = o
           /\ \A t \in timers : t.id < nextID
  /\ \A t \in timers \cup disk : t.uid \notin cancelled

\* Occurrences on their way to be announced.
TakenOnce ==
  /\ sending \cap missed = {}
  /\ \A i, j \in DOMAIN fired : fired[i] = fired[j] => i = j
  /\ \A i \in DOMAIN fired : fired[i] \notin sending \cup missed

\* Only occurrences that were due are announced, and each only after it was made durable.
AnnouncedIsConsumed ==
  \A o \in InFlight \cup settled :
    \E c \in consumed : c.uid = o.uid /\ c.at = o.at /\ c.at <= c.when

\* No occurrence is announced twice, early or before it was made durable: not after a failed
\* save, a restart or a snooze.
AnnouncedOnce ==
  /\ TakenOnce
  /\ InFlight \cap settled = {}
  /\ AnnouncedIsConsumed

\* What was taken out of the table is announced, on its way, was lost with the process
\* that took it or the voice that failed, or is still to be taken by the listener.
NothingSwallowed ==
  \A c \in consumed : LET o == [uid |-> c.uid, at |-> c.at] IN
    o \in InFlight \cup settled \cup {Of(t) : t \in timers}

\* A snooze never shifts the series: the occurrence it comes back to keeps the first one's phase.
PhaseKept ==
  \A t \in disk : t.period # 0 /\ ~t.civil => DueOf(t) % t.period = t.phase

\* When a daily or weekly reminder should ring: at its wall time, the first time it is shown.
Rings(t, e) == Local(e) % t.period = t.phase /\ \A b \in 0..(e - 1) : Local(b) # Local(e)

\* A daily or weekly reminder rings at its wall time and, where the clocks show it twice, the
\* first time only; after an announcement it continues with the very next such moment.
CivilKept ==
  \A t \in disk : t.civil =>
    /\ Rings(t, DueOf(t))
    /\ LET taken == {c.when : c \in {d \in consumed : d.uid = t.uid}} IN
       \A w \in taken : \A e \in (w + 1)..(DueOf(t) - 1) :
         Rings(t, e) => \E later \in taken : e <= later

\* One announcement per downtime or snooze: the next occurrence of a timer lies after the
\* moment its previous one was taken, and is the next one of its series, by the clock or by
\* the calendar, whatever was snoozed or missed and however the clocks changed meanwhile.
Coalesced ==
  /\ \A c, d \in consumed : c.uid = d.uid /\ c.at < d.at => c.when < d.at
  /\ PhaseKept
  /\ CivilKept

\* A completed reminder is forgotten only when enough others were delivered since.
HistoryKeepsLatest ==
  [][\A t \in disk :
       LET delivered == IF t.archived THEN t.last ELSE t.deadline IN
       ~unread /\ t.reminder /\ t.period = 0 /\ t.uid \notin cancelled'
         /\ t.uid \notin {o.uid : o \in disk'}
       => Cardinality({o \in disk' : o.archived /\ o.last >= delivered}) >= History]_disk

\* Within reach of the clock and not yet announced: still in the table, or on its way.
Outstanding ==
  \/ \E t \in disk : ~t.archived /\ t.deadline <= MaxTime
  \/ InFlight # {}

\* Every timer and reminder that comes due is dealt with: again and again nothing is left that
\* should have been announced, unless the restart could not read the table.  (What leaves the
\* table is announced or lost with a process or a voice that fails: NothingSwallowed.)
EveryTimerAnnounced == []<>(unread \/ ~Outstanding)
=============================================================================

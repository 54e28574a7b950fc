------------------------------ MODULE Calendar ------------------------------
(***************************************************************************)
(* Civil time for reminders (internal/timer/calendar.go): what an instant  *)
(* shows on the wall, which instant a wall time means, and the next         *)
(* occurrence of a daily or weekly series.                                 *)
(*                                                                         *)
(* Instants and wall times are naturals, a wall time counting through the  *)
(* days, so that a daily series is a residue of Day and a weekly one of    *)
(* Week.  The zone has one summer: the clock jumps over Shift wall times   *)
(* when it begins and shows Shift of them twice when it ends.  Go's time   *)
(* package, which owns the zone tables, is modelled by these two facts.    *)
(***************************************************************************)
EXTENDS Naturals

CONSTANTS
  Day, Week,             \* their lengths
  SummerFrom, SummerTo,  \* the instants the clock is changed at
  Shift,                 \* by how much
  FoldReach,             \* how far civilTime looks back for the same wall time (three hours)
  ScanDays               \* how many days next looks ahead (370)

ASSUME CalendarAssumption ==
  /\ Day \in Nat \ {0} /\ Week \in Nat /\ Week % Day = 0 /\ Day <= Week
  /\ SummerFrom \in Nat /\ SummerTo \in Nat
  /\ SummerFrom = SummerTo \/ SummerFrom + Shift <= SummerTo
  /\ Shift \in Nat /\ Shift <= SummerFrom /\ Shift <= Day
  /\ FoldReach \in Nat /\ Shift <= FoldReach
  /\ ScanDays \in Nat /\ Shift + Day + 2 * Week <= ScanDays * Day

Local(t) == IF SummerFrom <= t /\ t < SummerTo THEN t + Shift ELSE t

\* time.Date promises an instant in one of the two zones of a transition and not which: for
\* a repeated wall time the later instant is taken here, and for a skipped one, any instant.
Candidate(wall) == IF Local(wall) = wall THEN wall ELSE wall - Shift

\* Mutant: time.Date's answer is taken as it is, a skipped wall time included.
CivilTime_Normalised(wall) == {Candidate(wall)}

\* Mutant: a repeated wall time may mean its second instant.
CivilTime_EitherFold(wall) == {c \in {Candidate(wall)} : Local(c) = wall}

\* civilTime: the earliest instant that shows this wall time, and none for one that is skipped.
CivilTime(wall) ==
  LET same == {t \in {Candidate(wall) - d : d \in 0..FoldReach \cap 0..Candidate(wall)} :
                 Local(t) = wall}
  IN {t \in same : Local(Candidate(wall)) = wall /\ \A s \in same : t <= s}

\* Recurrence.next of a daily or weekly series: the days are tried from today on.
CivilAfter(period, phase, now) ==
  LET today == Local(now) - (Local(now) % Day)
      walls == {w \in today..(today + ScanDays * Day - 1) : w % period = phase}
      next == {t \in UNION {CivilTime(w) : w \in walls} : t > now}
  IN CHOOSE t \in next : \A s \in next : Local(t) <= Local(s)
=============================================================================

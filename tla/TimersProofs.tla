---------------------------- MODULE TimersProofs ----------------------------
(***************************************************************************)
(* Proofs about module Timers, for any lengths, periods, capacities and    *)
(* numbers of failures, and about the calendar it rests on.                *)
(***************************************************************************)
EXTENDS Timers, FiniteSetTheorems, WellFoundedInduction, TLAPS

----------------------------------------------------------------------------
\* Numbers.

LEMMA Least ==
  ASSUME NEW S \in SUBSET Nat, S # {}
  PROVE  \E m \in S : \A n \in S : m <= n
<1> DEFINE Below(s) == 0..(s - 1)
           T == {Below(s) : s \in S}
           R == StrictSubsetOrdering(Nat)
<1>1. IsWellFoundedOn(R, FiniteSubsetsOf(Nat))
  BY FS_StrictSubsetOrderingWellFounded
<1>2. \A s \in S : IsFiniteSet(Below(s)) /\ Below(s) \in SUBSET Nat
  BY FS_Interval
<1>3. T \subseteq FiniteSubsetsOf(Nat) /\ T # {}
  BY <1>2 DEF FiniteSubsetsOf
<1>4. \E x \in T : \A y \in T : ~(<<y, x>> \in R)
  <2> HIDE DEF T, R
  <2> QED BY <1>1, <1>3, WFMin
<1>5. PICK m \in S : \A y \in T : ~(<<y, Below(m)>> \in R)
  BY <1>4
<1>6. ASSUME NEW n \in S, n < m
      PROVE  FALSE
  <2>1. Below(n) \subseteq Below(m) /\ n \in Below(m) /\ n \notin Below(n)
    BY <1>6
  <2>2. <<Below(n), Below(m)>> \in R
    BY <1>2, <2>1 DEF StrictSubsetOrdering
  <2> QED BY <1>5, <2>2
<1> QED BY <1>6

LEMMA Modulo ==
  ASSUME NEW n \in Nat, NEW p \in Nat \ {0}
  PROVE  /\ n % p \in Nat /\ n % p < p
         /\ \E q \in Nat : n = p * q + (n % p)
<1>1. n % p \in Nat /\ n % p < p
  OBVIOUS
<1>2. n = p * (n \div p) + (n % p) /\ n \div p \in Nat
  OBVIOUS
<1> QED BY <1>1, <1>2

LEMMA ModuloIs ==
  ASSUME NEW p \in Nat \ {0}, NEW q \in Nat, NEW r \in Nat, r < p, NEW n, n = p * q + r
  PROVE  n % p = r
OBVIOUS

LEMMA ModuloShift ==
  ASSUME NEW p \in Nat \ {0}, NEW n \in Nat
  PROVE  (n + p) % p = n % p
<1>1. PICK q \in Nat : n = p * q + (n % p)
  BY Modulo
<1>2. PICK r \in Nat : r = n % p /\ r < p
  BY Modulo
<1>3. n + p = p * (q + 1) + r
  BY <1>1, <1>2
<1>4. q + 1 \in Nat
  OBVIOUS
<1>5. (p * (q + 1) + r) % p = r
  <2>1. r < p
    BY <1>2
  <2> QED BY <1>4, <2>1, ModuloIs
<1> QED BY <1>2, <1>3, <1>5

\* Among p wall times in a row one shows the phase.
LEMMA ResidueNear ==
  ASSUME NEW p \in Nat \ {0}, NEW r \in Nat, r < p, NEW x \in Nat
  PROVE  \E w \in x..(x + p - 1) : w % p = r
<1>1. PICK q \in Nat : x = p * q + (x % p)
  BY Modulo
<1>2. PICK m \in Nat : m = x % p /\ m < p
  BY Modulo
<1>3. x = p * q + m /\ p * q \in Nat /\ p * (q + 1) = p * q + p
  BY <1>1, <1>2
<1>4. CASE m <= r
  <2>1. p * q + r \in x..(x + p - 1)
    BY <1>2, <1>3, <1>4
  <2> QED BY <2>1, ModuloIs
<1>5. CASE ~(m <= r)
  <2>1. p * (q + 1) + r \in x..(x + p - 1) /\ q + 1 \in Nat
    BY <1>2, <1>3, <1>5
  <2>2. (p * (q + 1) + r) % p = r
    BY <2>1, ModuloIs
  <2> QED BY <2>1, <2>2
<1> QED BY <1>4, <1>5

----------------------------------------------------------------------------
\* The calendar.

LEMMA LocalBounds ==
  ASSUME NEW t \in Nat
  PROVE  Local(t) \in Nat /\ t <= Local(t) /\ Local(t) <= t + Shift
BY CalendarAssumption DEF Local

\* The first instant that shows its wall time.
First(t) == \A b \in Nat : b < t => Local(b) # Local(t)

\* civilTime means the first instant that shows a wall time, and nothing else.
THEOREM CivilTimeIsFirst ==
  ASSUME NEW w \in Nat, NEW t
  PROVE  t \in CivilTime(w) <=> t \in Nat /\ Local(t) = w /\ First(t)
<1> DEFINE c == Candidate(w)
           same == {s \in {c - d : d \in 0..FoldReach \cap 0..c} : Local(s) = w}
<1>0. t \in CivilTime(w) <=> t \in same /\ Local(c) = w /\ \A s \in same : t <= s
  BY DEF CivilTime
<1>1. c \in Nat /\ c \in {w, w - Shift}
  BY CalendarAssumption DEF Candidate, Local
<1>2. \A s : s \in same <=> s \in Nat /\ s <= c /\ c - s <= FoldReach /\ Local(s) = w
  BY <1>1, CalendarAssumption
<1>3. \A s \in Nat : Local(s) = w => s <= c /\ c - s <= FoldReach /\ Local(c) = w
  BY CalendarAssumption DEF Candidate, Local
<1>4. \A s : s \in same <=> s \in Nat /\ Local(s) = w
  BY <1>2, <1>3
<1> HIDE DEF same, c
<1>5. ASSUME t \in Nat, Local(t) = w
      PROVE  First(t) <=> \A s \in Nat : Local(s) = w => t <= s
  BY <1>5 DEF First
<1> QED BY <1>0, <1>3, <1>4, <1>5

\* Of two instants the later shows the later wall time, unless the wall showed that before.
LEMMA LocalGrows ==
  ASSUME NEW a \in Nat, NEW b \in Nat, a < b, First(b)
  PROVE  Local(a) < Local(b)
<1>1. b >= Shift /\ Shift > 0 => Local(b - Shift) # Local(b)
  BY CalendarAssumption DEF First
<1> QED BY <1>1, CalendarAssumption DEF Local

\* The days next looks through always hold an occurrence: one change of the clocks skips at most
\* one of two, and 370 days hold more than two weeks.
LEMMA OccurrenceAhead ==
  ASSUME NEW n \in Nat, NEW period \in {Day, Week}, NEW phase \in Nat, phase < period
  PROVE  \E t \in Nat : /\ First(t) /\ n < t
                        /\ Local(t) % period = phase /\ Local(t) <= n + Shift + 2 * period
<1>1. period \in Nat \ {0} /\ Shift <= period /\ Shift \in Nat
  BY CalendarAssumption
<1> DEFINE x == n + Shift + 1
<1>2. PICK w \in x..(x + period - 1) : w % period = phase
  <2>1. x \in Nat
    BY <1>1
  <2> HIDE DEF x
  <2> QED BY <1>1, <2>1, ResidueNear
<1>3. w \in Nat /\ w >= x /\ w + period \in Nat /\ (w + period) % period = phase
  <2>1. w \in Nat /\ w >= x /\ w + period \in Nat
    BY <1>1, <1>2
  <2> QED BY <1>1, <1>2, <2>1, ModuloShift
<1>4. PICK v \in {w, w + period} : \E t \in Nat : Local(t) = v
  <2>1. CASE Local(w) = w
    BY <1>3, <2>1
  <2>2. CASE Local(w) # w /\ w < SummerFrom + Shift
    <3>1. Local(w + period) = w + period \/ Local(w + period - Shift) = w + period
      BY <1>1, <1>3, <2>2, CalendarAssumption DEF Local
    <3> QED BY <1>1, <1>3, <3>1
  <2>3. CASE Local(w) # w /\ ~(w < SummerFrom + Shift)
    <3>1. Local(w - Shift) = w /\ w - Shift \in Nat
      BY <1>1, <1>3, <2>3, CalendarAssumption DEF Local
    <3> QED BY <1>3, <3>1
  <2> QED BY <2>1, <2>2, <2>3
<1>5. v \in Nat /\ v % period = phase /\ v >= x /\ v <= n + Shift + 2 * period
  BY <1>1, <1>2, <1>3
<1>6. PICK t \in {s \in Nat : Local(s) = v} : \A s \in {r \in Nat : Local(r) = v} : t <= s
  BY <1>4, Least
<1>7. First(t) /\ Local(t) = v /\ t \in Nat
  BY <1>6 DEF First
<1>8. n < t
  BY <1>1, <1>5, <1>7, LocalBounds
<1> QED BY <1>5, <1>7, <1>8

\* Recurrence.next of a daily or weekly series is the first instant after now that shows its
\* wall time for the first time.
THEOREM CivilAfterIsNext ==
  ASSUME NEW n \in Nat, NEW period \in {Day, Week}, NEW phase \in Nat, phase < period
  PROVE  LET t == CivilAfter(period, phase, n) IN
         /\ t \in Nat /\ n < t /\ First(t) /\ Local(t) % period = phase
         /\ \A e \in Nat : n < e /\ e < t /\ First(e) => Local(e) % period # phase
<1> DEFINE today == Local(n) - (Local(n) % Day)
           walls == {w \in today..(today + ScanDays * Day - 1) : w % period = phase}
           next == {t \in UNION {CivilTime(w) : w \in walls} : t > n}
           best(t) == \A s \in next : Local(t) <= Local(s)
<1>0. CivilAfter(period, phase, n) = CHOOSE t \in next : best(t)
  BY DEF CivilAfter
<1>1. /\ today \in Nat /\ today <= Local(n) /\ n < today + Day
      /\ n + Shift + 2 * period <= today + ScanDays * Day - 1
      /\ ScanDays * Day \in Nat
  <2>1. PICK m \in Nat : m = Local(n) % Day /\ m < Day /\ m <= Local(n)
    <3>1. Local(n) \in Nat /\ Day \in Nat \ {0}
      BY LocalBounds, CalendarAssumption
    <3>2. PICK q \in Nat : Local(n) = Day * q + (Local(n) % Day)
      BY <3>1, Modulo
    <3>3. Local(n) % Day \in Nat /\ Local(n) % Day < Day
      BY <3>1, Modulo
    <3>4. Day * q \in Nat
      BY <3>1
    <3> QED BY <3>1, <3>2, <3>3, <3>4
  <2>2. ScanDays * Day \in Nat
    BY CalendarAssumption
  <2> QED BY <2>1, <2>2, LocalBounds, CalendarAssumption
<1> HIDE DEF today
<1>2. \A t : t \in next <=>
               /\ t \in Nat /\ n < t /\ First(t)
               /\ Local(t) \in today..(today + ScanDays * Day - 1) /\ Local(t) % period = phase
  <2>1. \A w \in walls : w \in Nat
    BY <1>1
  <2> QED BY <1>1, <2>1, CivilTimeIsFirst
<1>3. \A e \in Nat : n < e /\ First(e) => Local(n) < Local(e) /\ Local(e) \in Nat
  BY LocalGrows, LocalBounds
<1>4. next # {}
  <2>1. PICK t \in Nat : /\ First(t) /\ n < t
                         /\ Local(t) % period = phase /\ Local(t) <= n + Shift + 2 * period
    BY OccurrenceAhead
  <2>2. Local(n) < Local(t) /\ Local(n) \in Nat /\ Local(t) \in Nat /\ period \in Nat
    BY <1>3, <2>1, LocalBounds, CalendarAssumption
  <2>3. Local(t) \in today..(today + ScanDays * Day - 1)
    BY <1>1, <2>1, <2>2, CalendarAssumption
  <2> QED BY <1>2, <2>1, <2>3
<1> HIDE DEF next
<1>5. \E t \in next : best(t)
  <2> DEFINE L == {Local(t) : t \in next}
  <2>1. L \in SUBSET Nat /\ L # {}
    BY <1>2, <1>3, <1>4
  <2> HIDE DEF L
  <2>2. PICK m \in L : \A k \in L : m <= k
    BY <2>1, Least
  <2> QED BY <2>2 DEF L
<1>6. PICK t \in next : t = CivilAfter(period, phase, n) /\ best(t)
  BY <1>0, <1>5
<1>7. ASSUME NEW e \in Nat, n < e, e < t, First(e), Local(e) % period = phase
      PROVE  FALSE
  <2>1. Local(e) < Local(t) /\ Local(n) < Local(e)
    BY <1>2, <1>3, <1>6, <1>7, LocalGrows
  <2>2. Local(e) \in today..(today + ScanDays * Day - 1)
    BY <1>1, <1>2, <1>6, <2>1, <1>7, LocalBounds
  <2>3. e \in next
    BY <1>2, <1>7, <2>2
  <2> QED BY <1>3, <1>6, <1>7, <2>1, <2>3, LocalBounds, <1>2
<1> QED BY <1>2, <1>6, <1>7

\* Recurrence.next of an interval is the first of its series after now.
THEOREM IntervalIsNext ==
  ASSUME now \in Nat, NEW anchor \in Nat, NEW p \in Nat \ {0}
  PROVE  LET t == NextAfter(anchor, p) IN
         /\ t \in Nat /\ now < t /\ t % p = anchor % p
         /\ \A e \in Nat : now < e /\ e < t /\ anchor <= e => e % p # anchor % p
<1>1. CASE anchor > now
  BY <1>1 DEF NextAfter
<1>2. CASE ~(anchor > now)
  <2>1. PICK m \in Nat : m = (now - anchor) % p /\ m < p
    <3>1. now - anchor \in Nat
      BY <1>2
    <3> QED BY <3>1, Modulo
  <2>2. PICK q \in Nat : now - anchor = p * q + m
    <3>1. now - anchor \in Nat
      BY <1>2
    <3> QED BY <2>1, <3>1, Modulo
  <2>3. PICK r \in Nat : r = anchor % p /\ r < p
    BY Modulo
  <2>4. PICK u \in Nat : anchor = p * u + r
    BY <2>3, Modulo
  <2>5. /\ p * q \in Nat /\ p * u \in Nat /\ u + q + 1 \in Nat /\ u + q \in Nat /\ u + q + 2 \in Nat
        /\ p * (u + q + 1) = p * u + p * q + p
        /\ p * (u + q + 2) = p * u + p * q + p + p
        /\ p * (u + q) = p * u + p * q
    OBVIOUS
  <2>6. NextAfter(anchor, p) = now + (p - m)
    BY <1>2, <2>1 DEF NextAfter
  <2>7. /\ now + (p - m) = p * (u + q + 1) + r
        /\ now + (p - m) \in Nat /\ now < now + (p - m)
    <3>1. now + (p - m) \in Nat /\ now < now + (p - m)
      BY <2>1
    <3>2. PICK a \in Nat, b \in Nat : a = p * q /\ b = p * u /\ p * (u + q + 1) = b + a + p
      BY <2>5
    <3>3. now - anchor = a + m /\ anchor = b + r
      BY <2>2, <2>4, <3>2
    <3>4. now + (p - m) = b + a + p + r
      BY <2>1, <2>3, <3>3
    <3> QED BY <3>1, <3>2, <3>4
  <2>8. (p * (u + q + 1) + r) % p = r
    <3>1. r < p
      BY <2>3
    <3> QED BY <2>5, <3>1, ModuloIs
  <2>9. ASSUME NEW e \in Nat, now < e, e < now + (p - m), anchor <= e
        PROVE  e % p # r
    <3>1. PICK k \in Nat : e = p * (u + q) + r + k /\ 0 < k /\ k < p
      <4>1. e - (p * u + p * q + r) \in 1..(p - 1)
        BY <1>2, <2>1, <2>2, <2>3, <2>4, <2>5, <2>9
      <4> QED BY <2>3, <2>5, <4>1
    <3>2. CASE r + k < p
      <4>1. PICK j \in Nat : j = r + k /\ j < p /\ j # r
        BY <3>1, <3>2
      <4>2. e = p * (u + q) + j /\ u + q \in Nat
        BY <2>3, <2>5, <3>1, <4>1
      <4>3. e % p = j
        <5>1. j < p
          BY <4>1
        <5> QED BY <4>2, <5>1, ModuloIs
      <4> QED BY <4>1, <4>3
    <3>3. CASE ~(r + k < p)
      <4>1. PICK j \in Nat : j = r + k - p /\ j < p /\ j # r
        BY <2>3, <3>1, <3>3
      <4>2. e = p * (u + q + 1) + j /\ u + q + 1 \in Nat
        BY <2>3, <2>5, <3>1, <4>1
      <4>3. e % p = j
        <5>1. j < p
          BY <4>1
        <5> QED BY <4>2, <5>1, ModuloIs
      <4> QED BY <4>1, <4>3
    <3> QED BY <3>2, <3>3
  <2> QED BY <2>3, <2>6, <2>7, <2>8, <2>9
<1> QED BY <1>1, <1>2

----------------------------------------------------------------------------
\* The inductive invariant.

\* What holds of every record in the table: it has a time, and a series keeps its phase.
Sound(t) ==
  /\ t \in Timer /\ t.deadline # 0
  /\ t.period # 0 => ~t.archived
  /\ t.period # 0 /\ ~t.civil => DueOf(t) % t.period = t.phase
  /\ t.civil => /\ t.period \in {Day, Week} /\ t.phase < t.period
                /\ First(DueOf(t)) /\ Local(DueOf(t)) % t.period = t.phase

\* A record still to ring rings after everything that was taken of it (C: what was consumed).
RingsLater(t, C) == ~t.archived => \A c \in C : c.uid = t.uid => c.when < t.deadline

\* No ringing time of a calendar series lies between what was taken and what comes next.
NonePassed(t, C) ==
  t.civil => \A c \in C : c.uid = t.uid =>
    \A e \in Nat : c.when < e /\ e < DueOf(t) /\ First(e) /\ Local(e) % t.period = t.phase =>
      \E d \in C : d.uid = t.uid /\ e <= d.when

\* A table with the records of at most n births, X of them cancelled.
Table(S, C, n, X) ==
  /\ \A t \in S : /\ Sound(t) /\ RingsLater(t, C) /\ NonePassed(t, C)
                  /\ t.uid <= n /\ t.id < n /\ t.uid \notin X
  /\ \A t, o \in S : t.uid = o.uid \/ t.id = o.id => t = o

\* What was consumed by time m of at most n births.
Account(C, m, n) ==
  /\ C \subseteq [uid : Nat, at : Nat, when : Nat]
  /\ \A c \in C : c.uid <= n /\ c.at <= c.when /\ c.when <= m
  /\ \A c, d \in C : c.uid = d.uid /\ c.at < d.at => c.when < d.at

Occ(C) == {[uid |-> c.uid, at |-> c.at] : c \in C}

Ran(s) == {s[i] : i \in DOMAIN s}

\* What was consumed is on its way once or settled, and nothing else is.
Flows(waiting, late, queue, done, C) ==
  /\ waiting \cap late = {}
  /\ \A i, j \in DOMAIN queue : queue[i] = queue[j] => i = j
  /\ Ran(queue) \cap (waiting \cup late) = {}
  /\ (waiting \cup late \cup Ran(queue)) \cap done = {}
  /\ waiting \cup late \cup Ran(queue) \cup done = Occ(C)

Stored ==
  /\ Table(disk, consumed, births, cancelled)
  /\ Account(consumed, now, births)
  /\ nextID <= births /\ \A u \in cancelled : u <= births
  /\ up => /\ timers = disk \/ (unread /\ timers = {})
           /\ \A t \in timers : t.id < nextID
  /\ ~up => timers = {} /\ sending = {} /\ missed = {} /\ fired = <<>>

TimersInv ==
  /\ TypeOK /\ now # 0
  /\ Stored
  /\ Flows(sending, missed, fired, settled, consumed)

----------------------------------------------------------------------------
\* The table under what is done to it.

LEMMA PeriodsPositive == Day \in Nat \ {0} /\ Week \in Nat \ {0}
BY CalendarAssumption

\* What of a record its delivery keeps, and when it rings next.
LEMMA AdvancedIs ==
  ASSUME now \in Nat, now # 0, NEW t, Sound(t), ~t.archived
  PROVE  LET a == Advanced(t) IN
         /\ Sound(a) /\ a.uid = t.uid /\ a.id = t.id
         /\ a.civil = t.civil /\ a.period = t.period /\ a.phase = t.phase
         /\ ~a.archived => now < a.deadline
         /\ a.civil => /\ now < DueOf(a)
                       /\ \A e \in Nat : now < e /\ e < DueOf(a) /\ First(e)
                                           => Local(e) % a.period # a.phase
<1> DEFINE a == Advanced(t)
<1>1. t \in Timer /\ t.deadline # 0 /\ DueOf(t) \in Nat
  BY DEF Sound, DueOf, Timer
<1>2. t.civil => t.period # 0
  BY PeriodsPositive DEF Sound
<1>3. CASE t.period = 0
  <2>1. a = [t EXCEPT !.last = t.deadline, !.archived = TRUE]
    BY <1>3 DEF Advanced
  <2>2. /\ a \in Timer /\ a.uid = t.uid /\ a.id = t.id /\ a.civil = t.civil /\ a.period = t.period
        /\ a.phase = t.phase /\ a.archived /\ a.deadline = t.deadline
    BY <1>1, <2>1 DEF Timer
  <2> HIDE DEF a
  <2>3. Sound(a)
    BY <1>1, <1>2, <1>3, <2>2 DEF Sound
  <2>4. ~a.civil
    BY <1>2, <1>3, <2>2
  <2> QED BY <2>2, <2>3, <2>4 DEF a
<1>4. CASE t.period # 0
  <2> DEFINE next == IF t.civil THEN CivilAfter(t.period, t.phase, now)
                                ELSE NextAfter(DueOf(t), t.period)
  <2>1. a = [t EXCEPT !.last = t.deadline, !.resume = 0, !.deadline = next]
    BY <1>4 DEF Advanced
  <2>2. t.period \in Nat \ {0} /\ t.phase \in Nat
    BY <1>1, <1>4 DEF Timer
  <2>3. /\ next \in Nat /\ now < next
        /\ ~t.civil => next % t.period = t.phase
        /\ t.civil => /\ First(next) /\ Local(next) % t.period = t.phase
                      /\ \A e \in Nat : now < e /\ e < next /\ First(e)
                                          => Local(e) % t.period # t.phase
    <3>1. CASE t.civil
      <4>1. t.period \in {Day, Week} /\ t.phase < t.period
        BY <3>1 DEF Sound
      <4> QED BY <2>2, <3>1, <4>1, CivilAfterIsNext
    <3>2. CASE ~t.civil
      <4>1. DueOf(t) % t.period = t.phase
        BY <1>4, <3>2 DEF Sound
      <4>2. LET u == NextAfter(DueOf(t), t.period) IN
            u \in Nat /\ now < u /\ u % t.period = DueOf(t) % t.period
        BY <1>1, <2>2, IntervalIsNext
      <4> QED BY <3>2, <4>1, <4>2
    <3> QED BY <3>1, <3>2
  <2> HIDE DEF next
  <2>4. /\ a \in Timer /\ a.uid = t.uid /\ a.id = t.id /\ a.civil = t.civil /\ a.period = t.period
        /\ a.phase = t.phase /\ a.archived = t.archived /\ a.deadline = next /\ a.resume = 0
    <3>1. next \in Nat /\ t \in Timer
      BY <1>1, <2>3
    <3> HIDE DEF a
    <3> QED BY <2>1, <3>1 DEF Timer
  <2> HIDE DEF a
  <2>5. DueOf(a) = next /\ next # 0
    BY <2>3, <2>4 DEF DueOf
  <2>6. Sound(a)
    BY <2>3, <2>4, <2>5 DEF Sound
  <2> QED BY <2>3, <2>4, <2>5, <2>6 DEF a
<1> QED BY <1>3, <1>4

\* The consumption of what is due in a table.
New(S) == {[uid |-> o.uid, at |-> o.at, when |-> now] : o \in Taken(S)}

LEMMA InNew ==
  ASSUME NEW S, NEW c
  PROVE  c \in New(S) <=> \E t \in S : /\ ~t.archived /\ t.deadline <= now
                                       /\ c = [uid |-> t.uid, at |-> t.deadline, when |-> now]
<1>1. \A o : o \in Taken(S) <=> \E t \in S : ~t.archived /\ t.deadline <= now /\ o = Of(t)
  BY DEF Taken, DueIn, Live
<1>2. c \in New(S) <=> \E o : o \in Taken(S) /\ c = [uid |-> o.uid, at |-> o.at, when |-> now]
  BY DEF New
<1>3. \A t : Of(t).uid = t.uid /\ Of(t).at = t.deadline
  BY DEF Of
<1> QED BY <1>1, <1>2, <1>3

LEMMA InRemaining ==
  ASSUME NEW S, NEW a \in Remaining(S)
  PROVE  \E t \in S : \/ a = t /\ (t.archived \/ ~(t.deadline <= now))
                      \/ a = Advanced(t) /\ ~t.archived /\ t.deadline <= now /\ t.reminder
BY DEF Remaining, Retained, DueIn, Live

LEMMA ConsumeAccount ==
  ASSUME now \in Nat, NEW S, NEW C, NEW n \in Nat, NEW X, Table(S, C, n, X), Account(C, now, n)
  PROVE  /\ Account(C \cup New(S), now, n)
         /\ Occ(New(S)) = Taken(S) /\ Taken(S) \cap Occ(C) = {}
         /\ Taken(S) \subseteq Occurrence
         /\ Occ(C \cup New(S)) = Occ(C) \cup Taken(S)
<1>1. \A t \in S : t.uid \in Nat /\ t.deadline \in Nat /\ t.uid <= n
  BY DEF Table, Sound, Timer
<1>2. \A c \in New(S) : /\ c \in [uid : Nat, at : Nat, when : Nat]
                        /\ c.uid <= n /\ c.at <= c.when /\ c.when = now
                        /\ \E t \in S : t.uid = c.uid /\ t.deadline = c.at /\ ~t.archived
  BY <1>1, InNew
<1>3. \A c \in C : c.uid \in Nat /\ c.at \in Nat /\ c.when \in Nat /\ c.when <= now /\ c.at <= c.when
  BY DEF Account
<1>4. \A c \in C, d \in New(S) : c.uid = d.uid => c.when < d.at
  BY <1>2 DEF Table, RingsLater
<1>5. \A c, d \in New(S) : c.uid = d.uid => c.at = d.at
  BY <1>2 DEF Table
<1>6. ASSUME NEW c \in C \cup New(S), NEW d \in C \cup New(S), c.uid = d.uid, c.at < d.at
      PROVE  c.when < d.at
  <2>1. CASE c \in C /\ d \in C
    BY <1>6, <2>1 DEF Account
  <2>2. CASE c \in C /\ d \in New(S)
    BY <1>4, <1>6, <2>2
  <2>3. CASE c \in New(S) /\ d \in C
    <3>1. d.when < c.at /\ d.at <= d.when
      BY <1>3, <1>4, <1>6, <2>3
    <3>2. c.at \in Nat /\ d.at \in Nat /\ d.when \in Nat
      BY <1>2, <1>3, <2>3
    <3> QED BY <1>6, <3>1, <3>2
  <2>4. CASE c \in New(S) /\ d \in New(S)
    <3>1. c.at = d.at /\ c.at \in Nat
      BY <1>2, <1>5, <1>6, <2>4
    <3> QED BY <1>6, <3>1
  <2> QED BY <2>1, <2>2, <2>3, <2>4
<1>7. Account(C \cup New(S), now, n)
  <2>1. C \subseteq [uid : Nat, at : Nat, when : Nat]
        /\ \A c \in C : c.uid <= n /\ c.at <= c.when /\ c.when <= now
    BY DEF Account
  <2>2. \A c \in New(S) : c.when <= now
    BY <1>2
  <2> QED BY <1>2, <1>6, <2>1, <2>2 DEF Account
<1>8. Occ(New(S)) = Taken(S)
  <2>1. \A o \in Taken(S) : o = [uid |-> o.uid, at |-> o.at]
    BY DEF Taken, Of
  <2>2. \A o \in Taken(S) : [uid |-> o.uid, at |-> o.at, when |-> now] \in New(S)
    BY DEF New
  <2>3. \A c \in New(S) : \E o \in Taken(S) : c.uid = o.uid /\ c.at = o.at
    BY DEF New
  <2>4. ASSUME NEW x \in Occ(New(S))
        PROVE  x \in Taken(S)
    <3>1. PICK c \in New(S) : x = [uid |-> c.uid, at |-> c.at]
      BY DEF Occ
    <3>2. PICK o \in Taken(S) : c.uid = o.uid /\ c.at = o.at
      BY <2>3
    <3> QED BY <2>1, <3>1, <3>2
  <2>5. ASSUME NEW o \in Taken(S)
        PROVE  o \in Occ(New(S))
    <3> DEFINE c == [uid |-> o.uid, at |-> o.at, when |-> now]
    <3>1. c \in New(S) /\ o = [uid |-> c.uid, at |-> c.at]
      BY <2>1, <2>2
    <3> HIDE DEF c
    <3> QED BY <3>1 DEF Occ
  <2> QED BY <2>4, <2>5
<1>9. Occ(C \cup New(S)) = Occ(C) \cup Taken(S)
  BY <1>8 DEF Occ
<1>10. Taken(S) \cap Occ(C) = {}
  <2>1. SUFFICES ASSUME NEW c \in C, NEW d \in New(S), c.uid = d.uid, c.at = d.at
                 PROVE  FALSE
    BY <1>8 DEF Occ
  <2> QED BY <1>2, <1>3, <1>4, <2>1
<1>11. Taken(S) \subseteq Occurrence
  BY <1>1 DEF Taken, DueIn, Live, Of, Occurrence
<1> QED BY <1>7, <1>8, <1>9, <1>10, <1>11

LEMMA ConsumeTable ==
  ASSUME now \in Nat, now # 0, NEW S, NEW C, NEW n \in Nat, NEW X,
         Table(S, C, n, X), Account(C, now, n)
  PROVE  Table(Remaining(S), C \cup New(S), n, X)
<1>1. \A c \in C : c.uid \in Nat /\ c.at \in Nat /\ c.when \in Nat /\ c.when <= now
  BY DEF Account
<1>2. ASSUME NEW a \in Remaining(S)
      PROVE  \E t \in S : /\ a.uid = t.uid /\ a.id = t.id
                          /\ Sound(a) /\ RingsLater(a, C \cup New(S)) /\ NonePassed(a, C \cup New(S))
  <2>1. PICK t \in S : \/ a = t /\ (t.archived \/ ~(t.deadline <= now))
                       \/ a = Advanced(t) /\ ~t.archived /\ t.deadline <= now /\ t.reminder
    BY <1>2, InRemaining
  <2>2. Sound(t) /\ RingsLater(t, C) /\ NonePassed(t, C)
    BY DEF Table
  <2>3. CASE a = t /\ (t.archived \/ ~(t.deadline <= now))
    <3>1. \A c \in New(S) : c.uid # t.uid
      BY <2>3, InNew DEF Table
    <3>2. RingsLater(a, C \cup New(S))
      BY <2>2, <2>3, <3>1 DEF RingsLater
    <3>3. NonePassed(a, C \cup New(S))
      BY <2>2, <2>3, <3>1 DEF NonePassed
    <3> QED BY <2>2, <2>3, <3>2, <3>3
  <2>4. CASE a = Advanced(t) /\ ~t.archived /\ t.deadline <= now /\ t.reminder
    <3>1. /\ Sound(a) /\ a.uid = t.uid /\ a.id = t.id
          /\ a.civil = t.civil /\ a.period = t.period /\ a.phase = t.phase
          /\ ~a.archived => now < a.deadline
          /\ a.civil => /\ now < DueOf(a)
                        /\ \A e \in Nat : now < e /\ e < DueOf(a) /\ First(e)
                                            => Local(e) % a.period # a.phase
      BY <2>2, <2>4, AdvancedIs
    <3>2. \A c \in C \cup New(S) : c.when <= now /\ c.when \in Nat
      BY <1>1, InNew
    <3>3. RingsLater(a, C \cup New(S))
      <4>1. a.deadline \in Nat
        BY <3>1 DEF Sound, Timer
      <4>2. ~a.archived => now < a.deadline
        BY <3>1
      <4> QED BY <3>2, <4>1, <4>2 DEF RingsLater
    <3>4. NonePassed(a, C \cup New(S))
      <4>1. \E d \in New(S) : d.uid = a.uid /\ d.when = now
        <5>1. [uid |-> t.uid, at |-> t.deadline, when |-> now] \in New(S)
          BY <2>4, InNew
        <5>2. a.uid = t.uid
          BY <3>1
        <5> QED BY <5>1, <5>2
      <4>2. SUFFICES ASSUME a.civil, NEW e \in Nat, e < DueOf(a), First(e),
                            Local(e) % a.period = a.phase
                     PROVE  e <= now
        BY <4>1 DEF NonePassed
      <4> QED BY <3>1, <4>2
    <3> QED BY <3>1, <3>3, <3>4
  <2> QED BY <2>1, <2>3, <2>4
<1>3. \A a, b \in Remaining(S) : a.uid = b.uid \/ a.id = b.id => a = b
  <2> SUFFICES ASSUME NEW a \in Remaining(S), NEW b \in Remaining(S), a.uid = b.uid \/ a.id = b.id
               PROVE  a = b
    OBVIOUS
  <2>1. PICK t \in S : \/ a = t /\ (t.archived \/ ~(t.deadline <= now))
                       \/ a = Advanced(t) /\ ~t.archived /\ t.deadline <= now
    BY InRemaining
  <2>2. PICK u \in S : \/ b = u /\ (u.archived \/ ~(u.deadline <= now))
                       \/ b = Advanced(u) /\ ~u.archived /\ u.deadline <= now
    BY InRemaining
  <2>3. a.uid = t.uid /\ a.id = t.id
    BY <2>1, AdvancedIs DEF Table
  <2>4. b.uid = u.uid /\ b.id = u.id
    BY <2>2, AdvancedIs DEF Table
  <2>5. t = u
    BY <2>3, <2>4 DEF Table
  <2> QED BY <2>1, <2>2, <2>5
<1> QED BY <1>2, <1>3 DEF Table

\* The other changes of the table: it loses records, gains one, or one of them rings again.
LEMMA TableShrinks ==
  ASSUME NEW S, NEW C, NEW n \in Nat, NEW X, Table(S, C, n, X), NEW T \in SUBSET S,
         NEW Y, \A t \in T : t.uid \notin Y \ X
  PROVE  Table(T, C, n, Y)
BY DEF Table

LEMMA TableGrows ==
  ASSUME NEW S, NEW C, NEW n \in Nat, NEW X, NEW m, Table(S, C, n, X), Account(C, m, n),
         \A u \in X : u <= n /\ u \in Nat,
         NEW t, Sound(t), t.uid = n + 1, t.id <= n, \A o \in S : o.id < t.id
  PROVE  Table(S \cup {t}, C, n + 1, X)
<1>1. \A o \in S : o.uid \in Nat /\ o.id \in Nat /\ o.uid <= n /\ o.id < n
  BY DEF Table, Sound, Timer
<1>2. t.uid \in Nat /\ t.id \in Nat
  BY DEF Sound, Timer
<1>3. \A c \in C : c.uid # t.uid
  BY DEF Account
<1>4. RingsLater(t, C) /\ NonePassed(t, C)
  BY <1>3 DEF RingsLater, NonePassed
<1>5. ASSUME NEW o \in S \cup {t}
      PROVE  /\ Sound(o) /\ RingsLater(o, C) /\ NonePassed(o, C)
             /\ o.uid <= n + 1 /\ o.id < n + 1 /\ o.uid \notin X
  BY <1>1, <1>2, <1>4 DEF Table
<1>6. ASSUME NEW a \in S \cup {t}, NEW b \in S \cup {t}, a.uid = b.uid \/ a.id = b.id
      PROVE  a = b
  BY <1>1, <1>2, <1>6 DEF Table
<1> QED BY <1>5, <1>6 DEF Table

LEMMA TableSnoozes ==
  ASSUME now \in Nat, NEW S, NEW C, NEW n \in Nat, NEW X, Table(S, C, n, X), Account(C, now, n),
         NEW t \in S, NEW d \in Nat \ {0}
  PROVE  Table((S \ {t}) \cup {Snoozed(t, d)}, C, n, X)
<1> DEFINE z == Snoozed(t, d)
<1>1. Sound(t) /\ t \in Timer /\ t.deadline # 0 /\ NonePassed(t, C)
  BY DEF Table, Sound
<1>2. /\ z \in Timer /\ z.uid = t.uid /\ z.id = t.id /\ z.civil = t.civil /\ z.period = t.period
      /\ z.phase = t.phase /\ ~z.archived /\ z.deadline = now + d
      /\ z.resume = IF t.period # 0 /\ t.resume = 0 THEN t.deadline ELSE t.resume
  <2> DEFINE r == IF t.period # 0 /\ t.resume = 0 THEN t.deadline ELSE t.resume
  <2>1. z = [t EXCEPT !.resume = r, !.deadline = now + d, !.archived = FALSE]
    BY DEF Snoozed
  <2>2. r \in Nat /\ now + d \in Nat
    BY <1>1 DEF Timer
  <2> HIDE DEF r, z
  <2>3. /\ z \in Timer /\ z.uid = t.uid /\ z.id = t.id /\ z.civil = t.civil /\ z.period = t.period
        /\ z.phase = t.phase /\ ~z.archived /\ z.deadline = now + d /\ z.resume = r
    BY <1>1, <2>1, <2>2 DEF Timer
  <2> QED BY <2>3 DEF r
<1> HIDE DEF z
<1>3. t.period # 0 => DueOf(z) = DueOf(t)
  BY <1>1, <1>2 DEF DueOf
<1>4. t.civil => t.period # 0
  BY <1>1, PeriodsPositive DEF Sound
<1>5. Sound(z)
  <2>1. z.deadline # 0
    BY <1>2
  <2>2. t.period # 0 => DueOf(z) = DueOf(t)
    BY <1>3
  <2>3. t.civil => /\ z.period \in {Day, Week} /\ z.phase < z.period
                   /\ First(DueOf(z)) /\ Local(DueOf(z)) % z.period = z.phase
    BY <1>1, <1>2, <1>4, <2>2 DEF Sound
  <2>4. z.period # 0 /\ ~z.civil => DueOf(z) % z.period = z.phase
    BY <1>1, <1>2, <2>2 DEF Sound
  <2> QED BY <1>2, <2>1, <2>3, <2>4 DEF Sound
<1>6. RingsLater(z, C)
  BY <1>2 DEF RingsLater, Account
<1>7. NonePassed(z, C)
  BY <1>1, <1>2, <1>3, <1>4 DEF NonePassed
<1>8. t.uid <= n /\ t.id < n /\ t.uid \notin X
  BY DEF Table
<1>9. \A o \in S : o.uid = t.uid \/ o.id = t.id => o = t
  BY DEF Table
<1>10. Table((S \ {t}) \cup {z}, C, n, X)
  BY <1>2, <1>5, <1>6, <1>7, <1>8, <1>9 DEF Table
<1> QED BY <1>10 DEF z

\* Load gives the records one id after the highest.
LEMMA FreshIs ==
  ASSUME NEW S, NEW C, NEW n \in Nat, NEW X, Table(S, C, n, X)
  PROVE  Fresh(S) \in Nat /\ Fresh(S) <= n /\ \A t \in S : t.id < Fresh(S)
<1>1. \A t \in S : t.id \in Nat /\ t.id < n
  BY DEF Table, Sound, Timer
<1>2. CASE S = {}
  BY <1>2 DEF Fresh
<1>3. CASE S # {}
  <2> DEFINE ids == {t.id : t \in S}
             D == {n - i : i \in ids}
  <2>1. D \in SUBSET Nat /\ D # {}
    BY <1>1, <1>3
  <2>2. PICK m \in D : \A k \in D : m <= k
    <3> HIDE DEF D
    <3> QED BY <2>1, Least
  <2>3. PICK i \in ids : m = n - i
    BY <2>2
  <2>4. ASSUME NEW t \in S
        PROVE  t.id <= i
    <3>1. n - t.id \in D
      OBVIOUS
    <3>2. m <= n - t.id
      BY <2>2, <3>1
    <3>3. i \in Nat /\ t.id \in Nat
      BY <1>1
    <3> HIDE DEF D, ids
    <3> QED BY <2>3, <3>2, <3>3
  <2> DEFINE j == CHOOSE k \in {t.id : t \in S} : \A t \in S : t.id <= k
  <2>5. j \in {t.id : t \in S} /\ \A t \in S : t.id <= j
    <3>1. \E k \in {t.id : t \in S} : \A t \in S : t.id <= k
      BY <2>3, <2>4
    <3> QED BY <3>1
  <2>6. Fresh(S) = 1 + j
    BY <1>3 DEF Fresh
  <2> HIDE DEF j
  <2>7. j \in Nat /\ j < n
    BY <1>1, <2>5
  <2> QED BY <1>1, <2>5, <2>6, <2>7
<1> QED BY <1>2, <1>3

----------------------------------------------------------------------------
\* The occurrences on their way.

LEMMA EarliestIsOne ==
  ASSUME NEW S \in SUBSET Occurrence, S # {}
  PROVE  Earliest(S) \in S
<1>1. \A o \in S : o.at \in Nat /\ o.uid \in Nat
  BY DEF Occurrence
<1> DEFINE ats == {o.at : o \in S}
<1>2. PICK a \in ats : \A b \in ats : a <= b
  <2>1. ats \in SUBSET Nat /\ ats # {}
    BY <1>1
  <2> HIDE DEF ats
  <2> QED BY <2>1, Least
<1> DEFINE uids == {o.uid : o \in {p \in S : p.at = a}}
<1>3. PICK u \in uids : \A v \in uids : u <= v
  <2>1. uids \in SUBSET Nat /\ uids # {}
    BY <1>1, <1>2
  <2> HIDE DEF uids
  <2> QED BY <2>1, Least
<1>4. PICK o \in S : o.at = a /\ o.uid = u
  BY <1>3
<1>5. \A p \in S : o.at < p.at \/ (o.at = p.at /\ o.uid <= p.uid)
  <2> SUFFICES ASSUME NEW p \in S
               PROVE  o.at < p.at \/ (o.at = p.at /\ o.uid <= p.uid)
    OBVIOUS
  <2>1. o.at <= p.at
    BY <1>2, <1>4
  <2>2. p.at = a => o.uid <= p.uid
    BY <1>3, <1>4
  <2> QED BY <1>1, <1>4, <2>1, <2>2
<1> QED BY <1>5 DEF Earliest

LEMMA Pushed ==
  ASSUME NEW s \in Seq(Occurrence), NEW o \in Occurrence,
         \A i, j \in DOMAIN s : s[i] = s[j] => i = j, o \notin Ran(s)
  PROVE  LET r == Append(s, o) IN
         /\ r \in Seq(Occurrence) /\ Len(r) = Len(s) + 1
         /\ Ran(r) = Ran(s) \cup {o}
         /\ \A i, j \in DOMAIN r : r[i] = r[j] => i = j
<1> DEFINE r == Append(s, o)
<1>1. /\ r \in Seq(Occurrence) /\ Len(r) = Len(s) + 1 /\ Len(s) \in Nat
      /\ DOMAIN s = 1..Len(s) /\ DOMAIN r = 1..(Len(s) + 1)
      /\ \A i \in DOMAIN s : r[i] = s[i]
      /\ r[Len(s) + 1] = o
  OBVIOUS
<1> HIDE DEF r
<1>2. DOMAIN r = DOMAIN s \cup {Len(s) + 1}
  BY <1>1
<1>3. Ran(r) = Ran(s) \cup {o}
  BY <1>1, <1>2 DEF Ran
<1>4. \A i \in DOMAIN s : s[i] # o
  BY DEF Ran
<1>5. \A i, j \in DOMAIN r : r[i] = r[j] => i = j
  BY <1>1, <1>2, <1>4
<1> QED BY <1>1, <1>3, <1>5 DEF r

LEMMA Popped ==
  ASSUME NEW s \in Seq(Occurrence), s # <<>>,
         \A i, j \in DOMAIN s : s[i] = s[j] => i = j
  PROVE  LET r == Tail(s) IN
         /\ r \in Seq(Occurrence) /\ Len(r) <= Len(s)
         /\ Ran(s) = Ran(r) \cup {Head(s)} /\ Head(s) \notin Ran(r) /\ Head(s) \in Occurrence
         /\ \A i, j \in DOMAIN r : r[i] = r[j] => i = j
<1> DEFINE r == Tail(s)
<1>1. /\ r \in Seq(Occurrence) /\ Len(r) = Len(s) - 1 /\ Len(s) \in Nat /\ Len(s) >= 1
      /\ DOMAIN s = 1..Len(s) /\ DOMAIN r = 1..(Len(s) - 1)
      /\ \A i \in DOMAIN r : r[i] = s[i + 1]
      /\ Head(s) = s[1]
  OBVIOUS
<1> HIDE DEF r
<1>2. \A i \in DOMAIN r : i + 1 \in DOMAIN s /\ i + 1 # 1 /\ i \in Nat
  BY <1>1
<1>3. \A i \in DOMAIN s : i = 1 \/ i - 1 \in DOMAIN r
  BY <1>1
<1>4. Ran(s) = Ran(r) \cup {Head(s)}
  <2>1. ASSUME NEW i \in DOMAIN s
        PROVE  s[i] = Head(s) \/ \E j \in DOMAIN r : r[j] = s[i]
    <3>1. i \in Nat
      BY <1>1
    <3>2. i - 1 \in DOMAIN r => r[i - 1] = s[i]
      BY <1>1, <3>1
    <3> QED BY <1>1, <1>3, <3>2
  <2>2. \A j \in DOMAIN r : \E i \in DOMAIN s : s[i] = r[j]
    BY <1>1, <1>2
  <2>3. 1 \in DOMAIN s
    BY <1>1
  <2> QED BY <1>1, <2>1, <2>2, <2>3 DEF Ran
<1>5. Head(s) \notin Ran(r)
  BY <1>1, <1>2 DEF Ran
<1>6. \A i, j \in DOMAIN r : r[i] = r[j] => i = j
  BY <1>1, <1>2
<1>7. Head(s) \in Occurrence
  OBVIOUS
<1> QED BY <1>1, <1>4, <1>5, <1>6, <1>7 DEF r

LEMMA RanEmpty == Ran(<<>>) = {}
BY DEF Ran

LEMMA FlowTakes ==
  ASSUME NEW se, NEW mi, NEW fi, NEW st, NEW C, Flows(se, mi, fi, st, C), NEW D, NEW N,
         N \cap Occ(C) = {}, Occ(D) = Occ(C) \cup N
  PROVE  /\ se = {} => Flows(N, mi, fi, st, D)
         /\ mi = {} => Flows(se, N, fi, st, D)
BY DEF Flows

LEMMA FlowMoves ==
  ASSUME NEW se, NEW mi, NEW fi \in Seq(Occurrence), NEW st, NEW C, Flows(se, mi, fi, st, C)
  PROVE  /\ \A o \in se \cap Occurrence : Flows(se \ {o}, mi, Append(fi, o), st, C)
         /\ \A o \in mi : Flows(se, mi \ {o}, fi, st \cup {o}, C)
         /\ fi # <<>> => Flows(se, mi, Tail(fi), st \cup {Head(fi)}, C)
         /\ Flows({}, {}, <<>>, st \cup (se \cup mi \cup Ran(fi)), C)
<1>1. ASSUME NEW o \in se \cap Occurrence
      PROVE  Flows(se \ {o}, mi, Append(fi, o), st, C)
  <2>1. o \notin Ran(fi)
    BY DEF Flows
  <2>2. LET r == Append(fi, o) IN
        Ran(r) = Ran(fi) \cup {o} /\ \A i, j \in DOMAIN r : r[i] = r[j] => i = j
    BY <2>1, Pushed DEF Flows
  <2> QED BY <2>1, <2>2 DEF Flows
<1>2. ASSUME NEW o \in mi
      PROVE  Flows(se, mi \ {o}, fi, st \cup {o}, C)
  BY DEF Flows
<1>3. ASSUME fi # <<>>
      PROVE  Flows(se, mi, Tail(fi), st \cup {Head(fi)}, C)
  <2>1. LET r == Tail(fi) IN
        /\ Ran(fi) = Ran(r) \cup {Head(fi)} /\ Head(fi) \notin Ran(r)
        /\ \A i, j \in DOMAIN r : r[i] = r[j] => i = j
    BY <1>3, Popped DEF Flows
  <2> QED BY <2>1 DEF Flows
<1>4. Flows({}, {}, <<>>, st \cup (se \cup mi \cup Ran(fi)), C)
  BY RanEmpty DEF Flows
<1> QED BY <1>1, <1>2, <1>3, <1>4

----------------------------------------------------------------------------
\* Every step keeps the invariant.

LEMMA AccountLasts ==
  ASSUME NEW C, NEW m \in Nat, NEW n \in Nat, Account(C, m, n),
         NEW k \in Nat, m <= k, NEW l \in Nat, n <= l
  PROVE  Account(C, k, l)
BY DEF Account

LEMMA TableLasts ==
  ASSUME NEW S, NEW C, NEW n \in Nat, NEW X, Table(S, C, n, X), NEW l \in Nat, n <= l
  PROVE  Table(S, C, l, X)
<1>1. \A t \in S : t.uid \in Nat /\ t.id \in Nat
  BY DEF Table, Sound, Timer
<1> QED BY <1>1 DEF Table

\* A consumption that succeeds.
LEMMA ConsumeKeeps ==
  ASSUME TimersInv, Consume(disk)
  PROVE  /\ timers' = disk' /\ faults' = faults
         /\ disk' \subseteq Timer /\ consumed' \subseteq [uid : Nat, at : Nat, when : Nat]
         /\ Table(disk', consumed', births, cancelled) /\ Account(consumed', now, births)
         /\ Taken(disk) \subseteq Occurrence
         /\ Taken(disk) \cap Occ(consumed) = {} /\ Occ(consumed') = Occ(consumed) \cup Taken(disk)
<1>1. /\ now \in Nat /\ now # 0 /\ births \in Nat
      /\ Table(disk, consumed, births, cancelled) /\ Account(consumed, now, births)
  BY DEF TimersInv, TypeOK, Stored
<1>2. /\ disk' = Remaining(disk) /\ timers' = disk' /\ consumed' = consumed \cup New(disk)
      /\ faults' = faults
  BY DEF Consume, NoFault, New
<1>3. Table(disk', consumed', births, cancelled)
  BY <1>1, <1>2, ConsumeTable
<1>4. /\ Account(consumed', now, births)
      /\ Taken(disk) \subseteq Occurrence
      /\ Taken(disk) \cap Occ(consumed) = {} /\ Occ(consumed') = Occ(consumed) \cup Taken(disk)
  BY <1>1, <1>2, ConsumeAccount
<1>5. disk' \subseteq Timer
  BY <1>3 DEF Table, Sound
<1>6. consumed' \subseteq [uid : Nat, at : Nat, when : Nat]
  BY <1>4 DEF Account
<1> QED BY <1>2, <1>3, <1>4, <1>5, <1>6

LEMMA IdsStayBelow ==
  ASSUME TimersInv
  PROVE  /\ \A t \in Remaining(disk) : \E o \in disk : t.id = o.id
         /\ disk \subseteq Timer /\ timers \subseteq Timer /\ births \in Nat
<1>1. /\ now \in Nat /\ now # 0 /\ Table(disk, consumed, births, cancelled)
  BY DEF TimersInv, TypeOK, Stored
<1>2. \A t \in disk : Sound(t)
  BY <1>1 DEF Table
<1>3. \A t \in Remaining(disk) : \E o \in disk : t.id = o.id
  <2> SUFFICES ASSUME NEW t \in Remaining(disk)
               PROVE  \E o \in disk : t.id = o.id
    OBVIOUS
  <2>1. PICK o \in disk : t = o \/ (t = Advanced(o) /\ ~o.archived)
    BY InRemaining
  <2>2. ~o.archived => Advanced(o).id = o.id
    BY <1>1, <1>2, AdvancedIs
  <2> QED BY <2>1, <2>2
<1> QED BY <1>3 DEF TimersInv, TypeOK

LEMMA StartKeeps ==
  ASSUME TimersInv, Start
  PROVE  TimersInv'
<1>0. /\ up' = TRUE /\ sched' = "arm" /\ alarm' = 0 /\ changed' = FALSE
      /\ UNCHANGED <<now, sending, fired, births, snoozes, settled, cancelled>>
      /\ sending = {} /\ missed = {} /\ fired = <<>>
  BY DEF Start, TimersInv, Stored
<1>1. Table(disk, consumed, births, cancelled) /\ Account(consumed, now, births) /\ births \in Nat
      /\ \A u \in cancelled : u <= births
  BY DEF TimersInv, Stored, TypeOK
<1>2. Fresh(disk) \in Nat /\ Fresh(disk) <= births /\ \A t \in disk : t.id < Fresh(disk)
  BY <1>1, FreshIs
<1>3. /\ faults' \in 0..MaxFaults
      /\ retryAfter' \in Nat
  BY TimersAssumption DEF Start, Fault, NoFault, Consume, TimersInv, TypeOK
<1>4. CASE nextID' = Fresh(disk) /\ Consume(disk) /\ missed' = Taken(disk)
  <2>1. /\ timers' = disk' /\ disk' \subseteq Timer
        /\ consumed' \subseteq [uid : Nat, at : Nat, when : Nat]
        /\ Table(disk', consumed', births, cancelled) /\ Account(consumed', now, births)
        /\ Taken(disk) \subseteq Occurrence
        /\ Taken(disk) \cap Occ(consumed) = {} /\ Occ(consumed') = Occ(consumed) \cup Taken(disk)
    BY <1>4, ConsumeKeeps
  <2>2. \A t \in timers' : t.id < nextID'
    <3>1. timers' = Remaining(disk)
      BY <1>4 DEF Consume
    <3> QED BY <1>2, <1>4, <3>1, IdsStayBelow
  <2>3. Flows(sending', missed', fired', settled', consumed')
    <3>1. Flows(sending, missed, fired, settled, consumed)
      BY DEF TimersInv
    <3>2. Flows(sending, Taken(disk), fired, settled, consumed')
      BY <1>0, <2>1, <3>1, FlowTakes
    <3> QED BY <1>0, <1>4, <3>2
  <2>4. Stored'
    BY <1>0, <1>1, <1>2, <1>4, <2>1, <2>2 DEF Stored
  <2>5. TypeOK'
    BY <1>0, <1>2, <1>3, <1>4, <2>1 DEF TypeOK, TimersInv
  <2> QED BY <1>0, <2>3, <2>4, <2>5 DEF TimersInv
<1>5. CASE nextID' = Fresh(disk) /\ timers' = disk /\ missed' = {} /\ UNCHANGED <<disk, consumed>>
  <2>1. Stored'
    BY <1>0, <1>1, <1>2, <1>5 DEF Stored
  <2>2. TypeOK'
    BY <1>0, <1>2, <1>3, <1>5 DEF TypeOK, TimersInv
  <2> QED BY <1>0, <1>5, <2>1, <2>2 DEF TimersInv
<1>6. CASE unread' = TRUE /\ nextID' = 0 /\ timers' = {} /\ missed' = {} /\ UNCHANGED <<disk, consumed>>
  <2>1. Stored'
    BY <1>0, <1>1, <1>6 DEF Stored
  <2>2. TypeOK'
    BY <1>0, <1>3, <1>6 DEF TypeOK, TimersInv
  <2> QED BY <1>0, <1>6, <2>1, <2>2 DEF TimersInv
<1> QED BY <1>4, <1>5, <1>6 DEF Start

LEMMA CrashKeeps ==
  ASSUME TimersInv, Crash
  PROVE  TimersInv'
<1>0. /\ up' = FALSE /\ timers' = {} /\ nextID' = 0 /\ retryAfter' = 0
      /\ sched' = "arm" /\ alarm' = 0 /\ changed' = FALSE
      /\ sending' = {} /\ fired' = <<>> /\ missed' = {}
      /\ settled' = settled \cup (sending \cup missed \cup Ran(fired))
      /\ UNCHANGED <<now, disk, births, snoozes, consumed, unread, cancelled>>
  BY DEF Crash, InFlight, Ran
<1>1. Stored'
  BY <1>0 DEF Stored, TimersInv, TypeOK
<1>2. TypeOK'
  <2>1. faults' \in 0..MaxFaults
    BY TimersAssumption DEF Crash, Fault, TimersInv, TypeOK
  <2>2. fired' \in Seq(Occurrence) /\ Len(fired') <= Capacity
    BY <1>0, TimersAssumption
  <2>3. Ran(fired) \subseteq Occurrence
    BY DEF Ran, TimersInv, TypeOK
  <2> QED BY <1>0, <2>1, <2>2, <2>3 DEF TypeOK, TimersInv
<1>3. Flows(sending', missed', fired', settled', consumed')
  <2>1. Flows(sending, missed, fired, settled, consumed) /\ fired \in Seq(Occurrence)
    BY DEF TimersInv, TypeOK
  <2>2. Flows({}, {}, <<>>, settled \cup (sending \cup missed \cup Ran(fired)), consumed)
    BY <2>1, FlowMoves
  <2> QED BY <1>0, <2>2
<1> QED BY <1>0, <1>1, <1>2, <1>3 DEF TimersInv

LEMMA EmitKeeps ==
  ASSUME TimersInv, EmitDue
  PROVE  TimersInv'
<1>0. /\ up /\ sched = "wait"
      /\ UNCHANGED <<now, up, nextID, alarm, changed, fired, missed, births, snoozes,
                     settled, unread, cancelled>>
  BY DEF EmitDue
<1>1. /\ Table(disk, consumed, births, cancelled) /\ Account(consumed, now, births) /\ births \in Nat
      /\ timers = disk \/ (unread /\ timers = {})
      /\ \A t \in timers : t.id < nextID
      /\ sending = {}
      /\ nextID <= births /\ \A u \in cancelled : u <= births
  BY <1>0 DEF TimersInv, Stored, TypeOK
<1>2. faults' \in 0..MaxFaults /\ retryAfter' \in Nat
  BY TimersAssumption DEF EmitDue, Fault, NoFault, Consume, TimersInv, TypeOK
<1>3. CASE DueIn(timers) # {} /\ Consume(timers) /\ sending' = Taken(timers) /\ sched' = "send"
  <2>1. timers = disk
    <3>1. timers # {}
      BY <1>3 DEF DueIn, Live
    <3> QED BY <1>1, <3>1
  <2>2. /\ timers' = disk' /\ disk' \subseteq Timer
        /\ consumed' \subseteq [uid : Nat, at : Nat, when : Nat]
        /\ Table(disk', consumed', births, cancelled) /\ Account(consumed', now, births)
        /\ Taken(disk) \subseteq Occurrence
        /\ Taken(disk) \cap Occ(consumed) = {} /\ Occ(consumed') = Occ(consumed) \cup Taken(disk)
    BY <1>3, <2>1, ConsumeKeeps
  <2>3. \A t \in timers' : t.id < nextID'
    <3>1. timers' = Remaining(disk)
      BY <1>3, <2>1 DEF Consume
    <3> QED BY <1>0, <1>1, <2>1, <3>1, IdsStayBelow
  <2>4. Flows(sending', missed', fired', settled', consumed')
    <3>1. Flows(sending, missed, fired, settled, consumed)
      BY DEF TimersInv
    <3>2. Flows(Taken(disk), missed, fired, settled, consumed')
      BY <1>1, <2>2, <3>1, FlowTakes
    <3> QED BY <1>0, <1>3, <2>1, <3>2
  <2>5. Stored'
    BY <1>0, <1>1, <2>2, <2>3 DEF Stored
  <2>6. Taken(disk) # {}
    BY <1>3, <2>1 DEF Taken
  <2>7. TypeOK'
    BY <1>0, <1>2, <1>3, <2>1, <2>2, <2>6 DEF TypeOK, TimersInv
  <2> QED BY <1>0, <2>4, <2>5, <2>7 DEF TimersInv
<1>4. CASE sched' = "arm" /\ UNCHANGED <<timers, disk, consumed, sending>>
  <2>1. Stored'
    BY <1>0, <1>4 DEF Stored, TimersInv
  <2>2. TypeOK'
    BY <1>0, <1>1, <1>2, <1>4 DEF TypeOK, TimersInv
  <2> QED BY <1>0, <1>4, <2>1, <2>2 DEF TimersInv
<1> QED BY <1>3, <1>4 DEF EmitDue

\* The steps that leave the table alone.
LEMMA OthersKeep ==
  ASSUME TimersInv, Arm \/ Wake \/ Send \/ AnnounceMissed \/ AnnounceFired \/ Tick
  PROVE  TimersInv'
<1>1. /\ UNCHANGED <<up, timers, disk, nextID, births, consumed, unread, cancelled>>
      /\ UNCHANGED <<faults, snoozes, retryAfter>>
  BY DEF Arm, Wake, Send, AnnounceMissed, AnnounceFired, Tick, counts, ghosts
<1>2. now \in Nat /\ now' \in Nat /\ now <= now' /\ now' # 0 /\ births \in Nat
  BY DEF Arm, Wake, Send, AnnounceMissed, AnnounceFired, Tick, TimersInv, TypeOK
<1>3. Account(consumed', now', births')
  <2>1. Account(consumed, now, births)
    BY DEF TimersInv, Stored
  <2> QED BY <1>1, <1>2, <2>1, AccountLasts
<1>4. ASSUME Flows(sending', missed', fired', settled', consumed'),
             ~up => sending' = {} /\ missed' = {} /\ fired' = <<>>,
             /\ sched' \in {"arm", "wait", "send"} /\ alarm' \in Nat /\ changed' \in BOOLEAN
             /\ sending' \subseteq Occurrence /\ missed' \subseteq Occurrence
             /\ fired' \in Seq(Occurrence) /\ Len(fired') <= Capacity
             /\ sched' = "send" <=> sending' # {}
             /\ settled' \subseteq Occurrence
      PROVE  TimersInv'
  <2>1. Stored'
    BY <1>1, <1>3, <1>4 DEF Stored, TimersInv
  <2>2. TypeOK'
    BY <1>1, <1>2, <1>4 DEF TypeOK, TimersInv
  <2> QED BY <1>2, <1>4, <2>1, <2>2 DEF TimersInv
<1>5. /\ Flows(sending, missed, fired, settled, consumed)
      /\ ~up => sending = {} /\ missed = {} /\ fired = <<>>
      /\ sched \in {"arm", "wait", "send"} /\ alarm \in Nat /\ changed \in BOOLEAN
      /\ sending \subseteq Occurrence /\ missed \subseteq Occurrence
      /\ fired \in Seq(Occurrence) /\ Len(fired) <= Capacity /\ Len(fired) \in Nat
      /\ sched = "send" <=> sending # {}
      /\ settled \subseteq Occurrence /\ timers \subseteq Timer /\ retryAfter \in Nat
      /\ Capacity \in Nat
  BY TimersAssumption DEF TimersInv, Stored, TypeOK
<1>6. CASE Arm
  <2>1. alarm' \in Nat
    <3>1. CASE Live(timers) = {}
      BY <1>6, <3>1 DEF Arm, NextAlarm
    <3>2. CASE Live(timers) # {}
      <4> DEFINE L == {t.deadline : t \in Live(timers)}
                 first == CHOOSE d \in L : \A t \in Live(timers) : d <= t.deadline
      <4>1. L \in SUBSET Nat /\ L # {}
        BY <1>5, <3>2 DEF Live, Timer
      <4>2. \E d \in L : \A e \in L : d <= e
        <5> HIDE DEF L
        <5> QED BY <4>1, Least
      <4>3. first \in L
        BY <4>2
      <4>4. alarm' \in {retryAfter, first}
        BY <1>6, <3>2 DEF Arm, NextAlarm
      <4> HIDE DEF first, L
      <4> QED BY <1>5, <4>1, <4>3, <4>4
    <3> QED BY <3>1, <3>2
  <2>2. /\ sched' = "wait" /\ sched = "arm"
        /\ UNCHANGED <<changed, sending, missed, fired, settled, consumed>>
    BY <1>6 DEF Arm, queues, ghosts
  <2> QED BY <1>4, <1>5, <2>1, <2>2
<1>7. CASE Wake
  <2>1. /\ changed' = FALSE /\ sched' = "arm" /\ sched = "wait"
        /\ UNCHANGED <<alarm, sending, missed, fired, settled, consumed>>
    BY <1>7 DEF Wake, queues, ghosts
  <2> QED BY <1>4, <1>5, <2>1
<1>8. CASE Send
  <2> DEFINE o == Earliest(sending)
  <2>1. /\ up /\ sched = "send" /\ Len(fired) < Capacity
        /\ fired' = Append(fired, o) /\ sending' = sending \ {o}
        /\ sched' = IF sending' = {} THEN "arm" ELSE "send"
        /\ UNCHANGED <<alarm, changed, missed, settled, consumed>>
    BY <1>8 DEF Send, ghosts
  <2>2. o \in sending /\ o \in Occurrence
    BY <1>5, <2>1, EarliestIsOne
  <2> HIDE DEF o
  <2>3. Flows(sending', missed', fired', settled', consumed')
    <3>1. Flows(sending \ {o}, missed, Append(fired, o), settled, consumed)
      BY <1>5, <2>2, FlowMoves
    <3> QED BY <2>1, <3>1
  <2>4. fired' \in Seq(Occurrence) /\ Len(fired') <= Capacity
    BY <1>5, <2>1, <2>2
  <2> QED BY <1>4, <1>5, <2>1, <2>3, <2>4
<1>9. CASE AnnounceMissed
  <2> DEFINE o == Earliest(missed)
  <2>1. /\ up /\ missed # {} /\ missed' = missed \ {o} /\ settled' = settled \cup {o}
        /\ UNCHANGED <<sched, alarm, changed, sending, fired, consumed>>
    BY <1>9 DEF AnnounceMissed, Say, goroutine
  <2>2. o \in missed /\ o \in Occurrence
    BY <1>5, <2>1, EarliestIsOne
  <2> HIDE DEF o
  <2>3. Flows(sending', missed', fired', settled', consumed')
    <3>1. Flows(sending, missed \ {o}, fired, settled \cup {o}, consumed)
      BY <1>5, <2>2, FlowMoves
    <3> QED BY <2>1, <3>1
  <2> QED BY <1>4, <1>5, <2>1, <2>2, <2>3
<1>10. CASE AnnounceFired
  <2>1. /\ up /\ fired # <<>> /\ fired' = Tail(fired) /\ settled' = settled \cup {Head(fired)}
        /\ UNCHANGED <<sched, alarm, changed, sending, missed, consumed>>
    BY <1>10 DEF AnnounceFired, Serving, Say, goroutine
  <2>2. Flows(sending', missed', fired', settled', consumed')
    <3>1. Flows(sending, missed, Tail(fired), settled \cup {Head(fired)}, consumed)
      BY <1>5, <2>1, FlowMoves
    <3> QED BY <2>1, <3>1
  <2>3. fired' \in Seq(Occurrence) /\ Len(fired') <= Capacity /\ Head(fired) \in Occurrence
    BY <1>5, <2>1
  <2> QED BY <1>4, <1>5, <2>1, <2>2, <2>3
<1>11. CASE Tick
  <2>1. UNCHANGED <<sched, alarm, changed, sending, missed, fired, settled, consumed>>
    BY <1>11 DEF Tick, goroutine, queues, ghosts
  <2> QED BY <1>4, <1>5, <2>1
<1> QED BY <1>6, <1>7, <1>8, <1>9, <1>10, <1>11

\* A change that is saved, or not: memory and table move together.
LEMMA SaveKeeps ==
  ASSUME TimersInv, up, NEW next, Saves(next),
         UNCHANGED <<now, up, retryAfter, goroutine, queues, consumed, settled, unread>>,
         births' \in 0..MaxBirths, births <= births', snoozes' \in 0..MaxSnoozes,
         nextID' \in Nat, nextID' <= births',
         timers' = next =>
           /\ cancelled' \subseteq Nat /\ \A u \in cancelled' : u <= births'
           /\ Table(next, consumed, births', cancelled')
           /\ \A t \in next : t.id < nextID',
         timers' = timers => cancelled' = cancelled /\ nextID' >= nextID
  PROVE  TimersInv'
<1>0. consumed' = consumed /\ unread' = unread
  OBVIOUS
<1>1. /\ Table(disk, consumed, births, cancelled) /\ Account(consumed, now, births)
      /\ births \in Nat /\ births' \in Nat /\ now \in Nat /\ now' = now /\ nextID \in Nat
      /\ timers = disk \/ (unread /\ timers = {})
      /\ \A t \in timers : t.id < nextID /\ t.id \in Nat
      /\ \A u \in cancelled : u <= births /\ u \in Nat
      /\ cancelled \subseteq Nat
  <2>1. \A t \in timers : t.id \in Nat
    BY DEF TimersInv, TypeOK, Timer
  <2> QED BY <2>1, TimersAssumption DEF TimersInv, Stored, TypeOK
<1>2. Account(consumed', now', births')
  BY <1>1, AccountLasts
<1>3. /\ faults' \in 0..MaxFaults /\ changed' \in BOOLEAN
      /\ \/ timers' = next /\ disk' = next
         \/ timers' = timers /\ disk' = disk
  <2>1. faults \in 0..MaxFaults /\ changed \in BOOLEAN /\ MaxFaults \in Nat
    BY TimersAssumption DEF TimersInv, TypeOK
  <2>2. CASE timers' = next /\ disk' = next /\ changed' = TRUE /\ faults' = faults
    BY <2>1, <2>2
  <2>3. CASE UNCHANGED <<timers, disk, changed>> /\ faults < MaxFaults /\ faults' = faults + 1
    BY <2>1, <2>3
  <2> QED BY <2>2, <2>3 DEF Saves, Fault, NoFault
<1>4. /\ Table(disk', consumed', births', cancelled')
      /\ cancelled' \subseteq Nat /\ \A u \in cancelled' : u <= births'
      /\ timers' = disk' \/ (unread' /\ timers' = {})
      /\ \A t \in timers' : t.id < nextID'
  <2>1. CASE timers' = next /\ disk' = next
    BY <2>1
  <2>2. CASE timers' = timers /\ disk' = disk
    <3>1. Table(disk, consumed, births', cancelled)
      BY <1>1, TableLasts
    <3>2. cancelled' = cancelled /\ nextID' >= nextID
      BY <2>2
    <3>3. \A o \in timers' : o.id < nextID'
      BY <1>1, <2>2, <3>2
    <3>4. cancelled' \subseteq Nat /\ \A u \in cancelled' : u <= births'
      BY <1>1, <3>2
    <3> QED BY <1>0, <1>1, <2>2, <3>1, <3>2, <3>3, <3>4
  <2> QED BY <1>3, <2>1, <2>2
<1>5. disk' \subseteq Timer /\ timers' \subseteq Timer
  BY <1>4 DEF Table, Sound
<1>6. Stored'
  BY <1>2, <1>4 DEF Stored
<1>7. TypeOK'
  BY <1>3, <1>4, <1>5 DEF TypeOK, TimersInv, goroutine, queues
<1> QED BY <1>6, <1>7 DEF TimersInv, queues

LEMMA NewIsSound ==
  ASSUME NEW u \in Nat, NEW i \in Nat, NEW deadline \in Nat \ {0}, NEW reminder \in BOOLEAN,
         NEW period \in Nat, NEW civil \in BOOLEAN, NEW f \in Nat,
         period # 0 => f < period,
         ~civil /\ period # 0 => deadline % period = f,
         civil => /\ period \in {Day, Week} /\ First(deadline) /\ Local(deadline) % period = f
  PROVE  Sound([uid |-> u, id |-> i, deadline |-> deadline, reminder |-> reminder,
                period |-> period, civil |-> civil, resume |-> 0, last |-> 0, archived |-> FALSE,
                phase |-> f])
<1> DEFINE t == [uid |-> u, id |-> i, deadline |-> deadline, reminder |-> reminder,
                 period |-> period, civil |-> civil, resume |-> 0, last |-> 0, archived |-> FALSE,
                 phase |-> f]
<1>1. t \in Timer
  BY DEF Timer
<1>2. /\ t.deadline = deadline /\ t.period = period /\ t.civil = civil
      /\ t.archived = FALSE /\ t.phase = f /\ t.resume = 0
  OBVIOUS
<1> HIDE DEF t
<1>3. DueOf(t) = deadline
  BY <1>2 DEF DueOf
<1>4. civil => period # 0
  BY PeriodsPositive
<1>5. t.civil => /\ t.period \in {Day, Week} /\ t.phase < t.period
                 /\ First(DueOf(t)) /\ Local(DueOf(t)) % t.period = t.phase
  BY <1>2, <1>3, <1>4
<1>6. t.period # 0 /\ ~t.civil => DueOf(t) % t.period = t.phase
  BY <1>2, <1>3
<1>7. t.deadline # 0 /\ ~t.archived
  BY <1>2
<1>8. Sound(t)
  BY <1>1, <1>5, <1>6, <1>7 DEF Sound
<1> QED BY <1>8 DEF t

LEMMA AddKeeps ==
  ASSUME TimersInv, NEW deadline \in Nat \ {0}, NEW reminder \in BOOLEAN, NEW period \in Nat,
         NEW civil \in BOOLEAN, civil => period \in {Day, Week} /\ First(deadline),
         Add(deadline, reminder, period, civil)
  PROVE  TimersInv'
<1> DEFINE t == [uid |-> births + 1, id |-> nextID, deadline |-> deadline, reminder |-> reminder,
                 period |-> period, civil |-> civil, resume |-> 0, last |-> 0, archived |-> FALSE,
                 phase |-> IF period = 0 THEN 0
                           ELSE (IF civil THEN Local(deadline) ELSE deadline) % period]
<1>1. /\ up /\ Saves(timers \cup {t}) /\ births < MaxBirths /\ births' = births + 1
      /\ nextID' = IF timers' = timers THEN nextID ELSE nextID + 1
      /\ UNCHANGED <<now, up, retryAfter, goroutine, queues, snoozes, ghosts>>
  BY DEF Add, Serving
<1>2. /\ births \in Nat /\ nextID \in Nat /\ nextID <= births /\ MaxBirths \in Nat
      /\ births' \in 0..MaxBirths /\ snoozes' \in 0..MaxSnoozes
      /\ nextID' \in Nat /\ nextID' <= births' /\ nextID' >= nextID
      /\ Table(disk, consumed, births, cancelled) /\ Account(consumed, now, births)
      /\ cancelled \subseteq Nat /\ \A u \in cancelled : u <= births /\ u \in Nat
      /\ timers \in SUBSET disk /\ \A o \in timers : o.id < nextID /\ o.uid <= births
      /\ \A o \in timers : o.id \in Nat /\ o.uid \in Nat
  <2>1. /\ births \in Nat /\ nextID \in Nat /\ nextID <= births /\ MaxBirths \in Nat
        /\ snoozes' \in 0..MaxSnoozes
        /\ Table(disk, consumed, births, cancelled) /\ Account(consumed, now, births)
        /\ cancelled \subseteq Nat /\ \A u \in cancelled : u <= births /\ u \in Nat
        /\ timers \in SUBSET disk /\ \A o \in timers : o.id < nextID
    BY <1>1, TimersAssumption DEF TimersInv, Stored, TypeOK
  <2>2. \A o \in timers : o.id \in Nat /\ o.uid \in Nat
    BY DEF TimersInv, TypeOK, Timer
  <2>3. \A o \in timers : o.uid <= births
    BY <2>1 DEF Table
  <2> QED BY <1>1, <2>1, <2>2, <2>3
<1>3. Sound(t)
  <2> DEFINE f == IF period = 0 THEN 0 ELSE (IF civil THEN Local(deadline) ELSE deadline) % period
  <2>1. /\ f \in Nat
        /\ period # 0 => f < period
        /\ period # 0 /\ civil => f = Local(deadline) % period
        /\ period # 0 /\ ~civil => f = deadline % period
    <3>1. CASE period = 0
      BY <3>1
    <3>2. CASE period # 0 /\ civil
      <4>1. Local(deadline) \in Nat
        BY LocalBounds
      <4>2. Local(deadline) % period \in Nat /\ Local(deadline) % period < period
        BY <3>2, <4>1, Modulo
      <4>3. f = Local(deadline) % period
        BY <3>2
      <4> HIDE DEF f
      <4> QED BY <3>2, <4>2, <4>3
    <3>3. CASE period # 0 /\ ~civil
      BY <3>3, Modulo
    <3> QED BY <3>1, <3>2, <3>3
  <2> HIDE DEF f
  <2>2. births + 1 \in Nat /\ nextID \in Nat
    BY <1>2
  <2>3. Sound([uid |-> births + 1, id |-> nextID, deadline |-> deadline, reminder |-> reminder,
               period |-> period, civil |-> civil, resume |-> 0, last |-> 0, archived |-> FALSE,
               phase |-> f])
    <3>1. civil => /\ period \in {Day, Week} /\ First(deadline) /\ Local(deadline) % period = f
      <4>1. civil => period # 0
        BY PeriodsPositive
      <4> QED BY <2>1, <4>1
    <3>2. f \in Nat /\ (period # 0 => f < period)
      BY <2>1
    <3>3. ~civil /\ period # 0 => deadline % period = f
      BY <2>1
    <3> QED BY <2>2, <3>1, <3>2, <3>3, NewIsSound
  <2> QED BY <2>3 DEF f
<1>4. t.uid = births + 1 /\ t.id = nextID
  OBVIOUS
<1> HIDE DEF t
<1>5. Table(timers, consumed, births, cancelled)
  BY <1>2, TableShrinks
<1>6. Table(timers \cup {t}, consumed, births + 1, cancelled)
  <2>1. t.uid = births + 1 /\ t.id <= births /\ \A o \in timers : o.id < t.id
    BY <1>2, <1>4
  <2>2. \A u \in cancelled : u <= births /\ u \in Nat
    BY <1>2
  <2>3. births \in Nat /\ Account(consumed, now, births)
    BY <1>2
  <2> QED BY <1>3, <1>5, <2>1, <2>2, <2>3, TableGrows
<1>7. timers' = timers \cup {t} => nextID' = nextID + 1
  <2>1. t \notin timers
    BY <1>2, <1>4
  <2> QED BY <1>1, <2>1
<1>8. cancelled' = cancelled
  BY <1>1 DEF ghosts
<1>9. timers' = timers \cup {t} =>
        /\ cancelled' \subseteq Nat /\ \A u \in cancelled' : u <= births'
        /\ Table(timers \cup {t}, consumed, births', cancelled')
        /\ \A o \in timers \cup {t} : o.id < nextID'
  <2>1. \A u \in cancelled' : u <= births'
    BY <1>1, <1>2, <1>8
  <2>2. nextID' = nextID + 1 => \A o \in timers \cup {t} : o.id < nextID'
    BY <1>2, <1>4
  <2>3. Table(timers \cup {t}, consumed, births', cancelled')
    BY <1>1, <1>6, <1>8
  <2> QED BY <1>2, <1>7, <1>8, <2>1, <2>2, <2>3
<1>10. /\ UNCHANGED <<now, up, retryAfter, goroutine, queues, consumed, settled, unread>>
       /\ births <= births'
       /\ timers' = timers => cancelled' = cancelled /\ nextID' >= nextID
  BY <1>1, <1>2, <1>8 DEF ghosts
<1> QED BY <1>1, <1>2, <1>9, <1>10, SaveKeeps

\* What is said gives every new record a deadline that lies ahead, and a calendar one a moment
\* that shows its wall time for the first time.
LEMMA AddsKeep ==
  ASSUME TimersInv,
         AddTimer \/ AddReminder \/ AddOnDate \/ AddSeries \/ AddDaily \/ AddWeekly
  PROVE  TimersInv'
<1>1. now \in Nat
  BY DEF TimersInv, TypeOK
<1>2. CASE AddTimer
  <2>1. PICK d \in Durations : Add(now + d, FALSE, 0, FALSE)
    BY <1>2 DEF AddTimer
  <2>2. now + d \in Nat \ {0}
    BY <1>1, TimersAssumption
  <2> QED BY <2>1, <2>2, AddKeeps
<1>3. CASE AddReminder
  <2>1. PICK d \in Durations : Add(now + d, TRUE, 0, FALSE)
    BY <1>3 DEF AddReminder
  <2>2. now + d \in Nat \ {0}
    BY <1>1, TimersAssumption
  <2> QED BY <2>1, <2>2, AddKeeps
<1>4. CASE AddSeries
  <2>1. PICK p \in Periods : Add(now + p, TRUE, p, FALSE)
    BY <1>4 DEF AddSeries
  <2>2. now + p \in Nat \ {0} /\ p \in Nat
    BY <1>1, TimersAssumption
  <2> QED BY <2>1, <2>2, AddKeeps
<1>5. CASE AddOnDate
  <2>1. PICK wall \in 0..(Local(now) + MaxAhead + Shift) :
          \E when \in CivilTime(wall) : when > now /\ Add(when, TRUE, 0, FALSE)
    BY <1>5 DEF AddOnDate
  <2>2. PICK when \in CivilTime(wall) : when > now /\ Add(when, TRUE, 0, FALSE)
    BY <2>1
  <2>3. wall \in Nat
    BY <2>1
  <2>4. when \in Nat
    BY <2>2, <2>3, CivilTimeIsFirst
  <2>5. when \in Nat \ {0}
    BY <1>1, <2>2, <2>4
  <2> QED BY <2>2, <2>5, AddKeeps
<1>6. CASE AddDaily
  <2>1. PICK wall \in DailyAt : Add(CivilAfter(Day, wall, now), TRUE, Day, TRUE)
    BY <1>6 DEF AddDaily
  <2>2. wall \in Nat /\ wall < Day
    BY TimersAssumption, PeriodsPositive
  <2> DEFINE e == CivilAfter(Day, wall, now)
  <2>3. e \in Nat /\ now < e /\ First(e)
    BY <1>1, <2>2, CivilAfterIsNext
  <2> HIDE DEF e
  <2>4. e \in Nat \ {0} /\ Day \in Nat
    BY <1>1, <2>3, PeriodsPositive
  <2>5. Add(e, TRUE, Day, TRUE)
    BY <2>1 DEF e
  <2> QED BY <2>3, <2>4, <2>5, AddKeeps
<1>7. CASE AddWeekly
  <2>1. PICK wall \in WeeklyAt : Add(CivilAfter(Week, wall, now), TRUE, Week, TRUE)
    BY <1>7 DEF AddWeekly
  <2>2. wall \in Nat /\ wall < Week
    BY TimersAssumption, PeriodsPositive
  <2> DEFINE e == CivilAfter(Week, wall, now)
  <2>3. e \in Nat /\ now < e /\ First(e)
    BY <1>1, <2>2, CivilAfterIsNext
  <2> HIDE DEF e
  <2>4. e \in Nat \ {0} /\ Week \in Nat
    BY <1>1, <2>3, PeriodsPositive
  <2>5. Add(e, TRUE, Week, TRUE)
    BY <2>1 DEF e
  <2> QED BY <2>3, <2>4, <2>5, AddKeeps
<1> QED BY <1>2, <1>3, <1>4, <1>5, <1>6, <1>7

LEMMA SnoozeKeeps ==
  ASSUME TimersInv, Snooze
  PROVE  TimersInv'
<1>1. /\ up /\ snoozes < MaxSnoozes /\ snoozes' = snoozes + 1
      /\ UNCHANGED <<now, up, nextID, retryAfter, goroutine, queues, births, ghosts>>
  BY DEF Snooze, Serving
<1>2. PICK t \in timers, d \in Durations : Saves((timers \ {t}) \cup {Snoozed(t, d)})
  BY DEF Snooze
<1> DEFINE next == (timers \ {t}) \cup {Snoozed(t, d)}
<1>3. /\ Table(disk, consumed, births, cancelled) /\ Account(consumed, now, births)
      /\ births \in 0..MaxBirths /\ births \in Nat /\ snoozes \in 0..MaxSnoozes
      /\ MaxSnoozes \in Nat
      /\ now \in Nat /\ nextID \in Nat /\ nextID <= births /\ timers \in SUBSET disk
      /\ \A o \in timers : o.id < nextID
      /\ cancelled \subseteq Nat /\ \A u \in cancelled : u <= births
  BY <1>1, TimersAssumption DEF TimersInv, Stored, TypeOK
<1>4. d \in Nat \ {0}
  BY TimersAssumption
<1>5. Table(timers, consumed, births, cancelled)
  BY <1>3, TableShrinks
<1>6. Table(next, consumed, births, cancelled)
  BY <1>3, <1>4, <1>5, TableSnoozes
<1>7. Snoozed(t, d).id = t.id
  <2>1. t \in Timer
    BY DEF TimersInv, TypeOK
  <2> QED BY <2>1 DEF Snoozed, Timer
<1>8. \A o \in next : o.id < nextID
  BY <1>3, <1>7
<1> HIDE DEF next
<1>9. Saves(next)
  BY <1>2 DEF next
<1>10. /\ UNCHANGED <<now, up, retryAfter, goroutine, queues, consumed, settled, unread>>
       /\ births' = births /\ nextID' = nextID /\ cancelled' = cancelled
       /\ snoozes' \in 0..MaxSnoozes
  BY <1>1, <1>3 DEF ghosts
<1>11. timers' = next =>
         /\ cancelled' \subseteq Nat /\ \A u \in cancelled' : u <= births'
         /\ Table(next, consumed, births', cancelled')
         /\ \A o \in next : o.id < nextID'
  BY <1>3, <1>6, <1>8, <1>10
<1>12. /\ births' \in 0..MaxBirths /\ births <= births' /\ nextID' \in Nat /\ nextID' <= births'
       /\ timers' = timers => cancelled' = cancelled /\ nextID' >= nextID
  BY <1>3, <1>10
<1> QED BY <1>1, <1>9, <1>10, <1>11, <1>12, SaveKeeps

LEMMA CancelKeeps ==
  ASSUME TimersInv, Cancel
  PROVE  TimersInv'
<1>1. /\ up
      /\ UNCHANGED <<now, up, nextID, retryAfter, goroutine, queues, births, snoozes,
                     consumed, settled, unread>>
  BY DEF Cancel, Serving
<1>2. PICK match \in SUBSET timers :
        /\ Saves(timers \ match)
        /\ cancelled' = IF timers' = timers THEN cancelled
                        ELSE cancelled \cup {t.uid : t \in match}
  BY DEF Cancel
<1> DEFINE next == timers \ match
<1>3. /\ Table(disk, consumed, births, cancelled)
      /\ births \in 0..MaxBirths /\ births \in Nat /\ snoozes \in 0..MaxSnoozes
      /\ nextID \in Nat /\ nextID <= births /\ timers \in SUBSET disk
      /\ \A o \in timers : o.id < nextID
      /\ cancelled \subseteq Nat /\ \A u \in cancelled : u <= births
  BY <1>1, TimersAssumption DEF TimersInv, Stored, TypeOK
<1>4. cancelled' \subseteq cancelled \cup {t.uid : t \in match}
  BY <1>2
<1>5. \A t \in timers : t.uid \in Nat /\ t.uid <= births
  <2>1. \A t \in timers : t.uid \in Nat
    BY DEF TimersInv, TypeOK, Timer
  <2> QED BY <1>3, <2>1 DEF Table
<1>6. cancelled' \subseteq Nat /\ \A u \in cancelled' : u <= births
  BY <1>3, <1>4, <1>5
<1>7. \A t \in next : t.uid \notin cancelled' \ cancelled
  <2>1. \A t, o \in timers : t.uid = o.uid => t = o
    BY <1>3 DEF Table
  <2> QED BY <1>4, <2>1
<1>8. Table(next, consumed, births, cancelled')
  <2>1. next \in SUBSET disk
    BY <1>3
  <2> HIDE DEF next
  <2> QED BY <1>3, <1>7, <2>1, TableShrinks
<1>9. /\ births' = births /\ nextID' = nextID /\ snoozes' = snoozes
      /\ UNCHANGED <<now, up, retryAfter, goroutine, queues, consumed, settled, unread>>
  BY <1>1
<1>10. timers' = next =>
         /\ cancelled' \subseteq Nat /\ \A u \in cancelled' : u <= births'
         /\ Table(next, consumed, births', cancelled')
         /\ \A o \in next : o.id < nextID'
  BY <1>3, <1>6, <1>8, <1>9
<1>11. /\ births' \in 0..MaxBirths /\ births <= births' /\ nextID' \in Nat /\ nextID' <= births'
       /\ snoozes' \in 0..MaxSnoozes
       /\ timers' = timers => cancelled' = cancelled /\ nextID' >= nextID
  BY <1>2, <1>3, <1>9
<1>12. Saves(next)
  BY <1>2
<1> HIDE DEF next
<1> QED BY <1>1, <1>9, <1>10, <1>11, <1>12, SaveKeeps

\* Of any listener, table and calendar: the records are sound, no two share a name, each rings
\* after everything that was taken of it and passes no moment of its series over, and what was
\* taken is on its way, once, or settled.
THEOREM TimersInvariant == Spec => []TimersInv
<1>1. Init => TimersInv
  <2> SUFFICES ASSUME Init
               PROVE  TimersInv
    OBVIOUS
  <2> USE DEF Init
  <2>1. TypeOK
    <3>1. fired \in Seq(Occurrence) /\ Len(fired) <= Capacity
      BY TimersAssumption
    <3>2. births \in 0..MaxBirths /\ snoozes \in 0..MaxSnoozes /\ faults \in 0..MaxFaults
      BY TimersAssumption
    <3> QED BY <3>1, <3>2 DEF TypeOK
  <2>2. Table(disk, consumed, births, cancelled) /\ Account(consumed, now, births)
    BY DEF Table, Account
  <2>3. Flows(sending, missed, fired, settled, consumed)
    BY RanEmpty DEF Flows, Occ
  <2> QED BY <2>1, <2>2, <2>3 DEF TimersInv, Stored
<1>2. TimersInv /\ [Next]_vars => TimersInv'
  <2> SUFFICES ASSUME TimersInv, [Next]_vars
               PROVE  TimersInv'
    OBVIOUS
  <2>1. CASE Start
    BY <2>1, StartKeeps
  <2>2. CASE Crash
    BY <2>2, CrashKeeps
  <2>3. CASE EmitDue
    BY <2>3, EmitKeeps
  <2>4. CASE Arm \/ Wake \/ Send \/ AnnounceMissed \/ AnnounceFired \/ Tick
    BY <2>4, OthersKeep
  <2>5. CASE AddTimer \/ AddReminder \/ AddOnDate \/ AddSeries \/ AddDaily \/ AddWeekly
    BY <2>5, AddsKeep
  <2>6. CASE Snooze
    BY <2>6, SnoozeKeeps
  <2>7. CASE Cancel
    BY <2>7, CancelKeeps
  <2>8. CASE UNCHANGED vars
    BY <2>8 DEF vars, goroutine, queues, counts, ghosts, TimersInv, TypeOK, Stored
  <2> QED BY <2>1, <2>2, <2>3, <2>4, <2>5, <2>6, <2>7, <2>8
          DEF Next, Scheduler, Announce, Speech
<1> QED BY <1>1, <1>2, PTL DEF Spec

----------------------------------------------------------------------------
\* Consequences.

\* Every variable keeps its type, and no counter passes its bound.
THEOREM TypeCorrect == Spec => []TypeOK
<1>1. TimersInv => TypeOK
  BY DEF TimersInv
<1> QED BY <1>1, TimersInvariant, PTL

\* Memory and table agree whichever saves failed, an id names one record, and nothing cancelled
\* comes back (insert, Snooze, Cancel, consumeDue; New).
THEOREM DurableMemory == Spec => []MemoryIsDurable
<1>1. TimersInv => MemoryIsDurable
  BY DEF TimersInv, Stored, Table, MemoryIsDurable
<1> QED BY <1>1, TimersInvariant, PTL

LEMMA OccIs ==
  ASSUME NEW C
  PROVE  \A o : o \in Occ(C) <=> \E c \in C : o = [uid |-> c.uid, at |-> c.at]
BY DEF Occ

\* No occurrence is announced twice, early or before it was durable: not after a failed save,
\* a restart, a snooze or a full channel (consumeDue and emitDue; announceMissed, announceFired).
THEOREM Once == Spec => []AnnouncedOnce
<1>1. TimersInv => AnnouncedOnce
  <2> SUFFICES ASSUME TimersInv
               PROVE  AnnouncedOnce
    OBVIOUS
  <2>1. /\ Flows(sending, missed, fired, settled, consumed)
        /\ consumed \subseteq [uid : Nat, at : Nat, when : Nat]
        /\ \A c \in consumed : c.at <= c.when
    BY DEF TimersInv, Stored, Account
  <2>2. InFlight = sending \cup missed \cup Ran(fired)
    BY DEF InFlight, Ran
  <2>3. TakenOnce
    BY <2>1 DEF TakenOnce, Flows, Ran
  <2>4. InFlight \cap settled = {}
    BY <2>1, <2>2 DEF Flows
  <2>5. AnnouncedIsConsumed
    <3>1. InFlight \cup settled = Occ(consumed)
      BY <2>1, <2>2 DEF Flows
    <3> SUFFICES ASSUME NEW o \in InFlight \cup settled
                 PROVE  \E c \in consumed : c.uid = o.uid /\ c.at = o.at /\ c.at <= c.when
      BY DEF AnnouncedIsConsumed
    <3>2. PICK c \in consumed : o = [uid |-> c.uid, at |-> c.at]
      BY <3>1, OccIs
    <3> QED BY <2>1, <3>2
  <2> QED BY <2>3, <2>4, <2>5 DEF AnnouncedOnce
<1> QED BY <1>1, TimersInvariant, PTL

\* What was taken out of the table is on its way or settled: nothing is swallowed between the
\* table, the scheduler, the channel and the voice (emitDue, announceMissed, announceFired).
THEOREM NothingIsSwallowed == Spec => []NothingSwallowed
<1>1. TimersInv => NothingSwallowed
  <2> SUFFICES ASSUME TimersInv, NEW c \in consumed
               PROVE  [uid |-> c.uid, at |-> c.at] \in InFlight \cup settled
    BY DEF NothingSwallowed
  <2>1. InFlight \cup settled = Occ(consumed)
    BY DEF TimersInv, Flows, InFlight, Ran
  <2>2. [uid |-> c.uid, at |-> c.at] \in Occ(consumed)
    BY OccIs
  <2> QED BY <2>1, <2>2
<1> QED BY <1>1, TimersInvariant, PTL

\* One announcement per downtime or snooze, and the next one is the next of its series by the
\* clock or by the calendar, whatever was snoozed or missed and whenever the clocks changed
\* (Snooze, consumeDue, Recurrence.next).
THEOREM NextOfItsSeries == Spec => []Coalesced
<1>1. TimersInv => Coalesced
  <2> SUFFICES ASSUME TimersInv
               PROVE  Coalesced
    OBVIOUS
  <2>1. /\ Table(disk, consumed, births, cancelled) /\ Account(consumed, now, births)
    BY DEF TimersInv, Stored
  <2>2. \A c, d \in consumed : c.uid = d.uid /\ c.at < d.at => c.when < d.at
    BY <2>1 DEF Account
  <2>3. PhaseKept
    BY <2>1 DEF PhaseKept, Table, Sound
  <2>4. CivilKept
    <3> SUFFICES ASSUME NEW t \in disk, t.civil
                 PROVE  /\ Rings(t, DueOf(t))
                        /\ LET taken == {c.when : c \in {d \in consumed : d.uid = t.uid}} IN
                           \A w \in taken : \A e \in (w + 1)..(DueOf(t) - 1) :
                             Rings(t, e) => \E later \in taken : e <= later
      BY DEF CivilKept
    <3>1. Sound(t) /\ NonePassed(t, consumed)
      BY <2>1 DEF Table
    <3>2. DueOf(t) \in Nat
      BY <3>1 DEF Sound, Timer, DueOf
    <3>3. ASSUME NEW e \in Nat
          PROVE  Rings(t, e) <=> Local(e) % t.period = t.phase /\ First(e)
      <4>1. (\A b \in 0..(e - 1) : Local(b) # Local(e)) <=> First(e)
        BY DEF First
      <4> QED BY <4>1 DEF Rings
    <3>4. Rings(t, DueOf(t))
      BY <3>1, <3>2, <3>3 DEF Sound
    <3> DEFINE taken == {c.when : c \in {d \in consumed : d.uid = t.uid}}
    <3>5. ASSUME NEW w \in taken, NEW e \in (w + 1)..(DueOf(t) - 1), Rings(t, e)
          PROVE  \E later \in taken : e <= later
      <4>1. PICK c \in consumed : c.uid = t.uid /\ c.when = w
        OBVIOUS
      <4>2. w \in Nat
        BY <2>1, <4>1 DEF Account
      <4>3. e \in Nat /\ w < e /\ e < DueOf(t)
        BY <3>2, <4>2
      <4>4. First(e) /\ Local(e) % t.period = t.phase
        BY <3>3, <3>5, <4>3
      <4>5. PICK d \in consumed : d.uid = t.uid /\ e <= d.when
        BY <3>1, <4>1, <4>3, <4>4 DEF NonePassed
      <4>6. d.when \in taken
        BY <4>5
      <4> QED BY <4>5, <4>6
    <3> QED BY <3>4, <3>5
  <2> QED BY <2>2, <2>3, <2>4 DEF Coalesced
<1> QED BY <1>1, TimersInvariant, PTL

----------------------------------------------------------------------------
\* The history.

\* The records and what they become, before the oldest of the completed ones are forgotten.
Carried(S) == (S \ DueIn(S)) \cup {Advanced(t) : t \in {d \in DueIn(S) : d.reminder}}

LEMMA CarriedIsFinite ==
  ASSUME NEW S, IsFiniteSet(S)
  PROVE  IsFiniteSet(Carried(S)) /\ Remaining(S) = Retained(Carried(S))
         /\ IsFiniteSet(Remaining(S))
<1> DEFINE D == {d \in DueIn(S) : d.reminder}
           A == {Advanced(t) : t \in D}
           f == [t \in D |-> Advanced(t)]
<1>1. D \in SUBSET S /\ S \ DueIn(S) \in SUBSET S
  BY DEF DueIn, Live
<1>2. IsFiniteSet(D) /\ IsFiniteSet(S \ DueIn(S))
  <2> HIDE DEF D
  <2> QED BY <1>1, FS_Subset
<1>3. IsFiniteSet(A)
  <2>1. f \in Surjection(D, A)
    BY DEF Surjection
  <2> HIDE DEF f, D, A
  <2> QED BY <1>2, <2>1, FS_Surjection
<1>4. Carried(S) = (S \ DueIn(S)) \cup A
  BY DEF Carried
<1> HIDE DEF A, D
<1>5. IsFiniteSet(Carried(S))
  BY <1>2, <1>3, <1>4, FS_Union
<1>6. Remaining(S) = Retained(Carried(S))
  BY DEF Remaining, Carried
<1>7. Retained(Carried(S)) \in SUBSET Carried(S)
  BY DEF Retained
<1> QED BY <1>5, <1>6, <1>7, FS_Subset

\* Those of T delivered after t, the ids deciding between two delivered at one time.
After(T, t) ==
  {o \in T : o.archived /\ (o.last > t.last \/ (o.last = t.last /\ o.id > t.id))}

\* What is forgotten leaves enough later ones: the least forgotten of those not before it has
\* only retained ones after it.
LEMMA EnoughRetained ==
  ASSUME NEW T \in SUBSET Timer, IsFiniteSet(T), NEW t \in T, t \notin Retained(T)
  PROVE  /\ t.archived
         /\ Cardinality({o \in Retained(T) : o.archived /\ o.last >= t.last}) >= History
<1>1. \A o \in T : o.last \in Nat /\ o.id \in Nat
  BY DEF Timer
<1>2. \A o \in T : o \in Retained(T) <=> (o.archived => Cardinality(After(T, o)) < History)
  BY DEF Retained, After
<1>3. History \in Nat
  BY TimersAssumption
<1>4. \A o \in T : IsFiniteSet(After(T, o)) /\ Cardinality(After(T, o)) \in Nat
  <2>1. \A o \in T : After(T, o) \in SUBSET T
    BY DEF After
  <2>2. \A o \in T : IsFiniteSet(After(T, o))
    BY <2>1, FS_Subset
  <2> QED BY <2>2, FS_CardinalityType
<1> DEFINE Bad == {b \in T : /\ b.archived /\ b \notin Retained(T)
                             /\ b.last > t.last \/ (b.last = t.last /\ b.id >= t.id)}
           sizes == {Cardinality(After(T, b)) : b \in Bad}
           Kept == {o \in Retained(T) : o.archived /\ o.last >= t.last}
<1>5. t.archived /\ t \in Bad
  BY <1>1, <1>2
<1>6. PICK m \in sizes : \A n \in sizes : m <= n
  <2>1. sizes \in SUBSET Nat /\ sizes # {}
    BY <1>4, <1>5
  <2> HIDE DEF sizes
  <2> QED BY <2>1, Least
<1>7. PICK b \in Bad : m = Cardinality(After(T, b))
  BY <1>6
<1>8. After(T, b) \subseteq Kept
  <2> SUFFICES ASSUME NEW o \in After(T, b)
               PROVE  o \in Kept
    OBVIOUS
  <2>1. /\ o \in T /\ o.archived /\ (o.last > b.last \/ (o.last = b.last /\ o.id > b.id))
        /\ b \in T /\ b.archived /\ (b.last > t.last \/ (b.last = t.last /\ b.id >= t.id))
    BY DEF After
  <2>2. o.last > t.last \/ (o.last = t.last /\ o.id >= t.id)
    BY <1>1, <2>1
  <2>3. o \in Retained(T)
    <3> SUFFICES ASSUME o \notin Retained(T)
                 PROVE  FALSE
      OBVIOUS
    <3>1. o \in Bad
      BY <2>1, <2>2
    <3>2. After(T, o) \in SUBSET After(T, b) /\ o \notin After(T, o)
      BY <1>1, <2>1 DEF After
    <3>3. Cardinality(After(T, o)) < m
      <4>1. /\ Cardinality(After(T, o)) <= Cardinality(After(T, b))
            /\ Cardinality(After(T, o)) # Cardinality(After(T, b))
        BY <1>4, <2>1, <3>2, FS_Subset
      <4> QED BY <1>4, <1>7, <2>1, <4>1
    <3>4. m <= Cardinality(After(T, o))
      BY <1>6, <3>1
    <3>5. m \in Nat /\ Cardinality(After(T, o)) \in Nat
      BY <1>4, <1>7, <2>1
    <3> HIDE DEF Bad, sizes
    <3> QED BY <3>3, <3>4, <3>5
  <2>4. o.last >= t.last
    BY <1>1, <2>1, <2>2
  <2> QED BY <2>1, <2>3, <2>4
<1>9. IsFiniteSet(Kept) /\ Cardinality(Kept) \in Nat
  <2>1. Kept \in SUBSET T
    BY DEF Retained
  <2>2. IsFiniteSet(Kept)
    <3> HIDE DEF Kept
    <3> QED BY <2>1, FS_Subset
  <2> HIDE DEF Kept
  <2> QED BY <2>2, FS_CardinalityType
<1>10. m <= Cardinality(Kept)
  <2> HIDE DEF Kept
  <2> QED BY <1>7, <1>8, <1>9, FS_Subset
<1>11. ~(m < History) /\ m \in Nat
  BY <1>2, <1>4, <1>7
<1>12. Cardinality(Kept) >= History
  <2> HIDE DEF Kept, sizes
  <2> QED BY <1>3, <1>9, <1>10, <1>11
<1> QED BY <1>5, <1>12

LEMMA ForgottenByConsume ==
  ASSUME TimersInv, IsFiniteSet(disk), Consume(disk), NEW t \in disk, t.reminder, t.period = 0,
         t.uid \notin {o.uid : o \in disk'}
  PROVE  LET delivered == IF t.archived THEN t.last ELSE t.deadline IN
         Cardinality({o \in disk' : o.archived /\ o.last >= delivered}) >= History
<1> DEFINE T == Carried(disk)
           a == IF t \in DueIn(disk) THEN Advanced(t) ELSE t
           delivered == IF t.archived THEN t.last ELSE t.deadline
<1>1. now \in Nat /\ now # 0 /\ \A o \in disk : Sound(o)
  BY DEF TimersInv, TypeOK, Stored, Table
<1>2. T \in SUBSET Timer
  <2> SUFFICES ASSUME NEW o \in T
               PROVE  o \in Timer
    OBVIOUS
  <2>1. CASE o \in disk
    BY <1>1, <2>1 DEF Sound
  <2>2. CASE o \notin disk
    <3>1. PICK d \in DueIn(disk) : o = Advanced(d)
      BY <2>2 DEF Carried
    <3>2. d \in disk /\ ~d.archived
      BY DEF DueIn, Live
    <3>3. Sound(o)
      BY <1>1, <3>1, <3>2, AdvancedIs
    <3> QED BY <3>3 DEF Sound
  <2> QED BY <2>1, <2>2
<1>3. IsFiniteSet(T) /\ disk' = Retained(T)
  BY CarriedIsFinite DEF Consume
<1>4. a \in T
  BY DEF Carried
<1>5. a.uid = t.uid /\ (a.archived => a.last = delivered)
  <2>1. CASE t \in DueIn(disk)
    <3>1. ~t.archived /\ t \in Timer
      BY <1>1, <2>1 DEF DueIn, Live, Sound
    <3>2. a = [t EXCEPT !.last = t.deadline, !.archived = TRUE]
      BY <2>1 DEF Advanced
    <3>3. a.uid = t.uid /\ a.last = t.deadline
      BY <3>1, <3>2 DEF Timer
    <3> QED BY <3>1, <3>3
  <2>2. CASE t \notin DueIn(disk)
    BY <2>2
  <2> QED BY <2>1, <2>2
<1> HIDE DEF T, a
<1>6. a \notin Retained(T)
  BY <1>3, <1>5
<1>7. a.archived /\ Cardinality({o \in Retained(T) : o.archived /\ o.last >= a.last}) >= History
  BY <1>2, <1>3, <1>4, <1>6, EnoughRetained
<1> QED BY <1>3, <1>5, <1>7

FiniteTables == IsFiniteSet(disk) /\ IsFiniteSet(timers)

LEMMA TablesFinite == Spec => []FiniteTables
<1>1. Init => FiniteTables
  BY FS_EmptySet DEF Init, FiniteTables
<1>2. FiniteTables /\ [Next]_vars => FiniteTables'
  <2> SUFFICES ASSUME IsFiniteSet(disk), IsFiniteSet(timers), [Next]_vars
               PROVE  IsFiniteSet(disk') /\ IsFiniteSet(timers')
    BY DEF FiniteTables
  <2>1. ASSUME NEW S, IsFiniteSet(S), Consume(S)
        PROVE  IsFiniteSet(disk') /\ IsFiniteSet(timers')
    BY <2>1, CarriedIsFinite DEF Consume
  <2>2. ASSUME NEW next, IsFiniteSet(next), Saves(next)
        PROVE  IsFiniteSet(disk') /\ IsFiniteSet(timers')
    BY <2>2 DEF Saves
  <2>3. CASE Start
    BY <2>1, <2>3, FS_EmptySet DEF Start
  <2>4. CASE Crash
    BY <2>4, FS_EmptySet DEF Crash
  <2>5. CASE EmitDue
    BY <2>1, <2>5 DEF EmitDue
  <2>6. CASE Arm \/ Wake \/ Send \/ AnnounceMissed \/ AnnounceFired \/ Tick \/ UNCHANGED vars
    BY <2>6 DEF Arm, Wake, Send, AnnounceMissed, AnnounceFired, Tick, vars
  <2>7. CASE AddTimer \/ AddReminder \/ AddOnDate \/ AddSeries \/ AddDaily \/ AddWeekly
    <3>1. \E t : Saves(timers \cup {t})
      BY <2>7 DEF AddTimer, AddReminder, AddOnDate, AddSeries, AddDaily, AddWeekly, Add
    <3> QED BY <2>2, <3>1, FS_AddElement
  <2>8. CASE Snooze
    <3>1. \E t, o : Saves((timers \ {t}) \cup {o})
      BY <2>8 DEF Snooze
    <3>2. \A t : IsFiniteSet(timers \ {t})
      BY FS_RemoveElement
    <3>3. \A t, o : IsFiniteSet((timers \ {t}) \cup {o})
      BY <3>2, FS_AddElement
    <3> QED BY <2>2, <3>1, <3>3
  <2>9. CASE Cancel
    <3>1. \E match : Saves(timers \ match)
      BY <2>9 DEF Cancel
    <3>2. \A match : IsFiniteSet(timers \ match)
      BY FS_Difference
    <3> QED BY <2>2, <3>1, <3>2
  <2> QED BY <2>3, <2>4, <2>5, <2>6, <2>7, <2>8, <2>9 DEF Next, Scheduler, Announce, Speech
<1> QED BY <1>1, <1>2, PTL DEF Spec

\* A completed reminder is forgotten only when enough others were delivered since, by a
\* delivery or a restart alike (consumeDue, New).
THEOREM HistoryKept == Spec => HistoryKeepsLatest
<1> DEFINE Forgets(t) == /\ ~unread /\ t.reminder /\ t.period = 0 /\ t.uid \notin cancelled'
                         /\ t.uid \notin {o.uid : o \in disk'}
           Since(t) == LET delivered == IF t.archived THEN t.last ELSE t.deadline IN
                       Cardinality({o \in disk' : o.archived /\ o.last >= delivered}) >= History
<1>1. ASSUME TimersInv, FiniteTables, [Next]_vars, NEW t \in disk, Forgets(t)
      PROVE  Since(t)
  <2>1. CASE Consume(disk)
    BY <1>1, <2>1, ForgottenByConsume DEF FiniteTables
  <2> SUFFICES ASSUME ~Consume(disk)
               PROVE  FALSE
    BY <2>1
  <2>2. disk' # disk
    BY <1>1
  <2>4. up => timers = disk
    BY <1>1 DEF TimersInv, Stored
  <2>5. ASSUME NEW next, Saves(next), up
        PROVE  disk' = next /\ timers' = next /\ timers = disk
    BY <2>2, <2>4, <2>5 DEF Saves
  <2>6. CASE Start
    BY <2>2, <2>6 DEF Start
  <2>7. CASE EmitDue
    <3>1. Consume(timers) /\ up
      BY <2>2, <2>7 DEF EmitDue
    <3> QED BY <2>4, <3>1
  <2>8. CASE Arm \/ Wake \/ Send \/ AnnounceMissed \/ AnnounceFired \/ Tick \/ Crash \/ UNCHANGED vars
    BY <2>2, <2>8 DEF Arm, Wake, Send, AnnounceMissed, AnnounceFired, Tick, Crash, vars
  <2>9. CASE AddTimer \/ AddReminder \/ AddOnDate \/ AddSeries \/ AddDaily \/ AddWeekly
    <3>1. up /\ \E o : Saves(timers \cup {o})
      BY <2>9 DEF AddTimer, AddReminder, AddOnDate, AddSeries, AddDaily, AddWeekly, Add, Serving
    <3>2. t \in disk'
      BY <2>5, <3>1
    <3> QED BY <1>1, <3>2
  <2>10. CASE Snooze
    <3>1. up /\ \E r \in timers, d \in Durations : Saves((timers \ {r}) \cup {Snoozed(r, d)})
      BY <2>10 DEF Snooze, Serving
    <3>2. PICK r \in timers, d \in Durations : Saves((timers \ {r}) \cup {Snoozed(r, d)})
      BY <3>1
    <3>3. disk' = (disk \ {r}) \cup {Snoozed(r, d)}
      BY <2>5, <3>1, <3>2
    <3>4. Snoozed(r, d).uid = r.uid
      <4>1. r \in Timer
        BY <1>1 DEF TimersInv, TypeOK
      <4> QED BY <4>1 DEF Snoozed, Timer
    <3> QED BY <1>1, <3>3, <3>4
  <2>11. CASE Cancel
    <3>1. up /\ \E match \in (SUBSET timers) \ {{}} :
                  /\ Saves(timers \ match)
                  /\ cancelled' = IF timers' = timers THEN cancelled
                                  ELSE cancelled \cup {o.uid : o \in match}
      BY <2>11 DEF Cancel, Serving
    <3>2. PICK match \in (SUBSET timers) \ {{}} :
                  /\ Saves(timers \ match)
                  /\ cancelled' = IF timers' = timers THEN cancelled
                                  ELSE cancelled \cup {o.uid : o \in match}
      BY <3>1
    <3>3. disk' = timers \ match /\ timers' = timers \ match /\ timers = disk
      BY <2>5, <3>1, <3>2
    <3>4. t \in match
      BY <1>1, <3>3
    <3>5. t.uid \in cancelled'
      BY <3>2, <3>3, <3>4
    <3> QED BY <1>1, <3>5
  <2> QED BY <1>1, <2>6, <2>7, <2>8, <2>9, <2>10, <2>11 DEF Next, Scheduler, Announce, Speech
<1>2. TimersInv /\ FiniteTables /\ [Next]_vars =>
        [\A t \in disk :
           LET delivered == IF t.archived THEN t.last ELSE t.deadline IN
           ~unread /\ t.reminder /\ t.period = 0 /\ t.uid \notin cancelled'
             /\ t.uid \notin {o.uid : o \in disk'}
           => Cardinality({o \in disk' : o.archived /\ o.last >= delivered}) >= History]_disk
  BY <1>1
<1> HIDE DEF Forgets, Since
<1> QED BY <1>2, TimersInvariant, TablesFinite, PTL DEF Spec, HistoryKeepsLatest
=============================================================================

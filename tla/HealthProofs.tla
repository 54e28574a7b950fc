---------------------------- MODULE HealthProofs ----------------------------
(***************************************************************************)
(* Proofs about modules Health and HealthFile, for any deadlines, any       *)
(* number of stages in progress and any number of starts.                  *)
(***************************************************************************)
EXTENDS HealthFile, SequenceTheorems, TLAPS

Names == {"wake_start", "wake_transcribe", "speak", "plan"}
Parts == {"nothing", "capture", "segmenter", "loop", "provider"}

MonitorTyped ==
    /\ wakeState \in {"starting", "ready", "unverified", "failed"}
    /\ handshake \in BOOLEAN /\ closed \in BOOLEAN /\ pending \in BOOLEAN
    /\ age \in [Stamps -> -1 .. Old]
    /\ stages \in Seq([name : Names, left : -1 .. Budget])
    /\ broken \in Parts /\ brokenFor \in Nat

\* The age a stamp has at least when nothing renewed it since the part broke.
AgedSince(stamp) == age[stamp] >= brokenFor \/ age[stamp] = Old

\* What a stage in progress tells of the time since a part broke.
StagesTell ==
    /\ broken # "provider" => \A i \in DOMAIN stages : stages[i].left >= 0
    /\ broken = "provider" =>
          /\ stages # <<>>
          /\ stages[1].left < 0 \/ stages[1].left + brokenFor <= Budget
    /\ broken = "loop" => \A i \in DOMAIN stages : stages[i].left + brokenFor <= Budget

\* And what the stamps tell: those of the broken part have not been renewed since.
StampsTell ==
    /\ age["start"] # Never /\ age["loop"] # Never
    /\ broken # "nothing" => AgedSince("start")
    /\ broken \in {"capture", "segmenter"} => age["frame"] = Never \/ AgedSince("frame")
    /\ broken = "loop" => AgedSince("loop")
    /\ wakeState # "starting" /\ broken # "loop" /\ brokenFor > 0 =>
          LoopWaits \/ age["loop"] = 0

\* A stuck segmenter has not returned; the frame it will not take is pending, or unsent.
SegmenterTells == broken = "segmenter" => ~closed /\ (pending <=> ~handshake)

MonitorInv ==
    /\ MonitorTyped
    /\ SegmenterTells
    /\ broken = "nothing" => brokenFor = 0
    /\ wakeState = "starting" => broken \in {"nothing", "provider"}
    /\ wakeState # "starting" => \A i \in DOMAIN stages : stages[i].name # "wake_start"
    /\ StagesTell
    /\ StampsTell

\* A snapshot, in the file or on its way to a reader's answer: if its writer's number still
\* stands for the same process then that process is its listener, or was, and what the snapshot
\* does not report had not lasted longer than its allowance when it was written.
Telling(x) ==
    /\ x \in [pid : Pids, start : 1 .. starts, seconds : 0 .. Old, problem : BOOLEAN]
    /\ proc[x.pid].start = x.start =>
          /\ Listens(x.pid) \/ proc[x.pid].does = "gone"
          /\ x.pid = "main" /\ ~x.problem /\ x.seconds <= FreshFor /\ broken # "nothing" =>
                brokenFor <= Allowance(broken) + x.seconds

Doings == {"gone", "starting", "stranger", "publishing", "silent", "closing", "removed"}

FileTyped ==
    /\ starts \in Nat
    /\ proc \in [Pids -> [does : Doings, start : Nat]]
    /\ \A p \in Pids : proc[p].start <= starts /\ (proc[p].does # "gone" => proc[p].start >= 1)

\* Who listens has the lock; the monitor of a listener that does not run has nothing to tell.
Locked ==
    /\ \A p \in Pids : Listens(p) <=> lock = p
    /\ ~Listens("main") => broken = "nothing"

\* Until it removes it, the file is the listener's own.
OfItsWriter ==
    \A p \in Pids : proc[p].does \in {"publishing", "silent", "closing"} =>
        file # Nothing /\ file.pid = p /\ file.start = proc[p].start

FileInv ==
    /\ FileTyped /\ Locked /\ OfItsWriter
    /\ file = Nothing \/ Telling(file)
    /\ reader = Nothing \/ Telling(reader)

HealthInv == MonitorInv /\ FileInv

----------------------------------------------------------------------------
\* The monitor.

LEMMA Limits ==
    /\ CaptureFreshFor \in Nat /\ FreshFor \in Nat /\ Budget \in Nat
    /\ CaptureFreshFor < FreshFor /\ Old = FreshFor + 1 /\ Never = -1
BY HealthAssumption DEF Old, Never

LEMMA StageIs ==
    ASSUME NEW name \in Names
    PROVE  /\ Stage(name) \in [name : Names, left : -1 .. Budget]
           /\ Stage(name).name = name /\ Stage(name).left = Budget
BY Limits DEF Stage

LEMMA StagesAre ==
    ASSUME MonitorInv
    PROVE  /\ \A i \in DOMAIN stages :
                 stages[i].left \in Int /\ stages[i].left >= -1 /\ stages[i].left <= Budget
           /\ \A i \in DOMAIN stages : i \in Nat /\ i >= 1 /\ stages[i].name \in Names
           /\ stages = <<>> <=> DOMAIN stages = {}
           /\ stages # <<>> => 1 \in DOMAIN stages
<1>1. stages \in Seq([name : Names, left : -1 .. Budget])
    BY DEF MonitorInv, MonitorTyped
<1>2. DOMAIN stages = 1 .. Len(stages) /\ Len(stages) \in Nat
    BY <1>1
<1>3. stages = <<>> <=> Len(stages) = 0
    BY <1>1
<1>4. \A i \in DOMAIN stages : stages[i] \in [name : Names, left : -1 .. Budget]
    <2> DEFINE R == [name : Names, left : -1 .. Budget]
    <2>1. stages \in Seq(R)
        BY <1>1
    <2> HIDE DEF R
    <2>2. \A i \in DOMAIN stages : stages[i] \in R
        BY <2>1
    <2> QED BY <2>2 DEF R
<1>5. \A i \in DOMAIN stages : stages[i].left \in -1 .. Budget /\ stages[i].name \in Names
    BY <1>4
<1> QED BY <1>2, <1>3, <1>5, Limits

LEMMA NoneOverdue ==
    ASSUME MonitorInv, broken # "provider"
    PROVE  FirstOverdue = {}
<1>1. \A i \in DOMAIN stages : stages[i].left >= 0 /\ stages[i].left \in Int
    BY StagesAre DEF MonitorInv, StagesTell
<1>2. \A i \in DOMAIN stages : ~Overdue(stages[i])
    BY <1>1 DEF Overdue
<1> QED BY <1>2 DEF FirstOverdue

\* A part that is stuck is named once its allowance is used up; if the detector has failed, that
\* is a problem by itself.
LEMMA Named ==
    ASSUME MonitorInv, broken # "nothing", brokenFor > Allowance(broken)
    PROVE  Problem /\ (wakeState # "failed" => CulpritNamed)
<1>0. /\ brokenFor \in Nat /\ \A s \in Stamps : age[s] \in -1 .. Old
      /\ broken \in {"capture", "segmenter", "loop", "provider"}
      /\ {"start", "frame", "delivered", "progress", "loop"} = Stamps
    BY DEF MonitorInv, MonitorTyped, Parts, Stamps
<1>1. CASE broken = "provider"
    <2>1. /\ brokenFor > Budget /\ stages # <<>>
          /\ stages[1].left < 0 \/ stages[1].left + brokenFor <= Budget
        BY <1>1 DEF Allowance, MonitorInv, StagesTell
    <2>2. 1 \in DOMAIN stages /\ \A i \in DOMAIN stages : i \in Nat /\ i >= 1
        BY <2>1, StagesAre
    <2>3. stages[1].left \in Int /\ stages[1].left < 0
        <3>1. stages[1].left \in Int
            BY <2>2, StagesAre
        <3> QED BY <1>0, <2>1, <3>1, Limits
    <2>4. FirstOverdue = {1}
        <3>1. Overdue(stages[1])
            BY <2>3 DEF Overdue
        <3> QED BY <2>2, <3>1 DEF FirstOverdue
    <2>5. Max(FirstOverdue) = 1
        BY <2>4 DEF Max
    <2>6. Problem
        BY <2>4 DEF Problem
    <2>7. Diagnosis \in {"overdue " \o stages[i].name : i \in DOMAIN stages}
        <3>1. Diagnosis = "overdue " \o stages[1].name
            BY <2>4, <2>5 DEF Diagnosis
        <3> QED BY <2>2, <3>1
    <2> QED BY <1>1, <2>6, <2>7 DEF CulpritNamed, Suspected
<1> SUFFICES ASSUME broken # "provider"
             PROVE  Problem /\ (wakeState # "failed" => CulpritNamed)
    BY <1>1
<1>2. FirstOverdue = {}
    BY NoneOverdue
<1>3. wakeState # "starting" /\ \A i \in DOMAIN stages : stages[i].name # "wake_start"
    BY <1>0 DEF MonitorInv
<1>4. ~DetectorStarts
    BY <1>3 DEF DetectorStarts
<1>5. CASE broken = "loop"
    <2>1. brokenFor > Budget + FreshFor
        BY <1>5 DEF Allowance
    <2>2. stages = <<>>
        <3>1. \A i \in DOMAIN stages : /\ stages[i].left \in Int /\ stages[i].left >= 0
                                       /\ stages[i].left + brokenFor <= Budget
            BY <1>5, StagesAre DEF MonitorInv, StagesTell
        <3>2. DOMAIN stages = {}
            <4> SUFFICES ASSUME NEW i \in DOMAIN stages
                         PROVE  FALSE
                OBVIOUS
            <4>1. PICK n \in Int : n = stages[i].left /\ n >= 0 /\ n + brokenFor <= Budget
                BY <3>1
            <4> QED BY <1>0, <2>1, <4>1, Limits
        <3> QED BY <3>2, StagesAre
    <2>3. age["loop"] # Never /\ Stale("loop", FreshFor)
        <3>1. AgedSince("loop") /\ age["loop"] # Never
            BY <1>5 DEF MonitorInv, StampsTell
        <3>2. age["loop"] > FreshFor
            BY <1>0, <2>1, <3>1, Limits DEF AgedSince
        <3> QED BY <3>1, <3>2 DEF Stale
    <2>4. Problem
        BY <1>4, <2>2, <2>3 DEF Problem
    <2>5. wakeState # "failed" => Diagnosis = "loop"
        BY <1>2, <1>4, <2>2, <2>3 DEF Diagnosis
    <2> QED BY <1>5, <2>4, <2>5 DEF CulpritNamed, Suspected
<1>6. CASE broken \in {"capture", "segmenter"}
    <2>1. brokenFor > CaptureFreshFor
        BY <1>6 DEF Allowance
    <2>2. Stale("frame", CaptureFreshFor)
        <3>1. age["frame"] = Never \/ AgedSince("frame")
            BY <1>6 DEF MonitorInv, StampsTell
        <3> QED BY <1>0, <2>1, <3>1, Limits DEF AgedSince, Stale
    <2>3. ~(age["loop"] # Never /\ Stale("loop", FreshFor) /\ stages = <<>>)
        <3>1. LoopWaits \/ age["loop"] = 0
            BY <1>0, <1>3, <1>6, <2>1, Limits DEF MonitorInv, StampsTell
        <3>2. CASE LoopWaits
            BY <3>2 DEF LoopWaits
        <3>3. CASE age["loop"] = 0
            BY <3>3, Limits DEF Stale
        <3> QED BY <3>1, <3>2, <3>3
    <2>4. ~FirstFrameAwaited
        <3>1. AgedSince("start") /\ age["start"] # Never
            BY <1>0 DEF MonitorInv, StampsTell
        <3>2. age["start"] > CaptureFreshFor
            BY <1>0, <2>1, <3>1, Limits DEF AgedSince
        <3> QED BY <1>0, <3>2, Limits DEF FirstFrameAwaited
    <2>5. broken = "segmenter" => (pending <=> ~handshake)
        BY DEF MonitorInv, SegmenterTells
    <2>6. Problem
        BY <1>4, <2>2, <2>4 DEF Problem, CaptureProblem
    <2>7. wakeState # "failed" => Diagnosis = IF pending THEN "segmenter" ELSE "capture"
        BY <1>2, <1>4, <2>2, <2>3, <2>4 DEF Diagnosis
    <2>8. wakeState # "failed" => Diagnosis \in Suspected(broken)
        BY <1>6, <2>5, <2>7 DEF Suspected
    <2> QED BY <2>6, <2>8 DEF CulpritNamed
<1> QED BY <1>0, <1>5, <1>6

LEMMA MonitorStarts == MonitorInit => MonitorInv
<1> SUFFICES ASSUME MonitorInit
             PROVE  MonitorInv
    OBVIOUS
<1>1. /\ \/ wakeState = "starting" /\ stages = <<Stage("wake_start")>>
         \/ wakeState = "unverified" /\ stages = <<>>
      /\ handshake \in BOOLEAN /\ closed = FALSE /\ age = Fresh /\ pending = FALSE
      /\ broken = "nothing" /\ brokenFor = 0
    BY DEF MonitorInit
<1>2. Stage("wake_start") \in [name : Names, left : -1 .. Budget] /\ Stage("wake_start").left = Budget
    BY StageIs DEF Names
<1>3. age \in [Stamps -> -1 .. Old] /\ age["start"] = 0 /\ age["loop"] = 0
    BY <1>1, Limits DEF Fresh, Stamps
<1>4. MonitorTyped
    <2> DEFINE R == [name : Names, left : -1 .. Budget]
    <2>1. Stage("wake_start") \in R
        BY <1>2
    <2> HIDE DEF R
    <2>2. stages \in Seq(R)
        <3> DEFINE first == <<Stage("wake_start")>>
        <3>1. stages = <<>> \/ stages = first
            BY <1>1
        <3>2. first \in Seq(R) /\ <<>> \in Seq(R)
            BY <2>1
        <3> HIDE DEF first
        <3> QED BY <3>1, <3>2
    <2>3. broken \in Parts /\ brokenFor \in Nat /\ pending \in BOOLEAN
        BY <1>1 DEF Parts
    <2>4. wakeState \in {"starting", "ready", "unverified", "failed"} /\ handshake \in BOOLEAN
          /\ closed \in BOOLEAN
        BY <1>1
    <2> QED BY <1>3, <2>2, <2>3, <2>4 DEF MonitorTyped, R
<1>5. StagesTell
    BY <1>1, <1>2, Limits DEF StagesTell
<1>6. StampsTell /\ SegmenterTells
    BY <1>1, <1>3, Limits DEF StampsTell, SegmenterTells
<1>7. wakeState # "starting" => \A i \in DOMAIN stages : stages[i].name # "wake_start"
    BY <1>1
<1> QED BY <1>1, <1>4, <1>5, <1>6, <1>7 DEF MonitorInv

LEMMA Removed ==
    ASSUME NEW S, stages \in Seq(S), NEW i \in DOMAIN stages
    PROVE  /\ Without(i) \in Seq(S)
           /\ \A j \in DOMAIN Without(i) : \E m \in DOMAIN stages : Without(i)[j] = stages[m]
           /\ \A m \in DOMAIN stages : m # i =>
                 \E j \in DOMAIN Without(i) : Without(i)[j] = stages[m]
<1> DEFINE a == SubSeq(stages, 1, i - 1)
           b == SubSeq(stages, i + 1, Len(stages))
           n == Len(stages)
<1>1. n \in Nat /\ DOMAIN stages = 1 .. n /\ i \in 1 .. n
    OBVIOUS
<1>2. /\ a \in Seq(S) /\ Len(a) = i - 1 /\ \A j \in 1 .. i - 1 : a[j] = stages[j]
    BY <1>1
<1>3. /\ b \in Seq(S) /\ Len(b) = n - i /\ \A j \in 1 .. n - i : b[j] = stages[i + j]
    BY <1>1
<1> HIDE DEF a, b, n
<1> DEFINE c == a \o b
<1>4. /\ c \in Seq(S) /\ Len(c) = n - 1 /\ DOMAIN c = 1 .. n - 1
      /\ \A j \in 1 .. i - 1 : c[j] = a[j]
      /\ \A j \in i .. n - 1 : c[j] = b[j - (i - 1)]
    <2>1. /\ a \o b \in Seq(S) /\ Len(a \o b) = Len(a) + Len(b)
          /\ \A j \in 1 .. Len(a) + Len(b) :
                (a \o b)[j] = IF j <= Len(a) THEN a[j] ELSE b[j - Len(a)]
        BY <1>2, <1>3, ConcatProperties
    <2>2. Len(c) = n - 1 /\ c \in Seq(S)
        BY <1>1, <1>2, <1>3, <2>1
    <2>3. \A j \in 1 .. n - 1 : c[j] = IF j <= i - 1 THEN a[j] ELSE b[j - (i - 1)]
        BY <1>1, <1>2, <1>3, <2>1
    <2> HIDE DEF c
    <2>4. DOMAIN c = 1 .. n - 1
        BY <2>2
    <2> QED BY <1>1, <2>2, <2>3, <2>4
<1>5. Without(i) = c
    BY DEF Without, a, b, n
<1> HIDE DEF c
<1>6. \A j \in 1 .. i - 1 : c[j] = stages[j]
    BY <1>2, <1>4
<1>7. \A j \in i .. n - 1 : c[j] = stages[j + 1]
    <2> SUFFICES ASSUME NEW j \in i .. n - 1
                 PROVE  c[j] = stages[j + 1]
        OBVIOUS
    <2>1. j - (i - 1) \in 1 .. n - i /\ i + (j - (i - 1)) = j + 1
        BY <1>1
    <2>2. c[j] = b[j - (i - 1)]
        BY <1>4
    <2>3. b[j - (i - 1)] = stages[i + (j - (i - 1))]
        BY <1>3, <2>1
    <2> QED BY <2>1, <2>2, <2>3
<1>8. \A j \in DOMAIN c : \E m \in DOMAIN stages : c[j] = stages[m]
    <2> SUFFICES ASSUME NEW j \in DOMAIN c
                 PROVE  \E m \in DOMAIN stages : c[j] = stages[m]
        OBVIOUS
    <2>1. CASE j < i
        BY <1>1, <1>4, <1>6, <2>1
    <2>2. CASE ~(j < i)
        <3>1. j \in i .. n - 1 /\ j + 1 \in 1 .. n
            BY <1>1, <1>4, <2>2
        <3> QED BY <1>1, <1>7, <3>1
    <2> QED BY <2>1, <2>2
<1>9. \A m \in DOMAIN stages : m # i => \E j \in DOMAIN c : c[j] = stages[m]
    <2> SUFFICES ASSUME NEW m \in DOMAIN stages, m # i
                 PROVE  \E j \in DOMAIN c : c[j] = stages[m]
        OBVIOUS
    <2>1. CASE m < i
        BY <1>1, <1>4, <1>6, <2>1
    <2>2. CASE ~(m < i)
        <3>1. m - 1 \in i .. n - 1 /\ m - 1 \in DOMAIN c
            BY <1>1, <1>4, <2>2
        <3>2. c[m - 1] = stages[m]
            BY <1>1, <1>7, <3>1
        <3> QED BY <3>1, <3>2
    <2> QED BY <2>1, <2>2
<1> QED BY <1>4, <1>5, <1>8, <1>9

LEMMA Appended ==
    ASSUME NEW S, stages \in Seq(S), NEW s \in S
    PROVE  LET r == Append(stages, s) IN
           /\ r \in Seq(S) /\ r # <<>> /\ DOMAIN stages \subseteq DOMAIN r
           /\ \A i \in DOMAIN stages : r[i] = stages[i]
           /\ \A i \in DOMAIN r : i \in DOMAIN stages \/ r[i] = s
           /\ stages # <<>> => r[1] = stages[1]
<1> DEFINE r == Append(stages, s)
<1>1. /\ r \in Seq(S) /\ Len(r) = Len(stages) + 1 /\ Len(stages) \in Nat
      /\ DOMAIN stages = 1 .. Len(stages) /\ DOMAIN r = 1 .. Len(stages) + 1
      /\ \A i \in DOMAIN stages : r[i] = stages[i]
      /\ r[Len(stages) + 1] = s /\ r # <<>>
    BY AppendProperties
<1>2. stages # <<>> => 1 \in DOMAIN stages
    OBVIOUS
<1> HIDE DEF r
<1>4. \A i \in DOMAIN r : i \in DOMAIN stages \/ i = Len(stages) + 1
    BY <1>1
<1>5. DOMAIN stages \subseteq DOMAIN r
    BY <1>1
<1> QED BY <1>1, <1>2, <1>4, <1>5 DEF r

\* What the listener does between two seconds keeps the monitor's invariant and lengthens no
\* part's time.
LEMMA ListenerKeeps ==
    ASSUME MonitorInv, MonitorStep
    PROVE  /\ MonitorInv'
           /\ (broken' = broken /\ brokenFor' = brokenFor) \/ brokenFor' = 0
<1> DEFINE R == [name : Names, left : -1 .. Budget]
<1>0. /\ stages \in Seq(R) /\ age \in [Stamps -> -1 .. Old]
      /\ brokenFor \in Nat /\ broken \in Parts /\ handshake \in BOOLEAN /\ pending \in BOOLEAN
      /\ closed \in BOOLEAN
      /\ wakeState \in {"starting", "ready", "unverified", "failed"}
    BY DEF MonitorInv, MonitorTyped
<1> HIDE DEF R
<1>a. 0 \in -1 .. Old /\ Stamps = {"start", "frame", "delivered", "progress", "loop"}
    BY Limits DEF Stamps
<1>1. CASE WakeStarted
    <2>1. /\ wakeState = "starting" /\ broken # "provider" /\ wakeState' = "ready"
          /\ stages' = <<>> /\ age' = [age EXCEPT !["progress"] = 0]
          /\ UNCHANGED <<handshake, closed, pending, broken, brokenFor>>
        BY <1>1 DEF WakeStarted
    <2>2. broken = "nothing" /\ brokenFor = 0
        BY <2>1 DEF MonitorInv
    <2>3. age' \in [Stamps -> -1 .. Old] /\ age'["start"] = age["start"] /\ age'["loop"] = age["loop"]
        BY <1>0, <1>a, <2>1
    <2>4. MonitorTyped'
        BY <1>0, <2>1, <2>3 DEF MonitorTyped
    <2>5. StagesTell'
        BY <2>1, <2>2 DEF StagesTell
    <2>6. StampsTell'
        BY <2>1, <2>2, <2>3 DEF StampsTell, MonitorInv
    <2> QED BY <2>1, <2>2, <2>4, <2>5, <2>6 DEF MonitorInv, SegmenterTells
<1>2. CASE \E name \in {"wake_transcribe", "speak", "plan"} : Begin(name)
    <2>1. PICK name \in {"wake_transcribe", "speak", "plan"} : Begin(name)
        BY <1>2
    <2>2. /\ wakeState # "starting" /\ broken # "loop" /\ stages' = Append(stages, Stage(name))
          /\ UNCHANGED <<wakeState, handshake, closed, age, pending, broken, brokenFor>>
        BY <2>1 DEF Begin
    <2>3. Stage(name) \in R /\ Stage(name).name = name /\ Stage(name).left = Budget
        <3>1. name \in Names
            BY DEF Names
        <3> QED BY <3>1, StageIs DEF R
    <2>4. /\ stages' \in Seq(R) /\ stages' # <<>> /\ DOMAIN stages \subseteq DOMAIN stages'
          /\ \A i \in DOMAIN stages : stages'[i] = stages[i]
          /\ \A i \in DOMAIN stages' : i \in DOMAIN stages \/ stages'[i] = Stage(name)
          /\ stages # <<>> => stages'[1] = stages[1]
        BY <1>0, <2>2, <2>3, Appended
    <2>5. MonitorTyped'
        BY <2>2, <2>4 DEF MonitorTyped, MonitorInv, R
    <2>6. StagesTell'
        BY <2>2, <2>3, <2>4, Limits DEF StagesTell, MonitorInv
    <2>7. LoopWaits => LoopWaits'
        BY <2>4 DEF LoopWaits
    <2>8. StampsTell'
        BY <2>2, <2>7 DEF StampsTell, MonitorInv, AgedSince
    <2>9. \A i \in DOMAIN stages' : stages'[i].name # "wake_start"
        BY <2>2, <2>3, <2>4 DEF MonitorInv
    <2> QED BY <2>2, <2>5, <2>6, <2>8, <2>9 DEF MonitorInv, SegmenterTells
<1>3. CASE \E i \in DOMAIN stages : Done(i)
    <2>1. PICK i \in DOMAIN stages : Done(i)
        BY <1>3
    <2>2. /\ wakeState # "starting" /\ broken # "provider" /\ stages' = Without(i)
          /\ age' = IF Waited(stages[i]) /\ broken # "loop" THEN [age EXCEPT !["loop"] = 0] ELSE age
          /\ wakeState' \in {wakeState, "ready", "failed"}
          /\ UNCHANGED <<handshake, closed, pending, broken, brokenFor>>
        BY <2>1 DEF Done
    <2>3. /\ stages' \in Seq(R)
          /\ \A j \in DOMAIN stages' : \E m \in DOMAIN stages : stages'[j] = stages[m]
          /\ \A m \in DOMAIN stages : m # i => \E j \in DOMAIN stages' : stages'[j] = stages[m]
        BY <1>0, <2>2, Removed
    <2>4. /\ age' \in [Stamps -> -1 .. Old] /\ age'["start"] = age["start"]
          /\ age'["frame"] = age["frame"]
          /\ broken = "loop" => age'["loop"] = age["loop"]
          /\ age'["loop"] = age["loop"] \/ age'["loop"] = 0
          /\ Waited(stages[i]) /\ broken # "loop" => age'["loop"] = 0
          /\ ~Waited(stages[i]) => age'["loop"] = age["loop"]
        BY <1>0, <1>a, <2>2
    <2>5. MonitorTyped'
        BY <2>2, <2>3, <2>4 DEF MonitorTyped, MonitorInv, R
    <2>6. StagesTell'
        BY <2>2, <2>3 DEF StagesTell, MonitorInv
    <2>7. ~Waited(stages[i]) /\ LoopWaits => LoopWaits'
        BY <2>3 DEF LoopWaits, Waited
    <2>8. age'["loop"] # Never
        BY <2>4, Limits DEF StampsTell, MonitorInv
    <2>9. StampsTell'
        BY <2>2, <2>4, <2>7, <2>8 DEF StampsTell, MonitorInv, AgedSince
    <2>10. \A j \in DOMAIN stages' : stages'[j].name # "wake_start"
        BY <2>2, <2>3 DEF MonitorInv
    <2> QED BY <2>2, <2>5, <2>6, <2>9, <2>10 DEF MonitorInv, SegmenterTells
<1>4. CASE \E b \in {"capture", "segmenter", "loop", "provider"} : Breaks(b)
    <2>1. PICK b \in {"capture", "segmenter", "loop", "provider"} : Breaks(b)
        BY <1>4
    <2>2. /\ broken = "nothing" /\ broken' = b /\ brokenFor' = 0
          /\ b = "provider" => stages # <<>>
          /\ b \in {"capture", "segmenter"} => wakeState # "starting" /\ ~closed
          /\ b = "loop" => wakeState # "starting"
          /\ b = "segmenter" => pending' = ~handshake
          /\ pending' \in BOOLEAN
          /\ age' = IF b = "segmenter" THEN [age EXCEPT !["frame"] = 0, !["delivered"] = 0] ELSE age
          /\ UNCHANGED <<wakeState, handshake, closed, stages>>
        BY <1>0, <2>1 DEF Breaks, Listening
    <2>3. /\ age' \in [Stamps -> -1 .. Old] /\ age'["start"] = age["start"]
          /\ age'["loop"] = age["loop"] /\ age'["frame"] \in {0, age["frame"]}
        BY <1>0, <1>a, <2>2
    <2>4. MonitorTyped'
        BY <1>0, <2>2, <2>3 DEF MonitorTyped, MonitorInv, Parts
    <2>5. StagesTell'
        BY <2>2, StagesAre, Limits DEF StagesTell, MonitorInv
    <2>6. \A s \in Stamps : age'[s] = Never \/ age'[s] >= 0
        BY <2>3, Limits
    <2>7. StampsTell'
        BY <1>a, <2>2, <2>3, <2>6, Limits DEF StampsTell, MonitorInv, AgedSince
    <2>8. SegmenterTells'
        BY <1>0, <2>2 DEF SegmenterTells
    <2> QED BY <2>2, <2>4, <2>5, <2>7, <2>8 DEF MonitorInv
<1>5. CASE SegmenterCloses
    <2>1. /\ wakeState # "starting" /\ closed' = TRUE /\ wakeState' = "failed" /\ broken # "segmenter"
          /\ UNCHANGED <<handshake, age, pending, stages, broken, brokenFor>>
        BY <1>5 DEF SegmenterCloses, Listening
    <2>2. MonitorTyped' /\ StagesTell' /\ StampsTell'
        BY <2>1 DEF MonitorTyped, StagesTell, StampsTell, MonitorInv, LoopWaits, AgedSince
    <2> QED BY <2>1, <2>2 DEF MonitorInv, SegmenterTells
<1> QED BY <1>1, <1>2, <1>3, <1>4, <1>5 DEF MonitorStep

LEMMA ResetKeeps ==
    ASSUME Reset
    PROVE  MonitorInv' /\ broken' = "nothing"
<1>1. /\ \/ wakeState' = "starting" /\ stages' = <<Stage("wake_start")>>
         \/ wakeState' = "unverified" /\ stages' = <<>>
      /\ handshake' \in BOOLEAN /\ closed' = FALSE /\ age' = Fresh /\ pending' = FALSE
      /\ broken' = "nothing" /\ brokenFor' = 0
    BY DEF Reset
<1>2. Stage("wake_start") \in [name : Names, left : -1 .. Budget] /\ Stage("wake_start").left = Budget
    BY StageIs DEF Names
<1>3. age' \in [Stamps -> -1 .. Old] /\ age'["start"] = 0 /\ age'["loop"] = 0
    BY <1>1, Limits DEF Fresh, Stamps
<1>4. MonitorTyped'
    <2> DEFINE R == [name : Names, left : -1 .. Budget]
    <2>1. Stage("wake_start") \in R
        BY <1>2
    <2> HIDE DEF R
    <2>2. stages' \in Seq(R)
        <3> DEFINE first == <<Stage("wake_start")>>
        <3>1. stages' = <<>> \/ stages' = first
            BY <1>1
        <3>2. first \in Seq(R) /\ <<>> \in Seq(R)
            BY <2>1
        <3> HIDE DEF first
        <3> QED BY <3>1, <3>2
    <2>3. broken' \in Parts /\ brokenFor' \in Nat /\ pending' \in BOOLEAN
        BY <1>1 DEF Parts
    <2>4. wakeState' \in {"starting", "ready", "unverified", "failed"} /\ handshake' \in BOOLEAN
          /\ closed' \in BOOLEAN
        BY <1>1
    <2> QED BY <1>3, <2>2, <2>3, <2>4 DEF MonitorTyped, R
<1>5. StagesTell'
    BY <1>1, <1>2, Limits DEF StagesTell
<1>6. StampsTell' /\ SegmenterTells'
    BY <1>1, <1>3, Limits DEF StampsTell, SegmenterTells
<1>7. wakeState' # "starting" => \A i \in DOMAIN stages' : stages'[i].name # "wake_start"
    BY <1>1
<1> QED BY <1>1, <1>4, <1>5, <1>6, <1>7 DEF MonitorInv

\* A second passes.
LEMMA TickKeeps ==
    ASSUME MonitorInv, NEW bound \in Nat, MonitorTick(bound)
    PROVE  /\ MonitorInv'
           /\ broken' = broken /\ brokenFor' <= brokenFor + 1
<1> DEFINE R == [name : Names, left : -1 .. Budget]
<1>0. /\ stages \in Seq(R) /\ age \in [Stamps -> -1 .. Old]
      /\ brokenFor \in Nat /\ broken \in Parts /\ handshake \in BOOLEAN /\ pending \in BOOLEAN
      /\ closed \in BOOLEAN
    BY DEF MonitorInv, MonitorTyped
<1>a. Stamps = {"start", "frame", "delivered", "progress", "loop"}
    BY DEF Stamps
<1>b. PICK takes \in {Segments, Segments /\ ~Backlog} :
          /\ age' = [s \in Stamps |-> IF s \in Renewed(takes) THEN 0 ELSE Older(age[s], Old)]
          /\ pending' = (~takes /\ (pending \/ Forwards))
    BY DEF MonitorTick
<1>1. /\ broken # "provider" => \A i \in DOMAIN stages : stages[i].left > 0
      /\ stages' = [i \in DOMAIN stages |-> [stages[i] EXCEPT !.left = IF @ < 0 THEN @ ELSE @ - 1]]
      /\ brokenFor' = IF broken = "nothing" THEN 0 ELSE Older(brokenFor, bound)
      /\ UNCHANGED <<wakeState, handshake, closed, broken>>
    BY DEF MonitorTick
<1>2. /\ brokenFor' \in Nat /\ brokenFor' <= brokenFor + 1
      /\ broken = "nothing" => brokenFor' = 0
    BY <1>0, <1>1, Limits DEF Older
<1>3. /\ DOMAIN stages' = DOMAIN stages /\ stages' \in Seq(R)
      /\ \A i \in DOMAIN stages :
            /\ stages'[i].name = stages[i].name
            /\ stages'[i].left = IF stages[i].left < 0 THEN stages[i].left ELSE stages[i].left - 1
    <2> DEFINE Next1(s) == [s EXCEPT !.left = IF @ < 0 THEN @ ELSE @ - 1]
    <2>1. ASSUME NEW s \in R
          PROVE  /\ Next1(s) \in R /\ Next1(s).name = s.name
                 /\ Next1(s).left = IF s.left < 0 THEN s.left ELSE s.left - 1
        <3> DEFINE n == IF s.left < 0 THEN s.left ELSE s.left - 1
        <3>1. n \in -1 .. Budget
            BY Limits
        <3>2. Next1(s) = [s EXCEPT !.left = n]
            OBVIOUS
        <3> HIDE DEF n, Next1
        <3>3. Next1(s) \in R /\ Next1(s).name = s.name /\ Next1(s).left = n
            BY <3>1, <3>2
        <3> QED BY <3>3 DEF n
    <2>2. stages' = [i \in DOMAIN stages |-> Next1(stages[i])]
        BY <1>1
    <2> HIDE DEF R, Next1
    <2>3. \A i \in DOMAIN stages : stages[i] \in R
        BY <1>0
    <2>4. DOMAIN stages' = DOMAIN stages /\ \A i \in DOMAIN stages : stages'[i] = Next1(stages[i])
        BY <2>2
    <2>5. stages' \in Seq(R)
        <3>1. DOMAIN stages = 1 .. Len(stages) /\ Len(stages) \in Nat
            BY <1>0
        <3>2. stages' \in [1 .. Len(stages) -> R]
            BY <2>1, <2>2, <2>3, <3>1
        <3> QED BY <3>1, <3>2
    <2> QED BY <2>1, <2>3, <2>4, <2>5
<1>c. /\ takes => broken # "segmenter"
      /\ "start" \notin Renewed(takes)
      /\ "loop" \in Renewed(takes) <=> Turns
      /\ broken \in {"capture", "segmenter"} => "frame" \notin Renewed(takes)
    <2>1. takes => broken # "segmenter"
        BY DEF Segments
    <2>2. broken \in {"capture", "segmenter"} => ~(Captures /\ (takes \/ Forwards))
        <3>1. CASE broken = "capture"
            BY <3>1 DEF Captures
        <3>2. CASE broken = "segmenter"
            BY <2>1, <3>2 DEF Forwards, MonitorInv, SegmenterTells
        <3> QED BY <3>1, <3>2
    <2> QED BY <2>1, <2>2 DEF Renewed
<1>4. /\ age' \in [Stamps -> -1 .. Old]
      /\ age'["start"] = Older(age["start"], Old)
      /\ broken \in {"capture", "segmenter"} => age'["frame"] = Older(age["frame"], Old)
      /\ Turns => age'["loop"] = 0
      /\ ~Turns => age'["loop"] = Older(age["loop"], Old)
    <2>1. \A s \in Stamps : age[s] \in -1 .. Old /\ Older(age[s], Old) \in -1 .. Old
        BY <1>0, Limits DEF Older
    <2>2. 0 \in -1 .. Old
        BY Limits
    <2>3. \A s \in Stamps : age'[s] = IF s \in Renewed(takes) THEN 0 ELSE Older(age[s], Old)
        BY <1>b
    <2>4. age' \in [Stamps -> -1 .. Old]
        BY <1>b, <2>1, <2>2
    <2> QED BY <1>a, <1>c, <2>3, <2>4
<1>5. ASSUME NEW s \in Stamps, AgedSince(s), age[s] # Never, age'[s] = Older(age[s], Old)
      PROVE  AgedSince(s)' /\ age'[s] # Never
    BY <1>0, <1>2, <1>5, Limits DEF AgedSince, Older
<1>6. MonitorTyped' /\ SegmenterTells'
    <2>1. pending' \in BOOLEAN
        BY <1>b
    <2>2. SegmenterTells'
        <3> SUFFICES ASSUME broken = "segmenter"
                     PROVE  ~closed /\ (pending' <=> ~handshake)
            BY <1>1 DEF SegmenterTells
        <3>1. ~closed /\ (pending <=> ~handshake)
            BY DEF MonitorInv, SegmenterTells
        <3>2. pending' <=> pending \/ Forwards
            BY <1>b, <1>c
        <3> QED BY <3>1, <3>2 DEF Forwards
    <2> QED BY <1>0, <1>1, <1>2, <1>3, <1>4, <2>1, <2>2 DEF MonitorTyped, MonitorInv
<1>7. StagesTell'
    <2>1. \A i \in DOMAIN stages : stages[i].left \in Int
        BY StagesAre
    <2>2. broken' # "provider" => \A i \in DOMAIN stages' : stages'[i].left >= 0
        BY <1>1, <1>3, <2>1
    <2>3. broken' = "provider" => /\ stages' # <<>>
                                  /\ stages'[1].left < 0 \/ stages'[1].left + brokenFor' <= Budget
        <3> SUFFICES ASSUME broken = "provider"
                     PROVE  /\ stages' # <<>>
                            /\ stages'[1].left < 0 \/ stages'[1].left + brokenFor' <= Budget
            BY <1>1
        <3>1. /\ stages # <<>> /\ 1 \in DOMAIN stages
              /\ stages[1].left < 0 \/ stages[1].left + brokenFor <= Budget
            BY StagesAre DEF MonitorInv, StagesTell
        <3>2. stages' # <<>>
            BY <1>3, <3>1
        <3>3. PICK n \in Int : n = stages[1].left
            BY <2>1, <3>1
        <3>4. stages'[1].left = IF n < 0 THEN n ELSE n - 1
            BY <1>3, <3>1, <3>3
        <3>5. n < 0 \/ n + brokenFor <= Budget
            BY <3>1, <3>3
        <3>6. stages'[1].left < 0 \/ stages'[1].left + brokenFor' <= Budget
            BY <1>0, <1>2, <3>3, <3>4, <3>5, Limits
        <3> QED BY <3>2, <3>6
    <2>4. broken' = "loop" => \A i \in DOMAIN stages' : stages'[i].left + brokenFor' <= Budget
        <3> SUFFICES ASSUME broken = "loop", NEW i \in DOMAIN stages
                     PROVE  stages'[i].left + brokenFor' <= Budget
            BY <1>1, <1>3
        <3>1. stages[i].left > 0 /\ stages[i].left + brokenFor <= Budget
            BY <1>1 DEF MonitorInv, StagesTell
        <3>2. PICK n \in Int : n = stages[i].left
            BY <2>1
        <3>3. stages'[i].left = n - 1 /\ n + brokenFor <= Budget
            BY <1>3, <3>1, <3>2
        <3>4. PICK m \in Nat, k \in Nat : m = brokenFor /\ k = brokenFor' /\ k <= m + 1
            BY <1>0, <1>2
        <3>5. n + m <= Budget => (n - 1) + k <= Budget
            BY <3>2, <3>4, Limits
        <3> QED BY <3>3, <3>4, <3>5
    <2> QED BY <2>2, <2>3, <2>4 DEF StagesTell
<1>8. StampsTell'
    <2>1. age'["start"] # Never /\ (broken # "nothing" => AgedSince("start")')
        <3>1. age["start"] # Never /\ (broken # "nothing" => AgedSince("start"))
            BY DEF MonitorInv, StampsTell
        <3>2. age'["start"] # Never
            BY <1>0, <1>a, <1>4, <3>1, Limits DEF Older
        <3> QED BY <1>a, <1>4, <1>5, <3>1, <3>2
    <2>2. age'["loop"] # Never
        <3>1. age["loop"] # Never
            BY DEF MonitorInv, StampsTell
        <3> QED BY <1>0, <1>a, <1>4, <3>1, Limits DEF Older
    <2>3. broken \in {"capture", "segmenter"} => age'["frame"] = Never \/ AgedSince("frame")'
        <3> SUFFICES ASSUME broken \in {"capture", "segmenter"}, age'["frame"] # Never
                     PROVE  AgedSince("frame")'
            OBVIOUS
        <3>1. age'["frame"] = Older(age["frame"], Old)
            BY <1>4
        <3>2. age["frame"] # Never
            BY <3>1 DEF Older
        <3>3. AgedSince("frame")
            BY <3>2 DEF MonitorInv, StampsTell
        <3> QED BY <1>a, <1>5, <3>1, <3>2, <3>3
    <2>4. broken = "loop" => AgedSince("loop")'
        <3> SUFFICES ASSUME broken = "loop"
                     PROVE  AgedSince("loop")'
            OBVIOUS
        <3>1. age'["loop"] = Older(age["loop"], Old)
            BY <1>4 DEF Turns
        <3>2. AgedSince("loop") /\ age["loop"] # Never
            BY DEF MonitorInv, StampsTell
        <3> QED BY <1>a, <1>5, <3>1, <3>2
    <2>5. wakeState # "starting" /\ broken # "loop" => LoopWaits' \/ age'["loop"] = 0
        <3>1. LoopWaits => LoopWaits'
            BY <1>3 DEF LoopWaits, Waited
        <3> QED BY <1>4, <3>1 DEF Turns
    <2> QED BY <1>1, <2>1, <2>2, <2>3, <2>4, <2>5 DEF StampsTell
<1>9. wakeState' # "starting" => \A i \in DOMAIN stages' : stages'[i].name # "wake_start"
    BY <1>1, <1>3 DEF MonitorInv
<1> QED BY <1>1, <1>2, <1>6, <1>7, <1>8, <1>9 DEF MonitorInv

----------------------------------------------------------------------------
\* The file.

\* The strings "" and a process's number differ: only Zenon reads the empty string.
LEMMA NoHolder == \A p \in Pids : p # ""
BY Zenon DEF Pids

LEMMA Does ==
    ASSUME FileTyped, NEW p \in Pids, NEW what \in Doings, Doing(p, what)
    PROVE  /\ proc' \in [Pids -> [does : Doings, start : Nat]]
           /\ proc'[p].does = what
           /\ \A q \in Pids : proc'[q].start = proc[q].start
           /\ \A q \in Pids : q # p => proc'[q].does = proc[q].does
<1>1. proc' = [proc EXCEPT ![p].does = what] /\ proc \in [Pids -> [does : Doings, start : Nat]]
    BY DEF Doing, FileTyped
<1>2. [proc[p] EXCEPT !.does = what] \in [does : Doings, start : Nat]
    BY <1>1
<1> QED BY <1>1, <1>2

LEMMA Allowances ==
    ASSUME NEW b \in Parts
    PROVE  Allowance(b) \in Nat
BY Limits DEF Allowance, Parts

\* A snapshot goes on telling what it told while its writer's process goes on, or is gone.
LEMMA TellingStays ==
    ASSUME FileTyped, starts' \in Nat, starts' >= starts, broken' \in Parts,
           \/ broken' = broken /\ brokenFor' = brokenFor
           \/ broken' = "nothing"
           \/ brokenFor' = 0,
           \A q \in Pids : proc'[q].start = proc[q].start \/ proc'[q].start > starts,
           \A q \in Pids : proc'[q].start = proc[q].start /\ (Listens(q) \/ proc[q].does = "gone") =>
               Listens(q)' \/ proc'[q].does = "gone"
    PROVE  \A x : Telling(x) => Telling(x)'
<1> SUFFICES ASSUME NEW x, Telling(x)
             PROVE  Telling(x)'
    OBVIOUS
<1>1. x \in [pid : Pids, start : 1 .. starts, seconds : 0 .. Old, problem : BOOLEAN]
    BY DEF Telling
<1>2. /\ x.pid \in Pids /\ x.start \in Nat /\ x.start <= starts /\ x.seconds \in Nat
      /\ x \in [pid : Pids, start : 1 .. starts', seconds : 0 .. Old, problem : BOOLEAN]
    BY <1>1, Limits DEF FileTyped
<1> SUFFICES ASSUME proc'[x.pid].start = x.start
             PROVE  /\ Listens(x.pid)' \/ proc'[x.pid].does = "gone"
                    /\ x.pid = "main" /\ ~x.problem /\ x.seconds <= FreshFor /\ broken' # "nothing" =>
                          brokenFor' <= Allowance(broken') + x.seconds
    BY <1>2 DEF Telling
<1>3. proc'[x.pid].start = proc[x.pid].start
    BY <1>2 DEF FileTyped
<1>4. Allowance(broken') \in Nat
    BY Allowances
<1> QED BY <1>2, <1>3, <1>4 DEF Telling

\* The file a listener writes: what it does not report has not lasted long.
LEMMA Written ==
    ASSUME HealthInv, NEW p \in Pids, proc[p].does # "gone",
           UNCHANGED <<monitorVars, starts>>,
           proc'[p].start = proc[p].start, Listens(p)', file' = Snap(p)
    PROVE  Telling(file)' /\ file' # Nothing /\ file'.pid = p /\ file'.start = proc'[p].start
<1>1. /\ file'.pid = p /\ file'.start = proc[p].start /\ file'.seconds = 0
      /\ file'.problem = (IF p = "main" THEN Problem ELSE FALSE)
    BY DEF Snap
<1>2. proc[p].start \in 1 .. starts
    BY DEF HealthInv, FileInv, FileTyped
<1>3. (IF p = "main" THEN Problem ELSE FALSE) \in BOOLEAN
    BY DEF Problem
<1>4. file' \in [pid : Pids, start : 1 .. starts, seconds : 0 .. Old, problem : BOOLEAN]
    <2> DEFINE problem == IF p = "main" THEN Problem ELSE FALSE
    <2>1. file' = [pid |-> p, start |-> proc[p].start, seconds |-> 0, problem |-> problem]
        BY DEF Snap
    <2>2. problem \in BOOLEAN
        BY <1>3
    <2> HIDE DEF problem
    <2> QED BY <1>2, <2>1, <2>2, Limits
<1>5. file' # Nothing
    BY <1>1, <1>2 DEF Nothing
<1>6. broken' = broken /\ brokenFor' = brokenFor /\ starts' = starts
    BY DEF monitorVars
<1>7. broken \in Parts /\ brokenFor \in Nat
    BY DEF HealthInv, MonitorInv, MonitorTyped
<1>8. ~Problem /\ broken # "nothing" => brokenFor <= Allowance(broken)
    <2>1. Allowance(broken) \in Nat
        BY <1>7, Allowances
    <2>2. broken # "nothing" /\ brokenFor > Allowance(broken) => Problem
        BY Named DEF HealthInv
    <2> QED BY <1>7, <2>1, <2>2
<1>9. Allowance(broken) \in Nat
    BY <1>7, Allowances
<1>10. p = "main" /\ ~file'.problem /\ broken # "nothing" => brokenFor <= Allowance(broken) + 0
    BY <1>1, <1>7, <1>8, <1>9
<1> QED BY <1>1, <1>4, <1>5, <1>6, <1>10 DEF Telling

LEMMA MonitorStays ==
    ASSUME MonitorInv, UNCHANGED monitorVars
    PROVE  MonitorInv' /\ broken' = broken /\ brokenFor' = brokenFor /\ broken' \in Parts
BY DEF monitorVars, MonitorInv, MonitorTyped, SegmenterTells, StagesTell, StampsTell, AgedSince, LoopWaits

\* A process that ends takes its monitor with it.
LEMMA ForgottenKeeps ==
    ASSUME MonitorInv, NEW p, Forgotten(p)
    PROVE  /\ MonitorInv' /\ broken' \in Parts
           /\ (broken' = broken /\ brokenFor' = brokenFor) \/ broken' = "nothing"
           /\ p = "main" => broken' = "nothing"
           /\ p # "main" => broken' = broken
<1>1. CASE p = "main"
    BY <1>1, ResetKeeps DEF Forgotten, Parts
<1>2. CASE p # "main"
    BY <1>2, MonitorStays DEF Forgotten
<1> QED BY <1>1, <1>2

LEMMA StartKeeps ==
    ASSUME HealthInv, NEW p \in Pids, StartProcess(p)
    PROVE  HealthInv'
<1>1. /\ proc[p].does = "gone" /\ starts' = starts + 1
      /\ UNCHANGED monitorVars /\ lock' = lock /\ file' = file /\ reader' = reader
    BY DEF StartProcess
<1>2. PICK what \in {"starting", "stranger"} :
          proc' = [proc EXCEPT ![p] = [does |-> what, start |-> starts + 1]]
    BY DEF StartProcess
<1>3. MonitorInv' /\ broken' = broken /\ brokenFor' = brokenFor /\ broken' \in Parts
    BY <1>1, MonitorStays DEF HealthInv
<1>4. FileTyped /\ Locked /\ OfItsWriter
    BY DEF HealthInv, FileInv
<1>5. /\ proc' \in [Pids -> [does : Doings, start : Nat]]
      /\ proc'[p].does \in {"starting", "stranger"} /\ proc'[p].start = starts + 1
      /\ \A q \in Pids : q # p => proc'[q] = proc[q]
    <2>1. [does |-> what, start |-> starts + 1] \in [does : Doings, start : Nat]
        BY <1>4 DEF FileTyped, Doings
    <2> QED BY <1>2, <1>4, <2>1 DEF FileTyped
<1>6. FileTyped'
    BY <1>1, <1>4, <1>5 DEF FileTyped
<1>7. \A q \in Pids : Listens(q)' <=> Listens(q)
    BY <1>1, <1>5 DEF Listens
<1>8. Locked'
    <2>1. "main" \in Pids
        BY DEF Pids
    <2> QED BY <1>1, <1>3, <1>4, <1>7, <2>1 DEF Locked
<1>9. OfItsWriter'
    BY <1>1, <1>4, <1>5 DEF OfItsWriter
<1>10. \A x : Telling(x) => Telling(x)'
    <2>1. \A q \in Pids : proc'[q].start = proc[q].start \/ proc'[q].start > starts
        BY <1>4, <1>5 DEF FileTyped
    <2>2. \A q \in Pids : proc'[q].start = proc[q].start /\ (Listens(q) \/ proc[q].does = "gone") =>
              Listens(q)' \/ proc'[q].does = "gone"
        BY <1>4, <1>5, <1>7 DEF FileTyped
    <2>3. starts' \in Nat /\ starts' >= starts
        BY <1>1, <1>4 DEF FileTyped
    <2> QED BY <1>3, <1>4, <2>1, <2>2, <2>3, TellingStays
<1>11. (file' = Nothing \/ Telling(file)') /\ (reader' = Nothing \/ Telling(reader)')
    BY <1>1, <1>10 DEF HealthInv, FileInv, Telling
<1> QED BY <1>3, <1>6, <1>8, <1>9, <1>11 DEF HealthInv, FileInv, Nothing

\* A process takes a step that its listener's monitor outlives: what it does next is to listen
\* if it listened before, or took the lock; and it writes the file, removes it or leaves it.
LEMMA ListenerStep ==
    ASSUME HealthInv, NEW p \in Pids, NEW what \in Doings, Doing(p, what),
           UNCHANGED <<monitorVars, reader, starts>>, proc[p].does # "gone",
           what # "gone" => Listens(p)',
           Listens(p) => what # "gone",
           \A q \in Pids : (q # p /\ Listens(q)) \/ (q = p /\ Listens(p)') <=> lock' = q,
           \/ /\ file' = file
              /\ what \in {"publishing", "silent", "closing"} =>
                    proc[p].does \in {"publishing", "silent", "closing"}
           \/ file' = Snap(p) /\ what # "gone"
           \/ file' = Nothing /\ what = "removed"
    PROVE  HealthInv'
<1>1. MonitorInv' /\ broken' = broken /\ brokenFor' = brokenFor /\ broken' \in Parts
      /\ starts' = starts /\ reader' = reader
    BY MonitorStays DEF HealthInv
<1>2. FileTyped /\ Locked /\ OfItsWriter
    BY DEF HealthInv, FileInv
<1>3. /\ proc' \in [Pids -> [does : Doings, start : Nat]]
      /\ proc'[p].does = what
      /\ \A q \in Pids : proc'[q].start = proc[q].start
      /\ \A q \in Pids : q # p => proc'[q].does = proc[q].does
    BY <1>2, Does
<1>4. FileTyped'
    <2>1. proc[p].start >= 1
        BY <1>2 DEF FileTyped
    <2> QED BY <1>1, <1>2, <1>3, <2>1 DEF FileTyped
<1>5. \A q \in Pids : q # p => (Listens(q)' <=> Listens(q))
    BY <1>3 DEF Listens
<1>6. Locked'
    <2>1. \A q \in Pids : Listens(q)' <=> lock' = q
        BY <1>5
    <2>2. Listens("main") => Listens("main")' 
        BY <1>3, <1>5 DEF Pids
    <2> QED BY <1>1, <1>2, <2>1, <2>2 DEF Locked
<1>7. \A x : Telling(x) => Telling(x)'
    <2>1. \A q \in Pids : (Listens(q) \/ proc[q].does = "gone") =>
              Listens(q)' \/ proc'[q].does = "gone"
        BY <1>3, <1>5
    <2>2. starts' \in Nat /\ starts' >= starts
        BY <1>1, <1>2 DEF FileTyped
    <2> QED BY <1>1, <1>2, <1>3, <2>1, <2>2, TellingStays
<1>8. reader' = Nothing \/ Telling(reader)'
    BY <1>1, <1>7 DEF HealthInv, FileInv, Telling
<1>9. \A q \in Pids : q # p /\ Listens(p)' => ~Listens(q)'
    <2>1. \A q \in Pids : Listens(q)' <=> lock' = q
        BY <1>5
    <2> QED BY <2>1
<1>10. CASE /\ file' = file
            /\ what \in {"publishing", "silent", "closing"} =>
                  proc[p].does \in {"publishing", "silent", "closing"}
    <2>1. file' = Nothing \/ Telling(file)'
        BY <1>7, <1>10 DEF HealthInv, FileInv, Telling, Nothing
    <2>2. OfItsWriter'
        BY <1>2, <1>3, <1>10 DEF OfItsWriter, Nothing
    <2> QED BY <1>1, <1>4, <1>6, <1>8, <2>1, <2>2 DEF HealthInv, FileInv, Nothing
<1>11. CASE file' = Snap(p) /\ what # "gone"
    <2>1. Telling(file)' /\ file' # Nothing /\ file'.pid = p /\ file'.start = proc'[p].start
        <3>1. UNCHANGED <<monitorVars, starts>> /\ Listens(p)' /\ proc'[p].start = proc[p].start
            BY <1>3, <1>11
        <3> QED BY <1>11, <3>1, Written
    <2>2. OfItsWriter'
        BY <1>9, <1>11, <2>1 DEF OfItsWriter, Listens, Nothing
    <2> QED BY <1>1, <1>4, <1>6, <1>8, <2>1, <2>2 DEF HealthInv, FileInv, Nothing
<1>12. CASE file' = Nothing /\ what = "removed"
    <2>1. OfItsWriter'
        BY <1>3, <1>9, <1>12 DEF OfItsWriter, Listens, Nothing
    <2> QED BY <1>1, <1>4, <1>6, <1>8, <1>12, <2>1 DEF HealthInv, FileInv, Nothing
<1> QED BY <1>10, <1>11, <1>12

\* Of the steps of a process, those of a publisher.
LEMMA PublisherKeeps ==
    ASSUME HealthInv, NEW p \in Pids,
           Publish(p) \/ Update(p) \/ UpdateFails(p) \/ CloseStart(p) \/ RemoveFile(p)
    PROVE  HealthInv'
<1>1. FileTyped /\ \A q \in Pids : Listens(q) <=> lock = q
    BY DEF HealthInv, FileInv, Locked
<1>2. ASSUME NEW what \in Doings, Doing(p, what)
      PROVE  proc'[p].does = what
    BY <1>1, <1>2, Does
<1>3. CASE Publish(p) /\ lock = ""
    <2>1. /\ proc[p].does = "starting" /\ Doing(p, "publishing") /\ file' = Snap(p) /\ lock' = p
          /\ UNCHANGED <<monitorVars, reader, starts>>
        BY Zenon, <1>3 DEF Publish
    <2>2. \A q \in Pids : lock # q
        BY <1>3, NoHolder, Zenon
    <2>3. Listens(p)' /\ ~Listens(p) /\ "publishing" \in Doings
        BY <1>2, <2>1 DEF Listens, Doings
    <2>4. \A q \in Pids : (q # p /\ Listens(q)) \/ (q = p /\ Listens(p)') <=> lock' = q
        BY <1>1, <2>1, <2>2, <2>3
    <2> QED BY <2>1, <2>3, <2>4, ListenerStep
<1>4. CASE Publish(p) /\ lock # ""
    <2>1. /\ proc[p].does = "starting" /\ Doing(p, "gone") /\ file' = file /\ lock' = lock
          /\ UNCHANGED <<monitorVars, reader, starts>>
        BY Zenon, <1>4 DEF Publish
    <2>2. ~Listens(p)' /\ ~Listens(p) /\ "gone" \in Doings
        BY <1>2, <2>1 DEF Listens, Doings
    <2>3. \A q \in Pids : (q # p /\ Listens(q)) \/ (q = p /\ Listens(p)') <=> lock' = q
        BY <1>1, <2>1, <2>2
    <2> QED BY <2>1, <2>2, <2>3, ListenerStep
<1>5. CASE Update(p)
    <2>1. /\ proc[p].does = "publishing" /\ file' = Snap(p) /\ lock' = lock /\ proc' = proc
          /\ UNCHANGED <<monitorVars, reader, starts>>
        BY <1>5 DEF Update
    <2>2. Doing(p, "publishing") /\ "publishing" \in Doings
        <3>1. proc = [proc EXCEPT ![p].does = "publishing"]
            BY <1>1, <2>1 DEF FileTyped
        <3> QED BY <2>1, <3>1 DEF Doing, Doings
    <2>3. Listens(p)' /\ Listens(p)
        BY <2>1 DEF Listens
    <2>4. \A q \in Pids : (q # p /\ Listens(q)) \/ (q = p /\ Listens(p)') <=> lock' = q
        BY <1>1, <2>1, <2>3
    <2> QED BY <2>1, <2>2, <2>3, <2>4, ListenerStep
<1>6. CASE UpdateFails(p)
    <2>1. /\ proc[p].does = "publishing" /\ Doing(p, "silent") /\ file' = file /\ lock' = lock
          /\ UNCHANGED <<monitorVars, reader, starts>>
        BY <1>6 DEF UpdateFails
    <2>2. Listens(p)' /\ Listens(p) /\ "silent" \in Doings
        BY <1>2, <2>1 DEF Listens, Doings
    <2>3. \A q \in Pids : (q # p /\ Listens(q)) \/ (q = p /\ Listens(p)') <=> lock' = q
        BY <1>1, <2>1, <2>2
    <2> QED BY <2>1, <2>2, <2>3, ListenerStep
<1>7. CASE CloseStart(p)
    <2>1. /\ proc[p].does \in {"publishing", "silent"} /\ Doing(p, "closing")
          /\ file' = file /\ lock' = lock /\ UNCHANGED <<monitorVars, reader, starts>>
        BY <1>7 DEF CloseStart
    <2>2. Listens(p)' /\ Listens(p) /\ "closing" \in Doings
        BY <1>2, <2>1 DEF Listens, Doings
    <2>3. \A q \in Pids : (q # p /\ Listens(q)) \/ (q = p /\ Listens(p)') <=> lock' = q
        BY <1>1, <2>1, <2>2
    <2> QED BY <2>1, <2>2, <2>3, ListenerStep
<1>8. CASE RemoveFile(p)
    <2>1. /\ proc[p].does = "closing" /\ Doing(p, "removed") /\ file' = Nothing /\ lock' = lock
          /\ UNCHANGED <<monitorVars, reader, starts>>
        BY <1>8 DEF RemoveFile
    <2>2. Listens(p)' /\ Listens(p) /\ "removed" \in Doings
        BY <1>2, <2>1 DEF Listens, Doings
    <2>3. \A q \in Pids : (q # p /\ Listens(q)) \/ (q = p /\ Listens(p)') <=> lock' = q
        BY <1>1, <2>1, <2>2
    <2> QED BY <2>1, <2>2, <2>3, ListenerStep
<1> QED BY <1>3, <1>4, <1>5, <1>6, <1>7, <1>8

\* A process ends, by itself or killed.
LEMMA EndKeeps ==
    ASSUME HealthInv, NEW p \in Pids, Unlock(p) \/ Dies(p)
    PROVE  HealthInv'
<1>1. /\ proc[p].does # "gone" /\ Doing(p, "gone") /\ lock' = Released(p) /\ Forgotten(p)
      /\ file' = file /\ reader' = reader /\ starts' = starts
    BY DEF Unlock, Dies
<1>2. FileTyped /\ Locked /\ OfItsWriter
    BY DEF HealthInv, FileInv
<1>3. /\ proc' \in [Pids -> [does : Doings, start : Nat]]
      /\ proc'[p].does = "gone"
      /\ \A q \in Pids : proc'[q].start = proc[q].start
      /\ \A q \in Pids : q # p => proc'[q].does = proc[q].does
    BY <1>1, <1>2, Does DEF Doings
<1>4. FileTyped'
    BY <1>1, <1>2, <1>3 DEF FileTyped
<1>5. /\ MonitorInv' /\ broken' \in Parts
      /\ (broken' = broken /\ brokenFor' = brokenFor) \/ broken' = "nothing"
      /\ p = "main" => broken' = "nothing"
      /\ p # "main" => broken' = broken
    BY <1>1, ForgottenKeeps DEF HealthInv
<1>6. ~Listens(p)' /\ \A q \in Pids : q # p => (Listens(q)' <=> Listens(q))
    BY <1>3 DEF Listens
<1>7. Locked'
    <2>1. \A q \in Pids : q # p => (lock' = q <=> lock = q)
        BY <1>1, NoHolder, Zenon DEF Released
    <2>2. lock' # p
        BY <1>1, NoHolder, Zenon DEF Released
    <2>3. \A q \in Pids : Listens(q)' <=> lock' = q
        BY <1>2, <1>6, <2>1, <2>2 DEF Locked
    <2>4. ~Listens("main")' => broken' = "nothing"
        BY <1>2, <1>5, <1>6 DEF Locked, Pids
    <2> QED BY <2>3, <2>4 DEF Locked
<1>8. OfItsWriter'
    BY <1>1, <1>2, <1>3 DEF OfItsWriter, Nothing
<1>9. \A x : Telling(x) => Telling(x)'
    <2>1. \A q \in Pids : (Listens(q) \/ proc[q].does = "gone") =>
              Listens(q)' \/ proc'[q].does = "gone"
        BY <1>3, <1>6
    <2>2. starts' \in Nat /\ starts' >= starts
        BY <1>1, <1>2 DEF FileTyped
    <2> QED BY <1>2, <1>3, <1>5, <2>1, <2>2, TellingStays
<1>10. (file' = Nothing \/ Telling(file)') /\ (reader' = Nothing \/ Telling(reader)')
    BY <1>1, <1>9 DEF HealthInv, FileInv, Telling
<1> QED BY <1>4, <1>5, <1>7, <1>8, <1>10 DEF HealthInv, FileInv, Nothing

LEMMA ListensKeeps ==
    ASSUME HealthInv, Listener
    PROVE  HealthInv'
<1>1. /\ Listens("main") /\ proc' = proc /\ lock' = lock /\ file' = file /\ reader' = reader
      /\ starts' = starts
    BY DEF Listener, fileVars
<1>2. /\ MonitorInv'
      /\ (broken' = broken /\ brokenFor' = brokenFor) \/ brokenFor' = 0
    BY ListenerKeeps DEF HealthInv, Listener
<1>3. FileTyped /\ Locked /\ OfItsWriter
    BY DEF HealthInv, FileInv
<1>4. FileTyped' /\ OfItsWriter'
    BY <1>1, <1>3 DEF FileTyped, OfItsWriter, Nothing
<1>5. \A q \in Pids : Listens(q)' <=> Listens(q)
    BY <1>1 DEF Listens
<1>6. Locked'
    BY <1>1, <1>3, <1>5 DEF Locked, Pids
<1>7. \A x : Telling(x) => Telling(x)'
    <2>1. broken' \in Parts
        BY <1>2 DEF MonitorInv, MonitorTyped
    <2>2. starts' \in Nat /\ starts' >= starts
        BY <1>1, <1>3 DEF FileTyped
    <2> QED BY <1>1, <1>2, <1>3, <1>5, <2>1, <2>2, TellingStays
<1>8. (file' = Nothing \/ Telling(file)') /\ (reader' = Nothing \/ Telling(reader)')
    BY <1>1, <1>7 DEF HealthInv, FileInv, Telling
<1> QED BY <1>2, <1>4, <1>6, <1>8 DEF HealthInv, FileInv, Nothing

\* `voice health` reads and answers; or nothing happens.
LEMMA ReaderKeeps ==
    ASSUME HealthInv, ReadFile \/ Answer \/ UNCHANGED vars
    PROVE  HealthInv'
<1>1. /\ UNCHANGED monitorVars /\ proc' = proc /\ lock' = lock /\ file' = file /\ starts' = starts
      /\ reader' \in {reader, file, Nothing}
    BY DEF ReadFile, Answer, vars, fileVars
<1>2. MonitorInv' /\ broken' = broken /\ brokenFor' = brokenFor
    BY <1>1, MonitorStays DEF HealthInv
<1>3. FileTyped' /\ OfItsWriter' /\ \A q \in Pids : Listens(q)' <=> Listens(q)
    BY <1>1 DEF HealthInv, FileInv, FileTyped, OfItsWriter, Listens, Nothing
<1>4. Locked'
    BY <1>1, <1>2, <1>3 DEF HealthInv, FileInv, Locked, Pids
<1>5. \A x : Telling(x) => Telling(x)'
    BY <1>1, <1>2 DEF Telling, Listens
<1>6. file' = Nothing \/ Telling(file)'
    BY <1>1, <1>5 DEF HealthInv, FileInv, Telling
<1>7. reader' = Nothing \/ Telling(reader)'
    BY <1>1, <1>5 DEF HealthInv, FileInv, Telling
<1> QED BY <1>2, <1>3, <1>4, <1>6, <1>7 DEF HealthInv, FileInv, Nothing

\* A second: the file ages with the part that is stuck.
LEMMA SecondKeeps ==
    ASSUME HealthInv, Tick
    PROVE  HealthInv'
<1>1. /\ reader = Nothing /\ proc' = proc /\ lock' = lock /\ reader' = reader /\ starts' = starts
      /\ file' = IF file = Nothing THEN file ELSE [file EXCEPT !.seconds = Older(@, Old)]
      /\ IF Listens("main") THEN MonitorTick(Horizon) ELSE UNCHANGED monitorVars
    BY DEF Tick
<1>2. /\ MonitorInv' /\ broken' = broken /\ brokenFor' <= brokenFor + 1
      /\ broken \in Parts /\ brokenFor \in Nat /\ brokenFor' \in Nat
    <2>1. MonitorInv /\ broken \in Parts /\ brokenFor \in Nat
        BY DEF HealthInv, MonitorInv, MonitorTyped
    <2>2. CASE Listens("main")
        <3>1. Horizon \in Nat
            BY Limits DEF Horizon
        <3>2. MonitorTick(Horizon)
            BY <1>1, <2>2
        <3>3. MonitorInv' /\ broken' = broken /\ brokenFor' <= brokenFor + 1
            BY <2>1, <3>1, <3>2, TickKeeps
        <3> QED BY <2>1, <3>3 DEF MonitorInv, MonitorTyped
    <2>3. CASE ~Listens("main")
        <3>1. MonitorInv' /\ broken' = broken /\ brokenFor' = brokenFor
            BY <1>1, <2>1, <2>3, MonitorStays
        <3> QED BY <2>1, <3>1
    <2> QED BY <2>2, <2>3
<1>3. FileTyped' /\ \A q \in Pids : Listens(q)' <=> Listens(q)
    BY <1>1 DEF HealthInv, FileInv, FileTyped, Listens
<1>4. Locked'
    BY <1>1, <1>2, <1>3 DEF HealthInv, FileInv, Locked, Pids
<1>5. ASSUME file # Nothing
      PROVE  Telling(file)' /\ file'.pid = file.pid /\ file'.start = file.start /\ file' # Nothing
    <2>1. Telling(file)
        BY <1>5 DEF HealthInv, FileInv
    <2>2. /\ file \in [pid : Pids, start : 1 .. starts, seconds : 0 .. Old, problem : BOOLEAN]
          /\ starts \in Nat
        BY <2>1 DEF Telling, HealthInv, FileInv, FileTyped
    <2> DEFINE n == Older(file.seconds, Old)
    <2>3. /\ n \in 0 .. Old
          /\ n <= FreshFor => file.seconds <= FreshFor /\ n = file.seconds + 1
        <3>1. PICK m \in Nat : m = file.seconds /\ m <= Old
            BY <2>2, Limits
        <3> QED BY <3>1, Limits DEF Older
    <2>4. file' = [file EXCEPT !.seconds = n]
        BY <1>1, <1>5
    <2> HIDE DEF n
    <2>5. /\ file'.pid = file.pid /\ file'.start = file.start /\ file'.seconds = n
          /\ file'.problem = file.problem
          /\ file' \in [pid : Pids, start : 1 .. starts, seconds : 0 .. Old, problem : BOOLEAN]
        BY <2>2, <2>3, <2>4
    <2>6. file' # Nothing
        <3>1. file'.start >= 1
            BY <2>2, <2>5
        <3> QED BY <3>1 DEF Nothing
    <2>7. ASSUME proc[file.pid].start = file.start
          PROVE  /\ Listens(file.pid)' \/ proc'[file.pid].does = "gone"
                 /\ file'.pid = "main" /\ ~file'.problem /\ n <= FreshFor /\ broken # "nothing" =>
                       brokenFor' <= Allowance(broken) + n
        <3>1. /\ Listens(file.pid) \/ proc[file.pid].does = "gone"
              /\ file.pid = "main" /\ ~file.problem /\ file.seconds <= FreshFor /\ broken # "nothing" =>
                    brokenFor <= Allowance(broken) + file.seconds
            BY <2>1, <2>7 DEF Telling
        <3>2. Listens(file.pid)' \/ proc'[file.pid].does = "gone"
            BY <1>1, <3>1 DEF Listens
        <3>3. ASSUME file'.pid = "main", ~file'.problem, n <= FreshFor, broken # "nothing"
              PROVE  brokenFor' <= Allowance(broken) + n
            <4>1. brokenFor <= Allowance(broken) + file.seconds
                BY <2>3, <2>5, <3>1, <3>3
            <4>2. PICK m \in Nat : m = file.seconds /\ n = m + 1
                BY <2>2, <2>3, <3>3
            <4>3. Allowance(broken) \in Nat
                BY <1>2, Allowances
            <4> QED BY <1>2, <4>1, <4>2, <4>3
        <3> QED BY <3>2, <3>3
    <2> QED BY <1>1, <1>2, <2>5, <2>6, <2>7 DEF Telling
<1>6. file = Nothing => file' = Nothing
    BY <1>1
<1>7. OfItsWriter'
    BY <1>1, <1>5 DEF HealthInv, FileInv, OfItsWriter, Nothing
<1> QED BY <1>1, <1>2, <1>3, <1>4, <1>5, <1>6, <1>7 DEF HealthInv, FileInv, Nothing

LEMMA HealthStep ==
    ASSUME HealthInv, [Next]_vars
    PROVE  HealthInv'
<1>1. CASE \E p \in Pids : StartProcess(p)
    BY <1>1, StartKeeps
<1>2. CASE \E p \in Pids : Publish(p) \/ Update(p) \/ UpdateFails(p) \/ CloseStart(p) \/ RemoveFile(p)
    BY <1>2, PublisherKeeps
<1>3. CASE \E p \in Pids : Unlock(p) \/ Dies(p)
    BY <1>3, EndKeeps
<1>4. CASE Listener
    BY <1>4, ListensKeeps
<1>5. CASE Tick
    BY <1>5, SecondKeeps
<1>6. CASE ReadFile \/ Answer \/ UNCHANGED vars
    BY <1>6, ReaderKeeps
<1> QED BY <1>1, <1>2, <1>3, <1>4, <1>5, <1>6 DEF Next

\* What the monitor's stages and stamps tell of the time since a part broke, and what the file
\* and a reader's snapshot of it tell: inductive for the whole of module HealthFile.
THEOREM HealthInvariant == Spec => []HealthInv
<1>1. Init => HealthInv
    <2> SUFFICES ASSUME Init
                 PROVE  HealthInv
        OBVIOUS
    <2>1. /\ MonitorInit /\ proc = [p \in Pids |-> [does |-> "gone", start |-> 0]]
          /\ file = Nothing /\ reader = Nothing /\ starts = 0
        BY DEF Init
    <2>2. \A p \in Pids : lock # p
        BY Zenon, NoHolder DEF Init
    <2>3. MonitorInv /\ broken = "nothing"
        BY <2>1, MonitorStarts DEF MonitorInit
    <2>4. FileTyped /\ OfItsWriter /\ Locked
        BY <2>1, <2>2, <2>3 DEF FileTyped, OfItsWriter, Locked, Listens, Doings
    <2> QED BY <2>1, <2>3, <2>4 DEF HealthInv, FileInv
<1>2. HealthInv /\ [Next]_vars => HealthInv'
    BY HealthStep
<1> QED BY <1>1, <1>2, PTL DEF Spec

\* However the parts break and the stages come and go, a part that stays stuck beyond its
\* allowance shows as a problem, and the diagnosis blames a part that may be at fault as far as the
\* stamps can tell (Snapshot, health.go:230-278).
THEOREM CulpritIsNamed == Spec => []CulpritNamed
<1>1. HealthInv => CulpritNamed
    <2> SUFFICES ASSUME HealthInv
                 PROVE  CulpritNamed
        OBVIOUS
    <2>1. CASE broken # "nothing" /\ brokenFor > Allowance(broken) /\ wakeState # "failed"
        BY <2>1, Named DEF HealthInv
    <2>2. CASE ~(broken # "nothing" /\ brokenFor > Allowance(broken) /\ wakeState # "failed")
        BY <2>2 DEF CulpritNamed
    <2> QED BY <2>1, <2>2
<1> QED BY <1>1, HealthInvariant, PTL

Earned ==
    verdict # "healthy" /\ verdict' = "healthy" =>
        /\ Listens(reader.pid) /\ proc[reader.pid].start = reader.start
        /\ reader.pid = "main" /\ broken # "nothing" => brokenFor <= Allowance(broken) + FreshFor

\* "healthy" is said of the process that wrote the snapshot only if it is the one that listens
\* now, and only while no part of it has been stuck beyond its allowance and the age a snapshot
\* may have (Read and Verify, file.go:44-96).
THEOREM HealthIsEarned == Spec => HealthyIsEarned
<1>1. HealthInv /\ [Next]_vars => Earned
    <2> SUFFICES ASSUME HealthInv, [Next]_vars, verdict # "healthy", verdict' = "healthy"
                 PROVE  /\ Listens(reader.pid) /\ proc[reader.pid].start = reader.start
                        /\ reader.pid = "main" /\ broken # "nothing" =>
                              brokenFor <= Allowance(broken) + FreshFor
        BY DEF Earned
    <2>1. Answer
        <3>1. verdict' # verdict
            OBVIOUS
        <3>2. verdict' # "none"
            OBVIOUS
        <3> QED BY <3>1, <3>2 DEF Next, StartProcess, Publish, Update, UpdateFails, CloseStart, RemoveFile,
                       Unlock, Dies, ReadFile, Listener, Tick, fileVars, vars
    <2>2. /\ reader.seconds <= FreshFor /\ proc[reader.pid].does # "gone"
          /\ proc[reader.pid].start = reader.start /\ ~reader.problem
        <3>1. PICK expected \in {"main", ""} :
                  verdict' = IF ~Verified(reader, expected) THEN "unverified"
                             ELSE IF reader.problem THEN "problem" ELSE "healthy"
            BY Zenon, <2>1 DEF Answer
        <3>2. Verified(reader, expected) /\ ~reader.problem
            BY Zenon, <3>1
        <3> QED BY Zenon, <3>2 DEF Verified
    <2>3. Telling(reader)
        BY <2>1 DEF Answer, HealthInv, FileInv
    <2>4. reader.seconds \in Nat /\ brokenFor \in Nat /\ broken \in Parts
        <3>1. reader.seconds \in 0 .. Old
            BY <2>3 DEF Telling
        <3>2. brokenFor \in Nat /\ broken \in Parts
            BY DEF HealthInv, MonitorInv, MonitorTyped
        <3> QED BY <3>1, <3>2, Limits
    <2>5. Allowance(broken) \in Nat
        BY <2>4, Allowances
    <2>6. Listens(reader.pid)
        BY <2>2, <2>3 DEF Telling
    <2>7. reader.pid = "main" /\ broken # "nothing" => brokenFor <= Allowance(broken) + reader.seconds
        BY <2>2, <2>3 DEF Telling
    <2>8. reader.pid = "main" /\ broken # "nothing" => brokenFor <= Allowance(broken) + FreshFor
        <3>1. PICK a \in Nat : a = Allowance(broken)
            BY <2>5
        <3>2. PICK m \in Nat : m = reader.seconds /\ m <= FreshFor
            BY <2>2, <2>4
        <3>3. brokenFor <= a + m => brokenFor <= a + FreshFor
            BY <2>4, <3>1, <3>2, Limits
        <3> QED BY <2>7, <3>1, <3>2, <3>3
    <2> QED BY <2>2, <2>6, <2>8
<1>2. [][Earned]_vars => HealthyIsEarned
    BY PTL DEF HealthyIsEarned, Earned
<1> QED BY <1>1, <1>2, HealthInvariant, PTL DEF Spec

Kept ==
    file # Nothing /\ file' = Nothing =>
        \A p \in Pids : proc[p].does = "closing" /\ proc'[p].does = "removed" =>
            file.start <= proc[p].start

\* A listener that closes removes its own snapshot and never a later listener's
\* (Publish's comment, file.go:99-100).
THEOREM SuccessorIsKept == Spec => SuccessorKept
<1>1. HealthInv => Kept
    <2> SUFFICES ASSUME HealthInv, NEW p \in Pids, proc[p].does = "closing"
                 PROVE  file.start <= proc[p].start
        BY DEF Kept
    <2>1. file.start = proc[p].start /\ proc[p].start \in Nat
        BY DEF HealthInv, FileInv, FileTyped, OfItsWriter
    <2> QED BY <2>1
<1>2. [][Kept]_vars => SuccessorKept
    BY PTL DEF SuccessorKept, Kept
<1> QED BY <1>1, <1>2, HealthInvariant, PTL DEF Spec
=============================================================================

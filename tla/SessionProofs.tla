--------------------------- MODULE SessionProofs ---------------------------
(***************************************************************************)
(* Proofs about the listener, for any budgets, windows and playback tail.  *)
(*                                                                         *)
(* What the gate's operations do to a gate is stated once (GateOperations, *)
(* SegmenterSteps); the loop's actions are then reasoned about without     *)
(* looking into the gate.  The inductive invariant says, at each point of  *)
(* the loop, which goroutine may still make a sound (SoundsApart), what    *)
(* fresh audio is (Untouched), what is left of the two budgets (Budgeted,  *)
(* Granted) and what a loss leaves authorized (Unauthorized).              *)
(***************************************************************************)
EXTENDS Session, SequenceTheorems, TLAPS

\* The types: a gate, work, a conversation.
Slot == {q \in Seq(Utterance) : Len(q) <= 1}

Gate == [turns : Nat, left : Nat, guard : Nat, state : State, fresh : BOOLEAN,
         acked : BOOLEAN, clean : BOOLEAN, out : Slot, hand : Slot,
         queued : BOOLEAN, fault : BOOLEAN]

Work == [on : BOOLEAN, left : Nat, turns : Nat, cancel : BOOLEAN,
         follow : BOOLEAN, allow : BOOLEAN]

Talk == [left : Nat, turns : Nat, timer : BOOLEAN]

Typed ==
    /\ k \in Gate /\ light \in Light
    /\ pc \in Point /\ then \in After
    /\ turn \in [free : BOOLEAN, clean : BOOLEAN]
    /\ active \in Work /\ conv \in Talk
    /\ worker \in {"idle", "running", "done"}
    /\ pulse \in {"off", "quiet", "checked", "playing"}
    /\ spent \in Nat /\ lost \in BOOLEAN

\* Where the loop is, and what there is for it to do there.
Placed ==
    /\ pc = "got" => k.hand # <<>>
    /\ ~active.on => active = NoWork
    /\ pc = "open" /\ then = "work" => active.on /\ active.left = 0
    /\ pc = "cue" => then \in {"answer", "followAnswer"}
    /\ pc \in {"say", "cue", "open"} /\ then \in {"answer", "followAnswer"} => ~active.on

\* The loop and the pulses never sound together: a pulse that plays has the
\* gate to itself, and where the loop makes a sound no pulse is left.
SoundsApart ==
    /\ pulse = "playing" => k.guard = Forever
    /\ pc \in {"earcon", "say", "cue"} => k.guard = Forever
    /\ pc \in {"earcon", "say", "cue", "gone"} => pulse = "off"
    /\ pc = "open" /\ then # "work" => pulse = "off"
    /\ pulse # "off" => active.on \/ pc = "transcribe"

\* Whatever carries the epoch in force was heard in silence since it began.
CleanIn(q) == \A i \in DOMAIN q : q[i].fresh => q[i].clean
CleanGate(m) == (m.fresh => m.clean) /\ CleanIn(m.out) /\ CleanIn(m.hand)

Untouched ==
    /\ CleanGate(k)
    /\ pc \in {"earcon", "transcribe"} => turn.clean

\* A fresh wake whose command has no work yet, and its answer.
Woken == pc \in {"earcon", "transcribe"} /\ ~active.on /\ ~turn.free
Answering == pc \in {"say", "cue", "open"} /\ then = "answer"

\* Work that a fresh wake began spends the first budget and finds no
\* conversation; work that a follow-up began has no more than the conversation.
Budgeted ==
    /\ spent + conv.turns <= InFlightTurns + ConversationTurns
    /\ active.on /\ ~active.follow =>
          conv.turns = 0 /\ conv.left = 0 /\ spent + active.turns <= InFlightTurns
    /\ active.on /\ active.follow => active.turns <= conv.turns
    /\ Woken => spent = 0 /\ conv.turns = 0 /\ conv.left = 0
    /\ pc = "open" /\ then = "work" /\ ~active.follow => spent = 0
    /\ Answering => spent <= InFlightTurns /\ conv.left = 0

\* A loss leaves no window, and no way back to one without a fresh wake.
Unauthorized ==
    /\ lost => /\ ~InFlight(k) /\ conv.turns = 0
               /\ ~active.allow /\ active.turns = 0
    /\ pc \in {"earcon", "transcribe"} /\ ~active.on => ~lost
    /\ pc = "open" /\ then = "work" => ~lost
    /\ Answering => ~lost

\* The open window of the gate is the work's or the conversation's.
Waiting(q) == IF q # <<>> /\ Head(q).free /\ Head(q).fresh THEN 1 ELSE 0
Uses(m) == m.turns + (Waiting(m.out) + Waiting(m.hand))

CoveredBy(owner) == Uses(k) <= owner.turns /\ k.left <= owner.left

Granted == k.left > 0 => CoveredBy(active) \/ CoveredBy(conv)

SessionInv ==
    Typed /\ Placed /\ SoundsApart /\ Untouched /\ Budgeted /\ Unauthorized /\ Granted

----------------------------------------------------------------------------
\* The one-place slots.

LEMMA Constants ==
    /\ PlaybackTail \in Nat /\ PlaybackTail > 0 /\ Forever \in Nat /\ Forever > 0
    /\ InFlightTurns \in Nat /\ InFlightWindow \in Nat
    /\ ConversationTurns \in Nat /\ ConversationWindow \in Nat
BY PlaybackTailAssumption, BudgetAssumption DEF Forever

\* A slot is empty or holds one utterance.
LEMMA Slots ==
    /\ <<>> \in Slot
    /\ \A u \in Utterance : <<u>> \in Slot /\ <<u>> # <<>> /\ Head(<<u>>) = u
    /\ \A q \in Slot : q # <<>> => q[1] \in Utterance /\ Head(q) = q[1] /\ DOMAIN q = {1}
    /\ \A q \in Slot : q = <<>> => DOMAIN q = {}
<1>1. <<>> \in Slot
  BY EmptySeq, LenProperties DEF Slot
<1>2. ASSUME NEW u \in Utterance
      PROVE  <<u>> \in Slot /\ <<u>> # <<>> /\ Head(<<u>>) = u
  BY DEF Slot
<1>3. ASSUME NEW q \in Slot, q # <<>>
      PROVE  q[1] \in Utterance /\ Head(q) = q[1] /\ DOMAIN q = {1}
  <2>1. q \in Seq(Utterance) /\ Len(q) <= 1 /\ Len(q) # 0
    BY <1>3, EmptySeq DEF Slot
  <2>2. Len(q) = 1
    <3>1. Len(q) \in Nat
      BY <2>1, LenProperties, Zenon
    <3>2. \A n \in Nat : n <= 1 /\ n # 0 => n = 1
      OBVIOUS
    <3> QED BY <2>1, <3>1, <3>2, Zenon
  <2>3. DOMAIN q = 1 .. 1
    BY <2>1, <2>2, LenProperties
  <2>4. 1 .. 1 = {1}
    OBVIOUS
  <2>5. q[1] \in Utterance
    BY <2>1, <2>3, <2>4, ElementOfSeq, <2>2
  <2>6. Head(q) = q[1]
    BY <2>1
  <2> QED BY <2>3, <2>4, <2>5, <2>6
<1>4. ASSUME NEW q \in Slot, q = <<>>
      PROVE  DOMAIN q = {}
  BY <1>4
<1> QED BY <1>1, <1>2, <1>3, <1>4

\* An utterance that is marked remains one, in its slot, with its other flags.
Staled(q) == [i \in DOMAIN q |-> [q[i] EXCEPT !.fresh = FALSE]]
Spoilt(q) == [i \in DOMAIN q |-> [q[i] EXCEPT !.clean = FALSE]]

LEMMA Marking ==
    ASSUME NEW q \in Slot
    PROVE  /\ Staled(q) \in Slot /\ Spoilt(q) \in Slot
           /\ (Staled(q) = <<>>) = (q = <<>>) /\ (Spoilt(q) = <<>>) = (q = <<>>)
           /\ q # <<>> => Staled(q)[1] = [q[1] EXCEPT !.fresh = FALSE]
           /\ q # <<>> => Spoilt(q)[1] = [q[1] EXCEPT !.clean = FALSE]
<1>1. CASE q = <<>>
  <2>1. DOMAIN q = {}
    BY <1>1, Slots
  <2>2. Staled(q) = <<>> /\ Spoilt(q) = <<>>
    BY <2>1 DEF Staled, Spoilt
  <2> QED BY <1>1, <2>2
<1>2. CASE q # <<>>
  <2>1. q[1] \in Utterance /\ DOMAIN q = {1}
    BY <1>2, Slots
  <2>2. /\ [q[1] EXCEPT !.fresh = FALSE] \in Utterance
        /\ [q[1] EXCEPT !.clean = FALSE] \in Utterance
    BY <2>1 DEF Utterance
  <2>3. Staled(q)[1] = [q[1] EXCEPT !.fresh = FALSE] /\ Spoilt(q)[1] = [q[1] EXCEPT !.clean = FALSE]
    BY <2>1 DEF Staled, Spoilt
  <2>4. Staled(q) \in [1 .. 1 -> Utterance] /\ Spoilt(q) \in [1 .. 1 -> Utterance]
    <3>1. 1 .. 1 = {1}
      OBVIOUS
    <3> QED BY <2>1, <2>2, <3>1 DEF Staled, Spoilt
  <2>5. /\ Staled(q) \in Seq(Utterance) /\ Len(Staled(q)) = 1
        /\ Spoilt(q) \in Seq(Utterance) /\ Len(Spoilt(q)) = 1
    <3>1. \A f \in [1 .. 1 -> Utterance] : f \in Seq(Utterance) /\ Len(f) = 1
      <4>1. ASSUME NEW f \in [1 .. 1 -> Utterance]
            PROVE  f \in Seq(Utterance)
        BY 1 \in Nat, SeqDef
      <4>2. ASSUME NEW f \in [1 .. 1 -> Utterance]
            PROVE  Len(f) = 1
        BY <4>1
      <4> QED BY <4>1, <4>2
    <3> QED BY <2>4, <3>1
  <2>6. Staled(q) # <<>> /\ Spoilt(q) # <<>>
    <3>1. Len(<<>>) = 0
      BY EmptySeq
    <3> QED BY <2>5, <3>1, 0 # 1, Zenon
  <2> QED BY <1>2, <2>3, <2>5, <2>6 DEF Slot
<1> QED BY <1>1, <1>2

----------------------------------------------------------------------------
\* What the gate's operations leave of a gate.

LEMMA UsesIsNat == \A m \in Gate : Uses(m) \in Nat /\ m.turns <= Uses(m)
BY DEF Uses, Waiting, Gate

\* A gate that differs only in its guard or its fault report uses as much, and is as clean.
SameAudio(m, n) ==
    /\ n \in Gate /\ n.left = m.left /\ n.turns = m.turns
    /\ Uses(n) = Uses(m) /\ CleanGate(n) = CleanGate(m) /\ (n.hand = <<>>) = (m.hand = <<>>)

\* After a change of authorization or a sound nothing captured before counts.
LEMMA NewWindow ==
    ASSUME NEW m \in Gate, NEW left \in Nat, NEW turns \in Nat
    PROVE  LET n == SetInFlightWindow(m, left, turns) IN
           /\ n \in Gate /\ n.left = left /\ n.turns = turns /\ Uses(n) = turns
           /\ CleanGate(n) /\ n.guard = m.guard /\ n.fault = m.fault
           /\ (n.hand = <<>>) = (m.hand = <<>>)
<1> DEFINE n == SetInFlightWindow(m, left, turns)
<1>1. /\ n.out = Spoilt(Staled(m.out)) /\ n.hand = Spoilt(Staled(m.hand))
      /\ n = [m EXCEPT !.fresh = FALSE, !.clean = FALSE, !.out = n.out, !.hand = n.hand,
                       !.left = left, !.turns = turns]
  BY DEF SetInFlightWindow, Spoil, NewEpoch, Spoilt, Staled, Gate
<1>2. ASSUME NEW q \in Slot
      PROVE  /\ Spoilt(Staled(q)) \in Slot /\ (Spoilt(Staled(q)) = <<>>) = (q = <<>>)
             /\ CleanIn(Spoilt(Staled(q))) /\ Waiting(Spoilt(Staled(q))) = 0
  <2> DEFINE r == Spoilt(Staled(q))
  <2>1. r \in Slot /\ (r = <<>>) = (q = <<>>)
    BY Marking
  <2>2. r # <<>> => ~r[1].fresh
    <3>1. SUFFICES ASSUME r # <<>>
                   PROVE  ~r[1].fresh
      OBVIOUS
    <3>2. q # <<>> /\ Staled(q) # <<>> /\ Staled(q) \in Slot /\ q[1] \in Utterance
      BY <2>1, <3>1, Marking, Slots
    <3>3. r[1] = [[q[1] EXCEPT !.fresh = FALSE] EXCEPT !.clean = FALSE]
      BY <3>2, Marking
    <3> QED BY <3>2, <3>3 DEF Utterance
  <2>3. CleanIn(r) /\ Waiting(r) = 0
    BY <2>1, <2>2, Slots DEF CleanIn, Waiting
  <2> QED BY <2>1, <2>3
<1>3. m.out \in Slot /\ m.hand \in Slot
  BY DEF Gate
<1>4. n \in Gate /\ n.left = left /\ n.turns = turns /\ n.guard = m.guard /\ n.fault = m.fault
      /\ n.fresh = FALSE
  <2>1. Staled(m.out) \in Slot /\ Staled(m.hand) \in Slot
    BY <1>3, Marking
  <2>2. n.out \in Slot /\ n.hand \in Slot
    BY <1>1, <2>1, Marking
  <2> HIDE DEF n
  <2> QED BY <1>1, <2>2 DEF Gate
<1>5. CleanGate(n) /\ Uses(n) = turns
  BY <1>1, <1>2, <1>3, <1>4 DEF CleanGate, Uses
<1> QED BY <1>1, <1>2, <1>3, <1>4, <1>5

LEMMA Suspending ==
    ASSUME NEW m \in Gate
    PROVE  LET n == Suspend(m) IN
           /\ n \in Gate /\ n.left = m.left /\ n.turns = m.turns /\ Uses(n) = m.turns
           /\ CleanGate(n) /\ n.guard = Forever /\ n.fault = m.fault
           /\ (n.hand = <<>>) = (m.hand = <<>>)
<1> DEFINE w == SetInFlightWindow(m, m.left, m.turns)
<1>1. m.left \in Nat /\ m.turns \in Nat
  BY DEF Gate
<1>2. Suspend(m) = [w EXCEPT !.guard = Forever]
  BY DEF Suspend, SetInFlightWindow, Spoil, NewEpoch, Gate
<1>3. /\ w \in Gate /\ w.left = m.left /\ w.turns = m.turns /\ Uses(w) = m.turns
      /\ CleanGate(w) /\ w.fault = m.fault /\ (w.hand = <<>>) = (m.hand = <<>>)
  BY <1>1, NewWindow
<1> HIDE DEF w
<1> QED BY <1>2, <1>3, Constants DEF Gate, CleanGate, Uses

LEMMA Resuming ==
    ASSUME NEW m \in Gate
    PROVE  /\ SameAudio(m, ResumeAfter(m)) /\ ResumeAfter(m).guard = PlaybackTail
           /\ ResumeAfter(m).fault = m.fault
BY Constants DEF ResumeAfter, SameAudio, Gate, CleanGate, Uses

LEMMA Reported ==
    ASSUME NEW m \in Gate
    PROVE  SameAudio(m, [m EXCEPT !.fault = FALSE]) /\ [m EXCEPT !.fault = FALSE].guard = m.guard
BY DEF SameAudio, Gate, CleanGate, Uses

----------------------------------------------------------------------------
\* The segmenter: it uses up what a window allows and never opens one, keeps
\* its ears shut as long as they are, and emits only clean audio as fresh.

\* A gate that is n after m: as clean, and with no more authorized.
Tamer(m, n) ==
    /\ n \in Gate /\ n.guard = m.guard /\ (n.hand = <<>>) = (m.hand = <<>>)
    /\ CleanGate(m) => CleanGate(n)
    /\ n.left <= m.left /\ n.turns <= m.turns /\ (n.left = 0 \/ Uses(n) <= Uses(m))

LEMMA TamerStill ==
    \A m, n, o \in Gate : Tamer(m, n) /\ Tamer(n, o) => Tamer(m, o)
BY UsesIsNat DEF Tamer, Gate

LEMMA Resetting ==
    ASSUME NEW m \in Gate
    PROVE  Tamer(m, Reset(m)) /\ Reset(m).out = m.out /\ Reset(m).turns = m.turns
           /\ Reset(m).clean = TRUE /\ Reset(m).left = m.left
<1> DEFINE n == Reset(m)
<1>1. /\ n \in Gate /\ n.turns = m.turns /\ n.left = m.left /\ n.guard = m.guard
      /\ n.out = m.out /\ n.hand = m.hand /\ n.clean = TRUE
  BY DEF Reset, Gate, State
<1>2. m.turns \in Nat /\ m.left \in Nat /\ Uses(m) \in Nat
  BY UsesIsNat DEF Gate
<1> HIDE DEF n
<1>3. Uses(n) = Uses(m) /\ (CleanGate(m) => CleanGate(n))
  BY <1>1 DEF Uses, CleanGate
<1>4. Tamer(m, n)
  BY <1>1, <1>2, <1>3 DEF Tamer
<1> QED BY <1>1, <1>4 DEF n

\* What a window admits is taken from it when it is emitted.
LEMMA Emitting ==
    ASSUME NEW m \in Gate, m.state = "busy" /\ m.fresh => m.turns > 0
    PROVE  Tamer(m, Emit(m))
<1> DEFINE u == [free |-> m.state = "busy", acked |-> m.acked, fresh |-> m.fresh, clean |-> m.clean]
           sent == [m EXCEPT !.out = <<u>>, !.queued = TRUE]
           used == IF m.state = "busy" THEN UsedInFlightTurn(sent) ELSE sent
<1>1. CASE m.out # <<>>
  BY <1>1, Resetting DEF Emit
<1>2. CASE m.out = <<>>
  <2>1. u \in Utterance
    BY DEF Utterance, Gate
  <2>2. <<u>> \in Slot /\ <<u>> # <<>> /\ Head(<<u>>) = u /\ DOMAIN <<u>> = {1} /\ <<u>>[1] = u
    BY <2>1, Slots
  <2> HIDE DEF u
  <2>3. /\ sent \in Gate /\ sent.guard = m.guard /\ sent.left = m.left /\ sent.hand = m.hand
        /\ sent.fresh = m.fresh /\ sent.clean = m.clean /\ sent.out = <<u>>
        /\ sent.turns = m.turns /\ m.turns \in Nat
    BY <2>2 DEF Gate
  <2>4. /\ used \in Gate /\ used.guard = m.guard /\ used.left = m.left /\ used.hand = m.hand
        /\ used.fresh = m.fresh /\ used.clean = m.clean /\ used.out = <<u>>
        /\ used.turns = IF m.state = "busy" /\ m.fresh THEN m.turns - 1 ELSE m.turns
    <3> HIDE DEF sent
    <3>1. CASE m.state = "busy" /\ m.fresh
      <4>1. used = [sent EXCEPT !.turns = m.turns - 1] /\ m.turns - 1 \in Nat
        BY <2>3, <3>1 DEF UsedInFlightTurn, Gate
      <4> HIDE DEF used
      <4> QED BY <2>3, <3>1, <4>1 DEF Gate
    <3>2. CASE ~(m.state = "busy" /\ m.fresh)
      <4>1. used = sent
        BY <2>3, <3>2 DEF UsedInFlightTurn
      <4> QED BY <2>3, <3>2, <4>1
    <3> QED BY <3>1, <3>2
  <2>5. m.fresh \in BOOLEAN
    BY DEF Gate
  <2>6. Waiting(m.out) = 0 /\ Waiting(<<u>>) = IF m.state = "busy" /\ m.fresh THEN 1 ELSE 0
    <3>1. u.free = (m.state = "busy") /\ u.fresh = m.fresh
      BY DEF u
    <3> QED BY <1>2, <2>2, <2>5, <3>1 DEF Waiting
  <2>7. CleanGate(m) => CleanIn(<<u>>)
    BY <2>2 DEF CleanGate, CleanIn, u
  <2>8. m.turns \in Nat /\ m.left \in Nat /\ Waiting(m.hand) \in Nat
    BY DEF Gate, Waiting
  <2> HIDE DEF used
  <2>9. CleanGate(m) => CleanGate(used)
    BY <2>4, <2>7 DEF CleanGate
  <2>10. Uses(used) = Uses(m)
    BY <2>4, <2>5, <2>6, <2>8 DEF Uses
  <2>11. Tamer(m, used)
    BY <2>4, <2>5, <2>8, <2>9, <2>10, UsesIsNat DEF Tamer
  <2>12. Emit(m) = Reset(used)
    BY <1>2 DEF Emit, used, u
  <2>13. Tamer(used, Reset(used))
    BY <2>4, Resetting
  <2> QED BY <2>4, <2>11, <2>12, <2>13, TamerStill DEF Tamer
<1> QED BY <1>1, <1>2
LEMMA Guarding ==
    ASSUME NEW m \in Gate
    PROVE  /\ Tamer(m, Guarded(m))
           /\ ~Dropped(m) => (Guarded(m) = m /\ m.fresh) \/ Guarded(m).state = "armed"
           /\ Guarded(m).turns = m.turns /\ Guarded(m).left = m.left
<1> DEFINE r == Reset(m)
           n == [r EXCEPT !.fresh = @ \/ ~Dropped(m)]
<1>1. CASE Dropped(m) \/ ~m.fresh
  <2>1. /\ Tamer(m, r) /\ r.turns = m.turns /\ r.left = m.left /\ r.clean = TRUE
        /\ r \in Gate /\ r.state = "armed"
    BY Resetting DEF Tamer, Reset, Gate
  <2>2. Guarded(m) = n
    BY <1>1 DEF Guarded
  <2> HIDE DEF r
  <2>3. /\ n \in Gate /\ n.turns = r.turns /\ n.left = r.left /\ n.guard = r.guard
        /\ n.out = r.out /\ n.hand = r.hand /\ n.clean = TRUE /\ n.state = "armed"
    BY <2>1 DEF Gate
  <2> HIDE DEF n
  <2>4. Uses(n) = Uses(r) /\ (CleanGate(r) => CleanGate(n))
    BY <2>3 DEF Uses, CleanGate
  <2>5. Tamer(r, n)
    BY <2>1, <2>3, <2>4, UsesIsNat DEF Tamer, Gate
  <2> QED BY <2>1, <2>2, <2>3, <2>5, TamerStill
<1>2. CASE ~(Dropped(m) \/ ~m.fresh)
  BY <1>2, UsesIsNat DEF Guarded, Tamer, Gate
<1> QED BY <1>1, <1>2

\* The flags of the capture in progress are no authorization.
LEMMA Reshaping ==
    ASSUME NEW m \in Gate, NEW state \in State, NEW acked \in BOOLEAN
    PROVE  /\ Tamer(m, [m EXCEPT !.state = state])
           /\ Tamer(m, [m EXCEPT !.state = state, !.acked = acked])
<1>1. ASSUME NEW n \in Gate, n.turns = m.turns, n.left = m.left, n.guard = m.guard,
             n.out = m.out, n.hand = m.hand, n.fresh = m.fresh, n.clean = m.clean
      PROVE  Tamer(m, n)
  <2>1. Uses(n) = Uses(m) /\ (CleanGate(m) => CleanGate(n))
    BY <1>1 DEF Uses, CleanGate
  <2> QED BY <1>1, <2>1, UsesIsNat DEF Tamer, Gate
<1>2. [m EXCEPT !.state = state] \in Gate /\ [m EXCEPT !.state = state, !.acked = acked] \in Gate
  BY DEF Gate
<1> QED BY <1>1, <1>2 DEF Gate

LEMMA Capturing ==
    ASSUME NEW m \in Gate, m.state \notin {"earcon", "closed", "drained"},
           m.state = "busy" => m.turns > 0,
           NEW n \in Captured(m)
    PROVE  Tamer(m, n)
<1> USE DEF State
<1>1. Tamer(m, m)
  BY UsesIsNat DEF Tamer, Gate
<1>2. CASE m.state = "armed"
  BY <1>1, <1>2, Reshaping DEF Captured
<1>3. CASE m.state = "probing"
  BY <1>1, <1>3, Reshaping DEF Captured
<1>4. CASE m.state = "waiting"
  BY <1>1, <1>4, Reshaping DEF Captured
<1>5. CASE m.state = "busyProbing"
  BY <1>1, <1>5, Reshaping, Resetting DEF Captured
<1>6. CASE m.state \in {"inline", "follow", "busy"}
  BY <1>1, <1>6, Emitting DEF Captured
<1> QED BY <1>2, <1>3, <1>4, <1>5, <1>6 DEF Gate

LEMMA SegmenterSteps ==
    ASSUME k \in Gate, light \in Light, Segmenter
    PROVE  /\ light' \in Light
           /\ k' \in Gate /\ k'.guard = k.guard /\ (k'.hand = <<>>) = (k.hand = <<>>)
           /\ CleanGate(k) => CleanGate(k')
           /\ k'.left <= k.left /\ k'.turns <= k.turns /\ (k'.left = 0 \/ Uses(k') <= Uses(k))
<1>1. CASE Frame
  <2>1. CASE Dropped(k)
    BY <1>1, <2>1, Guarding DEF Frame, Tamer
  <2>2. CASE ~Dropped(k)
    <3> DEFINE g == Guarded(k)
    <3>1. g \in Gate /\ Tamer(k, g) /\ g.turns = k.turns
      BY Guarding DEF Tamer
    <3>2. g.state \notin {"earcon", "closed", "drained"} /\ (g.state = "busy" => g.turns > 0)
      BY <1>1, <2>2, Guarding DEF Frame, Closed, Dropped, InFlight
    <3>3. k' \in Captured(g) /\ light' = light
      BY <1>1, <2>2 DEF Frame
    <3> HIDE DEF g
    <3>4. Tamer(g, k')
      BY <3>1, <3>2, <3>3, Capturing
    <3>5. Tamer(k, k')
      BY <3>1, <3>4, TamerStill DEF Tamer
    <3> QED BY <3>3, <3>5 DEF Tamer
  <2> QED BY <2>1, <2>2
<1>2. CASE Acknowledge
  BY <1>2, Reshaping DEF Acknowledge, State, Light, Tamer
<1>3. CASE EarconEnds
  <2>1. k' \in Gate /\ CleanGate(k') = (CleanIn(k.out) /\ CleanIn(k.hand)) /\ Uses(k') = Uses(k)
    BY <1>3 DEF EarconEnds, Gate, State, CleanGate, Uses
  <2> QED BY <1>3, <2>1, UsesIsNat DEF EarconEnds, Gate, CleanGate
<1>4. CASE FollowUpTimeout
  BY <1>4, Resetting DEF FollowUpTimeout, Light, Tamer
<1>5. CASE Discontinue
  <2> DEFINE w == Shut(k)
             r == Reset(w)
  <2>1. /\ w \in Gate /\ w.left = 0 /\ w.turns = 0 /\ CleanGate(w) /\ w.guard = k.guard
        /\ (w.hand = <<>>) = (k.hand = <<>>)
    BY NewWindow DEF Shut
  <2> HIDE DEF w
  <2>2. /\ r \in Gate /\ r.left = 0 /\ r.turns = 0 /\ CleanGate(r) /\ r.guard = k.guard
        /\ (r.hand = <<>>) = (k.hand = <<>>)
    BY <2>1, Resetting DEF Tamer
  <2> HIDE DEF r
  <2>3. PICK state \in {"armed", "closed"} : k' = [r EXCEPT !.fault = TRUE, !.state = state]
    BY <1>5 DEF Discontinue, r, w
  <2>4. k' \in Gate /\ CleanGate(k') /\ k'.left = 0 /\ k'.turns = 0 /\ k'.guard = k.guard
        /\ (k'.hand = <<>>) = (k.hand = <<>>)
    BY <2>2, <2>3 DEF Gate, State, CleanGate
  <2> QED BY <1>5, <2>4 DEF Discontinue, Light, Gate
<1>6. CASE CaptureEnds
  <2> DEFINE speaking == k.state \in {"inline", "follow"} \/ (k.state = "busy" /\ InFlight(k))
             n == IF speaking THEN Emit(k) ELSE Reset(k)
  <2>1. Tamer(k, n)
    BY <1>6, Emitting, Resetting DEF InFlight
  <2>2. k' = [n EXCEPT !.state = "closed"] /\ light' \in Light
    BY <1>6 DEF CaptureEnds, Light
  <2> HIDE DEF n
  <2>3. Tamer(n, k')
    BY <2>1, <2>2, Reshaping DEF Tamer, State
  <2>4. Tamer(k, k')
    BY <2>1, <2>3, TamerStill DEF Tamer
  <2> QED BY <2>2, <2>4 DEF Tamer
<1> QED BY <1>1, <1>2, <1>3, <1>4, <1>5, <1>6 DEF Segmenter
----------------------------------------------------------------------------
\* What several actions have in common.

LEMMA Joining ==
    ASSUME NEW m \in Gate
    PROVE  /\ Joined(m) \in Gate /\ Joined(m).left = m.left /\ Joined(m).turns = m.turns
           /\ Uses(Joined(m)) <= Uses(m) /\ (CleanGate(m) => CleanGate(Joined(m)))
           /\ Joined(m).fault = m.fault /\ (Joined(m).hand = <<>>) = (m.hand = <<>>)
           /\ pulse \notin {"playing", "checked"} => Joined(m) = m
<1>1. CASE pulse = "playing"
  BY <1>1, Resuming, UsesIsNat DEF Joined, SameAudio
<1>2. CASE pulse = "checked"
  BY <1>2, Suspending, Resuming, UsesIsNat DEF Joined, SameAudio
<1>3. CASE pulse \notin {"playing", "checked"}
  BY <1>3, UsesIsNat DEF Joined
<1> QED BY <1>1, <1>2, <1>3

\* A gate that was shut, whatever it was before.
IsShut(m) ==
    m \in Gate /\ m.left = 0 /\ m.turns = 0 /\ Uses(m) = 0 /\ CleanGate(m)

LEMMA Shutting ==
    ASSUME NEW m \in Gate
    PROVE  /\ IsShut(Shut(m)) /\ Shut(m).guard = m.guard /\ Shut(m).fault = m.fault
           /\ (Shut(m).hand = <<>>) = (m.hand = <<>>)
<1>1. 0 \in Nat
  OBVIOUS
<1> QED BY <1>1, NewWindow DEF Shut, IsShut

\* Closing the conversation takes it all back.
LEMMA Closing ==
    ASSUME NEW m \in Gate, NEW work \in Work, light \in Light, ~work.on => work = NoWork,
           CloseConversation(m, work)
    PROVE  /\ IsShut(k') /\ k'.guard = m.guard /\ (k'.hand = <<>>) = (m.hand = <<>>)
           /\ conv' = NoConversation /\ conv' \in Talk /\ light' \in Light
           /\ active' \in Work /\ active'.on = work.on /\ active'.cancel = work.cancel
           /\ active'.follow = work.follow /\ ~active'.allow
           /\ active'.turns = 0 /\ active'.left = 0 /\ (~active'.on => active' = NoWork)
<1>1. IsShut(k') /\ k'.guard = m.guard /\ (k'.hand = <<>>) = (m.hand = <<>>)
  BY Shutting DEF CloseConversation
<1>2. conv' = NoConversation /\ conv' \in Talk /\ light' \in Light
  BY DEF CloseConversation, NoConversation, Talk, Light
<1>3. active' = Disallowed(work)
  BY DEF CloseConversation
<1>4. CASE work.on
  BY <1>1, <1>2, <1>3, <1>4 DEF Disallowed, Work
<1>5. CASE ~work.on
  BY <1>1, <1>2, <1>3, <1>5 DEF Disallowed, Work, NoWork
<1> QED BY <1>4, <1>5

----------------------------------------------------------------------------
\* The session's loop.

LEMMA Fields ==
    ASSUME Typed
    PROVE  /\ k.turns \in Nat /\ k.left \in Nat /\ k.guard \in Nat /\ Uses(k) \in Nat
           /\ k.turns <= Uses(k) /\ k.fault \in BOOLEAN
           /\ active.left \in Nat /\ active.turns \in Nat
           /\ active.on \in BOOLEAN /\ active.cancel \in BOOLEAN
           /\ active.follow \in BOOLEAN /\ active.allow \in BOOLEAN
           /\ conv.left \in Nat /\ conv.turns \in Nat /\ conv.timer \in BOOLEAN
           /\ turn.free \in BOOLEAN /\ turn.clean \in BOOLEAN
BY UsesIsNat DEF Typed, Gate, Work, Talk

LEMMA Counting ==
    \A n \in Nat : Less(n) \in Nat /\ Less(n) <= n /\ (n > 0 => Less(n) = n - 1) /\ (n = 0 => Less(n) = 0)
BY DEF Less

\* Time runs for the gate, the work and the conversation alike.
LEMMA TimePasses ==
    ASSUME Typed, ~active.on => active = NoWork, Tick
    PROVE  /\ k' \in Gate /\ k'.turns = k.turns /\ k'.hand = k.hand
           /\ k.guard = Forever => k'.guard = Forever
           /\ Uses(k') = Uses(k) /\ CleanGate(k') = CleanGate(k)
           /\ active' \in Work /\ active'.turns = active.turns /\ active'.on = active.on
           /\ active'.follow = active.follow /\ active'.allow = active.allow
           /\ active'.cancel = active.cancel /\ (~active.on => active' = NoWork)
           /\ conv' \in Talk /\ conv'.turns = conv.turns
           /\ k'.left = Less(k.left) /\ active'.left = Less(active.left)
           /\ conv'.left = Less(conv.left)
<1> DEFINE guard == IF k.guard = Forever THEN k.guard ELSE Less(k.guard)
<1>1. k' = [k EXCEPT !.left = Less(k.left), !.guard = guard]
  BY DEF Tick
<1>2. Less(k.left) \in Nat /\ guard \in Nat /\ (k.guard = Forever => guard = Forever)
  BY Fields, Counting
<1> HIDE DEF guard
<1>3. /\ k' \in Gate /\ k'.left = Less(k.left) /\ k'.turns = k.turns /\ k'.hand = k.hand
      /\ k.guard = Forever => k'.guard = Forever
      /\ k'.fresh = k.fresh /\ k'.clean = k.clean /\ k'.out = k.out
  BY <1>1, <1>2 DEF Typed, Gate
<1>4. Uses(k') = Uses(k) /\ CleanGate(k') = CleanGate(k)
  BY <1>3 DEF Uses, CleanGate
<1>5. active' = [active EXCEPT !.left = Less(active.left)] /\ Less(active.left) \in Nat
  BY Fields, Counting DEF Tick
<1>6. ~active.on => active.left = 0 /\ Less(active.left) = 0
  BY Counting DEF NoWork
<1>7. conv' = [conv EXCEPT !.left = Less(conv.left)] /\ Less(conv.left) \in Nat
  BY Fields, Counting DEF Tick
<1> QED BY <1>3, <1>4, <1>5, <1>6, <1>7 DEF Typed, Work, Talk, NoWork

LEMMA TickKeeps ==
    ASSUME SessionInv, Tick
    PROVE  SessionInv'
<1>1. UNCHANGED <<light, pc, then, turn, worker, pulse, spent, lost>>
  BY DEF Tick
<1>2. Typed /\ Placed /\ SoundsApart /\ Untouched /\ Budgeted /\ Unauthorized /\ Granted
  BY DEF SessionInv
<1>3. ~active.on => active = NoWork
  BY <1>2 DEF Placed
<1>4. /\ k.left \in Nat /\ active.left \in Nat /\ conv.left \in Nat
      /\ k'.left = Less(k.left) /\ active'.left = Less(active.left) /\ conv'.left = Less(conv.left)
  BY <1>2, <1>3, TimePasses, Fields
<1>5. /\ k'.left > 0 => k.left > 0
      /\ conv.left = 0 => conv'.left = 0
      /\ k.left <= active.left => k'.left <= active'.left
      /\ k.left <= conv.left => k'.left <= conv'.left
  BY <1>4 DEF Less
<1>6. Typed' /\ Placed'
  BY <1>1, <1>2, <1>3, <1>4, Counting, TimePasses DEF Typed, Placed
<1>7. SoundsApart' /\ Untouched'
  BY <1>1, <1>2, <1>3, TimePasses DEF SoundsApart, Untouched
<1>8. Budgeted'
  BY <1>1, <1>2, <1>3, <1>5, TimePasses DEF Budgeted, Woken, Answering
<1>9. Unauthorized'
  BY <1>1, <1>2, <1>3, <1>4, <1>5, TimePasses DEF Unauthorized, Answering, InFlight
<1>10. Granted'
  BY <1>2, <1>3, <1>5, TimePasses DEF Granted, CoveredBy
<1> QED BY <1>6, <1>7, <1>8, <1>9, <1>10 DEF SessionInv

LEMMA PulsesKeep ==
    ASSUME SessionInv, PlannerEnds \/ PulseChecks \/ PulseStarts \/ PulseEnds
    PROVE  SessionInv'
<1> USE Fields, Constants
    DEF SessionInv, Typed, Placed, SoundsApart, Untouched, Budgeted, Unauthorized, Granted,
        CoveredBy, Woken, Answering, InFlight
<1>1. CASE PlannerEnds
  BY <1>1 DEF PlannerEnds
<1>2. CASE PulseChecks
  BY <1>2 DEF PulseChecks
<1>3. CASE PulseStarts
  BY <1>3, Suspending, SMTT(30) DEF PulseStarts
<1>4. CASE PulseEnds
  <2>1. k' \in Gate /\ k'.left = k.left /\ k'.turns = k.turns /\ Uses(k') = Uses(k)
        /\ CleanGate(k') /\ (k'.hand = <<>>) = (k.hand = <<>>)
    BY <1>4, Resuming DEF PulseEnds, SameAudio
  <2>2. k'.guard \in Nat /\ pc \notin {"earcon", "say", "cue", "gone"} /\ pulse' # "playing"
    BY <1>4, <2>1 DEF PulseEnds, Gate
  <2>3. Typed' /\ Placed' /\ SoundsApart' /\ Untouched'
    BY <1>4, <2>1, <2>2, SMTT(30) DEF PulseEnds
  <2>4. Budgeted' /\ Unauthorized' /\ Granted'
    BY <1>4, <2>1, SMTT(30) DEF PulseEnds
  <2> QED BY <2>3, <2>4
<1> QED BY <1>1, <1>2, <1>3, <1>4

LEMMA SegmenterKeeps ==
    ASSUME SessionInv, Segmenter, UNCHANGED sessionVars
    PROVE  SessionInv'
<1> USE Fields DEF SessionInv
<1>1. k' \in Gate /\ k'.left \in Nat /\ k'.turns \in Nat /\ Uses(k') \in Nat
  BY SegmenterSteps, UsesIsNat DEF Typed, Gate
<1> QED
  BY <1>1, SegmenterSteps, SMTT(30)
  DEF Typed, Placed, SoundsApart, Untouched, Budgeted, Unauthorized, Granted,
      CoveredBy, Woken, Answering, InFlight, sessionVars
\* Wherever the conversation is closed: with work under way or without, by the
\* loop at rest, before a sound or after one.
LEMMA ClosingKeeps ==
    ASSUME SessionInv, NEW m \in Gate, NEW work \in Work, CloseConversation(m, work),
           work.on = active.on, work.follow = active.follow, ~work.on => work = NoWork,
           spent' = spent, lost' \in {lost, TRUE},
           turn' \in [free : BOOLEAN, clean : BOOLEAN], worker' = worker,
           pulse' \in {"off", "quiet", "checked", "playing"}, pulse' # "off" => active.on,
           pulse' = "playing" => m.guard = Forever,
           pc' \in {"select", "say", "open"}, then' \in After,
           pc' = "say" => m.guard = Forever /\ then' \in {"during", "plain"} /\ pulse' = "off",
           pc' = "open" => then' = "during" /\ pulse' = "off"
    PROVE  SessionInv'
<1>1. Typed /\ Placed /\ Budgeted
  BY DEF SessionInv
<1>2. light \in Light
  BY <1>1 DEF Typed
<1>3. /\ IsShut(k') /\ k'.guard = m.guard
      /\ conv' = NoConversation /\ conv' \in Talk /\ light' \in Light
      /\ active' \in Work /\ active'.on = active.on /\ active'.follow = active.follow
      /\ ~active'.allow /\ active'.turns = 0 /\ active'.left = 0 /\ (~active'.on => active' = NoWork)
  BY <1>2, Closing
<1>4. conv'.turns = 0 /\ conv'.left = 0
  BY <1>3 DEF NoConversation
<1>5. Typed'
  BY <1>1, <1>3 DEF Typed, IsShut, Point
<1>6. Placed' /\ SoundsApart' /\ Untouched'
  BY <1>1, <1>3 DEF Placed, SoundsApart, Untouched, IsShut
<1>7. Budgeted'
  <2>1. spent \in Nat /\ spent <= InFlightTurns + ConversationTurns
        /\ (active.on /\ ~active.follow => spent <= InFlightTurns)
    BY <1>1, Fields, Constants DEF Typed, Budgeted
  <2> QED BY <1>3, <1>4, <2>1, Constants DEF Budgeted, Woken, Answering
<1>8. Unauthorized' /\ Granted'
  BY <1>3, <1>4 DEF Unauthorized, Granted, IsShut, InFlight, Answering
<1> QED BY <1>5, <1>6, <1>7, <1>8 DEF SessionInv
\* A report of lost audio closes it, too.
LEMMA InterruptionKeeps ==
    ASSUME SessionInv, NEW m \in Gate, NEW work \in Work, Interrupted(m, work),
           work.on = active.on, work.follow = active.follow, ~work.on => work = NoWork,
           spent' = spent, turn' \in [free : BOOLEAN, clean : BOOLEAN], worker' = worker,
           pulse' \in {"off", "quiet", "checked", "playing"}, pulse' # "off" => active.on,
           pulse' = "playing" => m.guard = Forever,
           pc' \in {"select", "open"}, then' \in After,
           pc' = "open" => then' = "during" /\ pulse' = "off"
    PROVE  SessionInv'
<1> DEFINE r == [m EXCEPT !.fault = FALSE]
<1>1. r \in Gate /\ r.guard = m.guard
  BY Reported DEF SameAudio
<1>2. CloseConversation(r, work) /\ lost' = TRUE
  BY DEF Interrupted
<1> HIDE DEF r
<1> QED BY <1>1, <1>2, ClosingKeeps

\* What the actions' proofs take from the invariant.
LEMMA InvParts ==
    ASSUME SessionInv
    PROVE  /\ Typed /\ Placed /\ SoundsApart /\ Untouched /\ Budgeted /\ Unauthorized /\ Granted
           /\ k \in Gate /\ active \in Work /\ (~active.on => active = NoWork)
           /\ turn \in [free : BOOLEAN, clean : BOOLEAN]
           /\ NoTurn \in [free : BOOLEAN, clean : BOOLEAN]
           /\ pulse \in {"off", "quiet", "checked", "playing"} /\ then \in After
           /\ pulse = "playing" => k.guard = Forever
           /\ pc \in {"earcon", "say", "cue"} => pulse = "off" /\ k.guard = Forever
           /\ pc = "select" => (pulse # "off" => active.on)
BY DEF SessionInv, Typed, Placed, SoundsApart, NoTurn

LEMMA ClosingActionsKeep ==
    ASSUME SessionInv,
           \/ TakeFault \/ ConversationExpires \/ UtterancesClosed
           \/ AnswerFails \/ LastAnswerEnds
           \/ /\ turn' = NoTurn
              /\ TranscribeFails \/ AcceptInterrupted \/ AcceptClose \/ AcceptCancel \/ AcceptNothing
    PROVE  SessionInv'
<1> USE InvParts DEF After
<1>1. CASE TakeFault
  BY <1>1, InterruptionKeeps DEF TakeFault
<1>2. CASE ConversationExpires
  BY <1>2, ClosingKeeps DEF ConversationExpires
<1>3. CASE UtterancesClosed
  <2>1. [k EXCEPT !.state = "drained"] \in Gate /\ [k EXCEPT !.state = "drained"].guard = k.guard
    BY Reshaping DEF State, Tamer
  <2> QED BY <1>3, <2>1, ClosingKeeps DEF UtterancesClosed
<1>4. CASE AnswerFails \/ LastAnswerEnds
  <2>1. ResumeAfter(k) \in Gate
    BY Resuming DEF SameAudio
  <2> QED BY <1>4, <2>1, ClosingKeeps DEF AnswerFails, LastAnswerEnds, Goto
<1>5. /\ Joined(k) \in Gate /\ Suspend(Joined(k)) \in Gate /\ Suspend(Joined(k)).guard = Forever
  BY Joining, Suspending
<1>6. /\ Hushed(k) \in Gate /\ HushedPulse \in {"off", "quiet", "checked", "playing"}
      /\ HushedPulse # "off" => active.on
      /\ HushedPulse = "playing" => Hushed(k).guard = Forever
  BY <1>5 DEF Hushed, HushedPulse
<1>7. CASE turn' = NoTurn /\ TranscribeFails
  BY <1>6, <1>7, ClosingKeeps DEF TranscribeFails, Goto
<1>8. CASE turn' = NoTurn /\ AcceptInterrupted
  BY <1>6, <1>8, InterruptionKeeps DEF AcceptInterrupted, Goto
<1>9. CASE turn' = NoTurn /\ AcceptClose
  BY <1>5, <1>9, ClosingKeeps DEF AcceptClose, Goto
<1>10. CASE turn' = NoTurn /\ AcceptCancel
  <2> DEFINE work == [active EXCEPT !.cancel = TRUE]
  <2>1. work \in Work /\ work.on = active.on /\ work.follow = active.follow /\ active.on
    BY <1>10 DEF Work, AcceptCancel, Busy
  <2>2. CloseConversation(Suspend(Joined(k)), work)
    BY <1>10 DEF AcceptCancel
  <2> HIDE DEF work
  <2> QED BY <1>5, <1>10, <2>1, <2>2, ClosingKeeps DEF AcceptCancel, Goto
<1>11. CASE turn' = NoTurn /\ AcceptNothing
  BY <1>5, <1>11, ClosingKeeps DEF AcceptNothing, Goto
<1> QED BY <1>1, <1>2, <1>3, <1>4, <1>7, <1>8, <1>9, <1>10, <1>11
\* A step that grants nothing: the gate admits no more, work and talk are as they were.
LEMMA NothingGranted ==
    ASSUME SessionInv, k' \in Gate, k'.left <= k.left, k'.turns <= k.turns,
           k'.left = 0 \/ Uses(k') <= Uses(k),
           active' = active \/ active' = [active EXCEPT !.cancel = TRUE],
           UNCHANGED <<conv, spent, lost>>,
           Woken' => Woken, pc' \in {"earcon", "transcribe"} /\ ~active.on => ~lost,
           ~(pc' = "open" /\ then' = "work"), Answering' => Answering \/ Woken
    PROVE  Budgeted' /\ Unauthorized' /\ Granted'
<1>1. /\ k'.left \in Nat /\ k'.turns \in Nat /\ Uses(k') \in Nat
      /\ k.left \in Nat /\ k.turns \in Nat /\ Uses(k) \in Nat
  BY InvParts, UsesIsNat DEF Gate
<1>5. /\ active'.on = active.on /\ active'.follow = active.follow /\ active'.allow = active.allow
      /\ active'.left = active.left /\ active'.turns = active.turns
  BY InvParts DEF Work
<1>2. Budgeted'
  BY <1>5, InvParts, Fields, Constants DEF Budgeted, Woken
<1>3. Unauthorized'
  BY <1>1, <1>5, InvParts DEF Unauthorized, InFlight, Woken
<1>4. Granted'
  BY <1>1, <1>5, InvParts, Fields DEF Granted, CoveredBy
<1> QED BY <1>2, <1>3, <1>4

\* Taking the utterance that was handed over.
LEMMA Taking ==
    ASSUME NEW m \in Gate
    PROVE  /\ Taken(m) \in Gate /\ Taken(m).left = m.left /\ Taken(m).turns = m.turns
           /\ Taken(m).guard = m.guard /\ Taken(m).fault = m.fault
           /\ CleanGate(m) => CleanGate(Taken(m))
           /\ Uses(m) = Uses(Taken(m)) + Waiting(m.hand)
<1>1. Waiting(<<>>) = 0 /\ CleanIn(<<>>)
  BY Slots DEF Waiting, CleanIn
<1>2. /\ Taken(m) \in Gate /\ Taken(m).left = m.left /\ Taken(m).turns = m.turns
      /\ Taken(m).guard = m.guard /\ Taken(m).fault = m.fault /\ Taken(m).out = m.out
      /\ Taken(m).fresh = m.fresh /\ Taken(m).clean = m.clean /\ Taken(m).hand = <<>>
  BY Slots DEF Taken, Gate
<1>3. Waiting(m.out) \in Nat /\ Waiting(m.hand) \in Nat /\ m.turns \in Nat
  BY DEF Waiting, Gate
<1> QED BY <1>1, <1>2, <1>3 DEF CleanGate, Uses

\* Receiving: what was in the output is in the loop's hand.
LEMMA ReceiveKeeps ==
    ASSUME SessionInv, Receive
    PROVE  SessionInv'
<1>1. /\ k' \in Gate /\ k'.left = k.left /\ k'.turns = k.turns /\ k'.guard = k.guard
      /\ k'.hand = k.out /\ k'.out = <<>> /\ k'.fresh = k.fresh /\ k'.clean = k.clean
  BY InvParts, Slots DEF Receive, Gate
<1>2. Waiting(<<>>) = 0 /\ CleanIn(<<>>) /\ Waiting(k.hand) \in Nat /\ Waiting(k.out) \in Nat
  BY Slots DEF Waiting, CleanIn
<1>3. Uses(k') <= Uses(k) /\ CleanGate(k') /\ k.left \in Nat /\ k.turns \in Nat
  BY <1>1, <1>2, InvParts, Fields DEF Uses, CleanGate, Untouched
<1>4. Typed' /\ Placed' /\ SoundsApart' /\ Untouched'
  BY <1>1, <1>3, InvParts
  DEF Receive, Typed, Placed, SoundsApart, Untouched, Goto, Point, After
<1>5. Budgeted' /\ Unauthorized' /\ Granted'
  BY <1>1, <1>3, NothingGranted DEF Receive, Goto, Woken, Answering
<1> QED BY <1>4, <1>5 DEF SessionInv

LEMMA RefuseKeeps ==
    ASSUME SessionInv, Refuse
    PROVE  SessionInv'
<1>1. /\ k' = Taken(k) /\ pc = "got" /\ pc' = "select" /\ then' = "none"
      /\ UNCHANGED <<light, turn, active, worker, conv, pulse, spent, lost>>
  BY DEF Refuse, Goto
<1>2. /\ k' \in Gate /\ k'.left = k.left /\ k'.turns = k.turns /\ k'.guard = k.guard
      /\ CleanGate(k') /\ Uses(k') <= Uses(k) /\ k.left \in Nat /\ k.turns \in Nat
  <2>1. Waiting(k.hand) \in Nat /\ Uses(Taken(k)) \in Nat
    BY InvParts, Taking, UsesIsNat DEF Waiting
  <2> QED BY <1>1, <2>1, InvParts, Fields, Taking DEF Untouched
<1>3. Typed' /\ Placed' /\ SoundsApart' /\ Untouched'
  BY <1>1, <1>2, InvParts DEF Typed, Placed, SoundsApart, Untouched, Point, After
<1>4. Budgeted' /\ Unauthorized' /\ Granted'
  BY <1>1, <1>2, NothingGranted DEF Woken, Answering
<1> QED BY <1>3, <1>4 DEF SessionInv
\* Such a step of the loop, to the select, to a sound or to a window.
LEMMA MovesKeep ==
    ASSUME SessionInv, k' \in Gate, CleanGate(k'), k'.left <= k.left, k'.turns <= k.turns,
           k'.left = 0 \/ Uses(k') <= Uses(k),
           active' = active \/ (active.on /\ active' = [active EXCEPT !.cancel = TRUE]),
           UNCHANGED <<conv, spent, lost, worker>>,
           light' \in Light, turn' \in [free : BOOLEAN, clean : BOOLEAN],
           pulse' \in {"off", "quiet", "checked", "playing"}, pulse' # "off" => active.on,
           pulse' = "playing" => k'.guard = Forever,
           pc' \in {"select", "say", "cue", "open"}, then' \in After,
           pc' \in {"say", "cue"} => k'.guard = Forever /\ pulse' = "off",
           pc' = "open" => then' # "work" /\ pulse' = "off",
           pc' = "cue" => then' \in {"answer", "followAnswer"},
           pc' # "select" /\ then' \in {"answer", "followAnswer"} => ~active.on,
           Answering' => Answering \/ Woken
    PROVE  SessionInv'
<1>1. /\ active' \in Work /\ active'.on = active.on /\ (~active.on => active' = NoWork)
  BY InvParts DEF Work
<1>2. Typed'
  BY <1>1, InvParts DEF Typed, Point
<1>3. Placed' /\ SoundsApart' /\ Untouched'
  BY <1>1, InvParts DEF Placed, SoundsApart, Untouched
<1>4. Budgeted' /\ Unauthorized' /\ Granted'
  BY NothingGranted DEF Woken
<1> QED BY <1>2, <1>3, <1>4 DEF SessionInv

LEMMA SpeakingKeeps ==
    ASSUME SessionInv,
           \/ TimerFires
           \/ turn' = NoTurn /\ (AcceptBusy \/ AcceptOffDuring \/ AcceptLocal \/ AcceptOff)
    PROVE  SessionInv'
<1> USE InvParts DEF After
<1>1. CleanGate(k) /\ Uses(k) \in Nat /\ k.left \in Nat /\ k.turns \in Nat /\ k.turns <= Uses(k)
  BY Fields DEF Untouched
<1>2. ASSUME SpeakDuringWork(k)
      PROVE  /\ k' \in Gate /\ CleanGate(k') /\ k'.left = 0 /\ k'.turns = 0 /\ k'.guard = Forever
             /\ pulse' = "off" /\ pc' = "say"
  <2> DEFINE j == Joined(Shut(k))
  <2>1. j \in Gate /\ j.left = 0 /\ j.turns = 0
    BY Shutting, Joining DEF IsShut
  <2> HIDE DEF j
  <2>2. k' = Suspend(j) /\ pulse' = "off" /\ pc' = "say"
    BY <1>2 DEF SpeakDuringWork, j
  <2> QED BY <2>1, <2>2, Suspending
<1>3. CASE TimerFires
  BY <1>1, <1>2, <1>3, MovesKeep DEF TimerFires, Typed, Answering
<1>4. CASE turn' = NoTurn /\ AcceptBusy
  BY <1>1, <1>2, <1>4, MovesKeep DEF AcceptBusy, Typed, Answering
<1>5. CASE turn' = NoTurn /\ AcceptOffDuring
  BY <1>1, <1>2, <1>5, MovesKeep DEF AcceptOffDuring, Busy, Typed, Answering
<1>6. /\ Suspend(Joined(k)) \in Gate /\ CleanGate(Suspend(Joined(k)))
      /\ Suspend(Joined(k)).left = k.left /\ Suspend(Joined(k)).turns = k.turns
      /\ Uses(Suspend(Joined(k))) = k.turns /\ Suspend(Joined(k)).guard = Forever
  BY Joining, Suspending
<1>7. CASE turn' = NoTurn /\ AcceptLocal
  <2>1. Answering' => Woken
    BY <1>7 DEF AcceptLocal, Free, Heard, Goto, Answering, Woken
  <2> QED BY <1>1, <1>6, <1>7, <2>1, MovesKeep DEF AcceptLocal, Free, Goto, Light
<1>8. CASE turn' = NoTurn /\ AcceptOff
  BY <1>1, <1>6, <1>8, MovesKeep DEF AcceptOff, Goto, Light, Answering
<1> QED BY <1>3, <1>4, <1>5, <1>7, <1>8

LEMMA SoundEndsKeep ==
    ASSUME SessionInv,
           \/ PlainEnds \/ AnswerHeard \/ CueEnds \/ DuringEnds
           \/ turn' = NoTurn /\ (AcceptDone \/ AcceptIgnored)
    PROVE  SessionInv'
<1> USE InvParts DEF After
<1>1. CleanGate(k) /\ Uses(k) \in Nat /\ k.left \in Nat /\ k.turns \in Nat /\ k.turns <= Uses(k)
  BY Fields DEF Untouched
<1> DEFINE r == ResumeAfter(k)
<1>2. /\ r \in Gate /\ CleanGate(r) /\ r.left = k.left /\ r.turns = k.turns /\ Uses(r) = Uses(k)
  BY <1>1, Resuming DEF SameAudio
<1> HIDE DEF r
<1>4. CASE PlainEnds
  BY <1>1, <1>2, <1>4, MovesKeep DEF PlainEnds, Goto, Typed, Answering, r
<1>5. CASE AnswerHeard
  <2>1. /\ pc = "say" /\ then \in {"answer", "followAnswer"} /\ ~active.on
        /\ UNCHANGED <<turn, worker, pulse, spent>>
    BY <1>5 DEF AnswerHeard, Placed
  <2>2. PICK follow \in BOOLEAN : follow = (then = "followAnswer") /\ FinishAnswer(r, follow)
    BY <1>5 DEF AnswerHeard, r
  <2>3. CASE Interrupted(r, active) /\ Goto("select", "none")
    BY <1>2, <2>1, <2>3, InterruptionKeeps DEF Goto
  <2>4. CASE /\ k' = r /\ Goto("select", "none")
             /\ UNCHANGED <<light, active, conv, lost>>
    BY <1>1, <1>2, <2>1, <2>4, MovesKeep DEF Goto, Typed, Answering
  <2>5. CASE CloseConversation(r, active) /\ Goto("select", "none") /\ UNCHANGED lost
    BY <1>2, <2>1, <2>5, ClosingKeeps DEF Goto
  <2>6. CASE /\ k' = Suspend(r) /\ light' = "listening"
             /\ pc' = "cue" /\ then' = IF follow THEN "followAnswer" ELSE "answer"
             /\ UNCHANGED <<active, conv, lost>>
    <3>1. /\ k' \in Gate /\ CleanGate(k') /\ k'.left = k.left /\ k'.turns = k.turns
          /\ Uses(k') = k.turns /\ k'.guard = Forever
      BY <1>2, <2>6, Suspending
    <3>2. Answering' => Answering
      BY <2>1, <2>2, <2>6 DEF Answering
    <3> QED BY <1>1, <2>1, <2>6, <3>1, <3>2, MovesKeep DEF Light
  <2> QED BY <2>2, <2>3, <2>4, <2>5, <2>6 DEF FinishAnswer
<1>6. CASE CueEnds
  <2>1. CASE Interrupted(r, active) /\ Goto("select", "none")
    BY <1>2, <1>6, <2>1, InterruptionKeeps DEF CueEnds, Goto
  <2>2. CASE CloseConversation(r, active) /\ Goto("select", "none") /\ UNCHANGED lost
    BY <1>2, <1>6, <2>2, ClosingKeeps DEF CueEnds, Goto
  <2>3. CASE k' = r /\ pc' = "open" /\ UNCHANGED <<light, active, conv, then, lost>>
    BY <1>1, <1>2, <1>6, <2>3, MovesKeep DEF CueEnds, Typed, Answering, Placed
  <2> QED BY <1>6, <2>1, <2>2, <2>3 DEF CueEnds, r
<1>7. ASSUME NEW m \in Gate, NEW heard \in BOOLEAN, Resume(m, heard),
             CleanGate(m), m.left <= k.left, m.turns <= k.turns, m.left = 0 \/ Uses(m) <= Uses(k),
             pulse' = "off", UNCHANGED <<worker, spent>>,
             turn' \in [free : BOOLEAN, clean : BOOLEAN]
      PROVE  SessionInv'
  <2>1. \A work, talk : Back(work, talk) =>
             pc' \in {"select", "open"} /\ then' \in After /\ (pc' = "open" => then' = "during")
    BY DEF Back, Goto
  <2>2. CASE Interrupted(m, active) /\ Back(active, NoConversation)
    BY <1>7, <2>1, <2>2, InterruptionKeeps
  <2>3. CASE k' = m /\ Back(active, conv) /\ UNCHANGED <<light, active, conv, lost>>
    BY <1>1, <1>7, <2>1, <2>3, MovesKeep DEF Typed, Answering
  <2>4. CASE CloseConversation(m, active) /\ Back(active, NoConversation) /\ UNCHANGED lost
    BY <1>7, <2>1, <2>4, ClosingKeeps
  <2> QED BY <1>7, <2>2, <2>3, <2>4 DEF Resume
<1>8. CASE DuringEnds
  <2>1. PICK heard \in BOOLEAN : Resume(r, heard)
    BY <1>8 DEF DuringEnds, r
  <2> QED BY <1>1, <1>2, <1>7, <1>8, <2>1 DEF DuringEnds
<1> DEFINE j == Joined(Shut(k))
<1>9. j \in Gate /\ CleanGate(j) /\ j.left = 0 /\ j.turns = 0
  BY Shutting, Joining DEF IsShut
<1> HIDE DEF j
<1>10. CASE turn' = NoTurn /\ AcceptIgnored
  <2>1. Resume(j, TRUE) /\ pulse' = "off" /\ UNCHANGED <<worker, spent>>
    BY <1>10 DEF AcceptIgnored, j
  <2>2. j.left <= k.left /\ j.turns <= k.turns
    BY <1>1, <1>9
  <2>3. PICK heard \in BOOLEAN : Resume(j, heard)
    BY <2>1
  <2> QED BY <1>7, <1>9, <1>10, <2>1, <2>2, <2>3
<1>11. CASE turn' = NoTurn /\ AcceptDone
  <2>1. /\ active.on /\ pc' = "select" /\ then' = "none"
        /\ UNCHANGED <<light, active, worker, conv, spent, lost>>
    BY <1>11 DEF AcceptDone, Goto
  <2>2. (k' = k /\ pulse' = pulse) \/ (k' = j /\ pulse' = "off")
    BY <1>11 DEF AcceptDone, j
  <2> QED BY <1>1, <1>9, <1>11, <2>1, <2>2, MovesKeep DEF Typed, Answering
<1> QED BY <1>4, <1>5, <1>6, <1>8, <1>10, <1>11
----------------------------------------------------------------------------
\* The steps that grant, or take, a turn.

\* An accepted utterance was clean, for it was still fresh and no sound was on;
\* the turn it spends is the owner's, and the gate has already counted it.
LEMMA TakeFreeKeeps ==
    ASSUME SessionInv, TakeFree
    PROVE  SessionInv'
<1> USE InvParts
<1> DEFINE u == Head(k.hand)
           t == Taken(k)
<1>1. /\ pc = "got" /\ k.hand # <<>> /\ k.hand \in Slot /\ u \in Utterance
      /\ Waiting(k.hand) = IF u.free /\ u.fresh THEN 1 ELSE 0
      /\ (u.fresh => u.clean)
  BY Slots DEF TakeFree, Placed, Gate, Waiting, Untouched, CleanGate, CleanIn
<1>2. /\ u.fresh /\ u.free /\ k.left > 0 /\ k.guard = 0 /\ Authorized
      /\ turn' = [free |-> TRUE, clean |-> u.clean] /\ Begin(t, u, light)
      /\ active' = IF active.on THEN [active EXCEPT !.turns = @ - 1] ELSE active
      /\ conv' = IF ~active.on \/ active.follow THEN [conv EXCEPT !.turns = Less(@)] ELSE conv
      /\ spent' = spent + 1 /\ UNCHANGED <<then, worker, lost>>
  <2>1. /\ Accepts(k, u) /\ u.free /\ Authorized
        /\ turn' = [free |-> u.free, clean |-> u.clean] /\ Begin(t, u, light)
        /\ active' = IF active.on THEN [active EXCEPT !.turns = @ - 1] ELSE active
        /\ conv' = IF ~active.on \/ active.follow THEN [conv EXCEPT !.turns = Less(@)] ELSE conv
        /\ spent' = spent + 1 /\ UNCHANGED <<then, worker, lost>>
    BY DEF TakeFree
  <2>2. u.fresh /\ k.left > 0 /\ k.guard = 0
    BY <2>1, Fields DEF Accepts, Suspended
  <2>3. u.free = TRUE
    BY <1>1, <2>1 DEF Utterance
  <2> QED BY <2>1, <2>2, <2>3
<1>3. /\ t \in Gate /\ t.left = k.left /\ t.turns = k.turns /\ CleanGate(t) /\ t.guard = k.guard
      /\ Uses(t) = Uses(k) - 1 /\ Uses(t) \in Nat /\ t.turns <= Uses(t)
  BY <1>1, <1>2, Taking, UsesIsNat, Fields DEF Untouched
<1> HIDE DEF t
<1>4. /\ k' \in Gate /\ CleanGate(k') /\ k'.left = k.left /\ k'.turns = k.turns
      /\ Uses(k') <= Uses(k) - 1 /\ Uses(k') \in Nat /\ light' \in Light
      /\ \/ /\ ~active.on /\ pc' = "earcon" /\ k'.guard = Forever /\ pulse' = pulse
         \/ /\ ~active.on /\ pc' = "transcribe" /\ pulse' = "quiet"
         \/ /\ active.on /\ pc' = "transcribe" /\ pulse' = pulse /\ k'.guard = k.guard
  BY <1>2, <1>3, Suspending, Fields DEF Begin, Typed, Light
<1>5. turn' \in [free : BOOLEAN, clean : BOOLEAN] /\ turn'.free /\ turn'.clean
  BY <1>1, <1>2
<1>6. /\ active' \in Work /\ active'.on = active.on /\ active'.follow = active.follow
      /\ active'.allow = active.allow /\ active'.left = active.left
      /\ active'.turns = IF active.on THEN active.turns - 1 ELSE active.turns
      /\ active.on => active.turns > 0
      /\ ~active.on => active' = NoWork /\ active.turns = 0
  <2>1. CASE active.on
    <3>1. active.turns > 0 /\ active.turns - 1 \in Nat
      BY <1>2, <2>1, Fields DEF Authorized, Owner
    <3> QED BY <1>2, <2>1, <3>1 DEF Work
  <2>2. CASE ~active.on
    BY <1>2, <2>2 DEF NoWork
  <2> QED BY <2>1, <2>2
<1>7. /\ conv' \in Talk /\ conv'.left = conv.left
      /\ conv'.turns = IF ~active.on \/ active.follow THEN Less(conv.turns) ELSE conv.turns
      /\ ~active.on => conv.turns > 0
      /\ active.follow /\ active.on => conv.turns > 0
  <2>1. Less(conv.turns) \in Nat /\ conv \in Talk
    BY Fields, Counting DEF Typed
  <2>2. active.follow /\ active.on => conv.turns > 0
    BY <1>6, Fields DEF Budgeted
  <2>3. ~active.on => conv.turns > 0
    BY <1>2 DEF Authorized, Owner
  <2> QED BY <1>2, <2>1, <2>2, <2>3 DEF Talk
<1>8. Typed' /\ Placed'
  BY <1>2, <1>4, <1>5, <1>6, <1>7, Fields DEF Typed, Placed, Point
<1>9. SoundsApart' /\ Untouched'
  BY <1>1, <1>4, <1>5, <1>6 DEF SoundsApart, Untouched
<1>10. conv.turns > 0 => Less(conv.turns) = conv.turns - 1
  BY Fields, Counting
<1>11. Budgeted'
  <2>1. /\ spent \in Nat /\ spent' = spent + 1 /\ conv.turns \in Nat /\ active.turns \in Nat
        /\ ~Woken' /\ ~Answering' /\ pc' # "open"
    BY <1>2, <1>4, <1>5, Fields DEF Typed, Woken, Answering
  <2>2. CASE active.on /\ ~active.follow
    <3>1. spent + active.turns <= InFlightTurns /\ conv.turns = 0 /\ conv.left = 0
      BY <2>2 DEF Budgeted
    <3>2. spent' + active'.turns <= InFlightTurns /\ spent' <= InFlightTurns
      BY <1>6, <2>1, <2>2, <3>1, Constants
    <3>3. conv'.turns = 0 /\ conv'.left = 0
      BY <1>7, <2>2, <3>1
    <3> QED BY <1>6, <2>1, <2>2, <3>2, <3>3, Constants DEF Budgeted
  <2>3. CASE active.on /\ active.follow
    <3>1. spent + conv.turns <= InFlightTurns + ConversationTurns /\ active.turns <= conv.turns
      BY <2>3 DEF Budgeted
    <3> QED BY <1>6, <1>7, <1>10, <2>1, <2>3, <3>1, Constants DEF Budgeted
  <2>4. CASE ~active.on
    <3>1. spent + conv.turns <= InFlightTurns + ConversationTurns
      BY DEF Budgeted
    <3> QED BY <1>6, <1>7, <1>10, <2>1, <2>4, <3>1, Constants DEF Budgeted
  <2> QED BY <2>2, <2>3, <2>4, Fields
<1>12. Unauthorized'
  BY <1>2, <1>4, <1>6, <1>7, <1>10, Fields DEF Unauthorized, Answering, InFlight
<1>13. Granted'
  BY <1>2, <1>3, <1>4, <1>6, <1>7, <1>10, Fields DEF Granted, CoveredBy, Budgeted
<1> QED BY <1>8, <1>9, <1>11, <1>12, <1>13 DEF SessionInv

\* A fresh wake begins with nothing: no window, no conversation, nothing spent.
LEMMA TakeWakeKeeps ==
    ASSUME SessionInv, TakeWake
    PROVE  SessionInv'
<1> USE InvParts
<1> DEFINE u == Head(k.hand)
           t == Taken(k)
           w == Shut(t)
<1>1. /\ pc = "got" /\ k.hand # <<>> /\ k.hand \in Slot /\ u \in Utterance
      /\ Waiting(k.hand) = IF u.free /\ u.fresh THEN 1 ELSE 0
      /\ (u.fresh => u.clean)
  BY Slots DEF TakeWake, Placed, Gate, Waiting, Untouched, CleanGate, CleanIn
<1>2. /\ u.fresh /\ ~u.free /\ UNCHANGED <<then, active, worker>>
      /\ turn' = [free |-> u.free, clean |-> u.clean]
      /\ \/ active.on /\ Begin(t, u, light) /\ UNCHANGED <<conv, spent, lost>>
         \/ ~active.on /\ Begin(w, u, "idle") /\ conv' = NoConversation /\ spent' = 0 /\ lost' = FALSE
  BY DEF TakeWake, Accepts
<1>3. /\ t \in Gate /\ t.left = k.left /\ t.turns = k.turns /\ CleanGate(t) /\ t.guard = k.guard
      /\ Uses(t) = Uses(k) /\ IsShut(w)
  <2>1. t \in Gate /\ Uses(t) \in Nat /\ Uses(k) = Uses(t) + 0
    BY <1>1, <1>2, Taking, UsesIsNat
  <2> QED BY <2>1, Taking, Shutting DEF Untouched
<1> HIDE DEF t, w
<1>4. turn' \in [free : BOOLEAN, clean : BOOLEAN] /\ ~turn'.free /\ turn'.clean
  BY <1>1, <1>2 DEF Utterance
<1>5. CASE active.on
  <2>1. /\ k' = t /\ light' = light /\ pc' = "transcribe" /\ pulse' = pulse
        /\ UNCHANGED <<then, active, worker, conv, spent, lost>>
    BY <1>2, <1>5 DEF Begin
  <2>2. Typed' /\ Placed' /\ SoundsApart' /\ Untouched'
    BY <1>1, <1>3, <1>4, <1>5, <2>1 DEF Typed, Placed, SoundsApart, Untouched, Point
  <2>3. Budgeted' /\ Unauthorized' /\ Granted'
    BY <1>3, <1>5, <2>1
    DEF Budgeted, Unauthorized, Granted, CoveredBy, Woken, Answering, InFlight
  <2> QED BY <2>2, <2>3 DEF SessionInv
<1>6. CASE ~active.on
  <2>1. /\ conv' = NoConversation /\ spent' = 0 /\ lost' = FALSE /\ Begin(w, u, "idle")
        /\ active' = NoWork /\ active = NoWork
    BY <1>2, <1>6
  <2>2. /\ k' \in Gate /\ k'.left = 0 /\ k'.turns = 0 /\ CleanGate(k') /\ light' \in Light
        /\ \/ pc' = "earcon" /\ k'.guard = Forever /\ pulse' = pulse
           \/ pc' = "transcribe" /\ pulse' = "quiet"
    BY <1>3, <1>6, <2>1, Suspending DEF Begin, IsShut, Light
  <2>3. pulse = "off" /\ conv' \in Talk /\ conv'.turns = 0 /\ conv'.left = 0 /\ ~NoWork.on
    <3>1. pulse = "off"
      BY <1>1, <1>6 DEF SoundsApart
    <3>2. conv' \in Talk /\ conv'.turns = 0 /\ conv'.left = 0
      BY <2>1 DEF NoConversation, Talk
    <3> QED BY <3>1, <3>2 DEF NoWork
  <2>4. Typed' /\ Placed' /\ SoundsApart' /\ Untouched'
    BY <1>2, <1>4, <1>6, <2>1, <2>2, <2>3 DEF Typed, Placed, SoundsApart, Untouched, Point
  <2>5. Budgeted' /\ Unauthorized' /\ Granted'
    BY <1>6, <2>1, <2>2, <2>3, Constants
    DEF Budgeted, Unauthorized, Granted, Woken, Answering, InFlight
  <2> QED BY <2>4, <2>5 DEF SessionInv
<1> QED BY <1>5, <1>6

\* The loop opens a window.
LEMMA Opening ==
    ASSUME k \in Gate, NEW left \in Nat, NEW turns \in Nat, k' = SetInFlightWindow(k, left, turns)
    PROVE  /\ k' \in Gate /\ k'.left = left /\ k'.turns = turns /\ Uses(k') = turns
           /\ CleanGate(k') /\ k'.guard = k.guard
<1> DEFINE n == SetInFlightWindow(k, left, turns)
<1>1. /\ n \in Gate /\ n.left = left /\ n.turns = turns /\ Uses(n) = turns
      /\ CleanGate(n) /\ n.guard = k.guard
  BY NewWindow
<1>2. k' = n
  OBVIOUS
<1> HIDE DEF n
<1> QED BY <1>1, <1>2

\* The request itself: its earcon, its work and the window of its work.
LEMMA RequestKeeps ==
    ASSUME SessionInv, InlineEarconEnds \/ (turn' = NoTurn /\ AcceptRequest) \/ OpenWork
    PROVE  SessionInv'
<1> USE InvParts DEF After
<1>1. CASE InlineEarconEnds
  <2>1. SameAudio(k, k') /\ pc = "earcon" /\ pc' = "transcribe" /\ pulse' = "quiet"
        /\ UNCHANGED <<light, then, turn, active, worker, conv, spent, lost>>
    BY <1>1, Resuming DEF InlineEarconEnds
  <2>2. Typed' /\ Placed' /\ SoundsApart' /\ Untouched'
    BY <2>1 DEF SameAudio, Typed, Placed, SoundsApart, Untouched, Point
  <2>3. Budgeted' /\ Unauthorized' /\ Granted'
    BY <2>1
    DEF SameAudio, Budgeted, Unauthorized, Granted, CoveredBy, Woken, Answering, InFlight
  <2> QED BY <2>2, <2>3 DEF SessionInv
<1>2. CASE turn' = NoTurn /\ AcceptRequest
  <2>1. /\ pc = "transcribe" /\ ~active.on /\ active = NoWork /\ worker' = "running"
        /\ \/ pc' = "open" /\ then' = "work"
           \/ pc' = "select" /\ then' = "none"
        /\ UNCHANGED <<k, light, conv, pulse, spent, lost>>
        /\ active' = [NoWork EXCEPT !.on = TRUE, !.follow = turn.free, !.allow = TRUE]
    BY <1>2 DEF AcceptRequest, Free, Heard, Goto
  <2>2. /\ active' \in Work /\ active'.on /\ active'.turns = 0 /\ active'.left = 0
        /\ active'.follow = turn.free /\ active.left = 0 /\ active.turns = 0
    BY <2>1, Fields DEF NoWork, Work
  <2>3. Typed' /\ Placed' /\ SoundsApart' /\ Untouched'
    BY <1>2, <2>1, <2>2 DEF Typed, Placed, SoundsApart, Untouched, Point
  <2>4. Budgeted'
    BY <2>1, <2>2, Fields, Constants DEF Budgeted, Woken, Answering
  <2>5. ~lost
    BY <2>1 DEF Unauthorized
  <2>6. k.left > 0 => CoveredBy(conv)
    BY <2>2, Fields DEF Granted, CoveredBy
  <2>7. Unauthorized' /\ Granted'
    BY <2>1, <2>5, <2>6 DEF Unauthorized, Granted, CoveredBy, Answering
  <2> QED BY <2>3, <2>4, <2>7 DEF SessionInv
<1>3. CASE OpenWork
  <2> DEFINE left  == IF active.follow THEN conv.left ELSE InFlightWindow
             turns == IF active.follow THEN conv.turns ELSE InFlightTurns
  <2>1. /\ pc = "open" /\ then = "work" /\ pc' = "select" /\ then' = "none"
        /\ UNCHANGED <<light, turn, worker, conv, pulse, spent, lost>>
        /\ active.on /\ active.left = 0 /\ ~lost
    BY <1>3 DEF OpenWork, Goto, Placed, Unauthorized
  <2>2. \/ UNCHANGED <<k, active>>
        \/ /\ active' = [active EXCEPT !.left = left, !.turns = turns]
           /\ k' = IF left > 0 /\ turns > 0 THEN SetInFlightWindow(k, left, turns) ELSE k
    BY <1>3 DEF OpenWork
  <2>3. left \in Nat /\ turns \in Nat
    BY Fields, Constants
  <2>4. k.left > 0 => CoveredBy(conv)
    BY <2>1, Fields DEF Granted, CoveredBy
  <2>5. CASE UNCHANGED <<k, active>>
    <3>1. Typed' /\ Placed' /\ SoundsApart' /\ Untouched'
      BY <2>1, <2>5 DEF Typed, Placed, SoundsApart, Untouched, Point
    <3>2. Budgeted' /\ Unauthorized' /\ Granted'
      BY <2>1, <2>5
      DEF Budgeted, Unauthorized, Granted, CoveredBy, Woken, Answering
    <3> QED BY <3>1, <3>2 DEF SessionInv
  <2>6. CASE /\ active' = [active EXCEPT !.left = left, !.turns = turns]
             /\ k' = IF left > 0 /\ turns > 0 THEN SetInFlightWindow(k, left, turns) ELSE k
    <3>1. /\ active' \in Work /\ active'.on /\ active'.left = left /\ active'.turns = turns
          /\ active'.follow = active.follow
      BY <2>1, <2>3, <2>6 DEF Work
    <3>2. /\ k' \in Gate /\ CleanGate(k') /\ k'.guard = k.guard
          /\ k' = k \/ (Uses(k') = turns /\ k'.left = left)
      <4> HIDE DEF left, turns
      <4>1. CASE k' = SetInFlightWindow(k, left, turns)
        BY <2>3, <4>1, Opening
      <4>2. CASE k' = k
        BY <4>2 DEF Untouched
      <4> QED BY <2>6, <4>1, <4>2
    <3>3. active.follow => left = conv.left /\ turns = conv.turns
      OBVIOUS
    <3>4. ~active.follow => turns = InFlightTurns /\ spent = 0 /\ conv.turns = 0 /\ conv.left = 0
      BY <2>1 DEF Budgeted
    <3> HIDE DEF left, turns
    <3>5. Typed' /\ Placed' /\ SoundsApart' /\ Untouched'
      BY <2>1, <3>1, <3>2 DEF Typed, Placed, SoundsApart, Untouched, Point
    <3>6. Budgeted'
      BY <2>1, <3>1, <3>3, <3>4, Fields, Constants DEF Budgeted, Woken, Answering
    <3>7. Unauthorized' /\ Granted'
      BY <2>1, <2>3, <2>4, <3>1, <3>2, Fields DEF Unauthorized, Granted, CoveredBy, Answering
    <3> QED BY <3>5, <3>6, <3>7 DEF SessionInv
  <2> QED BY <2>2, <2>5, <2>6
<1> QED BY <1>1, <1>2, <1>3

\* After a sound the window is the one that was authorized before it.
LEMMA OpeningsKeep ==
    ASSUME SessionInv, OpenAnswer \/ OpenDuring
    PROVE  SessionInv'
<1> USE InvParts DEF After
<1>1. CASE OpenAnswer
  <2> DEFINE due == IF then = "answer"
                    THEN [left |-> PlaybackTail + ConversationWindow,
                          turns |-> ConversationTurns, timer |-> TRUE]
                    ELSE conv
  <2>1. /\ pc = "open" /\ then \in {"answer", "followAnswer"} /\ pc' = "select" /\ then' = "none"
        /\ UNCHANGED <<turn, worker, pulse, spent, lost>> /\ ~active.on /\ pulse = "off"
    BY <1>1 DEF OpenAnswer, Goto, Placed, SoundsApart
  <2>2. \/ k' = SetInFlightWindow(k, due.left, due.turns) /\ conv' = due /\ UNCHANGED <<light, active>>
        \/ CloseConversation(k, active)
    BY <1>1 DEF OpenAnswer
  <2>3. CASE CloseConversation(k, active)
    BY <2>1, <2>3, ClosingKeeps
  <2>4. /\ due \in Talk /\ due.left \in Nat /\ due.turns \in Nat
        /\ spent + due.turns <= InFlightTurns + ConversationTurns
        /\ lost => due.turns = 0
    <3>1. CASE then = "answer"
      <4>1. due.left \in Nat /\ due.turns = ConversationTurns /\ due.timer = TRUE
            /\ due \in [left : {due.left}, turns : {due.turns}, timer : {TRUE}]
        BY <3>1, Constants
      <4>2. due \in Talk /\ due.turns \in Nat
        BY <4>1, Constants DEF Talk
      <4>3. spent <= InFlightTurns /\ ~lost /\ spent \in Nat
        BY <2>1, <3>1 DEF Budgeted, Unauthorized, Answering, Typed
      <4> HIDE DEF due
      <4> QED BY <4>1, <4>2, <4>3, Constants
    <3>2. CASE then # "answer"
      BY <3>2, Fields DEF Typed, Budgeted, Unauthorized
    <3> QED BY <3>1, <3>2
  <2> HIDE DEF due
  <2>5. CASE k' = SetInFlightWindow(k, due.left, due.turns) /\ conv' = due /\ UNCHANGED <<light, active>>
    <3>1. /\ k' \in Gate /\ k'.left = due.left /\ k'.turns = due.turns /\ Uses(k') = due.turns
          /\ CleanGate(k') /\ k'.guard = k.guard
      BY <2>4, <2>5, Opening
    <3>2. Typed' /\ Placed' /\ SoundsApart' /\ Untouched'
      BY <2>1, <2>4, <2>5, <3>1 DEF Typed, Placed, SoundsApart, Untouched, Point
    <3>3. Budgeted'
      BY <2>1, <2>4, <2>5 DEF Budgeted, Woken, Answering
    <3>4. Unauthorized' /\ Granted'
      BY <2>1, <2>4, <2>5, <3>1
      DEF Unauthorized, Granted, CoveredBy, Answering, InFlight
    <3> QED BY <3>2, <3>3, <3>4 DEF SessionInv
  <2> QED BY <2>2, <2>3, <2>5
<1>2. CASE OpenDuring
  <2> DEFINE owner == IF active.on THEN active ELSE conv
             left  == owner.left
             turns == owner.turns
  <2>1. /\ pc = "open" /\ then = "during" /\ pc' = "select" /\ then' = "none" /\ pulse = "off"
        /\ pulse' = IF active.on THEN "quiet" ELSE pulse
        /\ UNCHANGED <<light, turn, active, worker, conv, spent, lost>>
    BY <1>2 DEF OpenDuring, Goto, SoundsApart
  <2>2. k' = IF turns > 0 /\ left > 0 THEN SetInFlightWindow(k, left, turns) ELSE k
    BY <1>2 DEF OpenDuring
  <2>3. left \in Nat /\ turns \in Nat /\ (lost => turns = 0)
    BY Fields DEF Unauthorized
  <2>4. \/ turns = active.turns /\ left = active.left
        \/ turns = conv.turns /\ left = conv.left
    OBVIOUS
  <2> HIDE DEF left, turns
  <2>5. /\ k' \in Gate /\ CleanGate(k')
        /\ k' = k \/ (turns > 0 /\ k'.left = left /\ Uses(k') = turns)
    <3>1. CASE k' = SetInFlightWindow(k, left, turns) /\ turns > 0
      BY <2>3, <3>1, Opening
    <3>2. CASE k' = k
      BY <3>2 DEF Untouched
    <3> QED BY <2>2, <3>1, <3>2
  <2>6. Typed' /\ Placed' /\ SoundsApart' /\ Untouched'
    BY <2>1, <2>5 DEF Typed, Placed, SoundsApart, Untouched, Point
  <2>7. Budgeted'
    BY <2>1 DEF Budgeted, Woken, Answering
  <2>8. Unauthorized' /\ Granted'
    BY <2>1, <2>3, <2>4, <2>5, Fields
    DEF Unauthorized, Granted, CoveredBy, Answering, InFlight
  <2> QED BY <2>6, <2>7, <2>8 DEF SessionInv
<1> QED BY <1>1, <1>2

\* The result leaves the gate shut; what it may open waits for its answer.
LEMMA ResultKeeps ==
    ASSUME SessionInv, TakeResult
    PROVE  SessionInv'
<1> USE InvParts
<1> DEFINE q == [k EXCEPT !.fault = FALSE]
           m == Shut(Joined(q))
           talk == IF k.fault THEN NoConversation ELSE conv
<1>1. IsShut(m)
  <2>1. q \in Gate
    BY Reported DEF SameAudio
  <2> HIDE DEF q
  <2>2. Joined(q) \in Gate
    BY <2>1, Joining
  <2> QED BY <2>2, Shutting
<1>2. /\ pc = "select" /\ lost' = (lost \/ k.fault)
      /\ active' = NoWork /\ worker' = "idle" /\ pulse' = "off" /\ light' = "idle"
      /\ UNCHANGED <<turn, spent>>
      /\ \/ k' = m /\ conv' = NoConversation /\ pc' = "select" /\ then' = "none"
         \/ /\ k' = Suspend(m) /\ pc' = "say"
            /\ \/ conv' = NoConversation /\ then' = "plain"
               \/ conv' = talk /\ then' \in {"last", "followAnswer"}
               \/ /\ conv' = talk /\ then' = "answer"
                  /\ active.allow /\ ~k.fault /\ ~active.follow
  BY DEF TakeResult, Goto
<1>3. conv' = NoConversation \/ (conv' = conv /\ ~k.fault)
  BY <1>2
<1> HIDE DEF m, talk
<1>4. /\ k' \in Gate /\ k'.left = 0 /\ k'.turns = 0 /\ CleanGate(k')
      /\ pc' = "say" => k'.guard = Forever
  BY <1>1, <1>2, Suspending DEF IsShut
<1>5. /\ conv' \in Talk /\ conv'.turns <= conv.turns /\ conv'.left <= conv.left
      /\ k.fault => conv'.turns = 0
  <2>1. conv \in Talk /\ conv.turns \in Nat /\ conv.left \in Nat
    BY Fields DEF Typed
  <2>2. /\ NoConversation \in Talk /\ NoConversation.turns = 0 /\ NoConversation.left = 0
    BY DEF NoConversation, Talk
  <2>3. CASE conv' = NoConversation
    BY <2>1, <2>2, <2>3
  <2>4. CASE conv' = conv /\ ~k.fault
    BY <2>1, <2>4
  <2> QED BY <1>3, <2>3, <2>4
<1>6. /\ NoWork \in Work /\ ~NoWork.on /\ ~NoWork.allow /\ NoWork.turns = 0
      /\ active.allow => active.on
  BY DEF NoWork, Work
<1>7. Answering' => spent <= InFlightTurns /\ conv'.left = 0 /\ ~lost'
  <2>1. SUFFICES ASSUME Answering'
                 PROVE  spent <= InFlightTurns /\ conv'.left = 0 /\ ~lost'
    OBVIOUS
  <2>2. active.allow /\ ~k.fault /\ ~active.follow
    BY <1>2, <2>1 DEF Answering
  <2>3. spent + active.turns <= InFlightTurns /\ conv.left = 0 /\ ~lost
    BY <1>6, <2>2 DEF Budgeted, Unauthorized
  <2>4. spent \in Nat /\ active.turns \in Nat /\ conv'.left \in Nat
    BY <1>5, Fields DEF Typed, Talk
  <2>5. spent <= InFlightTurns /\ conv'.left = 0
    BY <1>5, <2>3, <2>4, Constants
  <2>6. ~lost'
    BY <1>2, <2>2, <2>3
  <2> QED BY <2>5, <2>6
<1>8. Typed' /\ Placed' /\ SoundsApart' /\ Untouched'
  BY <1>2, <1>4, <1>5, <1>6, Fields DEF Typed, Placed, SoundsApart, Untouched, Point, After, Light
<1>9. Budgeted'
  <2>1. spent + conv.turns <= InFlightTurns + ConversationTurns /\ spent \in Nat
        /\ conv.turns \in Nat /\ conv'.turns \in Nat
    BY <1>5, Fields DEF Budgeted, Typed, Talk
  <2>2. spent + conv'.turns <= InFlightTurns + ConversationTurns
    BY <1>5, <2>1, Constants
  <2> QED BY <1>2, <1>6, <1>7, <2>2 DEF Budgeted, Woken
<1>10. Unauthorized' /\ Granted'
  <2>1. lost => conv'.turns = 0
    <3>1. lost => conv.turns = 0
      BY DEF Unauthorized
    <3> QED BY <1>5, <3>1, Fields DEF Talk
  <2> QED BY <1>2, <1>4, <1>5, <1>6, <1>7, <2>1, Fields DEF Unauthorized, Granted, InFlight
<1> QED BY <1>8, <1>9, <1>10 DEF SessionInv

\* Leaving shuts everything.
LEMMA LeavingKeeps ==
    ASSUME SessionInv, OffEnds \/ NothingLeft \/ Stop
    PROVE  SessionInv'
<1> USE InvParts
<1>1. PICK m \in Gate : Leave(m)
  BY Resuming DEF OffEnds, NothingLeft, Stop, SameAudio
<1>2. IsShut(k')
  BY <1>1, Joining, Shutting DEF Leave
<1>3. /\ light' = "idle" /\ active' = NoWork /\ conv' = NoConversation
      /\ worker' = "idle" /\ pulse' = "off" /\ pc' = "gone" /\ then' = "none"
      /\ UNCHANGED <<turn, spent, lost>>
  BY <1>1 DEF Leave, Goto
<1>4. /\ NoWork \in Work /\ ~NoWork.on /\ ~NoWork.allow /\ NoWork.turns = 0
      /\ conv' \in Talk /\ conv'.turns = 0 /\ conv'.left = 0
  BY <1>3 DEF NoWork, Work, NoConversation, Talk
<1>5. spent \in Nat /\ spent <= InFlightTurns + ConversationTurns
  BY Fields, Constants DEF Typed, Budgeted
<1>6. Typed' /\ Placed' /\ SoundsApart' /\ Untouched'
  BY <1>2, <1>3, <1>4
  DEF IsShut, Typed, Placed, SoundsApart, Untouched, Point, After, Light
<1>7. Budgeted' /\ Unauthorized' /\ Granted'
  BY <1>2, <1>3, <1>4, <1>5, Constants
  DEF IsShut, Budgeted, Unauthorized, Granted, Woken, Answering, InFlight
<1> QED BY <1>6, <1>7 DEF SessionInv
----------------------------------------------------------------------------
\* The invariant, and what the listener owes its owner.

LEMMA SessionInit == Init => SessionInv
<1> SUFFICES ASSUME Init
             PROVE  SessionInv
  OBVIOUS
<1>1. /\ k = [turns |-> 0, left |-> 0, guard |-> 0, state |-> "armed", fresh |-> TRUE,
              acked |-> FALSE, clean |-> TRUE, out |-> <<>>, hand |-> <<>>,
              queued |-> FALSE, fault |-> FALSE]
      /\ light = "idle" /\ pc = "select" /\ then = "none" /\ turn = NoTurn
      /\ active = NoWork /\ worker = "idle" /\ conv = NoConversation /\ pulse = "off"
      /\ spent = 0 /\ lost = FALSE
  BY DEF Init, KeywordInit
<1>2. k \in Gate /\ k.left = 0 /\ CleanGate(k)
  BY <1>1, Slots DEF Gate, State, CleanGate, CleanIn
<1>3. /\ active \in Work /\ ~active.on /\ ~active.allow /\ active.turns = 0
      /\ conv \in Talk /\ conv.turns = 0 /\ conv.left = 0
  BY <1>1 DEF NoWork, Work, NoConversation, Talk
<1>4. Typed /\ Placed /\ SoundsApart /\ Untouched
  BY <1>1, <1>2, <1>3
  DEF Typed, Placed, SoundsApart, Untouched, Point, After, Light, NoTurn
<1>5. Budgeted /\ Unauthorized /\ Granted
  BY <1>1, <1>2, <1>3, Constants
  DEF Budgeted, Unauthorized, Granted, Woken, Answering
<1> QED BY <1>4, <1>5 DEF SessionInv

LEMMA SessionStep == SessionInv /\ [Next]_vars => SessionInv'
<1> SUFFICES ASSUME SessionInv, [Next]_vars
             PROVE  SessionInv'
  OBVIOUS
<1>1. CASE Segmenter /\ pc # "gone" /\ UNCHANGED sessionVars
  BY <1>1, SegmenterKeeps
<1>2. CASE Blocked
  <2>1. CASE Transcribed
    BY <2>1, ClosingActionsKeep, SpeakingKeeps, SoundEndsKeep, RequestKeeps DEF Transcribed
  <2> QED
    BY <1>2, <2>1, RefuseKeeps, TakeFreeKeeps, TakeWakeKeeps, RequestKeeps,
       ClosingActionsKeep, SoundEndsKeep, LeavingKeeps, OpeningsKeep DEF Blocked
<1>3. CASE Select
  BY <1>3, ReceiveKeeps, ResultKeeps, ClosingActionsKeep, SpeakingKeeps, LeavingKeeps
  DEF Select
<1>4. CASE PlannerEnds \/ PulseChecks \/ PulseStarts \/ PulseEnds
  BY <1>4, PulsesKeep
<1>5. CASE Tick
  BY <1>5, TickKeeps
<1>6. CASE UNCHANGED vars
  BY <1>6
  DEF vars, sessionVars, keywordVars, SessionInv, Typed, Placed, SoundsApart, Untouched,
      Budgeted, Unauthorized, Granted, CoveredBy, Woken, Answering, CleanGate, Uses, InFlight
<1> QED BY <1>1, <1>2, <1>3, <1>4, <1>5, <1>6 DEF Next

\* At every point of the loop: who may sound, what fresh audio is, what is left
\* of the budgets and what a loss left authorized.
THEOREM SessionInvariant == Spec => []SessionInv
<1> QED BY SessionInit, SessionStep, PTL DEF Spec

\* No frame is captured while the loop or the pulses make a sound.
THEOREM GuardedWhileSounding == Spec => []MicrophoneGuarded
<1>1. SessionInv => MicrophoneGuarded
  BY DEF SessionInv, SoundsApart, MicrophoneGuarded, Sounding
<1> QED BY <1>1, SessionInvariant, PTL

\* Only what was heard in silence, under the authorization in force, is transcribed.
THEOREM TranscribesCleanAudio == Spec => []HeardUnderItsAuthorization
<1>1. SessionInv => HeardUnderItsAuthorization
  BY DEF SessionInv, Untouched, HeardUnderItsAuthorization
<1> QED BY <1>1, SessionInvariant, PTL

\* A wake is followed by at most its two budgets of wake-free turns, and the
\* gate admits no more, and no longer, than the work or the conversation allows.
THEOREM FreeTurnsWithinBudgets == Spec => []FreeTurnsAreGranted
<1>1. ASSUME SessionInv
      PROVE  FreeTurnsAreGranted
  <2>1. Uses(k) = k.turns + Spoken
    BY DEF Uses, Waiting, Spoken
  <2>2. /\ spent \in Nat /\ conv.turns \in Nat
        /\ spent + conv.turns <= InFlightTurns + ConversationTurns
    BY <1>1, Fields DEF SessionInv, Typed, Budgeted
  <2>3. spent <= InFlightTurns + ConversationTurns
    BY <2>2, Constants
  <2> QED BY <1>1, <2>1, <2>3 DEF FreeTurnsAreGranted, SessionInv, Granted, CoveredBy
<1> QED BY <1>1, SessionInvariant, PTL

\* After a reported loss nothing is authorized until the next fresh wake.
THEOREM LossIsFinal == Spec => []LossEndsAuthorization
<1>1. SessionInv => LossEndsAuthorization
  BY DEF SessionInv, Unauthorized, LossEndsAuthorization
<1> QED BY <1>1, SessionInvariant, PTL

----------------------------------------------------------------------------
\* The deadline of a conversation, and the end of a request.

\* What a step may not do: move a deadline, or drop work unless it is the result's.
Holds(work, talk) == conv'.left <= talk.left /\ active'.on = work.on

LEMMA ClosingHolds ==
    ASSUME Typed, NEW m, NEW work \in Work, work.on = active.on, CloseConversation(m, work)
    PROVE  Holds(active, conv)
<1>1. active' = Disallowed(work) /\ conv'.left = 0
  BY DEF CloseConversation, NoConversation
<1>2. active'.on = work.on
  BY <1>1 DEF Disallowed, Work
<1> QED BY <1>1, <1>2, Fields DEF Holds

LEMMA InterruptionHolds ==
    ASSUME Typed, NEW m, Interrupted(m, active)
    PROVE  Holds(active, conv)
BY ClosingHolds DEF Interrupted, Typed

\* Every step but the result's and the last one, of a loop with or without work.
LEMMA StepsHold ==
    ASSUME SessionInv, [Next]_vars, ~TakeResult, ~(OffEnds \/ NothingLeft \/ Stop)
    PROVE  /\ conv.left > 0 => conv'.left <= conv.left
           /\ active.on => active'.on
<1>0. /\ Typed /\ active \in Work /\ conv.left \in Nat /\ conv.turns \in Nat
      /\ active.on => active.turns \in Nat /\ active.left \in Nat
  BY Fields DEF SessionInv, Typed
<1>1. Holds(active, conv) => (conv'.left <= conv.left /\ (active.on => active'.on))
  BY DEF Holds
<1>2. UNCHANGED <<active, conv>> => Holds(active, conv)
  BY <1>0 DEF Holds
<1>3. CASE UNCHANGED vars \/ (Segmenter /\ UNCHANGED sessionVars)
  BY <1>1, <1>2, <1>3 DEF vars, sessionVars
<1>4. CASE PlannerEnds \/ PulseChecks \/ PulseStarts \/ PulseEnds
  BY <1>1, <1>2, <1>4 DEF PlannerEnds, PulseChecks, PulseStarts, PulseEnds
<1>5. CASE Tick
  <2>1. /\ active' = [active EXCEPT !.left = Less(@)] /\ conv' = [conv EXCEPT !.left = Less(@)]
    BY <1>5 DEF Tick
  <2>2. conv'.left = Less(conv.left) /\ active'.on = active.on
    BY <1>0, <2>1 DEF Typed, Work, Talk
  <2> QED BY <1>0, <2>2, Counting
<1>6. CASE Receive \/ TimerFires \/ Refuse \/ InlineEarconEnds \/ PlainEnds \/ OpenDuring
  BY <1>1, <1>2, <1>6
  DEF Receive, TimerFires, Refuse, InlineEarconEnds, PlainEnds, OpenDuring
<1>7. CASE TakeFault \/ ConversationExpires \/ UtterancesClosed \/ AnswerFails \/ LastAnswerEnds
  BY <1>0, <1>1, <1>7, ClosingHolds, InterruptionHolds
  DEF TakeFault, ConversationExpires, UtterancesClosed, AnswerFails, LastAnswerEnds
<1>8. CASE TakeFree
  <2>1. /\ active' = IF active.on THEN [active EXCEPT !.turns = @ - 1] ELSE active
        /\ conv' = IF ~active.on \/ active.follow THEN [conv EXCEPT !.turns = Less(@)] ELSE conv
    BY <1>8 DEF TakeFree
  <2>2. conv'.left = conv.left /\ active'.on = active.on
    BY <1>0, <2>1 DEF Typed, Work, Talk
  <2> QED BY <1>0, <2>2
<1>9. CASE TakeWake
  <2>1. active' = active /\ (conv' = conv \/ conv' = NoConversation)
    BY <1>9 DEF TakeWake
  <2> QED BY <1>0, <2>1 DEF NoConversation
<1>10. ASSUME NEW m, NEW heard, Resume(m, heard)
       PROVE  Holds(active, conv)
  BY <1>0, <1>2, <1>10, ClosingHolds, InterruptionHolds DEF Resume
<1>11. CASE AnswerHeard \/ CueEnds \/ DuringEnds
  <2>1. CASE DuringEnds
    BY <1>1, <1>10, <2>1 DEF DuringEnds
  <2>2. CASE AnswerHeard
    <3>1. FinishAnswer(ResumeAfter(k), then = "followAnswer")
      BY <2>2 DEF AnswerHeard
    <3>2. \/ Interrupted(ResumeAfter(k), active) \/ CloseConversation(ResumeAfter(k), active)
          \/ UNCHANGED <<active, conv>>
      BY <3>1, Zenon DEF FinishAnswer
    <3> QED BY <1>0, <1>1, <1>2, <3>2, ClosingHolds, InterruptionHolds
  <2>3. CASE CueEnds
    <3>1. \/ Interrupted(ResumeAfter(k), active) \/ CloseConversation(ResumeAfter(k), active)
          \/ UNCHANGED <<active, conv>>
      BY <2>3 DEF CueEnds
    <3> QED BY <1>0, <1>1, <1>2, <3>1, ClosingHolds, InterruptionHolds
  <2> QED BY <1>11, <2>1, <2>2, <2>3
<1>12. CASE OpenAnswer
  <2>1. CASE then = "answer"
    <3>1. conv.left = 0
      BY <1>12, <2>1 DEF OpenAnswer, SessionInv, Budgeted, Answering
    <3>2. ~active.on
      BY <1>12, <2>1 DEF OpenAnswer, SessionInv, Placed
    <3> QED BY <3>1, <3>2
  <2>2. CASE then # "answer"
    <3>1. CloseConversation(k, active) \/ UNCHANGED <<active, conv>>
      BY <1>12, <2>2 DEF OpenAnswer
    <3> QED BY <1>0, <1>1, <1>2, <3>1, ClosingHolds
  <2> QED BY <2>1, <2>2
<1>13. CASE OpenWork
  <2>1. conv' = conv
    BY <1>13 DEF OpenWork
  <2>2. PICK left, turns : active' = active \/ active' = [active EXCEPT !.left = left, !.turns = turns]
    BY <1>13 DEF OpenWork
  <2>3. active'.on = active.on
    BY <1>0, <2>2 DEF Work
  <2> QED BY <1>0, <2>1, <2>3
<1>14. CASE Transcribed
  <2>1. [active EXCEPT !.cancel = TRUE] \in Work /\ [active EXCEPT !.cancel = TRUE].on = active.on
    BY <1>0 DEF Work
  <2>2. CASE TranscribeFails \/ AcceptInterrupted \/ AcceptClose \/ AcceptCancel \/ AcceptNothing
    BY <1>0, <1>1, <2>1, <2>2, ClosingHolds, InterruptionHolds
    DEF TranscribeFails, AcceptInterrupted, AcceptClose, AcceptCancel, AcceptNothing
  <2>3. CASE AcceptDone \/ AcceptBusy \/ AcceptLocal \/ AcceptOff
    BY <1>1, <1>2, <2>3 DEF AcceptDone, AcceptBusy, AcceptLocal, AcceptOff
  <2>4. CASE AcceptIgnored
    BY <1>1, <1>10, <2>4 DEF AcceptIgnored
  <2>5. CASE AcceptOffDuring
    BY <1>0, <2>1, <2>5 DEF AcceptOffDuring
  <2>6. CASE AcceptRequest
    BY <1>0, <2>6 DEF AcceptRequest, Free
  <2> QED BY <1>14, <2>2, <2>3, <2>4, <2>5, <2>6 DEF Transcribed
<1>15. CASE Blocked
  BY <1>6, <1>7, <1>8, <1>9, <1>11, <1>12, <1>13, <1>14, <1>15 DEF Blocked
<1>16. CASE Select
  BY <1>6, <1>7, <1>16 DEF Select
<1> QED BY <1>3, <1>4, <1>5, <1>15, <1>16 DEF Next

LEMMA LastStepsHold ==
    ASSUME SessionInv, TakeResult \/ OffEnds \/ NothingLeft \/ Stop
    PROVE  /\ conv.left > 0 => conv'.left <= conv.left
           /\ active.cancel => pc' \in {"select", "gone"} /\ conv' = NoConversation
<1>1. conv.left \in Nat
  BY Fields DEF SessionInv
<1>2. CASE TakeResult
  <2>1. conv' = NoConversation \/ conv' = conv
    BY <1>2 DEF TakeResult
  <2>2. active.cancel => pc' = "select" /\ conv' = NoConversation
    BY <1>2 DEF TakeResult, Goto
  <2> QED BY <1>1, <2>1, <2>2 DEF NoConversation
<1>3. CASE OffEnds \/ NothingLeft \/ Stop
  <2>1. conv' = NoConversation /\ pc' = "gone"
    BY <1>3 DEF OffEnds, NothingLeft, Stop, Leave, Goto
  <2> QED BY <1>1, <2>1 DEF NoConversation
<1> QED BY <1>2, <1>3

\* The deadline a conversation was given is never moved.
THEOREM DeadlineNeverMoves == Spec => DeadlineIsAbsolute
<1>1. SessionInv /\ [Next]_vars => [conv.left > 0 => conv'.left <= conv.left]_vars
  BY StepsHold, LastStepsHold
<1> QED BY <1>1, SessionInvariant, PTL DEF Spec, DeadlineIsAbsolute

\* A request that was cancelled ends without an answer and without a conversation.
THEOREM CancelledStaysSilent == Spec => CancelledIsSilent
<1>1. SessionInv => (active.cancel => active.on)
  BY DEF SessionInv, Placed, NoWork
<1>2. SessionInv /\ [Next]_vars =>
         [active.cancel /\ ~active'.on => pc' \in {"select", "gone"} /\ conv' = NoConversation]_vars
  BY <1>1, StepsHold, LastStepsHold
<1> QED BY <1>2, SessionInvariant, PTL DEF Spec, CancelledIsSilent
=============================================================================

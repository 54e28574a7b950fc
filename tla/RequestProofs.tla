--------------------------- MODULE RequestProofs ---------------------------
(***************************************************************************)
(* Proofs about a request, for any house, any plan, any words and any       *)
(* number of changes by others.                                             *)
(***************************************************************************)
EXTENDS Request, FiniteSetTheorems, SequenceTheorems, TLAPS

\* A call has the fields of a call and no others.
IsCall(c) ==
    c = [device |-> c.device, op |-> c.op, arg |-> c.arg, at |-> c.at, seen |-> c.seen,
         sent |-> c.sent, state |-> c.state]

\* The same command.
Same(c, d) == d.device = c.device /\ d.op = c.op /\ d.arg = c.arg

\* What a driver does to its call.
Moves(step) ==
    /\ IsCall(call') /\ Same(call, call') /\ call'.at = step

LEMMA Movements ==
    ASSUME IsCall(call), NEW step, NEW what
    PROVE  /\ Goto(step) => Moves(step) /\ call'.seen = call.seen /\ call'.sent = call.sent
           /\ Saw(step, what) => Moves(step) /\ call'.seen = what /\ call'.sent = call.sent
           /\ Sent(step) => Moves(step) /\ call'.seen = call.seen /\ call'.sent
           /\ Returns(what) => Moves("ok") /\ call'.seen = call.seen /\ call'.sent = call.sent
           /\ Fails => Moves("failed") /\ call'.seen = call.seen /\ call'.sent = call.sent
BY DEF Moves, Same, IsCall, Goto, Saw, Sent, Returns, Fails

LEMMA HaMoves ==
    ASSUME IsCall(call), HaStep
    PROVE  /\ \E step \in {"post", "verify", "ok", "failed"} : Moves(step)
           /\ call.at \in {"start", "post", "verify"}
BY Movements DEF HaStep, HaRead, HaLook, HaPost, HaVerify, At, Moves, Same

LEMMA SpotifyMoves ==
    ASSUME IsCall(call), SpotifyStep
    PROVE  /\ \E step \in {"connect", "wait", "command", "check", "ok", "failed"} : Moves(step)
           /\ call.at \in {"start", "connect", "wait", "command", "check"}
BY Movements DEF SpotifyStep, SpotifyLook, Connect, WaitForDevice, Command, WaitForApplied, Look, At,
                 Moves, Same

LEMMA PhoneMoves ==
    ASSUME IsCall(call), PhoneStep
    PROVE  /\ \E step \in {"connection", "send", "resolve", "wake up", "show", "power", "window", "ok", "failed"} :
                 Moves(step)
           /\ call.at \in {"start", "connection", "send", "resolve", "wake up", "show", "power", "window"}
<1>1. CASE PhoneStart
    BY <1>1, Movements DEF PhoneStart, At
<1>2. CASE PhoneConnection
    BY <1>2, Movements DEF PhoneConnection, At
<1>3. CASE PhoneSend
    <2>1. CASE call' = [call EXCEPT !.at = "ok", !.sent = TRUE, !.state = [receipt |-> <<"sent", call.op>>]]
        BY <1>3, <2>1 DEF PhoneSend, At, Moves, Same, IsCall
    <2>2. CASE Fails
        BY <1>3, <2>2, Movements DEF PhoneSend, At
    <2> QED BY <1>3, <2>1, <2>2 DEF PhoneSend
<1>4. CASE Resolve
    BY <1>4, Movements DEF Resolve, At
<1>5. CASE WakeUp \/ Show
    BY <1>5, Movements DEF WakeUp, Show, At
<1>6. CASE PowerDump
    BY <1>6, Movements DEF PowerDump, At
<1>7. CASE WindowDump
    BY <1>7, Movements DEF WindowDump, At
<1> QED BY <1>1, <1>2, <1>3, <1>4, <1>5, <1>6, <1>7 DEF PhoneStep

LEMMA LocalMoves ==
    ASSUME IsCall(call), LocalStep
    PROVE  /\ \E step \in {"frame", "lamp read", "tv read", "ok", "failed"} : Moves(step)
           /\ call.at \in {"start", "frame", "lamp read", "tv read"}
<1>1. CASE LampLook
    BY <1>1, Movements DEF LampLook, At
<1>2. CASE SendFrame
    BY <1>2, Movements DEF SendFrame, At
<1>3. CASE LampRead
    BY <1>3, Movements DEF LampRead, At
<1>4. CASE CecSend
    <2>1. CASE call' = [call EXCEPT !.at = "ok", !.sent = TRUE, !.state = [command |-> call.op]]
        BY <1>4, <2>1 DEF CecSend, At, Moves, Same, IsCall
    <2>2. CASE Fails \/ Sent("tv read")
        BY <1>4, <2>2, Movements DEF CecSend, At
    <2> QED BY <1>4, <2>1, <2>2 DEF CecSend
<1>5. CASE CecRead
    BY <1>5, Movements DEF CecRead, At
<1> QED BY <1>1, <1>2, <1>3, <1>4, <1>5 DEF LocalStep

\* A driver goes on with the command it was given; what it does is no concern of the request's.
LEMMA DriversMove ==
    ASSUME IsCall(call), Drivers
    PROVE  /\ IsCall(call') /\ Same(call, call') /\ UNCHANGED requestVars
           /\ call.at \notin {"idle", "ok", "failed"} /\ call'.at # "idle"
<1>1. CASE HaStep
    BY <1>1, HaMoves DEF Drivers, Moves
<1>2. CASE SpotifyStep
    BY <1>2, SpotifyMoves DEF Drivers, Moves
<1>3. CASE PhoneStep
    BY <1>3, PhoneMoves DEF Drivers, Moves
<1>4. CASE LocalStep
    BY <1>4, LocalMoves DEF Drivers, Moves
<1>5. CASE CallFails
    BY <1>5, Movements DEF Drivers, CallFails, Ended, Moves
<1> QED BY <1>1, <1>2, <1>3, <1>4, <1>5 DEF Drivers

LEMMA OthersMove ==
    ASSUME World \/ Interrupted
    PROVE  UNCHANGED call /\ UNCHANGED requestVars
<1>1. CASE Interrupted
    BY <1>1 DEF Interrupted, Cancel
<1>2. CASE World
    <2>1. UNCHANGED requestVars
        BY <1>2 DEF World
    <2>2. ASSUME NEW d, People(d) PROVE UNCHANGED call
        <3>1. Touched
            BY <2>2 DEF People, HaPeople, SpotifyPeople, PhonePeople, LocalPeople
        <3> QED BY <3>1 DEF Touched
    <2>3. ServiceEnds \/ OrderEnds \/ ScreenComesOn => UNCHANGED callVars
        BY DEF ServiceEnds, OrderEnds, ScreenComesOn
    <2>4. UNCHANGED callVars => UNCHANGED call
        BY DEF callVars
    <2>5. \/ \E d \in Concerned \cap Registry : People(d)
          \/ ServiceEnds \/ OrderEnds \/ ScreenComesOn
        BY <1>2 DEF World
    <2>6. UNCHANGED call
        BY <2>2, <2>3, <2>4, <2>5
    <2> QED BY <2>1, <2>6
<1> QED BY <1>1, <1>2

LEMMA CallIs ==
    /\ IsCall(NoCall) /\ NoCall.at = "idle"
    /\ \A d, op, arg : /\ IsCall(Call(d, op, arg)) /\ Call(d, op, arg).at = "start"
                       /\ Call(d, op, arg).device = d /\ Call(d, op, arg).op = op
                       /\ ~Call(d, op, arg).sent
BY DEF IsCall, NoCall, Call

----------------------------------------------------------------------------
(***************************************************************************)
(* The reply.                                                              *)
(***************************************************************************)
IsSeq(s) == s \in Seq({s[i] : i \in DOMAIN s})

LEMMA SeqIs ==
    ASSUME NEW s, IsSeq(s)
    PROVE  Len(s) \in Nat /\ DOMAIN s = 1 .. Len(s)
BY DEF IsSeq

LEMMA OneMore ==
    ASSUME NEW s, IsSeq(s), NEW x
    PROVE  LET t == s \o <<x>> IN
           /\ IsSeq(t) /\ Len(t) = Len(s) + 1 /\ t[Len(s) + 1] = x
           /\ DOMAIN t = 1 .. Len(s) + 1 /\ \A i \in 1 .. Len(s) : t[i] = s[i]
<1> DEFINE T == {s[i] : i \in DOMAIN s} \cup {x}
           t == s \o <<x>>
<1>1. s \in Seq(T) /\ <<x>> \in Seq(T)
    BY DEF IsSeq
<1>2. /\ t \in Seq(T) /\ Len(t) = Len(s) + 1 /\ t[Len(s) + 1] = x
      /\ DOMAIN t = 1 .. Len(s) + 1 /\ \A i \in 1 .. Len(s) : t[i] = s[i]
    <2> HIDE DEF T
    <2> QED BY <1>1
<1>3. IsSeq(t)
    <2> HIDE DEF t, T
    <2> QED BY <1>2 DEF IsSeq
<1> QED BY <1>2, <1>3

\* The planner's word, or the note about the proposal.
Prelude == IF asks THEN {<<Words(n)>> : n \in Notes} ELSE {<<Words("planner")>>}

Answers(i) == plan[i].op = "read" \/ plan[i].device \in Phones

\* One answer of every action that has one, of those that are done.
Collected ==
    /\ IsSeq(replies)
    /\ \A j \in DOMAIN replies : replies[j].action \in 1 .. next - 1 /\ Answers(replies[j].action)
    /\ \A i \in 1 .. next - 1 : Answers(i) => \E j \in DOMAIN replies : replies[j].action = i
    /\ \A j, l \in DOMAIN replies : replies[j].action = replies[l].action => j = l

ReplyInv ==
    /\ IsCall(call) /\ IsSeq(plan) /\ asks \in BOOLEAN
    /\ next \in 1 .. Len(plan) + 1
    /\ finished \in Seq(Nat) /\ Len(finished) = next - 1 /\ \A i \in 1 .. next - 1 : finished[i] = i
    /\ Collected
    /\ outcome \in {"new", "running", "done", "failed"}
    /\ outcome = "new" => speak = <<Words("planner")>> /\ call.at = "idle"
    /\ outcome = "running" => speak \in Prelude
    /\ outcome = "running" /\ call.at # "idle" =>
          next <= Len(plan) /\ call.device = plan[next].device /\ call.op = plan[next].op
    /\ outcome = "failed" => speak \in Prelude \cup {<<Words("planner")>>}
    /\ outcome = "done" => next = Len(plan) + 1 /\ \E words \in Prelude : speak = Spoken(words, replies)

LEMMA AnswerIs ==
    ASSUME NEW c
    PROVE  /\ c.op = "read" \/ c.device \in Phones => \E w : Answer(c) = <<[action |-> next, says |-> w]>>
           /\ ~(c.op = "read" \/ c.device \in Phones) => Answer(c) = <<>>
BY DEF Answer

LEMMA PlansAreSequences == Init => IsSeq(plan) /\ asks \in BOOLEAN
<1> SUFFICES ASSUME Init PROVE IsSeq(plan) /\ asks \in BOOLEAN
    OBVIOUS
<1>1. ASSUME NEW d, NEW op, NEW arg, plan \in P!ActionPlan(d, op, arg)
      PROVE  IsSeq(plan)
    BY <1>1 DEF P!ActionPlan, IsSeq
<1>2. \A p \in Plans : IsSeq(p)
    BY HouseAssumption DEF IsSeq
<1>3. CASE \E naming \in Namings, u \in Utterances : Heard(u, Inventory(naming))
    <2>1. PICK naming \in Namings, u \in Utterances : Heard(u, Inventory(naming))
        BY <1>3
    <2> DEFINE house == Inventory(naming)
    <2> HIDE DEF house
    <2>2. ASSUME plan \in P!RulesPlans(u, house) PROVE IsSeq(plan)
        <3>1. CASE plan \in {<<>>}
            BY <3>1 DEF IsSeq
        <3>2. CASE plan \in UNION {P!ActionPlan(d, u.op, u.arg) : d \in P!Target(u, house)}
            <4>1. PICK d \in P!Target(u, house) : plan \in P!ActionPlan(d, u.op, u.arg)
                BY <3>2
            <4> QED BY <1>1, <4>1
        <3> QED BY <2>2, <3>1, <3>2 DEF P!RulesPlans
    <2>3. ASSUME plan \in P!JevPlans(house) PROVE IsSeq(plan)
        <3>1. PICK d \in house, op \in P!JevSafe : plan \in P!ActionPlan(d, op, 0)
            BY <2>3 DEF P!JevPlans
        <3> QED BY <1>1, <3>1
    <2>4. ASSUME plan \in P!AgentAllowed(house) PROVE IsSeq(plan)
        <3>1. plan \in Plans
            BY <2>4 DEF P!AgentAllowed
        <3> QED BY <1>2, <3>1
    <2>5. asks \in BOOLEAN
        BY <2>1 DEF Heard
    <2> QED BY <2>1, <2>2, <2>3, <2>4, <2>5 DEF Heard, house
<1> QED BY <1>2, <1>3 DEF Init

LEMMA ReplyStarts == Init => ReplyInv
<1> SUFFICES ASSUME Init PROVE ReplyInv
    OBVIOUS
<1>1. /\ next = 1 /\ replies = <<>> /\ speak = <<Words("planner")>> /\ outcome = "new"
      /\ finished = <<>> /\ call = NoCall
    BY DEF Init
<1>2. IsSeq(plan) /\ asks \in BOOLEAN /\ Len(plan) \in Nat
    BY PlansAreSequences, SeqIs
<1>3. Collected
    BY <1>1 DEF Collected, IsSeq
<1> QED BY <1>1, <1>2, <1>3, CallIs DEF ReplyInv

LEMMA ReplyStart ==
    ASSUME ReplyInv, Start PROVE ReplyInv'
<1>1. /\ UNCHANGED <<call, plan, asks, next, replies, finished>> /\ outcome = "new"
      /\ speak = <<Words("planner")>> /\ call.at = "idle"
    BY DEF Start, callVars, ReplyInv
<1>2. UNCHANGED call /\ UNCHANGED plan /\ UNCHANGED asks /\ UNCHANGED next /\ UNCHANGED replies /\ UNCHANGED finished
    BY <1>1
<1>3. Collected'
    BY <1>2 DEF Collected, Answers, ReplyInv
<1>4. \/ outcome' = "running" /\ speak' \in Prelude
      \/ outcome' = "failed" /\ speak' = <<Words("planner")>>
    BY <1>1 DEF Start, Prelude
<1>5. UNCHANGED Prelude
    BY <1>2 DEF Prelude
<1> QED BY <1>1, <1>2, <1>3, <1>4, <1>5 DEF ReplyInv

LEMMA ReplyStartAction ==
    ASSUME ReplyInv, StartAction PROVE ReplyInv'
<1>1. UNCHANGED <<plan, asks, next, replies, speak, finished>> /\ outcome = "running"
    BY DEF StartAction
<1>2. UNCHANGED plan /\ UNCHANGED asks /\ UNCHANGED next /\ UNCHANGED replies /\ UNCHANGED speak /\ UNCHANGED finished
    BY <1>1
<1>3. Collected' /\ UNCHANGED Prelude
    BY <1>2 DEF Collected, Answers, ReplyInv, Prelude
<1>4. \/ outcome' = "failed" /\ UNCHANGED call
      \/ /\ outcome' = "running" /\ next <= Len(plan)
         /\ call' = Call(plan[next].device, plan[next].op, plan[next].arg)
    BY DEF StartAction
<1>5. /\ IsCall(call')
      /\ outcome' = "running" => next <= Len(plan) /\ call'.device = plan[next].device /\ call'.op = plan[next].op
    BY <1>1, <1>4, CallIs DEF ReplyInv
<1> QED BY <1>1, <1>2, <1>3, <1>4, <1>5 DEF ReplyInv

LEMMA ReplyEndAction ==
    ASSUME ReplyInv, EndAction PROVE ReplyInv'
<1>1. /\ UNCHANGED <<plan, asks, speak>> /\ outcome = "running" /\ call' = NoCall
      /\ call.at \in {"ok", "failed"}
    BY DEF EndAction
<1>2. UNCHANGED plan /\ UNCHANGED asks /\ UNCHANGED speak /\ UNCHANGED Prelude
    BY <1>1 DEF Prelude
<1>3. next <= Len(plan) /\ call.device = plan[next].device /\ call.op = plan[next].op
    BY <1>1 DEF ReplyInv
<1>4. IsCall(call') /\ call'.at = "idle"
    BY <1>1, CallIs
<1>5. CASE call.at # "ok"
    <2>1. outcome' = "failed" /\ UNCHANGED replies /\ UNCHANGED finished /\ UNCHANGED next
        BY <1>5 DEF EndAction
    <2>2. Collected'
        BY <1>2, <2>1 DEF Collected, Answers, ReplyInv
    <2> QED BY <1>1, <1>2, <1>4, <2>1, <2>2 DEF ReplyInv
<1>6. CASE call.at = "ok"
    <2>1. /\ replies' = replies \o Answer(call) /\ finished' = Append(finished, next) /\ next' = next + 1
          /\ outcome' = "running"
        BY <1>1, <1>6 DEF EndAction
    <2>2. PICK n \in Nat : n = Len(plan) /\ next \in 1 .. n + 1 /\ next <= n
        BY <1>3, SeqIs DEF ReplyInv
    <2>3. /\ next' \in 1 .. n + 1 /\ finished' \in Seq(Nat) /\ Len(finished') = next' - 1
          /\ \A i \in 1 .. next' - 1 : finished'[i] = i
        <3>1. finished \in Seq(Nat) /\ Len(finished) = next - 1 /\ \A i \in 1 .. next - 1 : finished[i] = i
            BY DEF ReplyInv
        <3>2. next' \in 1 .. n + 1 /\ next \in Nat /\ next' - 1 = next
            BY <2>1, <2>2
        <3>3. finished' \in Seq(Nat) /\ Len(finished') = next
            BY <2>1, <3>1, <3>2
        <3>4. ASSUME NEW i \in 1 .. next PROVE finished'[i] = i
            BY <2>1, <3>1, <3>2
        <3> QED BY <3>2, <3>3, <3>4
    <2>4. Collected'
        <3>1. CASE Answers(next)
            <4>1. PICK w : Answer(call) = <<[action |-> next, says |-> w]>>
                BY <1>3, <3>1, AnswerIs DEF Answers
            <4> DEFINE x == [action |-> next, says |-> w]
            <4>2. PICK m \in Nat : m = Len(replies) /\ DOMAIN replies = 1 .. m
                BY SeqIs DEF ReplyInv
            <4>3. replies' = replies \o <<x>>
                BY <2>1, <4>1
            <4>4. /\ IsSeq(replies') /\ DOMAIN replies' = 1 .. m + 1 /\ replies'[m + 1] = x
                  /\ \A i \in 1 .. m : replies'[i] = replies[i]
                <5> HIDE DEF x
                <5>1. IsSeq(replies)
                    BY DEF ReplyInv, Collected
                <5> DEFINE t == replies \o <<x>>
                <5>2. /\ IsSeq(t) /\ Len(t) = Len(replies) + 1 /\ t[Len(replies) + 1] = x
                      /\ DOMAIN t = 1 .. Len(replies) + 1 /\ \A i \in 1 .. Len(replies) : t[i] = replies[i]
                    BY ONLY <5>1, OneMore
                <5>3. replies' = t
                    BY <4>3
                <5> HIDE DEF t
                <5> QED BY <4>2, <5>2, <5>3
            <4>5. x.action = next
                OBVIOUS
            <4> HIDE DEF x
            <4>6. /\ \A j \in 1 .. m : replies[j].action \in 1 .. next - 1 /\ Answers(replies[j].action)
                  /\ \A i \in 1 .. next - 1 : Answers(i) => \E j \in 1 .. m : replies[j].action = i
                  /\ \A j, l \in 1 .. m : replies[j].action = replies[l].action => j = l
                BY <4>2 DEF Collected, ReplyInv
            <4>7. \A i : Answers(i)' = Answers(i)
                BY <1>2 DEF Answers
            <4>8. \A j \in 1 .. m + 1 : replies'[j].action \in 1 .. next /\ Answers(replies'[j].action)
                BY <2>2, <3>1, <4>4, <4>5, <4>6
            <4>9. \A i \in 1 .. next : Answers(i) => \E j \in 1 .. m + 1 : replies'[j].action = i
                BY <2>2, <4>4, <4>5, <4>6
            <4>10. \A j, l \in 1 .. m + 1 : replies'[j].action = replies'[l].action => j = l
                BY <2>2, <4>4, <4>5, <4>6
            <4>11. next' - 1 = next
                BY <2>1, <2>2
            <4> QED BY <4>4, <4>7, <4>8, <4>9, <4>10, <4>11 DEF Collected
        <3>2. CASE ~Answers(next)
            <4>1. Answer(call) = <<>>
                BY <1>3, <3>2, AnswerIs DEF Answers
            <4>2. UNCHANGED replies
                BY <2>1, <4>1 DEF ReplyInv, IsSeq
            <4>3. \A i : Answers(i)' = Answers(i)
                BY <1>2 DEF Answers
            <4>4. next' - 1 = next /\ next \in Nat
                BY <2>1, <2>2
            <4> QED BY <3>2, <4>2, <4>3, <4>4 DEF Collected, ReplyInv
        <3> QED BY <3>1, <3>2
    <2> QED BY <1>1, <1>2, <1>4, <2>1, <2>2, <2>3, <2>4 DEF ReplyInv
<1> QED BY <1>5, <1>6

LEMMA ReplyFinish ==
    ASSUME ReplyInv, Finish PROVE ReplyInv'
<1>1. /\ UNCHANGED <<call, plan, asks, next, replies, finished>> /\ outcome = "running" /\ outcome' = "done"
      /\ speak' = Spoken(speak, replies) /\ next > Len(plan)
    BY DEF Finish, callVars
<1>2. UNCHANGED call /\ UNCHANGED plan /\ UNCHANGED asks /\ UNCHANGED next /\ UNCHANGED replies /\ UNCHANGED finished
    BY <1>1
<1>3. Collected' /\ UNCHANGED Prelude
    BY <1>2 DEF Collected, Answers, ReplyInv, Prelude
<1>4. next = Len(plan) + 1
    BY <1>1, SeqIs DEF ReplyInv
<1>5. speak \in Prelude /\ \A words : Spoken(words, replies)' = Spoken(words, replies)
    BY <1>1, <1>2 DEF ReplyInv, Spoken
<1> QED BY <1>1, <1>2, <1>3, <1>4, <1>5 DEF ReplyInv

LEMMA ReplyRuns == ReplyInv /\ [Next]_vars => ReplyInv'
<1> SUFFICES ASSUME ReplyInv, [Next]_vars PROVE ReplyInv'
    OBVIOUS
<1>1. ASSUME IsCall(call'), UNCHANGED requestVars,
             \/ UNCHANGED call
             \/ Same(call, call') /\ call.at # "idle"
      PROVE  ReplyInv'
    <2>1. /\ UNCHANGED plan /\ UNCHANGED asks /\ UNCHANGED next /\ UNCHANGED replies
          /\ UNCHANGED speak /\ UNCHANGED outcome /\ UNCHANGED finished
        BY <1>1 DEF requestVars
    <2>2. Collected' /\ UNCHANGED Prelude
        BY <2>1 DEF Collected, Answers, ReplyInv, Prelude
    <2>3. outcome = "done" => \E words \in Prelude : speak = Spoken(words, replies)
        BY DEF ReplyInv
    <2>4. \A words : Spoken(words, replies)' = Spoken(words, replies)
        BY <2>1 DEF Spoken
    <2>5. outcome = "running" /\ call'.at # "idle" =>
             next <= Len(plan) /\ call'.device = plan[next].device /\ call'.op = plan[next].op
        BY <1>1 DEF ReplyInv, Same
    <2>6. outcome = "new" => call'.at = "idle"
        BY <1>1 DEF ReplyInv
    <2> QED BY <1>1, <2>1, <2>2, <2>3, <2>4, <2>5, <2>6 DEF ReplyInv
<1>2. CASE UNCHANGED vars
    BY <1>1, <1>2 DEF vars, callVars, requestVars, ReplyInv
<1>3. CASE Handler
    BY <1>3, ReplyStart, ReplyStartAction, ReplyEndAction, ReplyFinish DEF Handler
<1>4. CASE Drivers
    BY <1>1, <1>4, DriversMove DEF ReplyInv
<1>5. CASE World \/ Interrupted
    BY <1>1, <1>5, OthersMove DEF ReplyInv
<1> QED BY <1>2, <1>3, <1>4, <1>5 DEF Next

\* Every answer of the replies comes once: they number what they answer.
LEMMA OneAnswerEach ==
    ASSUME Collected, NEW N \in Nat, next = N + 1, NEW own, own = DOMAIN replies,
           NEW s, \A i \in own : s[i].action = replies[i].action
    PROVE  LET answered == {i \in 1 .. N : Answers(i)} IN
           {s[i].action : i \in own} = answered /\ Cardinality(own) = Cardinality(answered)
<1> DEFINE answered == {i \in 1 .. N : Answers(i)}
           number == [i \in own |-> replies[i].action]
<1>1. PICK m \in Nat : own = 1 .. m
    BY SeqIs DEF Collected
<1>2. IsFiniteSet(own)
    BY <1>1, FS_Interval
<1>3. next - 1 = N
    OBVIOUS
<1>4. /\ \A j \in own : replies[j].action \in answered
      /\ \A i \in answered : \E j \in own : replies[j].action = i
      /\ \A j, l \in own : replies[j].action = replies[l].action => j = l
    BY <1>3 DEF Collected
<1> HIDE DEF answered
<1>5. number \in [own -> answered]
    BY <1>4
<1>6. number \in Surjection(own, answered) /\ number \in Injection(own, answered)
    <2>1. \A i \in own : number[i] = replies[i].action
        OBVIOUS
    <2> HIDE DEF number
    <2>2. \A j, l \in own : number[j] = number[l] => j = l
        BY <1>4, <2>1
    <2>3. \A i \in answered : \E j \in own : number[j] = i
        BY <1>4, <2>1
    <2>4. number \in Surjection(own, answered)
        BY ONLY <1>5, <2>3 DEF Surjection
    <2>5. number \in Injection(own, answered)
        BY ONLY <1>5, <2>2 DEF Injection, IsInjective
    <2> QED BY <2>4, <2>5
<1> HIDE DEF number
<1>7. Cardinality(own) = Cardinality(answered)
    BY <1>2, <1>6, FS_Surjection
<1>8. {s[i].action : i \in own} = answered
    BY <1>4
<1> QED BY <1>7, <1>8 DEF answered

\* What Voice says by itself carries no answer.
LEMMA PreludeIs ==
    ASSUME NEW words \in Prelude \cup {<<Words("planner")>>}
    PROVE  /\ Answering(words) = {}
           /\ words \in Prelude => \E w : words = <<Words(w)>> /\ (IF asks THEN w \in Notes ELSE w = "planner")
           /\ \A w : words = <<Words(w)>> => Said(words) = {w}
<1>1. PICK w : /\ words = <<Words(w)>>
               /\ words \in Prelude => IF asks THEN w \in Notes ELSE w = "planner"
    BY DEF Prelude
<1>2. DOMAIN words = {1} /\ words[1] = Words(w) /\ Words(w).action = 0 /\ Words(w).says = w
    BY <1>1 DEF Words
<1>3. Answering(words) = {} /\ Said(words) = {w}
    BY <1>2 DEF Answering, Said
<1>4. ASSUME NEW v, words = <<Words(v)>> PROVE v = w
    BY <1>1, <1>4 DEF Words
<1> QED BY <1>1, <1>3, <1>4

LEMMA ReplyGood == ReplyInv => ReplyIsEarned
<1> SUFFICES ASSUME ReplyInv PROVE ReplyIsEarned
    OBVIOUS
<1>1. outcome = "failed" => Answering(speak) = {}
    BY PreludeIs DEF ReplyInv
<1>2. ASSUME outcome = "done"
      PROVE  LET answered == {i \in DOMAIN plan : plan[i].op = "read" \/ plan[i].device \in Phones}
                 own == Answering(speak)
             IN /\ finished = [i \in 1 .. Len(plan) |-> i]
                /\ {speak[i].action : i \in own} = answered /\ Cardinality(own) = Cardinality(answered)
                /\ asks <=> Said(speak) \cap Notes # {}
                /\ "planner" \in Said(speak) => ~asks /\ answered = {}
    <2>1. PICK N \in Nat : N = Len(plan) /\ DOMAIN plan = 1 .. N
        BY SeqIs DEF ReplyInv
    <2>2. next = N + 1 /\ Collected
        BY <1>2, <2>1 DEF ReplyInv
    <2>3. finished = [i \in 1 .. N |-> i]
        BY <2>1, <2>2 DEF ReplyInv
    <2> DEFINE answered == {i \in 1 .. N : Answers(i)}
    <2>4. {i \in DOMAIN plan : plan[i].op = "read" \/ plan[i].device \in Phones} = answered
        BY <2>1 DEF Answers
    <2>5. PICK words \in Prelude : speak = Spoken(words, replies)
        BY <1>2 DEF ReplyInv
    <2>6. PICK w : words = <<Words(w)>> /\ (IF asks THEN w \in Notes ELSE w = "planner")
        BY PreludeIs
    <2>7. Answering(words) = {} /\ Said(words) = {w}
        BY <2>6, PreludeIs
    <2>8. PICK m \in Nat : m = Len(replies) /\ DOMAIN replies = 1 .. m
        BY <2>2, SeqIs DEF Collected
    <2>9. \A i \in 1 .. m : replies[i].action # 0
        BY <2>2, <2>8 DEF Collected
    <2>10. ASSUME NEW s, \A i \in 1 .. m : s[i].action = replies[i].action
           PROVE  {s[i].action : i \in 1 .. m} = answered /\ Cardinality(1 .. m) = Cardinality(answered)
        <3> DEFINE own == 1 .. m
        <3>1. own = DOMAIN replies /\ \A i \in own : s[i].action = replies[i].action
            BY <2>8, <2>10
        <3> HIDE DEF own
        <3>2. /\ {s[i].action : i \in own} = {i \in 1 .. N : Answers(i)}
              /\ Cardinality(own) = Cardinality({i \in 1 .. N : Answers(i)})
            <4>1. N \in Nat /\ next = N + 1 /\ Collected
                BY <2>1, <2>2
            <4> QED BY ONLY <4>1, <3>1, OneAnswerEach
        <3> QED BY <3>2 DEF own, answered
    <2>11. "planner" \notin Notes
        BY DEF Notes
    <2> HIDE DEF answered
    <2> SUFFICES /\ {speak[i].action : i \in Answering(speak)} = answered
                 /\ Cardinality(Answering(speak)) = Cardinality(answered)
                 /\ asks <=> Said(speak) \cap Notes # {}
                 /\ "planner" \in Said(speak) => ~asks /\ answered = {}
        BY <2>1, <2>3, <2>4
    <2>12. CASE replies = <<>>
        <3>1. speak = words
            BY <2>5, <2>12 DEF Spoken
        <3>2. m = 0
            BY <2>8, <2>12
        <3>3. answered = {}
            BY <2>2, <2>8, <3>2 DEF answered, Collected
        <3> QED BY <2>6, <2>7, <2>11, <3>1, <3>3
    <2>13. CASE replies # <<>> /\ asks
        <3>1. speak = replies \o <<Words(w)>>
            BY <2>5, <2>6, <2>13 DEF Spoken
        <3> DEFINE x == Words(w)
        <3>2. x.action = 0 /\ x.says = w
            BY DEF Words
        <3> HIDE DEF x
        <3>3. /\ DOMAIN speak = 1 .. m + 1 /\ speak[m + 1] = x
              /\ \A i \in 1 .. m : speak[i] = replies[i]
            <4>1. IsSeq(replies)
                BY <2>2 DEF Collected
            <4> DEFINE t == replies \o <<x>>
            <4>2. /\ Len(t) = Len(replies) + 1 /\ t[Len(replies) + 1] = x
                  /\ DOMAIN t = 1 .. Len(replies) + 1 /\ \A i \in 1 .. Len(replies) : t[i] = replies[i]
                BY ONLY <4>1, OneMore
            <4>3. speak = t
                BY <3>1 DEF x
            <4> HIDE DEF t
            <4> QED BY <2>8, <4>2, <4>3
        <3>4. Answering(speak) = 1 .. m
            BY <2>9, <3>2, <3>3 DEF Answering
        <3>5. Said(speak) = {w}
            BY <2>9, <3>2, <3>3 DEF Said
        <3>6. \A i \in 1 .. m : speak[i].action = replies[i].action
            BY <3>3
        <3> QED BY <2>6, <2>10, <2>11, <2>13, <3>4, <3>5, <3>6
    <2>14. CASE replies # <<>> /\ ~asks
        <3>1. speak = replies
            BY <2>5, <2>14 DEF Spoken
        <3>2. Answering(speak) = 1 .. m /\ Said(speak) = {}
            BY <2>8, <2>9, <3>1 DEF Answering, Said
        <3>3. \A i \in 1 .. m : speak[i].action = replies[i].action
            BY <3>1
        <3> QED BY <2>10, <2>14, <3>2, <3>3
    <2> QED BY <2>12, <2>13, <2>14
<1> QED BY <1>1, <1>2 DEF ReplyIsEarned

\* What is spoken was earned: a request that failed speaks no answer at all; one that was carried
\* out had every action end without an error, in the order of the plan, and says exactly one answer
\* for each reading and each phone action, the planner's own words only when there is none
\* (session.go:99-101, 189-191).  For any plan, any number of actions and any devices.
THEOREM RepliesAreEarned == Spec => []ReplyIsEarned
<1>1. Init => ReplyInv
    BY ReplyStarts
<1>2. ReplyInv /\ [Next]_vars => ReplyInv'
    BY ReplyRuns
<1>3. ReplyInv => ReplyIsEarned
    BY ReplyGood
<1> QED BY <1>1, <1>2, <1>3, PTL DEF Spec

----------------------------------------------------------------------------
(***************************************************************************)
(* Whom the words mean.                                                    *)
(***************************************************************************)
Entry(naming, d) == [id |-> d, kind |-> Kind[d], name |-> naming[d], caps |-> Capabilities(d)]

LEMMA InventoryIs ==
    ASSUME NEW naming
    PROVE  \A d \in Inventory(naming) : d.id \in DOMAIN naming /\ d = Entry(naming, d.id)
<1>1. Inventory(naming) = {Entry(naming, d) : d \in DOMAIN naming}
    BY DEF Inventory, Entry
<1>2. \A d : Entry(naming, d).id = d
    BY DEF Entry
<1> QED BY <1>1, <1>2

LEMMA TargetIsMeant ==
    ASSUME NEW naming \in Namings, NEW u \in Utterances, NEW d \in P!Target(u, Inventory(naming))
    PROVE  P!Meanings(u, Inventory(naming)) = {d}
<1> DEFINE house == Inventory(naming)
           named == P!Named(u, house)
<1>1. \A e \in house : e.id \in DOMAIN naming /\ e = Entry(naming, e.id)
    BY InventoryIs
<1>2. \A e : /\ Entry(naming, e).id = e /\ Entry(naming, e).name = naming[e]
             /\ Entry(naming, e).kind = Kind[e]
    BY DEF Entry
<1>3. d \in P!Target(u, house)
    OBVIOUS
<1> HIDE DEF house
<1>4. named \subseteq house
    BY DEF P!Named
<1>5. \A kind : P!OfKind(kind, house) \subseteq house
    BY DEF P!OfKind
<1>6. \A e \in house : e \in named <=> e.name # "none" /\ e.name \in u.named
    BY DEF P!Named
<1>7. \A kind : \A e \in house : e \in P!OfKind(kind, house) <=> e.kind = kind
    BY DEF P!OfKind
<1> HIDE DEF named
<1>8. CASE u.form = "music"
    <2> DEFINE all == P!OfKind("music", house)
    <2>1. P!Target(u, house) = {e \in all : all = {e}}
        BY <1>8 DEF P!Target, P!Only
    <2>2. P!Meanings(u, house) = all
        BY <1>8 DEF P!Meanings
    <2> HIDE DEF all
    <2> QED BY <1>3, <2>1, <2>2 DEF house
<1>9. CASE u.form = "quick"
    <2> DEFINE phones == {e \in P!OfKind("phone", house) : e.name # "none" /\ (P!Generic(u) \/ e.name = u.target)}
    <2>1. d \in P!Only(phones) /\ named \subseteq {d}
        BY <1>3, <1>9 DEF P!Target, P!QuickTarget, named
    <2>3. \A e : e \in phones <=> e \in house /\ e.kind = "phone" /\ e.name # "none" /\ (P!Generic(u) \/ e.name = u.target)
        BY <1>5, <1>7
    <2> HIDE DEF phones
    <2>4. d \in phones /\ phones = {d} /\ named \subseteq {d}
        BY <2>1 DEF P!Only
    <2>5. CASE P!Generic(u)
        <3>1. P!Meanings(u, house) = P!OfKind("phone", house) \cup named
            BY <1>9, <2>5 DEF P!Meanings, named
        <3>2. ASSUME NEW e \in P!OfKind("phone", house) PROVE e = d
            <4>1. e \in house /\ d \in house /\ e.kind = "phone" /\ d.kind = "phone"
                BY <1>5, <1>7, <2>3, <2>4
            <4>2. /\ e = Entry(naming, e.id) /\ d = Entry(naming, d.id)
                  /\ e.id \in DOMAIN naming /\ d.id \in DOMAIN naming
                BY <1>1, <4>1
            <4>3. CASE e.id # d.id
                <5>1. naming[e.id] # "none"
                    <6>1. Kind[e.id] = "phone" /\ Kind[d.id] = "phone"
                        BY <1>2, <4>1, <4>2
                    <6> QED BY <4>2, <4>3, <6>1, NamesAssumption
                <5>2. e \in phones
                    BY <1>2, <2>3, <2>5, <4>1, <4>2, <5>1
                <5> QED BY <2>4, <5>2
            <4> QED BY <4>2, <4>3
        <3>3. d \in P!OfKind("phone", house)
            BY <1>7, <2>3, <2>4
        <3> QED BY <2>4, <3>1, <3>2, <3>3 DEF house
    <2>6. CASE ~P!Generic(u)
        <3>1. P!Meanings(u, house) = named
            BY <1>9, <2>6 DEF P!Meanings, named
        <3>2. d \in named
            <4>1. d \in house /\ d.name # "none" /\ d.name = u.target
                BY <2>3, <2>4, <2>6
            <4> QED BY <1>6, <4>1, NamesAssumption
        <3> QED BY <2>4, <3>1, <3>2 DEF house
    <2> QED BY <2>5, <2>6
<1>10. CASE u.form \in {"command", "mention"}
    <2>1. d \in named /\ named = {d}
        BY <1>3, <1>10 DEF P!Target, P!CommandTarget, P!Only, named
    <2>2. P!Meanings(u, house) = named
        BY <1>10 DEF P!Meanings, named
    <2> QED BY <2>1, <2>2 DEF house
<1>11. u.form \in {"music", "quick", "command", "mention"}
    BY <1>3 DEF P!Target
<1> QED BY <1>8, <1>9, <1>10, <1>11

LEMMA MeantStarts == Init => ActsOnMeant
<1> SUFFICES ASSUME Init, heard.by = "rules" PROVE \A i \in DOMAIN plan : plan[i].device = heard.meant
    BY DEF ActsOnMeant
<1>1. PICK naming \in Namings, u \in Utterances : Heard(u, Inventory(naming))
    BY DEF Init
<1> DEFINE house == Inventory(naming)
           meanings == P!Meanings(u, house)
<1>2. PICK meant \in {e.id : e \in meanings} \cup {"none"} :
          /\ meanings # {} => meant # "none"
          /\ heard.meant = meant
          /\ plan \in P!RulesPlans(u, house)
    BY <1>1 DEF Heard
<1>3. CASE P!Target(u, house) = {}
    BY <1>2, <1>3 DEF P!RulesPlans
<1>4. CASE P!Target(u, house) # {}
    <2>1. PICK d \in P!Target(u, house) : plan \in P!ActionPlan(d, u.op, u.arg)
        BY <1>2, <1>4 DEF P!RulesPlans
    <2>2. meanings = {d}
        BY <2>1, TargetIsMeant
    <2>3. meant = d.id
        BY <1>2, <2>2
    <2> HIDE DEF house, meanings
    <2> QED BY <1>2, <2>1, <2>3 DEF P!ActionPlan
<1> QED BY <1>3, <1>4

\* What the rules carry out by themselves is done to the one device the words can mean, whatever
\* the house's devices are called and whatever is said (rules.go:57-61, phone_rules.go:53).
THEOREM RulesActOnMeant == Spec => []ActsOnMeant
<1>1. Init => ActsOnMeant
    BY MeantStarts
<1>2. ActsOnMeant /\ [Next]_vars => ActsOnMeant'
    <2> SUFFICES ASSUME ActsOnMeant, [Next]_vars PROVE ActsOnMeant'
        OBVIOUS
    <2>1. UNCHANGED plan /\ (UNCHANGED heard \/ heard' = NoWords)
        <3>1. CASE UNCHANGED vars
            BY <3>1 DEF vars, requestVars
        <3>2. CASE Handler
            BY <3>2 DEF Handler, Start, StartAction, EndAction, Finish
        <3>3. CASE Drivers \/ World \/ Interrupted
            BY <3>3 DEF Drivers, World, Interrupted, requestVars
        <3> QED BY <3>1, <3>2, <3>3 DEF Next
    <2> QED BY <2>1 DEF ActsOnMeant, NoWords
<1> QED BY <1>1, <1>2, PTL DEF Spec

----------------------------------------------------------------------------
(***************************************************************************)
(* Playback.                                                               *)
(***************************************************************************)
Elems(s) == {s[i] : i \in DOMAIN s}

LEMMA ElemsAppend ==
    ASSUME NEW s, IsSeq(s), NEW x
    PROVE  IsSeq(Append(s, x)) /\ Elems(Append(s, x)) \subseteq Elems(s) \cup {x}
<1> DEFINE T == Elems(s) \cup {x}
           t == Append(s, x)
<1>1. s \in Seq(T) /\ x \in T
    BY DEF IsSeq, Elems
<1>2. t \in Seq(T)
    <2> HIDE DEF T
    <2> QED BY <1>1
<1>3. \A i \in DOMAIN t : t[i] \in T
    <2> HIDE DEF T, t
    <2> QED BY <1>2
<1>4. IsSeq(t)
    <2> HIDE DEF T, t
    <2> QED BY <1>2 DEF IsSeq
<1> QED BY <1>3, <1>4 DEF Elems

LEMMA ElemsTail ==
    ASSUME NEW s, IsSeq(s), s # <<>>
    PROVE  IsSeq(Tail(s)) /\ Elems(Tail(s)) \subseteq Elems(s) /\ Head(s) \in Elems(s)
<1> DEFINE T == Elems(s)
           t == Tail(s)
<1>1. s \in Seq(T)
    BY DEF IsSeq, Elems
<1>2. t \in Seq(T) /\ Head(s) \in T
    <2> HIDE DEF T
    <2> QED BY <1>1
<1>3. \A i \in DOMAIN t : t[i] \in T
    <2> HIDE DEF T, t
    <2> QED BY <1>2
<1>4. IsSeq(t)
    <2> HIDE DEF T, t
    <2> QED BY <1>2 DEF IsSeq
<1> QED BY <1>2, <1>3, <1>4 DEF Elems

IsPlayback(p) ==
    /\ p = [on |-> p.on, playing |-> p.playing, track |-> p.track, volume |-> p.volume]
    /\ p.volume \in Int

\* An order respects whoever has playback, unless somebody took it since the look it was given on.
Fair(o) ==
    /\ o.looked \in Nat /\ o.looked <= moves
    /\ o.for \in Speakers
    /\ o.volume \in Int
    /\ o.op = o.by \/ (o.op = "connect" /\ o.by \notin {"pause"} \cup VolumeOps)
    /\ o.looked = moves /\ playback.on = Other => o.op = "connect" /\ ~LeavesOthers(o.by)

\* The look that the driver goes on with is of the account as it was then.
Looked(c) ==
    /\ c.at \in {"connect", "command"} => c.seen.moves \in Nat /\ c.seen.moves <= moves /\ c.seen.volume \in Int
    /\ c.at = "connect" =>
         c.op \notin {"pause"} \cup VolumeOps /\ (c.seen.moves = moves /\ playback.on = Other => ~LeavesOthers(c.op))
    /\ c.at = "command" => (c.seen.moves = moves => playback.on # Other)
    /\ c.at = "check" => c.seen.volume \in Int /\ (c.op = "volume" => c.arg \in 0 .. 10)

PlaybackInv ==
    /\ IsCall(call)
    /\ IsPlayback(playback) /\ moves \in Nat
    /\ IsSeq(orders) /\ \A o \in Elems(orders) : Fair(o)
    /\ Looked(call)
    /\ PlaybackRespected

LEMMA PlaybackStarts == Init => PlaybackInv
<1> SUFFICES ASSUME Init PROVE PlaybackInv
    OBVIOUS
<1>1. IsCall(call) /\ Looked(call)
    BY CallIs DEF Init, Looked
<1>2. /\ playback \in [on : Speakers \cup {Other, "none"}, playing : BOOLEAN, track : {1}, volume : {95}]
      /\ orders = <<>> /\ moves = 0 /\ reached = {}
    BY DEF Init, SpotifyInit
<1>3. IsPlayback(playback)
    BY <1>2 DEF IsPlayback
<1>4. IsSeq(orders) /\ Elems(orders) = {}
    BY <1>2 DEF IsSeq, Elems
<1> QED BY <1>1, <1>2, <1>3, <1>4 DEF PlaybackInv, PlaybackRespected

LEMMA LookIs ==
    ASSUME IsCall(call), IsPlayback(playback), moves \in Nat, NEW step, Look(step)
    PROVE  /\ IsCall(call') /\ Same(call, call') /\ call'.at = step /\ call'.sent = call.sent
           /\ call'.seen.moves = moves /\ call'.seen.volume \in Int
           /\ call'.seen.volume = Report.volume /\ call'.seen.on = Report.on
<1> DEFINE what == [on |-> Report.on, track |-> Report.track, volume |-> Report.volume, moves |-> moves]
<1>1. IsPlayback(Report)
    <2>1. IsPlayback(Silent)
        BY DEF IsPlayback, Silent
    <2> QED BY <2>1 DEF Report
<1>2. what.moves = moves /\ what.volume = Report.volume /\ what.track = Report.track /\ what.on = Report.on
    OBVIOUS
<1>3. Saw(step, what)
    BY DEF Look
<1> HIDE DEF what
<1>4. Moves(step) /\ call'.seen = what /\ call'.sent = call.sent
    BY <1>3, Movements
<1> QED BY <1>1, <1>2, <1>4 DEF IsPlayback, Moves

LEMMA SpotifyLooks ==
    ASSUME PlaybackInv, SpotifyLook
    PROVE  IsCall(call') /\ UNCHANGED spotifyVars /\ Looked(call)'
<1>1. /\ UNCHANGED spotifyVars /\ call.device \in Speakers /\ IsCall(call) /\ IsPlayback(playback) /\ moves \in Nat
    BY DEF SpotifyLook, At, PlaybackInv
<1>2. UNCHANGED playback /\ UNCHANGED moves
    BY <1>1 DEF spotifyVars
<1>3. \/ Fails
      \/ /\ Look("connect") /\ call.op \notin {"pause"} \cup VolumeOps
         /\ playback.on = Other => ~LeavesOthers(call.op)
      \/ Look("command") /\ playback.on # Other
    <2> DEFINE refused == \/ call.op \in VolumeOps /\ ~Active
                          \/ Active /\ ~OnTarget /\ LeavesOthers(call.op)
    <2>1. \/ Fails
          \/ ~refused /\ Look(IF ~OnTarget /\ NeedsTarget(call.op) THEN "connect" ELSE "command")
        BY DEF SpotifyLook
    <2>2. CASE ~refused /\ Look(IF ~OnTarget /\ NeedsTarget(call.op) THEN "connect" ELSE "command")
        <3>1. Other # "none" /\ (OnTarget => playback.on # Other)
            BY <1>1, SpotifyAssumption DEF OnTarget, Other
        <3>2. CASE ~OnTarget /\ NeedsTarget(call.op)
            BY <2>2, <3>1, <3>2 DEF NeedsTarget, Active, LeavesOthers, VolumeOps
        <3>3. CASE OnTarget \/ ~NeedsTarget(call.op)
            BY <2>2, <3>1, <3>3 DEF NeedsTarget, Active, LeavesOthers
        <3> QED BY <3>2, <3>3
    <2> QED BY <2>1, <2>2
<1>4. CASE Fails
    BY <1>1, <1>4, Movements DEF Moves, Looked
<1>5. CASE /\ Look("connect") /\ call.op \notin {"pause"} \cup VolumeOps
           /\ playback.on = Other => ~LeavesOthers(call.op)
    <2>1. /\ IsCall(call') /\ Same(call, call') /\ call'.at = "connect"
          /\ call'.seen.moves = moves /\ call'.seen.volume \in Int
        BY <1>1, <1>5, LookIs
    <2> QED BY <1>1, <1>2, <1>5, <2>1 DEF Looked, Same, LeavesOthers
<1>6. CASE Look("command") /\ playback.on # Other
    <2>1. /\ IsCall(call') /\ Same(call, call') /\ call'.at = "command"
          /\ call'.seen.moves = moves /\ call'.seen.volume \in Int
        BY <1>1, <1>6, LookIs
    <2> QED BY <1>1, <1>2, <1>6, <2>1 DEF Looked, Same
<1> QED BY <1>1, <1>3, <1>4, <1>5, <1>6

LEMMA SpotifyWaits ==
    ASSUME PlaybackInv, WaitForDevice
    PROVE  IsCall(call') /\ UNCHANGED spotifyVars /\ Looked(call)'
<1>1. /\ UNCHANGED spotifyVars /\ call.device \in Speakers /\ IsCall(call) /\ IsPlayback(playback) /\ moves \in Nat
      /\ Looked(call) /\ call.at = "wait"
    BY DEF WaitForDevice, At, PlaybackInv
<1>2. UNCHANGED playback /\ UNCHANGED moves
    BY <1>1 DEF spotifyVars
<1>3. CASE UNCHANGED call
    BY <1>1, <1>2, <1>3 DEF Looked
<1>4. CASE OnTarget /\ Look("command")
    <2>1. /\ IsCall(call') /\ Same(call, call') /\ call'.at = "command"
          /\ call'.seen.moves = moves /\ call'.seen.volume \in Int
        BY <1>1, <1>4, LookIs
    <2>2. playback.on # Other
        BY <1>1, <1>4, SpotifyAssumption DEF OnTarget
    <2> QED BY <1>1, <1>2, <2>1, <2>2 DEF Looked, Same
<1> QED BY <1>1, <1>3, <1>4 DEF WaitForDevice

LEMMA VolumeIs ==
    ASSUME IsCall(call), call.seen.volume \in Int, ~CommandArgsFail(call)
    PROVE  Volume(call) \in Int
<1>1. CASE call.op = "volume"
    BY <1>1 DEF Volume, CommandArgsFail
<1>2. CASE call.op = "volume_up"
    <2>1. PICK v \in Int : v = call.seen.volume + 10
        OBVIOUS
    <2>2. Min({100, v}) \in {100, v}
        BY DEF Min
    <2> QED BY <1>2, <2>1, <2>2 DEF Volume
<1>3. CASE call.op = "volume_down"
    <2>1. PICK v \in Int : v = call.seen.volume - 10
        OBVIOUS
    <2>2. Max({0, v}) \in {0, v}
        BY DEF Max
    <2> QED BY <1>3, <2>1, <2>2 DEF Volume
<1>4. CASE call.op \notin {"volume", "volume_up", "volume_down"}
    BY <1>4 DEF Volume
<1> QED BY <1>1, <1>2, <1>3, <1>4

\* A command goes on from what the driver saw, and the order it leaves is fair.
LEMMA SpotifyCommands ==
    ASSUME PlaybackInv, Connect \/ Command
    PROVE  PlaybackInv'
<1>1. /\ call.device \in Speakers /\ IsCall(call) /\ Looked(call) /\ call.at \in {"connect", "command"}
      /\ UNCHANGED <<playback, moves, reached>>
    BY DEF Connect, Command, At, PlaybackInv
<1>2. UNCHANGED playback /\ UNCHANGED moves /\ UNCHANGED reached
    BY <1>1
<1>3. ASSUME NEW x, orders' = Append(orders, x), Fair(x) PROVE IsSeq(orders') /\ \A o \in Elems(orders') : Fair(o)'
    <2>1. IsSeq(orders) /\ \A o \in Elems(orders) : Fair(o)
        BY DEF PlaybackInv
    <2>2. IsSeq(orders') /\ Elems(orders') \subseteq Elems(orders) \cup {x}
        BY <1>3, <2>1, ElemsAppend
    <2>3. \A o : Fair(o) => Fair(o)'
        BY <1>2 DEF Fair
    <2> QED BY <1>3, <2>1, <2>2, <2>3
<1>4. IsPlayback(playback)' /\ moves' \in Nat /\ PlaybackRespected'
    BY <1>2 DEF PlaybackInv, IsPlayback, PlaybackRespected
<1>5. IsSeq(orders) /\ \A o \in Elems(orders) : Fair(o)
    BY DEF PlaybackInv
<1>6. \A o : Fair(o) => Fair(o)'
    BY <1>2 DEF Fair
<1>7. CASE Connect
    <2> DEFINE x == Order("connect", 0)
    <2>1. call.at = "connect" /\ orders' = Append(orders, x)
        BY <1>7 DEF Connect, At
    <2>2. /\ x.op = "connect" /\ x.for = call.device /\ x.by = call.op /\ x.volume = 0
          /\ x.looked = call.seen.moves
        BY DEF Order
    <2> HIDE DEF x
    <2>3. Fair(x)
        BY <1>1, <2>1, <2>2 DEF Fair, Looked
    <2>4. IsCall(call') /\ call'.at \in {"wait", "failed"}
        BY <1>1, <1>7, Movements DEF Connect, Moves
    <2>5. Looked(call)'
        BY <2>4 DEF Looked
    <2> QED BY <1>3, <1>4, <2>1, <2>3, <2>4, <2>5 DEF PlaybackInv
<1>8. CASE Command
    <2>1. call.at = "command"
        BY <1>8 DEF Command, At
    <2>2. CASE CommandArgsFail(call)
        <3>1. Fails /\ UNCHANGED orders
            BY <1>8, <2>2 DEF Command
        <3>2. IsCall(call') /\ Looked(call)'
            BY <1>1, <3>1, Movements DEF Moves, Looked
        <3>3. IsSeq(orders') /\ \A o \in Elems(orders') : Fair(o)'
            BY <1>5, <1>6, <3>1
        <3> QED BY <1>4, <3>2, <3>3 DEF PlaybackInv
    <2>3. CASE ~CommandArgsFail(call)
        <3> DEFINE x == Order(call.op, Volume(call))
        <3>1. orders' = Append(orders, x) /\ (Sent("check") \/ Fails)
            BY <1>8, <2>3 DEF Command
        <3>2. /\ x.op = call.op /\ x.for = call.device /\ x.by = call.op /\ x.volume = Volume(call)
              /\ x.looked = call.seen.moves
            BY DEF Order
        <3> HIDE DEF x
        <3>3. call.seen.volume \in Int
            BY <1>1, <2>1 DEF Looked
        <3>4. Fair(x)
            BY <1>1, <2>1, <2>3, <3>2, <3>3, VolumeIs DEF Fair, Looked
        <3>5. IsCall(call') /\ Same(call, call') /\ call'.at \in {"check", "failed"} /\ call'.seen = call.seen
            BY <1>1, <3>1, Movements DEF Moves
        <3>6. call.op = "volume" => call.arg \in 0 .. 10
            BY <2>3 DEF CommandArgsFail
        <3>7. Looked(call)'
            BY <3>3, <3>5, <3>6 DEF Looked, Same
        <3> QED BY <1>3, <1>4, <3>1, <3>4, <3>5, <3>7 DEF PlaybackInv
    <2> QED BY <2>2, <2>3
<1> QED BY <1>7, <1>8

\* The account is as it was, and so is what the driver saw of it, or it is not going on from there.
LEMMA PlaybackKept ==
    ASSUME PlaybackInv, UNCHANGED spotifyVars, IsCall(call'),
           Looked(call)' \/ call'.at \notin {"connect", "command", "check"} \/ UNCHANGED call
    PROVE  PlaybackInv'
<1>1. UNCHANGED playback /\ UNCHANGED orders /\ UNCHANGED moves /\ UNCHANGED reached
    BY DEF spotifyVars
<1>2. IsPlayback(playback)' /\ moves' \in Nat /\ PlaybackRespected' /\ IsSeq(orders)'
    BY <1>1 DEF PlaybackInv, IsPlayback, PlaybackRespected
<1>3. \A o \in Elems(orders') : Fair(o)'
    BY <1>1 DEF PlaybackInv, Fair
<1>4. Looked(call)'
    BY <1>1 DEF PlaybackInv, Looked
<1> QED BY <1>2, <1>3, <1>4 DEF PlaybackInv

\* What an order can make of playback: a connection brings it to the device it is for,
\* anything else leaves it where it is.
LEMMA CarryIs ==
    ASSUME IsPlayback(playback), NEW o, o.volume \in Int, NEW p \in Carry(o)
    PROVE  /\ IsPlayback(p)
           /\ p.on = IF o.op = "connect" THEN o.for ELSE playback.on
           /\ o.op = "pause" => ~p.playing
           /\ o.op \in VolumeOps => p.playing = playback.playing
<1>1. CASE o.op = "connect"
    <2>1. PICK q : p = [playback EXCEPT !.on = o.for, !.playing = q, !.track = 1]
        BY <1>1 DEF Carry
    <2> QED BY <1>1, <2>1 DEF IsPlayback, VolumeOps
<1>2. CASE o.op \in {"play", "resume"}
    <2>1. p = [playback EXCEPT !.playing = TRUE]
        BY <1>2 DEF Carry
    <2> QED BY <1>2, <2>1 DEF IsPlayback, VolumeOps
<1>3. CASE o.op = "pause"
    <2>1. p = [playback EXCEPT !.playing = FALSE]
        BY <1>3 DEF Carry
    <2> QED BY <1>3, <2>1 DEF IsPlayback, VolumeOps
<1>4. CASE o.op \in {"next", "previous"}
    <2>1. PICK t : p = [playback EXCEPT !.track = t]
        BY <1>4 DEF Carry
    <2> QED BY <1>4, <2>1 DEF IsPlayback, VolumeOps
<1>5. CASE o.op \notin {"connect", "play", "resume", "pause", "next", "previous"}
    <2>1. p = [playback EXCEPT !.volume = o.volume]
        BY <1>5 DEF Carry
    <2> QED BY <1>5, <2>1 DEF IsPlayback
<1> QED BY <1>1, <1>2, <1>3, <1>4, <1>5

LEMMA OrdersEnd ==
    ASSUME PlaybackInv, OrderEnds
    PROVE  PlaybackInv'
<1>1. orders # <<>> /\ orders' = Tail(orders) /\ UNCHANGED call /\ UNCHANGED moves
    BY DEF OrderEnds, callVars
<1> DEFINE o == Head(orders)
<1>2. IsSeq(orders') /\ Elems(orders') \subseteq Elems(orders) /\ o \in Elems(orders)
    BY <1>1, ElemsTail DEF PlaybackInv
<1>3. /\ Fair(o) /\ IsPlayback(playback) /\ moves \in Nat /\ \A x \in Elems(orders) : Fair(x)
      /\ IsCall(call) /\ Looked(call) /\ PlaybackRespected
    BY <1>2 DEF PlaybackInv
<1>4. \/ /\ playback' \in Carry(o)
         /\ reached' = reached \cup
                {[op |-> o.op, by |-> o.by, hit |-> IF o.op = "connect" THEN playback.on ELSE playback'.on,
                  for |-> o.for, moved |-> moves > o.looked,
                  starts |-> playback'.playing /\ ~playback.playing]}
      \/ UNCHANGED playback /\ UNCHANGED reached
    BY DEF OrderEnds
<1> HIDE DEF o
<1>5. /\ IsPlayback(playback')
      /\ playback'.on = Other => playback.on = Other
    BY <1>3, <1>4, CarryIs, SpotifyAssumption DEF Fair
<1>6. \A x \in Elems(orders') : Fair(x)'
    BY <1>1, <1>2, <1>3, <1>5 DEF Fair
<1>7. Looked(call)'
    BY <1>1, <1>3, <1>5 DEF Looked
<1>8. PlaybackRespected'
    <2>1. CASE UNCHANGED playback /\ UNCHANGED reached
        BY <1>3, <2>1 DEF PlaybackRespected
    <2>2. CASE /\ playback' \in Carry(o)
               /\ reached' = reached \cup
                    {[op |-> o.op, by |-> o.by, hit |-> IF o.op = "connect" THEN playback.on ELSE playback'.on,
                      for |-> o.for, moved |-> moves > o.looked,
                      starts |-> playback'.playing /\ ~playback.playing]}
        <3> DEFINE later == moves > o.looked
                   music == playback'.playing /\ ~playback.playing
                   hit == IF o.op = "connect" THEN playback.on ELSE playback'.on
                   r == [op |-> o.op, by |-> o.by, hit |-> hit, for |-> o.for, moved |-> later, starts |-> music]
        <3>1. reached' = reached \cup {r}
            BY <2>2
        <3>2. hit = Other /\ (LeavesOthers(o.by) \/ o.op # "connect") => later
            <4>1. hit = playback.on
                BY <1>3, <2>2, CarryIs DEF Fair
            <4> QED BY <1>3, <4>1 DEF Fair, LeavesOthers
        <3>3. o.by \in {"pause"} \cup VolumeOps => ~music
            <4> SUFFICES ASSUME o.by \in {"pause"} \cup VolumeOps PROVE ~music
                OBVIOUS
            <4>1. o.op = o.by
                BY <1>3 DEF Fair
            <4> QED BY <1>3, <2>2, <4>1, CarryIs DEF Fair
        <3> HIDE DEF later, music, hit
        <3>4. /\ r.op = o.op /\ r.by = o.by /\ r.hit = hit
              /\ r.moved = later /\ r.starts = music
            OBVIOUS
        <3> HIDE DEF r
        <3>5. r.hit = Other /\ (LeavesOthers(r.by) \/ r.op # "connect") => r.moved
            BY <3>2, <3>4
        <3>6. r.by \in {"pause"} \cup VolumeOps => ~r.starts
            BY <3>3, <3>4
        <3> QED BY <1>3, <3>1, <3>5, <3>6 DEF PlaybackRespected
    <2> QED BY <1>4, <2>1, <2>2
<1> QED BY <1>1, <1>2, <1>3, <1>5, <1>6, <1>7, <1>8 DEF PlaybackInv

LEMMA SpotifyPeopleMove ==
    ASSUME PlaybackInv, NEW d, SpotifyPeople(d)
    PROVE  PlaybackInv'
<1>1. UNCHANGED call /\ UNCHANGED orders /\ UNCHANGED reached
    BY DEF SpotifyPeople, Touched
<1>2. /\ IsPlayback(playback) /\ moves \in Nat /\ \A x \in Elems(orders) : Fair(x)
      /\ IsCall(call) /\ Looked(call) /\ PlaybackRespected /\ IsSeq(orders)
    BY DEF PlaybackInv
<1>3. /\ IsPlayback(playback')
      /\ moves' = moves + 1 \/ (UNCHANGED moves /\ playback'.on = playback.on)
    <2>1. CASE /\ playback' \in {[playback EXCEPT !.on = o, !.playing = o # "none", !.track = 1] : o \in {d, Other, "none"} \ {playback.on}}
               /\ moves' = moves + 1
        <3>1. PICK o : playback' = [playback EXCEPT !.on = o, !.playing = o # "none", !.track = 1]
            BY <2>1
        <3> QED BY <1>2, <2>1, <3>1 DEF IsPlayback
    <2>2. CASE /\ playback' \in {[playback EXCEPT !.playing = ~@], [playback EXCEPT !.volume = 50]}
               /\ UNCHANGED moves
        BY <1>2, <2>2 DEF IsPlayback
    <2> QED BY <2>1, <2>2 DEF SpotifyPeople
<1>4. Looked(call)'
    BY <1>1, <1>2, <1>3 DEF Looked
<1>5. \A x \in Elems(orders') : Fair(x)'
    BY <1>1, <1>2, <1>3 DEF Fair
<1> QED BY <1>1, <1>2, <1>3, <1>4, <1>5 DEF PlaybackInv, PlaybackRespected

LEMMA PlaybackRuns == PlaybackInv /\ [Next]_vars => PlaybackInv'
<1> SUFFICES ASSUME PlaybackInv, [Next]_vars PROVE PlaybackInv'
    OBVIOUS
<1>1. IsCall(call)
    BY DEF PlaybackInv
<1>2. CASE UNCHANGED vars
    BY <1>1, <1>2, PlaybackKept DEF vars, callVars, worldVars
<1>3. CASE Handler
    <2>1. UNCHANGED spotifyVars
        BY <1>3 DEF Handler, Start, StartAction, EndAction, Finish, worldVars
    <2>2. UNCHANGED call \/ (IsCall(call') /\ call'.at \in {"start", "idle"})
        BY <1>3, CallIs DEF Handler, Start, StartAction, EndAction, Finish, callVars
    <2> QED BY <1>1, <2>1, <2>2, PlaybackKept
<1>4. CASE Drivers
    <2>1. CASE SpotifyStep
        <3>1. CASE SpotifyLook
            BY <3>1, SpotifyLooks, PlaybackKept
        <3>2. CASE WaitForDevice
            BY <3>2, SpotifyWaits, PlaybackKept
        <3>3. CASE Connect \/ Command
            BY <3>3, SpotifyCommands
        <3>4. CASE WaitForApplied
            <4>1. UNCHANGED spotifyVars /\ (Returns(Report) \/ UNCHANGED call)
                BY <3>4 DEF WaitForApplied
            <4> QED BY <1>1, <4>1, Movements, PlaybackKept DEF Moves
        <3> QED BY <2>1, <3>1, <3>2, <3>3, <3>4 DEF SpotifyStep
    <2>2. CASE (HaStep \/ PhoneStep \/ LocalStep \/ CallFails) /\ UNCHANGED spotifyVars
        <3>1. CASE HaStep
            BY <1>1, <2>2, <3>1, HaMoves, PlaybackKept DEF Moves
        <3>2. CASE PhoneStep
            BY <1>1, <2>2, <3>2, PhoneMoves, PlaybackKept DEF Moves
        <3>3. CASE LocalStep
            BY <1>1, <2>2, <3>3, LocalMoves, PlaybackKept DEF Moves
        <3>4. CASE CallFails
            BY <1>1, <2>2, <3>4, Movements, PlaybackKept DEF Moves, CallFails
        <3> QED BY <2>2, <3>1, <3>2, <3>3, <3>4
    <2> QED BY <1>4, <2>1, <2>2 DEF Drivers, worldVars
<1>5. CASE World
    <2>1. UNCHANGED call
        BY <1>5, OthersMove
    <2>2. CASE UNCHANGED spotifyVars
        BY <1>1, <2>1, <2>2, PlaybackKept
    <2>3. CASE OrderEnds
        BY <2>3, OrdersEnd
    <2>4. ASSUME NEW d, People(d) PROVE SpotifyPeople(d) \/ UNCHANGED spotifyVars
        BY <2>4 DEF People
    <2> QED BY <1>5, <2>2, <2>3, <2>4, SpotifyPeopleMove DEF World
<1>6. CASE Interrupted
    BY <1>1, <1>6, OthersMove, PlaybackKept DEF Interrupted, worldVars
<1> QED BY <1>2, <1>3, <1>4, <1>5, <1>6 DEF Next

\* Voice takes playback from nobody: whatever the plan, however many others use the account and
\* however late the daemon's orders take effect, a pause, a skip or a volume change reaches
\* another device only when somebody moved playback there after Voice had looked, and a pause or
\* a volume change never starts music (spotify.go:142-145, 186-187).
THEOREM OthersKeepPlayback == Spec => []PlaybackRespected
<1>1. Init => PlaybackInv
    BY PlaybackStarts
<1>2. PlaybackInv /\ [Next]_vars => PlaybackInv'
    BY PlaybackRuns
<1>3. PlaybackInv => PlaybackRespected
    BY DEF PlaybackInv
<1> QED BY <1>1, <1>2, <1>3, PTL DEF Spec

----------------------------------------------------------------------------
(***************************************************************************)
(* The effect: Home Assistant.                                             *)
(***************************************************************************)
CallInv ==
    /\ IsCall(call)
    /\ call.at # "idle" => call.device \in Registry /\ Supports(call.device, call.op)
    /\ call.at \in {"start", "connection"} => ~call.sent

HaOps == {"on", "off", "toggle", "brightness", "color", "temperature", "hvac_mode"}

IsEntity(e) ==
    /\ e = [state |-> e.state, brightness |-> e.brightness, color |-> e.color, temperature |-> e.temperature]
    /\ e.brightness \in Int

IsService(s) ==
    \/ s.name \in {"on", "off"} /\ s.data = <<>>
    \/ s.name = "on" /\ \E level \in Int : s.data = <<"brightness", level>>
    \/ s.name = "on" /\ \E color : s.data = <<"color", color>>
    \/ s.name \in {"temperature", "hvac_mode"}

\* A command that was not refused for what the driver saw.
Accepted(c) ==
    /\ c.op \in HaOps
    /\ c.op = "toggle" => c.seen.state \in {"on", "off"}
    /\ c.op = "brightness" => c.arg \in 0 .. 100

HomeInv ==
    /\ DOMAIN entity = HaDevices /\ entity = [d \in HaDevices |-> entity[d]]
    /\ \A d \in HaDevices : IsEntity(entity[d])
    /\ \A s \in services : s[1] \in HaDevices /\ IsService(s[2])
    /\ call.at \in {"post", "verify"} => Accepted(call)

LEMMA Rounded ==
    ASSUME NEW b \in Int, NEW level \in 0 .. 100, b - Round255(level) \in -1 .. 1
    PROVE  100 * b - 255 * level \in -150 .. 150
<1>1. PICK r \in Int : r = Round255(level) /\ 200 * r <= 510 * level + 100 /\ 510 * level + 100 < 200 * r + 200
    BY DEF Round255
<1>2. b - r \in -1 .. 1
    BY <1>1
<1> QED BY <1>1, <1>2

\* What the check accepts is what was asked for.
LEMMA MatchesGoal ==
    ASSUME call.device \in HaDevices, Accepted(call), IsEntity(entity[call.device]),
           Matches(call, entity[call.device])
    PROVE  HaGoal(call)
<1> DEFINE e == entity[call.device]
<1>1. IsEntity(e) /\ Matches(call, e)
    OBVIOUS
<1> SUFFICES CASE call.op \in {"on", "off", "hvac_mode"} -> e.state = (IF call.op = "hvac_mode" THEN call.arg ELSE call.op)
               [] call.op = "toggle" -> {e.state, call.seen.state} = {"on", "off"}
               [] call.op = "brightness" ->
                    \/ e.state = "off" /\ call.arg = 0
                    \/ e.state = "on" /\ call.arg > 0 /\ 100 * e.brightness - 255 * call.arg \in -150 .. 150
               [] call.op = "color" -> e.state = "on" /\ e.color = call.arg
               [] call.op = "temperature" -> e.temperature = call.arg
               [] OTHER -> TRUE
    BY DEF HaGoal
<1> HIDE DEF e
<1>2. CASE call.op \in {"on", "off"}
    BY <1>1, <1>2 DEF Matches, Target
<1>3. CASE call.op = "toggle"
    BY <1>1, <1>3 DEF Matches, Target, Opposite, Accepted
<1>4. CASE call.op = "brightness"
    <2>1. call.arg \in 0 .. 100 /\ e.brightness \in Int
        BY <1>1, <1>4 DEF Accepted, IsEntity
    <2>2. \/ call.arg = 0 /\ e.state = "off"
          \/ call.arg # 0 /\ e.state = "on" /\ e.brightness - Round255(call.arg) \in -1 .. 1
        BY <1>1, <1>4 DEF Matches
    <2>3. CASE call.arg = 0 /\ e.state = "off"
        BY <1>4, <2>3
    <2>4. CASE call.arg # 0 /\ e.state = "on" /\ e.brightness - Round255(call.arg) \in -1 .. 1
        <3>1. 100 * e.brightness - 255 * call.arg \in -150 .. 150
            BY <2>1, <2>4, Rounded
        <3>2. call.arg > 0
            BY <2>1, <2>4
        <3> QED BY <1>4, <2>4, <3>1, <3>2
    <2> QED BY <2>2, <2>3, <2>4
<1>5. CASE call.op \in {"color", "temperature", "hvac_mode"}
    BY <1>1, <1>5 DEF Matches
<1> QED BY <1>2, <1>3, <1>4, <1>5 DEF Accepted, HaOps

LEMMA HaGoalSame ==
    ASSUME Same(call, call'), call'.seen = call.seen, UNCHANGED entity, HaGoal(call)
    PROVE  HaGoal(call)'
BY DEF HaGoal, Same

LEMMA HaSupported ==
    ASSUME CallInv, call.at # "idle", call.device \in HaDevices
    PROVE  call.op \in HaOps \cup {"read"}
<1>1. Capabilities(call.device) = HaCapabilities(call.device)
    BY NamesAssumption DEF Capabilities
<1>2. call.op \in HaCapabilities(call.device)
    BY <1>1 DEF CallInv, Supports
<1> QED BY <1>2 DEF HaCapabilities, AllowedOps, HaOps

LEMMA ServiceIs ==
    ASSUME Accepted(call) PROVE IsService(Service(call, call.seen))
<1>1. CASE call.op \in {"on", "off", "toggle"}
    <2>1. Service(call, call.seen) = [name |-> Target(call.op, call.seen), data |-> <<>>]
        BY <1>1 DEF Service
    <2>2. Target(call.op, call.seen) \in {"on", "off"}
        BY <1>1 DEF Target, Opposite
    <2> QED BY <2>1, <2>2 DEF IsService
<1>2. CASE call.op = "brightness"
    <2>1. Service(call, call.seen) = [name |-> "on", data |-> <<"brightness", call.arg>>] /\ call.arg \in Int
        BY <1>2 DEF Service, Accepted
    <2> QED BY <2>1 DEF IsService
<1>3. CASE call.op = "color"
    <2>1. Service(call, call.seen) = [name |-> "on", data |-> <<"color", call.arg>>]
        BY <1>3 DEF Service
    <2> QED BY <2>1 DEF IsService
<1>4. CASE call.op = "temperature"
    <2>1. Service(call, call.seen) = [name |-> "temperature", data |-> <<"temperature", call.arg>>]
        BY <1>4 DEF Service
    <2> QED BY <2>1 DEF IsService
<1>5. CASE call.op = "hvac_mode"
    <2>1. Service(call, call.seen) = [name |-> "hvac_mode", data |-> <<"state", call.arg>>]
        BY <1>5 DEF Service
    <2> QED BY <2>1 DEF IsService
<1> QED BY <1>1, <1>2, <1>3, <1>4, <1>5 DEF Accepted, HaOps

LEMMA CarriedIs ==
    ASSUME NEW e, IsEntity(e), NEW s, IsService(s)
    PROVE  IsEntity(Carried(e, s))
<1>1. CASE s.name = "off"
    <2>1. Carried(e, s) = [e EXCEPT !.state = "off"]
        BY <1>1 DEF Carried
    <2> QED BY <2>1 DEF IsEntity
<1>2. CASE s.name = "on" /\ s.data = <<>>
    <2>1. Carried(e, s) = [e EXCEPT !.state = "on"]
        BY <1>2 DEF Carried
    <2> QED BY <2>1 DEF IsEntity
<1>3. CASE s.name = "on" /\ \E level \in Int : s.data = <<"brightness", level>>
    <2>1. PICK level \in Int : s.data = <<"brightness", level>>
        BY <1>3
    <2>2. s.data # <<>> /\ s.data[1] = "brightness" /\ s.data[2] = level
        BY <2>1
    <2>3. Carried(e, s) \in {[e EXCEPT !.state = "off"], [e EXCEPT !.state = "on", !.brightness = (255 * level) \div 100]}
        BY <1>3, <2>2 DEF Carried
    <2>4. (255 * level) \div 100 \in Int
        OBVIOUS
    <2> QED BY <2>3, <2>4 DEF IsEntity
<1>4. CASE s.name = "on" /\ \E color : s.data = <<"color", color>>
    <2>1. PICK color : s.data = <<"color", color>>
        BY <1>4
    <2>2. s.data # <<>> /\ s.data[1] = "color" /\ s.data[2] = color
        BY <2>1
    <2>3. Carried(e, s) = [e EXCEPT !.state = "on", !.color = s.data[2]]
        BY <1>4, <2>2 DEF Carried
    <2> QED BY <2>3 DEF IsEntity
<1>5. CASE s.name = "temperature"
    <2>1. Carried(e, s) = [e EXCEPT !.temperature = s.data[2]]
        BY <1>5 DEF Carried
    <2> QED BY <2>1 DEF IsEntity
<1>6. CASE s.name = "hvac_mode"
    <2>1. Carried(e, s) = [e EXCEPT !.state = s.data[2]]
        BY <1>6 DEF Carried
    <2> QED BY <2>1 DEF IsEntity
<1> QED BY <1>1, <1>2, <1>3, <1>4, <1>5, <1>6 DEF IsService

\* The command goes on, and is not at its start any more.
LEMMA CallGoesOn ==
    ASSUME CallInv, call.at # "idle", NEW step, Moves(step), step \notin {"start", "connection"} \/ ~call'.sent
    PROVE  CallInv'
BY DEF CallInv, Moves, Same

\* A call that reports success after its command has its goal.
Succeeds == call'.at = "ok" /\ call'.sent => Goal(call)'

LEMMA HomeKept ==
    ASSUME HomeInv, UNCHANGED haVars, UNCHANGED call \/ call'.at \notin {"post", "verify"} \/ Accepted(call')
    PROVE  HomeInv'
<1>1. UNCHANGED entity /\ UNCHANGED services
    BY DEF haVars
<1>2. call'.at \in {"post", "verify"} => Accepted(call')
    BY DEF HomeInv
<1> QED BY <1>1, <1>2 DEF HomeInv

LEMMA HaDeviceGoal ==
    ASSUME call.device \in HaDevices PROVE HaGoal(call) => Goal(call)
BY NamesAssumption DEF Goal

LEMMA HaEffect ==
    ASSUME CallInv, HomeInv, HaStep
    PROVE  CallInv' /\ HomeInv' /\ (UNCHANGED call \/ Succeeds)
<1>1. /\ IsCall(call) /\ call.device \in HaDevices /\ call.at \in {"start", "post", "verify"}
      /\ call.at = "start" => ~call.sent
    BY HaMoves DEF CallInv, HaStep, HaRead, HaLook, HaPost, HaVerify, At
<1>2. CallInv'
    BY <1>1, HaMoves, CallGoesOn DEF CallInv
<1>3. CASE HaRead
    <2>1. UNCHANGED haVars /\ (Returns(Snapshot(call.device)) \/ Fails) /\ call.at = "start"
        BY <1>3 DEF HaRead, At
    <2>2. call'.at \in {"ok", "failed"} /\ ~call'.sent
        BY <1>1, <2>1, Movements DEF Moves
    <2> QED BY <1>2, <2>1, <2>2, HomeKept DEF Succeeds
<1>4. CASE HaLook
    <2> DEFINE before == entity[call.device]
    <2>1. /\ UNCHANGED haVars /\ call.at = "start" /\ call.op # "read"
          /\ Fails \/ (Readable(call.device) /\ ~Refused(call.device, call, before) /\ Saw("post", before))
        BY <1>4 DEF HaLook, At
    <2>2. CASE Fails
        <3>1. call'.at = "failed"
            BY <1>1, <2>2, Movements DEF Moves
        <3> QED BY <1>2, <2>1, <3>1, HomeKept DEF Succeeds
    <2>3. CASE ~Refused(call.device, call, before) /\ Saw("post", before)
        <3>1. call'.at = "post" /\ Same(call, call') /\ call'.seen = before
            BY <1>1, <2>3, Movements DEF Moves
        <3>2. call.op \in HaOps
            BY <1>1, <2>1, HaSupported
        <3>3. call.op = "toggle" => before.state \in {"on", "off"}
            BY <2>3 DEF Refused
        <3>4. call.op = "brightness" => call.arg \in 0 .. 100
            BY <2>3 DEF Refused
        <3>5. Accepted(call')
            BY <3>1, <3>2, <3>3, <3>4 DEF Accepted, Same
        <3> QED BY <1>2, <2>1, <3>1, <3>5, HomeKept DEF Succeeds
    <2> QED BY <2>1, <2>2, <2>3
<1>5. CASE HaPost
    <2>1. /\ services' = services \cup {<<call.device, Service(call, call.seen)>>} /\ UNCHANGED entity
          /\ Sent("verify") \/ Fails
          /\ call.at = "post"
        BY <1>5 DEF HaPost, At
    <2>2. Accepted(call)
        BY <2>1 DEF HomeInv
    <2>3. /\ call'.at \in {"verify", "failed"} /\ Same(call, call') /\ call'.seen = call.seen
        BY <1>1, <2>1, Movements DEF Moves
    <2>4. Accepted(call')
        BY <2>2, <2>3 DEF Accepted, Same
    <2>5. \A s \in services' : s[1] \in HaDevices /\ IsService(s[2])
        <3> DEFINE x == Service(call, call.seen)
        <3>1. IsService(x)
            BY <2>2, ServiceIs
        <3> HIDE DEF x
        <3>2. services' = services \cup {<<call.device, x>>}
            BY <2>1 DEF x
        <3> QED BY <1>1, <3>1, <3>2 DEF HomeInv
    <2> QED BY <1>2, <2>1, <2>3, <2>4, <2>5 DEF HomeInv, Succeeds
<1>6. CASE HaVerify
    <2>1. /\ UNCHANGED haVars /\ call.at = "verify"
          /\ \/ Fails \/ UNCHANGED call
             \/ Matches(call, entity[call.device]) /\ Returns(Snapshot(call.device))
        BY <1>6 DEF HaVerify, At
    <2>2. CASE UNCHANGED call
        BY <1>2, <2>1, <2>2, HomeKept
    <2>3. CASE Fails
        <3>1. call'.at = "failed"
            BY <1>1, <2>3, Movements DEF Moves
        <3> QED BY <1>2, <2>1, <3>1, HomeKept DEF Succeeds
    <2>4. CASE Matches(call, entity[call.device]) /\ Returns(Snapshot(call.device))
        <3>1. Accepted(call) /\ IsEntity(entity[call.device])
            BY <1>1, <2>1 DEF HomeInv
        <3>2. HaGoal(call)
            BY <1>1, <2>4, <3>1, MatchesGoal
        <3>3. call'.at = "ok" /\ Same(call, call') /\ call'.seen = call.seen
            BY <1>1, <2>4, Movements DEF Moves
        <3>4. HaGoal(call)'
            BY <2>1, <3>2, <3>3, HaGoalSame DEF haVars
        <3>5. call'.device \in HaDevices
            BY <1>1, <3>3 DEF Same
        <3>6. Goal(call)'
            BY <3>4, <3>5, NamesAssumption DEF Goal
        <3> QED BY <1>2, <2>1, <3>3, <3>6, HomeKept DEF Succeeds
    <2> QED BY <2>1, <2>2, <2>3, <2>4
<1> QED BY <1>3, <1>4, <1>5, <1>6 DEF HaStep

LEMMA HomeMoves ==
    ASSUME HomeInv, UNCHANGED call, ServiceEnds \/ \E d \in HaDevices : HaPeople(d)
    PROVE  HomeInv'
<1>1. /\ DOMAIN entity = HaDevices /\ entity = [d \in HaDevices |-> entity[d]]
      /\ \A d \in HaDevices : IsEntity(entity[d])
      /\ \A s \in services : s[1] \in HaDevices /\ IsService(s[2])
    BY DEF HomeInv
<1>2. services' \subseteq services
    BY DEF ServiceEnds, HaPeople
<1>3. \/ UNCHANGED entity
      \/ \E d \in HaDevices : \E e : IsEntity(e) /\ entity' = [entity EXCEPT ![d] = e]
    <2>1. CASE ServiceEnds
        <3>1. PICK s \in services : \/ UNCHANGED entity
                                    \/ entity' = [entity EXCEPT ![s[1]] = Carried(entity[s[1]], s[2])]
            BY <2>1 DEF ServiceEnds
        <3>2. s[1] \in HaDevices /\ IsEntity(Carried(entity[s[1]], s[2]))
            BY <1>1, CarriedIs
        <3> QED BY <3>1, <3>2
    <2>2. CASE \E d \in HaDevices : HaPeople(d)
        <3>1. PICK d \in HaDevices : HaPeople(d)
            BY <2>2
        <3>2. PICK state : entity' = [entity EXCEPT ![d].state = state]
            BY <3>1 DEF HaPeople
        <3> DEFINE e == [entity[d] EXCEPT !.state = state]
        <3>3. IsEntity(e)
            BY <1>1 DEF IsEntity
        <3>4. entity' = [entity EXCEPT ![d] = e]
            BY <3>2
        <3> QED BY <3>3, <3>4
    <2> QED BY <2>1, <2>2
<1>4. /\ DOMAIN entity' = HaDevices /\ entity' = [d \in HaDevices |-> entity'[d]]
      /\ \A d \in HaDevices : IsEntity(entity'[d])
    BY <1>1, <1>3
<1>5. call'.at \in {"post", "verify"} => Accepted(call')
    BY DEF HomeInv
<1> QED BY <1>1, <1>2, <1>4, <1>5 DEF HomeInv

----------------------------------------------------------------------------
(***************************************************************************)
(* The effect: Spotify.                                                    *)
(***************************************************************************)
LEMMA SpotifySupported ==
    ASSUME CallInv, call.at # "idle", call.device \in Speakers
    PROVE  call.op \in SpotifyOps
<1>1. Capabilities(call.device) = SpotifyOps
    BY NamesAssumption DEF Capabilities
<1> QED BY <1>1 DEF CallInv, Supports

LEMMA AppliedGoal ==
    ASSUME IsPlayback(playback), call.op \in SpotifyOps, call.seen.volume \in Int,
           call.op = "volume" => call.arg \in 0 .. 10, Applied(call)
    PROVE  SpotifyGoal(call)
<1>1. CASE call.op \in {"pause", "play", "resume", "next", "previous"}
    <2>1. CASE call.op = "pause"
        <3>1. Applied(call) <=> ~Report.playing
            BY <2>1 DEF Applied, VolumeOps
        <3>2. SpotifyGoal(call) <=> ~Report.playing
            BY <2>1 DEF SpotifyGoal
        <3> QED BY <3>1, <3>2
    <2>2. CASE call.op \in {"play", "resume"}
        <3>1. Applied(call) <=> Report.playing
            BY <2>2 DEF Applied, VolumeOps
        <3>2. SpotifyGoal(call) <=> Report.playing
            BY <2>2 DEF SpotifyGoal
        <3> QED BY <3>1, <3>2
    <2>3. CASE call.op \in {"next", "previous"}
        BY <2>3 DEF Applied, SpotifyGoal, VolumeOps
    <2> QED BY <1>1, <2>1, <2>2, <2>3
<1>2. CASE call.op = "volume"
    <2>1. Report.volume = call.arg * 10 /\ call.arg \in Int
        BY <1>2 DEF Applied, VolumeOps, Volume
    <2>2. Report.volume = 10 * call.arg
        BY <2>1
    <2> QED BY <1>2, <2>2 DEF SpotifyGoal
<1>3. CASE call.op = "volume_up"
    <2>1. PICK v \in Int : v = call.seen.volume
        OBVIOUS
    <2>2. Report.volume = Min({100, v + 10})
        BY <1>3, <2>1 DEF Applied, VolumeOps, Volume
    <2>3. Min({100, v + 10}) \in {100, v + 10}
        BY DEF Min
    <2>4. Report.volume > v \/ Report.volume = 100
        BY <2>2, <2>3
    <2> QED BY <1>3, <2>1, <2>4 DEF SpotifyGoal
<1>4. CASE call.op = "volume_down"
    <2>1. PICK v \in Int : v = call.seen.volume
        OBVIOUS
    <2>2. Report.volume = Max({0, v - 10})
        BY <1>4, <2>1 DEF Applied, VolumeOps, Volume
    <2>3. Max({0, v - 10}) \in {0, v - 10}
        BY DEF Max
    <2>4. Report.volume < v \/ Report.volume = 0
        BY <2>2, <2>3
    <2> QED BY <1>4, <2>1, <2>4 DEF SpotifyGoal
<1> QED BY <1>1, <1>2, <1>3, <1>4 DEF SpotifyOps

LEMMA SpotifyGoalSame ==
    ASSUME Same(call, call'), call'.seen = call.seen, UNCHANGED playback, SpotifyGoal(call)
    PROVE  SpotifyGoal(call)'
<1>1. UNCHANGED Report
    BY DEF Report, Active
<1>2. call'.op = call.op /\ call'.arg = call.arg /\ call'.seen = call.seen
    BY DEF Same
<1> QED BY <1>1, <1>2 DEF SpotifyGoal

LEMMA SpotifyEffect ==
    ASSUME CallInv, PlaybackInv, SpotifyStep
    PROVE  CallInv' /\ (UNCHANGED call \/ Succeeds)
<1>1. IsCall(call) /\ call.device \in Speakers /\ call.at # "idle"
    BY SpotifyMoves DEF CallInv, SpotifyStep, SpotifyLook, Connect, WaitForDevice, Command, WaitForApplied, At
<1>2. CallInv'
    BY <1>1, SpotifyMoves, CallGoesOn DEF CallInv
<1>3. CASE WaitForApplied
    <2>1. call.at = "check" /\ UNCHANGED spotifyVars /\ (UNCHANGED call \/ (Applied(call) /\ Returns(Report)))
        BY <1>3 DEF WaitForApplied, At
    <2>2. CASE Applied(call) /\ Returns(Report)
        <3>1. /\ IsPlayback(playback) /\ call.seen.volume \in Int
              /\ call.op = "volume" => call.arg \in 0 .. 10
            BY <2>1 DEF PlaybackInv, Looked
        <3>2. SpotifyGoal(call)
            BY <1>1, <2>2, <3>1, AppliedGoal, SpotifySupported
        <3>3. call'.at = "ok" /\ Same(call, call') /\ call'.seen = call.seen
            BY <1>1, <2>2, Movements DEF Moves
        <3>4. SpotifyGoal(call)'
            BY <2>1, <3>2, <3>3, SpotifyGoalSame DEF spotifyVars
        <3>5. call'.device \in Speakers
            BY <1>1, <3>3 DEF Same
        <3>6. Goal(call)'
            BY <3>4, <3>5, NamesAssumption DEF Goal
        <3> QED BY <1>2, <3>6 DEF Succeeds
    <2> QED BY <1>2, <2>1, <2>2
<1>4. CASE SpotifyLook \/ Connect \/ WaitForDevice \/ Command
    <2>1. call'.at # "ok" \/ UNCHANGED call
        <3>1. CASE SpotifyLook
            <4>1. Fails \/ \E step \in {"connect", "command"} : Look(step)
                BY <3>1 DEF SpotifyLook
            <4> QED BY <1>1, <4>1, Movements DEF Moves, Look
        <3>2. CASE WaitForDevice
            BY <1>1, <3>2, Movements DEF Moves, WaitForDevice, Look
        <3>3. CASE Connect \/ Command
            <4>1. Fails \/ \E step \in {"wait", "check"} : Goto(step) \/ Sent(step)
                BY <3>3 DEF Connect, Command
            <4> QED BY <1>1, <4>1, Movements DEF Moves
        <3> QED BY <1>4, <3>1, <3>2, <3>3
    <2> QED BY <1>2, <2>1 DEF Succeeds
<1> QED BY <1>3, <1>4 DEF SpotifyStep

----------------------------------------------------------------------------
(***************************************************************************)
(* The effect: the phone.                                                  *)
(***************************************************************************)
IsPhone(p) ==
    /\ p = [connected |-> p.connected, screen |-> p.screen, guard |-> p.guard, front |-> p.front]
    /\ p.screen \in {"off", "coming on", "on"}
    /\ p.guard \in {"open", "locked", "occluded", "dream"}
    /\ p.front \in {"app", "home", "settings"}

\* The older operations claim no outcome; the fast ones know what they want to see.
PhoneCall(c) ==
    /\ c.at \in {"connection", "send"} => c.op \notin QuickOps
    /\ c.at \in {"resolve", "show"} => c.op \in {"home", "settings"}
    /\ c.at \in {"wake up", "show", "power", "window"} => c.op \in QuickOps /\ (c.op # "wake" => c.seen = c.op)

PhoneInv == IsPhone(phone) /\ PhoneCall(call)

LEMMA Prepended ==
    ASSUME NEW p, IsSeq(p), NEW x
    PROVE  /\ Len(<<x>> \o p) = Len(p) + 1
           /\ \A n \in 1 .. Len(p) : n + 1 \in DOMAIN (<<x>> \o p) /\ (<<x>> \o p)[n + 1] = p[n]
<1> DEFINE T == Elems(p) \cup {x}
<1>1. p \in Seq(T) /\ x \in T
    BY DEF IsSeq, Elems
<1> HIDE DEF T
<1> QED BY <1>1

LEMMA SixIs ==
    ASSUME NEW a, NEW b, NEW c, NEW d, NEW e, NEW f
    PROVE  IsSeq(<<a, b, c, d, e, f>>) /\ Len(<<a, b, c, d, e, f>>) = 6
<1> DEFINE T == {a, b, c, d, e, f}
           t == <<a, b, c, d, e, f>>
<1>1. Len(t) = 6
    OBVIOUS
<1>2. t \in Seq(T)
    OBVIOUS
<1>3. IsSeq(t)
    <2> HIDE DEF T, t
    <2> QED BY ONLY <1>2 DEF IsSeq
<1> QED BY <1>1, <1>3

LEMMA FlagOnce ==
    ASSUME NEW w, NEW j \in DOMAIN w.flags, NEW key, NEW v, NEW value,
           w.flags[j] = <<key, v>>, Flag(w, key, value)
    PROVE  v = value
<1>1. PICK i \in DOMAIN w.flags :
          w.flags[i] = <<key, value>> /\ \A l \in DOMAIN w.flags : w.flags[l][1] = key => l = i
    BY DEF Flag
<1>2. w.flags[j][1] = key
    OBVIOUS
<1>3. i = j
    BY <1>1, <1>2
<1> QED BY <1>1, <1>3

LEMMA WindowIs ==
    ASSUME NEW w \in Windows
    PROVE  /\ w.flags = Policy \/ \E x : w.flags = <<x>> \o Policy
           /\ \/ w.keyguard = <<Delegate>> \/ w.keyguard = <<>>
              \/ \E x : w.keyguard = <<x>> \o <<Delegate>>
           /\ w.focus = <<Shown>> \/ w.focus = <<"home">> \o <<Shown>>
<1> DEFINE flags == Policy
           guard == <<Delegate>>
           focus == <<Shown>>
           other == [showing |-> <<FALSE>>, inputRestricted |-> <<FALSE>>]
           Flagged(key, b) == [Window EXCEPT !.flags = <<<<key, b>>>> \o @]
           twice == [Window EXCEPT !.keyguard = <<other>> \o @]
           nothing == [Window EXCEPT !.keyguard = <<>>]
           second == [Window EXCEPT !.focus = <<"home">> \o @]
<1>1. \/ w = Window
      \/ \E key, b : w = Flagged(key, b)
      \/ w \in {twice, nothing, second}
    <2>1. Windows = {Window} \cup {Flagged(key, b) : key \in {"mAwake", "mScreenOnFully", "mShowingDream"}, b \in BOOLEAN}
                    \cup {twice, nothing, second}
        BY DEF Windows
    <2> HIDE DEF Flagged, twice, nothing, second
    <2> QED BY <2>1
<1>2. Window = [flags |-> flags, keyguard |-> guard, focus |-> focus]
    BY DEF Window
<1> HIDE DEF flags, guard, focus, other
<1>3. CASE w = Window
    BY <1>2, <1>3 DEF flags, guard, focus
<1>4. CASE \E key, b : w = Flagged(key, b)
    <2>1. PICK key, b : w = Flagged(key, b)
        BY <1>4
    <2>2. w.flags = <<<<key, b>>>> \o flags /\ w.keyguard = guard /\ w.focus = focus
        BY <1>2, <2>1
    <2> QED BY <2>2 DEF flags, guard, focus
<1>5. CASE w \in {twice, nothing}
    <2>1. w.flags = flags /\ (w.keyguard = <<other>> \o guard \/ w.keyguard = <<>>) /\ w.focus = focus
        BY <1>2, <1>5
    <2> QED BY <2>1 DEF flags, guard, focus
<1>6. CASE w = second
    <2>1. w.flags = flags /\ w.keyguard = guard /\ w.focus = <<"home">> \o focus
        BY <1>2, <1>6
    <2> QED BY <2>1 DEF flags, guard, focus
<1> HIDE DEF Flagged, twice, nothing, second
<1> QED BY <1>1, <1>3, <1>4, <1>5, <1>6

\* What the phone printed can only be accepted when it is so.
LEMMA EvidenceIs ==
    ASSUME IsPhone(phone), NEW w \in Windows, NEW lines, Awake(lines, w)
    PROVE  /\ phone.screen = "on"
           /\ Unlocked(w) => phone.guard = "open"
           /\ Unlocked(w) /\ Foreground(w) \in {"home", "settings"} => phone.front = Foreground(w)
<1>1. PICK on, half, full, locked, dream \in BOOLEAN :
          /\ Policy = <<<<"mAwake", on>>, <<"mScreenOnEarly", half>>, <<"mScreenOnFully", full>>,
                        <<"isKeyguardShowing", locked>>, <<"mShowingDream", dream>>,
                        <<"mDreamingLockscreen", dream>>>>
          /\ full = (phone.screen = "on") /\ locked = (phone.guard = "locked") /\ dream = (phone.guard = "dream")
    BY DEF Policy
<1>2. IsSeq(Policy) /\ Len(Policy) = 6 /\ DOMAIN Policy = 1 .. 6
    <2>1. IsSeq(Policy) /\ Len(Policy) = 6
        BY <1>1, SixIs
    <2> QED BY <2>1, SeqIs
<1>3. /\ Policy[3] = <<"mScreenOnFully", full>> /\ Policy[4] = <<"isKeyguardShowing", locked>>
      /\ Policy[6] = <<"mDreamingLockscreen", dream>>
    BY <1>1
<1>4. ASSUME NEW n \in 1 .. 6 PROVE \E j \in DOMAIN w.flags : w.flags[j] = Policy[n]
    <2>1. CASE w.flags = Policy
        BY <1>2, <2>1
    <2>2. CASE \E x : w.flags = <<x>> \o Policy
        <3>1. PICK x : w.flags = <<x>> \o Policy
            BY <2>2
        <3> DEFINE p == Policy
        <3>2. IsSeq(p) /\ Len(p) = 6 /\ w.flags = <<x>> \o p
            BY <1>2, <3>1
        <3> HIDE DEF p
        <3>3. n + 1 \in DOMAIN (<<x>> \o p) /\ (<<x>> \o p)[n + 1] = p[n]
            <4>1. IsSeq(p) /\ n \in 1 .. Len(p)
                BY <3>2
            <4>2. \A m \in 1 .. Len(p) : m + 1 \in DOMAIN (<<x>> \o p) /\ (<<x>> \o p)[m + 1] = p[m]
                BY ONLY <4>1, Prepended
            <4> QED BY <4>1, <4>2
        <3> QED BY <3>2, <3>3 DEF p
    <2> QED BY <2>1, <2>2, WindowIs
<1>5. full = TRUE
    <2>1. Flag(w, "mScreenOnFully", TRUE)
        BY DEF Awake
    <2>2. PICK j \in DOMAIN w.flags : w.flags[j] = <<"mScreenOnFully", full>>
        BY <1>3, <1>4
    <2> QED BY <2>1, <2>2, FlagOnce
<1>6. phone.screen = "on"
    BY <1>1, <1>5
<1>7. ASSUME Unlocked(w) PROVE phone.guard = "open"
    <2>1. locked = FALSE /\ dream = FALSE
        <3>1. Flag(w, "isKeyguardShowing", FALSE) /\ Flag(w, "mDreamingLockscreen", FALSE)
            BY <1>7 DEF Unlocked
        <3>2. PICK j \in DOMAIN w.flags : w.flags[j] = <<"isKeyguardShowing", locked>>
            BY <1>3, <1>4
        <3>3. PICK l \in DOMAIN w.flags : w.flags[l] = <<"mDreamingLockscreen", dream>>
            BY <1>3, <1>4
        <3> QED BY <3>1, <3>2, <3>3, FlagOnce
    <2>2. phone.guard # "locked" /\ phone.guard # "dream"
        BY <1>1, <2>1
    <2>3. Len(w.keyguard) = 1 /\ w.keyguard[1] = [showing |-> <<FALSE>>, inputRestricted |-> <<FALSE>>]
        BY <1>7 DEF Unlocked, KeyguardUnrestricted
    <2>4. w.keyguard[1] = Delegate
        <3> DEFINE y == Delegate
        <3> HIDE DEF y
        <3>1. \A x : Len(<<x>> \o <<y>>) = 2
            OBVIOUS
        <3>2. Len(<<>>) = 0
            OBVIOUS
        <3>3. w.keyguard = <<y>> \/ w.keyguard = <<>> \/ \E x : w.keyguard = <<x>> \o <<y>>
            BY WindowIs DEF y
        <3>4. w.keyguard # <<>>
            BY <2>3, <3>2
        <3>5. \A x : w.keyguard # <<x>> \o <<y>>
            BY <2>3, <3>1
        <3>6. w.keyguard = <<y>>
            BY <3>3, <3>4, <3>5
        <3> QED BY <3>6 DEF y
    <2>5. Delegate.inputRestricted = <<FALSE>>
        <3> DEFINE no == <<FALSE>>
                   free == [showing |-> no, inputRestricted |-> no]
        <3>1. free.inputRestricted = no
            OBVIOUS
        <3>2. Delegate = free
            BY <2>3, <2>4
        <3> HIDE DEF free, no
        <3>3. Delegate.inputRestricted = no
            BY <3>1, <3>2
        <3> QED BY <3>3 DEF no
    <2>6. Delegate.inputRestricted[1] = (phone.guard \in {"locked", "occluded"})
        BY DEF Delegate
    <2>7. <<FALSE>>[1] = FALSE
        OBVIOUS
    <2>8. phone.guard \notin {"locked", "occluded"}
        BY ONLY <2>5, <2>6, <2>7
    <2> QED BY <2>2, <2>8 DEF IsPhone
<1>8. ASSUME Unlocked(w), Foreground(w) \in {"home", "settings"} PROVE phone.front = Foreground(w)
    <2>1. Shown = phone.front
        BY <1>7, <1>8 DEF Shown
    <2>2. Len(w.focus) = 1 /\ Foreground(w) = Component(w.focus[1])
        BY <1>8 DEF Foreground
    <2>3. w.focus[1] = Shown
        <3> DEFINE y == Shown
        <3> HIDE DEF y
        <3>1. Len(<<"home">> \o <<y>>) = 2
            OBVIOUS
        <3>2. w.focus = <<y>>
            BY <2>2, <3>1, WindowIs DEF y
        <3> QED BY <3>2 DEF y
    <2> QED BY <2>1, <2>2, <2>3, <1>8 DEF Component
<1> QED BY <1>6, <1>7, <1>8

LEMMA PhoneKept ==
    ASSUME PhoneInv, UNCHANGED phone, UNCHANGED call \/ PhoneCall(call')
    PROVE  PhoneInv'
BY DEF PhoneInv, PhoneCall

LEMMA ElsewherePhone ==
    ASSUME NEW c, c.at \notin {"connection", "send", "resolve", "wake up", "show", "power", "window"}
    PROVE  PhoneCall(c)
BY DEF PhoneCall

LEMMA PhoneDeviceGoal ==
    ASSUME call'.device \in Phones, call'.op \notin QuickOps \/ PhoneGoal(call)'
    PROVE  Goal(call)'
<1>1. Goal(call)' = PhoneGoal(call)'
    BY NamesAssumption DEF Goal
<1>2. call'.op \notin QuickOps => PhoneGoal(call)'
    BY DEF PhoneGoal, QuickOps
<1> QED BY <1>1, <1>2

LEMMA PhoneAsks ==
    ASSUME CallInv, PhoneInv, PhoneStart \/ PhoneConnection \/ Resolve \/ PowerDump
    PROVE  PhoneInv' /\ (call'.at = "connection" => ~call'.sent) /\ Succeeds
<1>1. IsCall(call) /\ (call.at \in {"start", "connection"} => ~call.sent) /\ PhoneCall(call)
    BY DEF CallInv, PhoneInv
<1>2. UNCHANGED phone
    BY DEF PhoneStart, PhoneConnection, Resolve, PowerDump, androidVars
<1>3. CASE PhoneStart
    <2>1. /\ call.at = "start"
          /\ \/ Fails
             \/ call.op = "wake" /\ Goto("wake up")
             \/ call.op \in {"home", "settings"} /\ Goto("resolve")
             \/ call.op \notin QuickOps /\ Goto("connection")
        BY <1>3 DEF PhoneStart, At, QuickOps
    <2>2. /\ ~call'.sent /\ Same(call, call')
          /\ \/ call'.at = "failed"
             \/ call.op = "wake" /\ call'.at = "wake up"
             \/ call.op \in {"home", "settings"} /\ call'.at = "resolve"
             \/ call.op \notin QuickOps /\ call'.at = "connection"
        BY <1>1, <2>1, Movements DEF Moves
    <2>3. PhoneCall(call')
        BY <2>2 DEF PhoneCall, Same, QuickOps
    <2> QED BY <1>2, <2>2, <2>3, PhoneKept DEF Succeeds
<1>4. CASE PhoneConnection
    <2>1. call.at = "connection" /\ (Fails \/ Returns([state |-> "connected"]) \/ Goto("send"))
        BY <1>4 DEF PhoneConnection, At
    <2>2. ~call'.sent /\ Same(call, call') /\ call'.at \in {"failed", "ok", "send"}
        BY <1>1, <2>1, Movements DEF Moves
    <2>3. PhoneCall(call')
        BY <1>1, <2>1, <2>2 DEF PhoneCall, Same
    <2> QED BY <1>2, <2>2, <2>3, PhoneKept DEF Succeeds
<1>5. CASE Resolve
    <2>1. PICK answer \in {call.op, "resolver"} :
              IF Component(answer) = "nothing" THEN Fails ELSE Saw("wake up", answer)
        BY <1>5 DEF Resolve
    <2>2. call.at = "resolve"
        BY <1>5 DEF Resolve, At
    <2>3. Fails \/ Saw("wake up", call.op)
        BY <2>1 DEF Component
    <2>4. Same(call, call') /\ (call'.at = "failed" \/ (call'.at = "wake up" /\ call'.seen = call.op))
        BY <1>1, <2>3, Movements DEF Moves
    <2>5. PhoneCall(call')
        BY <1>1, <2>2, <2>4 DEF PhoneCall, Same, QuickOps
    <2> QED BY <1>2, <2>4, <2>5, PhoneKept DEF Succeeds
<1>6. CASE PowerDump
    <2>1. call.at = "power" /\ Goto("window")
        BY <1>6 DEF PowerDump, At
    <2>2. Same(call, call') /\ call'.at = "window" /\ call'.seen = call.seen
        BY <1>1, <2>1, Movements DEF Moves
    <2>3. PhoneCall(call')
        BY <1>1, <2>1, <2>2 DEF PhoneCall, Same
    <2> QED BY <1>2, <2>2, <2>3, PhoneKept DEF Succeeds
<1> QED BY <1>3, <1>4, <1>5, <1>6

LEMMA PhoneCommands ==
    ASSUME CallInv, PhoneInv, PhoneSend \/ WakeUp \/ Show
    PROVE  PhoneInv' /\ call'.at # "connection" /\ Succeeds
<1>1. IsCall(call) /\ IsPhone(phone) /\ PhoneCall(call) /\ call.device \in Phones
    BY DEF CallInv, PhoneInv, PhoneSend, WakeUp, Show, At
<1>2. CASE PhoneSend
    <2>1. /\ call.at = "send"
          /\ phone' \in {phone, [phone EXCEPT !.front = "app"]}
          /\ \/ call' = [call EXCEPT !.at = "ok", !.sent = TRUE, !.state = [receipt |-> <<"sent", call.op>>]]
             \/ Fails
        BY <1>2 DEF PhoneSend, At
    <2>2. Same(call, call') /\ call'.at \in {"ok", "failed"}
        BY <1>1, <2>1, Movements DEF Moves, Same, IsCall
    <2>3. IsPhone(phone')
        BY <1>1, <2>1 DEF IsPhone
    <2>4. call'.op \notin QuickOps /\ call'.device \in Phones
        BY <1>1, <2>1, <2>2 DEF PhoneCall, Same
    <2>5. Goal(call)'
        BY <2>4, PhoneDeviceGoal
    <2> QED BY <2>2, <2>3, <2>5, ElsewherePhone DEF PhoneInv, Succeeds
<1>3. CASE WakeUp
    <2>1. /\ call.at = "wake up"
          /\ phone' \in {phone, [phone EXCEPT !.screen = IF phone.screen = "off" THEN "coming on" ELSE phone.screen]}
          /\ \/ Fails
             \/ call.op = "wake" /\ Sent("power")
             \/ call.op # "wake" /\ Goto("show")
        BY <1>3 DEF WakeUp, At
    <2>2. /\ Same(call, call') /\ call'.seen = call.seen
          /\ \/ call'.at = "failed"
             \/ call.op = "wake" /\ call'.at = "power"
             \/ call.op # "wake" /\ call'.at = "show"
        BY <1>1, <2>1, Movements DEF Moves
    <2>3. IsPhone(phone')
        BY <1>1, <2>1 DEF IsPhone
    <2>4. PhoneCall(call')
        BY <1>1, <2>1, <2>2 DEF PhoneCall, Same, QuickOps
    <2> QED BY <2>2, <2>3, <2>4 DEF PhoneInv, Succeeds
<1>4. CASE Show
    <2>1. /\ call.at = "show"
          /\ phone' \in {phone, [phone EXCEPT !.front = IF phone.guard = "open" THEN call.seen ELSE phone.front]}
          /\ Sent("power") \/ Fails
        BY <1>4 DEF Show, At
    <2>2. Same(call, call') /\ call'.seen = call.seen /\ call'.at \in {"power", "failed"}
        BY <1>1, <2>1, Movements DEF Moves
    <2>3. call.seen \in {"home", "settings"}
        BY <1>1, <2>1 DEF PhoneCall
    <2>4. IsPhone(phone')
        BY <1>1, <2>1, <2>3 DEF IsPhone
    <2>5. PhoneCall(call')
        BY <1>1, <2>1, <2>2 DEF PhoneCall, Same, QuickOps
    <2> QED BY <2>2, <2>4, <2>5 DEF PhoneInv, Succeeds
<1> QED BY <1>2, <1>3, <1>4

LEMMA PhoneShows ==
    ASSUME CallInv, PhoneInv, WindowDump
    PROVE  PhoneInv' /\ call'.at # "connection" /\ Succeeds
<1>1. /\ IsCall(call) /\ IsPhone(phone) /\ PhoneCall(call) /\ call.device \in Phones /\ call.at = "window"
      /\ UNCHANGED phone
    BY DEF CallInv, PhoneInv, WindowDump, At
<1>2. PICK w \in Windows :
          \/ Fails
          \/ /\ Awake(power, w) /\ (call.op # "wake" => Unlocked(w) /\ Foreground(w) = call.seen)
             /\ Returns([receipt |-> <<"seen", call.op>>])
    BY DEF WindowDump
<1>3. Same(call, call') /\ call'.at \in {"ok", "failed"}
    BY <1>1, <1>2, Movements DEF Moves
<1>4. PhoneInv'
    BY <1>1, <1>3, ElsewherePhone DEF PhoneInv
<1>5. CASE Fails
    <2>1. call'.at = "failed"
        BY <1>1, <1>5, Movements DEF Moves
    <2> QED BY <1>4, <2>1 DEF Succeeds
<1>6. CASE Awake(power, w) /\ (call.op # "wake" => Unlocked(w) /\ Foreground(w) = call.seen)
    <2>1. phone.screen = "on"
        BY <1>1, <1>6, EvidenceIs
    <2>2. call.op \in {"wake", "home", "settings"} /\ (call.op # "wake" => call.seen = call.op)
        BY <1>1 DEF PhoneCall, QuickOps
    <2>3. call.op \in {"home", "settings"} => phone.guard = "open" /\ phone.front = call.op
        BY <1>1, <1>6, <2>2, EvidenceIs
    <2>4. PhoneGoal(call)'
        BY <1>1, <1>3, <2>1, <2>2, <2>3 DEF PhoneGoal, Same
    <2>5. call'.device \in Phones
        BY <1>1, <1>3 DEF Same
    <2> QED BY <1>3, <1>4, <2>4, <2>5, PhoneDeviceGoal DEF Succeeds
<1> QED BY <1>2, <1>5, <1>6

LEMMA PhoneEffect ==
    ASSUME CallInv, PhoneInv, PhoneStep
    PROVE  CallInv' /\ PhoneInv' /\ Succeeds
<1>1. IsCall(call) /\ call.at # "idle" /\ \E step : Moves(step) /\ step # "start"
    BY PhoneMoves DEF CallInv
<1>2. PhoneInv' /\ (call'.at = "connection" => ~call'.sent) /\ Succeeds
    BY PhoneAsks, PhoneCommands, PhoneShows DEF PhoneStep
<1>3. CallInv'
    BY <1>1, <1>2, CallGoesOn DEF Moves
<1> QED BY <1>2, <1>3

----------------------------------------------------------------------------
(***************************************************************************)
(* The effect: every driver, and the request around it.                    *)
(***************************************************************************)
EffectInv == CallInv /\ PlaybackInv /\ HomeInv /\ PhoneInv /\ EffectWasReal

LEMMA LocalEffect ==
    ASSUME CallInv, LocalStep
    PROVE  CallInv' /\ Succeeds
<1>1. IsCall(call) /\ call.at # "idle" /\ \E step : Moves(step) /\ step \notin {"start", "connection"}
    BY LocalMoves DEF CallInv
<1>2. call.device \in Lamps \cup Displays
    BY DEF LocalStep, LampLook, SendFrame, LampRead, CecSend, CecRead, At
<1>3. call'.device \in Lamps \cup Displays
    BY <1>1, <1>2 DEF Moves, Same
<1>4. Goal(call)'
    BY <1>3, NamesAssumption DEF Goal
<1> QED BY <1>1, <1>4, CallGoesOn DEF Succeeds

LEMMA EffectSeen ==
    ASSUME EffectWasReal, Watch, UNCHANGED call \/ Succeeds \/ call'.at # "ok"
    PROVE  EffectWasReal'
<1> SUFFICES ASSUME call'.at = "ok", call'.sent PROVE met'
    BY DEF EffectWasReal
<1>1. met' <=> (call'.sent /\ ((call.sent /\ met) \/ Goal(call)'))
    BY DEF Watch
<1>2. CASE UNCHANGED call
    <2>1. call.at = "ok" /\ call.sent
        BY <1>2
    <2>2. met
        BY <2>1 DEF EffectWasReal
    <2> QED BY <1>1, <2>1, <2>2
<1>3. CASE Succeeds
    <2>1. Goal(call)'
        BY <1>3 DEF Succeeds
    <2> QED BY <1>1, <2>1
<1> QED BY <1>2, <1>3

LEMMA EffectStarts == Init => EffectInv
<1> SUFFICES ASSUME Init PROVE EffectInv
    OBVIOUS
<1>1. call = NoCall
    BY DEF Init
<1>2. CallInv /\ EffectWasReal
    BY <1>1, CallIs DEF CallInv, EffectWasReal
<1>3. HomeInv
    <2>1. entity = [d \in HaDevices |->
                      [state |-> IF Domain[d] = "lock" THEN "locked" ELSE "off",
                       brightness |-> 255, color |-> "white", temperature |-> MinTemp]] /\ services = {}
        BY DEF Init, HaInit
    <2>2. \A d \in HaDevices : IsEntity(entity[d])
        BY <2>1 DEF IsEntity
    <2> QED BY <1>1, <2>1, <2>2, CallIs DEF HomeInv
<1>4. PhoneInv
    <2>1. phone \in [connected : {TRUE}, screen : {"off", "on"}, guard : {"open", "locked"}, front : {"app", "settings"}]
        BY DEF Init, PhoneInit
    <2>2. IsPhone(phone)
        BY <2>1 DEF IsPhone
    <2>3. PhoneCall(call)
        BY <1>1, CallIs DEF PhoneCall
    <2> QED BY <2>2, <2>3 DEF PhoneInv
<1> QED BY <1>2, <1>3, <1>4, PlaybackStarts DEF EffectInv

\* Nobody but a driver is at work, and the call is as it was, over, or at its start.
LEMMA EffectKept ==
    ASSUME EffectInv, UNCHANGED worldVars, Watch,
           \/ UNCHANGED call
           \/ IsCall(call') /\ Same(call, call') /\ call.at # "idle" /\ call'.at = "failed"
           \/ call' = NoCall
           \/ \E d \in Registry : \E op, arg : Supports(d, op) /\ call' = Call(d, op, arg)
    PROVE  CallInv' /\ HomeInv' /\ PhoneInv' /\ EffectWasReal'
<1>1. UNCHANGED haVars /\ UNCHANGED phone
    BY DEF worldVars, androidVars
<1>2. \/ UNCHANGED call
      \/ call'.at \in {"failed", "idle", "start"}
    BY CallIs
<1>3. CallInv'
    <2>1. CASE UNCHANGED call
        BY <2>1 DEF EffectInv, CallInv
    <2>2. CASE IsCall(call') /\ Same(call, call') /\ call.at # "idle" /\ call'.at = "failed"
        BY <2>2 DEF EffectInv, CallInv, Same
    <2>3. CASE call' = NoCall
        BY <2>3, CallIs DEF CallInv
    <2>4. CASE \E d \in Registry : \E op, arg : Supports(d, op) /\ call' = Call(d, op, arg)
        BY <2>4, CallIs DEF CallInv
    <2> QED BY <2>1, <2>2, <2>3, <2>4
<1>4. HomeInv'
    BY <1>1, <1>2, HomeKept DEF EffectInv
<1>5. PhoneInv'
    BY <1>1, <1>2, PhoneKept, ElsewherePhone DEF EffectInv
<1>6. EffectWasReal'
    BY <1>2, EffectSeen DEF EffectInv
<1> QED BY <1>3, <1>4, <1>5, <1>6

LEMMA EffectOthers ==
    ASSUME EffectInv, World, Watch
    PROVE  CallInv' /\ HomeInv' /\ PhoneInv' /\ EffectWasReal'
<1>1. UNCHANGED call
    BY OthersMove
<1>2. CallInv' /\ EffectWasReal'
    BY <1>1, EffectSeen DEF EffectInv, CallInv
<1>3. HomeInv'
    <2>1. UNCHANGED haVars \/ ServiceEnds \/ \E d \in HaDevices : HaPeople(d)
        BY DEF World, People
    <2> QED BY <1>1, <2>1, HomeKept, HomeMoves DEF EffectInv
<1>4. PhoneInv'
    <2>1. UNCHANGED androidVars \/ ScreenComesOn \/ \E d : PhonePeople(d)
        BY DEF World, People
    <2>2. IsPhone(phone)
        BY DEF EffectInv, PhoneInv
    <2>3. IsPhone(phone')
        <3>1. CASE UNCHANGED androidVars
            BY <2>2, <3>1 DEF androidVars
        <3>2. CASE ScreenComesOn
            BY <2>2, <3>2 DEF ScreenComesOn, IsPhone
        <3>3. CASE \E d : PhonePeople(d)
            BY <2>2, <3>3 DEF PhonePeople, IsPhone
        <3> QED BY <2>1, <3>1, <3>2, <3>3
    <2> QED BY <1>1, <2>3 DEF EffectInv, PhoneInv
<1> QED BY <1>2, <1>3, <1>4

LEMMA EffectDrivers ==
    ASSUME EffectInv, Drivers, Watch
    PROVE  CallInv' /\ HomeInv' /\ PhoneInv' /\ EffectWasReal'
<1>1. CallInv /\ PlaybackInv /\ HomeInv /\ PhoneInv /\ EffectWasReal /\ IsCall(call)
    BY DEF EffectInv, CallInv
<1>2. CASE HaStep /\ UNCHANGED androidVars
    <2>1. CallInv' /\ HomeInv' /\ (UNCHANGED call \/ Succeeds)
        BY <1>1, <1>2, HaEffect
    <2>2. call'.at \in {"post", "verify", "ok", "failed"}
        BY <1>1, <1>2, HaMoves DEF Moves
    <2>3. PhoneInv'
        BY <1>1, <1>2, <2>2, PhoneKept, ElsewherePhone DEF androidVars
    <2> QED BY <1>1, <2>1, <2>3, EffectSeen
<1>3. CASE SpotifyStep /\ UNCHANGED haVars /\ UNCHANGED androidVars
    <2>1. CallInv' /\ (UNCHANGED call \/ Succeeds)
        BY <1>1, <1>3, SpotifyEffect
    <2>2. call'.at \in {"connect", "wait", "command", "check", "ok", "failed"}
        BY <1>1, <1>3, SpotifyMoves DEF Moves
    <2>3. PhoneInv' /\ HomeInv'
        BY <1>1, <1>3, <2>2, PhoneKept, ElsewherePhone, HomeKept DEF androidVars
    <2> QED BY <1>1, <2>1, <2>3, EffectSeen
<1>4. CASE PhoneStep /\ UNCHANGED haVars
    <2>1. CallInv' /\ PhoneInv' /\ Succeeds
        BY <1>1, <1>4, PhoneEffect
    <2>2. call'.at \notin {"post", "verify"}
        BY <1>1, <1>4, PhoneMoves DEF Moves
    <2>3. HomeInv'
        BY <1>1, <1>4, <2>2, HomeKept
    <2> QED BY <1>1, <2>1, <2>3, EffectSeen
<1>5. CASE LocalStep /\ UNCHANGED haVars /\ UNCHANGED androidVars
    <2>1. CallInv' /\ Succeeds
        BY <1>1, <1>5, LocalEffect
    <2>2. call'.at \in {"frame", "lamp read", "tv read", "ok", "failed"}
        BY <1>1, <1>5, LocalMoves DEF Moves
    <2>3. PhoneInv' /\ HomeInv'
        BY <1>1, <1>5, <2>2, PhoneKept, ElsewherePhone, HomeKept DEF androidVars
    <2> QED BY <1>1, <2>1, <2>3, EffectSeen
<1>6. CASE CallFails /\ UNCHANGED worldVars
    <2>1. Fails /\ call.at # "idle"
        BY <1>6 DEF CallFails, Ended
    <2>2. IsCall(call') /\ Same(call, call') /\ call'.at = "failed"
        BY <1>1, <2>1, Movements DEF Moves
    <2> QED BY <1>6, <2>1, <2>2, EffectKept
<1> QED BY <1>2, <1>3, <1>4, <1>5, <1>6 DEF Drivers

LEMMA EffectRuns == EffectInv /\ [Next]_vars => EffectInv'
<1> SUFFICES ASSUME EffectInv, [Next]_vars PROVE EffectInv'
    OBVIOUS
<1>1. PlaybackInv'
    BY PlaybackRuns DEF EffectInv
<1>2. CASE UNCHANGED vars
    <2>1. /\ UNCHANGED call /\ UNCHANGED met /\ UNCHANGED haVars /\ UNCHANGED phone
        BY <1>2 DEF vars, callVars, worldVars, androidVars
    <2>2. CallInv' /\ EffectWasReal'
        BY <2>1 DEF EffectInv, CallInv, EffectWasReal
    <2>3. HomeInv' /\ PhoneInv'
        BY <2>1, HomeKept, PhoneKept DEF EffectInv
    <2> QED BY <1>1, <2>2, <2>3 DEF EffectInv
<1>3. CASE Handler /\ Watch
    <2>1. UNCHANGED worldVars
        BY <1>3 DEF Handler, Start, StartAction, EndAction, Finish
    <2>2. \/ UNCHANGED call \/ call' = NoCall
          \/ \E d \in Registry : \E op, arg : Supports(d, op) /\ call' = Call(d, op, arg)
        BY <1>3 DEF Handler, Start, StartAction, EndAction, Finish, callVars
    <2> QED BY <1>1, <1>3, <2>1, <2>2, EffectKept DEF EffectInv
<1>4. CASE Drivers /\ Watch
    BY <1>1, <1>4, EffectDrivers DEF EffectInv
<1>5. CASE World /\ Watch
    BY <1>1, <1>5, EffectOthers DEF EffectInv
<1>6. CASE Interrupted /\ Watch
    <2>1. UNCHANGED call /\ UNCHANGED worldVars
        BY <1>6, OthersMove DEF Interrupted
    <2> QED BY <1>1, <1>6, <2>1, EffectKept DEF EffectInv
<1> QED BY <1>2, <1>3, <1>4, <1>5, <1>6 DEF Next

\* A driver that verifies never reports success for what did not happen: for every house, every
\* plan and every number of changes by others, when a Home Assistant, a Spotify or a fast phone
\* action returns without an error after its command, its goal held at some moment since
\* (device.go:72-74; homeassistant.go:283; android_quick.go:113-133).
THEOREM EffectsAreReal == Spec => []EffectWasReal
<1>1. Init => EffectInv
    BY EffectStarts
<1>2. EffectInv /\ [Next]_vars => EffectInv'
    BY EffectRuns
<1>3. EffectInv => EffectWasReal
    BY DEF EffectInv
<1> QED BY <1>1, <1>2, <1>3, PTL DEF Spec
=============================================================================

----------------------------- MODULE MCHardware -----------------------------
(***************************************************************************)
(* Two speakerphones: one that two choices name, with the off-hook bit and *)
(* the microphone LED in the same report, and one with a ring LED in a     *)
(* report of its own.  And the descriptor parser on some hundreds of short *)
(* descriptors.                                                            *)
(***************************************************************************)
EXTENDS Hardware, HidDeclared

MCNodeOf == [c \in 1 .. 3 |-> IF c < 3 THEN "usb" ELSE "dock"]
MCPlayerOf == [c \in 1 .. 3 |-> IF c = 1 THEN "speaker" ELSE "dock speaker"]

Bare(tag) == Item(tag, 0)

MCDescriptor ==
    [usb  |-> <<Item("page", PageLED), Bare("collection"), Item("id", 2), Item("size", 1), Item("count", 3),
                Item("usage", 23), Item("usage", 33), Bare("output"), Bare("end")>>,
     dock |-> <<Item("page", PageLED), Bare("collection"), Item("id", 2), Item("size", 1), Item("count", 1),
                Item("usage", 23), Bare("output"), Item("id", 3), Item("usage", 24), Bare("output"),
                Item("usage", 32), Bare("output"), Bare("end")>>]

\* One or two usages, a range, both, or padding; some with a page of their own.
Naming ==
    {<<>>, <<Item("usage", 1)>>, <<Item("usage", 2), Item("usage", 1)>>,
     <<Item("min", 1), Item("max", 2)>>, <<Item("usage", 2), Item("min", 1), Item("max", 2)>>,
     <<Item("wideUsage", Key(7, 1)), Item("usage", 1)>>,
     <<Item("wideMin", Key(7, 1)), Item("wideMax", Key(7, 2))>>}

Sized(s, n) == <<Item("size", s), Item("count", n)>>
Detour == {<<>>, <<Item("id", 3)>>, <<Bare("input"), Item("page", 11)>>,
           <<Bare("push"), Item("id", 3), Item("page", 11), Item("size", 1), Item("usage", 4), Bare("output"), Bare("pop")>>}

SmallDescriptors ==
    {<<Item("id", 2), Item("page", PageLED)>> \o Sized(s[1], s[2]) \o a \o <<Bare("output")>> \o d
        \o Sized(1, s[3]) \o b \o <<Bare("output")>> :
     s \in (1 .. 2) \X {1, 3} \X {1, 5}, a \in Naming, d \in Detour,
     b \in {<<Item("usage", 1)>>, <<Item("min", 1), Item("max", 2)>>}}

\* Around states: nested, never pushed, thrown away with what they named.
Nested == <<Bare("push"), Item("id", 3), Bare("push"), Item("id", 4), Bare("pop"), Item("usage", 5), Bare("output"),
            Bare("pop"), Bare("pop"), Item("usage", 6), Bare("output")>>
\* The same long range in one report after the other.
Repeated == <<Item("min", 1), Item("max", 8), Bare("output"), Item("id", 5), Item("max", 8), Bare("output"),
              Item("id", 6), Item("max", 8), Bare("output")>>
Odd == {Nested, Nested \o <<Bare("cut")>>, Nested \o <<Bare("end"), Bare("collection")>>,
        <<Bare("collection")>> \o Nested, <<Bare("collection"), Bare("end")>> \o Nested,
        Repeated, Repeated \o <<Item("id", 7), Item("max", 8), Bare("output"), Item("id", 8), Item("max", 8),
                                Bare("output")>>}
OddDescriptors ==
    {<<Item("page", PageLED)>> \o Sized(1, 8) \o <<Item("id", id)>> \o d : id \in {2, 3}, d \in Odd}

\* Sounds know nothing of reports and a failed write changes nothing for them: sounds play
\* around captures, light and selection, and from the first failure on the room is silent.
Silent == \A s \in Sounds : caller[s] = "away"

\* A descriptor is read while nothing else happens.
MCInit == Init /\ bench \in {<<>>} \cup SmallDescriptors \cup OddDescriptors /\ (bench # <<>> => \A n \in Nodes : device[n].plugged)
MCNext == bench = <<>> /\ Next /\ (faults = 0 \/ Silent)' /\ UNCHANGED bench
MCSpec == MCInit /\ [][MCNext]_<<vars, bench>>
=============================================================================

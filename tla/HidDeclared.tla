----------------------------- MODULE HidDeclared -----------------------------
(***************************************************************************)
(* What a report descriptor declares, read as a set of statements and not  *)
(* item by item: which items are in force at an output, which bits of its  *)
(* report came before, which usages it names.  ParseOutputs' contract      *)
(* (internal/hid/descriptor.go:108-124) is to find exactly that.           *)
(***************************************************************************)
EXTENDS HidDescriptor

Tagged(d, tags) == {j \in DOMAIN d : d[j].tag \in tags}

\* How many states are pushed after each item; a Pop without a Push is none.
Nesting(d) ==
    LET n[k \in 0 .. Len(d)] ==
          IF k = 0 THEN 0
          ELSE LET before == n[k - 1]
               IN IF d[k].tag = "push" THEN before + 1
                  ELSE IF d[k].tag = "pop" /\ before > 0 THEN before - 1
                  ELSE before
    IN n

\* A Pop undoes what was said since its Push: the nesting falls below where it was said.
InForce(d, k, tag) ==
    LET n == Nesting(d)
    IN {j \in Tagged(d, {tag}) : j < k /\ \A q \in j .. k - 1 : n[q] >= n[j]}
Global(d, k, tag) ==
    LET said == InForce(d, k, tag) IN IF said = {} THEN 0 ELSE d[Max(said)].v

(***************************************************************************)
(* Where an output's bits are.                                             *)
(***************************************************************************)
Outputs(d) == Tagged(d, {"output"})
Width(d, k) == Global(d, k, "size") * Global(d, k, "count")

\* The outputs before item k to report r, and the bits they take in it.
Before(d, k, r) == {j \in Outputs(d) : j < k /\ Global(d, j, "id") = r}
Taken(d, k, r) == UNION {{j} \X (0 .. Width(d, j) - 1) : j \in Before(d, k, r)}
FirstBit(d, k) == Cardinality(Taken(d, k, Global(d, k, "id")))

(***************************************************************************)
(* What an output's bits are called.                                       *)
(***************************************************************************)
\* No main item lies between j and k.
Reaches(d, j, k) == j < k /\ \A m \in j .. k - 1 : d[m].tag \notin Mains

\* The page of a usage is the one in force where it is said; a wide usage has its own.
UsageOf(d, j) == IF d[j].tag \in Wide THEN d[j].v ELSE Key(Global(d, j, "page"), d[j].v)

Listed(d, k) == {j \in Tagged(d, Usages) : Reaches(d, j, k)}
Rank(S, j) == Cardinality({i \in S : i < j})

\* A range is in reach if either end is; an end that is not said again is the last one said.
Ranged(d, k) == \E j \in Tagged(d, Lows \cup Highs) : Reaches(d, j, k)
Said(d, k, tags) == {j \in Tagged(d, tags) : j < k}
RangeEnd(d, k, tags) == IF Said(d, k, tags) = {} THEN 0 ELSE UsageOf(d, Max(Said(d, k, tags)))

\* Bits and their names: the listed usages, then the rest of the range, as far as the count goes.
Names(d, k) ==
    LET listed == {<<Rank(Listed(d, k), j), UsageOf(d, j)>> : j \in Listed(d, k)}
        low  == RangeEnd(d, k, Lows)
        span == RangeEnd(d, k, Highs) - low
        rest == IF Ranged(d, k) THEN {<<n, low + n>> : n \in Cardinality(Listed(d, k)) .. span} ELSE {}
    IN {x \in listed \cup rest : x[1] < Global(d, k, "count")}

\* Names of single bits, by output, field and usage.
ClaimsOf(d, k) ==
    IF Global(d, k, "size") = 1 THEN {<<k, x[1], x[2]>> : x \in Names(d, k)} ELSE {}
Claims(d, k) == UNION {ClaimsOf(d, j) : j \in {o \in Outputs(d) : o < k}}

\* The claim that counts is the last one.
IsLast(d, k, c) ==
    c \in Claims(d, k) /\ \A o \in Claims(d, k) :
        o[3] = c[3] => o[1] < c[1] \/ (o[1] = c[1] /\ o[2] <= c[2])

(***************************************************************************)
(* What is refused: an item that is cut short, collections that do not     *)
(* close or close too often, more than a report or the index holds.        *)
(***************************************************************************)
Opened(d, k) == Cardinality({j \in Tagged(d, {"collection"}) : j < k})
Closed(d, k) == Cardinality({j \in Tagged(d, {"end"}) : j < k})

Cut(d, k)     == \E j \in Tagged(d, {"cut"}) : j < k
Unpaired(d, k) == \E j \in Tagged(d, {"end"}) : j < k /\ Closed(d, j + 1) > Opened(d, j + 1)
TooLong(d, k) == \E j \in Outputs(d) : j < k /\ FirstBit(d, j) + Width(d, j) > MaxReportBytes * 8
TooMany(d, k) == Cardinality(Claims(d, k)) > DescriptorBytes(d) * IndexedPerByte

Refused(d, k) == Cut(d, k) \/ Unpaired(d, k) \/ TooLong(d, k) \/ TooMany(d, k)

Declared(d) ==
    LET all == Len(d) + 1
    IN IF Refused(d, all) \/ Opened(d, all) # Closed(d, all) THEN <<>>
       ELSE [u \in {c[3] : c \in Claims(d, all)} |->
               LET c == CHOOSE c \in Claims(d, all) : c[3] = u /\ IsLast(d, all, c)
                   r == Global(d, c[1], "id")
               IN [report |-> r, bit |-> FirstBit(d, c[1]) + c[2],
                   payload |-> Bytes(Cardinality(Taken(d, all, r)))]]

VARIABLE bench      \* a descriptor that was read

\* The parser finds exactly the single-bit outputs that the items declare, each
\* at the bit its report has reached there, with the length its report has in
\* the end; of a descriptor that is refused it finds nothing (ParseOutputs'
\* contract, descriptor.go:108-124).
ControlsPlaced == ParseOutputs(bench) = Declared(bench)
=============================================================================

---------------------------- MODULE HidDescriptor ----------------------------
(***************************************************************************)
(* The report descriptor parser of internal/hid/descriptor.go: where each  *)
(* single-bit output control of a speakerphone lives.  A descriptor is the *)
(* sequence of its items; an item is its tag and its value.                *)
(***************************************************************************)
EXTENDS Integers, FiniteSets, SequencesExt

CONSTANTS
    MaxReportBytes,      \* maxReportBytes
    IndexedPerByte       \* indexedBitsPerByte

ASSUME DescriptorAssumption == MaxReportBytes \in Nat /\ IndexedPerByte \in Nat

Item(tag, v) == [tag |-> tag, v |-> v]

\* Main items end the reach of the usages before them ("input" is a feature item too).
Mains == {"output", "input", "collection", "end"}
\* Items that name usages; a wide one is a usage with its page (the 4-byte form).
Usages == {"usage", "wideUsage"}
Lows == {"min", "wideMin"}
Highs == {"max", "wideMax"}
Wide == {"wideUsage", "wideMin", "wideMax"}
Tags == Mains \cup Usages \cup Lows \cup Highs
              \cup {"page", "size", "count", "id", "push", "pop", "cut", "other"}
Descriptors == Seq([tag : Tags, v : Nat])

\* Bytes of a descriptor: each item's tag, and its data.  An item that is cut
\* short, or a long item whose header is, ends the parse with an error.
DescriptorBytes(desc) ==
    Len(desc) + Cardinality({i \in DOMAIN desc : desc[i].tag \notin {"push", "pop", "end"}})
              + 3 * Cardinality({i \in DOMAIN desc : desc[i].tag \in Wide})

Globals == [page |-> 0, size |-> 0, count |-> 0, id |-> 0]
NoRange == [some |-> FALSE, min |-> 0, max |-> 0]

\* A usage number on its page.
Key(page, usage) == page * 65536 + usage

\* packUsage: on the page in force, unless the item has its own.
PackUsage(page, it) == IF it.tag \in Wide THEN it.v ELSE Key(page, it.v)

\* The parser's variables: the usages named since the last main item, the next
\* free bit of each report, the bits found so far.
Start == [g |-> Globals, usages |-> <<>>, range |-> NoRange, offsets |-> <<>>,
          pushed |-> <<>>, depth |-> 0, indexed |-> 0, bits |-> <<>>, err |-> FALSE]

At(f, k, default) == IF k \in DOMAIN f THEN f[k] ELSE default
With(f, k, v) == [x \in DOMAIN f \cup {k} |-> IF x = k THEN v ELSE f[x]]

Fail(p) == [p EXCEPT !.err = TRUE]
\* The ends of a range stay behind; only that there is one is forgotten.
ClearLocals(p) == [p EXCEPT !.usages = <<>>, !.range.some = FALSE]

Span(p) ==
    IF p.range.some /\ p.range.max >= p.range.min THEN p.range.max - p.range.min + 1 ELSE 0

\* How many fields of a main item the descriptor names.
Named(p) ==
    LET span == Span(p)
        n == IF span > Len(p.usages) THEN span ELSE Len(p.usages)
    IN IF p.g.count < n THEN p.g.count ELSE n

\* Field n, from 0: the listed usages come before a range, as far as either
\* goes; more fields than that are padding.
UsageAt(p, n) == IF n < Len(p.usages) THEN p.usages[n + 1] ELSE p.range.min + n

\* Each named field takes the next bit; a usage named twice is where it was last.
FieldsOf(p, u) == {n \in 0 .. Named(p) - 1 : UsageAt(p, n) = u}

Placed(p, start) ==
    [u \in DOMAIN p.bits \cup {UsageAt(p, n) : n \in 0 .. Named(p) - 1} |->
        IF FieldsOf(p, u) = {} THEN p.bits[u]
        ELSE [report |-> p.g.id, bit |-> start + Max(FieldsOf(p, u))]]

Bytes(bits) == (bits + 7) \div 8

\* The bit budget is checked before any field is walked, the index after.
Output(p, budget) ==
    LET start == At(p.offsets, p.g.id, 0)
        end == start + p.g.size * p.g.count
        moved == [p EXCEPT !.offsets = With(p.offsets, p.g.id, end)]
        found == IF p.g.size = 1 THEN Named(p) ELSE 0
    IN IF Bytes(end) > MaxReportBytes THEN Fail(p)
       ELSE IF p.indexed + found > budget THEN Fail(p)
       ELSE ClearLocals([moved EXCEPT
                !.indexed = @ + found,
                !.bits = IF p.g.size = 1 THEN Placed(p, start) ELSE @])

\* Bug: Pop restores the usage page alone.
Pop_PageOnly(p) ==
    IF p.pushed = <<>> THEN p
    ELSE [p EXCEPT !.g.page = Last(p.pushed).page, !.pushed = Front(p.pushed)]

Pop(p) ==
    IF p.pushed = <<>> THEN p
    ELSE [p EXCEPT !.g = Last(p.pushed), !.pushed = Front(p.pushed)]

EndCollection(p) ==
    IF p.depth = 0 THEN Fail(p) ELSE ClearLocals([p EXCEPT !.depth = @ - 1])

ParseItem(p, it, budget) ==
    IF p.err THEN p ELSE
    CASE it.tag = "page"       -> [p EXCEPT !.g.page = it.v]
      [] it.tag = "size"       -> [p EXCEPT !.g.size = it.v]
      [] it.tag = "count"      -> [p EXCEPT !.g.count = it.v]
      [] it.tag = "id"         -> [p EXCEPT !.g.id = it.v]
      [] it.tag \in Usages    -> [p EXCEPT !.usages = Append(@, PackUsage(p.g.page, it))]
      [] it.tag \in Lows      -> [p EXCEPT !.range.some = TRUE, !.range.min = PackUsage(p.g.page, it)]
      [] it.tag \in Highs     -> [p EXCEPT !.range.some = TRUE, !.range.max = PackUsage(p.g.page, it)]
      [] it.tag = "output"     -> Output(p, budget)
      [] it.tag = "input"      -> ClearLocals(p)
      [] it.tag = "collection" -> ClearLocals([p EXCEPT !.depth = @ + 1])
      [] it.tag = "end"        -> EndCollection(p)
      [] it.tag = "push"       -> [p EXCEPT !.pushed = Append(@, p.g)]
      [] it.tag = "pop"        -> Pop(p)
      [] it.tag = "cut"        -> Fail(p)
      [] OTHER                 -> p

\* The parser's state after each item.
Parse(desc) ==
    LET p[i \in 0 .. Len(desc)] ==
          IF i = 0 THEN Start
          ELSE ParseItem(p[i - 1], desc[i], DescriptorBytes(desc) * IndexedPerByte)
    IN p

\* No map at all unless every item parsed, every collection closed and a
\* control was found; the payload length is final only at the end.
ParseOutputs(desc) ==
    LET p == Parse(desc)[Len(desc)]
    IN IF p.err \/ p.depth # 0 THEN <<>>
       ELSE [u \in DOMAIN p.bits |->
                [report |-> p.bits[u].report, bit |-> p.bits[u].bit,
                 payload |-> Bytes(p.offsets[p.bits[u].report])]]
=============================================================================

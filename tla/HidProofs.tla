----------------------------- MODULE HidProofs -----------------------------
(***************************************************************************)
(* The descriptor parser finds what the items declare, for every           *)
(* descriptor and every limit.                                             *)
(*                                                                         *)
(* The parser and Nesting are functions defined from their own value one   *)
(* item earlier, so both need induction over the items: a set of the       *)
(* lengths for which a statement holds has no least length outside         *)
(* (LeastOf, Induction).  Agrees says what each variable of the parser     *)
(* stands for in the items read so far.  It starts, every item keeps it    *)
(* (one lemma ...Step for each of its parts), and after the last item it   *)
(* is the contract.                                                        *)
(***************************************************************************)
EXTENDS HidDeclared, FiniteSetTheorems, WellFoundedInduction, TLAPS

LEMMA LeastOf ==
    ASSUME NEW S \in SUBSET Nat, S # {}
    PROVE  \E m \in S : \A n \in S : m <= n
<1> DEFINE Below(s) == 0 .. s - 1
           T == {Below(s) : s \in S}
           R == StrictSubsetOrdering(Nat)
<1>1. \A s \in S : Below(s) \in FiniteSubsetsOf(Nat)
    BY FS_Interval DEF FiniteSubsetsOf
<1>2. \E x \in T : \A y \in T : ~(<<y, x>> \in R)
    <2>1. T \subseteq FiniteSubsetsOf(Nat) /\ T # {}
        BY <1>1
    <2> HIDE DEF T, R
    <2> QED BY <2>1, FS_StrictSubsetOrderingWellFounded, WFMin DEF R
<1>3. PICK m \in S : \A n \in S : ~(<<Below(n), Below(m)>> \in R)
    BY <1>2
<1>4. ASSUME NEW n \in S, n < m PROVE FALSE
    <2>1. Below(n) \subseteq Below(m) /\ n \in Below(m) /\ n \notin Below(n)
        BY <1>4
    <2> QED BY <1>1, <1>3, <2>1 DEF StrictSubsetOrdering, FiniteSubsetsOf
<1> QED BY <1>4

LEMMA Induction ==
    ASSUME NEW S \in SUBSET Nat, 0 \in S, \A n \in S : n + 1 \in S
    PROVE  \A n \in Nat : n \in S
<1> DEFINE out == Nat \ S
<1> SUFFICES ASSUME out # {} PROVE FALSE
    OBVIOUS
<1>1. PICK m \in out : \A n \in out : m <= n
    <2> HIDE DEF out
    <2>1. out \subseteq Nat
        BY DEF out
    <2> QED BY <2>1, LeastOf
<1>2. m # 0 /\ m - 1 \in Nat /\ m - 1 \notin out
    BY <1>1
<1> QED BY <1>1, <1>2

----------------------------------------------------------------------------
LEMMA DescriptorIs ==
    ASSUME NEW d \in Descriptors
    PROVE  /\ Len(d) \in Nat /\ DOMAIN d = 1 .. Len(d)
           /\ \A k \in 1 .. Len(d) : d[k].tag \in Tags /\ d[k].v \in Nat
<1> DEFINE T == [tag : Tags, v : Nat]
<1>1. d \in Seq(T)
    BY DEF Descriptors
<1>2. Len(d) \in Nat /\ DOMAIN d = 1 .. Len(d) /\ \A k \in 1 .. Len(d) : d[k] \in T
    <2> HIDE DEF T
    <2> QED BY <1>1
<1> QED BY <1>2

Nested(d, k, before) ==
    IF d[k].tag = "push" THEN before + 1
    ELSE IF d[k].tag = "pop" /\ before > 0 THEN before - 1
    ELSE before

LEMMA NestingIs ==
    ASSUME NEW d \in Descriptors
    PROVE  /\ Nesting(d) \in [0 .. Len(d) -> Nat]
           /\ Nesting(d)[0] = 0
           /\ \A k \in 1 .. Len(d) : Nesting(d)[k] = Nested(d, k, Nesting(d)[k - 1])
<1> DEFINE To(k, f) == DOMAIN f = 0 .. k /\ f[0] = 0 /\ \A i \in 1 .. k : f[i] = Nested(d, i, f[i - 1])
           S == {k \in Nat : \E f : To(k, f)}
           n == Nesting(d)
<1>0. Len(d) \in Nat
    BY DescriptorIs
<1>1. 0 \in S
    <2>1. To(0, [i \in 0 .. 0 |-> 0])
        OBVIOUS
    <2> HIDE DEF To
    <2> QED BY <2>1
<1>2. ASSUME NEW k \in S PROVE k + 1 \in S
    <2>1. PICK f : To(k, f)
        OBVIOUS
    <2> DEFINE g == [i \in 0 .. k + 1 |-> IF i = k + 1 THEN Nested(d, k + 1, f[k]) ELSE f[i]]
    <2>2. DOMAIN g = 0 .. k + 1 /\ g[0] = 0 /\ \A i \in 0 .. k : g[i] = f[i]
        BY <2>1
    <2>3. ASSUME NEW i \in 1 .. k + 1 PROVE g[i] = Nested(d, i, g[i - 1])
        <3>1. CASE i = k + 1
            BY <2>2, <3>1
        <3>2. CASE i \in 1 .. k
            <4>1. g[i] = f[i] /\ g[i - 1] = f[i - 1]
                BY <2>2, <3>2
            <4> QED BY <2>1, <3>2, <4>1
        <3> QED BY <3>1, <3>2
    <2> HIDE DEF g
    <2> QED BY <2>2, <2>3
<1>3. \E f : To(Len(d), f)
    <2> HIDE DEF To
    <2>1. S \subseteq Nat
        OBVIOUS
    <2>2. Len(d) \in S
        <3> HIDE DEF S
        <3> QED BY <1>0, <1>1, <1>2, <2>1, Induction
    <2> QED BY <2>2
<1> DEFINE Is(f) == f = [k \in 0 .. Len(d) |->
                           IF k = 0 THEN 0
                           ELSE LET before == f[k - 1]
                                IN IF d[k].tag = "push" THEN before + 1
                                   ELSE IF d[k].tag = "pop" /\ before > 0 THEN before - 1
                                   ELSE before]
<1>4. PICK f : To(Len(d), f)
    BY <1>3
<1>4a. \E h : Is(h)
    <2> DEFINE h == [k \in 0 .. Len(d) |-> f[k]]
    <2>1. Is(h)
       BY <1>0, <1>4 DEF Nested
    <2> QED BY <2>1
<1>5. Is(n)
    <2>1. n = CHOOSE h : Is(h)
        BY DEF Nesting
    <2> HIDE DEF Is, n
    <2> QED BY <1>4a, <2>1
<1>6. DOMAIN n = 0 .. Len(d) /\ n[0] = 0 /\ \A k \in 1 .. Len(d) : n[k] = Nested(d, k, n[k - 1])
    <2> HIDE DEF n
    <2> QED BY <1>0, <1>5 DEF Nested
<1>7. \A k \in 0 .. Len(d) : n[k] \in Nat
    <2> DEFINE U == {k \in Nat : k <= Len(d) => n[k] \in Nat}
    <2> HIDE DEF n
    <2>1. 0 \in U
        BY <1>6
    <2>2. ASSUME NEW k \in U PROVE k + 1 \in U
        BY <1>0, <1>6 DEF Nested
    <2>3. \A k \in Nat : k \in U
        <3>1. U \subseteq Nat
            OBVIOUS
        <3> HIDE DEF U
        <3> QED BY <2>1, <2>2, <3>1, Induction
    <2> QED BY <2>3, <1>0
<1>8. n \in [0 .. Len(d) -> Nat]
    <2>1. n = [k \in 0 .. Len(d) |-> n[k]]
        BY <1>5
    <2> HIDE DEF n
    <2> QED BY <1>7, <2>1
<1> QED BY <1>6, <1>8

LEMMA ParseIs ==
    ASSUME NEW d \in Descriptors
    PROVE  /\ Parse(d)[0] = Start
           /\ \A k \in 1 .. Len(d) :
                Parse(d)[k] = ParseItem(Parse(d)[k - 1], d[k], DescriptorBytes(d) * IndexedPerByte)
<1> DEFINE Next(p, k) == ParseItem(p, d[k], DescriptorBytes(d) * IndexedPerByte)
           To(k, f) == DOMAIN f = 0 .. k /\ f[0] = Start /\ \A i \in 1 .. k : f[i] = Next(f[i - 1], i)
           S == {k \in Nat : \E f : To(k, f)}
           Is(f) == f = [i \in 0 .. Len(d) |-> IF i = 0 THEN Start ELSE Next(f[i - 1], i)]
           n == Parse(d)
<1>0. Len(d) \in Nat
    BY DescriptorIs
<1>1. n = CHOOSE h : Is(h)
    BY DEF Parse
<1> HIDE DEF Next, n
<1>2. 0 \in S
    <2>1. To(0, [i \in 0 .. 0 |-> Start])
        OBVIOUS
    <2> HIDE DEF To
    <2> QED BY <2>1
<1>3. ASSUME NEW k \in S PROVE k + 1 \in S
    <2>1. PICK f : To(k, f)
        OBVIOUS
    <2> DEFINE g == [i \in 0 .. k + 1 |-> IF i = k + 1 THEN Next(f[k], k + 1) ELSE f[i]]
    <2>2. DOMAIN g = 0 .. k + 1 /\ g[0] = Start /\ \A i \in 0 .. k : g[i] = f[i]
        BY <2>1
    <2>3. ASSUME NEW i \in 1 .. k + 1 PROVE g[i] = Next(g[i - 1], i)
        <3>1. CASE i = k + 1
            BY <2>2, <3>1
        <3>2. CASE i \in 1 .. k
            <4>1. g[i] = f[i] /\ g[i - 1] = f[i - 1]
                BY <2>2, <3>2
            <4> QED BY <2>1, <3>2, <4>1
        <3> QED BY <3>1, <3>2
    <2> HIDE DEF g
    <2> QED BY <2>2, <2>3
<1>4. PICK f : To(Len(d), f)
    <2> HIDE DEF To
    <2>1. S \subseteq Nat
        OBVIOUS
    <2>2. Len(d) \in S
        <3> HIDE DEF S
        <3> QED BY <1>0, <1>2, <1>3, <2>1, Induction
    <2> QED BY <2>2
<1>5. Is([i \in 0 .. Len(d) |-> f[i]])
    BY <1>0, <1>4
<1>6. Is(n)
    <2> HIDE DEF Is
    <2> QED BY <1>1, <1>5
<1>7. n[0] = Start /\ \A k \in 1 .. Len(d) : n[k] = Next(n[k - 1], k)
    BY <1>0, <1>6
<1> QED BY <1>7 DEF n, Next

----------------------------------------------------------------------------
LEMMA GreatestIs ==
    ASSUME NEW n \in Nat, NEW S \in SUBSET (0 .. n), S # {}
    PROVE  Max(S) \in S /\ \A j \in S : j <= Max(S)
<1> DEFINE up == {n - j : j \in S}
<1>0. \A j \in S : j \in Nat /\ j <= n
    OBVIOUS
<1>1. up \subseteq Nat /\ up # {}
    <2>1. \A j \in S : n - j \in Nat
        BY <1>0
    <2>2. PICK j \in S : TRUE
        OBVIOUS
    <2>3. n - j \in up
        OBVIOUS
    <2> QED BY <2>1, <2>3
<1>2. PICK m \in up : \A i \in up : m <= i
    <2> HIDE DEF up
    <2> QED BY <1>1, LeastOf
<1>3. PICK l \in S : m = n - l
    OBVIOUS
<1>4. ASSUME NEW j \in S PROVE j <= l
    <2>1. n - j \in up
        OBVIOUS
    <2>2. n - l <= n - j
        <3> HIDE DEF up
        <3> QED BY <1>2, <1>3, <2>1
    <2>3. j \in Nat /\ l \in Nat
        BY <1>0
    <2> QED BY <2>2, <2>3
<1> QED BY <1>0, <1>4 DEF Max

\* The latest of some items.
LEMMA LatestIs ==
    ASSUME NEW n \in Nat, NEW S \in SUBSET (1 .. n), S # {}
    PROVE  Max(S) \in S /\ \A j \in S : j <= Max(S)
<1>1. S \in SUBSET (0 .. n)
    OBVIOUS
<1> QED BY <1>1, GreatestIs

LEMMA LatestUnique ==
    ASSUME NEW n \in Nat, NEW S \in SUBSET (1 .. n), NEW k \in S, \A j \in S : j <= k
    PROVE  Max(S) = k
<1>1. PICK m : m = Max(S)
    OBVIOUS
<1>2. m \in S /\ \A j \in S : j <= m
    BY <1>1, LatestIs
<1>3. k <= m /\ m <= k /\ k \in Nat /\ m \in Nat
    BY <1>2
<1>4. k = m
    BY <1>3
<1> QED BY <1>1, <1>4

(***************************************************************************)
(* The items in force at each nesting: what a Pop to that nesting goes     *)
(* back to.                                                                *)
(***************************************************************************)
Held(d, k, m, tag) ==
    {j \in Tagged(d, {tag}) : j < k /\ Nesting(d)[j] <= m /\ \A q \in j .. k - 1 : Nesting(d)[q] >= Nesting(d)[j]}
Value(d, k, m, tag) == IF Held(d, k, m, tag) = {} THEN 0 ELSE d[Max(Held(d, k, m, tag))].v
State(d, k, m) ==
    [page |-> Value(d, k, m, "page"), size |-> Value(d, k, m, "size"),
     count |-> Value(d, k, m, "count"), id |-> Value(d, k, m, "id")]

LEMMA TaggedIs ==
    ASSUME NEW d \in Descriptors, NEW tags
    PROVE  /\ Tagged(d, tags) \subseteq 1 .. Len(d)
           /\ \A j \in 1 .. Len(d) : j \in Tagged(d, tags) <=> d[j].tag \in tags
BY DescriptorIs DEF Tagged

LEMMA GlobalIs ==
    ASSUME NEW d \in Descriptors, NEW k \in 1 .. Len(d) + 1, NEW tag
    PROVE  Global(d, k, tag) = Value(d, k, Nesting(d)[k - 1], tag)
<1> DEFINE n == Nesting(d)
           N == Len(d)
<1>1. N \in Nat /\ n \in [0 .. N -> Nat]
    BY DescriptorIs, NestingIs
<1>2. Tagged(d, {tag}) \subseteq 1 .. N
    BY TaggedIs
<1>3. InForce(d, k, tag) = Held(d, k, n[k - 1], tag)
    <2>1. InForce(d, k, tag) = {j \in Tagged(d, {tag}) : j < k /\ \A q \in j .. k - 1 : n[q] >= n[j]}
        BY DEF InForce
    <2> HIDE DEF n, N
    <2>2. ASSUME NEW j \in Tagged(d, {tag}), j < k, \A q \in j .. k - 1 : n[q] >= n[j]
          PROVE  n[j] <= n[k - 1]
        <3>1. j \in 1 .. N /\ k - 1 \in j .. k - 1
            BY <1>1, <1>2, <2>2 DEF N
        <3>2. n[j] \in Nat /\ n[k - 1] \in Nat
            BY <1>1, <3>1 DEF N
        <3> QED BY <2>2, <3>1, <3>2
    <2> QED BY <2>1, <2>2 DEF Held, n
<1> QED BY <1>3 DEF Global, Value

LEMMA HeldKeeps ==
    ASSUME NEW d \in Descriptors, NEW k \in 1 .. Len(d), NEW m \in Nat, NEW tag,
           m <= Nesting(d)[k - 1], m <= Nesting(d)[k], d[k].tag # tag \/ m < Nesting(d)[k]
    PROVE  Held(d, k + 1, m, tag) = Held(d, k, m, tag)
<1> DEFINE n == Nesting(d)
           N == Len(d)
           T == Tagged(d, {tag})
<1>1. N \in Nat /\ n \in [0 .. N -> Nat]
    BY DescriptorIs, NestingIs
<1>2. T \subseteq 1 .. N /\ \A j \in 1 .. N : j \in T <=> d[j].tag = tag
    BY TaggedIs
<1>3. /\ Held(d, k + 1, m, tag) = {j \in T : j < k + 1 /\ n[j] <= m /\ \A q \in j .. k : n[q] >= n[j]}
      /\ Held(d, k, m, tag) = {j \in T : j < k /\ n[j] <= m /\ \A q \in j .. k - 1 : n[q] >= n[j]}
    BY DEF Held
<1>4. k \in 1 .. N /\ m <= n[k] /\ (d[k].tag # tag \/ m < n[k]) /\ m <= n[k - 1]
    OBVIOUS
<1> HIDE DEF n, N, T
<1>5. ASSUME NEW j \in T, j < k + 1, n[j] <= m PROVE j < k
    BY <1>1, <1>2, <1>4, <1>5
<1>6. ASSUME NEW j \in T, j < k, n[j] <= m
      PROVE  (\A q \in j .. k : n[q] >= n[j]) <=> (\A q \in j .. k - 1 : n[q] >= n[j])
    <2>1. n[j] \in Nat /\ n[k] \in Nat
        BY <1>1, <1>2, <1>4
    <2>2. \A q \in j .. k : q \in j .. k - 1 \/ q = k
        BY <1>1, <1>2, <1>4
    <2>3. \A q \in j .. k - 1 : q \in j .. k
        BY <1>1, <1>2, <1>4
    <2> QED BY <1>4, <1>6, <2>1, <2>2, <2>3
<1>7. \A j \in T : j < k => j < k + 1
    BY <1>2, <1>4
<1> QED BY <1>3, <1>5, <1>6, <1>7

LEMMA HeldSays ==
    ASSUME NEW d \in Descriptors, NEW k \in 1 .. Len(d), NEW tag, d[k].tag = tag
    PROVE  Value(d, k + 1, Nesting(d)[k], tag) = d[k].v
<1> DEFINE n == Nesting(d)
           N == Len(d)
           H == Held(d, k + 1, n[k], tag)
<1>1. N \in Nat /\ n \in [0 .. N -> Nat]
    BY DescriptorIs, NestingIs
<1>2. Tagged(d, {tag}) \subseteq 1 .. N /\ k \in Tagged(d, {tag})
    BY TaggedIs
<1>3. H = {j \in Tagged(d, {tag}) : j < k + 1 /\ n[j] <= n[k] /\ \A q \in j .. k : n[q] >= n[j]}
    BY DEF Held
<1>4. k \in H /\ H \in SUBSET (1 .. N) /\ \A j \in H : j <= k
    <2> HIDE DEF n, N, H
    <2>1. k \in 1 .. N /\ n[k] \in Nat
        BY <1>1 DEF N
    <2>2. \A q \in k .. k : n[q] >= n[k]
        BY <2>1
    <2>3. k < k + 1 /\ n[k] <= n[k]
        BY <2>1
    <2>4. k \in H
        BY <1>2, <1>3, <2>2, <2>3
    <2>5. \A j \in H : j \in 1 .. N /\ j <= k
        BY <1>1, <1>2, <1>3, <2>1
    <2> QED BY <2>4, <2>5
<1>5. Max(H) = k
    <2> HIDE DEF H
    <2> QED BY <1>1, <1>4, LatestUnique
<1> QED BY <1>4, <1>5 DEF Value

LEMMA HeldPushed ==
    ASSUME NEW d \in Descriptors, NEW k \in 1 .. Len(d), NEW tag, d[k].tag = "push", tag # "push"
    PROVE  Held(d, k + 1, Nesting(d)[k], tag) = Held(d, k, Nesting(d)[k - 1], tag)
<1> DEFINE n == Nesting(d)
           N == Len(d)
           T == Tagged(d, {tag})
<1>1. N \in Nat /\ n \in [0 .. N -> Nat] /\ n[k] = n[k - 1] + 1
    BY DescriptorIs, NestingIs DEF Nested
<1>2. T \subseteq 1 .. N /\ \A j \in 1 .. N : j \in T <=> d[j].tag = tag
    BY TaggedIs
<1>3. /\ Held(d, k + 1, n[k], tag) = {j \in T : j < k + 1 /\ n[j] <= n[k] /\ \A q \in j .. k : n[q] >= n[j]}
      /\ Held(d, k, n[k - 1], tag) = {j \in T : j < k /\ n[j] <= n[k - 1] /\ \A q \in j .. k - 1 : n[q] >= n[j]}
    BY DEF Held
<1>4. k \in 1 .. N /\ d[k].tag # tag
    OBVIOUS
<1> HIDE DEF n, N, T
<1>5. ASSUME NEW j \in T
      PROVE  (j < k + 1 /\ n[j] <= n[k] /\ \A q \in j .. k : n[q] >= n[j])
               <=> (j < k /\ n[j] <= n[k - 1] /\ \A q \in j .. k - 1 : n[q] >= n[j])
    <2>1. j \in 1 .. N /\ j # k /\ n[j] \in Nat /\ n[k] \in Nat /\ n[k - 1] \in Nat
        BY <1>1, <1>2, <1>4
    <2>2. j < k => k - 1 \in j .. k /\ k \in Nat /\ \A q \in j .. k : q \in j .. k - 1 \/ q = k
        BY <1>1, <1>4, <2>1
    <2>3. \A q \in j .. k - 1 : q \in j .. k
        BY <1>1, <1>4, <2>1
    <2>4. j < k + 1 <=> j < k
        BY <1>1, <1>4, <2>1
    <2> DEFINE up == \A q \in j .. k : n[q] >= n[j]
               low == \A q \in j .. k - 1 : n[q] >= n[j]
    <2>5. ASSUME j < k, up PROVE n[j] <= n[k - 1] /\ low
        BY <2>1, <2>2, <2>3, <2>5
    <2>6. ASSUME j < k, n[j] <= n[k - 1], low PROVE n[j] <= n[k] /\ up
        BY <1>1, <2>1, <2>2, <2>6
    <2> HIDE DEF up, low
    <2> QED BY <2>4, <2>5, <2>6 DEF up, low
<1> DEFINE A(j) == j < k + 1 /\ n[j] <= n[k] /\ \A q \in j .. k : n[q] >= n[j]
           B(j) == j < k /\ n[j] <= n[k - 1] /\ \A q \in j .. k - 1 : n[q] >= n[j]
<1>6. Held(d, k + 1, Nesting(d)[k], tag) = {j \in T : A(j)}
    BY <1>3 DEF n
<1>7. Held(d, k, Nesting(d)[k - 1], tag) = {j \in T : B(j)}
    BY <1>3 DEF n
<1>8. \A j \in T : A(j) <=> B(j)
    BY <1>5
<1> HIDE DEF A, B
<1> QED BY <1>6, <1>7, <1>8

GlobalTags == {"page", "size", "count", "id"}

\* What an item does to the states: below the current nesting nothing.
LEMMA StatesBelow ==
    ASSUME NEW d \in Descriptors, NEW k \in 1 .. Len(d), NEW m \in Nat,
           m <= Nesting(d)[k - 1], m <= Nesting(d)[k], d[k].tag \notin GlobalTags \/ m < Nesting(d)[k]
    PROVE  State(d, k + 1, m) = State(d, k, m)
<1>1. \A tag \in GlobalTags : Held(d, k + 1, m, tag) = Held(d, k, m, tag)
    BY HeldKeeps
<1>2. \A tag \in GlobalTags : Value(d, k + 1, m, tag) = Value(d, k, m, tag)
    BY <1>1 DEF Value
<1> QED BY <1>2 DEF State, GlobalTags

LEMMA StateSays ==
    ASSUME NEW d \in Descriptors, NEW k \in 1 .. Len(d), d[k].tag \in GlobalTags
    PROVE  LET now == State(d, k + 1, Nesting(d)[k])
               then == State(d, k, Nesting(d)[k - 1])
               v == d[k].v
           IN now = [page  |-> IF d[k].tag = "page" THEN v ELSE then.page,
                     size  |-> IF d[k].tag = "size" THEN v ELSE then.size,
                     count |-> IF d[k].tag = "count" THEN v ELSE then.count,
                     id    |-> IF d[k].tag = "id" THEN v ELSE then.id]
<1> DEFINE m == Nesting(d)[k]
<1>1. m \in Nat /\ Nesting(d)[k - 1] = m
    BY DescriptorIs, NestingIs DEF Nested, GlobalTags
<1>2. \A tag : d[k].tag = tag => Value(d, k + 1, m, tag) = d[k].v
    BY HeldSays
<1>3. \A tag : d[k].tag # tag => Held(d, k + 1, m, tag) = Held(d, k, m, tag)
    <2> HIDE DEF m
    <2>1. m = Nesting(d)[k] /\ m \in Nat /\ m <= m /\ Nesting(d)[k - 1] = m
        BY <1>1 DEF m
    <2> QED BY <2>1, HeldKeeps
<1>4. \A tag : d[k].tag # tag => Value(d, k + 1, m, tag) = Value(d, k, m, tag)
    BY <1>3 DEF Value
<1> HIDE DEF m
<1>5. QED BY <1>1, <1>2, <1>4 DEF State, m

LEMMA StatePushed ==
    ASSUME NEW d \in Descriptors, NEW k \in 1 .. Len(d), d[k].tag = "push"
    PROVE  State(d, k + 1, Nesting(d)[k]) = State(d, k, Nesting(d)[k - 1])
<1>1. \A tag \in GlobalTags : Held(d, k + 1, Nesting(d)[k], tag) = Held(d, k, Nesting(d)[k - 1], tag)
    BY HeldPushed DEF GlobalTags
<1>2. \A tag \in GlobalTags : Value(d, k + 1, Nesting(d)[k], tag) = Value(d, k, Nesting(d)[k - 1], tag)
    BY <1>1 DEF Value
<1> QED BY <1>2 DEF State, GlobalTags

LEMMA StateStarts ==
    ASSUME NEW d \in Descriptors
    PROVE  State(d, 1, 0) = Globals
<1>1. ASSUME NEW tag PROVE Held(d, 1, 0, tag) = {}
    <2>1. \A j \in Tagged(d, {tag}) : j \in Nat /\ ~(j < 1)
        BY TaggedIs, DescriptorIs
    <2> QED BY <2>1 DEF Held
<1> QED BY <1>1 DEF State, Value, Globals

LEMMA StateIs ==
    ASSUME NEW d \in Descriptors, NEW k \in 1 .. Len(d) + 1, NEW m \in Nat
    PROVE  /\ State(d, k, m) \in [page : Nat, size : Nat, count : Nat, id : Nat]
           /\ \A tag : Value(d, k, m, tag) \in Nat
<1>1. ASSUME NEW tag PROVE Value(d, k, m, tag) \in Nat
    <2> DEFINE H == Held(d, k, m, tag)
    <2>1. H \in SUBSET (1 .. Len(d)) /\ Len(d) \in Nat
        BY TaggedIs, DescriptorIs DEF Held
    <2>2. H # {} => Max(H) \in 1 .. Len(d)
        <3> HIDE DEF H
        <3> QED BY <2>1, LatestIs
    <2> HIDE DEF H
    <2> QED BY <2>2, DescriptorIs DEF Value, H
<1> QED BY <1>1 DEF State

(***************************************************************************)
(* The parser's state before item k, and what its parts stand for.         *)
(***************************************************************************)
GlobalState == [page : Nat, size : Nat, count : Nat, id : Nat]

IsParser(p) ==
    /\ p = [g |-> p.g, usages |-> p.usages, range |-> p.range, offsets |-> p.offsets, pushed |-> p.pushed,
            depth |-> p.depth, indexed |-> p.indexed, bits |-> p.bits, err |-> p.err]
    /\ p.g \in GlobalState /\ p.usages \in Seq(Nat) /\ p.range \in [some : BOOLEAN, min : Nat, max : Nat]
    /\ p.pushed \in Seq(GlobalState) /\ p.depth \in Nat /\ p.indexed \in Nat

StatesAgree(d, k, p) ==
    LET n == Nesting(d)[k - 1]
    IN p.g = State(d, k, n) /\ p.pushed = [m \in 1 .. n |-> State(d, k, m - 1)]

UsagesAgree(d, k, p) ==
    LET js == Listed(d, k)
    IN /\ Len(p.usages) = Cardinality(js)
       /\ \A j \in js : Rank(js, j) \in 0 .. Len(p.usages) - 1 /\ p.usages[Rank(js, j) + 1] = UsageOf(d, j)
       /\ \A n \in 0 .. Len(p.usages) - 1 : \E j \in js : Rank(js, j) = n

RangeAgrees(d, k, p) ==
    /\ p.range.some <=> Ranged(d, k)
    /\ p.range.min = RangeEnd(d, k, Lows) /\ p.range.max = RangeEnd(d, k, Highs)

OffsetsAgree(d, k, p) ==
    /\ DOMAIN p.offsets = {Global(d, j, "id") : j \in {o \in Outputs(d) : o < k}}
    /\ \A r \in Nat : At(p.offsets, r, 0) = Cardinality(Taken(d, k, r))

PlaceOf(d, c) == [report |-> Global(d, c[1], "id"), bit |-> FirstBit(d, c[1]) + c[2]]

BitsAgree(d, k, p) ==
    /\ p.indexed = Cardinality(Claims(d, k))
    /\ DOMAIN p.bits = {c[3] : c \in Claims(d, k)}
    /\ \A u \in DOMAIN p.bits : \E c : c[3] = u /\ IsLast(d, k, c) /\ p.bits[u] = PlaceOf(d, c)

PairsAgree(d, k, p) == p.depth = Opened(d, k) - Closed(d, k)

Agrees(d, k, p) ==
    /\ IsParser(p)
    /\ IsFiniteSet(Claims(d, k)) /\ \A r \in Nat : IsFiniteSet(Taken(d, k, r))
    /\ p.err <=> Refused(d, k)
    /\ ~p.err => /\ StatesAgree(d, k, p) /\ UsagesAgree(d, k, p) /\ RangeAgrees(d, k, p)
                 /\ OffsetsAgree(d, k, p) /\ BitsAgree(d, k, p) /\ PairsAgree(d, k, p)

(***************************************************************************)
(* What the parser makes of an item.                                       *)
(***************************************************************************)
Parser(g, usages, range, offsets, pushed, depth, indexed, bits, err) ==
    [g |-> g, usages |-> usages, range |-> range, offsets |-> offsets, pushed |-> pushed,
     depth |-> depth, indexed |-> indexed, bits |-> bits, err |-> err]

LEMMA ParserIs ==
    ASSUME NEW p, IsParser(p)
    PROVE  p = Parser(p.g, p.usages, p.range, p.offsets, p.pushed, p.depth, p.indexed, p.bits, p.err)
BY DEF IsParser, Parser

LEMMA PartsAre ==
    ASSUME NEW g, NEW usages, NEW range, NEW offsets, NEW pushed, NEW depth, NEW indexed, NEW bits, NEW err,
           NEW p, p = Parser(g, usages, range, offsets, pushed, depth, indexed, bits, err)
    PROVE  /\ p.g = g /\ p.usages = usages /\ p.range = range /\ p.offsets = offsets /\ p.pushed = pushed
           /\ p.depth = depth /\ p.indexed = indexed /\ p.bits = bits /\ p.err = err
BY DEF Parser

LEMMA RecordsAre ==
    ASSUME NEW g \in GlobalState, NEW range \in [some : BOOLEAN, min : Nat, max : Nat], NEW v
    PROVE  /\ [g EXCEPT !.page = v] = [page |-> v, size |-> g.size, count |-> g.count, id |-> g.id]
           /\ [g EXCEPT !.size = v] = [page |-> g.page, size |-> v, count |-> g.count, id |-> g.id]
           /\ [g EXCEPT !.count = v] = [page |-> g.page, size |-> g.size, count |-> v, id |-> g.id]
           /\ [g EXCEPT !.id = v] = [page |-> g.page, size |-> g.size, count |-> g.count, id |-> v]
           /\ [range EXCEPT !.some = v] = [some |-> v, min |-> range.min, max |-> range.max]
           /\ [[range EXCEPT !.some = TRUE] EXCEPT !.min = v] = [some |-> TRUE, min |-> v, max |-> range.max]
           /\ [[range EXCEPT !.some = TRUE] EXCEPT !.max = v] = [some |-> TRUE, min |-> range.min, max |-> v]
<1>1. PICK page, size, count, id : g = [page |-> page, size |-> size, count |-> count, id |-> id]
    BY DEF GlobalState
<1>2. PICK some, min, max : range = [some |-> some, min |-> min, max |-> max]
    OBVIOUS
<1>3. /\ [g EXCEPT !.page = v] = [page |-> v, size |-> g.size, count |-> g.count, id |-> g.id]
      /\ [g EXCEPT !.size = v] = [page |-> g.page, size |-> v, count |-> g.count, id |-> g.id]
    BY <1>1
<1>4. /\ [g EXCEPT !.count = v] = [page |-> g.page, size |-> g.size, count |-> v, id |-> g.id]
      /\ [g EXCEPT !.id = v] = [page |-> g.page, size |-> g.size, count |-> g.count, id |-> v]
    BY <1>1
<1>5. [range EXCEPT !.some = v] = [some |-> v, min |-> range.min, max |-> range.max]
    BY <1>2
<1>6. ASSUME NEW on
      PROVE  /\ [[range EXCEPT !.some = on] EXCEPT !.min = v] = [some |-> on, min |-> v, max |-> range.max]
             /\ [[range EXCEPT !.some = on] EXCEPT !.max = v] = [some |-> on, min |-> range.min, max |-> v]
    <2> DEFINE r == [range EXCEPT !.some = on]
    <2>1. r = [some |-> on, min |-> min, max |-> max]
        BY <1>2
    <2>2. range.min = min /\ range.max = max
        BY <1>2
    <2> HIDE DEF r
    <2>3. [r EXCEPT !.min = v] = [some |-> on, min |-> v, max |-> max]
        BY <2>1
    <2>4. [r EXCEPT !.max = v] = [some |-> on, min |-> min, max |-> v]
        BY <2>1
    <2> QED BY <2>2, <2>3, <2>4 DEF r
<1> QED BY <1>3, <1>4, <1>5, <1>6

Stated(g, it) ==
    [page  |-> IF it.tag = "page" THEN it.v ELSE g.page,
     size  |-> IF it.tag = "size" THEN it.v ELSE g.size,
     count |-> IF it.tag = "count" THEN it.v ELSE g.count,
     id    |-> IF it.tag = "id" THEN it.v ELSE g.id]
Ended(range, it, key) ==
    [some |-> TRUE, min |-> IF it.tag \in Lows THEN key ELSE range.min,
                    max |-> IF it.tag \in Highs THEN key ELSE range.max]
Unranged(range) == [some |-> FALSE, min |-> range.min, max |-> range.max]

\* What the parser makes of each item but an output.
Does(q, it, g, usages, range, offsets, pushed, depth, indexed, bits, err) ==
    LET After(ng, nusages, nrange, npushed, ndepth, nerr) ==
          q = Parser(ng, nusages, nrange, offsets, npushed, ndepth, indexed, bits, nerr)
        key == PackUsage(g.page, it)
    IN /\ it.tag \in GlobalTags => After(Stated(g, it), usages, range, pushed, depth, err)
       /\ it.tag \in Usages => After(g, Append(usages, key), range, pushed, depth, err)
       /\ it.tag \in Lows \cup Highs => After(g, usages, Ended(range, it, key), pushed, depth, err)
       /\ it.tag = "input" => After(g, <<>>, Unranged(range), pushed, depth, err)
       /\ it.tag = "collection" => After(g, <<>>, Unranged(range), pushed, depth + 1, err)
       /\ it.tag = "end" /\ depth # 0 => After(g, <<>>, Unranged(range), pushed, depth - 1, err)
       /\ it.tag = "end" /\ depth = 0 => After(g, usages, range, pushed, depth, TRUE)
       /\ it.tag = "push"  => After(g, usages, range, Append(pushed, g), depth, err)
       /\ it.tag = "pop" /\ pushed # <<>> =>
             After(pushed[Len(pushed)], usages, range,
                   SubSeq(pushed, 1, Len(pushed) - 1), depth, err)
       /\ it.tag = "pop" /\ pushed = <<>> => After(g, usages, range, pushed, depth, err)
       /\ it.tag = "cut"   => After(g, usages, range, pushed, depth, TRUE)
       /\ it.tag = "other" => After(g, usages, range, pushed, depth, err)

LEMMA ItemDoes ==
    ASSUME NEW g \in GlobalState, NEW usages, NEW range \in [some : BOOLEAN, min : Nat, max : Nat], NEW offsets, NEW pushed, NEW depth, NEW indexed,
           NEW bits, NEW err, ~err, NEW it, it.tag \in Tags \ {"output"}, NEW budget,
           NEW p, p = Parser(g, usages, range, offsets, pushed, depth, indexed, bits, err)
    PROVE  Does(ParseItem(p, it, budget), it, g, usages, range, offsets, pushed, depth, indexed, bits, err)
<1> DEFINE After(ng, nusages, nrange, npushed, ndepth, nerr) ==
               Parser(ng, nusages, nrange, offsets, npushed, ndepth, indexed, bits, nerr)
           on == [range EXCEPT !.some = TRUE]
           off == [range EXCEPT !.some = FALSE]
           q == ParseItem(p, it, budget)
<1>0. p = [g |-> g, usages |-> usages, range |-> range, offsets |-> offsets, pushed |-> pushed,
           depth |-> depth, indexed |-> indexed, bits |-> bits, err |-> err]
    BY DEF Parser
<1>a. /\ p.g = g /\ p.usages = usages /\ p.range = range /\ p.pushed = pushed /\ p.depth = depth /\ p.err = err
    BY <1>0
<1>b. ASSUME NEW x
      PROVE  /\ [p EXCEPT !.g = x] = After(x, usages, range, pushed, depth, err)
             /\ [p EXCEPT !.usages = x] = After(g, x, range, pushed, depth, err)
             /\ [p EXCEPT !.range = x] = After(g, usages, x, pushed, depth, err)
             /\ [p EXCEPT !.pushed = x] = After(g, usages, range, x, depth, err)
             /\ [p EXCEPT !.depth = x] = After(g, usages, range, pushed, x, err)
             /\ [p EXCEPT !.err = x] = After(g, usages, range, pushed, depth, x)
    BY <1>0 DEF Parser
<1>c. ASSUME NEW n, NEW x, NEW y
      PROVE  /\ [After(g, usages, range, pushed, n, err) EXCEPT !.usages = x] = After(g, x, range, pushed, n, err)
             /\ [After(g, x, range, pushed, n, err) EXCEPT !.range = y] = After(g, x, y, pushed, n, err)
             /\ [After(x, usages, range, pushed, n, err) EXCEPT !.pushed = y] = After(x, usages, range, y, n, err)
             /\ After(g, x, range, pushed, n, err).range = range
    BY DEF Parser
<1>d. ASSUME NEW n PROVE ClearLocals(After(g, usages, range, pushed, n, err)) = After(g, <<>>, off, pushed, n, err)
    <2> DEFINE p1 == After(g, usages, range, pushed, n, err)
               p2 == [p1 EXCEPT !.usages = <<>>]
    <2>1. ClearLocals(p1) = [p2 EXCEPT !.range = [p2.range EXCEPT !.some = FALSE]]
        BY DEF ClearLocals
    <2> HIDE DEF p2
    <2>2. p2 = After(g, <<>>, range, pushed, n, err)
        BY <1>c DEF p2
    <2> HIDE DEF After, p1, p2, off
    <2>3. p2.range = range /\ [p2 EXCEPT !.range = off] = After(g, <<>>, off, pushed, n, err)
        BY <1>c, <2>2
    <2> QED BY <2>1, <2>3 DEF p1, off
<1>e. ASSUME NEW x
      PROVE  /\ [After(g, usages, on, pushed, depth, err) EXCEPT !.range.min = x]
                   = After(g, usages, [on EXCEPT !.min = x], pushed, depth, err)
             /\ [After(g, usages, on, pushed, depth, err) EXCEPT !.range.max = x]
                   = After(g, usages, [on EXCEPT !.max = x], pushed, depth, err)
    <2> DEFINE p1 == After(g, usages, on, pushed, depth, err)
    <2> HIDE DEF on
    <2>1. p1.range = on /\ \A y : [p1 EXCEPT !.range = y] = After(g, usages, y, pushed, depth, err)
        BY DEF Parser
    <2> HIDE DEF p1, After
    <2>2. /\ [p1 EXCEPT !.range.min = x] = [p1 EXCEPT !.range = [p1.range EXCEPT !.min = x]]
          /\ [p1 EXCEPT !.range.max = x] = [p1 EXCEPT !.range = [p1.range EXCEPT !.max = x]]
        OBVIOUS
    <2> QED BY <2>1, <2>2 DEF p1
<1> HIDE DEF After
<1>1. ASSUME it.tag = "page"
      PROVE  q = After([g EXCEPT !.page = it.v], usages, range, pushed, depth, err)
    <2>1. q = [p EXCEPT !.g = [g EXCEPT !.page = it.v]]
        BY <1>a, <1>1 DEF ParseItem, Usages, Lows, Highs
    <2>2. [p EXCEPT !.g = [g EXCEPT !.page = it.v]]
            = After([g EXCEPT !.page = it.v], usages, range, pushed, depth, err)
        BY <1>b
    <2> QED BY <2>1, <2>2
<1>2. ASSUME it.tag = "size"
      PROVE  q = After([g EXCEPT !.size = it.v], usages, range, pushed, depth, err)
    <2>1. q = [p EXCEPT !.g = [g EXCEPT !.size = it.v]]
        BY <1>a, <1>2 DEF ParseItem, Usages, Lows, Highs
    <2>2. [p EXCEPT !.g = [g EXCEPT !.size = it.v]]
            = After([g EXCEPT !.size = it.v], usages, range, pushed, depth, err)
        BY <1>b
    <2> QED BY <2>1, <2>2
<1>3. ASSUME it.tag = "count"
      PROVE  q = After([g EXCEPT !.count = it.v], usages, range, pushed, depth, err)
    <2>1. q = [p EXCEPT !.g = [g EXCEPT !.count = it.v]]
        BY <1>a, <1>3 DEF ParseItem, Usages, Lows, Highs
    <2>2. [p EXCEPT !.g = [g EXCEPT !.count = it.v]]
            = After([g EXCEPT !.count = it.v], usages, range, pushed, depth, err)
        BY <1>b
    <2> QED BY <2>1, <2>2
<1>4. ASSUME it.tag = "id"
      PROVE  q = After([g EXCEPT !.id = it.v], usages, range, pushed, depth, err)
    <2>1. q = [p EXCEPT !.g = [g EXCEPT !.id = it.v]]
        BY <1>a, <1>4 DEF ParseItem, Usages, Lows, Highs
    <2>2. [p EXCEPT !.g = [g EXCEPT !.id = it.v]]
            = After([g EXCEPT !.id = it.v], usages, range, pushed, depth, err)
        BY <1>b
    <2> QED BY <2>1, <2>2
<1>5. ASSUME it.tag \in Usages
      PROVE  q = After(g, Append(usages, PackUsage(g.page, it)), range, pushed, depth, err)
    <2>1. q = [p EXCEPT !.usages = Append(usages, PackUsage(g.page, it))]
        BY <1>a, <1>5 DEF ParseItem, Usages, Lows, Highs
    <2>2. [p EXCEPT !.usages = Append(usages, PackUsage(g.page, it))]
            = After(g, Append(usages, PackUsage(g.page, it)), range, pushed, depth, err)
        BY <1>b
    <2> QED BY <2>1, <2>2
<1>7. ASSUME it.tag \in Lows
      PROVE  q = After(g, usages, [on EXCEPT !.min = PackUsage(g.page, it)], pushed, depth, err)
    <2>1. q = [[p EXCEPT !.range = on] EXCEPT !.range.min = PackUsage(g.page, it)]
        BY <1>a, <1>7 DEF ParseItem, Usages, Lows, Highs
    <2> HIDE DEF q, on
    <2>2. [p EXCEPT !.range = on] = After(g, usages, on, pushed, depth, err)
        BY <1>b
    <2> QED BY <1>e, <2>1, <2>2
<1>8. ASSUME it.tag \in Highs
      PROVE  q = After(g, usages, [on EXCEPT !.max = PackUsage(g.page, it)], pushed, depth, err)
    <2>1. q = [[p EXCEPT !.range = on] EXCEPT !.range.max = PackUsage(g.page, it)]
        BY <1>a, <1>8 DEF ParseItem, Usages, Lows, Highs
    <2> HIDE DEF q, on
    <2>2. [p EXCEPT !.range = on] = After(g, usages, on, pushed, depth, err)
        BY <1>b
    <2> QED BY <1>e, <2>1, <2>2
<1>9. ASSUME it.tag = "input"
      PROVE  q = After(g, <<>>, off, pushed, depth, err)
    <2>1. q = ClearLocals(p) /\ p = After(g, usages, range, pushed, depth, err)
        BY <1>a, <1>9 DEF ParseItem, Usages, Lows, Highs, After
    <2> QED BY <1>d, <2>1
<1>10. ASSUME it.tag = "collection"
      PROVE  q = After(g, <<>>, off, pushed, depth + 1, err)
    <2>1. q = ClearLocals([p EXCEPT !.depth = depth + 1])
        BY <1>a, <1>10 DEF ParseItem, Usages, Lows, Highs, EndCollection
    <2>2. [p EXCEPT !.depth = depth + 1] = After(g, usages, range, pushed, depth + 1, err)
        BY <1>b
    <2> QED BY <1>d, <2>1, <2>2
<1>11. ASSUME it.tag = "end" /\ depth # 0
      PROVE  q = After(g, <<>>, off, pushed, depth - 1, err)
    <2>1. q = ClearLocals([p EXCEPT !.depth = depth - 1])
        BY <1>a, <1>11 DEF ParseItem, Usages, Lows, Highs, EndCollection
    <2>2. [p EXCEPT !.depth = depth - 1] = After(g, usages, range, pushed, depth - 1, err)
        BY <1>b
    <2> QED BY <1>d, <2>1, <2>2
<1>12. ASSUME it.tag = "end" /\ depth = 0
      PROVE  q = After(g, usages, range, pushed, depth, TRUE)
    <2>1. q = [p EXCEPT !.err = TRUE]
        BY <1>a, <1>12 DEF ParseItem, Usages, Lows, Highs, EndCollection, Fail
    <2>2. [p EXCEPT !.err = TRUE]
            = After(g, usages, range, pushed, depth, TRUE)
        BY <1>b
    <2> QED BY <2>1, <2>2
<1>13. ASSUME it.tag = "push"
      PROVE  q = After(g, usages, range, Append(pushed, g), depth, err)
    <2>1. q = [p EXCEPT !.pushed = Append(pushed, g)]
        BY <1>a, <1>13 DEF ParseItem, Usages, Lows, Highs
    <2>2. [p EXCEPT !.pushed = Append(pushed, g)]
            = After(g, usages, range, Append(pushed, g), depth, err)
        BY <1>b
    <2> QED BY <2>1, <2>2
<1>14. ASSUME it.tag = "pop" /\ pushed # <<>>
      PROVE  q = After(pushed[Len(pushed)], usages, range, SubSeq(pushed, 1, Len(pushed) - 1), depth, err)
    <2> DEFINE last == pushed[Len(pushed)]
               front == SubSeq(pushed, 1, Len(pushed) - 1)
    <2>1. q = [p EXCEPT !.g = last, !.pushed = front]
        BY <1>a, <1>14 DEF ParseItem, Usages, Lows, Highs, Pop, Last, Front
    <2>2. [p EXCEPT !.g = last, !.pushed = front] = [[p EXCEPT !.g = last] EXCEPT !.pushed = front]
        OBVIOUS
    <2> HIDE DEF last, front, q
    <2>3. [p EXCEPT !.g = last] = After(last, usages, range, pushed, depth, err)
        BY <1>b
    <2>4. [After(last, usages, range, pushed, depth, err) EXCEPT !.pushed = front]
             = After(last, usages, range, front, depth, err)
        BY <1>c
    <2> QED BY <2>1, <2>2, <2>3, <2>4 DEF last, front
<1>15. ASSUME it.tag = "cut"
      PROVE  q = After(g, usages, range, pushed, depth, TRUE)
    <2>1. q = [p EXCEPT !.err = TRUE]
        BY <1>a, <1>15 DEF ParseItem, Usages, Lows, Highs, Fail
    <2>2. [p EXCEPT !.err = TRUE]
            = After(g, usages, range, pushed, depth, TRUE)
        BY <1>b
    <2> QED BY <2>1, <2>2
<1>16. ASSUME it.tag = "other" \/ (it.tag = "pop" /\ pushed = <<>>)
      PROVE  q = After(g, usages, range, pushed, depth, err)
    <2>1. q = p
        BY <1>a, <1>16 DEF ParseItem, Usages, Lows, Highs, Pop
    <2> QED BY <2>1 DEF After
<1>17. off = Unranged(range)
    BY RecordsAre DEF Unranged
<1>18. /\ it.tag \in Lows => [on EXCEPT !.min = PackUsage(g.page, it)] = Ended(range, it, PackUsage(g.page, it))
       /\ it.tag \in Highs => [on EXCEPT !.max = PackUsage(g.page, it)] = Ended(range, it, PackUsage(g.page, it))
    <2> DEFINE key == PackUsage(g.page, it)
    <2> HIDE DEF key
    <2>1. /\ [on EXCEPT !.min = key] = [some |-> TRUE, min |-> key, max |-> range.max]
          /\ [on EXCEPT !.max = key] = [some |-> TRUE, min |-> range.min, max |-> key]
        BY RecordsAre
    <2> QED BY <2>1 DEF Ended, Lows, Highs, key
<1>19. /\ it.tag = "page" => [g EXCEPT !.page = it.v] = Stated(g, it)
       /\ it.tag = "size" => [g EXCEPT !.size = it.v] = Stated(g, it)
       /\ it.tag = "count" => [g EXCEPT !.count = it.v] = Stated(g, it)
       /\ it.tag = "id" => [g EXCEPT !.id = it.v] = Stated(g, it)
    BY RecordsAre DEF Stated
<1>20. it.tag \in GlobalTags => q = After(Stated(g, it), usages, range, pushed, depth, err)
    <2> HIDE DEF q
    <2> QED BY <1>1, <1>2, <1>3, <1>4, <1>19 DEF GlobalTags
<1>21. it.tag \in Lows \cup Highs => q = After(g, usages, Ended(range, it, PackUsage(g.page, it)), pushed, depth, err)
    <2> HIDE DEF q
    <2> QED BY <1>7, <1>8, <1>18
<1> QED BY <1>5, <1>9, <1>10, <1>11, <1>12, <1>13, <1>14, <1>15, <1>16, <1>17, <1>20, <1>21 DEF After, Does

\* What the parser makes of an output.
Puts(q, p, g, usages, range, offsets, pushed, depth, indexed, bits, err, budget) ==
    LET start == At(offsets, g.id, 0)
        end == start + g.size * g.count
        found == IF g.size = 1 THEN Named(p) ELSE 0
        placed == IF g.size = 1 THEN Placed(p, start) ELSE bits
    IN q = IF Bytes(end) > MaxReportBytes \/ indexed + found > budget
           THEN Parser(g, usages, range, offsets, pushed, depth, indexed, bits, TRUE)
           ELSE Parser(g, <<>>, [range EXCEPT !.some = FALSE], With(offsets, g.id, end), pushed,
                       depth, indexed + found, placed, err)

LEMMA OutputDoes ==
    ASSUME NEW g, NEW usages, NEW range, NEW offsets, NEW pushed, NEW depth, NEW indexed,
           NEW bits, NEW err, ~err, NEW it, it.tag = "output", NEW budget,
           NEW p, p = Parser(g, usages, range, offsets, pushed, depth, indexed, bits, err)
    PROVE  Puts(ParseItem(p, it, budget), p, g, usages, range, offsets, pushed, depth, indexed, bits, err, budget)
<1> DEFINE After(nusages, nrange, noffsets, nindexed, nbits, nerr) ==
               Parser(g, nusages, nrange, noffsets, pushed, depth, nindexed, nbits, nerr)
           off == [range EXCEPT !.some = FALSE]
           start == At(offsets, g.id, 0)
           end == start + g.size * g.count
           found == IF g.size = 1 THEN Named(p) ELSE 0
           placed == IF g.size = 1 THEN Placed(p, start) ELSE bits
           q == ParseItem(p, it, budget)
           full == Bytes(end) > MaxReportBytes \/ indexed + found > budget
           there == With(offsets, g.id, end)
           moved == [p EXCEPT !.offsets = there]
           counted == [moved EXCEPT !.indexed = indexed + found]
           done == [counted EXCEPT !.bits = placed]
           cleared == [done EXCEPT !.usages = <<>>]
<1>1. p = [g |-> g, usages |-> usages, range |-> range, offsets |-> offsets, pushed |-> pushed,
           depth |-> depth, indexed |-> indexed, bits |-> bits, err |-> err]
    BY DEF Parser
<1>2. /\ p.g = g /\ p.usages = usages /\ p.range = range /\ p.offsets = offsets
      /\ p.indexed = indexed /\ p.bits = bits /\ p.err = err
    BY <1>1
<1> HIDE DEF off, start, end, found, placed, there
<1>3. q = Output(p, budget)
    BY <1>2 DEF ParseItem, Usages, Lows, Highs
<1>4. full => q = [p EXCEPT !.err = TRUE]
    <2>1. Output(p, budget) = IF full THEN Fail(p)
                              ELSE ClearLocals([moved EXCEPT !.indexed = moved.indexed + found,
                                                             !.bits = IF p.g.size = 1 THEN Placed(p, start) ELSE moved.bits])
        BY <1>2 DEF Output, start, end, found, there
    <2> HIDE DEF q, full, moved
    <2> QED BY <1>3, <2>1 DEF Fail
<1>5. ASSUME NEW x
      PROVE  /\ [p EXCEPT !.err = x] = After(usages, range, offsets, indexed, bits, x)
             /\ [p EXCEPT !.offsets = x] = After(usages, range, x, indexed, bits, err)
    BY <1>1 DEF Parser
<1>6. moved = After(usages, range, there, indexed, bits, err) /\ moved.indexed = indexed /\ moved.bits = bits
    <2>1. moved = After(usages, range, there, indexed, bits, err)
        BY <1>5
    <2> QED BY <2>1, PartsAre
<1>7. counted = After(usages, range, there, indexed + found, bits, err)
    <2> DEFINE sum == indexed + found
    <2> HIDE DEF moved, sum
    <2>1. [moved EXCEPT !.indexed = sum] = After(usages, range, there, sum, bits, err)
        BY <1>6 DEF Parser
    <2> QED BY <2>1 DEF sum
<1>8. done = After(usages, range, there, indexed + found, placed, err)
    <2> DEFINE sum == indexed + found
    <2> HIDE DEF counted, sum
    <2>1. counted = After(usages, range, there, sum, bits, err)
        BY <1>7 DEF sum
    <2>2. [counted EXCEPT !.bits = placed] = After(usages, range, there, sum, placed, err)
        BY <2>1 DEF Parser
    <2> QED BY <2>2 DEF sum
<1>9. cleared = After(<<>>, range, there, indexed + found, placed, err) /\ cleared.range = range
    <2> DEFINE sum == indexed + found
    <2> HIDE DEF done, sum
    <2>1. done = After(usages, range, there, sum, placed, err)
        BY <1>8 DEF sum
    <2>2. cleared = After(<<>>, range, there, sum, placed, err)
        BY <2>1 DEF Parser
    <2> HIDE DEF cleared
    <2>3. cleared.range = range
        BY <2>2, PartsAre
    <2> QED BY <2>2, <2>3 DEF sum
<1>10. [cleared EXCEPT !.range = off] = After(<<>>, off, there, indexed + found, placed, err)
    <2> DEFINE sum == indexed + found
    <2> HIDE DEF cleared, sum
    <2>1. cleared = After(<<>>, range, there, sum, placed, err)
        BY <1>9 DEF sum
    <2>2. [cleared EXCEPT !.range = off] = After(<<>>, off, there, sum, placed, err)
        BY <2>1 DEF Parser
    <2> QED BY <2>2 DEF sum
<1>11. ClearLocals(done) = [cleared EXCEPT !.range = off]
    <2>1. ClearLocals(done) = [cleared EXCEPT !.range = [cleared.range EXCEPT !.some = FALSE]]
        <3> HIDE DEF done
        <3> QED BY DEF ClearLocals
    <2> HIDE DEF cleared, done
    <2> QED BY <1>9, <2>1 DEF off
<1>12. ~full => q = ClearLocals(done)
    <2>1. ~full => Output(p, budget) = ClearLocals([moved EXCEPT !.indexed = moved.indexed + found,
                                        !.bits = IF p.g.size = 1 THEN Placed(p, start) ELSE moved.bits])
        BY <1>2 DEF Output, start, end, found, there
    <2>2. (IF p.g.size = 1 THEN Placed(p, start) ELSE moved.bits) = placed
        BY <1>2, <1>6 DEF placed
    <2>3. moved.indexed + found = indexed + found
        BY <1>6
    <2>4. [moved EXCEPT !.indexed = indexed + found, !.bits = placed] = done
        OBVIOUS
    <2> HIDE DEF moved, q, full, done, Output
    <2> QED BY <1>3, <2>1, <2>2, <2>3, <2>4
<1>13. q = IF full THEN After(usages, range, offsets, indexed, bits, TRUE)
           ELSE After(<<>>, off, there, indexed + found, placed, err)
    <2> HIDE DEF q, full, done, cleared
    <2> QED BY <1>4, <1>5, <1>10, <1>11, <1>12
<1> HIDE DEF q, full
<1> QED BY <1>13 DEF Puts, q, full, off, there, placed, found, end, start

LEMMA OtherThanOutput ==
    ASSUME NEW p, IsParser(p), ~p.err, NEW it, it.tag \in Tags \ {"output"}, NEW budget,
           NEW q, q = ParseItem(p, it, budget)
    PROVE  /\ q.g = IF it.tag = "pop" /\ p.pushed # <<>> THEN p.pushed[Len(p.pushed)] ELSE Stated(p.g, it)
           /\ q.pushed = IF it.tag = "push" THEN Append(p.pushed, p.g)
                         ELSE IF it.tag = "pop" /\ p.pushed # <<>> THEN SubSeq(p.pushed, 1, Len(p.pushed) - 1)
                         ELSE p.pushed
           /\ q.usages = IF it.tag \in Usages THEN Append(p.usages, PackUsage(p.g.page, it))
                         ELSE IF it.tag \in Mains /\ ~q.err THEN <<>>
                         ELSE p.usages
           /\ q.range = IF it.tag \in Lows \cup Highs THEN Ended(p.range, it, PackUsage(p.g.page, it))
                        ELSE IF it.tag \in Mains /\ ~q.err THEN Unranged(p.range)
                        ELSE p.range
           /\ q.offsets = p.offsets /\ q.bits = p.bits /\ q.indexed = p.indexed
           /\ q.depth = IF it.tag = "collection" THEN p.depth + 1
                        ELSE IF it.tag = "end" /\ p.depth # 0 THEN p.depth - 1
                        ELSE p.depth
           /\ q.err <=> it.tag = "cut" \/ (it.tag = "end" /\ p.depth = 0)
           /\ q = Parser(q.g, q.usages, q.range, q.offsets, q.pushed, q.depth, q.indexed, q.bits, q.err)
<1> DEFINE key == PackUsage(p.g.page, it)
           Is(g, usages, range, pushed, depth, err) ==
               q = Parser(g, usages, range, p.offsets, pushed, depth, p.indexed, p.bits, err)
           last == p.pushed[Len(p.pushed)]
           front == SubSeq(p.pushed, 1, Len(p.pushed) - 1)
           listed == Append(p.usages, key)
           deeper == Append(p.pushed, p.g)
<1>0. /\ p = Parser(p.g, p.usages, p.range, p.offsets, p.pushed, p.depth, p.indexed, p.bits, p.err)
      /\ p.g \in GlobalState /\ p.range \in [some : BOOLEAN, min : Nat, max : Nat]
    BY ParserIs DEF IsParser
<1>1. /\ it.tag \in GlobalTags => Is(Stated(p.g, it), p.usages, p.range, p.pushed, p.depth, p.err)
      /\ it.tag \in Usages => Is(p.g, listed, p.range, p.pushed, p.depth, p.err)
      /\ it.tag \in Lows \cup Highs => Is(p.g, p.usages, Ended(p.range, it, key), p.pushed, p.depth, p.err)
      /\ it.tag = "input" => Is(p.g, <<>>, Unranged(p.range), p.pushed, p.depth, p.err)
      /\ it.tag = "collection" => Is(p.g, <<>>, Unranged(p.range), p.pushed, p.depth + 1, p.err)
      /\ it.tag = "end" /\ p.depth # 0 => Is(p.g, <<>>, Unranged(p.range), p.pushed, p.depth - 1, p.err)
      /\ it.tag = "end" /\ p.depth = 0 => Is(p.g, p.usages, p.range, p.pushed, p.depth, TRUE)
      /\ it.tag = "push"  => Is(p.g, p.usages, p.range, deeper, p.depth, p.err)
      /\ it.tag = "pop" /\ p.pushed # <<>> => Is(last, p.usages, p.range, front, p.depth, p.err)
      /\ it.tag = "pop" /\ p.pushed = <<>> => Is(p.g, p.usages, p.range, p.pushed, p.depth, p.err)
      /\ it.tag = "cut"   => Is(p.g, p.usages, p.range, p.pushed, p.depth, TRUE)
      /\ it.tag = "other" => Is(p.g, p.usages, p.range, p.pushed, p.depth, p.err)
    <2>1. Does(q, it, p.g, p.usages, p.range, p.offsets, p.pushed, p.depth, p.indexed, p.bits, p.err)
        BY <1>0, ItemDoes
    <2> QED BY <2>1 DEF Does
<1>2. ASSUME NEW g, NEW usages, NEW range, NEW pushed, NEW depth, NEW err, Is(g, usages, range, pushed, depth, err)
      PROVE  /\ q.g = g /\ q.usages = usages /\ q.range = range /\ q.offsets = p.offsets /\ q.pushed = pushed
             /\ q.depth = depth /\ q.indexed = p.indexed /\ q.bits = p.bits /\ q.err = err
             /\ q = Parser(q.g, q.usages, q.range, q.offsets, q.pushed, q.depth, q.indexed, q.bits, q.err)
    BY <1>2, PartsAre
<1>3. ASSUME NEW g, NEW usages, NEW range, NEW pushed, NEW depth, Is(g, usages, range, pushed, depth, TRUE)
      PROVE  /\ q.g = g /\ q.usages = usages /\ q.range = range /\ q.offsets = p.offsets /\ q.pushed = pushed
             /\ q.depth = depth /\ q.indexed = p.indexed /\ q.bits = p.bits /\ q.err = TRUE
             /\ q = Parser(q.g, q.usages, q.range, q.offsets, q.pushed, q.depth, q.indexed, q.bits, q.err)
    BY <1>2, <1>3, Zenon
<1>4. it.tag \notin GlobalTags => Stated(p.g, it) = p.g
    BY <1>0 DEF Stated, GlobalTags, GlobalState
<1> HIDE DEF Is, key, last, front, listed, deeper
<1>11. CASE it.tag \in GlobalTags
    <2>1. /\ q.g = Stated(p.g, it) /\ q.usages = p.usages /\ q.range = p.range
          /\ q.offsets = p.offsets /\ q.pushed = p.pushed /\ q.depth = p.depth
          /\ q.indexed = p.indexed /\ q.bits = p.bits /\ q.err = p.err
          /\ q = Parser(q.g, q.usages, q.range, q.offsets, q.pushed, q.depth, q.indexed, q.bits, q.err)
        BY <1>1, <1>2, <1>11
    <2> QED BY <1>11, <2>1, <1>4 DEF GlobalTags, Mains, Usages, Lows, Highs, key, last, front, listed, deeper
<1>12. CASE it.tag \in Usages
    <2>1. /\ q.g = p.g /\ q.usages = listed /\ q.range = p.range
          /\ q.offsets = p.offsets /\ q.pushed = p.pushed /\ q.depth = p.depth
          /\ q.indexed = p.indexed /\ q.bits = p.bits /\ q.err = p.err
          /\ q = Parser(q.g, q.usages, q.range, q.offsets, q.pushed, q.depth, q.indexed, q.bits, q.err)
        BY <1>1, <1>2, <1>12
    <2> QED BY <1>12, <2>1, <1>4 DEF GlobalTags, Mains, Usages, Lows, Highs, key, last, front, listed, deeper
<1>14. CASE it.tag \in Lows \cup Highs
    <2>1. /\ q.g = p.g /\ q.usages = p.usages /\ q.range = Ended(p.range, it, key)
          /\ q.offsets = p.offsets /\ q.pushed = p.pushed /\ q.depth = p.depth
          /\ q.indexed = p.indexed /\ q.bits = p.bits /\ q.err = p.err
          /\ q = Parser(q.g, q.usages, q.range, q.offsets, q.pushed, q.depth, q.indexed, q.bits, q.err)
        BY <1>1, <1>2, <1>14
    <2> QED BY <1>14, <2>1, <1>4 DEF GlobalTags, Mains, Usages, Lows, Highs, key, last, front, listed, deeper
<1>15. CASE it.tag = "input"
    <2>1. /\ q.g = p.g /\ q.usages = <<>> /\ q.range = Unranged(p.range)
          /\ q.offsets = p.offsets /\ q.pushed = p.pushed /\ q.depth = p.depth
          /\ q.indexed = p.indexed /\ q.bits = p.bits /\ q.err = p.err
          /\ q = Parser(q.g, q.usages, q.range, q.offsets, q.pushed, q.depth, q.indexed, q.bits, q.err)
        BY <1>1, <1>2, <1>15
    <2> QED BY <1>15, <2>1, <1>4 DEF GlobalTags, Mains, Usages, Lows, Highs, key, last, front, listed, deeper
<1>16. CASE it.tag = "collection"
    <2>1. /\ q.g = p.g /\ q.usages = <<>> /\ q.range = Unranged(p.range)
          /\ q.offsets = p.offsets /\ q.pushed = p.pushed /\ q.depth = p.depth + 1
          /\ q.indexed = p.indexed /\ q.bits = p.bits /\ q.err = p.err
          /\ q = Parser(q.g, q.usages, q.range, q.offsets, q.pushed, q.depth, q.indexed, q.bits, q.err)
        BY <1>1, <1>2, <1>16
    <2> QED BY <1>16, <2>1, <1>4 DEF GlobalTags, Mains, Usages, Lows, Highs, key, last, front, listed, deeper
<1>17. CASE it.tag = "end" /\ p.depth # 0
    <2>1. /\ q.g = p.g /\ q.usages = <<>> /\ q.range = Unranged(p.range)
          /\ q.offsets = p.offsets /\ q.pushed = p.pushed /\ q.depth = p.depth - 1
          /\ q.indexed = p.indexed /\ q.bits = p.bits /\ q.err = p.err
          /\ q = Parser(q.g, q.usages, q.range, q.offsets, q.pushed, q.depth, q.indexed, q.bits, q.err)
        BY <1>1, <1>2, <1>17
    <2> QED BY <1>17, <2>1, <1>4 DEF GlobalTags, Mains, Usages, Lows, Highs, key, last, front, listed, deeper
<1>18. CASE it.tag = "end" /\ p.depth = 0
    <2>1. /\ q.g = p.g /\ q.usages = p.usages /\ q.range = p.range
          /\ q.offsets = p.offsets /\ q.pushed = p.pushed /\ q.depth = p.depth
          /\ q.indexed = p.indexed /\ q.bits = p.bits /\ q.err = TRUE
          /\ q = Parser(q.g, q.usages, q.range, q.offsets, q.pushed, q.depth, q.indexed, q.bits, q.err)
        BY <1>1, <1>3, <1>18
    <2> QED BY <1>18, <2>1, <1>4 DEF GlobalTags, Mains, Usages, Lows, Highs, key, last, front, listed, deeper
<1>19. CASE it.tag = "push"
    <2>1. /\ q.g = p.g /\ q.usages = p.usages /\ q.range = p.range
          /\ q.offsets = p.offsets /\ q.pushed = deeper /\ q.depth = p.depth
          /\ q.indexed = p.indexed /\ q.bits = p.bits /\ q.err = p.err
          /\ q = Parser(q.g, q.usages, q.range, q.offsets, q.pushed, q.depth, q.indexed, q.bits, q.err)
        BY <1>1, <1>2, <1>19
    <2> QED BY <1>19, <2>1, <1>4 DEF GlobalTags, Mains, Usages, Lows, Highs, key, last, front, listed, deeper
<1>20. CASE it.tag = "pop" /\ p.pushed # <<>>
    <2>1. /\ q.g = last /\ q.usages = p.usages /\ q.range = p.range
          /\ q.offsets = p.offsets /\ q.pushed = front /\ q.depth = p.depth
          /\ q.indexed = p.indexed /\ q.bits = p.bits /\ q.err = p.err
          /\ q = Parser(q.g, q.usages, q.range, q.offsets, q.pushed, q.depth, q.indexed, q.bits, q.err)
        BY <1>1, <1>2, <1>20
    <2> QED BY <1>20, <2>1, <1>4 DEF GlobalTags, Mains, Usages, Lows, Highs, key, last, front, listed, deeper
<1>21. CASE it.tag = "pop" /\ p.pushed = <<>>
    <2>1. /\ q.g = p.g /\ q.usages = p.usages /\ q.range = p.range
          /\ q.offsets = p.offsets /\ q.pushed = p.pushed /\ q.depth = p.depth
          /\ q.indexed = p.indexed /\ q.bits = p.bits /\ q.err = p.err
          /\ q = Parser(q.g, q.usages, q.range, q.offsets, q.pushed, q.depth, q.indexed, q.bits, q.err)
        BY <1>1, <1>2, <1>21
    <2> QED BY <1>21, <2>1, <1>4 DEF GlobalTags, Mains, Usages, Lows, Highs, key, last, front, listed, deeper
<1>22. CASE it.tag = "cut"
    <2>1. /\ q.g = p.g /\ q.usages = p.usages /\ q.range = p.range
          /\ q.offsets = p.offsets /\ q.pushed = p.pushed /\ q.depth = p.depth
          /\ q.indexed = p.indexed /\ q.bits = p.bits /\ q.err = TRUE
          /\ q = Parser(q.g, q.usages, q.range, q.offsets, q.pushed, q.depth, q.indexed, q.bits, q.err)
        BY <1>1, <1>3, <1>22
    <2> QED BY <1>22, <2>1, <1>4 DEF GlobalTags, Mains, Usages, Lows, Highs, key, last, front, listed, deeper
<1>23. CASE it.tag = "other"
    <2>1. /\ q.g = p.g /\ q.usages = p.usages /\ q.range = p.range
          /\ q.offsets = p.offsets /\ q.pushed = p.pushed /\ q.depth = p.depth
          /\ q.indexed = p.indexed /\ q.bits = p.bits /\ q.err = p.err
          /\ q = Parser(q.g, q.usages, q.range, q.offsets, q.pushed, q.depth, q.indexed, q.bits, q.err)
        BY <1>1, <1>2, <1>23
    <2> QED BY <1>23, <2>1, <1>4 DEF GlobalTags, Mains, Usages, Lows, Highs, key, last, front, listed, deeper
<1> QED BY <1>11, <1>12, <1>14, <1>15, <1>16, <1>17, <1>18, <1>19, <1>20, <1>21, <1>22, <1>23
   DEF Tags, Mains, Usages, Lows, Highs, GlobalTags

LEMMA OutputIs ==
    ASSUME NEW p, IsParser(p), ~p.err, NEW it, it.tag = "output", NEW budget,
           NEW q, q = ParseItem(p, it, budget)
    PROVE  LET start == At(p.offsets, p.g.id, 0)
               end == start + p.g.size * p.g.count
               found == IF p.g.size = 1 THEN Named(p) ELSE 0
               refused == Bytes(end) > MaxReportBytes \/ p.indexed + found > budget
           IN /\ q = Parser(q.g, q.usages, q.range, q.offsets, q.pushed, q.depth, q.indexed, q.bits, q.err)
              /\ q.g = p.g /\ q.pushed = p.pushed /\ q.depth = p.depth
              /\ q.err <=> refused
              /\ refused => q.usages = p.usages /\ q.range = p.range /\ q.indexed = p.indexed
              /\ ~refused => /\ q.usages = <<>> /\ q.range = Unranged(p.range) /\ q.indexed = p.indexed + found
                             /\ q.offsets = With(p.offsets, p.g.id, end)
                             /\ q.bits = IF p.g.size = 1 THEN Placed(p, start) ELSE p.bits
<1> DEFINE start == At(p.offsets, p.g.id, 0)
           end == start + p.g.size * p.g.count
           found == IF p.g.size = 1 THEN Named(p) ELSE 0
           refused == Bytes(end) > MaxReportBytes \/ p.indexed + found > budget
           off == [p.range EXCEPT !.some = FALSE]
           sum == p.indexed + found
           placed == IF p.g.size = 1 THEN Placed(p, start) ELSE p.bits
           there == With(p.offsets, p.g.id, end)
<1>1. p = Parser(p.g, p.usages, p.range, p.offsets, p.pushed, p.depth, p.indexed, p.bits, p.err)
    BY ParserIs
<1>2. Puts(q, p, p.g, p.usages, p.range, p.offsets, p.pushed, p.depth, p.indexed, p.bits, p.err, budget)
    BY <1>1, OutputDoes
<1>3. q = IF refused
          THEN Parser(p.g, p.usages, p.range, p.offsets, p.pushed, p.depth, p.indexed, p.bits, TRUE)
          ELSE Parser(p.g, <<>>, off, there, p.pushed, p.depth, sum, placed, p.err)
    BY <1>2 DEF Puts
<1>4. off = Unranged(p.range)
    <2>1. p.g \in GlobalState /\ p.range \in [some : BOOLEAN, min : Nat, max : Nat]
        BY DEF IsParser
    <2> QED BY <2>1, RecordsAre DEF Unranged
<1> HIDE DEF refused, off, there, sum, placed
<1>5. CASE refused
    <2>1. q = Parser(p.g, p.usages, p.range, p.offsets, p.pushed, p.depth, p.indexed, p.bits, TRUE)
        BY <1>3, <1>5
    <2>2. /\ q.g = p.g /\ q.usages = p.usages /\ q.range = p.range /\ q.offsets = p.offsets /\ q.pushed = p.pushed
          /\ q.depth = p.depth /\ q.indexed = p.indexed /\ q.bits = p.bits /\ q.err
        <3>1. \A err : q = Parser(p.g, p.usages, p.range, p.offsets, p.pushed, p.depth, p.indexed, p.bits, err)
                => /\ q.g = p.g /\ q.usages = p.usages /\ q.range = p.range /\ q.offsets = p.offsets /\ q.pushed = p.pushed
                   /\ q.depth = p.depth /\ q.indexed = p.indexed /\ q.bits = p.bits /\ q.err = err
            BY PartsAre
        <3> QED BY <2>1, <3>1, Zenon
    <2>3. q = Parser(q.g, q.usages, q.range, q.offsets, q.pushed, q.depth, q.indexed, q.bits, TRUE) /\ q.err = TRUE
        <3>1. \A err : q = Parser(p.g, p.usages, p.range, p.offsets, p.pushed, p.depth, p.indexed, p.bits, err)
                => q.err = err
            BY PartsAre
        <3> QED BY <2>1, <2>2, <3>1, Zenon
    <2> QED BY <1>5, <2>2, <2>3 DEF refused
<1>6. CASE ~refused
    <2>1. q = Parser(p.g, <<>>, off, there, p.pushed, p.depth, sum, placed, p.err)
        BY <1>3, <1>6
    <2>2. /\ q.g = p.g /\ q.usages = <<>> /\ q.range = off /\ q.offsets = there /\ q.pushed = p.pushed
          /\ q.depth = p.depth /\ q.indexed = sum /\ q.bits = placed /\ q.err = p.err
        BY <2>1, PartsAre
    <2> QED BY <1>4, <1>6, <2>1, <2>2 DEF refused, there, sum, placed
<1> QED BY <1>5, <1>6

(***************************************************************************)
(* The globals and the pushed states.                                      *)
(***************************************************************************)
LEMMA StatesStep ==
    ASSUME NEW d \in Descriptors, NEW k \in 1 .. Len(d), NEW p, IsParser(p), ~p.err, StatesAgree(d, k, p),
           NEW budget, NEW q, q = ParseItem(p, d[k], budget), ~q.err
    PROVE  StatesAgree(d, k + 1, q)
<1> DEFINE n == Nesting(d)[k - 1]
           m == Nesting(d)[k]
           it == d[k]
<1>1. /\ k \in Nat /\ n \in Nat /\ m \in Nat /\ m = Nested(d, k, n) /\ it.tag \in Tags /\ it.v \in Nat
      /\ Nesting(d)[(k + 1) - 1] = m
    <2>1. Len(d) \in Nat /\ k \in Nat /\ k - 1 \in 0 .. Len(d) /\ k \in 0 .. Len(d) /\ (k + 1) - 1 = k
        BY DescriptorIs
    <2>2. n \in Nat /\ m \in Nat /\ m = Nested(d, k, n)
        BY <2>1, NestingIs
    <2> QED BY <2>1, <2>2, DescriptorIs
<1>2. p.g = State(d, k, n) /\ p.pushed = [i \in 1 .. n |-> State(d, k, i - 1)]
    BY DEF StatesAgree
<1>3. p.pushed \in Seq(GlobalState) /\ Len(p.pushed) = n
    <2>1. p.pushed \in Seq(GlobalState)
        BY DEF IsParser
    <2> HIDE DEF n
    <2>2. DOMAIN p.pushed = 1 .. n
        BY <1>2
    <2>3. DOMAIN p.pushed = 1 .. Len(p.pushed) /\ Len(p.pushed) \in Nat
        BY <2>1
    <2> QED BY <1>1, <2>1, <2>2, <2>3
<1>4. ASSUME NEW i \in Nat, i < n, i <= m, it.tag \notin GlobalTags \/ i < m
      PROVE  State(d, k + 1, i) = State(d, k, i)
    <2>1. i <= n
        BY <1>1, <1>4
    <2> QED BY <1>4, <2>1, StatesBelow
<1>5. ASSUME n = m, it.tag \notin GlobalTags PROVE State(d, k + 1, n) = State(d, k, n)
    <2>1. n <= Nesting(d)[k - 1] /\ n <= Nesting(d)[k] /\ n \in Nat
        BY <1>1, <1>5
    <2> HIDE DEF n
    <2> QED BY <1>5, <2>1, StatesBelow
<1> SUFFICES q.g = State(d, k + 1, m) /\ q.pushed = [i \in 1 .. m |-> State(d, k + 1, i - 1)]
    BY <1>1 DEF StatesAgree
<1> HIDE DEF n, m
<1>6. CASE it.tag = "output"
    <2>1. q.g = p.g /\ q.pushed = p.pushed
        BY <1>6, OutputIs
    <2>2. m = n /\ it.tag \notin GlobalTags
        BY <1>1, <1>6 DEF Nested, GlobalTags
    <2>3. \A i \in 1 .. n : State(d, k + 1, i - 1) = State(d, k, i - 1)
        BY <1>1, <1>4, <2>2
    <2> QED BY <1>2, <1>5, <2>1, <2>2, <2>3
<1>7. CASE it.tag # "output"
    <2>0. it.tag \in Tags \ {"output"}
        BY <1>1, <1>7
    <2>1. /\ q.g = IF it.tag = "pop" /\ p.pushed # <<>> THEN p.pushed[Len(p.pushed)] ELSE Stated(p.g, it)
          /\ q.pushed = IF it.tag = "push" THEN Append(p.pushed, p.g)
                        ELSE IF it.tag = "pop" /\ p.pushed # <<>> THEN SubSeq(p.pushed, 1, Len(p.pushed) - 1)
                        ELSE p.pushed
        BY <2>0, OtherThanOutput
    <2>2. it.tag \notin GlobalTags => Stated(p.g, it) = p.g
        <3>1. p.g \in GlobalState
            BY DEF IsParser
        <3> QED BY <3>1 DEF Stated, GlobalTags, GlobalState
    <2>3. CASE it.tag \in GlobalTags
        <3>1. m = n /\ q.g = Stated(p.g, it) /\ q.pushed = p.pushed
            BY <1>1, <2>1, <2>3 DEF Nested, GlobalTags
        <3>2. State(d, k + 1, m) = Stated(State(d, k, n), it)
            BY <2>3, StateSays DEF Stated, n, m
        <3>3. \A i \in 1 .. n : State(d, k + 1, i - 1) = State(d, k, i - 1)
            BY <1>1, <1>4, <3>1
        <3> QED BY <1>2, <3>1, <3>2, <3>3
    <2>4. CASE it.tag = "push"
        <3>1. m = n + 1 /\ q.g = p.g /\ q.pushed = Append(p.pushed, p.g) /\ it.tag \notin GlobalTags
            BY <1>1, <2>1, <2>2, <2>4 DEF Nested, GlobalTags
        <3>2. State(d, k + 1, m) = State(d, k, n)
            BY <2>4, StatePushed DEF n, m
        <3>3. \A i \in 1 .. n : State(d, k + 1, i - 1) = State(d, k, i - 1)
            BY <1>1, <1>4, <3>1
        <3>4. State(d, k + 1, n) = State(d, k, n)
            BY <1>1, <3>1, StatesBelow DEF n, m
        <3>5. q.pushed = [i \in 1 .. n + 1 |-> IF i = n + 1 THEN p.g ELSE p.pushed[i]]
            <4>1. p.g \in GlobalState
                BY DEF IsParser
            <4> QED BY <1>1, <1>3, <3>1, <4>1
        <3>6. \A i \in 1 .. n + 1 : (IF i = n + 1 THEN p.g ELSE p.pushed[i]) = State(d, k + 1, i - 1)
            BY <1>1, <1>2, <3>3, <3>4
        <3> QED BY <1>2, <3>1, <3>2, <3>5, <3>6
    <2>5. CASE it.tag = "pop" /\ n > 0
        <3>1. m = n - 1 /\ q.g = p.pushed[n] /\ q.pushed = SubSeq(p.pushed, 1, n - 1) /\ it.tag \notin GlobalTags
            <4>1. p.pushed # <<>>
                BY <1>1, <1>3, <2>5
            <4> QED BY <1>1, <1>3, <2>1, <2>5, <4>1 DEF Nested, GlobalTags
        <3>2. State(d, k + 1, m) = State(d, k, m)
            BY <1>1, <1>4, <2>5, <3>1
        <3>3. \A i \in 1 .. m : State(d, k + 1, i - 1) = State(d, k, i - 1)
            BY <1>1, <1>4, <3>1
        <3>4. q.pushed = [i \in 1 .. m |-> p.pushed[i]]
            BY <1>1, <1>3, <2>5, <3>1
        <3>5. \A i \in 1 .. m : p.pushed[i] = State(d, k + 1, i - 1)
            BY <1>1, <1>2, <2>5, <3>1, <3>3
        <3>6. q.g = State(d, k, m)
            BY <1>1, <1>2, <2>5, <3>1
        <3> QED BY <3>2, <3>4, <3>5, <3>6
    <2>6. CASE it.tag \notin GlobalTags /\ it.tag # "push" /\ ~(it.tag = "pop" /\ n > 0)
        <3>1. n = m
            BY <1>1, <2>6 DEF Nested
        <3>2. p.pushed = <<>> \/ it.tag # "pop"
            BY <1>1, <1>3, <2>6
        <3>3. q.g = p.g /\ q.pushed = p.pushed
            BY <2>1, <2>2, <2>6, <3>2
        <3>4. \A i \in 1 .. n : State(d, k + 1, i - 1) = State(d, k, i - 1)
            BY <1>1, <1>4, <2>6, <3>1
        <3> QED BY <1>2, <1>5, <2>6, <3>1, <3>3, <3>4
    <2> QED BY <2>3, <2>4, <2>5, <2>6
<1> QED BY <1>6, <1>7

(***************************************************************************)
(* The usages in reach.                                                    *)
(***************************************************************************)
LEMMA ReachesStep ==
    ASSUME NEW d \in Descriptors, NEW k \in 1 .. Len(d), NEW j \in 1 .. Len(d)
    PROVE  Reaches(d, j, k + 1) <=> d[k].tag \notin Mains /\ (j = k \/ Reaches(d, j, k))
<1>0. Len(d) \in Nat /\ j \in Nat /\ k \in Nat /\ (k + 1) - 1 = k
    BY DescriptorIs
<1>1. ASSUME Reaches(d, j, k + 1)
      PROVE  d[k].tag \notin Mains /\ (j = k \/ Reaches(d, j, k))
    <2>1. j <= k /\ \A m \in j .. k : d[m].tag \notin Mains
        BY <1>0, <1>1 DEF Reaches
    <2> QED BY <1>0, <2>1 DEF Reaches
<1>2. ASSUME d[k].tag \notin Mains, j = k \/ Reaches(d, j, k)
      PROVE  Reaches(d, j, k + 1)
    <2>1. j <= k /\ \A m \in j .. k - 1 : d[m].tag \notin Mains
        BY <1>0, <1>2 DEF Reaches
    <2>2. \A m \in j .. k : m \in j .. k - 1 \/ m = k
        BY <1>0
    <2>3. j < k + 1 /\ \A m \in j .. (k + 1) - 1 : d[m].tag \notin Mains
        BY <1>0, <1>2, <2>1, <2>2
    <2> QED BY <2>3 DEF Reaches
<1> QED BY <1>1, <1>2

LEMMA ListedStep ==
    ASSUME NEW d \in Descriptors, NEW k \in 1 .. Len(d)
    PROVE  /\ Listed(d, k) \in SUBSET (1 .. k - 1)
           /\ Listed(d, k + 1) = IF d[k].tag \in Mains THEN {}
                                 ELSE IF d[k].tag \in Usages THEN Listed(d, k) \cup {k}
                                 ELSE Listed(d, k)
<1> DEFINE T == Tagged(d, Usages)
<1>1. T \subseteq 1 .. Len(d) /\ Len(d) \in Nat /\ k \in Nat
      /\ (k \in T <=> d[k].tag \in Usages)
    BY TaggedIs, DescriptorIs
<1>2. Listed(d, k) = {j \in T : Reaches(d, j, k)} /\ Listed(d, k + 1) = {j \in T : Reaches(d, j, k + 1)}
    BY DEF Listed
<1>3. \A j \in T : Reaches(d, j, k + 1) <=> d[k].tag \notin Mains /\ (j = k \/ Reaches(d, j, k))
    BY <1>1, ReachesStep
<1>4. \A j \in T : Reaches(d, j, k) => j \in 1 .. k - 1
    BY <1>1 DEF Reaches
<1> HIDE DEF T
<1>5. Listed(d, k) \in SUBSET (1 .. k - 1)
    BY <1>2, <1>4
<1>6. CASE d[k].tag \in Mains
    BY <1>2, <1>3, <1>5, <1>6
<1>7. CASE d[k].tag \in Usages
    <2>1. d[k].tag \notin Mains
        BY <1>7 DEF Mains, Usages, Lows, Highs
    <2> QED BY <1>1, <1>2, <1>3, <1>5, <1>7, <2>1
<1>8. CASE d[k].tag \notin Mains /\ d[k].tag \notin Usages
    <2>1. \A j \in T : j # k
        BY <1>1, <1>8
    <2> QED BY <1>2, <1>3, <1>5, <1>8, <2>1
<1> QED BY <1>6, <1>7, <1>8

\* The number of an item among some that came before.
LEMMA RankIs ==
    ASSUME NEW n \in Nat, NEW S \in SUBSET (1 .. n)
    PROVE  /\ IsFiniteSet(S) /\ Cardinality(S) \in Nat
           /\ \A j \in S : Rank(S, j) \in 0 .. Cardinality(S) - 1
<1>1. IsFiniteSet(1 .. n)
    BY FS_Interval
<1>2. IsFiniteSet(S) /\ Cardinality(S) \in Nat
    BY <1>1, FS_Subset, FS_CardinalityType
<1>3. ASSUME NEW j \in S PROVE Rank(S, j) \in 0 .. Cardinality(S) - 1
    <2> DEFINE L == {i \in S : i < j}
    <2>1. L \in SUBSET S /\ j \notin L
        OBVIOUS
    <2>2. IsFiniteSet(L) /\ Cardinality(L) \in Nat /\ Cardinality(L) <= Cardinality(S) /\ Cardinality(L) # Cardinality(S)
        <3> HIDE DEF L
        <3>1. L # S
            BY <2>1
        <3> QED BY <1>2, <2>1, <3>1, FS_Subset, FS_CardinalityType
    <2> HIDE DEF L
    <2> QED BY <1>2, <2>2 DEF Rank, L
<1> QED BY <1>2, <1>3

LEMMA RankAdds ==
    ASSUME NEW n \in Nat, NEW S \in SUBSET (1 .. n), NEW k \in Nat, k > n
    PROVE  /\ Cardinality(S \cup {k}) = Cardinality(S) + 1
           /\ Rank(S \cup {k}, k) = Cardinality(S)
           /\ \A j \in S : Rank(S \cup {k}, j) = Rank(S, j)
<1>1. \A j \in S : j \in Nat /\ j < k /\ j # k
    OBVIOUS
<1>2. IsFiniteSet(S)
    BY RankIs
<1>3. k \notin S
    BY <1>1
<1>4. Cardinality(S \cup {k}) = Cardinality(S) + 1
    BY <1>2, <1>3, FS_AddElement
<1>5. {i \in S \cup {k} : i < k} = S
    <2>1. ~(k < k)
        OBVIOUS
    <2> QED BY <1>1, <2>1
<1>6. \A j \in S : {i \in S \cup {k} : i < j} = {i \in S : i < j}
    BY <1>1
<1> QED BY <1>4, <1>5, <1>6 DEF Rank

LEMMA UsageOfIs ==
    ASSUME NEW d \in Descriptors, NEW k \in 1 .. Len(d), NEW p, StatesAgree(d, k, p)
    PROVE  /\ UsageOf(d, k) = PackUsage(p.g.page, d[k])
           /\ p.g.page = Global(d, k, "page") /\ p.g.size = Global(d, k, "size")
           /\ p.g.count = Global(d, k, "count") /\ p.g.id = Global(d, k, "id")
<1>1. p.g = State(d, k, Nesting(d)[k - 1])
    BY DEF StatesAgree
<1>2. k \in 1 .. Len(d) + 1
    BY DescriptorIs
<1>3. \A tag : Global(d, k, tag) = Value(d, k, Nesting(d)[k - 1], tag)
    BY <1>2, GlobalIs
<1> QED BY <1>1, <1>3 DEF State, UsageOf, PackUsage

LEMMA UsagesStep ==
    ASSUME NEW d \in Descriptors, NEW k \in 1 .. Len(d), NEW p, IsParser(p), ~p.err,
           StatesAgree(d, k, p), UsagesAgree(d, k, p),
           NEW budget, NEW q, q = ParseItem(p, d[k], budget), ~q.err
    PROVE  UsagesAgree(d, k + 1, q)
<1> DEFINE js == Listed(d, k)
           it == d[k]
<1>1. /\ k \in Nat /\ it.tag \in Tags /\ it.v \in Nat /\ js \in SUBSET (1 .. k - 1) /\ k - 1 \in Nat
    <2>1. k \in Nat /\ k - 1 \in Nat /\ it.tag \in Tags /\ it.v \in Nat
        BY DescriptorIs
    <2>2. js \in SUBSET (1 .. k - 1)
        BY ListedStep
    <2> QED BY <2>1, <2>2
<1>2. p.usages \in Seq(Nat) /\ p.g \in GlobalState /\ Len(p.usages) \in Nat
    BY DEF IsParser
<1>3. CASE it.tag \in Mains
    <2>1. q.usages = <<>>
        <3>1. CASE it.tag = "output"
            BY <3>1, OutputIs
        <3>2. CASE it.tag # "output"
            <4>1. it.tag \in Tags \ {"output"}
                BY <1>1, <3>2
            <4>2. q.usages = IF it.tag \in Usages THEN Append(p.usages, PackUsage(p.g.page, it))
                             ELSE IF it.tag \in Mains /\ ~q.err THEN <<>>
                             ELSE p.usages
                BY <4>1, OtherThanOutput
            <4> QED BY <1>3, <4>2 DEF Mains, Usages, Lows, Highs
        <3> QED BY <3>1, <3>2
    <2>2. Listed(d, k + 1) = {}
        BY <1>3, ListedStep
    <2>3. Len(q.usages) = 0 /\ Cardinality(Listed(d, k + 1)) = 0
        BY <2>1, <2>2, FS_EmptySet
    <2> QED BY <2>2, <2>3 DEF UsagesAgree
<1>4. CASE it.tag \notin Mains
    <2>1. it.tag \in Tags \ {"output"}
        BY <1>1, <1>4 DEF Mains, Usages, Lows, Highs
    <2>2. q.usages = IF it.tag \in Usages THEN Append(p.usages, PackUsage(p.g.page, it))
                     ELSE IF it.tag \in Mains /\ ~q.err THEN <<>>
                     ELSE p.usages
        BY <2>1, OtherThanOutput
    <2>3. CASE it.tag \in Usages
        <3> DEFINE new == js \cup {k}
                   u == UsageOf(d, k)
        <3>1. Listed(d, k + 1) = new
            BY <1>4, <2>3, ListedStep
        <3>2. q.usages = Append(p.usages, u) /\ u \in Nat
            <4>1. u = PackUsage(p.g.page, it)
                BY UsageOfIs
            <4>2. p.g.page \in Nat
                BY <1>2 DEF GlobalState
            <4>3. PackUsage(p.g.page, it) \in Nat
                BY <1>1, <4>2 DEF PackUsage, Key
            <4> HIDE DEF u
            <4> QED BY <1>1, <2>2, <2>3, <4>1, <4>3
        <3>3. /\ Len(p.usages) = Cardinality(js)
              /\ \A j \in js : Rank(js, j) \in 0 .. Len(p.usages) - 1 /\ p.usages[Rank(js, j) + 1] = UsageOf(d, j)
              /\ \A n \in 0 .. Len(p.usages) - 1 : \E j \in js : Rank(js, j) = n
            BY DEF UsagesAgree
        <3>4. /\ Cardinality(new) = Cardinality(js) + 1 /\ Rank(new, k) = Cardinality(js)
              /\ \A j \in js : Rank(new, j) = Rank(js, j)
            <4>1. k > k - 1
                BY <1>1
            <4> HIDE DEF js
            <4> QED BY <1>1, <4>1, RankAdds
        <3> HIDE DEF js, new, u
        <3>5. /\ Len(q.usages) = Len(p.usages) + 1 /\ q.usages[Len(p.usages) + 1] = u
              /\ \A n \in 1 .. Len(p.usages) : q.usages[n] = p.usages[n]
            BY <1>2, <3>2
        <3>6. \A j \in new : j \in js \/ j = k
            BY DEF new
        <3>7. js \subseteq new /\ k \in new
            BY DEF new
        <3>8. ASSUME NEW j \in new
              PROVE  Rank(new, j) \in 0 .. Len(q.usages) - 1 /\ q.usages[Rank(new, j) + 1] = UsageOf(d, j)
            <4>1. CASE j \in js
                <5>1. Rank(js, j) \in 0 .. Len(p.usages) - 1 /\ p.usages[Rank(js, j) + 1] = UsageOf(d, j)
                      /\ Rank(new, j) = Rank(js, j)
                    BY <3>3, <3>4, <4>1
                <5>2. Rank(js, j) + 1 \in 1 .. Len(p.usages)
                    BY <1>2, <5>1
                <5>3. q.usages[Rank(js, j) + 1] = p.usages[Rank(js, j) + 1]
                    BY <3>5, <5>2
                <5>4. \A n, r \in Int : n \in Nat /\ r \in 0 .. n - 1 => r \in 0 .. (n + 1) - 1
                    OBVIOUS
                <5>5. Len(p.usages) \in Nat
                    BY <1>2
                <5>6. Rank(new, j) \in 0 .. Len(q.usages) - 1
                    BY <3>5, <5>1, <5>4, <5>5
                <5> QED BY <5>1, <5>3, <5>6
            <4>2. CASE j = k
                BY <1>2, <3>3, <3>4, <3>5, <4>2 DEF u
            <4> QED BY <3>6, <4>1, <4>2
        <3>9. ASSUME NEW n \in 0 .. Len(q.usages) - 1 PROVE \E j \in new : Rank(new, j) = n
            <4>1. n \in 0 .. Len(p.usages) - 1 \/ n = Len(p.usages)
                BY <1>2, <3>5
            <4> QED BY <3>3, <3>4, <3>7, <4>1
        <3>10. Len(q.usages) = Cardinality(new)
            BY <3>3, <3>4, <3>5
        <3> QED BY <3>1, <3>8, <3>9, <3>10 DEF UsagesAgree
    <2>4. CASE it.tag \notin Usages
        <3>1. q.usages = p.usages
            BY <1>4, <2>2, <2>4
        <3>2. Listed(d, k + 1) = js
            BY <1>4, <2>4, ListedStep
        <3> QED BY <3>1, <3>2 DEF UsagesAgree
    <2> QED BY <2>3, <2>4
<1> QED BY <1>3, <1>4

LEMMA RangedStep ==
    ASSUME NEW d \in Descriptors, NEW k \in 1 .. Len(d)
    PROVE  Ranged(d, k + 1) <=> d[k].tag \notin Mains /\ (d[k].tag \in Lows \cup Highs \/ Ranged(d, k))
<1> DEFINE T == Tagged(d, Lows \cup Highs)
<1>1. T \subseteq 1 .. Len(d) /\ (k \in T <=> d[k].tag \in Lows \cup Highs)
    BY TaggedIs
<1>2. \A j \in T : Reaches(d, j, k + 1) <=> d[k].tag \notin Mains /\ (j = k \/ Reaches(d, j, k))
    BY <1>1, ReachesStep
<1> HIDE DEF T
<1> QED BY <1>1, <1>2 DEF Ranged, T

LEMMA EarlierStep ==
    ASSUME NEW n \in Nat, NEW T \in SUBSET (1 .. n), NEW k \in 1 .. n
    PROVE  /\ {j \in T : j < k} \in SUBSET (1 .. k - 1)
           /\ {j \in T : j < k + 1} = IF k \in T THEN {j \in T : j < k} \cup {k} ELSE {j \in T : j < k}
<1>1. \A j \in T : j \in 1 .. n /\ (j < k + 1 <=> j < k \/ j = k)
    OBVIOUS
<1>2. \A j \in T : j < k => j \in 1 .. k - 1
    BY <1>1
<1>3. ~(k < k)
    OBVIOUS
<1> QED BY <1>1, <1>2, <1>3

LEMMA RangeEndStep ==
    ASSUME NEW d \in Descriptors, NEW k \in 1 .. Len(d), NEW tags
    PROVE  RangeEnd(d, k + 1, tags) = IF d[k].tag \in tags THEN UsageOf(d, k) ELSE RangeEnd(d, k, tags)
<1> DEFINE T == Tagged(d, tags)
           old == {j \in T : j < k}
           new == {j \in T : j < k + 1}
<1>1. /\ T \subseteq 1 .. Len(d) /\ (k \in T <=> d[k].tag \in tags)
      /\ Len(d) \in Nat /\ k \in Nat
    BY TaggedIs, DescriptorIs
<1>2. Said(d, k, tags) = old /\ Said(d, k + 1, tags) = new
    BY DEF Said
<1>3. CASE d[k].tag \in tags
    <2>1. new = old \cup {k} /\ old \in SUBSET (1 .. k - 1)
        <3> HIDE DEF T
        <3> QED BY <1>1, <1>3, EarlierStep
    <2>1a. new \in SUBSET (1 .. Len(d)) /\ k \in new /\ \A j \in new : j <= k
        <3> HIDE DEF old, new
        <3> QED BY <1>1, <2>1
    <2>2. Max(new) = k /\ new # {}
        <3> HIDE DEF new
        <3> QED BY <1>1, <2>1a, LatestUnique
    <2> QED BY <1>2, <1>3, <2>2 DEF RangeEnd
<1>4. CASE d[k].tag \notin tags
    <2>1. new = old
        <3> HIDE DEF T
        <3> QED BY <1>1, <1>4, EarlierStep
    <2> QED BY <1>2, <1>4, <2>1 DEF RangeEnd
<1> QED BY <1>3, <1>4

LEMMA RangeStep ==
    ASSUME NEW d \in Descriptors, NEW k \in 1 .. Len(d), NEW p, IsParser(p), ~p.err,
           StatesAgree(d, k, p), RangeAgrees(d, k, p),
           NEW budget, NEW q, q = ParseItem(p, d[k], budget), ~q.err
    PROVE  RangeAgrees(d, k + 1, q)
<1> DEFINE it == d[k]
           key == PackUsage(p.g.page, it)
<1>1. it.tag \in Tags
    BY DescriptorIs
<1>2. /\ Ranged(d, k + 1) <=> it.tag \notin Mains /\ (it.tag \in Lows \cup Highs \/ Ranged(d, k))
      /\ RangeEnd(d, k + 1, Lows) = IF it.tag \in Lows THEN UsageOf(d, k) ELSE RangeEnd(d, k, Lows)
      /\ RangeEnd(d, k + 1, Highs) = IF it.tag \in Highs THEN UsageOf(d, k) ELSE RangeEnd(d, k, Highs)
    BY RangedStep, RangeEndStep
<1>3. UsageOf(d, k) = key
    BY UsageOfIs
<1>4. /\ p.range.some <=> Ranged(d, k)
      /\ p.range.min = RangeEnd(d, k, Lows) /\ p.range.max = RangeEnd(d, k, Highs)
    BY DEF RangeAgrees
<1>5. q.range = IF it.tag \in Lows \cup Highs THEN Ended(p.range, it, key)
                ELSE IF it.tag \in Mains THEN Unranged(p.range)
                ELSE p.range
    <2>1. CASE it.tag = "output"
        <3>1. q.range = Unranged(p.range)
            BY <2>1, OutputIs
        <3> QED BY <2>1, <3>1 DEF Mains, Usages, Lows, Highs
    <2>2. CASE it.tag # "output"
        <3>1. it.tag \in Tags \ {"output"}
            BY <1>1, <2>2
        <3>2. q.range = IF it.tag \in Lows \cup Highs THEN Ended(p.range, it, key)
                        ELSE IF it.tag \in Mains /\ ~q.err THEN Unranged(p.range)
                        ELSE p.range
            BY <3>1, OtherThanOutput
        <3> QED BY <3>2
    <2> QED BY <2>1, <2>2
<1> HIDE DEF key
<1>6. /\ Ended(p.range, it, key).some
      /\ Ended(p.range, it, key).min = IF it.tag \in Lows THEN key ELSE p.range.min
      /\ Ended(p.range, it, key).max = IF it.tag \in Highs THEN key ELSE p.range.max
      /\ ~Unranged(p.range).some
      /\ Unranged(p.range).min = p.range.min /\ Unranged(p.range).max = p.range.max
    BY DEF Ended, Unranged
<1>7. CASE it.tag \in Lows \cup Highs
    <2>1. it.tag \notin Mains
        BY <1>7 DEF Mains, Usages, Lows, Highs
    <2> QED BY <1>2, <1>3, <1>4, <1>5, <1>6, <1>7, <2>1 DEF RangeAgrees
<1>8. CASE it.tag \in Mains
    <2>1. it.tag \notin Lows \cup Highs
        BY <1>8 DEF Mains, Usages, Lows, Highs
    <2> QED BY <1>2, <1>4, <1>5, <1>6, <1>8, <2>1 DEF RangeAgrees
<1>9. CASE it.tag \notin Mains /\ it.tag \notin Lows \cup Highs
    BY <1>2, <1>4, <1>5, <1>9 DEF RangeAgrees
<1> QED BY <1>7, <1>8, <1>9

(***************************************************************************)
(* The collections.                                                        *)
(***************************************************************************)
LEMMA CountStep ==
    ASSUME NEW d \in Descriptors, NEW k \in 1 .. Len(d), NEW tag
    PROVE  LET before(n) == Cardinality({j \in Tagged(d, {tag}) : j < n})
           IN before(k) \in Nat /\ before(k + 1) = IF d[k].tag = tag THEN before(k) + 1 ELSE before(k)
<1> DEFINE T == Tagged(d, {tag})
           old == {j \in T : j < k}
           new == {j \in T : j < k + 1}
<1>1. /\ T \subseteq 1 .. Len(d) /\ (k \in T <=> d[k].tag = tag)
      /\ Len(d) \in Nat /\ k \in Nat
    BY TaggedIs, DescriptorIs
<1> HIDE DEF T
<1>2. new = IF d[k].tag = tag THEN old \cup {k} ELSE old
    BY <1>1, EarlierStep
<1>3. old \in SUBSET (1 .. k - 1) /\ k - 1 \in Nat
    BY <1>1, EarlierStep
<1> HIDE DEF old, new
<1>4. Cardinality(old) \in Nat
    BY <1>3, RankIs
<1>5. Cardinality(old \cup {k}) = Cardinality(old) + 1
    <2>1. k > k - 1
        BY <1>1
    <2> QED BY <1>1, <1>3, <2>1, RankAdds
<1> QED BY <1>2, <1>4, <1>5 DEF old, new, T

LEMMA PairsStep ==
    ASSUME NEW d \in Descriptors, NEW k \in 1 .. Len(d), NEW p, IsParser(p), ~p.err, PairsAgree(d, k, p),
           NEW budget, NEW q, q = ParseItem(p, d[k], budget)
    PROVE  /\ ~q.err => PairsAgree(d, k + 1, q)
           /\ d[k].tag = "end" => (p.depth = 0 <=> Closed(d, k + 1) > Opened(d, k + 1))
<1> DEFINE it == d[k]
<1>1. it.tag \in Tags
    BY DescriptorIs
<1>2. /\ Opened(d, k) \in Nat /\ Opened(d, k + 1) = IF it.tag = "collection" THEN Opened(d, k) + 1 ELSE Opened(d, k)
      /\ Closed(d, k) \in Nat /\ Closed(d, k + 1) = IF it.tag = "end" THEN Closed(d, k) + 1 ELSE Closed(d, k)
    BY CountStep DEF Opened, Closed
<1>3. p.depth = Opened(d, k) - Closed(d, k) /\ p.depth \in Nat
    BY DEF PairsAgree, IsParser
<1>4. it.tag = "end" => (p.depth = 0 <=> Closed(d, k + 1) > Opened(d, k + 1))
    BY <1>2, <1>3
<1>5. ASSUME ~q.err
      PROVE  q.depth = IF it.tag = "collection" THEN p.depth + 1
                       ELSE IF it.tag = "end" THEN p.depth - 1
                       ELSE p.depth
    <2>1. CASE it.tag = "output"
        BY <2>1, OutputIs
    <2>2. CASE it.tag # "output"
        <3>1. it.tag \in Tags \ {"output"}
            BY <1>1, <2>2
        <3>2. /\ q.depth = IF it.tag = "collection" THEN p.depth + 1
                           ELSE IF it.tag = "end" /\ p.depth # 0 THEN p.depth - 1
                           ELSE p.depth
              /\ q.err <=> it.tag = "cut" \/ (it.tag = "end" /\ p.depth = 0)
            BY <3>1, OtherThanOutput
        <3> QED BY <1>5, <3>2
    <2> QED BY <2>1, <2>2
<1> QED BY <1>2, <1>3, <1>4, <1>5 DEF PairsAgree

(***************************************************************************)
(* The reports' lengths.                                                   *)
(***************************************************************************)
LEMMA GlobalType ==
    ASSUME NEW d \in Descriptors, NEW k \in 1 .. Len(d) + 1, NEW tag
    PROVE  Global(d, k, tag) \in Nat
<1>1. k - 1 \in 0 .. Len(d)
    BY DescriptorIs
<1>2. Nesting(d)[k - 1] \in Nat
    BY <1>1, NestingIs
<1>3. Global(d, k, tag) = Value(d, k, Nesting(d)[k - 1], tag)
    BY GlobalIs
<1>4. \A m \in Nat : Value(d, k, m, tag) \in Nat
    BY StateIs
<1> QED BY <1>2, <1>3, <1>4

LEMMA UsageType ==
    ASSUME NEW d \in Descriptors, NEW k \in 1 .. Len(d)
    PROVE  UsageOf(d, k) \in Nat
<1>1. k \in 1 .. Len(d) + 1 /\ d[k].v \in Nat
    BY DescriptorIs
<1>2. Global(d, k, "page") \in Nat
    BY <1>1, GlobalType
<1>3. Key(Global(d, k, "page"), d[k].v) \in Nat
    BY <1>1, <1>2 DEF Key
<1> QED BY <1>1, <1>3 DEF UsageOf

LEMMA RangeEndType ==
    ASSUME NEW d \in Descriptors, NEW k \in 1 .. Len(d), NEW tags
    PROVE  RangeEnd(d, k, tags) \in Nat
<1> DEFINE S == Said(d, k, tags)
<1>1. S \in SUBSET (1 .. Len(d)) /\ Len(d) \in Nat
    BY TaggedIs, DescriptorIs DEF Said
<1> HIDE DEF S
<1>2. S # {} => Max(S) \in 1 .. Len(d)
    BY <1>1, LatestIs
<1> QED BY <1>2, UsageType DEF RangeEnd, S

LEMMA WidthType ==
    ASSUME NEW d \in Descriptors, NEW k \in 1 .. Len(d)
    PROVE  Width(d, k) \in Nat
<1>1. k \in 1 .. Len(d) + 1
    BY DescriptorIs
<1>2. Global(d, k, "size") \in Nat /\ Global(d, k, "count") \in Nat
    BY <1>1, GlobalType
<1> DEFINE a == Global(d, k, "size")
           b == Global(d, k, "count")
<1> HIDE DEF a, b
<1>3. a \in Nat /\ b \in Nat => a * b \in Nat
    OBVIOUS
<1> QED BY <1>2, <1>3 DEF Width, a, b

LEMMA TakenStep ==
    ASSUME NEW d \in Descriptors, NEW k \in 1 .. Len(d), NEW r, IsFiniteSet(Taken(d, k, r))
    PROVE  LET adds == d[k].tag = "output" /\ Global(d, k, "id") = r
           IN /\ Cardinality(Taken(d, k, r)) \in Nat
              /\ IsFiniteSet(Taken(d, k + 1, r))
              /\ adds => Cardinality(Taken(d, k + 1, r)) = Cardinality(Taken(d, k, r)) + Width(d, k)
              /\ ~adds => Taken(d, k + 1, r) = Taken(d, k, r)
<1> DEFINE B == Before(d, k, r)
           B1 == Before(d, k + 1, r)
           F(j) == {j} \X (0 .. Width(d, j) - 1)
           T == Taken(d, k, r)
           w == Width(d, k)
           adds == d[k].tag = "output" /\ Global(d, k, "id") = r
<1>0. Len(d) \in Nat /\ k \in Nat /\ w \in Nat
    BY DescriptorIs, WidthType
<1>1. Cardinality(T) \in Nat
    BY FS_CardinalityType
<1>2. B1 = (IF adds THEN B \cup {k} ELSE B) /\ \A j \in B : j < k
    <2> DEFINE O == Outputs(d)
    <2>1. O \in SUBSET (1 .. Len(d)) /\ (k \in O <=> d[k].tag = "output")
        BY TaggedIs DEF Outputs
    <2>2. B = {j \in O : j < k /\ Global(d, j, "id") = r} /\ B1 = {j \in O : j < k + 1 /\ Global(d, j, "id") = r}
        BY DEF Before
    <2> HIDE DEF O, B, B1
    <2>3. {j \in O : j < k + 1} = IF k \in O THEN {j \in O : j < k} \cup {k} ELSE {j \in O : j < k}
        BY <1>0, <2>1, EarlierStep
    <2>4. ~(k < k)
        BY <1>0
    <2>5. \A j \in O : j < k + 1 <=> j < k \/ (j = k /\ k \in O)
        BY <1>0, <2>1
    <2> QED BY <2>1, <2>2, <2>4, <2>5
<1>3. Taken(d, k, r) = UNION {F(j) : j \in B} /\ Taken(d, k + 1, r) = UNION {F(j) : j \in B1}
    BY DEF Taken
<1>4. CASE adds
    <2>1. Taken(d, k + 1, r) = T \cup F(k)
        <3> HIDE DEF F, B, B1
        <3> QED BY <1>2, <1>3, <1>4
    <2>2. IsFiniteSet(F(k)) /\ Cardinality(F(k)) = w
        <3>1. IsFiniteSet({k}) /\ Cardinality({k}) = 1
            BY FS_Singleton
        <3>2. IsFiniteSet(0 .. w - 1) /\ Cardinality(0 .. w - 1) = w
            <4> HIDE DEF w
            <4>1. 0 \in Int /\ w - 1 \in Int /\ (IF 0 > w - 1 THEN 0 ELSE (w - 1) - 0 + 1) = w
                BY <1>0
            <4> QED BY <4>1, FS_Interval
        <3> HIDE DEF w
        <3>3. IsFiniteSet({k} \X (0 .. w - 1)) /\ Cardinality({k} \X (0 .. w - 1)) = 1 * w
            BY <3>1, <3>2, FS_Product
        <3> QED BY <1>0, <3>3 DEF w
    <2>3. T \cap F(k) = {}
        <3>1. ASSUME NEW x \in T, x \in F(k) PROVE FALSE
            <4>1. PICK j \in B : x \in F(j)
                BY <1>3, <3>1
            <4>2. x[1] = j /\ x[1] = k
                BY <3>1, <4>1
            <4> QED BY <1>0, <1>2, <4>1, <4>2
        <3> QED BY <3>1
    <2> HIDE DEF T, F, w
    <2>4. IsFiniteSet(T \cup F(k)) /\ Cardinality(T \cup F(k)) = Cardinality(T) + w - Cardinality({})
        BY <2>2, <2>3, FS_Union DEF T
    <2>5. Cardinality({}) = 0
        BY FS_EmptySet
    <2>6. Cardinality(T \cup F(k)) = Cardinality(T) + w
        BY <1>0, <1>1, <2>4, <2>5
    <2> QED BY <1>1, <1>4, <2>1, <2>4, <2>6 DEF T, w
<1>5. CASE ~adds
    BY <1>1, <1>2, <1>3, <1>5
<1> QED BY <1>4, <1>5

LEMMA OffsetsStep ==
    ASSUME NEW d \in Descriptors, NEW k \in 1 .. Len(d), NEW p, IsParser(p), ~p.err,
           StatesAgree(d, k, p), OffsetsAgree(d, k, p), \A r \in Nat : IsFiniteSet(Taken(d, k, r)),
           NEW budget, NEW q, q = ParseItem(p, d[k], budget), ~q.err
    PROVE  OffsetsAgree(d, k + 1, q)
<1> DEFINE it == d[k]
           N == Len(d)
           ids(n) == {Global(d, j, "id") : j \in {o \in Outputs(d) : o < n}}
           id == Global(d, k, "id")
<1>1. it.tag \in Tags /\ N \in Nat /\ k \in Nat /\ Width(d, k) \in Nat /\ id \in Nat
    BY DescriptorIs, WidthType, GlobalType
<1>2. /\ DOMAIN p.offsets = ids(k)
      /\ \A r \in Nat : At(p.offsets, r, 0) = Cardinality(Taken(d, k, r))
    BY DEF OffsetsAgree
<1>3. ids(k + 1) = IF it.tag = "output" THEN ids(k) \cup {id} ELSE ids(k)
    <2> DEFINE O == Outputs(d)
    <2>1. O \in SUBSET (1 .. N) /\ (k \in O <=> it.tag = "output")
        BY TaggedIs DEF Outputs
    <2> HIDE DEF O, N
    <2>2. {j \in O : j < k + 1} = IF k \in O THEN {j \in O : j < k} \cup {k} ELSE {j \in O : j < k}
        BY <1>1, <2>1, EarlierStep DEF N
    <2> QED BY <2>1, <2>2 DEF O
<1> HIDE DEF ids
<1>4. CASE it.tag = "output"
    <2> DEFINE start == At(p.offsets, id, 0)
    <2>1. p.g.id = id /\ p.g.size * p.g.count = Width(d, k)
        BY UsageOfIs DEF Width
    <2>2. q.offsets = With(p.offsets, id, start + Width(d, k))
        BY <1>4, <2>1, OutputIs
    <2>3. start + Width(d, k) = Cardinality(Taken(d, k + 1, id))
        BY <1>1, <1>2, <1>4, TakenStep
    <2>4. \A r \in Nat \ {id} : Cardinality(Taken(d, k + 1, r)) = Cardinality(Taken(d, k, r))
        BY TakenStep
    <2> HIDE DEF start, id
    <2>5. /\ DOMAIN q.offsets = DOMAIN p.offsets \cup {id}
          /\ q.offsets[id] = start + Width(d, k)
          /\ \A r \in DOMAIN p.offsets \ {id} : q.offsets[r] = p.offsets[r]
        BY <2>2 DEF With
    <2>6. \A r \in Nat : At(q.offsets, r, 0) = Cardinality(Taken(d, k + 1, r))
        BY <1>2, <2>3, <2>4, <2>5 DEF At
    <2>7. DOMAIN q.offsets = ids(k + 1)
        BY <1>2, <1>3, <1>4, <2>5 DEF id
    <2> QED BY <2>6, <2>7 DEF OffsetsAgree, ids
<1>5. CASE it.tag # "output"
    <2>1. it.tag \in Tags \ {"output"}
        BY <1>1, <1>5
    <2>2. q.offsets = p.offsets
        BY <2>1, OtherThanOutput
    <2>3. \A r \in Nat : Taken(d, k + 1, r) = Taken(d, k, r)
        BY <1>5, TakenStep
    <2> QED BY <1>2, <1>3, <1>5, <2>2, <2>3 DEF OffsetsAgree, ids
<1> QED BY <1>4, <1>5

(***************************************************************************)
(* The single bits and their names.                                        *)
(***************************************************************************)
LEMMA ImageFinite ==
    ASSUME NEW S, IsFiniteSet(S), NEW f, DOMAIN f = S
    PROVE  IsFiniteSet({f[x] : x \in S})
<1> DEFINE T == {f[x] : x \in S}
           g == [x \in S |-> f[x]]
<1>1. g \in Surjection(S, T)
    BY DEF Surjection
<1> HIDE DEF T, g
<1> QED BY <1>1, FS_Surjection DEF T

LEMMA NamesFinite ==
    ASSUME NEW d \in Descriptors, NEW k \in 1 .. Len(d)
    PROVE  IsFiniteSet(Names(d, k))
<1> DEFINE js == Listed(d, k)
           low == RangeEnd(d, k, Lows)
           span == RangeEnd(d, k, Highs) - low
           c == Cardinality(js)
           f == [j \in js |-> <<Rank(js, j), UsageOf(d, j)>>]
           g == [n \in c .. span |-> <<n, low + n>>]
           listed == {<<Rank(js, j), UsageOf(d, j)>> : j \in js}
           rest == {<<n, low + n>> : n \in c .. span}
<1>1. k - 1 \in Nat
    BY DescriptorIs
<1>2. IsFiniteSet(js) /\ c \in Nat
    BY <1>1, ListedStep, RankIs
<1>3. span \in Int
    BY RangeEndType
<1>4. IsFiniteSet(c .. span)
    <2> HIDE DEF c, span
    <2> QED BY <1>2, <1>3, FS_Interval
<1>5. IsFiniteSet(listed)
    <2>1. IsFiniteSet({f[j] : j \in js})
        <3>1. DOMAIN f = js
            OBVIOUS
        <3> HIDE DEF f, js
        <3> QED BY <1>2, <3>1, ImageFinite
    <2>2. {f[j] : j \in js} = listed
        <3> HIDE DEF js
        <3> QED OBVIOUS
    <2> QED BY <2>1, <2>2
<1>6. IsFiniteSet(rest)
    <2> DEFINE S == c .. span
    <2>1. IsFiniteSet({g[n] : n \in S})
        <3>1. DOMAIN g = S
            OBVIOUS
        <3> HIDE DEF g, S
        <3> QED BY <1>4, <3>1, ImageFinite DEF S
    <2>2. {g[n] : n \in S} = rest
        <3> HIDE DEF c, span, low
        <3> QED OBVIOUS
    <2> QED BY <2>1, <2>2
<1>7. Names(d, k) \subseteq listed \cup rest
    BY DEF Names
<1> HIDE DEF listed, rest
<1>8. IsFiniteSet(listed \cup rest)
    BY <1>5, <1>6, FS_Union
<1> QED BY <1>7, <1>8, FS_Subset

LEMMA ClaimsStep ==
    ASSUME NEW d \in Descriptors, NEW k \in 1 .. Len(d)
    PROVE  /\ Claims(d, k + 1) = IF d[k].tag = "output" THEN Claims(d, k) \cup ClaimsOf(d, k) ELSE Claims(d, k)
           /\ \A c \in Claims(d, k) : c[1] \in Nat /\ c[1] < k
           /\ \A c \in ClaimsOf(d, k) : c[1] = k
           /\ IsFiniteSet(ClaimsOf(d, k))
<1> DEFINE O == Outputs(d)
<1>0. Len(d) \in Nat /\ k \in Nat
    BY DescriptorIs
<1>1. O \in SUBSET (1 .. Len(d)) /\ (k \in O <=> d[k].tag = "output")
    BY TaggedIs DEF Outputs
<1>2. Claims(d, k) = UNION {ClaimsOf(d, j) : j \in {o \in O : o < k}}
      /\ Claims(d, k + 1) = UNION {ClaimsOf(d, j) : j \in {o \in O : o < k + 1}}
    BY DEF Claims
<1> HIDE DEF O
<1>3. {j \in O : j < k + 1} = IF k \in O THEN {j \in O : j < k} \cup {k} ELSE {j \in O : j < k}
    BY <1>0, <1>1, EarlierStep
<1>4. \A j : \A c \in ClaimsOf(d, j) : c[1] = j
    BY DEF ClaimsOf
<1>5. IsFiniteSet(ClaimsOf(d, k))
    <2> DEFINE S == Names(d, k)
               f == [x \in S |-> <<k, x[1], x[2]>>]
               T == {f[x] : x \in S}
    <2>1. IsFiniteSet(T)
        <3>1. DOMAIN f = S
            OBVIOUS
        <3>2. IsFiniteSet(S)
            BY NamesFinite
        <3> HIDE DEF f, S
        <3> QED BY <3>1, <3>2, ImageFinite
    <2>2. ClaimsOf(d, k) \subseteq T
        <3>1. \A x \in S : f[x] = <<k, x[1], x[2]>>
            OBVIOUS
        <3>2. ClaimsOf(d, k) \subseteq {<<k, x[1], x[2]>> : x \in S}
            BY DEF ClaimsOf
        <3> HIDE DEF f, S
        <3> QED BY <3>1, <3>2
    <2> HIDE DEF T
    <2> QED BY <2>1, <2>2, FS_Subset
<1>6. Claims(d, k + 1) = IF d[k].tag = "output" THEN Claims(d, k) \cup ClaimsOf(d, k) ELSE Claims(d, k)
    BY <1>1, <1>2, <1>3
<1>7. ASSUME NEW c \in Claims(d, k) PROVE c[1] \in Nat /\ c[1] < k
    <2>1. PICK j \in {o \in O : o < k} : c \in ClaimsOf(d, j)
        BY <1>2
    <2> QED BY <1>0, <1>1, <1>4, <2>1
<1> QED BY <1>4, <1>5, <1>6, <1>7

LEMMA NamedIs ==
    ASSUME NEW d \in Descriptors, NEW k \in 1 .. Len(d), NEW p, IsParser(p),
           StatesAgree(d, k, p), UsagesAgree(d, k, p), RangeAgrees(d, k, p)
    PROVE  /\ Named(p) \in Nat
           /\ \A n \in 0 .. Named(p) - 1 : UsageAt(p, n) \in Nat
           /\ Names(d, k) = {<<n, UsageAt(p, n)>> : n \in 0 .. Named(p) - 1}
<1> DEFINE js == Listed(d, k)
           low == RangeEnd(d, k, Lows)
           high == RangeEnd(d, k, Highs)
           count == Global(d, k, "count")
           c == Cardinality(js)
           listed == {<<Rank(js, j), UsageOf(d, j)>> : j \in js}
           rest == IF Ranged(d, k) THEN {<<n, low + n>> : n \in c .. high - low} ELSE {}
           N == Named(p)
<1>1. /\ p.range.some <=> Ranged(d, k)
      /\ p.range.min = low /\ p.range.max = high /\ p.g.count = count /\ Len(p.usages) = c
      /\ \A j \in js : Rank(js, j) \in 0 .. c - 1 /\ p.usages[Rank(js, j) + 1] = UsageOf(d, j)
      /\ \A n \in 0 .. c - 1 : \E j \in js : Rank(js, j) = n
    BY UsageOfIs DEF RangeAgrees, UsagesAgree
<1>2. low \in Nat /\ high \in Nat /\ count \in Nat /\ c \in Nat /\ p.usages \in Seq(Nat)
    <2>1. p.usages \in Seq(Nat)
        BY DEF IsParser
    <2>2. k \in 1 .. Len(d) + 1
        BY DescriptorIs
    <2> QED BY <1>1, <2>1, <2>2, RangeEndType, GlobalType
<1>3. Names(d, k) = {x \in listed \cup rest : x[1] < count}
    BY DEF Names
<1> DEFINE span == IF Ranged(d, k) /\ high >= low THEN high - low + 1 ELSE 0
           more == IF span > c THEN span ELSE c
<1>4. N = IF count < more THEN count ELSE more
    BY <1>1 DEF Named, Span
<1>5. \A n : UsageAt(p, n) = IF n < c THEN p.usages[n + 1] ELSE low + n
    BY <1>1 DEF UsageAt
<1> HIDE DEF js, low, high, count, c, N
<1>6. N \in Nat /\ N <= count
    BY <1>2, <1>4
<1>7. ASSUME NEW n \in 0 .. N - 1
      PROVE  /\ UsageAt(p, n) \in Nat
             /\ <<n, UsageAt(p, n)>> \in Names(d, k)
    <2>1. n \in Nat /\ n < count
        BY <1>2, <1>6
    <2>2. CASE n < c
        <3>1. n \in 0 .. c - 1 /\ n + 1 \in 1 .. Len(p.usages)
            BY <1>1, <1>2, <2>1, <2>2
        <3>2. PICK j \in js : Rank(js, j) = n
            BY <1>1, <3>1
        <3>3. UsageAt(p, n) = UsageOf(d, j) /\ UsageAt(p, n) \in Nat
            <4>1. UsageAt(p, n) = p.usages[n + 1]
                BY <1>5, <2>2
            <4>2. p.usages[n + 1] = UsageOf(d, j)
                BY <1>1, <3>2
            <4>3. p.usages[n + 1] \in Nat
                BY <1>2, <3>1
            <4> QED BY <4>1, <4>2, <4>3
        <3>4. <<n, UsageAt(p, n)>> \in listed
            BY <3>2, <3>3
        <3> HIDE DEF listed, rest
        <3> QED BY <1>3, <2>1, <3>3, <3>4
    <2>3. CASE ~(n < c)
        <3>1. Ranged(d, k) /\ n \in c .. high - low
            BY <1>2, <1>4, <2>1, <2>3
        <3>2. UsageAt(p, n) = low + n
            BY <1>5, <2>3
        <3>3. <<n, UsageAt(p, n)>> \in rest
            BY <3>1, <3>2
        <3>4. UsageAt(p, n) \in Nat
            BY <1>2, <2>1, <3>2
        <3> HIDE DEF listed, rest
        <3> QED BY <1>3, <2>1, <3>3, <3>4
    <2> QED BY <2>2, <2>3
<1>8. ASSUME NEW x \in Names(d, k)
      PROVE  \E n \in 0 .. N - 1 : x = <<n, UsageAt(p, n)>>
    <2>1. CASE x \in listed
        <3>1. PICK j \in js : x = <<Rank(js, j), UsageOf(d, j)>>
            BY <2>1
        <3>2. Rank(js, j) \in 0 .. c - 1 /\ Rank(js, j) < count
            BY <1>1, <1>3, <3>1
        <3>3. Rank(js, j) \in 0 .. N - 1
            BY <1>2, <1>4, <3>2
        <3>4. UsageAt(p, Rank(js, j)) = UsageOf(d, j)
            <4>1. UsageAt(p, Rank(js, j)) = p.usages[Rank(js, j) + 1]
                BY <1>2, <1>5, <3>2
            <4> QED BY <1>1, <4>1
        <3> QED BY <3>1, <3>3, <3>4
    <2>2. CASE x \in rest
        <3>1. PICK n \in c .. high - low : x = <<n, low + n>> /\ Ranged(d, k)
            BY <2>2
        <3>2. n < count
            BY <1>3, <3>1
        <3>3. n \in 0 .. N - 1 /\ ~(n < c)
            BY <1>2, <1>4, <3>1, <3>2
        <3> QED BY <1>5, <3>1, <3>3
    <2> QED BY <1>3, <2>1, <2>2
<1> DEFINE U(n) == UsageAt(p, n)
<1> HIDE DEF U
<1>9. Names(d, k) = {<<n, U(n)>> : n \in 0 .. N - 1}
    BY <1>7, <1>8 DEF U
<1> QED BY <1>6, <1>7, <1>9 DEF N, U

\* The claims of an output are one to each named field.
LEMMA FieldsClaimed ==
    ASSUME NEW d \in Descriptors, NEW k \in 1 .. Len(d), NEW p, IsParser(p),
           StatesAgree(d, k, p), UsagesAgree(d, k, p), RangeAgrees(d, k, p), Global(d, k, "size") = 1
    PROVE  /\ ClaimsOf(d, k) = {<<k, n, UsageAt(p, n)>> : n \in 0 .. Named(p) - 1}
           /\ Cardinality(ClaimsOf(d, k)) = Named(p)
<1> DEFINE S == 0 .. Named(p) - 1
           U(n) == UsageAt(p, n)
           f == [n \in S |-> <<k, n, U(n)>>]
           C == ClaimsOf(d, k)
<1>1. Named(p) \in Nat /\ Names(d, k) = {<<n, U(n)>> : n \in S}
    BY NamedIs
<1> HIDE DEF S, U
<1>2. C = {<<k, n, U(n)>> : n \in S}
    <2>1. C = {<<k, x[1], x[2]>> : x \in Names(d, k)}
        BY DEF ClaimsOf
    <2> HIDE DEF C
    <2>2. \A n \in S : <<n, U(n)>> \in Names(d, k) /\ <<k, <<n, U(n)>>[1], <<n, U(n)>>[2]>> = <<k, n, U(n)>>
        BY <1>1
    <2>3. \A x \in Names(d, k) : \E n \in S : x = <<n, U(n)>>
        BY <1>1
    <2>4. \A x \in Names(d, k) : \E n \in S : <<k, x[1], x[2]>> = <<k, n, U(n)>>
        BY <2>2, <2>3
    <2>5. \A n \in S : \E x \in Names(d, k) : <<k, x[1], x[2]>> = <<k, n, U(n)>>
        BY <2>2
    <2> QED BY <2>1, <2>4, <2>5
<1>3. f \in Bijection(S, C)
    <2>1. f \in [S -> C] /\ \A n \in S : f[n] = <<k, n, U(n)>>
        BY <1>2
    <2> HIDE DEF f, C
    <2>2. \A a, b \in S : f[a] = f[b] => a = b
        BY <2>1
    <2>3. \A c \in C : \E n \in S : f[n] = c
        BY <1>2, <2>1
    <2> QED BY <2>1, <2>2, <2>3 DEF Bijection, Injection, Surjection, IsInjective
<1>4. IsFiniteSet(S) /\ Cardinality(S) = Named(p)
    <2>1. 0 \in Int /\ Named(p) - 1 \in Int /\ (IF 0 > Named(p) - 1 THEN 0 ELSE (Named(p) - 1) - 0 + 1) = Named(p)
        BY <1>1
    <2> QED BY <2>1, FS_Interval DEF S
<1>5. Cardinality(C) = Cardinality(S)
    <2>1. ExistsBijection(S, C)
        BY <1>3 DEF ExistsBijection
    <2> HIDE DEF C
    <2> QED BY <1>4, <2>1, FS_Bijection
<1> QED BY <1>2, <1>4, <1>5 DEF S, U

LEMMA ClaimsCount ==
    ASSUME NEW d \in Descriptors, NEW k \in 1 .. Len(d), NEW p, IsParser(p),
           StatesAgree(d, k, p), UsagesAgree(d, k, p), RangeAgrees(d, k, p),
           IsFiniteSet(Claims(d, k)), d[k].tag = "output"
    PROVE  Cardinality(Claims(d, k + 1))
             = Cardinality(Claims(d, k)) + IF Global(d, k, "size") = 1 THEN Named(p) ELSE 0
<1> DEFINE old == Claims(d, k)
           new == ClaimsOf(d, k)
           found == IF Global(d, k, "size") = 1 THEN Named(p) ELSE 0
<1>1. /\ Claims(d, k + 1) = old \cup new /\ IsFiniteSet(new) /\ k \in Nat
      /\ \A c \in old : c[1] \in Nat /\ c[1] < k
      /\ \A c \in new : c[1] = k
    <2>1. k \in Nat
        BY DescriptorIs
    <2>2. Claims(d, k + 1) = old \cup new
        BY ClaimsStep
    <2>3. IsFiniteSet(new) /\ (\A c \in old : c[1] \in Nat /\ c[1] < k) /\ (\A c \in new : c[1] = k)
        BY ClaimsStep
    <2> QED BY <2>1, <2>2, <2>3
<1>2. Cardinality(new) = found /\ found \in Nat
    <2>1. CASE Global(d, k, "size") = 1
        <3>1. Cardinality(new) = Named(p)
            BY <2>1, FieldsClaimed
        <3>2. Named(p) \in Nat
            BY NamedIs
        <3> QED BY <2>1, <3>1, <3>2
    <2>2. CASE Global(d, k, "size") # 1
        <3>1. new = {} /\ found = 0
            BY <2>2 DEF ClaimsOf
        <3> HIDE DEF new, found
        <3> QED BY <3>1, FS_EmptySet
    <2> QED BY <2>1, <2>2
<1> HIDE DEF old, new, found
<1>3. old \cap new = {}
    BY <1>1
<1>4. Cardinality(old \cup new) = Cardinality(old) + Cardinality(new) - Cardinality({})
    BY <1>1, <1>3, FS_Union DEF old
<1>5. Cardinality({}) = 0 /\ Cardinality(old) \in Nat
    BY FS_EmptySet, FS_CardinalityType DEF old
<1>6. Cardinality(old \cup new) = Cardinality(old) + found
    BY <1>2, <1>4, <1>5
<1> QED BY <1>1, <1>6 DEF old, found

LEMMA BitsStep ==
    ASSUME NEW d \in Descriptors, NEW k \in 1 .. Len(d), NEW p, IsParser(p), ~p.err,
           StatesAgree(d, k, p), UsagesAgree(d, k, p), RangeAgrees(d, k, p), OffsetsAgree(d, k, p),
           BitsAgree(d, k, p), IsFiniteSet(Claims(d, k)),
           NEW budget, NEW q, q = ParseItem(p, d[k], budget), ~q.err
    PROVE  BitsAgree(d, k + 1, q)
<1> DEFINE it == d[k]
           old == Claims(d, k)
           new == ClaimsOf(d, k)
           all == Claims(d, k + 1)
<1>1. it.tag \in Tags /\ k \in Nat
    BY DescriptorIs
<1>2. /\ all = IF it.tag = "output" THEN old \cup new ELSE old
      /\ \A c \in old : c[1] \in Nat /\ c[1] < k
      /\ \A c \in new : c[1] = k
      /\ IsFiniteSet(new)
    BY ClaimsStep
<1>3. /\ p.indexed = Cardinality(old)
      /\ DOMAIN p.bits = {c[3] : c \in old}
      /\ \A u \in DOMAIN p.bits : \E c : c[3] = u /\ IsLast(d, k, c) /\ p.bits[u] = PlaceOf(d, c)
    BY DEF BitsAgree
<1>4. CASE it.tag = "output" /\ Global(d, k, "size") = 1
    <2> DEFINE start == At(p.offsets, p.g.id, 0)
               S == 0 .. Named(p) - 1
               U(n) == UsageAt(p, n)
               F(u) == {n \in S : U(n) = u}
    <2>1. p.g.size = 1 /\ p.g.id = Global(d, k, "id") /\ p.g.id \in Nat
        <3>1. p.g.id \in Nat
            BY DEF IsParser, GlobalState
        <3> QED BY <1>4, <3>1, UsageOfIs
    <2>2. q.indexed = p.indexed + Named(p) /\ q.bits = Placed(p, start)
        BY <1>4, <2>1, OutputIs
    <2>3. Named(p) \in Nat /\ new = {<<k, n, U(n)>> : n \in S} /\ Cardinality(new) = Named(p)
        BY <1>4, NamedIs, FieldsClaimed
    <2>4. start = FirstBit(d, k)
        BY <2>1 DEF OffsetsAgree, FirstBit
    <2> HIDE DEF old, new, all, start
    <2>5. q.indexed = Cardinality(all)
        <3>1. Cardinality(all) = Cardinality(old) + Named(p)
            BY <1>4, ClaimsCount DEF all, old
        <3> QED BY <1>3, <2>2, <3>1
    <2>6. q.bits = [u \in DOMAIN p.bits \cup {U(n) : n \in S} |->
                       IF F(u) = {} THEN p.bits[u] ELSE [report |-> p.g.id, bit |-> start + Max(F(u))]]
        BY <2>2 DEF Placed, FieldsOf
    <2> HIDE DEF S, U
    <2>7. {U(n) : n \in S} = {c[3] : c \in new}
        <3>1. \A n \in S : <<k, n, U(n)>> \in new /\ <<k, n, U(n)>>[3] = U(n)
            BY <2>3
        <3>2. \A c \in new : \E n \in S : c[3] = U(n)
            BY <2>3
        <3> QED BY <3>1, <3>2
    <2>8. DOMAIN q.bits = {c[3] : c \in all}
        BY <1>2, <1>3, <1>4, <2>6, <2>7
    <2>9. ASSUME NEW u \in DOMAIN q.bits
          PROVE  \E c : c[3] = u /\ IsLast(d, k + 1, c) /\ q.bits[u] = PlaceOf(d, c)
        <3>1. CASE F(u) = {}
            <4>1. u \in DOMAIN p.bits /\ q.bits[u] = p.bits[u]
                BY <2>6, <3>1
            <4>2. PICK c : c[3] = u /\ IsLast(d, k, c) /\ p.bits[u] = PlaceOf(d, c)
                BY <1>3, <4>1
            <4>3. \A o \in new : o[3] # u
                BY <2>3, <3>1
            <4>4. c \in old /\ \A o \in old : o[3] = c[3] => o[1] < c[1] \/ (o[1] = c[1] /\ o[2] <= c[2])
                BY <4>2 DEF IsLast, old
            <4>5. c \in all /\ \A o \in all : o[3] = c[3] => o[1] < c[1] \/ (o[1] = c[1] /\ o[2] <= c[2])
                BY <1>2, <1>4, <4>2, <4>3, <4>4
            <4>6. IsLast(d, k + 1, c)
                BY <4>5 DEF IsLast, all
            <4> QED BY <4>1, <4>2, <4>6
        <3>2. CASE F(u) # {}
            <4> DEFINE m == Max(F(u))
                       c == <<k, m, u>>
            <4>1. m \in F(u) /\ \A n \in F(u) : n <= m
                <5>1. F(u) \in SUBSET (0 .. Named(p))
                    BY <2>3 DEF S
                <5> HIDE DEF F
                <5> QED BY <2>3, <3>2, <5>1, GreatestIs
            <4>2. q.bits[u] = [report |-> p.g.id, bit |-> start + m]
                BY <2>6, <3>2
            <4> HIDE DEF m
            <4>3. m \in S /\ U(m) = u /\ c[1] = k /\ c[2] = m /\ c[3] = u
                BY <4>1
            <4>4. c \in new
                BY <2>3, <4>3
            <4>5. ASSUME NEW o \in all, o[3] = u PROVE o[1] < k \/ (o[1] = k /\ o[2] <= m)
                <5>1. CASE o \in old
                    BY <1>2, <5>1
                <5>2. CASE o \in new
                    <6>1. PICK n \in S : o = <<k, n, U(n)>>
                        BY <2>3, <5>2
                    <6>2. n \in F(u)
                        BY <4>5, <6>1
                    <6> QED BY <4>1, <6>1, <6>2
                <5> QED BY <1>2, <1>4, <5>1, <5>2
            <4>6. IsLast(d, k + 1, c)
                <5>1. c \in all
                    BY <1>2, <1>4, <4>4
                <5> HIDE DEF c
                <5> QED BY <4>3, <4>5, <5>1 DEF IsLast, all
            <4>7. q.bits[u] = PlaceOf(d, c)
                BY <2>1, <2>4, <4>2, <4>3 DEF PlaceOf
            <4> QED BY <4>3, <4>6, <4>7
        <3> QED BY <3>1, <3>2
    <2> QED BY <2>5, <2>8, <2>9 DEF BitsAgree, all
<1>5. CASE ~(it.tag = "output" /\ Global(d, k, "size") = 1)
    <2>1. q.indexed = p.indexed /\ q.bits = p.bits
        <3>1. CASE it.tag = "output"
            <4>1. p.g.size # 1
                BY <1>5, <3>1, UsageOfIs
            <4>2. q.indexed = p.indexed + 0 /\ q.bits = p.bits
                BY <3>1, <4>1, OutputIs
            <4>3. p.indexed \in Nat
                BY DEF IsParser
            <4> QED BY <4>2, <4>3
        <3>2. CASE it.tag # "output"
            <4>1. it.tag \in Tags \ {"output"}
                BY <1>1, <3>2
            <4> QED BY <4>1, OtherThanOutput
        <3> QED BY <3>1, <3>2
    <2>2. all = old
        <3>1. it.tag = "output" => new = {}
            BY <1>5 DEF ClaimsOf
        <3> HIDE DEF old, new, all
        <3> QED BY <1>2, <3>1
    <2> QED BY <2>1, <2>2 DEF BitsAgree, IsLast
<1> QED BY <1>4, <1>5

(***************************************************************************)
(* What is refused.                                                        *)
(***************************************************************************)
LEMMA BudgetType ==
    ASSUME NEW d \in Descriptors
    PROVE  DescriptorBytes(d) * IndexedPerByte \in Nat
<1> DEFINE A == {i \in DOMAIN d : d[i].tag \notin {"push", "pop", "end"}}
           B == {i \in DOMAIN d : d[i].tag \in Wide}
<1>1. Len(d) \in Nat /\ A \in SUBSET (1 .. Len(d)) /\ B \in SUBSET (1 .. Len(d))
    BY DescriptorIs
<1> HIDE DEF A, B
<1>2. Cardinality(A) \in Nat /\ Cardinality(B) \in Nat
    BY <1>1, RankIs
<1>3. DescriptorBytes(d) \in Nat
    BY <1>1, <1>2 DEF DescriptorBytes, A, B
<1>4. \A a, b \in Nat : a * b \in Nat
    OBVIOUS
<1> QED BY <1>3, <1>4, DescriptorAssumption

LEMMA RefusedStays ==
    ASSUME NEW d \in Descriptors, NEW k \in 1 .. Len(d), IsFiniteSet(Claims(d, k)), Refused(d, k)
    PROVE  Refused(d, k + 1)
<1>1. /\ k \in Nat
      /\ \A j \in 1 .. Len(d) : j < k => j < k + 1
    BY DescriptorIs
<1>2. /\ Tagged(d, {"cut"}) \subseteq 1 .. Len(d) /\ Tagged(d, {"end"}) \subseteq 1 .. Len(d)
      /\ Outputs(d) \subseteq 1 .. Len(d)
    BY TaggedIs DEF Outputs
<1>3. Cut(d, k) => Cut(d, k + 1)
    BY <1>1, <1>2 DEF Cut
<1>4. Unpaired(d, k) => Unpaired(d, k + 1)
    BY <1>1, <1>2 DEF Unpaired
<1>5. TooLong(d, k) => TooLong(d, k + 1)
    BY <1>1, <1>2 DEF TooLong
<1>6. TooMany(d, k) => TooMany(d, k + 1)
    <2> DEFINE old == Claims(d, k)
               new == Claims(d, k + 1)
               budget == DescriptorBytes(d) * IndexedPerByte
    <2>1. old \in SUBSET new /\ IsFiniteSet(new)
        <3>1. CASE d[k].tag = "output"
            <4>1. new = old \cup ClaimsOf(d, k) /\ IsFiniteSet(ClaimsOf(d, k))
                BY <3>1, ClaimsStep
            <4> HIDE DEF old, new
            <4>2. IsFiniteSet(old \cup ClaimsOf(d, k))
                BY <4>1, FS_Union DEF old
            <4> QED BY <4>1, <4>2
        <3>2. CASE d[k].tag # "output"
            BY <3>2, ClaimsStep
        <3> QED BY <3>1, <3>2
    <2>2. Cardinality(old) \in Nat /\ Cardinality(new) \in Nat /\ Cardinality(old) <= Cardinality(new)
        <3> HIDE DEF old, new
        <3>1. Cardinality(old) <= Cardinality(new) /\ IsFiniteSet(old)
            BY <2>1, FS_Subset
        <3> QED BY <2>1, <3>1, FS_CardinalityType
    <2>3. budget \in Nat
        BY BudgetType
    <2> HIDE DEF old, new, budget
    <2>4. Cardinality(old) > budget => Cardinality(new) > budget
        BY <2>2, <2>3
    <2> QED BY <2>4 DEF TooMany, old, new, budget
<1> QED BY <1>3, <1>4, <1>5, <1>6 DEF Refused

LEMMA RefusedNow ==
    ASSUME NEW d \in Descriptors, NEW k \in 1 .. Len(d), ~Refused(d, k)
    PROVE  Refused(d, k + 1) <=>
             \/ d[k].tag = "cut"
             \/ d[k].tag = "end" /\ Closed(d, k + 1) > Opened(d, k + 1)
             \/ d[k].tag = "output" /\ FirstBit(d, k) + Width(d, k) > MaxReportBytes * 8
             \/ TooMany(d, k + 1)
<1>1. /\ \A j \in 1 .. Len(d) : j < k + 1 <=> j < k \/ j = k
    BY DescriptorIs
<1>2. \A tag : Tagged(d, {tag}) \subseteq 1 .. Len(d) /\ (k \in Tagged(d, {tag}) <=> d[k].tag = tag)
    BY TaggedIs
<1>3. ~Cut(d, k) /\ ~Unpaired(d, k) /\ ~TooLong(d, k)
    BY DEF Refused
<1>4. Cut(d, k + 1) <=> d[k].tag = "cut"
    BY <1>1, <1>2, <1>3 DEF Cut
<1>5. Unpaired(d, k + 1) <=> d[k].tag = "end" /\ Closed(d, k + 1) > Opened(d, k + 1)
    BY <1>1, <1>2, <1>3 DEF Unpaired
<1>6. TooLong(d, k + 1) <=> d[k].tag = "output" /\ FirstBit(d, k) + Width(d, k) > MaxReportBytes * 8
    BY <1>1, <1>2, <1>3 DEF TooLong, Outputs
<1> QED BY <1>4, <1>5, <1>6 DEF Refused

LEMMA ErrStep ==
    ASSUME NEW d \in Descriptors, NEW k \in 1 .. Len(d), NEW p, Agrees(d, k, p), ~p.err,
           NEW q, q = ParseItem(p, d[k], DescriptorBytes(d) * IndexedPerByte)
    PROVE  q.err <=> Refused(d, k + 1)
<1> DEFINE it == d[k]
           budget == DescriptorBytes(d) * IndexedPerByte
<1> HIDE DEF budget
<1>1. it.tag \in Tags
    BY DescriptorIs
<1>2. /\ IsParser(p) /\ StatesAgree(d, k, p) /\ UsagesAgree(d, k, p) /\ RangeAgrees(d, k, p)
      /\ OffsetsAgree(d, k, p) /\ BitsAgree(d, k, p) /\ PairsAgree(d, k, p)
      /\ IsFiniteSet(Claims(d, k)) /\ ~Refused(d, k)
    BY DEF Agrees
<1>3. q = ParseItem(p, it, budget)
    BY DEF budget
<1>4. TooMany(d, k + 1) <=> Cardinality(Claims(d, k + 1)) > budget
    BY DEF TooMany, budget
<1>5. CASE it.tag = "output"
    <2> DEFINE start == At(p.offsets, p.g.id, 0)
               end == start + p.g.size * p.g.count
               found == IF p.g.size = 1 THEN Named(p) ELSE 0
    <2>1. q.err <=> Bytes(end) > MaxReportBytes \/ p.indexed + found > budget
        BY <1>2, <1>3, <1>5, OutputIs
    <2>2. /\ p.g.size = Global(d, k, "size") /\ p.g.id = Global(d, k, "id") /\ p.g.id \in Nat
          /\ p.g.size * p.g.count = Width(d, k)
        <3>1. p.g.id \in Nat
            BY <1>2 DEF IsParser, GlobalState
        <3> QED BY <1>2, <3>1, UsageOfIs DEF Width
    <2>3. start = FirstBit(d, k) /\ start \in Nat
        <3>1. start = Cardinality(Taken(d, k, p.g.id))
            BY <1>2, <2>2 DEF OffsetsAgree
        <3>2. IsFiniteSet(Taken(d, k, p.g.id))
            BY <2>2 DEF Agrees
        <3> QED BY <2>2, <3>1, <3>2, FS_CardinalityType DEF FirstBit
    <2>4. Cardinality(Claims(d, k + 1)) = p.indexed + found
        BY <1>2, <1>5, <2>2, ClaimsCount DEF BitsAgree
    <2>5. Bytes(end) > MaxReportBytes <=> FirstBit(d, k) + Width(d, k) > MaxReportBytes * 8
        <3>1. end = FirstBit(d, k) + Width(d, k) /\ end \in Nat
            BY <2>2, <2>3, WidthType
        <3> HIDE DEF end
        <3>2. (end + 7) \div 8 > MaxReportBytes <=> end > MaxReportBytes * 8
            BY <3>1, DescriptorAssumption
        <3> QED BY <3>1, <3>2 DEF Bytes
    <2> HIDE DEF end, found
    <2>6. q.err <=> FirstBit(d, k) + Width(d, k) > MaxReportBytes * 8 \/ TooMany(d, k + 1)
        BY <1>4, <2>1, <2>4, <2>5
    <2> QED BY <1>2, <1>5, <2>6, RefusedNow
<1>6. CASE it.tag # "output"
    <2>1. it.tag \in Tags \ {"output"}
        BY <1>1, <1>6
    <2>2. q.err <=> it.tag = "cut" \/ (it.tag = "end" /\ p.depth = 0)
        BY <1>2, <1>3, <2>1, OtherThanOutput
    <2>3. it.tag = "end" => (p.depth = 0 <=> Closed(d, k + 1) > Opened(d, k + 1))
        BY <1>2, <1>3, PairsStep
    <2>4. ~TooMany(d, k + 1)
        <3>1. Claims(d, k + 1) = Claims(d, k)
            BY <1>6, ClaimsStep
        <3> QED BY <1>2, <3>1 DEF TooMany, Refused
    <2> QED BY <1>2, <1>6, <2>2, <2>3, <2>4, RefusedNow
<1> QED BY <1>5, <1>6

LEMMA TypeStep ==
    ASSUME NEW p, IsParser(p), NEW it, it.tag \in Tags, it.v \in Nat, NEW budget,
           NEW q, q = ParseItem(p, it, budget)
    PROVE  IsParser(q)
<1> DEFINE key == PackUsage(p.g.page, it)
           R == [some : BOOLEAN, min : Nat, max : Nat]
<1>1. CASE p.err
    BY <1>1 DEF ParseItem
<1>2. /\ p.g \in GlobalState /\ p.usages \in Seq(Nat) /\ p.range \in R
      /\ p.pushed \in Seq(GlobalState) /\ p.depth \in Nat /\ p.indexed \in Nat
    BY DEF IsParser
<1>3. key \in Nat
    <2>1. p.g.page \in Nat
        BY <1>2 DEF GlobalState
    <2> QED BY <2>1 DEF PackUsage, Key
<1>4. Unranged(p.range) \in R
    BY <1>2 DEF Unranged
<1> SUFFICES ASSUME ~p.err,
                    q = Parser(q.g, q.usages, q.range, q.offsets, q.pushed, q.depth, q.indexed, q.bits, q.err)
             PROVE  /\ q.g \in GlobalState /\ q.usages \in Seq(Nat) /\ q.range \in R
                    /\ q.pushed \in Seq(GlobalState) /\ q.depth \in Nat /\ q.indexed \in Nat
    <2>1. ~p.err => q = Parser(q.g, q.usages, q.range, q.offsets, q.pushed, q.depth, q.indexed, q.bits, q.err)
        <3>1. CASE it.tag = "output"
            BY <3>1, OutputIs
        <3>2. CASE it.tag # "output"
            <4>1. it.tag \in Tags \ {"output"}
                BY <3>2
            <4> QED BY <4>1, OtherThanOutput
        <3> QED BY <3>1, <3>2
    <2> QED BY <1>1, <2>1 DEF IsParser, Parser
<1>5. CASE it.tag = "output"
    <2> DEFINE found == IF p.g.size = 1 THEN Named(p) ELSE 0
    <2>1. /\ q.g = p.g /\ q.pushed = p.pushed /\ q.depth = p.depth
          /\ q.usages = p.usages \/ q.usages = <<>>
          /\ q.range = p.range \/ q.range = Unranged(p.range)
          /\ q.indexed = p.indexed \/ q.indexed = p.indexed + found
        BY <1>5, OutputIs
    <2>2. found \in Nat
        <3>1. p.g.count \in Nat /\ Len(p.usages) \in Nat /\ p.range.min \in Nat /\ p.range.max \in Nat
            BY <1>2 DEF GlobalState
        <3>2. Span(p) \in Nat
            BY <3>1 DEF Span
        <3> QED BY <3>1, <3>2 DEF Named
    <2> HIDE DEF found, R
    <2>3. q.usages \in Seq(Nat)
        <3>1. <<>> \in Seq(Nat)
            OBVIOUS
        <3> QED BY <1>2, <2>1, <3>1
    <2> QED BY <1>2, <1>4, <2>1, <2>2, <2>3
<1>6. CASE it.tag # "output"
    <2>0. it.tag \in Tags \ {"output"}
        BY <1>6
    <2>1. /\ q.g = IF it.tag = "pop" /\ p.pushed # <<>> THEN p.pushed[Len(p.pushed)] ELSE Stated(p.g, it)
          /\ q.pushed = IF it.tag = "push" THEN Append(p.pushed, p.g)
                        ELSE IF it.tag = "pop" /\ p.pushed # <<>> THEN SubSeq(p.pushed, 1, Len(p.pushed) - 1)
                        ELSE p.pushed
          /\ q.usages = IF it.tag \in Usages THEN Append(p.usages, key)
                        ELSE IF it.tag \in Mains /\ ~q.err THEN <<>>
                        ELSE p.usages
          /\ q.range = IF it.tag \in Lows \cup Highs THEN Ended(p.range, it, key)
                       ELSE IF it.tag \in Mains /\ ~q.err THEN Unranged(p.range)
                       ELSE p.range
          /\ q.indexed = p.indexed
          /\ q.depth = IF it.tag = "collection" THEN p.depth + 1
                       ELSE IF it.tag = "end" /\ p.depth # 0 THEN p.depth - 1
                       ELSE p.depth
        BY <2>0, OtherThanOutput
    <2> HIDE DEF key, R
    <2>2. Stated(p.g, it) \in GlobalState
        BY <1>2 DEF Stated, GlobalState
    <2>3. p.pushed # <<>> => p.pushed[Len(p.pushed)] \in GlobalState
                             /\ SubSeq(p.pushed, 1, Len(p.pushed) - 1) \in Seq(GlobalState)
        <3> DEFINE G == GlobalState
        <3> HIDE DEF G
        <3>1. p.pushed \in Seq(G)
            BY <1>2 DEF G
        <3>2. ASSUME p.pushed # <<>> PROVE Len(p.pushed) \in 1 .. Len(p.pushed)
            BY <3>1, <3>2
        <3>3. ASSUME p.pushed # <<>> PROVE p.pushed[Len(p.pushed)] \in G
            BY <3>1, <3>2, <3>3
        <3>4. ASSUME p.pushed # <<>> PROVE SubSeq(p.pushed, 1, Len(p.pushed) - 1) \in Seq(G)
            BY <3>1, <3>2, <3>4
        <3> QED BY <3>3, <3>4 DEF G
    <2>4. Append(p.pushed, p.g) \in Seq(GlobalState)
        BY <1>2
    <2>5. Append(p.usages, it.v) \in Seq(Nat) /\ Append(p.usages, key) \in Seq(Nat) /\ <<>> \in Seq(Nat)
        BY <1>2, <1>3
    <2>6. Ended(p.range, it, key) \in R
        BY <1>2, <1>3 DEF Ended, R
    <2>7. q.g \in GlobalState /\ q.pushed \in Seq(GlobalState)
        BY <1>2, <2>1, <2>2, <2>3, <2>4
    <2>8. q.usages \in Seq(Nat)
        BY <1>2, <2>1, <2>5
    <2>9. q.range \in R
        BY <1>2, <1>4, <2>1, <2>6
    <2>10. q.depth \in Nat /\ q.indexed \in Nat
        BY <1>2, <2>1
    <2> QED BY <2>7, <2>8, <2>9, <2>10
<1> QED BY <1>5, <1>6

(***************************************************************************)
(* Before every item the parser agrees with what was declared so far.      *)
(***************************************************************************)
LEMMA NothingSaid ==
    ASSUME NEW d \in Descriptors
    PROVE  /\ \A tags : {j \in Tagged(d, tags) : j < 1} = {}
           /\ {o \in Outputs(d) : o < 1} = {} /\ Claims(d, 1) = {} /\ Listed(d, 1) = {}
           /\ ~Ranged(d, 1) /\ RangeEnd(d, 1, Lows) = 0 /\ RangeEnd(d, 1, Highs) = 0
           /\ \A r : Before(d, 1, r) = {} /\ Taken(d, 1, r) = {}
<1>1. ASSUME NEW tags PROVE \A j \in Tagged(d, tags) : j \in Nat /\ ~(j < 1)
    BY TaggedIs, DescriptorIs
<1>2. \A tags : {j \in Tagged(d, tags) : j < 1} = {}
    BY <1>1
<1>3. {o \in Outputs(d) : o < 1} = {}
    BY <1>2 DEF Outputs
<1>4. Claims(d, 1) = {}
    BY <1>3 DEF Claims
<1>5. Listed(d, 1) = {} /\ ~Ranged(d, 1)
    BY <1>1 DEF Listed, Ranged, Reaches
<1>6. RangeEnd(d, 1, Lows) = 0 /\ RangeEnd(d, 1, Highs) = 0
    BY <1>2 DEF RangeEnd, Said
<1>7. ASSUME NEW r PROVE Before(d, 1, r) = {} /\ Taken(d, 1, r) = {}
    <2>1. Before(d, 1, r) = {}
        BY <1>1 DEF Before, Outputs
    <2> QED BY <2>1 DEF Taken
<1> QED BY <1>2, <1>3, <1>4, <1>5, <1>6, <1>7

LEMMA AgreesStarts ==
    ASSUME NEW d \in Descriptors
    PROVE  Agrees(d, 1, Start)
<1>1. IsParser(Start)
    <2>1. Globals \in GlobalState /\ NoRange \in [some : BOOLEAN, min : Nat, max : Nat]
        BY DEF Globals, GlobalState, NoRange
    <2>2. <<>> \in Seq(Nat) /\ <<>> \in Seq(GlobalState)
        OBVIOUS
    <2> QED BY <2>1, <2>2 DEF IsParser, Start
<1>2. IsFiniteSet(Claims(d, 1)) /\ \A r \in Nat : IsFiniteSet(Taken(d, 1, r))
    BY NothingSaid, FS_EmptySet
<1>3. Start.err <=> Refused(d, 1)
    <2>1. ~Cut(d, 1) /\ ~Unpaired(d, 1) /\ ~TooLong(d, 1)
        BY NothingSaid DEF Cut, Unpaired, TooLong
    <2>2. ~TooMany(d, 1)
        <3> DEFINE budget == DescriptorBytes(d) * IndexedPerByte
        <3>1. Cardinality(Claims(d, 1)) = 0
            BY NothingSaid, FS_EmptySet
        <3>2. budget \in Nat
            BY BudgetType
        <3> HIDE DEF budget
        <3>3. ~(0 > budget)
            BY <3>2
        <3> QED BY <3>1, <3>3 DEF TooMany, budget
    <2> QED BY <2>1, <2>2 DEF Refused, Start
<1>4. StatesAgree(d, 1, Start)
    <2>1. Nesting(d)[1 - 1] = 0
        BY NestingIs
    <2>2. <<>> = [m \in 1 .. 0 |-> State(d, 1, m - 1)]
        OBVIOUS
    <2> QED BY <2>1, <2>2, StateStarts DEF StatesAgree, Start
<1>5. UsagesAgree(d, 1, Start)
    <2>1. Listed(d, 1) = {} /\ Cardinality(Listed(d, 1)) = 0
        BY NothingSaid, FS_EmptySet
    <2>2. Len(Start.usages) = 0 /\ 0 .. 0 - 1 = {}
        BY DEF Start
    <2> QED BY <2>1, <2>2 DEF UsagesAgree
<1>6. RangeAgrees(d, 1, Start)
    BY NothingSaid DEF RangeAgrees, Start, NoRange
<1>7. OffsetsAgree(d, 1, Start)
    <2>1. DOMAIN Start.offsets = {}
        BY DEF Start
    <2>2. {Global(d, j, "id") : j \in {o \in Outputs(d) : o < 1}} = {}
        BY NothingSaid
    <2>3. \A r \in Nat : Cardinality(Taken(d, 1, r)) = 0
        BY NothingSaid, FS_EmptySet
    <2> QED BY <2>1, <2>2, <2>3 DEF OffsetsAgree, At
<1>8. BitsAgree(d, 1, Start)
    <2>1. DOMAIN Start.bits = {} /\ Start.indexed = 0
        BY DEF Start
    <2>2. Cardinality(Claims(d, 1)) = 0 /\ {c[3] : c \in Claims(d, 1)} = {}
        BY NothingSaid, FS_EmptySet
    <2> QED BY <2>1, <2>2 DEF BitsAgree
<1>9. PairsAgree(d, 1, Start)
    <2>1. Opened(d, 1) = 0 /\ Closed(d, 1) = 0
        BY NothingSaid, FS_EmptySet DEF Opened, Closed
    <2> QED BY <2>1 DEF PairsAgree, Start
<1> QED BY <1>1, <1>2, <1>3, <1>4, <1>5, <1>6, <1>7, <1>8, <1>9 DEF Agrees

LEMMA AgreesStep ==
    ASSUME NEW d \in Descriptors, NEW k \in 1 .. Len(d), NEW p, Agrees(d, k, p)
    PROVE  Agrees(d, k + 1, ParseItem(p, d[k], DescriptorBytes(d) * IndexedPerByte))
<1> DEFINE budget == DescriptorBytes(d) * IndexedPerByte
           q == ParseItem(p, d[k], budget)
<1>1. /\ d[k].tag \in Tags /\ d[k].v \in Nat /\ IsParser(p)
      /\ IsFiniteSet(Claims(d, k)) /\ \A r \in Nat : IsFiniteSet(Taken(d, k, r))
    BY DescriptorIs DEF Agrees
<1>2. IsParser(q)
    BY <1>1, TypeStep
<1>3. IsFiniteSet(Claims(d, k + 1))
    <2>1. IsFiniteSet(ClaimsOf(d, k)) /\ (Claims(d, k + 1) = Claims(d, k) \cup ClaimsOf(d, k)
                                         \/ Claims(d, k + 1) = Claims(d, k))
        BY ClaimsStep
    <2>2. IsFiniteSet(Claims(d, k) \cup ClaimsOf(d, k))
        BY <1>1, <2>1, FS_Union
    <2> QED BY <1>1, <2>1, <2>2
<1>4. \A r \in Nat : IsFiniteSet(Taken(d, k + 1, r))
    BY <1>1, TakenStep
<1>5. CASE p.err
    <2>1. q = p
        BY <1>5 DEF ParseItem
    <2>2. Refused(d, k + 1)
        BY <1>1, <1>5, RefusedStays DEF Agrees
    <2> QED BY <1>2, <1>3, <1>4, <1>5, <2>1, <2>2 DEF Agrees
<1>6. CASE ~p.err
    <2>1. /\ StatesAgree(d, k, p) /\ UsagesAgree(d, k, p) /\ RangeAgrees(d, k, p)
          /\ OffsetsAgree(d, k, p) /\ BitsAgree(d, k, p) /\ PairsAgree(d, k, p)
        BY <1>6 DEF Agrees
    <2>2. q.err <=> Refused(d, k + 1)
        BY <1>6, ErrStep
    <2>3. ASSUME ~q.err
          PROVE  /\ StatesAgree(d, k + 1, q) /\ UsagesAgree(d, k + 1, q) /\ RangeAgrees(d, k + 1, q)
                 /\ OffsetsAgree(d, k + 1, q) /\ BitsAgree(d, k + 1, q) /\ PairsAgree(d, k + 1, q)
        <3> HIDE DEF q, budget
        <3>0. q = ParseItem(p, d[k], budget)
            BY DEF q
        <3>1. StatesAgree(d, k + 1, q)
            BY <1>1, <1>6, <2>1, <2>3, <3>0, StatesStep
        <3>2. UsagesAgree(d, k + 1, q)
            BY <1>1, <1>6, <2>1, <2>3, <3>0, UsagesStep
        <3>3. RangeAgrees(d, k + 1, q)
            BY <1>1, <1>6, <2>1, <2>3, <3>0, RangeStep
        <3>4. OffsetsAgree(d, k + 1, q)
            BY <1>1, <1>6, <2>1, <2>3, <3>0, OffsetsStep
        <3>5. BitsAgree(d, k + 1, q)
            BY <1>1, <1>6, <2>1, <2>3, <3>0, BitsStep
        <3>6. PairsAgree(d, k + 1, q)
            BY <1>1, <1>6, <2>1, <2>3, <3>0, PairsStep
        <3> QED BY <3>1, <3>2, <3>3, <3>4, <3>5, <3>6
    <2>4. Agrees(d, k + 1, q)
        <3> HIDE DEF q
        <3> QED BY <1>2, <1>3, <1>4, <2>2, <2>3 DEF Agrees
    <2> QED BY <2>4
<1> QED BY <1>5, <1>6

LEMMA AgreesAlways ==
    ASSUME NEW d \in Descriptors
    PROVE  Agrees(d, Len(d) + 1, Parse(d)[Len(d)])
<1> DEFINE S == {k \in Nat : k <= Len(d) => Agrees(d, k + 1, Parse(d)[k])}
<1>0. Len(d) \in Nat
    BY DescriptorIs
<1>1. 0 \in S
    <2>1. Agrees(d, 0 + 1, Parse(d)[0])
        BY AgreesStarts, ParseIs
    <2> QED BY <2>1
<1>2. ASSUME NEW n \in S PROVE n + 1 \in S
    <2>1. CASE n + 1 <= Len(d)
        <3> DEFINE k == n + 1
        <3>1. k \in 1 .. Len(d) /\ k - 1 = n /\ n \in Nat /\ n <= Len(d)
            BY <1>0, <2>1
        <3>2. Agrees(d, k, Parse(d)[k - 1])
            BY <3>1
        <3> HIDE DEF k
        <3>3. Agrees(d, k + 1, Parse(d)[k])
            BY <3>1, <3>2, AgreesStep, ParseIs
        <3> QED BY <3>1, <3>3 DEF k
    <2>2. CASE ~(n + 1 <= Len(d))
        BY <2>2
    <2> QED BY <2>1, <2>2
<1>3. S \in SUBSET Nat
    OBVIOUS
<1> HIDE DEF S
<1>4. Len(d) \in S
    BY <1>0, <1>1, <1>2, <1>3, Induction
<1> QED BY <1>0, <1>4 DEF S

(***************************************************************************)
(* In the end the parser has found what was declared.                      *)
(***************************************************************************)
LEMMA ClaimsAre ==
    ASSUME NEW d \in Descriptors, NEW k \in 1 .. Len(d) + 1, NEW c \in Claims(d, k)
    PROVE  /\ c = <<c[1], c[2], c[3]>> /\ c[1] \in Outputs(d) /\ c[1] < k /\ c[1] \in 1 .. Len(d)
           /\ c[2] \in Int
<1>1. PICK j \in Outputs(d) : j < k /\ c \in ClaimsOf(d, j)
    BY DEF Claims
<1>2. j \in 1 .. Len(d)
    BY TaggedIs DEF Outputs
<1>3. PICK x \in Names(d, j) : c = <<j, x[1], x[2]>>
    BY <1>1 DEF ClaimsOf
<1>4. x[1] \in Int
    <2> DEFINE js == Listed(d, j)
    <2>1. js \in SUBSET (1 .. Len(d)) /\ Len(d) \in Nat
        BY TaggedIs, DescriptorIs DEF Listed
    <2>2. \A i \in js : Rank(js, i) \in Int
        <3> HIDE DEF js
        <3>1. \A i \in js : Rank(js, i) \in 0 .. Cardinality(js) - 1
            BY <2>1, RankIs
        <3> QED BY <3>1
    <2> DEFINE listed == {<<Rank(js, i), UsageOf(d, i)>> : i \in js}
               low == RangeEnd(d, j, Lows)
               span == RangeEnd(d, j, Highs) - low
               rest == IF Ranged(d, j) THEN {<<n, low + n>> : n \in Cardinality(js) .. span} ELSE {}
    <2>3. \A y \in listed : y[1] \in Int
        BY <2>2
    <2>4. \A y \in rest : y[1] \in Int
        <3>1. \A n \in Cardinality(js) .. span : n \in Int
            OBVIOUS
        <3> QED BY <3>1
    <2>5. x \in listed \cup rest
        BY DEF Names
    <2> HIDE DEF listed, rest
    <2> QED BY <2>3, <2>4, <2>5
<1> QED BY <1>1, <1>2, <1>3, <1>4

LEMMA LastIsOne ==
    ASSUME NEW d \in Descriptors, NEW k \in 1 .. Len(d) + 1, NEW c, IsLast(d, k, c)
    PROVE  c = CHOOSE o \in Claims(d, k) : o[3] = c[3] /\ IsLast(d, k, o)
<1>1. c \in Claims(d, k)
    BY DEF IsLast
<1>2. ASSUME NEW o \in Claims(d, k), o[3] = c[3], IsLast(d, k, o)
      PROVE  o = c
    <2>1. /\ o = <<o[1], o[2], o[3]>> /\ c = <<c[1], c[2], c[3]>>
          /\ o[1] \in Int /\ c[1] \in Int /\ o[2] \in Int /\ c[2] \in Int
        BY <1>1, ClaimsAre
    <2>2. o[1] < c[1] \/ (o[1] = c[1] /\ o[2] <= c[2])
        BY <1>2 DEF IsLast
    <2>3. c[1] < o[1] \/ (c[1] = o[1] /\ c[2] <= o[2])
        BY <1>1, <1>2 DEF IsLast
    <2>4. o[1] = c[1] /\ o[2] = c[2]
        BY <2>1, <2>2, <2>3
    <2> QED BY <1>2, <2>1, <2>4
<1> QED BY <1>1, <1>2

LEMMA ParsedAsDeclared ==
    ASSUME NEW d \in Descriptors
    PROVE  ParseOutputs(d) = Declared(d)
<1> DEFINE p == Parse(d)[Len(d)]
           all == Len(d) + 1
<1>1. Agrees(d, all, p) /\ all \in 1 .. Len(d) + 1
    BY AgreesAlways, DescriptorIs
<1>2. CASE p.err
    <2>1. Refused(d, all)
        BY <1>1, <1>2 DEF Agrees
    <2> QED BY <1>2, <2>1 DEF ParseOutputs, Declared
<1>3. CASE ~p.err
    <2>1. /\ ~Refused(d, all) /\ OffsetsAgree(d, all, p) /\ BitsAgree(d, all, p)
          /\ PairsAgree(d, all, p)
        BY <1>1, <1>3 DEF Agrees
    <2>2. p.depth # 0 <=> Opened(d, all) # Closed(d, all)
        <3>1. Opened(d, all) \in Nat /\ Closed(d, all) \in Nat
            BY <1>1, TaggedIs, DescriptorIs, RankIs DEF Opened, Closed
        <3> QED BY <2>1, <3>1 DEF PairsAgree
    <2>3. CASE p.depth # 0
        BY <2>2, <2>3 DEF ParseOutputs, Declared
    <2>4. CASE p.depth = 0
        <3> DEFINE K(u) == CHOOSE c \in Claims(d, all) : c[3] = u /\ IsLast(d, all, c)
                   R(u) == Global(d, K(u)[1], "id")
                   A(u) == [report |-> p.bits[u].report, bit |-> p.bits[u].bit,
                            payload |-> Bytes(p.offsets[p.bits[u].report])]
                   B(u) == [report |-> R(u), bit |-> FirstBit(d, K(u)[1]) + K(u)[2],
                            payload |-> Bytes(Cardinality(Taken(d, all, R(u))))]
        <3>1. DOMAIN p.bits = {c[3] : c \in Claims(d, all)}
            BY <2>1 DEF BitsAgree
        <3>2. ASSUME NEW u \in DOMAIN p.bits PROVE A(u) = B(u)
            <4>1. PICK c : c[3] = u /\ IsLast(d, all, c) /\ p.bits[u] = PlaceOf(d, c)
                BY <2>1 DEF BitsAgree
            <4>2. c = K(u)
                BY <1>1, <4>1, LastIsOne
            <4>3. c \in Claims(d, all)
                BY <4>1 DEF IsLast
            <4>4. /\ c[1] \in Outputs(d) /\ c[1] < all /\ c[1] \in 1 .. Len(d)
                BY <1>1, <4>3, ClaimsAre
            <4> DEFINE r == Global(d, c[1], "id")
            <4>5. r \in Nat
                <5>1. c[1] \in 1 .. Len(d) + 1
                    BY <4>4, DescriptorIs
                <5> QED BY <5>1, GlobalType
            <4>6. r \in DOMAIN p.offsets
                BY <2>1, <4>4 DEF OffsetsAgree
            <4>7. p.offsets[r] = Cardinality(Taken(d, all, r))
                <5>1. At(p.offsets, r, 0) = Cardinality(Taken(d, all, r))
                    BY <2>1, <4>5 DEF OffsetsAgree
                <5> QED BY <4>6, <5>1 DEF At
            <4>8. p.bits[u].report = r /\ p.bits[u].bit = FirstBit(d, c[1]) + c[2]
                BY <4>1 DEF PlaceOf
            <4> HIDE DEF r
            <4>9. A(u) = [report |-> r, bit |-> FirstBit(d, c[1]) + c[2],
                          payload |-> Bytes(Cardinality(Taken(d, all, r)))]
                BY <4>7, <4>8
            <4>10. R(u) = r
                BY <4>2 DEF r
            <4> HIDE DEF K
            <4> QED BY <4>2, <4>9, <4>10
        <3> HIDE DEF A, B
        <3>3. [u \in DOMAIN p.bits |-> A(u)] = [u \in {c[3] : c \in Claims(d, all)} |-> B(u)]
            BY <3>1, <3>2
        <3>4. ParseOutputs(d) = [u \in DOMAIN p.bits |-> A(u)]
            BY <1>3, <2>4 DEF ParseOutputs, A
        <3>5. Declared(d) = [u \in {c[3] : c \in Claims(d, all)} |-> B(u)]
            <4>1. ~(Refused(d, all) \/ Opened(d, all) # Closed(d, all))
                BY <2>1, <2>2, <2>4
            <4> QED BY <4>1 DEF Declared, B
        <3> QED BY <3>3, <3>4, <3>5
    <2> QED BY <2>3, <2>4
<1> QED BY <1>2, <1>3

(***************************************************************************)
(* No two usages share a bit.                                              *)
(***************************************************************************)
LEMMA RanksDiffer ==
    ASSUME NEW n \in Nat, NEW S \in SUBSET (1 .. n), NEW i \in S, NEW j \in S, Rank(S, i) = Rank(S, j)
    PROVE  i = j
<1> DEFINE Lower(k) == {m \in S : m < k}
<1>1. ASSUME NEW k \in S, NEW m \in S, k < m PROVE Rank(S, k) # Rank(S, m)
    <2>1. Lower(k) \subseteq Lower(m) /\ k \in Lower(m) /\ k \notin Lower(k) /\ Lower(m) \subseteq S
        <3>1. \A o \in S : o \in Nat
            OBVIOUS
        <3>2. \A o, q, r \in Nat : o < q /\ q < r => o < r
            OBVIOUS
        <3>3. ~(k < k)
            BY <3>1
        <3> QED BY <1>1, <3>1, <3>2, <3>3
    <2> HIDE DEF Lower
    <2>2. IsFiniteSet(Lower(m)) /\ Lower(k) # Lower(m)
        BY <2>1, RankIs, FS_Subset
    <2>3. Cardinality(Lower(k)) # Cardinality(Lower(m))
        BY <2>1, <2>2, FS_Subset
    <2> QED BY <2>3 DEF Rank, Lower
<1>2. i \in Nat /\ j \in Nat
    OBVIOUS
<1> QED BY <1>1, <1>2

\* A bit has one name, and it is one of its output's.
LEMMA NamesAreOne ==
    ASSUME NEW d \in Descriptors, NEW k \in 1 .. Len(d), NEW x \in Names(d, k)
    PROVE  /\ x = <<x[1], x[2]>> /\ x[1] \in Nat /\ x[1] < Global(d, k, "count")
           /\ \A y \in Names(d, k) : x[1] = y[1] => x = y
<1> DEFINE js == Listed(d, k)
           low == RangeEnd(d, k, Lows)
           span == RangeEnd(d, k, Highs) - low
           listed == {<<Rank(js, i), UsageOf(d, i)>> : i \in js}
           rest == IF Ranged(d, k) THEN {<<n, low + n>> : n \in Cardinality(js) .. span} ELSE {}
<1>1. js \in SUBSET (1 .. Len(d)) /\ Len(d) \in Nat
    BY TaggedIs, DescriptorIs DEF Listed
<1>2. /\ Cardinality(js) \in Nat
      /\ \A i \in js : Rank(js, i) \in 0 .. Cardinality(js) - 1
      /\ \A i, j \in js : Rank(js, i) = Rank(js, j) => i = j
    <2> HIDE DEF js
    <2> QED BY <1>1, RankIs, RanksDiffer
<1>3. Names(d, k) = {y \in listed \cup rest : y[1] < Global(d, k, "count")}
    BY DEF Names
<1>4. \A y \in listed : \E i \in js : y = <<Rank(js, i), UsageOf(d, i)>>
    OBVIOUS
<1>5. \A y \in rest : \E n \in Cardinality(js) .. span : y = <<n, low + n>>
    OBVIOUS
<1>6. RangeEnd(d, k, Lows) \in Nat /\ RangeEnd(d, k, Highs) \in Nat
    BY RangeEndType
<1> HIDE DEF js, listed, rest, low, span
<1>7. \A y \in listed : y = <<y[1], y[2]>> /\ y[1] \in 0 .. Cardinality(js) - 1
    BY <1>2, <1>4
<1>8. \A y \in rest : y = <<y[1], y[2]>> /\ y[1] \in Nat /\ y[1] >= Cardinality(js) /\ y[2] = low + y[1]
    <2>1. \A n \in Cardinality(js) .. span : n \in Nat /\ n >= Cardinality(js)
        BY <1>2, <1>6 DEF span, low
    <2> QED BY <1>5, <2>1
<1>9. \A y, z \in listed : y[1] = z[1] => y = z
    BY <1>2, <1>4
<1>10. \A y, z \in rest : y[1] = z[1] => y = z
    BY <1>8
<1>11. \A y \in listed, z \in rest : y[1] # z[1]
    BY <1>2, <1>7, <1>8
<1> QED BY <1>2, <1>3, <1>7, <1>8, <1>9, <1>10, <1>11

\* The bits of one output lie below those of the next in the same report.
LEMMA OutputsFollow ==
    ASSUME NEW d \in Descriptors, NEW j \in Outputs(d), NEW k \in Outputs(d), j < k,
           Global(d, j, "id") = Global(d, k, "id"),
           \A r \in Nat : IsFiniteSet(Taken(d, Len(d) + 1, r))
    PROVE  FirstBit(d, j) \in Nat /\ FirstBit(d, k) \in Nat /\ FirstBit(d, j) + Width(d, j) <= FirstBit(d, k)
<1> DEFINE r == Global(d, k, "id")
           T(n) == Taken(d, n, r)
<1>1. Len(d) \in Nat /\ j \in 1 .. Len(d) /\ k \in 1 .. Len(d) /\ d[j].tag = "output"
    BY TaggedIs, DescriptorIs DEF Outputs
<1>2. r \in Nat
    <2>1. k \in 1 .. Len(d) + 1
        BY <1>1
    <2> QED BY <2>1, GlobalType
<1>3. \A m, n \in 1 .. Len(d) + 1 : m <= n => T(m) \subseteq T(n)
    <2>1. \A m, n \in 1 .. Len(d) + 1 : m <= n => Before(d, m, r) \subseteq Before(d, n, r)
        <3>1. \A i \in Outputs(d) : i \in Nat
            BY <1>1, TaggedIs DEF Outputs
        <3>2. \A i, m, n \in Nat : i < m /\ m <= n => i < n
            OBVIOUS
        <3>3. \A m \in 1 .. Len(d) + 1 : m \in Nat
            BY <1>1
        <3> QED BY <3>1, <3>2, <3>3 DEF Before
    <2> QED BY <2>1 DEF Taken
<1>4. j \in 1 .. Len(d) + 1 /\ j + 1 \in 1 .. Len(d) + 1 /\ k \in 1 .. Len(d) + 1 /\ Len(d) + 1 \in 1 .. Len(d) + 1
      /\ j <= Len(d) + 1 /\ k <= Len(d) + 1 /\ j + 1 <= k
    BY <1>1
<1>5. IsFiniteSet(T(Len(d) + 1))
    BY <1>2
<1> HIDE DEF T
<1>6. IsFiniteSet(T(j)) /\ IsFiniteSet(T(k))
    BY <1>3, <1>4, <1>5, FS_Subset
<1>7. Cardinality(T(j + 1)) <= Cardinality(T(k))
    BY <1>3, <1>4, <1>6, FS_Subset
<1>8. Cardinality(T(j + 1)) = Cardinality(T(j)) + Width(d, j)
    BY <1>1, <1>6, TakenStep DEF T
<1>9. Cardinality(T(j)) \in Nat /\ Cardinality(T(k)) \in Nat
    BY <1>6, FS_CardinalityType
<1>10. FirstBit(d, j) = Cardinality(T(j)) /\ FirstBit(d, k) = Cardinality(T(k))
    BY DEF FirstBit, T
<1> QED BY <1>7, <1>8, <1>9, <1>10

LEMMA ClaimsApart ==
    ASSUME NEW d \in Descriptors, NEW c \in Claims(d, Len(d) + 1), NEW e \in Claims(d, Len(d) + 1),
           \A r \in Nat : IsFiniteSet(Taken(d, Len(d) + 1, r)),
           PlaceOf(d, c) = PlaceOf(d, e)
    PROVE  c[3] = e[3]
<1> DEFINE all == Len(d) + 1
           Of(x) == /\ x[1] \in Outputs(d) /\ x[1] \in 1 .. Len(d) /\ Width(d, x[1]) \in Nat
                    /\ <<x[2], x[3]>> \in Names(d, x[1]) /\ x[2] \in Nat /\ x[2] < Width(d, x[1])
<1>1. ASSUME NEW x \in Claims(d, all) PROVE Of(x)
    <2>1. PICK k \in Outputs(d) : x \in ClaimsOf(d, k)
        BY DEF Claims
    <2>2. k \in 1 .. Len(d) /\ k \in 1 .. Len(d) + 1
        BY TaggedIs, DescriptorIs DEF Outputs
    <2>3. Global(d, k, "size") = 1
        BY <2>1 DEF ClaimsOf
    <2>4. PICK y \in Names(d, k) : x = <<k, y[1], y[2]>>
        BY <2>1, <2>3 DEF ClaimsOf
    <2>5. y = <<y[1], y[2]>> /\ y[1] \in Nat /\ y[1] < Global(d, k, "count")
        BY <2>2, NamesAreOne
    <2>6. Width(d, k) = Global(d, k, "count") /\ Width(d, k) \in Nat
        <3>1. Global(d, k, "count") \in Nat
            BY <2>2, GlobalType
        <3>2. \A n \in Nat : 1 * n = n
            OBVIOUS
        <3> QED BY <2>3, <3>1, <3>2 DEF Width
    <2> QED BY <2>1, <2>2, <2>4, <2>5, <2>6
<1>2. Of(c) /\ Of(e)
    BY <1>1
<1>3. Global(d, c[1], "id") = Global(d, e[1], "id") /\ FirstBit(d, c[1]) + c[2] = FirstBit(d, e[1]) + e[2]
    BY DEF PlaceOf
<1>4. ASSUME c[1] # e[1] PROVE FALSE
    <2>1. c[1] < e[1] \/ e[1] < c[1]
        BY <1>2, <1>4
    <2>2. CASE c[1] < e[1]
        <3>1. /\ FirstBit(d, c[1]) \in Nat /\ FirstBit(d, e[1]) \in Nat
              /\ FirstBit(d, c[1]) + Width(d, c[1]) <= FirstBit(d, e[1])
            BY <1>2, <1>3, <2>2, OutputsFollow
        <3> QED BY <1>2, <1>3, <3>1
    <2>3. CASE e[1] < c[1]
        <3>1. /\ FirstBit(d, c[1]) \in Nat /\ FirstBit(d, e[1]) \in Nat
              /\ FirstBit(d, e[1]) + Width(d, e[1]) <= FirstBit(d, c[1])
            BY <1>2, <1>3, <2>3, OutputsFollow
        <3> QED BY <1>2, <1>3, <3>1
    <2> QED BY <2>1, <2>2, <2>3
<1>5. c[1] = e[1]
    BY <1>4
<1>6. c[2] = e[2]
    <2>1. FirstBit(d, c[1]) \in Nat
        <3> DEFINE r == Global(d, c[1], "id")
        <3>1. c[1] \in 1 .. Len(d) + 1 /\ Len(d) + 1 \in Nat
            BY <1>2, DescriptorIs
        <3>2. r \in Nat
            BY <3>1, GlobalType
        <3>3. Taken(d, c[1], r) \subseteq Taken(d, Len(d) + 1, r)
            <4>1. \A i \in Outputs(d) : i < c[1] => i < Len(d) + 1
                BY TaggedIs, DescriptorIs DEF Outputs
            <4>2. Before(d, c[1], r) \subseteq Before(d, Len(d) + 1, r)
                BY <4>1 DEF Before
            <4> QED BY <4>2 DEF Taken
        <3>4. IsFiniteSet(Taken(d, c[1], r))
            BY <3>2, <3>3, FS_Subset
        <3> QED BY <3>4, FS_CardinalityType DEF FirstBit
    <2> QED BY <1>2, <1>3, <1>5, <2>1
<1> QED BY <1>2, <1>5, <1>6, NamesAreOne

LEMMA ControlsApart ==
    ASSUME NEW d \in Descriptors, NEW u \in DOMAIN ParseOutputs(d), NEW v \in DOMAIN ParseOutputs(d),
           ParseOutputs(d)[u].report = ParseOutputs(d)[v].report,
           ParseOutputs(d)[u].bit = ParseOutputs(d)[v].bit
    PROVE  u = v
<1> DEFINE p == Parse(d)[Len(d)]
           all == Len(d) + 1
<1>1. Agrees(d, all, p)
    BY AgreesAlways
<1>2. ~p.err /\ p.depth = 0
    <2>1. ASSUME p.err \/ p.depth # 0 PROVE FALSE
        <3>1. ParseOutputs(d) = <<>>
            BY <2>1 DEF ParseOutputs
        <3>2. DOMAIN ParseOutputs(d) = {}
            BY <3>1
        <3> QED BY <3>2
    <2> QED BY <2>1
<1>3. BitsAgree(d, all, p) /\ \A r \in Nat : IsFiniteSet(Taken(d, all, r))
    BY <1>1, <1>2 DEF Agrees
<1>4. /\ u \in DOMAIN p.bits /\ v \in DOMAIN p.bits
      /\ p.bits[u].report = p.bits[v].report /\ p.bits[u].bit = p.bits[v].bit
    BY <1>2 DEF ParseOutputs
<1>5. PICK c : c[3] = u /\ IsLast(d, all, c) /\ p.bits[u] = PlaceOf(d, c)
    BY <1>3, <1>4 DEF BitsAgree
<1>6. PICK e : e[3] = v /\ IsLast(d, all, e) /\ p.bits[v] = PlaceOf(d, e)
    BY <1>3, <1>4 DEF BitsAgree
<1>7. c \in Claims(d, all) /\ e \in Claims(d, all)
    BY <1>5, <1>6 DEF IsLast
<1>8. PlaceOf(d, c) = PlaceOf(d, e)
    BY <1>4, <1>5, <1>6 DEF PlaceOf
<1> QED BY <1>3, <1>5, <1>6, <1>7, <1>8, ClaimsApart

\* The parser finds what the descriptor declares and no more: every single-bit output by its
\* usage, in the report and at the bit the items put it, and nothing at all of a descriptor
\* that is refused (ParseOutputs, descriptor.go:117-252), for every descriptor and every limit.
THEOREM ParserMeetsContract ==
    bench \in Descriptors /\ [][UNCHANGED bench]_bench => []ControlsPlaced
<1>1. bench \in Descriptors /\ [UNCHANGED bench]_bench => (bench \in Descriptors)'
    OBVIOUS
<1>2. bench \in Descriptors => ControlsPlaced
    BY ParsedAsDeclared DEF ControlsPlaced
<1> QED BY <1>1, <1>2, PTL

\* No two usages share a bit of a report, so that a write to one control never reaches another
\* (writeLocked, telephony.go:267-307, sets one bit in a report it keeps whole).
THEOREM ControlsKeepApart ==
    ASSUME NEW d \in Descriptors, NEW u \in DOMAIN ParseOutputs(d), NEW v \in DOMAIN ParseOutputs(d), u # v
    PROVE  \/ ParseOutputs(d)[u].report # ParseOutputs(d)[v].report
           \/ ParseOutputs(d)[u].bit # ParseOutputs(d)[v].bit
BY ControlsApart
=============================================================================

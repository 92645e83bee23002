-------------------------- MODULE SingleThreadedProofs --------------------------
(***************************************************************************)
(* Proofs about the components of module SingleThreaded, for all values of *)
(* their constants.  Of the vector, the string and the growable buffer:    *)
(* what each allocation holds, and that each is a sequence that is edited. *)
(* Of light_function: every callable is owned once, and the objects are    *)
(* values.  Of the codecs: a text is accepted exactly if it encodes bytes, *)
(* and these are returned.                                                 *)
(***************************************************************************)
EXTENDS Convert, GrowableBuffer, LightFunction, String, Vector,
        FiniteSetTheorems, SequenceTheorems, WellFoundedInduction, TLAPS

-----------------------------------------------------------------------------
(* Facts about sequences *)

LEMMA SeqIntro ==
  ASSUME NEW S, NEW n \in Nat, NEW f \in [1 .. n -> S]
  PROVE  f \in Seq(S) /\ Len(f) = n
  OBVIOUS

LEMMA PrefixSeq ==
  ASSUME NEW S, NEW s \in Seq(S), NEW k \in 0 .. Len(s)
  PROVE  /\ SubSeq(s, 1, k) \in Seq(S) /\ Len(SubSeq(s, 1, k)) = k
         /\ \A i \in 1 .. k : SubSeq(s, 1, k)[i] = s[i]
<1>1. Len(s) \in Nat /\ \A i \in 1 .. k : s[i] \in S
  BY LenProperties
<1> QED BY <1>1, SubSeqProperties

LEMMA PrefixEqual ==
  ASSUME NEW S, NEW s \in Seq(S), NEW f \in Seq(S), NEW k \in Nat, k <= Len(s), k <= Len(f),
         \A i \in 1 .. k : f[i] = s[i]
  PROVE  SubSeq(f, 1, k) = SubSeq(s, 1, k)
<1> DEFINE a == SubSeq(f, 1, k)
           b == SubSeq(s, 1, k)
<1>1. a \in Seq(S) /\ Len(a) = k /\ \A i \in 1 .. k : a[i] = f[i]
  BY PrefixSeq
<1>2. b \in Seq(S) /\ Len(b) = k /\ \A i \in 1 .. k : b[i] = s[i]
  BY PrefixSeq
<1> HIDE DEF a, b
<1>3. a = b
  BY <1>1, <1>2, SeqEqual
<1> QED BY <1>3 DEF a, b

\* d is written over s behind its first n elements.
LEMMA Overwritten ==
  ASSUME NEW S, NEW s \in Seq(S), NEW d \in Seq(S), NEW f \in Seq(S), NEW n \in Nat,
         n + Len(d) <= Len(s), Len(f) = Len(s),
         \A i \in 1 .. n : f[i] = s[i],
         \A i \in 1 .. Len(d) : f[n + i] = d[i]
  PROVE  SubSeq(f, 1, n + Len(d)) = SubSeq(s, 1, n) \o d
<1> DEFINE m == n + Len(d)
           a == SubSeq(f, 1, m)
           p == SubSeq(s, 1, n)
           b == p \o d
<1>1. Len(s) \in Nat /\ Len(d) \in Nat /\ n \in 0 .. Len(s) /\ m \in 0 .. Len(f)
  BY LenProperties
<1>2. a \in Seq(S) /\ Len(a) = m /\ \A i \in 1 .. m : a[i] = f[i]
  BY <1>1, PrefixSeq
<1>3. p \in Seq(S) /\ Len(p) = n /\ \A i \in 1 .. n : p[i] = s[i]
  BY <1>1, PrefixSeq
<1> HIDE DEF p
<1>4. b \in Seq(S) /\ Len(b) = m /\ \A i \in 1 .. m : b[i] = IF i <= n THEN p[i] ELSE d[i - n]
  <2>1. p \in Seq(S) /\ d \in Seq(S)
    BY <1>3
  <2>2. /\ b \in Seq(S) /\ Len(b) = Len(p) + Len(d)
        /\ \A i \in 1 .. Len(p) + Len(d) : b[i] = IF i <= Len(p) THEN p[i] ELSE d[i - Len(p)]
    BY <2>1, ConcatProperties
  <2> HIDE DEF b
  <2> QED BY <1>3, <2>2
<1> HIDE DEF a, b, m
<1>5. ASSUME NEW i \in 1 .. m, i <= n
      PROVE  a[i] = b[i]
  <2>1. i \in 1 .. n
    BY <1>1, <1>5
  <2>2. a[i] = s[i] /\ b[i] = s[i]
    BY <1>2, <1>3, <1>4, <1>5, <2>1
  <2> QED BY <2>2
<1>6. ASSUME NEW i \in 1 .. m, ~(i <= n)
      PROVE  a[i] = b[i]
  <2>1. i - n \in 1 .. Len(d) /\ n + (i - n) = i
    BY <1>1, <1>6 DEF m
  <2>2. f[i] = d[i - n]
    BY <2>1
  <2> QED BY <1>2, <1>4, <1>6, <2>2
<1>7. a = b
  BY <1>2, <1>4, <1>5, <1>6, SeqEqual
<1> QED BY <1>7 DEF a, b, p, m

LEMMA RangeSeq ==
  ASSUME NEW S, NEW s \in Seq(S), NEW m \in Nat, NEW n \in Nat, m <= n, n <= Len(s)
  PROVE  /\ SubSeq(s, m + 1, n) \in Seq(S) /\ Len(SubSeq(s, m + 1, n)) = n - m
         /\ \A i \in 1 .. n - m : SubSeq(s, m + 1, n)[i] = s[m + i]
<1> DEFINE d == SubSeq(s, m + 1, n)
<1>1. Len(s) \in Nat /\ \A i \in 1 .. Len(s) : s[i] \in S
  BY LenProperties
<1>2. m + 1 \in Int /\ n \in Int /\ \A i \in m + 1 .. n : s[i] \in S
  BY <1>1
<1>3. /\ d \in Seq(S) /\ Len(d) = IF m + 1 <= n THEN n - (m + 1) + 1 ELSE 0
      /\ \A i \in 1 .. n - (m + 1) + 1 : d[i] = s[m + 1 + i - 1]
  BY <1>2, SubSeqProperties
<1> HIDE DEF d
<1>4. d \in Seq(S) /\ Len(d) = n - m /\ \A i \in 1 .. n - m : d[i] = s[m + i]
  BY <1>3
<1> QED BY <1>4 DEF d

LEMMA PrefixSplit ==
  ASSUME NEW S, NEW s \in Seq(S), NEW m \in Nat, NEW n \in Nat, m <= n, n <= Len(s)
  PROVE  /\ SubSeq(s, m + 1, n) \in Seq(S) /\ Len(SubSeq(s, m + 1, n)) = n - m
         /\ SubSeq(s, 1, n) = SubSeq(s, 1, m) \o SubSeq(s, m + 1, n)
<1> DEFINE a == SubSeq(s, 1, n)
           p == SubSeq(s, 1, m)
           d == SubSeq(s, m + 1, n)
           b == p \o d
<1>1. Len(s) \in Nat /\ \A i \in 1 .. Len(s) : s[i] \in S
  BY LenProperties
<1>2. a \in Seq(S) /\ Len(a) = n /\ \A i \in 1 .. n : a[i] = s[i]
  BY <1>1, PrefixSeq
<1>3. p \in Seq(S) /\ Len(p) = m /\ \A i \in 1 .. m : p[i] = s[i]
  BY <1>1, PrefixSeq
<1>4. d \in Seq(S) /\ Len(d) = n - m /\ \A i \in 1 .. n - m : d[i] = s[m + i]
  BY RangeSeq
<1> HIDE DEF a, p, d
<1>5. /\ b \in Seq(S) /\ Len(b) = n
      /\ \A i \in 1 .. n : b[i] = IF i <= m THEN p[i] ELSE d[i - m]
  <2>1. /\ b \in Seq(S) /\ Len(b) = Len(p) + Len(d)
        /\ \A i \in 1 .. Len(p) + Len(d) : b[i] = IF i <= Len(p) THEN p[i] ELSE d[i - Len(p)]
    BY <1>3, <1>4, ConcatProperties
  <2> HIDE DEF b
  <2> QED BY <1>3, <1>4, <2>1
<1> HIDE DEF b
<1>6. \A i \in 1 .. n : b[i] = s[i]
  <2>1. ASSUME NEW i \in 1 .. n, ~(i <= m)
        PROVE  d[i - m] = s[i]
    <3>1. i - m \in 1 .. n - m /\ m + (i - m) = i
      BY <2>1
    <3> QED BY <1>4, <3>1
  <2> QED BY <1>3, <1>5, <2>1
<1>7. a = b
  BY <1>2, <1>5, <1>6, SeqEqual
<1> QED BY <1>4, <1>7 DEF a, b, p, d

\* d is the n elements of s behind its first m.
IsPart(S, d, s, m, n) == d \in Seq(S) /\ Len(d) = n /\ \A i \in 1 .. n : d[i] = s[m + i]

LEMMA PartSeq ==
  ASSUME NEW S, NEW s \in Seq(S), NEW m \in Nat, NEW n \in Nat, NEW y \in Nat,
         y = m + n, y <= Len(s)
  PROVE  IsPart(S, SubSeq(s, m + 1, y), s, m, n)
<1>1. m <= y /\ y - m = n
  OBVIOUS
<1>2. /\ SubSeq(s, m + 1, y) \in Seq(S) /\ Len(SubSeq(s, m + 1, y)) = y - m
      /\ \A i \in 1 .. y - m : SubSeq(s, m + 1, y)[i] = s[m + i]
  BY <1>1, RangeSeq
<1> QED BY <1>1, <1>2 DEF IsPart

\* f is c with n elements more behind the first a.
LEMMA ThreeParts ==
  ASSUME NEW S, NEW c \in Seq(S), NEW f \in Seq(S), NEW a \in 0 .. Len(c), NEW n \in Nat,
         Len(c) + n <= Len(f), \A i \in 1 .. a : f[i] = c[i],
         \A i \in 1 .. Len(c) - a : f[a + n + i] = c[a + i]
  PROVE  SubSeq(f, 1, Len(c) + n)
           = SubSeq(c, 1, a) \o SubSeq(f, a + 1, a + n) \o SubSeq(c, a + 1, Len(c))
<1> DEFINE u == Len(c)
           v == u - a
           k == a + n
<1>1. /\ u \in Nat /\ a \in Nat /\ v \in Nat /\ k \in Nat /\ Len(f) \in Nat
      /\ a + v = u /\ k + v = u + n /\ a <= k /\ k <= Len(f) /\ k <= u + n /\ u + n <= Len(f)
      /\ u + n \in Nat /\ a <= Len(f)
  BY LenProperties
<1> HIDE DEF u, v, k
<1> DEFINE w == u + n
<1>7. w \in Nat /\ w <= Len(f) /\ k <= w /\ k \in Nat
  BY <1>1
<1> HIDE DEF w
<1>2. SubSeq(f, 1, w) = SubSeq(f, 1, k) \o SubSeq(f, k + 1, w)
  BY <1>7, PrefixSplit
<1>3. SubSeq(f, 1, k) = SubSeq(f, 1, a) \o SubSeq(f, a + 1, k)
  BY <1>1, PrefixSplit
<1>4. SubSeq(f, 1, a) = SubSeq(c, 1, a)
  BY <1>1, PrefixEqual
<1>5. SubSeq(f, k + 1, k + v) = SubSeq(c, a + 1, a + v)
  <2> DEFINE x == SubSeq(f, k + 1, k + v)
             y == SubSeq(c, a + 1, a + v)
  <2>1. \A i \in 1 .. v : f[k + i] = c[a + i]
    BY DEF u, v, k
  <2>2. k + v <= Len(f) /\ a + v <= Len(c)
    BY <1>1 DEF u
  <2>3. k \in Nat /\ a \in Nat /\ v \in Nat
    BY <1>1
  <2>4. k + v \in Nat /\ a + v \in Nat
    BY <2>3
  <2>5. IsPart(S, x, f, k, v)
    BY <2>2, <2>3, <2>4, PartSeq
  <2>6. IsPart(S, y, c, a, v)
    BY <2>2, <2>3, <2>4, PartSeq
  <2> HIDE DEF x, y
  <2>7. x = y
    <3>1. \A i \in 1 .. v : x[i] = y[i]
      BY <2>1, <2>3, <2>5, <2>6 DEF IsPart
    <3> QED BY <2>5, <2>6, <3>1, SeqEqual DEF IsPart
  <2> QED BY <2>7 DEF x, y
<1>6. SubSeq(f, k + 1, w) = SubSeq(c, a + 1, u)
  BY <1>1, <1>5 DEF w
<1> QED BY <1>2, <1>3, <1>4, <1>6 DEF u, k, w

\* d over t, behind its first k elements.
Over(t, k, d) == [i \in DOMAIN t |-> IF i \in k + 1 .. k + Len(d) THEN d[i - k] ELSE t[i]]

LEMMA OverSound ==
  ASSUME NEW S, NEW t \in Seq(S), NEW d \in Seq(S), NEW k \in Nat, k + Len(d) <= Len(t)
  PROVE  /\ Over(t, k, d) \in Seq(S) /\ Len(Over(t, k, d)) = Len(t)
         /\ \A i \in 1 .. k : Over(t, k, d)[i] = t[i]
         /\ \A i \in 1 .. Len(d) : Over(t, k, d)[k + i] = d[i]
         /\ \A i \in k + Len(d) + 1 .. Len(t) : Over(t, k, d)[i] = t[i]
         /\ SubSeq(Over(t, k, d), 1, k + Len(d)) = SubSeq(t, 1, k) \o d
<1> DEFINE f == Over(t, k, d)
<1>1. Len(t) \in Nat /\ DOMAIN t = 1 .. Len(t) /\ \A i \in 1 .. Len(t) : t[i] \in S
  BY LenProperties
<1>2. Len(d) \in Nat /\ \A i \in 1 .. Len(d) : d[i] \in S
  BY LenProperties
<1>3. f \in [1 .. Len(t) -> S]
  <2>1. ASSUME NEW i \in 1 .. Len(t), i \in k + 1 .. k + Len(d)
        PROVE  d[i - k] \in S
    BY <1>2, <2>1
  <2> QED BY <1>1, <2>1 DEF Over
<1>4. \A i \in 1 .. k : f[i] = t[i]
  BY <1>1, <1>2 DEF Over
<1>5. \A i \in 1 .. Len(d) : f[k + i] = d[i]
  BY <1>1, <1>2 DEF Over
<1>6. \A i \in k + Len(d) + 1 .. Len(t) : f[i] = t[i]
  BY <1>1, <1>2 DEF Over
<1> HIDE DEF f
<1>7. f \in Seq(S) /\ Len(f) = Len(t)
  BY <1>1, <1>3, SeqIntro
<1>8. SubSeq(f, 1, k + Len(d)) = SubSeq(t, 1, k) \o d
  BY <1>4, <1>5, <1>7, Overwritten
<1> QED BY <1>4, <1>5, <1>6, <1>7, <1>8 DEF f

\* An insertion at the end, and a deletion up to the end.
LEMMA InsertedAtEnd ==
  ASSUME NEW S, NEW q \in Seq(S), NEW new \in Seq(S)
  PROVE  SubSeq(q, 1, Len(q)) \o new \o SubSeq(q, Len(q) + 1, Len(q)) = q \o new
<1>1. SubSeq(q, 1, Len(q)) = q /\ SubSeq(q, Len(q) + 1, Len(q)) = <<>>
  BY SubSeqFull, SubSeqEmpty, LenProperties
<1>2. (q \o new) \o <<>> = q \o new
  BY ConcatProperties, ConcatEmptySeq
<1> QED BY <1>1, <1>2

LEMMA DeletedToEnd ==
  ASSUME NEW S, NEW q \in Seq(S), NEW n \in 0 .. Len(q)
  PROVE  /\ Len(q) - n \in 0 .. Len(q)
         /\ SubSeq(q, 1, n) \o SubSeq(q, n + (Len(q) - n) + 1, Len(q)) = SubSeq(q, 1, n)
<1> DEFINE k == n + (Len(q) - n) + 1
<1>1. Len(q) - n \in 0 .. Len(q) /\ Len(q) \in Int /\ k \in Int /\ Len(q) < k
  BY LenProperties
<1> HIDE DEF k
<1>2. SubSeq(q, k, Len(q)) = <<>>
  BY <1>1, SubSeqEmpty
<1>3. SubSeq(q, 1, n) \in Seq(S)
  BY PrefixSeq
<1>4. SubSeq(q, 1, n) \o <<>> = SubSeq(q, 1, n)
  BY <1>3, ConcatEmptySeq
<1> QED BY <1>1, <1>2, <1>4 DEF k

-----------------------------------------------------------------------------
(* Vectors *)

Slot == Elems \cup {Raw}

\* A vector record in order: the elements are in the first slots, there are no
\* more slots than an allocation can have, and the life cycle calls balance out.
Sound(r) ==
  /\ r \in [slots : Seq(Slot), len : Nat, made : Int]
  /\ r.len <= Len(r.slots) /\ Len(r.slots) <= MaxSlots
  /\ \A i \in 1 .. r.len : r.slots[i] \in Elems
  /\ r.made = r.len

LEMMA CapacityNat ==
  ASSUME NEW r, Sound(r)
  PROVE  /\ vector_capacity(r) \in Nat /\ r.len \in 0 .. Len(r.slots)
         /\ Len(r.slots) \in Nat /\ r.slots \in Seq(Slot)
         /\ DOMAIN r.slots = 1 .. Len(r.slots)
<1>1. r.slots \in Seq(Slot) /\ r.len \in Nat /\ r.len <= Len(r.slots)
  BY DEF Sound
<1> QED BY <1>1, LenProperties DEF vector_capacity

\* Elements constructed in free slots.
LEMMA MadeSound ==
  ASSUME NEW r, Sound(r), NEW new \in Seq(Elems), r.len + Len(new) <= Len(r.slots)
  PROVE  Sound(Made(r, new)) /\ Live(Made(r, new)) = Live(r) \o new
<1> DEFINE t == r.slots
           k == r.len
           f == Over(t, k, new)
<1>1. Made(r, new) = [slots |-> f, len |-> k + Len(new), made |-> r.made + Len(new)]
  BY DEF Made, Over
<1>2. new \in Seq(Slot) /\ Len(new) \in Nat /\ \A i \in 1 .. Len(new) : new[i] \in Elems
  BY LenProperties, SeqMonotonic DEF Slot
<1>3. /\ k \in Nat /\ r.made = k /\ Len(t) <= MaxSlots /\ k + Len(new) <= Len(t)
      /\ \A i \in 1 .. k : t[i] \in Elems
  BY DEF Sound
<1>4. t \in Seq(Slot) /\ Len(t) \in Nat
  BY CapacityNat
<1>5. Live(r) = SubSeq(t, 1, k)
  BY DEF Live
<1> HIDE DEF t, k
<1>6. /\ f \in Seq(Slot) /\ Len(f) = Len(t)
      /\ \A i \in 1 .. k : f[i] = t[i]
      /\ \A i \in 1 .. Len(new) : f[k + i] = new[i]
      /\ SubSeq(f, 1, k + Len(new)) = SubSeq(t, 1, k) \o new
  BY <1>2, <1>3, <1>4, OverSound, SMTT(30)
<1> HIDE DEF f
<1>7. \A i \in 1 .. k + Len(new) : f[i] \in Elems
  <2>1. ASSUME NEW i \in 1 .. k + Len(new), ~(i <= k)
        PROVE  f[i] \in Elems
    <3>1. i - k \in 1 .. Len(new) /\ k + (i - k) = i
      BY <1>2, <1>3, <2>1
    <3> QED BY <1>2, <1>6, <3>1
  <2> QED BY <1>2, <1>3, <1>6, <2>1
<1>8. Sound(Made(r, new))
  BY <1>1, <1>2, <1>3, <1>4, <1>6, <1>7 DEF Sound
<1>9. Made(r, new).slots = f /\ Made(r, new).len = k + Len(new)
  BY <1>1
<1> QED BY <1>5, <1>6, <1>8, <1>9 DEF Live

LEMMA TruncatedSound ==
  ASSUME NEW r, Sound(r), NEW n \in 0 .. r.len
  PROVE  Sound(Truncated(r, n)) /\ Live(Truncated(r, n)) = SubSeq(Live(r), 1, n)
<1> DEFINE f == [i \in DOMAIN r.slots |-> IF i \in n + 1 .. r.len THEN Raw ELSE r.slots[i]]
<1>1. Truncated(r, n) = [slots |-> f, len |-> n, made |-> r.made - (r.len - n)]
  BY DEF Truncated, Ended
<1>2. r.len \in Nat /\ r.made = r.len /\ \A i \in 1 .. r.len : r.slots[i] \in Elems
  BY DEF Sound
<1>3. \A i \in 1 .. Len(r.slots) : r.slots[i] \in Slot
  BY CapacityNat, LenProperties
<1>4. f \in [1 .. Len(r.slots) -> Slot]
  BY <1>3, CapacityNat DEF Slot
<1>6. \A i \in 1 .. n : f[i] = r.slots[i]
  BY <1>2, CapacityNat
<1> HIDE DEF f
<1>5. f \in Seq(Slot) /\ Len(f) = Len(r.slots)
  BY <1>4, CapacityNat, SeqIntro
<1>7. Len(r.slots) <= MaxSlots
  BY DEF Sound
<1>8. Sound(Truncated(r, n))
  BY <1>1, <1>2, <1>5, <1>6, <1>7, CapacityNat DEF Sound
<1>9. SubSeq(f, 1, n) = SubSeq(r.slots, 1, n)
  BY <1>5, <1>6, CapacityNat, PrefixEqual
<1>10. SubSeq(SubSeq(r.slots, 1, r.len), 1, n) = SubSeq(r.slots, 1, n)
  <2>1. /\ SubSeq(r.slots, 1, r.len) \in Seq(Slot) /\ Len(SubSeq(r.slots, 1, r.len)) = r.len
        /\ \A i \in 1 .. r.len : SubSeq(r.slots, 1, r.len)[i] = r.slots[i]
    BY CapacityNat, PrefixSeq
  <2> QED BY <1>2, <2>1, CapacityNat, PrefixEqual
<1>11. Live(Truncated(r, n)) = SubSeq(Live(r), 1, n)
  <2>1. Truncated(r, n).slots = f /\ Truncated(r, n).len = n
    BY <1>1
  <2> QED BY <1>9, <1>10, <2>1 DEF Live
<1> QED BY <1>8, <1>11

\* A reallocation that has room for the elements keeps them.
LEMMA ReallocatedSound ==
  ASSUME NEW s, Sound(s), NEW n \in Nat, s.len <= n, NEW r \in Reallocated(s, n)
  PROVE  Sound(r) /\ Live(r) = Live(s) /\ Len(r.slots) = n
<1>0. s.len \in Nat /\ s.made = s.len /\ \A i \in 1 .. s.len : s.slots[i] \in Elems
  BY DEF Sound
<1>1. CASE n > MaxSlots
  BY <1>1 DEF Reallocated
<1>2. CASE ~(n > MaxSlots) /\ n = 0
  <2>1. r = [slots |-> <<>>, len |-> 0, made |-> 0] /\ s.len = 0
    BY <1>0, <1>2 DEF Reallocated
  <2>2. Sound(r) /\ Len(r.slots) = n
    BY <2>1, <1>2, VectorConstants DEF Sound
  <2>3. Live(r) = <<>> /\ Live(s) = <<>>
    BY <2>1, SubSeqEmpty DEF Live
  <2> QED BY <2>2, <2>3
<1>3. CASE ~(n > MaxSlots) /\ n # 0
  <2> DEFINE kept  == SubSeq(Live(s), 1, IF s.len < n THEN s.len ELSE n)
             blank == [i \in 1 .. n - Len(kept) |-> Raw]
             f     == kept \o blank
  <2>1. /\ Live(s) \in Seq(Slot) /\ Len(Live(s)) = s.len
        /\ \A i \in 1 .. s.len : Live(s)[i] = s.slots[i]
    BY CapacityNat, PrefixSeq DEF Live
  <2>2. (IF s.len < n THEN s.len ELSE n) = s.len
    BY <1>0
  <2>3. kept = Live(s)
    BY <2>1, <2>2, SubSeqFull
  <2>4. Ended(s, 0, s.len).made = 0
    BY <1>0 DEF Ended
  <2>5. r = [slots |-> f, len |-> Len(kept), made |-> Ended(s, 0, s.len).made + Len(kept)]
    BY <1>3 DEF Reallocated
  <2>6. blank \in Seq(Slot) /\ Len(blank) = n - s.len
    <3>1. n - Len(kept) \in Nat /\ Len(kept) = s.len
      BY <1>0, <2>1, <2>3
    <3>2. blank \in [1 .. n - Len(kept) -> Slot]
      BY DEF Slot
    <3> HIDE DEF kept, blank
    <3>3. blank \in Seq(Slot) /\ Len(blank) = n - Len(kept)
      BY <3>1, <3>2, SeqIntro
    <3> QED BY <3>1, <3>3
  <2> HIDE DEF kept, blank
  <2>7. /\ f \in Seq(Slot) /\ Len(f) = Len(kept) + Len(blank)
        /\ \A i \in 1 .. Len(kept) + Len(blank) :
             f[i] = IF i <= Len(kept) THEN kept[i] ELSE blank[i - Len(kept)]
    BY <2>1, <2>3, <2>6, ConcatProperties, SMTT(30)
  <2>8. Len(f) = n /\ \A i \in 1 .. s.len : f[i] = s.slots[i]
    BY <1>0, <2>1, <2>3, <2>6, <2>7
  <2> HIDE DEF f
  <2>9. r = [slots |-> f, len |-> s.len, made |-> s.len]
    BY <1>0, <2>1, <2>3, <2>4, <2>5
  <2>10. Sound(r)
    BY <1>0, <1>3, <2>7, <2>8, <2>9, VectorConstants, SMTT(30) DEF Sound
  <2>11. SubSeq(f, 1, s.len) = SubSeq(s.slots, 1, s.len)
    <3>1. s.slots \in Seq(Slot) /\ s.len <= Len(s.slots)
      BY CapacityNat
    <3> QED BY <1>0, <2>7, <2>8, <3>1, PrefixEqual
  <2> QED BY <2>8, <2>9, <2>10, <2>11 DEF Live
<1> QED BY <1>1, <1>2, <1>3

LEMMA GrownSound ==
  ASSUME NEW s, Sound(s), NEW n \in Nat, NEW r \in GrownFor(s, n)
  PROVE  /\ Sound(r) /\ Live(r) = Live(s) /\ n <= Len(r.slots)
         /\ n <= vector_capacity(s) => r = s
<1>1. CASE n <= vector_capacity(s)
  BY <1>1 DEF GrownFor, vector_capacity
<1>2. CASE ~(n <= vector_capacity(s))
  <2>1. PICK c \in growth_capacity(s, n) : r \in Reallocated(s, c)
    BY <1>2 DEF GrownFor
  <2>2. c \in Nat /\ n <= c
    BY VectorConstants, CapacityNat DEF growth_capacity
  <2>3. s.len <= c
    BY <1>2, <2>2, CapacityNat DEF vector_capacity
  <2> QED BY <1>2, <2>1, <2>2, <2>3, ReallocatedSound
<1> QED BY <1>1, <1>2


LEMMA LiveSeq ==
  ASSUME NEW r, Sound(r)
  PROVE  /\ Live(r) \in Seq(Elems) /\ Len(Live(r)) = r.len
         /\ \A i \in 1 .. r.len : Live(r)[i] = r.slots[i]
<1> DEFINE q == Live(r)
<1>1. q \in Seq(Slot) /\ Len(q) = r.len /\ \A i \in 1 .. r.len : q[i] = r.slots[i]
  BY CapacityNat, PrefixSeq DEF Live
<1>2. \A i \in 1 .. r.len : r.slots[i] \in Elems
  BY DEF Sound
<1> HIDE DEF q
<1>3. q \in [1 .. r.len -> Elems]
  BY <1>1, <1>2, LenProperties
<1>4. q \in Seq(Elems)
  BY <1>3, CapacityNat, SeqIntro
<1> QED BY <1>1, <1>4 DEF q

LEMMA NoVectorSound == Sound(NoVector) /\ Live(NoVector) = <<>>
BY VectorConstants, SubSeqEmpty DEF Sound, NoVector, Live

LEMMA ReleasedSound ==
  ASSUME NEW r, Sound(r)
  PROVE  Released(r) = NoVector
BY DEF Sound, Released, Ended, NoVector

-----------------------------------------------------------------------------
(* Steps *)

VecInv ==
  /\ vec \in [Vecs -> [slots : Seq(Slot), len : Nat, made : Int]]
  /\ \A v \in Vecs : Sound(vec[v])

Contents == [v \in Vecs |-> Live(vec[v])]

\* A call replaces one vector.
LEMMA SetStep ==
  ASSUME VecInv, NEW v \in Vecs, NEW r, Sound(r), vec' = [vec EXCEPT ![v] = r]
  PROVE  VecInv' /\ Contents' = [Contents EXCEPT ![v] = Live(r)]
<1>1. r \in [slots : Seq(Slot), len : Nat, made : Int]
  BY DEF Sound
<1>2. \A w \in Vecs : vec'[w] = IF w = v THEN r ELSE vec[w]
  BY DEF VecInv
<1>3. VecInv'
  BY <1>1, <1>2 DEF VecInv
<1>4. Contents' = [w \in Vecs |-> Live(vec'[w])]
  BY DEF Contents
<1>5. \A w \in Vecs : Live(vec'[w]) = IF w = v THEN Live(r) ELSE Live(vec[w])
  BY <1>2
<1> QED BY <1>3, <1>4, <1>5 DEF Contents

\* An insertion behind the last element, as it was asked for.
LEMMA InsertStep ==
  ASSUME VecInv, NEW v \in Vecs, NEW new \in Seq(Elems),
         Contents' = [Contents EXCEPT ![v] = Live(vec[v]) \o new],
         vectorCall' = InsertOf(v, vec[v].len, new)
  PROVE  Sequence!Insert
<1> DEFINE q == Live(vec[v])
<1>1. q \in Seq(Elems) /\ Len(q) = vec[v].len /\ vec[v].len \in Nat /\ Contents[v] = q
  BY LiveSeq, CapacityNat DEF VecInv, Contents
<1>2. /\ vectorCall'.kind = "insert" /\ vectorCall'.on = v
      /\ vectorCall'.at = Len(q) /\ vectorCall'.data = new
  BY <1>1 DEF InsertOf
<1> HIDE DEF q
<1>3. SubSeq(q, 1, Len(q)) \o new \o SubSeq(q, Len(q) + 1, Len(q)) = q \o new
  BY <1>1, InsertedAtEnd
<1>4. Sequence!Place(v, Len(q)) = Len(q)
  BY <1>1 DEF Sequence!Place, Contents
<1>5. Contents'
        = [Contents EXCEPT ![v] = Sequence!Left(v, Len(q)) \o new \o Sequence!Right(v, Len(q))]
  <2>1. /\ Sequence!Left(v, Len(q)) = SubSeq(q, 1, Len(q))
        /\ Sequence!Right(v, Len(q)) = SubSeq(q, Len(q) + 1, Len(q))
    BY <1>1 DEF Sequence!Left, Sequence!Right, Contents
  <2> QED BY <1>3, <2>1 DEF q
<1>6. Sequence!Inserted(v, Len(q), new)
  BY <1>4, <1>5 DEF Sequence!Inserted, Sequence!Becomes, Contents
<1> QED BY <1>1, <1>2, <1>6 DEF Sequence!Insert

\* A deletion of the last k elements, as it was asked for.
LEMMA DeleteStep ==
  ASSUME VecInv, NEW v \in Vecs, NEW n \in 0 .. vec[v].len, NEW k, k = vec[v].len - n,
         Contents' = [Contents EXCEPT ![v] = SubSeq(Live(vec[v]), 1, n)],
         vectorCall' = DeletionOf(v, n, k)
  PROVE  Sequence!Delete
<1> DEFINE q == Live(vec[v])
<1>1. q \in Seq(Elems) /\ Len(q) = vec[v].len /\ vec[v].len \in Nat /\ Contents[v] = q
  BY LiveSeq, CapacityNat DEF VecInv, Contents
<1>2. /\ vectorCall'.kind = "delete" /\ vectorCall'.on = v
      /\ vectorCall'.at = n /\ vectorCall'.len = k
  BY DEF DeletionOf
<1> HIDE DEF q
<1>3. k = Len(q) - n /\ n \in 0 .. Len(q)
  BY <1>1
<1>4. k \in 0 .. Len(q) /\ SubSeq(q, 1, n) \o SubSeq(q, n + k + 1, Len(q)) = SubSeq(q, 1, n)
  BY <1>1, <1>3, DeletedToEnd
<1>5. Contents' = [Contents EXCEPT ![v] = Sequence!Left(v, n) \o Sequence!Right(v, n + k)]
  BY <1>1, <1>4 DEF Sequence!Left, Sequence!Right, Contents, q
<1>6. n \in Nat /\ k \in Nat /\ n <= Len(Contents[v])
  BY <1>1, <1>3, <1>4, SMTT(30)
<1> QED BY <1>2, <1>5, <1>6 DEF Sequence!Delete, Sequence!Becomes, Contents

-----------------------------------------------------------------------------
(* Calls *)

Promised == VecInv' /\ Sequence!Next

\* A call that cuts elements off, and one that leaves them alone.
LEMMA CutCall ==
  ASSUME VecInv, NEW v \in Vecs, NEW r, Sound(r), NEW n \in 0 .. vec[v].len, NEW k,
         k = vec[v].len - n, Live(r) = SubSeq(Live(vec[v]), 1, n),
         vec' = [vec EXCEPT ![v] = r], vectorCall' = DeletionOf(v, n, k)
  PROVE  Promised
BY SetStep, DeleteStep DEF Promised, Sequence!Next

LEMMA SameCall ==
  ASSUME VecInv, NEW v \in Vecs, NEW r, Sound(r), Live(r) = Live(vec[v]),
         vec' = [vec EXCEPT ![v] = r], vectorCall' = NoEdit
  PROVE  Promised
<1>1. VecInv' /\ Contents' = [Contents EXCEPT ![v] = Live(vec[v])]
  BY SetStep
<1>2. [Contents EXCEPT ![v] = Live(vec[v])] = Contents
  BY DEF Contents
<1>3. Sequence!Nothing
  BY <1>1, <1>2 DEF Sequence!Nothing, NoEdit, Contents
<1> QED BY <1>1, <1>3 DEF Promised, Sequence!Next

\* A call that appends to the vector, after it has grown, the elements it was asked for.
LEMMA AppendCall ==
  ASSUME VecInv, NEW v \in Vecs, NEW n \in Nat, NEW r \in GrownFor(vec[v], n),
         NEW new \in Seq(Elems), vec[v].len + Len(new) = n, Appended(v, r, new, new)
  PROVE  Promised
<1>1. Sound(vec[v])
  BY DEF VecInv
<1>2. Sound(r) /\ Live(r) = Live(vec[v]) /\ n <= Len(r.slots)
  BY <1>1, GrownSound
<1>3. r.len = vec[v].len
  BY <1>1, <1>2, LiveSeq
<1>4. Sound(Made(r, new)) /\ Live(Made(r, new)) = Live(vec[v]) \o new
  BY <1>2, <1>3, MadeSound
<1>5. vec' = [vec EXCEPT ![v] = Made(r, new)] /\ vectorCall' = InsertOf(v, vec[v].len, new)
  BY DEF Appended, Set
<1>6. VecInv' /\ Contents' = [Contents EXCEPT ![v] = Live(vec[v]) \o new]
  BY <1>4, <1>5, SetStep
<1>7. Sequence!Insert
  BY <1>5, <1>6, InsertStep
<1> QED BY <1>6, <1>7 DEF Promised, Sequence!Next

\* n equal elements.
LEMMA FillSeq ==
  ASSUME NEW n \in Nat, NEW e \in Elems
  PROVE  [i \in 1 .. n |-> e] \in Seq(Elems) /\ Len([i \in 1 .. n |-> e]) = n
<1> DEFINE f == [i \in 1 .. n |-> e]
<1>1. f \in [1 .. n -> Elems]
  OBVIOUS
<1> HIDE DEF f
<1>2. f \in Seq(Elems) /\ Len(f) = n
  BY <1>1, SeqIntro
<1> QED BY <1>2 DEF f

\* The value an argument has when the call begins is an element.
LEMMA ValueIsElement ==
  ASSUME NEW s, Sound(s), NEW src \in Outside \cup Own(s)
  PROVE  ValueAtCall(src, s) \in Elems
BY DEF ValueAtCall, Outside, Own, Sound

\* An own element keeps its value and its place when the vector grows.
LEMMA OwnElement ==
  ASSUME NEW s, Sound(s), NEW r, Sound(r), Live(r) = Live(s), NEW i \in 1 .. s.len
  PROVE  r.slots[i] = s.slots[i]
<1>1. r.len = s.len /\ s.len <= Len(s.slots) /\ r.len <= Len(r.slots)
  BY LiveSeq DEF Sound
<1>2. /\ s.slots \in Seq(Slot) /\ r.slots \in Seq(Slot) /\ s.len \in Nat
      /\ \A j \in 1 .. s.len : Live(s)[j] = s.slots[j]
      /\ \A j \in 1 .. r.len : Live(r)[j] = r.slots[j]
  BY <1>1, PrefixSeq, CapacityNat DEF Sound, Live
<1> QED BY <1>1, <1>2

\* push_back stores the value its argument had when it was called, and so does
\* resize with a fill value, whether the storage was replaced or not.
LEMMA PushedValue ==
  ASSUME NEW s, Sound(s), NEW src \in Outside \cup Own(s), NEW r \in GrownFor(s, s.len + 1)
  PROVE  (IF CopiedFirst(s, src) THEN s.slots[src.index] ELSE Followed(src, s, r))
           = ValueAtCall(src, s)
<1>1. CASE src \in Outside
  BY <1>1 DEF Outside, CopiedFirst, Followed, ValueAtCall
<1>2. CASE src \in Own(s)
  <2>1. src.own /\ src.index \in 1 .. s.len
    BY <1>2 DEF Own
  <2>3. CASE s.len = vector_capacity(s)
    BY <2>1, <2>3 DEF CopiedFirst, ValueAtCall
  <2>4. CASE s.len # vector_capacity(s)
    <3>1. s.len + 1 <= vector_capacity(s)
      BY <2>4, CapacityNat DEF vector_capacity
    <3>2. r = s
      BY <3>1, CapacityNat, GrownSound
    <3> QED BY <2>1, <2>4, <3>2 DEF CopiedFirst, Followed, ValueAtCall
  <2> QED BY <2>3, <2>4
<1> QED BY <1>1, <1>2

LEMMA FilledValue ==
  ASSUME NEW s, Sound(s), NEW r, Sound(r), Live(r) = Live(s), NEW src \in Outside \cup Own(s)
  PROVE  Relocated(src, s, r) = ValueAtCall(src, s)
<1>1. CASE src \in Outside
  BY <1>1 DEF Outside, Relocated, Followed, ValueAtCall
<1>2. CASE src \in Own(s)
  BY <1>2, OwnElement DEF Own, Relocated, ValueAtCall
<1> QED BY <1>1, <1>2

-----------------------------------------------------------------------------
(* Every step *)

LEMMA InitSound == VectorInit => VecInv /\ Sequence!Init
<1> SUFFICES ASSUME VectorInit PROVE VecInv /\ Sequence!Init
  OBVIOUS
<1>1. \A v \in Vecs : vec[v] = NoVector
  BY DEF VectorInit
<1>2. NoVector \in [slots : Seq(Slot), len : Nat, made : Int]
  BY NoVectorSound DEF Sound
<1>3. VecInv
  BY <1>1, <1>2, NoVectorSound DEF VectorInit, VecInv
<1>4. Contents = [v \in Vecs |-> <<>>]
  BY <1>1, NoVectorSound DEF Contents
<1>5. vectorCall = Sequence!NoEdit
  BY DEF VectorInit, NoEdit, Sequence!NoEdit
<1> QED BY <1>3, <1>4, <1>5 DEF Sequence!Init, Contents

LEMMA NextSound ==
  ASSUME VecInv, ~PopsObjects, VectorNext
  PROVE  Promised
<1>0. \A v \in Vecs : Sound(vec[v])
  BY DEF VecInv
<1>1. ASSUME NEW v \in Vecs, NEW n \in 0 .. MaxSlots + 1, vector_reserve(v, n)
      PROVE  Promised
  <2>1. CASE n <= vector_capacity(vec[v])
    BY <1>0, <1>1, <2>1, SameCall DEF vector_reserve, Set
  <2>2. CASE ~(n <= vector_capacity(vec[v]))
    <3>1. PICK r \in Reallocated(vec[v], n) : Set(v, r)
      BY <1>1, <2>2 DEF vector_reserve
    <3>2. n \in Nat /\ vec[v].len <= n
      BY <1>0, <2>2, CapacityNat, VectorConstants DEF vector_capacity
    <3>3. Sound(r) /\ Live(r) = Live(vec[v])
      BY <1>0, <3>2, ReallocatedSound
    <3> QED BY <1>1, <3>1, <3>3, SameCall DEF vector_reserve, Set
  <2> QED BY <2>1, <2>2
<1>2. ASSUME NEW v \in Vecs, NEW n \in 0 .. MaxSlots + 1, vector_resize(v, n)
      PROVE  Promised
  <2>1. PICK r \in GrownFor(vec[v], n) :
          Appended(v, r, [i \in 1 .. n - r.len |-> Default], [i \in 1 .. n - vec[v].len |-> Default])
    BY <1>2 DEF vector_resize
  <2>2. n > vec[v].len /\ vec[v].len \in Nat /\ n \in Nat
    BY <1>0, <1>2, CapacityNat, VectorConstants DEF vector_resize
  <2>3. r.len = vec[v].len
    BY <1>0, <2>2, GrownSound, LiveSeq
  <2>4. n - r.len \in Nat /\ Default \in Elems
    BY <2>2, <2>3, VectorConstants
  <2> DEFINE new == [i \in 1 .. n - r.len |-> Default]
  <2>5. new \in Seq(Elems) /\ Len(new) = n - r.len
    BY <2>4, FillSeq
  <2>6. Appended(v, r, new, new)
    BY <2>1, <2>3
  <2> HIDE DEF new
  <2>7. vec[v].len + Len(new) = n
    BY <2>2, <2>3, <2>5
  <2> QED BY <2>2, <2>5, <2>6, <2>7, AppendCall
<1>3. ASSUME NEW v \in Vecs, NEW n \in 0 .. MaxSlots + 1, resize_down(v, n)
      PROVE  Promised
  <2>1. n \in 0 .. vec[v].len
    BY <1>0, <1>3, CapacityNat, VectorConstants DEF resize_down
  <2>2. /\ vec' = [vec EXCEPT ![v] = Truncated(vec[v], n)]
        /\ vectorCall' = DeletionOf(v, n, vec[v].len - n)
    BY <1>3 DEF resize_down, Set
  <2> QED BY <1>0, <2>1, <2>2, TruncatedSound, CutCall
<1>4. ASSUME NEW v \in Vecs, NEW n, VectorNoMemory(v, n)
      PROVE  Promised
  <2>1. vec' = [vec EXCEPT ![v] = vec[v]] /\ vectorCall' = NoEdit
    BY <1>4 DEF VectorNoMemory, Nothing, VecInv
  <2> QED BY <1>0, <2>1, SameCall
<1>5. ASSUME NEW v \in Vecs, NEW n \in 0 .. MaxSlots, NEW src \in Outside \cup Own(vec[v]),
             resize_fill(v, n, src)
      PROVE  Promised
  <2> DEFINE e == ValueAtCall(src, vec[v])
             new == [i \in 1 .. n - vec[v].len |-> e]
  <2>1. PICK r \in GrownFor(vec[v], n) :
          Appended(v, r, [i \in 1 .. n - r.len |-> Relocated(src, vec[v], r)], new)
    BY <1>5 DEF resize_fill
  <2>2. n > vec[v].len /\ vec[v].len \in Nat /\ n \in Nat
    BY <1>0, <1>5, CapacityNat, VectorConstants DEF resize_fill
  <2>3. Sound(r) /\ Live(r) = Live(vec[v]) /\ r.len = vec[v].len
    BY <1>0, <2>2, GrownSound, LiveSeq
  <2>4. e \in Elems /\ Relocated(src, vec[v], r) = e
    BY <1>0, <2>3, ValueIsElement, FilledValue
  <2> HIDE DEF e
  <2>5. Appended(v, r, new, new)
    BY <2>1, <2>3, <2>4
  <2>6. n - vec[v].len \in Nat
    BY <2>2
  <2>7. new \in Seq(Elems) /\ Len(new) = n - vec[v].len
    BY <2>4, <2>6, FillSeq
  <2> HIDE DEF new
  <2>8. vec[v].len + Len(new) = n
    BY <2>2, <2>7
  <2> QED BY <2>2, <2>5, <2>7, <2>8, AppendCall
<1>6. ASSUME NEW v \in Vecs, NEW src \in Outside \cup Own(vec[v]), push_back(v, src)
      PROVE  Promised
  <2> DEFINE e == ValueAtCall(src, vec[v])
  <2>1. PICK r \in GrownFor(vec[v], vec[v].len + 1) :
          Appended(v, r, <<IF CopiedFirst(vec[v], src) THEN vec[v].slots[src.index]
                           ELSE Followed(src, vec[v], r)>>, <<e>>)
    BY <1>6 DEF push_back
  <2>2. /\ e \in Elems
        /\ (IF CopiedFirst(vec[v], src) THEN vec[v].slots[src.index] ELSE Followed(src, vec[v], r)) = e
    BY <1>0, ValueIsElement, PushedValue
  <2> HIDE DEF e
  <2>3. <<e>> \in Seq(Elems) /\ Len(<<e>>) = 1 /\ Appended(v, r, <<e>>, <<e>>)
    BY <2>1, <2>2
  <2>4. vec[v].len + 1 \in Nat
    BY <1>0, CapacityNat
  <2> QED BY <2>3, <2>4, AppendCall
<1>7. ASSUME NEW v \in Vecs, NEW e \in Elems, emplace_back(v, e)
      PROVE  Promised
  <2>1. <<e>> \in Seq(Elems) /\ Len(<<e>>) = 1
    OBVIOUS
  <2>2. vec[v].len + 1 \in Nat
    BY <1>0, CapacityNat
  <2> QED BY <1>7, <2>1, <2>2, AppendCall DEF emplace_back
<1>8. ASSUME NEW v \in Vecs, shrink_to_fit(v)
      PROVE  Promised
  <2>1. PICK r \in Reallocated(vec[v], vec[v].len) : Set(v, r)
    BY <1>8 DEF shrink_to_fit
  <2>2. vec[v].len \in Nat /\ vec[v].len <= vec[v].len
    BY <1>0, CapacityNat
  <2>3. Sound(r) /\ Live(r) = Live(vec[v])
    BY <1>0, <2>2, ReallocatedSound
  <2> QED BY <1>8, <2>1, <2>3, SameCall DEF shrink_to_fit, Set
<1>9. ASSUME NEW v \in Vecs, pop_back(v)
      PROVE  Promised
  <2>1. vec[v].len - 1 \in 0 .. vec[v].len
    BY <1>0, <1>9, CapacityNat DEF pop_back
  <2>2. /\ vec' = [vec EXCEPT ![v] = Truncated(vec[v], vec[v].len - 1)]
        /\ vectorCall' = DeletionOf(v, vec[v].len - 1, 1)
    BY <1>9 DEF pop_back, Set
  <2>3. vec[v].len - (vec[v].len - 1) = 1
    BY <1>0, CapacityNat
  <2> QED BY <1>0, <2>1, <2>2, <2>3, TruncatedSound, CutCall
<1>10. ASSUME NEW v \in Vecs, VectorRenew(v)
       PROVE  Promised
  <2>1. vec' = [vec EXCEPT ![v] = NoVector] /\ vectorCall' = DeletionOf(v, 0, vec[v].len)
    BY <1>0, <1>10, ReleasedSound DEF VectorRenew, Set
  <2>2. 0 \in 0 .. vec[v].len /\ Live(NoVector) = SubSeq(Live(vec[v]), 1, 0)
    BY <1>0, CapacityNat, NoVectorSound, SubSeqEmpty
  <2>3. vec[v].len - 0 = vec[v].len
    BY <1>0, CapacityNat
  <2> QED BY <2>1, <2>2, <2>3, NoVectorSound, CutCall
<1>11. ASSUME NEW to \in Vecs, NEW from \in Vecs, VectorMove(to, from)
       PROVE  Promised
  <2> DEFINE r == [slots |-> vec[from].slots, len |-> vec[from].len,
                   made |-> Released(vec[to]).made + vec[from].made]
  <2>1. /\ to # from /\ vectorCall' = MoveOf(to, from)
        /\ vec' = [vec EXCEPT ![to] = r, ![from] = NoVector]
    BY <1>11 DEF VectorMove
  <2>2. Released(vec[to]).made = 0
    BY <1>0, ReleasedSound DEF NoVector
  <2>3. r \in [slots : Seq(Slot), len : Nat, made : Int] /\ Sound(r) /\ Live(r) = Live(vec[from])
    BY <1>0, <2>2 DEF Sound, Live
  <2>4. NoVector \in [slots : Seq(Slot), len : Nat, made : Int]
    BY NoVectorSound DEF Sound
  <2> HIDE DEF r
  <2>5. \A w \in Vecs : vec'[w] = IF w = from THEN NoVector ELSE IF w = to THEN r ELSE vec[w]
    BY <2>1 DEF VecInv
  <2>6. VecInv'
    BY <2>1, <2>3, <2>4, <2>5, NoVectorSound DEF VecInv
  <2>7. Contents' = [w \in Vecs |-> Live(vec'[w])]
    BY DEF Contents
  <2>8. Contents' = [Contents EXCEPT ![to] = Contents[from], ![from] = <<>>]
    <3>1. /\ Live(vec'[from]) = <<>> /\ Live(vec'[to]) = Live(vec[from])
          /\ \A w \in Vecs : w # to /\ w # from => Live(vec'[w]) = Live(vec[w])
      BY <2>1, <2>3, <2>5, NoVectorSound
    <3>2. \A w \in Vecs : Contents[w] = Live(vec[w])
      BY DEF Contents
    <3>3. \A w \in Vecs :
            Live(vec'[w]) = IF w = from THEN <<>> ELSE IF w = to THEN Contents[from] ELSE Contents[w]
      BY <2>1, <3>1, <3>2
    <3> HIDE DEF Live
    <3> QED BY <2>1, <2>7, <3>3 DEF Contents
  <2>9. Sequence!Move
    <3>1. vectorCall'.kind = "move" /\ vectorCall'.to = to /\ vectorCall'.from = from
      BY <2>1 DEF MoveOf
    <3> HIDE DEF Contents
    <3>2. Contents' = [Contents EXCEPT ![vectorCall'.to] = Contents[vectorCall'.from],
                                       ![vectorCall'.from] = <<>>]
      BY <2>8, <3>1
    <3> QED BY <2>1, <3>1, <3>2 DEF Sequence!Move, Contents
  <2> QED BY <2>1, <2>6, <2>9 DEF Promised, Sequence!Next
<1> QED
  BY <1>1, <1>2, <1>3, <1>4, <1>5, <1>6, <1>7, <1>8, <1>9, <1>10, <1>11 DEF VectorNext

LEMMA StutterSound ==
  ASSUME VecInv, UNCHANGED vecVars
  PROVE  VecInv' /\ UNCHANGED <<Contents, vectorCall>>
BY DEF VecInv, vecVars, Contents

-----------------------------------------------------------------------------
(* Theorems *)

\* The elements of a vector are constructed and destroyed in pairs (vector.h),
\* for all capacities and numbers of vectors and whatever allocation fails, as
\* long as pop_back is not called on elements with a destructor.
THEOREM ElementLifeCycle ==
  ASSUME ~PopsObjects
  PROVE  VectorSpec => []ElementsDestroyedOnce
<1>1. VecInv => ElementsDestroyedOnce
  BY DEF VecInv, Sound, ElementsDestroyedOnce
<1>2. VecInv /\ [VectorNext]_vecVars => VecInv'
  BY NextSound, StutterSound DEF Promised
<1> QED BY <1>1, <1>2, InitSound, PTL DEF VectorSpec

\* Under the same condition a vector is a sequence that is edited: growth keeps
\* its elements, an stringCall element is the one its reference named, a failed
\* call changes nothing.
THEOREM SequenceImplemented ==
  ASSUME ~PopsObjects
  PROVE  VectorSpec => VectorIsSequence
<1>1. VecInv /\ [VectorNext]_vecVars => VecInv'
  BY NextSound, StutterSound DEF Promised
<1>2. VecInv /\ [VectorNext]_vecVars => [Sequence!Next]_<<Contents, vectorCall>>
  BY NextSound, StutterSound DEF Promised
<1> QED
  BY <1>1, <1>2, InitSound, PTL DEF VectorSpec, VectorIsSequence, Sequence!Spec, Contents

-----------------------------------------------------------------------------
(* Strings *)

TextRecord == [buf : Seq(Chars), len : Nat]

\* A string record in order: a NUL follows the characters within the allocation,
\* which is no larger than allocations can be.
SoundText(r) ==
  /\ r \in TextRecord
  /\ string_capacity(r) <= MaxCap
  /\ IF r.buf = <<>> THEN r.len = 0
     ELSE r.len <= string_capacity(r) /\ r.buf[r.len + 1] = NUL

LEMMA TextRange ==
  ASSUME NEW r, SoundText(r)
  PROVE  /\ r.buf \in Seq(Chars) /\ Len(r.buf) \in Nat /\ r.len \in 0 .. Len(r.buf)
         /\ string_capacity(r) \in Nat /\ r.len <= string_capacity(r)
         /\ r.buf # <<>> => Len(r.buf) = string_capacity(r) + 1
<1>1. r.buf \in Seq(Chars) /\ r.len \in Nat
  BY DEF SoundText, TextRecord
<1>2. Len(r.buf) \in Nat /\ (r.buf # <<>> => Len(r.buf) > 0)
  BY <1>1, EmptySeq, LenProperties
<1>3. CASE r.buf = <<>>
  BY <1>1, <1>2, <1>3 DEF SoundText, string_capacity
<1>4. CASE r.buf # <<>>
  BY <1>1, <1>2, <1>4 DEF SoundText, string_capacity
<1> QED BY <1>3, <1>4

LEMMA CharactersSeq ==
  ASSUME NEW r, SoundText(r)
  PROVE  /\ Characters(r) \in Seq(Chars) /\ Len(Characters(r)) = r.len
         /\ \A i \in 1 .. r.len : Characters(r)[i] = r.buf[i]
BY TextRange, PrefixSeq DEF Characters

\* A NUL is written behind the first n characters.
LEMMA TerminatedSound ==
  ASSUME NEW b \in Seq(Chars), NEW n \in Nat, NEW old, n < Len(b), Len(b) <= MaxCap + 1
  PROVE  /\ SoundText([buf |-> Terminated(b, old, n), len |-> n])
         /\ Characters([buf |-> Terminated(b, old, n), len |-> n]) = SubSeq(b, 1, n)
<1> DEFINE f == Terminated(b, old, n)
           r == [buf |-> f, len |-> n]
<1>1. /\ Len(b) \in Nat /\ n + 1 \in 1 .. Len(b) /\ NUL \in Chars /\ MaxCap \in Nat
      /\ b \in [1 .. Len(b) -> Chars]
  BY LenProperties, StringConstants
<1>2. f \in [1 .. Len(b) -> Chars] /\ f[n + 1] = NUL
  BY <1>1 DEF Terminated
<1>3. \A i \in 1 .. n : f[i] = b[i]
  BY <1>1 DEF Terminated
<1> HIDE DEF f
<1>4. f \in Seq(Chars) /\ Len(f) = Len(b)
  BY <1>1, <1>2, SeqIntro
<1>5. f # <<>>
  BY <1>1, <1>4, EmptySeq
<1>6. SubSeq(f, 1, n) = SubSeq(b, 1, n)
  BY <1>1, <1>3, <1>4, PrefixEqual
<1>7. r.buf = f /\ r.len = n /\ r \in TextRecord
  BY <1>4 DEF TextRecord
<1> HIDE DEF r
<1>8. string_capacity(r) = Len(b) - 1
  BY <1>4, <1>5, <1>7 DEF string_capacity
<1>9. SoundText(r) /\ Characters(r) = SubSeq(b, 1, n)
  BY <1>1, <1>2, <1>5, <1>6, <1>7, <1>8 DEF SoundText, Characters
<1> QED BY <1>9 DEF r, f

\* More room keeps the characters.
LEMMA ReservedSound ==
  ASSUME NEW s, SoundText(s), NEW n \in Nat, NEW r \in Reserved(s, n)
  PROVE  /\ SoundText(r) /\ Characters(r) = Characters(s) /\ r.len = s.len
         /\ n <= string_capacity(r)
<1>1. CASE n <= string_capacity(s)
  BY <1>1 DEF Reserved
<1>2. CASE ~(n <= string_capacity(s))
  <2>0. ~(n > MaxCap)
    BY <1>2 DEF Reserved
  <2>1. n <= MaxCap
    BY <2>0, StringConstants
  <2> DEFINE new(junk) == [buf |-> Characters(s) \o <<NUL>> \o junk, len |-> s.len]
  <2>2. PICK junk \in [1 .. n - s.len -> Chars] : r = new(junk)
    <3>1. r \in {new(junk) : junk \in [1 .. n - s.len -> Chars]}
      BY <1>2, <2>0 DEF Reserved
    <3> HIDE DEF new
    <3> QED BY <3>1
  <2> DEFINE c == Characters(s)
             t == c \o <<NUL>>
             b == t \o junk
  <2>3. c \in Seq(Chars) /\ Len(c) = s.len /\ s.len \in Nat /\ n - s.len \in Nat
    BY <1>2, CharactersSeq, TextRange
  <2>4. junk \in Seq(Chars) /\ Len(junk) = n - s.len
    BY <2>3, SeqIntro, SMTT(30)
  <2> HIDE DEF c
  <2>5. <<NUL>> \in Seq(Chars) /\ Len(<<NUL>>) = 1 /\ <<NUL>>[1] = NUL
    BY StringConstants
  <2>6. /\ t \in Seq(Chars) /\ Len(t) = s.len + 1 /\ t[s.len + 1] = NUL
        /\ \A i \in 1 .. s.len : t[i] = c[i]
    BY <2>3, <2>5, ConcatProperties, SMTT(30)
  <2> HIDE DEF t
  <2>7. /\ b \in Seq(Chars) /\ Len(b) = n + 1 /\ b[s.len + 1] = NUL
        /\ \A i \in 1 .. s.len : b[i] = c[i]
    <3>1. /\ b \in Seq(Chars) /\ Len(b) = Len(t) + Len(junk)
          /\ \A i \in 1 .. Len(t) + Len(junk) : b[i] = IF i <= Len(t) THEN t[i] ELSE junk[i - Len(t)]
      BY <2>4, <2>6, ConcatProperties
    <3> HIDE DEF b
    <3>2. Len(b) = n + 1 /\ Len(t) = s.len + 1 /\ s.len + 1 \in 1 .. Len(t) + Len(junk)
      BY <2>3, <2>4, <2>6, <3>1, SMTT(30)
    <3>3. b[s.len + 1] = NUL
      BY <2>6, <3>1, <3>2
    <3>4. ASSUME NEW i \in 1 .. s.len
          PROVE  b[i] = c[i]
      <4>1. i <= Len(t) /\ i \in 1 .. Len(t) + Len(junk)
        BY <2>3, <2>4, <2>6, SMTT(30)
      <4> QED BY <2>6, <3>1, <4>1
    <3> QED BY <3>1, <3>2, <3>3, <3>4
  <2>8. r = [buf |-> b, len |-> s.len]
    BY <2>2 DEF b, c, t
  <2> HIDE DEF b
  <2>9. r.buf = b /\ r.len = s.len /\ r \in TextRecord /\ b # <<>>
    BY <2>3, <2>7, <2>8, EmptySeq DEF TextRecord
  <2>10. string_capacity(r) = n
    BY <2>7, <2>9 DEF string_capacity
  <2>11. SoundText(r)
    BY <2>1, <2>3, <2>7, <2>9, <2>10 DEF SoundText
  <2>12. Characters(r) = c
    <3>1. /\ Characters(r) \in Seq(Chars) /\ Len(Characters(r)) = s.len
          /\ \A i \in 1 .. s.len : Characters(r)[i] = b[i]
      BY <2>9, <2>11, CharactersSeq
    <3> QED BY <2>3, <2>7, <3>1, SeqEqual
  <2> QED BY <2>9, <2>10, <2>11, <2>12 DEF c
<1> QED BY <1>1, <1>2

-----------------------------------------------------------------------------
(* Calls on strings *)

StrInv == str \in [Strs -> TextRecord] /\ \A s \in Strs : SoundText(str[s])

Texts == [s \in Strs |-> Characters(str[s])]

TextPromised == StrInv' /\ Text!Next

\* A call replaces one string.
LEMMA SetText ==
  ASSUME StrInv, NEW s \in Strs, NEW r, SoundText(r), str' = [str EXCEPT ![s] = r]
  PROVE  StrInv' /\ Texts' = [Texts EXCEPT ![s] = Characters(r)]
<1>1. r \in TextRecord
  BY DEF SoundText
<1>2. \A w \in Strs : str'[w] = IF w = s THEN r ELSE str[w]
  BY DEF StrInv
<1>3. StrInv'
  BY <1>1, <1>2 DEF StrInv
<1>4. Texts' = [w \in Strs |-> Characters(str'[w])]
  BY DEF Texts
<1>5. \A w \in Strs : Characters(str'[w]) = IF w = s THEN Characters(r) ELSE Characters(str[w])
  BY <1>2
<1> QED BY <1>3, <1>4, <1>5 DEF Texts

\* Characters are put behind the last one.
LEMMA InsertedText ==
  ASSUME StrInv, NEW s \in Strs, NEW r, SoundText(r), NEW data \in Seq(Chars),
         Characters(r) = Characters(str[s]) \o data, str' = [str EXCEPT ![s] = r]
  PROVE  StrInv' /\ str[s].len \in Nat /\ Text!Inserted(s, str[s].len, data)
<1> DEFINE q == Characters(str[s])
<1>1. q \in Seq(Chars) /\ Len(q) = str[s].len /\ str[s].len \in Nat /\ Texts[s] = q
  BY CharactersSeq, TextRange DEF StrInv, Texts
<1>2. StrInv' /\ Texts' = [Texts EXCEPT ![s] = q \o data]
  BY SetText
<1> HIDE DEF q
<1>3. SubSeq(q, 1, Len(q)) \o data \o SubSeq(q, Len(q) + 1, Len(q)) = q \o data
  BY <1>1, InsertedAtEnd, ZenonT(30)
<1>4. Text!Place(s, Len(q)) = Len(q)
  BY <1>1 DEF Text!Place, Texts
<1>5. Texts' = [Texts EXCEPT ![s] = Text!Left(s, Len(q)) \o data \o Text!Right(s, Len(q))]
  <2>1. /\ Text!Left(s, Len(q)) = SubSeq(q, 1, Len(q))
        /\ Text!Right(s, Len(q)) = SubSeq(q, Len(q) + 1, Len(q))
    BY <1>1 DEF Text!Left, Text!Right, Texts
  <2> QED BY <1>2, <1>3, <2>1
<1>6. Text!Inserted(s, Len(q), data)
  BY <1>4, <1>5 DEF Text!Inserted, Text!Becomes, Texts
<1> QED BY <1>1, <1>2, <1>6

\* A call that appends the characters it was asked to, and one that makes room.
LEMMA AppendText ==
  ASSUME StrInv, NEW s \in Strs, NEW r, SoundText(r), NEW data \in Seq(Chars),
         Characters(r) = Characters(str[s]) \o data, str' = [str EXCEPT ![s] = r],
         stringCall' = InsertOf(s, str[s].len, data)
  PROVE  TextPromised
<1>1. StrInv' /\ str[s].len \in Nat /\ Text!Inserted(s, str[s].len, data)
  BY InsertedText
<1>2. /\ stringCall'.kind = "insert" /\ stringCall'.on = s
      /\ stringCall'.at = str[s].len /\ stringCall'.data = data
  BY DEF InsertOf
<1>3. Text!Insert
  BY <1>1, <1>2 DEF Text!Insert
<1> QED BY <1>1, <1>3 DEF TextPromised, Text!Next

LEMMA RoomText ==
  ASSUME StrInv, NEW s \in Strs, NEW r, SoundText(r), NEW data \in Seq(Chars),
         Characters(r) = Characters(str[s]) \o data, str' = [str EXCEPT ![s] = r],
         NEW n, n = Len(data), stringCall' = RoomIn(s, str[s].len, n)
  PROVE  TextPromised
<1>1. StrInv' /\ str[s].len \in Nat /\ Text!Inserted(s, str[s].len, data)
  BY InsertedText
<1>2. /\ stringCall'.kind = "room" /\ stringCall'.on = s
      /\ stringCall'.at = str[s].len /\ stringCall'.len = n
  BY DEF RoomIn
<1>3. n \in Nat /\ data \in [1 .. n -> Chars]
  BY LenProperties
<1>4. Text!MakeRoom
  BY <1>1, <1>2, <1>3 DEF Text!MakeRoom
<1> QED BY <1>1, <1>4 DEF TextPromised, Text!Next

\* A call that cuts the last k characters off.
LEMMA CutText ==
  ASSUME StrInv, NEW s \in Strs, NEW r, SoundText(r), NEW n \in 0 .. str[s].len, NEW k,
         k = str[s].len - n, Characters(r) = SubSeq(Characters(str[s]), 1, n),
         str' = [str EXCEPT ![s] = r], stringCall' = DeletionOf(s, n, k)
  PROVE  TextPromised
<1> DEFINE q == Characters(str[s])
<1>1. q \in Seq(Chars) /\ Len(q) = str[s].len /\ str[s].len \in Nat /\ Texts[s] = q
  BY CharactersSeq, TextRange DEF StrInv, Texts
<1>2. StrInv' /\ Texts' = [Texts EXCEPT ![s] = SubSeq(q, 1, n)]
  BY SetText
<1>3. /\ stringCall'.kind = "delete" /\ stringCall'.on = s
      /\ stringCall'.at = n /\ stringCall'.len = k
  BY DEF DeletionOf
<1> HIDE DEF q
<1>4. k = Len(q) - n /\ n \in 0 .. Len(q)
  BY <1>1
<1>5. k \in 0 .. Len(q) /\ SubSeq(q, 1, n) \o SubSeq(q, n + k + 1, Len(q)) = SubSeq(q, 1, n)
  BY <1>1, <1>4, DeletedToEnd
<1>6. Texts' = [Texts EXCEPT ![s] = Text!Left(s, n) \o Text!Right(s, n + k)]
  BY <1>1, <1>2, <1>5 DEF Text!Left, Text!Right, Texts, q
<1>7. n \in Nat /\ k \in Nat /\ n <= Len(Texts[s])
  BY <1>1, <1>4, <1>5
<1>8. Text!Delete
  BY <1>3, <1>6, <1>7 DEF Text!Delete, Text!Becomes, Texts
<1> QED BY <1>2, <1>8 DEF TextPromised, Text!Next

LEMMA SameText ==
  ASSUME StrInv, NEW s \in Strs, NEW r, SoundText(r), Characters(r) = Characters(str[s]),
         str' = [str EXCEPT ![s] = r], stringCall' = NoEdit
  PROVE  TextPromised
<1>1. StrInv' /\ Texts' = [Texts EXCEPT ![s] = Characters(str[s])]
  BY SetText
<1>2. [Texts EXCEPT ![s] = Characters(str[s])] = Texts
  BY DEF Texts
<1>3. Text!Nothing
  BY <1>1, <1>2 DEF Text!Nothing, NoEdit, Texts
<1> QED BY <1>1, <1>3 DEF TextPromised, Text!Next

LEMMA NoChangeText ==
  ASSUME StrInv, NEW s \in Strs, NoChange
  PROVE  TextPromised
<1>1. str' = [str EXCEPT ![s] = str[s]] /\ stringCall' = NoEdit
  BY DEF NoChange, StrInv
<1> QED BY <1>1, SameText DEF StrInv

LEMMA NoStringSound == SoundText(NoString) /\ Characters(NoString) = <<>>
BY StringConstants, SubSeqEmpty DEF SoundText, TextRecord, NoString, Characters, string_capacity

LEMMA AppendSound ==
  ASSUME StrInv, NEW s \in Strs, NEW data \in Seq(Chars), append(s, data)
  PROVE  TextPromised
<1> DEFINE n == str[s].len + Len(data)
<1>1. SoundText(str[s]) /\ data # <<>> /\ Len(data) \in Nat /\ str[s].len \in Nat
  BY TextRange, LenProperties DEF StrInv, append
<1>2. Len(data) > 0
  BY <1>1, EmptySeq
<1>3. PICK r \in Reserved(str[s], n) :
        str' = [str EXCEPT ![s] = [buf |-> Terminated(CopiedBehind(r, data), r.len, r.len + Len(data)),
                                   len |-> r.len + Len(data)]]
  BY DEF append
<1>4. SoundText(r) /\ Characters(r) = Characters(str[s]) /\ r.len = str[s].len /\ n <= string_capacity(r)
  BY <1>1, ReservedSound
<1> DEFINE b == CopiedBehind(r, data)
           k == r.len
           t == r.buf
<1>5. /\ t \in Seq(Chars) /\ k \in Nat /\ Len(t) \in Nat
      /\ k + Len(data) < Len(t) /\ Len(t) <= MaxCap + 1
  <2>1. /\ t \in Seq(Chars) /\ k \in Nat /\ Len(t) \in Nat /\ string_capacity(r) <= MaxCap
        /\ string_capacity(r) \in Nat /\ (t # <<>> => Len(t) = string_capacity(r) + 1)
    BY <1>4, TextRange DEF SoundText
  <2>2. t # <<>>
    BY <1>1, <1>2, <1>4, <2>1 DEF string_capacity
  <2>3. k + Len(data) < Len(t) /\ Len(t) <= MaxCap + 1
    BY <1>1, <1>4, <2>1, <2>2, StringConstants, SMTT(30)
  <2> QED BY <2>1, <2>3
<1>6. b = Over(t, k, data)
  BY DEF CopiedBehind, Over
<1>7. str' = [str EXCEPT ![s] = [buf |-> Terminated(b, k, k + Len(data)), len |-> k + Len(data)]]
  BY <1>3
<1>8. stringCall' = InsertOf(s, str[s].len, data)
  BY DEF append
<1> HIDE DEF b, k, t
<1>9. b \in Seq(Chars) /\ Len(b) = Len(t) /\ SubSeq(b, 1, k + Len(data)) = SubSeq(t, 1, k) \o data
  <2>1. k + Len(data) <= Len(t) /\ t \in Seq(Chars) /\ k \in Nat
    BY <1>1, <1>5
  <2>2. /\ Over(t, k, data) \in Seq(Chars) /\ Len(Over(t, k, data)) = Len(t)
        /\ SubSeq(Over(t, k, data), 1, k + Len(data)) = SubSeq(t, 1, k) \o data
    BY <2>1, OverSound
  <2> QED BY <1>6, <2>2
<1> DEFINE m   == k + Len(data)
           new == [buf |-> Terminated(b, k, m), len |-> m]
<1>10. m \in Nat /\ m < Len(b) /\ Len(b) <= MaxCap + 1
  BY <1>1, <1>5, <1>9
<1> HIDE DEF m
<1>11. SoundText(new) /\ Characters(new) = SubSeq(b, 1, m)
  BY <1>9, <1>10, TerminatedSound
<1>12. SubSeq(t, 1, k) = Characters(str[s])
  BY <1>4 DEF t, k, Characters
<1>13. Characters(new) = Characters(str[s]) \o data
  BY <1>9, <1>11, <1>12 DEF m
<1>14. str' = [str EXCEPT ![s] = new]
  BY <1>7 DEF m
<1> HIDE DEF new
<1> QED BY <1>8, <1>11, <1>13, <1>14, AppendText

LEMMA ResizeSound ==
  ASSUME StrInv, NEW s \in Strs, NEW n \in Nat, string_resize(s, n)
  PROVE  TextPromised
<1>1. SoundText(str[s]) /\ str[s].len \in Nat /\ s \in DOMAIN str
  BY TextRange DEF StrInv
<1>2. RoomFor(str[s], n) \in Nat /\ n <= RoomFor(str[s], n)
  BY StringConstants DEF RoomFor
<1>3. PICK r \in Reserved(str[s], RoomFor(str[s], n)) :
        str' = [str EXCEPT ![s] = [buf |-> Terminated(r.buf, r.len, n), len |-> n]]
  BY DEF string_resize
<1>4. /\ SoundText(r) /\ Characters(r) = Characters(str[s]) /\ r.len = str[s].len
      /\ RoomFor(str[s], n) <= string_capacity(r)
  BY <1>1, <1>2, ReservedSound
<1> DEFINE b   == r.buf
           new == [buf |-> Terminated(b, r.len, n), len |-> n]
<1>5. /\ b \in Seq(Chars) /\ Len(b) \in Nat /\ n < Len(b) /\ Len(b) <= MaxCap + 1
      /\ r.len \in Nat /\ r.len <= Len(b)
  <2>1. /\ b \in Seq(Chars) /\ Len(b) \in Nat /\ r.len \in 0 .. Len(b) /\ string_capacity(r) \in Nat
        /\ string_capacity(r) <= MaxCap /\ (b # <<>> => Len(b) = string_capacity(r) + 1)
    BY <1>4, TextRange DEF SoundText
  <2>2. b # <<>>
    <3>1. CASE string_capacity(str[s]) = 0
      BY <1>2, <1>4, <2>1, <3>1, StringConstants DEF RoomFor, string_capacity
    <3>2. CASE string_capacity(str[s]) # 0
      <4>1. string_capacity(r) # 0
        <5>1. CASE RoomFor(str[s], n) <= string_capacity(str[s])
          BY <1>3, <3>2, <5>1 DEF Reserved
        <5>2. CASE ~(RoomFor(str[s], n) <= string_capacity(str[s]))
          BY <1>1, <1>2, <1>4, <2>1, <5>2, TextRange
        <5> QED BY <5>1, <5>2
      <4> QED BY <4>1 DEF string_capacity
    <3> QED BY <3>1, <3>2
  <2> QED BY <1>2, <1>4, <2>1, <2>2, StringConstants
<1>6. Characters(str[s]) = SubSeq(b, 1, str[s].len)
  BY <1>4 DEF Characters
<1>7. str' = [str EXCEPT ![s] = new]
  BY <1>3
<1>8. SoundText(new) /\ Characters(new) = SubSeq(b, 1, n)
  BY <1>5, TerminatedSound
<1>9. new.buf = Terminated(b, r.len, n)
  OBVIOUS
<1>10. str'[s] = new
  BY <1>1, <1>7
<1> HIDE DEF new, b
<1>11. CASE n <= str[s].len
  <2>1. stringCall' = DeletionOf(s, n, str[s].len - n) /\ n \in 0 .. str[s].len
    BY <1>1, <1>11 DEF string_resize
  <2>2. SubSeq(SubSeq(b, 1, str[s].len), 1, n) = SubSeq(b, 1, n)
    <3>1. /\ SubSeq(b, 1, str[s].len) \in Seq(Chars) /\ Len(SubSeq(b, 1, str[s].len)) = str[s].len
          /\ \A i \in 1 .. str[s].len : SubSeq(b, 1, str[s].len)[i] = b[i]
      BY <1>1, <1>4, <1>5, PrefixSeq
    <3>2. \A i \in 1 .. n : SubSeq(b, 1, str[s].len)[i] = b[i]
      BY <1>1, <1>11, <3>1
    <3>3. n <= Len(b)
      BY <1>5
    <3> QED BY <1>11, <1>5, <3>1, <3>2, <3>3, PrefixEqual
  <2> QED BY <1>6, <1>7, <1>8, <2>1, <2>2, CutText
<1>12. CASE ~(n <= str[s].len)
  <2> DEFINE f == Terminated(b, r.len, n)
             data == SubSeq(f, str[s].len + 1, n)
  <2>1. stringCall' = RoomIn(s, str[s].len, n - str[s].len)
    <3>1. n > str[s].len
      BY <1>1, <1>12
    <3> QED BY <3>1 DEF string_resize
  <2>2. f \in Seq(Chars) /\ Len(f) = Len(b) /\ \A i \in 1 .. str[s].len : f[i] = b[i]
    <3>1. new.buf \in Seq(Chars)
      BY <1>8, TextRange
    <3>2. b \in [1 .. Len(b) -> Chars]
      BY <1>5, LenProperties
    <3>3. n + 1 \in 1 .. Len(b) /\ \A i \in 1 .. str[s].len : i \in 1 .. Len(b) /\ i # n + 1
      BY <1>1, <1>5, <1>12
    <3>4. f \in [1 .. Len(b) -> Chars] /\ \A i \in 1 .. str[s].len : f[i] = b[i]
      BY <3>2, <3>3, StringConstants DEF Terminated
    <3> HIDE DEF f
    <3> QED BY <1>5, <3>4, SeqIntro
  <2> HIDE DEF f
  <2>3. str[s].len <= n /\ n <= Len(f)
    BY <1>1, <1>5, <1>12, <2>2
  <2>4. /\ data \in Seq(Chars) /\ Len(data) = n - str[s].len
        /\ SubSeq(f, 1, n) = SubSeq(f, 1, str[s].len) \o data
    BY <1>1, <2>2, <2>3, PrefixSplit
  <2>5. SubSeq(f, 1, str[s].len) = Characters(str[s])
    <3>1. str[s].len <= Len(b) /\ str[s].len <= Len(f)
      BY <1>1, <1>5, <2>2, <2>3
    <3> QED BY <1>1, <1>5, <1>6, <2>2, <3>1, PrefixEqual
  <2>6. Characters(new) = SubSeq(f, 1, n)
    BY DEF Characters, new, f
  <2> HIDE DEF data
  <2> QED BY <1>7, <1>8, <2>1, <2>4, <2>5, <2>6, RoomText
<1> QED BY <1>11, <1>12

LEMMA TextInit == StringInit => StrInv /\ Text!Init
<1> SUFFICES ASSUME StringInit PROVE StrInv /\ Text!Init
  OBVIOUS
<1>1. \A s \in Strs : str[s] = NoString
  BY DEF StringInit
<1>2. NoString \in TextRecord
  BY NoStringSound DEF SoundText
<1>3. StrInv
  BY <1>1, <1>2, NoStringSound DEF StringInit, StrInv
<1>4. Texts = [s \in Strs |-> <<>>]
  BY <1>1, NoStringSound DEF Texts
<1>5. stringCall = Text!NoEdit
  BY DEF StringInit, NoEdit, Text!NoEdit
<1> QED BY <1>3, <1>4, <1>5 DEF Text!Init, Texts

LEMMA TextNext ==
  ASSUME StrInv, StringNext
  PROVE  TextPromised
<1>0. \A s \in Strs : SoundText(str[s])
  BY DEF StrInv
<1>1. \A data \in Appendable : data \in Seq(Chars)
  BY StringConstants, SeqIntro DEF Appendable
<1>2. ASSUME NEW s \in Strs, NEW data \in Appendable, append(s, data)
      PROVE  TextPromised
  BY <1>1, <1>2, AppendSound
<1>3. ASSUME NEW s \in Strs, NEW data \in Appendable, appendCString(s, data)
      PROVE  TextPromised
  <2>1. PICK n \in 0 .. Len(data) : IF n = 0 THEN NoChange ELSE append(s, SubSeq(data, 1, n))
    BY <1>3 DEF appendCString
  <2>2. SubSeq(data, 1, n) \in Seq(Chars)
    BY <1>1, PrefixSeq
  <2> QED BY <2>1, <2>2, AppendSound, NoChangeText
<1>4. ASSUME NEW s \in Strs, NEW n \in 0 .. MaxCap + 1, string_reserve(s, n)
      PROVE  TextPromised
  <2>1. n \in Nat
    BY StringConstants
  <2>2. PICK r \in Reserved(str[s], n) : str' = [str EXCEPT ![s] = r]
    BY <1>4 DEF string_reserve
  <2>3. SoundText(r) /\ Characters(r) = Characters(str[s])
    BY <1>0, <2>1, ReservedSound
  <2> QED BY <1>4, <2>2, <2>3, SameText DEF string_reserve
<1>5. ASSUME NEW s \in Strs, NEW n \in 0 .. MaxCap + 1, string_resize(s, n)
      PROVE  TextPromised
  BY <1>5, ResizeSound, StringConstants
<1>6. ASSUME NEW s \in Strs, NoChange
      PROVE  TextPromised
  BY <1>6, NoChangeText
<1>7. ASSUME NEW s \in Strs, string_clear(s)
      PROVE  TextPromised
  <2> DEFINE new == [buf |-> IF str[s].buf = <<>> THEN <<>> ELSE Terminated(str[s].buf, str[s].len, 0),
                     len |-> 0]
  <2>1. str' = [str EXCEPT ![s] = new] /\ stringCall' = DeletionOf(s, 0, str[s].len)
    BY <1>7 DEF string_clear, StrInv
  <2>2. SoundText(new) /\ Characters(new) = <<>>
    <3>1. CASE str[s].buf = <<>>
      BY <3>1, NoStringSound DEF NoString
    <3>2. CASE str[s].buf # <<>>
      <4>1. str[s].buf \in Seq(Chars) /\ 0 < Len(str[s].buf) /\ Len(str[s].buf) <= MaxCap + 1
        BY <1>0, <3>2, TextRange, StringConstants DEF SoundText
      <4>2. SubSeq(str[s].buf, 1, 0) = <<>>
        BY SubSeqEmpty
      <4> QED BY <3>2, <4>1, <4>2, TerminatedSound
    <3> QED BY <3>1, <3>2
  <2>3. /\ 0 \in 0 .. str[s].len /\ str[s].len = str[s].len - 0
        /\ SubSeq(Characters(str[s]), 1, 0) = <<>>
    BY <1>0, TextRange, SubSeqEmpty
  <2> HIDE DEF new
  <2> QED BY <2>1, <2>2, <2>3, CutText
<1>8. ASSUME NEW s \in Strs, StringRenew(s)
      PROVE  TextPromised
  <2>1. /\ 0 \in 0 .. str[s].len /\ str[s].len = str[s].len - 0
        /\ SubSeq(Characters(str[s]), 1, 0) = <<>>
    BY <1>0, TextRange, SubSeqEmpty
  <2> QED BY <1>8, <2>1, NoStringSound, CutText DEF StringRenew
<1>9. ASSUME NEW to \in Strs, NEW from \in Strs, StringMove(to, from)
      PROVE  TextPromised
  <2>1. /\ to # from /\ stringCall' = MoveOf(to, from)
        /\ str' = [str EXCEPT ![to] = str[from], ![from] = NoString]
    BY <1>9 DEF StringMove, Emptied
  <2>2. NoString \in TextRecord
    BY NoStringSound DEF SoundText
  <2>3. \A w \in Strs : str'[w] = IF w = from THEN NoString ELSE IF w = to THEN str[from] ELSE str[w]
    BY <2>1 DEF StrInv
  <2>4. StrInv'
    BY <1>0, <2>1, <2>2, <2>3, NoStringSound DEF StrInv
  <2>5. Texts' = [Texts EXCEPT ![to] = Texts[from], ![from] = <<>>]
    <3>1. Texts' = [w \in Strs |-> Characters(str'[w])]
      BY DEF Texts
    <3>2. /\ Characters(str'[from]) = <<>> /\ Characters(str'[to]) = Characters(str[from])
          /\ \A w \in Strs : w # to /\ w # from => Characters(str'[w]) = Characters(str[w])
      BY <2>1, <2>3, NoStringSound
    <3>3. \A w \in Strs : Texts[w] = Characters(str[w])
      BY DEF Texts
    <3>4. \A w \in Strs :
            Characters(str'[w]) = IF w = from THEN <<>> ELSE IF w = to THEN Texts[from] ELSE Texts[w]
      BY <2>1, <3>2, <3>3
    <3> HIDE DEF Characters
    <3> QED BY <2>1, <3>1, <3>4 DEF Texts
  <2>6. Text!Move
    <3>1. stringCall'.kind = "move" /\ stringCall'.to = to /\ stringCall'.from = from
      BY <2>1 DEF MoveOf
    <3> HIDE DEF Texts
    <3>2. Texts' = [Texts EXCEPT ![stringCall'.to] = Texts[stringCall'.from],
                                 ![stringCall'.from] = <<>>]
      BY <2>5, <3>1
    <3> QED BY <2>1, <3>1, <3>2 DEF Text!Move, Texts
  <2> QED BY <2>1, <2>4, <2>6 DEF TextPromised, Text!Next
<1> QED
  BY <1>2, <1>3, <1>4, <1>5, <1>6, <1>7, <1>8, <1>9
  DEF StringNext, StringNoMemory, AppendNoMemory

LEMMA TextStutter ==
  ASSUME StrInv, UNCHANGED strVars
  PROVE  StrInv' /\ UNCHANGED <<Texts, stringCall>>
BY DEF StrInv, strVars, Texts

\* c_str() is terminated behind the characters and within the allocation
\* (string.h), for all capacities, whatever the calls and whatever fails.
THEOREM StringTerminated == StringSpec => []NulTerminated
<1>1. StrInv => NulTerminated
  BY DEF StrInv, SoundText, NulTerminated
<1>2. StrInv /\ [StringNext]_strVars => StrInv'
  BY TextNext, TextStutter DEF TextPromised
<1> QED BY <1>1, <1>2, TextInit, PTL DEF StringSpec

\* A string is a sequence that is edited.
THEOREM StringImplemented == StringSpec => StringIsSequence
<1>1. StrInv /\ [StringNext]_strVars => StrInv'
  BY TextNext, TextStutter DEF TextPromised
<1>2. StrInv /\ [StringNext]_strVars => [Text!Next]_<<Texts, stringCall>>
  BY TextNext, TextStutter DEF TextPromised
<1> QED
  BY <1>1, <1>2, TextInit, PTL DEF StringSpec, StringIsSequence, Text!Spec, Texts

-----------------------------------------------------------------------------
(* The growable buffer *)

BufInv ==
  /\ buffer \in BOOLEAN /\ mem \in Seq(Bytes) /\ Len(mem) <= MaxSize
  /\ used \in 0 .. Len(mem) /\ (used > 0 => buffer)

LEMMA ContentSeq ==
  ASSUME BufInv
  PROVE  /\ Content \in Seq(Bytes) /\ Len(Content) = used /\ used \in Nat
         /\ \A i \in 1 .. used : Content[i] = mem[i]
BY PrefixSeq, LenProperties DEF BufInv, Content

\* Sizes are rounded up.
LEMMA RoundedUp ==
  ASSUME NEW n \in Nat
  PROVE  Rounded(n) \in Nat /\ n <= Rounded(n)
<1> DEFINE c == Chunk
           q == (n + c - 1) \div c
           r == (n + c - 1) % c
<1>1. c \in Nat /\ c > 0
  BY GrowableBufferConstants
<1>2. n + c - 1 \in Nat
  BY <1>1
<1> HIDE DEF c
<1>3. q \in Nat /\ r \in 0 .. c - 1 /\ n + c - 1 = c * q + r
  BY <1>1, <1>2
<1> HIDE DEF q, r
<1>4. c * q \in Nat
  BY <1>1, <1>3
<1>5. n <= c * q
  BY <1>1, <1>3, <1>4
<1> QED BY <1>4, <1>5 DEF Rounded, q, c

\* When gbEnsureSize succeeds, the used bytes are where they were.
LEMMA EnsuredSound ==
  ASSUME BufInv, NEW n \in Nat, NEW m \in Ensured(n)
  PROVE  /\ m \in Seq(Bytes) /\ Len(m) \in Nat /\ Len(m) <= MaxSize /\ n <= Len(m) /\ used <= Len(m)
         /\ \A i \in 1 .. used : m[i] = Content[i]
<1>0. used \in Nat /\ Len(mem) \in Nat /\ used <= Len(mem) /\ Len(mem) <= MaxSize
  BY LenProperties DEF BufInv
<1>1. CASE Fits(n)
  <2>1. m = mem /\ n <= Len(mem)
    BY <1>1 DEF Ensured, Fits
  <2> QED BY <1>0, <2>1, ContentSeq DEF BufInv
<1>2. CASE ~Fits(n)
  <2>1. used <= n
    BY <1>0, <1>2 DEF BufInv, Fits
  <2>2. ~(Rounded(n) > MaxSize)
    BY <1>2 DEF Ensured
  <2> DEFINE c == Content
             k == Rounded(n)
             new(junk) == c \o junk
  <2>3. PICK junk \in [1 .. k - used -> Bytes] : m = new(junk)
    <3>1. m \in {new(junk) : junk \in [1 .. k - used -> Bytes]}
      BY <1>2, <2>2 DEF Ensured
    <3> HIDE DEF new, k
    <3> QED BY <3>1
  <2>4. k \in Nat /\ n <= k
    BY RoundedUp
  <2>5. k <= MaxSize
    BY <2>2, <2>4, GrowableBufferConstants
  <2> HIDE DEF k
  <2>6. k - used \in Nat
    BY <1>0, <2>1, <2>4
  <2>7. junk \in Seq(Bytes) /\ Len(junk) = k - used
    BY <2>6, SeqIntro
  <2>8. c \in Seq(Bytes) /\ Len(c) = used
    BY ContentSeq
  <2> HIDE DEF c
  <2>9. /\ m \in Seq(Bytes) /\ Len(m) = Len(c) + Len(junk)
        /\ \A i \in 1 .. Len(c) + Len(junk) : m[i] = IF i <= Len(c) THEN c[i] ELSE junk[i - Len(c)]
    BY <2>3, <2>7, <2>8, ConcatProperties
  <2>10. Len(m) = k /\ \A i \in 1 .. used : m[i] = c[i]
    BY <1>0, <2>4, <2>6, <2>7, <2>8, <2>9
  <2>11. Len(m) \in Nat /\ Len(m) <= MaxSize /\ n <= Len(m) /\ used <= Len(m)
    BY <1>0, <2>1, <2>4, <2>5, <2>10
  <2> QED BY <2>9, <2>10, <2>11 DEF c
<1> QED BY <1>1, <1>2

\* g is m with n bytes from one place at another, which keeps what is before that place.
HasMoved(S, g, m, from, to, n) ==
  /\ g \in Seq(S) /\ Len(g) = Len(m)
  /\ \A i \in 1 .. to : g[i] = m[i]
  /\ \A i \in 1 .. n : g[to + i] = m[from + i]

LEMMA MovedSound ==
  ASSUME NEW S, NEW m \in Seq(S), NEW from \in Nat, NEW to \in Nat, NEW n \in Nat,
         from + n <= Len(m), to + n <= Len(m)
  PROVE  HasMoved(S, Moved(m, from, to, n), m, from, to, n)
<1> DEFINE f == Moved(m, from, to, n)
<1>1. Len(m) \in Nat /\ DOMAIN m = 1 .. Len(m) /\ \A i \in 1 .. Len(m) : m[i] \in S
  BY LenProperties
<1>2. f \in [1 .. Len(m) -> S]
  <2>1. ASSUME NEW i \in 1 .. Len(m), i \in to + 1 .. to + n
        PROVE  m[i - to + from] \in S
    <3>1. i - to + from \in 1 .. Len(m)
      BY <1>1, <2>1
    <3> QED BY <1>1, <3>1
  <2> QED BY <1>1, <2>1 DEF Moved
<1>3. \A i \in 1 .. to : f[i] = m[i]
  BY <1>1 DEF Moved
<1>4. ASSUME NEW i \in 1 .. n
      PROVE  f[to + i] = m[from + i]
  <2>1. to + i \in 1 .. Len(m) /\ to + i \in to + 1 .. to + n /\ (to + i) - to + from = from + i
    BY <1>1
  <2>2. f[to + i] = m[(to + i) - to + from]
    BY <1>1, <2>1 DEF Moved
  <2> QED BY <2>1, <2>2
<1> HIDE DEF f
<1>5. f \in Seq(S) /\ Len(f) = Len(m)
  BY <1>1, <1>2, SeqIntro
<1> QED BY <1>3, <1>4, <1>5 DEF HasMoved, f

BufPromised == BufInv' /\ Buffer!Next

\* Bytes are put after the first bytes of the content, or behind all of them.
LEMMA PlacedBuf ==
  ASSUME BufInv, NEW offset \in Nat, NEW data \in Seq(Bytes),
         Content' = SubSeq(Content, 1, At(offset)) \o data \o SubSeq(Content, At(offset) + 1, used)
  PROVE  Buffer!Inserted(Self, offset, data)
<1>1. Len(Content) = used /\ used \in Nat
  BY ContentSeq
<1>2. Buffer!Place(Self, offset) = At(offset)
  BY <1>1 DEF Buffer!Place, At
<1> QED
  BY <1>1, <1>2 DEF Buffer!Inserted, Buffer!Becomes, Buffer!Left, Buffer!Right

\* What gbAdd is asked for.
LEMMA InsertBuf ==
  ASSUME BufInv, BufInv', NEW offset \in Nat, NEW data \in Seq(Bytes),
         Content' = SubSeq(Content, 1, At(offset)) \o data \o SubSeq(Content, At(offset) + 1, used),
         gbCall' = InsertOf(Self, offset, data)
  PROVE  BufPromised
<1>1. Buffer!Inserted(Self, offset, data)
  BY PlacedBuf
<1>2. /\ gbCall'.kind = "insert" /\ gbCall'.on = Self
      /\ gbCall'.at = offset /\ gbCall'.data = data
  BY DEF InsertOf
<1>3. Buffer!Insert
  BY <1>1, <1>2 DEF Buffer!Insert
<1> QED BY <1>3 DEF BufPromised, Buffer!Next

\* What gbReserve is asked for.
LEMMA RoomBuf ==
  ASSUME BufInv, BufInv', NEW offset \in Nat, NEW data \in Seq(Bytes), NEW n, n = Len(data),
         Content' = SubSeq(Content, 1, At(offset)) \o data \o SubSeq(Content, At(offset) + 1, used),
         gbCall' = RoomIn(Self, offset, n)
  PROVE  BufPromised
<1>1. Buffer!Inserted(Self, offset, data)
  BY PlacedBuf
<1>2. /\ gbCall'.kind = "room" /\ gbCall'.on = Self
      /\ gbCall'.at = offset /\ gbCall'.len = n
  BY DEF RoomIn
<1>3. n \in Nat /\ data \in [1 .. n -> Bytes]
  BY LenProperties
<1>4. Buffer!MakeRoom
  BY <1>1, <1>2, <1>3 DEF Buffer!MakeRoom
<1> QED BY <1>4 DEF BufPromised, Buffer!Next

\* What gbDel is asked for, gbReset too.
LEMMA DeleteBuf ==
  ASSUME BufInv, BufInv', NEW a \in 0 .. used, NEW n \in Nat,
         Content' = SubSeq(Content, 1, a) \o SubSeq(Content, a + n + 1, used),
         gbCall' = DeletionOf(Self, a, n)
  PROVE  BufPromised
<1>1. Len(Content) = used /\ used \in Nat /\ a \in Nat /\ a <= used
  BY ContentSeq
<1>2. /\ gbCall'.kind = "delete" /\ gbCall'.on = Self
      /\ gbCall'.at = a /\ gbCall'.len = n
  BY DEF DeletionOf
<1>3. Buffer!Delete
  BY <1>1, <1>2 DEF Buffer!Delete, Buffer!Becomes, Buffer!Left, Buffer!Right
<1> QED BY <1>3 DEF BufPromised, Buffer!Next

LEMMA SameBuf ==
  ASSUME BufInv, BufInv', Content' = Content, gbCall' = NoEdit
  PROVE  BufPromised
BY DEF BufPromised, Buffer!Next, Buffer!Nothing, NoEdit

\* len bytes are made room for.
LEMMA OpenedSound ==
  ASSUME BufInv, NEW n \in Nat, NEW m \in Ensured(used + n), NEW offset \in Nat
  PROVE  /\ At(offset) \in 0 .. used
         /\ Opened(m, offset, n) \in Seq(Bytes) /\ Len(Opened(m, offset, n)) = Len(m)
         /\ Len(m) \in Nat /\ used + n <= Len(m) /\ Len(m) <= MaxSize
         /\ \A i \in 1 .. At(offset) : Opened(m, offset, n)[i] = Content[i]
         /\ \A i \in 1 .. used - At(offset) :
              Opened(m, offset, n)[At(offset) + n + i] = Content[At(offset) + i]
<1> DEFINE a == At(offset)
           l == used - a
           f == Opened(m, offset, n)
<1>1. used \in Nat /\ used + n \in Nat
  BY ContentSeq
<1>2. a \in 0 .. used /\ a \in Nat
  BY <1>1 DEF At
<1>3. /\ m \in Seq(Bytes) /\ Len(m) \in Nat /\ Len(m) <= MaxSize /\ used + n <= Len(m)
      /\ \A i \in 1 .. used : m[i] = Content[i]
  BY <1>1, EnsuredSound
<1>4. f = Moved(m, a, a + n, l)
  BY DEF Opened
<1> HIDE DEF a, f
<1>5. l \in Nat /\ a + n \in Nat /\ a + l <= Len(m) /\ (a + n) + l <= Len(m)
  BY <1>1, <1>2, <1>3
<1> HIDE DEF l
<1>6. /\ f \in Seq(Bytes) /\ Len(f) = Len(m) /\ \A i \in 1 .. a + n : f[i] = m[i]
      /\ \A i \in 1 .. l : f[(a + n) + i] = m[a + i]
  <2> DEFINE k == a + n
             g == Moved(m, a, k, l)
  <2>1. m \in Seq(Bytes) /\ a \in Nat /\ k \in Nat /\ l \in Nat /\ a + l <= Len(m) /\ k + l <= Len(m)
    BY <1>2, <1>3, <1>5
  <2>2. f = g
    BY <1>4
  <2> HIDE DEF k
  <2>3. HasMoved(Bytes, g, m, a, k, l)
    BY <2>1, MovedSound
  <2> HIDE DEF g
  <2> QED BY <2>2, <2>3 DEF HasMoved, k
<1>7. \A i \in 1 .. a : f[i] = Content[i]
  <2>1. ASSUME NEW i \in 1 .. a
        PROVE  i \in 1 .. a + n /\ i \in 1 .. used
    BY <1>1, <1>2
  <2> QED BY <1>3, <1>6, <2>1
<1>8. \A i \in 1 .. l : f[a + n + i] = Content[a + i]
  <2>1. ASSUME NEW i \in 1 .. l
        PROVE  a + i \in 1 .. used
    BY <1>1, <1>2 DEF l
  <2> QED BY <1>3, <1>6, <2>1
<1> QED BY <1>2, <1>3, <1>6, <1>7, <1>8 DEF a, l, f

\* A call that inserts n bytes has left them, and what was there, in f.
LEMMA InsertedBuf ==
  ASSUME BufInv, NEW n \in Nat, NEW f \in Seq(Bytes), NEW a \in 0 .. used,
         used + n <= Len(f), Len(f) <= MaxSize,
         \A i \in 1 .. a : f[i] = Content[i],
         \A i \in 1 .. used - a : f[a + n + i] = Content[a + i],
         mem' = f, used' = used + n, buffer' = TRUE
  PROVE  /\ BufInv'
         /\ Content' = SubSeq(Content, 1, a) \o SubSeq(f, a + 1, a + n) \o SubSeq(Content, a + 1, used)
<1>1. Content \in Seq(Bytes) /\ Len(Content) = used /\ used \in Nat
  BY ContentSeq
<1>2. BufInv'
  <2>1. Len(f) \in Nat
    BY LenProperties
  <2> QED BY <1>1, <2>1 DEF BufInv
<1>3. Content' = SubSeq(f, 1, used + n)
  BY DEF Content
<1> HIDE DEF Content
<1>4. SubSeq(f, 1, used + n)
        = SubSeq(Content, 1, a) \o SubSeq(f, a + 1, a + n) \o SubSeq(Content, a + 1, used)
  <2> DEFINE c == Content
             u == used
  <2>1. /\ c \in Seq(Bytes) /\ Len(c) = u /\ u \in Nat /\ a \in 0 .. Len(c)
        /\ \A i \in 1 .. Len(c) - a : f[a + n + i] = c[a + i]
    BY <1>1
  <2>2. Len(c) + n <= Len(f) /\ \A i \in 1 .. a : f[i] = c[i]
    BY <1>1
  <2> HIDE DEF c, u
  <2>3. SubSeq(f, 1, Len(c) + n)
          = SubSeq(c, 1, a) \o SubSeq(f, a + 1, a + n) \o SubSeq(c, a + 1, Len(c))
    BY <2>1, <2>2, ThreeParts
  <2> QED BY <2>1, <2>3 DEF c, u
<1> QED BY <1>2, <1>3, <1>4

LEMMA ReserveSound ==
  ASSUME BufInv, NEW n \in 0 .. MaxLen, NEW offset \in Nat, gbReserve(n, offset)
  PROVE  BufPromised
<1>1. PICK m \in Ensured(used + n) : mem' = Opened(m, offset, n)
  BY DEF gbReserve
<1> DEFINE f == Opened(m, offset, n)
           a == At(offset)
<1>2. n \in Nat /\ used' = used + n /\ buffer' = TRUE /\ mem' = f
      /\ gbCall' = RoomIn(Self, offset, n)
  BY <1>1, GrowableBufferConstants DEF gbReserve
<1>3. /\ a \in 0 .. used /\ f \in Seq(Bytes) /\ used + n <= Len(f) /\ Len(f) <= MaxSize
      /\ \A i \in 1 .. a : f[i] = Content[i]
      /\ \A i \in 1 .. used - a : f[a + n + i] = Content[a + i]
  BY <1>2, OpenedSound
<1> HIDE DEF f, a
<1> DEFINE data == SubSeq(f, a + 1, a + n)
<1>4. BufInv' /\ Content' = SubSeq(Content, 1, a) \o data \o SubSeq(Content, a + 1, used)
  BY <1>2, <1>3, InsertedBuf
<1>5. data \in Seq(Bytes) /\ Len(data) = n
  <2>1. a \in Nat /\ a + n \in Nat /\ a <= a + n /\ a + n <= Len(f) /\ (a + n) - a = n
    <3>1. used \in Nat /\ Len(f) \in Nat
      BY <1>3, ContentSeq, LenProperties
    <3>2. a \in Nat /\ a <= used
      BY <1>3, <3>1
    <3>3. n \in Nat /\ used + n <= Len(f)
      BY <1>2, <1>3
    <3> QED BY <3>1, <3>2, <3>3
  <2> QED BY <1>3, <2>1, RangeSeq
<1> HIDE DEF data
<1> QED BY <1>2, <1>4, <1>5, RoomBuf DEF a

LEMMA AddSound ==
  ASSUME BufInv, NEW data \in Data, NEW offset \in Nat, gbAdd(data, offset)
  PROVE  BufPromised
<1> DEFINE n == Len(data)
<1>1. PICK m \in Ensured(used + n) : mem' = Filled(Opened(m, offset, n), At(offset), data)
  BY DEF gbAdd
<1> DEFINE g == Opened(m, offset, n)
           a == At(offset)
           f == Over(g, a, data)
<1>2. data \in Seq(Bytes) /\ n \in Nat
  BY SeqIntro, GrowableBufferConstants DEF Data
<1>3. used' = used + n /\ buffer' = TRUE /\ mem' = f /\ gbCall' = InsertOf(Self, offset, data)
  BY <1>1 DEF gbAdd, Filled, Over
<1>4. /\ a \in 0 .. used /\ g \in Seq(Bytes) /\ used + n <= Len(g) /\ Len(g) <= MaxSize
      /\ \A i \in 1 .. a : g[i] = Content[i]
      /\ \A i \in 1 .. used - a : g[a + n + i] = Content[a + i]
  BY <1>2, OpenedSound
<1> HIDE DEF g, a
<1>5. used \in Nat /\ a \in Nat /\ Len(g) \in Nat /\ a + n <= Len(g)
  BY <1>2, <1>4, ContentSeq, LenProperties
<1>6. /\ f \in Seq(Bytes) /\ Len(f) = Len(g)
      /\ \A i \in 1 .. a : f[i] = g[i]
      /\ \A i \in 1 .. n : f[a + i] = data[i]
      /\ \A i \in a + n + 1 .. Len(g) : f[i] = g[i]
  BY <1>2, <1>4, <1>5, OverSound
<1> HIDE DEF f
<1>7. \A i \in 1 .. a : f[i] = Content[i]
  BY <1>4, <1>6
<1>8. \A i \in 1 .. used - a : f[a + n + i] = Content[a + i]
  <2>1. ASSUME NEW i \in 1 .. used - a
        PROVE  a + n + i \in a + n + 1 .. Len(g)
    BY <1>2, <1>4, <1>5, SMTT(30)
  <2> QED BY <1>4, <1>6, <2>1
<1>9. SubSeq(f, a + 1, a + n) = data
  <2> DEFINE d == SubSeq(f, a + 1, a + n)
  <2>1. a \in Nat /\ a + n \in Nat /\ a <= a + n /\ a + n <= Len(f) /\ (a + n) - a = n
    BY <1>2, <1>5, <1>6
  <2>2. d \in Seq(Bytes) /\ Len(d) = n /\ \A i \in 1 .. n : d[i] = f[a + i]
    BY <1>6, <2>1, RangeSeq
  <2> HIDE DEF d
  <2>3. \A i \in 1 .. n : d[i] = data[i]
    BY <1>6, <2>2
  <2>4. d = data
    BY <1>2, <2>2, <2>3, SeqEqual
  <2> QED BY <2>4 DEF d
<1>10. used + n <= Len(f) /\ Len(f) <= MaxSize
  BY <1>4, <1>6
<1> HIDE DEF n
<1>11. /\ BufInv'
       /\ Content' = SubSeq(Content, 1, a) \o SubSeq(f, a + 1, a + n) \o SubSeq(Content, a + 1, used)
  BY <1>2, <1>3, <1>4, <1>6, <1>7, <1>8, <1>10, InsertedBuf
<1> QED BY <1>2, <1>3, <1>9, <1>11, InsertBuf DEF a

\* g holds c, of which the bytes from one place have been moved down to another.
HasClosed(S, g, m, c, from, to, n) ==
  /\ g \in Seq(S) /\ Len(g) = Len(m)
  /\ SubSeq(g, 1, to + n) = SubSeq(c, 1, to) \o SubSeq(c, from + 1, from + n)

\* c and m begin with the same n elements.
SameUpTo(n, c, m) == \A i \in 1 .. n : c[i] = m[i]

\* Moving the end of the content down keeps what is before the place it is moved to.
LEMMA Closed ==
  ASSUME NEW S, NEW m \in Seq(S), NEW c \in Seq(S), NEW from \in Nat, NEW to \in Nat,
         NEW n \in Nat, to <= from, from + n <= Len(m), from + n <= Len(c),
         SameUpTo(from + n, c, m)
  PROVE  HasClosed(S, Moved(m, from, to, n), m, c, from, to, n)
<1> DEFINE g == Moved(m, from, to, n)
           u == from + n
           v == to + n
<1>1. /\ Len(m) \in Nat /\ Len(c) \in Nat /\ u \in Nat /\ v \in Nat /\ v <= u /\ u <= Len(m)
      /\ u <= Len(c) /\ from <= u /\ to <= v /\ u - from = n /\ v - to = n /\ v <= Len(m)
  BY LenProperties
<1>0. HasMoved(S, g, m, from, to, n)
  BY <1>1, MovedSound
<1>2. /\ g \in Seq(S) /\ Len(g) = Len(m)
      /\ \A i \in 1 .. to : g[i] = m[i]
      /\ \A i \in 1 .. n : g[to + i] = m[from + i]
  BY <1>0 DEF HasMoved
<1>3. \A i \in 1 .. u : c[i] = m[i]
  BY DEF SameUpTo
<1> HIDE DEF g, u, v
<1>4. SubSeq(g, 1, v) = SubSeq(g, 1, to) \o SubSeq(g, to + 1, v)
  BY <1>1, <1>2, PrefixSplit
<1>5. SubSeq(g, 1, to) = SubSeq(c, 1, to)
  <2>1. \A i \in 1 .. to : g[i] = c[i]
    BY <1>1, <1>2, <1>3
  <2>2. to <= Len(g) /\ to <= Len(c)
    BY <1>1, <1>2
  <2> QED BY <1>2, <2>1, <2>2, PrefixEqual
<1>6. SubSeq(g, to + 1, v) = SubSeq(c, from + 1, u)
  <2> DEFINE x == SubSeq(g, to + 1, v)
             y == SubSeq(c, from + 1, u)
  <2>1. IsPart(S, x, g, to, n)
    BY <1>1, <1>2, PartSeq DEF v
  <2>2. IsPart(S, y, c, from, n)
    BY <1>1, PartSeq DEF u
  <2>3. \A i \in 1 .. n : g[to + i] = c[from + i]
    <3>1. ASSUME NEW i \in 1 .. n
          PROVE  from + i \in 1 .. u
      BY <1>1
    <3> QED BY <1>2, <1>3, <3>1
  <2> HIDE DEF x, y
  <2>4. x = y
    <3>1. \A i \in 1 .. n : x[i] = y[i]
      BY <2>1, <2>2, <2>3 DEF IsPart
    <3> QED BY <2>1, <2>2, <3>1, SeqEqual DEF IsPart
  <2> QED BY <2>4 DEF x, y
<1> QED BY <1>2, <1>4, <1>5, <1>6 DEF HasClosed, g, u, v

LEMMA DelSound ==
  ASSUME BufInv, NEW n \in Nat, NEW offset \in Nat, gbDel(offset, n)
  PROVE  BufPromised
<1> DEFINE k == Cut(offset, n)
           l == used - (offset + k)
           f == Moved(mem, offset + k, offset, l)
           c == Content
<1>1. used \in Nat /\ Len(mem) \in Nat /\ used <= Len(mem) /\ mem \in Seq(Bytes) /\ offset < used
  BY LenProperties DEF BufInv, gbDel
<1>2. mem' = f /\ used' = used - k /\ gbCall' = DeletionOf(Self, offset, n) /\ buffer' = buffer
  BY DEF gbDel
<1>3. k \in 0 .. used /\ k \in Nat /\ offset + k <= used
  BY <1>1 DEF Cut
<1>4. c \in Seq(Bytes) /\ Len(c) = used /\ \A i \in 1 .. used : c[i] = mem[i]
  BY ContentSeq
<1> DEFINE from == offset + k
<1>5. /\ from \in Nat /\ l \in Nat /\ from + l = used /\ from <= used /\ offset + l = used - k
      /\ from + l <= Len(mem) /\ offset + l <= Len(mem)
  BY <1>1, <1>3, SMTT(30)
<1> DEFINE g == Moved(mem, from, offset, l)
<1>6. f = g
  OBVIOUS
<1> HIDE DEF f, c
<1>9. SubSeq(c, offset + k + 1, used) = SubSeq(c, offset + n + 1, used)
  <2>1. CASE n > used - offset
    <3>1. SubSeq(c, offset + k + 1, used) = <<>> /\ SubSeq(c, offset + n + 1, used) = <<>>
      <4>1. k = used - offset
        BY <2>1 DEF Cut
      <4>2. offset + k + 1 \in Int /\ used < offset + k + 1
        BY <1>1, <4>1
      <4>3. offset + n + 1 \in Int /\ used < offset + n + 1
        BY <1>1, <2>1
      <4> HIDE DEF k
      <4> QED BY <1>1, <4>2, <4>3, SubSeqEmpty
    <3> QED BY <3>1
  <2>2. CASE ~(n > used - offset)
    BY <2>2 DEF Cut
  <2> QED BY <2>1, <2>2
<1> HIDE DEF k, l, from
<1>7. SameUpTo(from + l, c, mem)
  BY <1>4, <1>5 DEF SameUpTo
<1>8. /\ g \in Seq(Bytes) /\ Len(g) = Len(mem)
      /\ SubSeq(g, 1, offset + l) = SubSeq(c, 1, offset) \o SubSeq(c, from + 1, from + l)
  <2> DEFINE m == mem
             o == offset
  <2>1. /\ m \in Seq(Bytes) /\ c \in Seq(Bytes) /\ from \in Nat /\ o \in Nat /\ l \in Nat
        /\ o <= from /\ from + l <= Len(m) /\ from + l <= Len(c)
        /\ SameUpTo(from + l, c, m)
    BY <1>1, <1>3, <1>4, <1>5, <1>7 DEF from
  <2>2. g = Moved(m, from, o, l)
    OBVIOUS
  <2> HIDE DEF m, o, g
  <2>3. HasClosed(Bytes, Moved(m, from, o, l), m, c, from, o, l)
    BY <2>1, Closed
  <2> QED BY <2>2, <2>3 DEF HasClosed, m, o
<1> HIDE DEF g
<1>11. Content' = SubSeq(g, 1, offset + l)
  BY <1>2, <1>5, <1>6 DEF Content
<1>12. Content' = SubSeq(c, 1, offset) \o SubSeq(c, offset + n + 1, used)
  BY <1>5, <1>8, <1>9, <1>11 DEF from
<1>13. BufInv'
  BY <1>1, <1>2, <1>3, <1>6, <1>8 DEF BufInv
<1>14. offset \in 0 .. used
  BY <1>1
<1> QED BY <1>2, <1>12, <1>13, <1>14, DeleteBuf DEF c

LEMMA EnsureSound ==
  ASSUME BufInv, NEW n \in Nat, gbEnsureSize(n)
  PROVE  BufPromised
<1>1. mem' \in Ensured(n) /\ buffer' = TRUE /\ gbCall' = NoEdit /\ used' = used
  BY DEF gbEnsureSize
<1>2. /\ mem' \in Seq(Bytes) /\ Len(mem') \in Nat /\ Len(mem') <= MaxSize /\ used <= Len(mem')
      /\ \A i \in 1 .. used : mem'[i] = Content[i]
  BY <1>1, EnsuredSound
<1>3. Content \in Seq(Bytes) /\ Len(Content) = used /\ used \in Nat
  BY ContentSeq
<1>4. BufInv'
  BY <1>1, <1>2, <1>3 DEF BufInv
<1>5. Content' = SubSeq(mem', 1, used)
  BY <1>1 DEF Content
<1> DEFINE c == Content
           m == mem'
<1>6. SubSeq(m, 1, used) = SubSeq(c, 1, Len(c))
  <2>1. m \in Seq(Bytes) /\ c \in Seq(Bytes) /\ used <= Len(m) /\ Len(c) = used
    BY <1>2, <1>3
  <2>2. \A i \in 1 .. used : m[i] = c[i]
    BY <1>2
  <2> HIDE DEF c, m
  <2> QED BY <1>3, <2>1, <2>2, PrefixEqual
<1>7. Content' = Content
  BY <1>3, <1>5, <1>6, SubSeqFull
<1> QED BY <1>1, <1>4, <1>7, SameBuf

LEMMA ResetSound ==
  ASSUME BufInv, NEW free \in BOOLEAN, gbReset(free)
  PROVE  BufPromised
<1>1. /\ buffer' = (buffer /\ ~free) /\ mem' = (IF free THEN <<>> ELSE mem) /\ used' = 0
      /\ gbCall' = DeletionOf(Self, 0, used)
  BY DEF gbReset
<1>2. /\ <<>> \in Seq(Bytes) /\ Len(<<>>) = 0 /\ Len(mem) \in Nat /\ MaxSize \in Nat /\ used \in Nat
  BY LenProperties, GrowableBufferConstants DEF BufInv
<1>3. BufInv'
  BY <1>1, <1>2 DEF BufInv
<1>4. Content' = <<>>
  BY <1>1, SubSeqEmpty DEF Content
<1>5. SubSeq(Content, 1, 0) = <<>> /\ SubSeq(Content, 0 + used + 1, used) = <<>>
  BY <1>2, SubSeqEmpty
<1>6. <<>> \o <<>> = <<>>
  BY <1>2, ConcatEmptySeq
<1>7. 0 \in 0 .. used /\ used \in Nat
  BY <1>2
<1> QED BY <1>1, <1>3, <1>4, <1>5, <1>6, <1>7, DeleteBuf

LEMMA WipeSound ==
  ASSUME BufInv, gbWipe
  PROVE  BufPromised
<1> DEFINE f == [i \in DOMAIN mem |-> 0]
<1>1. mem' = f /\ gbCall' = WipeOf(Self, 0) /\ buffer' = buffer /\ used' = used
  BY DEF gbWipe
<1>2. /\ Len(mem) \in Nat /\ DOMAIN mem = 1 .. Len(mem) /\ used \in 0 .. Len(mem)
      /\ Len(mem) <= MaxSize /\ 0 \in Bytes
  BY LenProperties, GrowableBufferConstants DEF BufInv
<1>3. f \in [1 .. Len(mem) -> Bytes] /\ \A i \in 1 .. used : f[i] = 0
  BY <1>2
<1> HIDE DEF f
<1>4. f \in Seq(Bytes) /\ Len(f) = Len(mem)
  BY <1>2, <1>3, SeqIntro
<1>5. BufInv'
  BY <1>1, <1>2, <1>4 DEF BufInv
<1>6. Content \in Seq(Bytes) /\ Len(Content) = used /\ DOMAIN Content = 1 .. used
  BY ContentSeq, LenProperties
<1> DEFINE z == [i \in 1 .. used |-> 0]
           y == SubSeq(f, 1, used)
<1>7. Content' = y
  BY <1>1 DEF Content
<1>8. y \in Seq(Bytes) /\ Len(y) = used /\ \A i \in 1 .. used : y[i] = 0
  BY <1>2, <1>3, <1>4, PrefixSeq
<1>9. y = z
  <2>1. y \in [1 .. used -> Bytes]
    BY <1>8, LenProperties
  <2> HIDE DEF y
  <2> QED BY <1>8, <2>1
<1>10. Content' = [i \in DOMAIN Content |-> 0]
  BY <1>6, <1>7, <1>9
<1>11. gbCall'.kind = "wipe" /\ gbCall'.on = Self /\ gbCall'.value = 0
  BY <1>1 DEF WipeOf
<1>12. Buffer!Wipe
  BY <1>2, <1>10, <1>11 DEF Buffer!Wipe, Buffer!Becomes
<1> QED BY <1>5, <1>12 DEF BufPromised, Buffer!Next

LEMMA BufInit == gbInit => BufInv /\ Buffer!Init
<1> SUFFICES ASSUME gbInit PROVE BufInv /\ Buffer!Init
  OBVIOUS
<1>1. buffer = FALSE /\ mem = <<>> /\ used = 0 /\ gbCall = NoEdit
  BY DEF gbInit
<1>2. BufInv
  <2>1. <<>> \in Seq(Bytes) /\ Len(<<>>) = 0 /\ MaxSize \in Nat
    BY GrowableBufferConstants
  <2>2. used \in 0 .. Len(mem) /\ mem \in Seq(Bytes) /\ Len(mem) <= MaxSize /\ ~(used > 0)
    BY <1>1, <2>1
  <2> QED BY <1>1, <2>2, Zenon DEF BufInv
<1>3. Content = <<>>
  BY <1>1, SubSeqEmpty DEF Content
<1> QED BY <1>1, <1>2, <1>3 DEF Buffer!Init, Buffer!NoEdit, NoEdit

LEMMA BufNext ==
  ASSUME BufInv, gbNext
  PROVE  BufPromised
<1>1. \A n \in 0 .. MaxLen : n \in Nat
  BY GrowableBufferConstants
<1>2. ASSUME NEW n \in 0 .. MaxLen, gbEnsureSize(n)
      PROVE  BufPromised
  BY <1>1, <1>2, EnsureSound
<1>3. ASSUME UNCHANGED <<buffer, mem, used>>, gbCall' = NoEdit
      PROVE  BufPromised
  <2>1. BufInv' /\ Content' = Content
    BY <1>3 DEF BufInv, Content
  <2> QED BY <1>3, <2>1, SameBuf
<1>4. ASSUME NEW n \in 0 .. MaxLen, NEW offset \in Offsets, gbReserve(n, offset)
      PROVE  BufPromised
  BY <1>1, <1>4, ReserveSound DEF Offsets
<1>5. ASSUME NEW n \in 0 .. MaxLen, NEW offset \in Offsets, gbDel(offset, n)
      PROVE  BufPromised
  BY <1>1, <1>5, DelSound DEF Offsets
<1>6. ASSUME NEW data \in Data, NEW offset \in Offsets, gbAdd(data, offset)
      PROVE  BufPromised
  BY <1>1, <1>6, AddSound DEF Offsets
<1>7. ASSUME NEW free \in BOOLEAN, gbReset(free)
      PROVE  BufPromised
  BY <1>7, ResetSound
<1>8. ASSUME gbWipe
      PROVE  BufPromised
  BY <1>8, WipeSound
<1> QED
  BY <1>2, <1>3, <1>4, <1>5, <1>6, <1>7, <1>8
  DEF gbNext, NoMemory, ReserveFails, ReserveNothing

LEMMA BufStutter ==
  ASSUME BufInv, UNCHANGED gbVars
  PROVE  BufInv' /\ UNCHANGED <<[o \in {Self} |-> Content], gbCall>>
BY DEF BufInv, gbVars, Content

\* The used bytes of a growable buffer are within its allocation
\* (growable_buffer.cpp), for all chunk sizes, offsets and lengths, whatever fails.
THEOREM BufferWellFormed == gbSpec => []WellFormed
<1>1. BufInv => WellFormed
  BY ContentSeq, LenProperties DEF BufInv, WellFormed, gbTypeOK, UsedWithinSize
<1>2. BufInv /\ [gbNext]_gbVars => BufInv'
  BY BufNext, BufStutter DEF BufPromised
<1> QED BY <1>1, <1>2, BufInit, PTL DEF gbSpec

\* They are a sequence that is edited.
THEOREM BufferImplemented == gbSpec => BufferIsSequence
<1>1. BufInv /\ [gbNext]_gbVars => BufInv'
  BY BufNext, BufStutter DEF BufPromised
<1>2. BufInv /\ [gbNext]_gbVars => [Buffer!Next]_<<[o \in {Self} |-> Content], gbCall>>
  BY BufNext, BufStutter DEF BufPromised
<1> QED
  BY <1>1, <1>2, BufInit, PTL DEF gbSpec, BufferIsSequence, Buffer!Spec

-----------------------------------------------------------------------------
(* light_function *)

Objs == Funs \cup {Tmp}

FunFields == [vtable : Types \cup {Null}, heap : Blocks \cup {Null}, sbo : {0, 1, Null}]
BlockFields == [used : BOOLEAN, state : {0, 1, Null}]
Worlds == [fun : [Objs -> FunFields], block : [Blocks -> BlockFields], alive : Int]

HeldIn(w) == {f \in Objs : w.fun[f].vtable # Null}

\* What an object is worth: nothing, or its callable and the state it is in.
Worth(w, f) == IF w.fun[f].vtable = Null THEN Null ELSE <<w.fun[f].vtable, Storage(w, f)>>

\* An empty object is empty in all its fields; another one holds its callable either
\* in its bytes or in a block.
ObjectsSound(w) ==
  \A f \in Objs :
    /\ w.fun[f].vtable = Null => w.fun[f].heap = Null /\ w.fun[f].sbo = Null
    /\ w.fun[f].vtable # Null /\ w.fun[f].heap = Null => w.fun[f].sbo \in {0, 1}
    /\ w.fun[f].heap # Null => w.fun[f].sbo = Null

\* An object has its block for itself, and every block in use has an object.
BlocksSound(w) ==
  /\ \A f \in Objs : w.fun[f].heap # Null =>
       w.block[w.fun[f].heap].used /\ w.block[w.fun[f].heap].state \in {0, 1}
  /\ \A f, g \in Objs : w.fun[f].heap # Null /\ w.fun[f].heap = w.fun[g].heap => f = g
  /\ \A b \in Blocks : w.block[b].used => \E f \in Objs : w.fun[f].heap = b

CountSound(w) == IsFiniteSet(HeldIn(w)) /\ w.alive = Cardinality(HeldIn(w))

FunSound(w) == w \in Worlds /\ ObjectsSound(w) /\ BlocksSound(w) /\ CountSound(w)

\* From w to x only the objects of S may change what they are worth.
KeepsOthers(w, x, S) == \A h \in Objs \ S : Worth(x, h) = Worth(w, h)

LEMMA NoTypes ==
  NoFunction \in FunFields /\ NoBlock \in BlockFields
  BY DEF NoFunction, NoBlock, FunFields, BlockFields

LEMMA WorldIntro ==
  ASSUME NEW x, x = [fun |-> x.fun, block |-> x.block, alive |-> x.alive],
         x.fun \in [Objs -> FunFields], x.block \in [Blocks -> BlockFields], x.alive \in Int
  PROVE  x \in Worlds
  BY DEF Worlds

-----------------------------------------------------------------------------
(* The private steps *)

LEMMA DestroyedSound ==
  ASSUME NEW w, FunSound(w), NEW f \in Objs
  PROVE  /\ FunSound(Destroyed(w, f))
         /\ Destroyed(w, f).fun[f].vtable = Null
         /\ KeepsOthers(w, Destroyed(w, f), {f})
<1> DEFINE x == Destroyed(w, f)
<1>1. CASE w.fun[f].vtable = Null
  BY <1>1 DEF Destroyed, KeepsOthers
<1>2. CASE w.fun[f].vtable # Null
  <2>1. w \in Worlds /\ ObjectsSound(w) /\ BlocksSound(w) /\ CountSound(w)
    BY DEF FunSound
  <2>2. x.fun[f].vtable = Null /\ x.fun[f].heap = Null /\ x.fun[f].sbo = Null
    BY <1>2, <2>1 DEF Destroyed, Worlds, NoFunction, ObjectsSound, FunFields
  <2>3. \A h \in Objs \ {f} : x.fun[h] = w.fun[h]
    BY <1>2, <2>1 DEF Destroyed, Worlds
  <2>4. /\ \A b \in Blocks : b # w.fun[f].heap => x.block[b] = w.block[b]
        /\ w.fun[f].heap # Null => ~x.block[w.fun[f].heap].used
    BY <1>2, <2>1 DEF Destroyed, Worlds, FunFields, NoBlock
  <2>5. x.alive = w.alive - 1
    BY <1>2, <2>1 DEF Destroyed, Worlds
  <2>6. x \in Worlds
    <3>1. x.fun \in [Objs -> FunFields]
      BY <1>2, <2>1, NoTypes DEF Destroyed, Worlds, FunFields
    <3>2. x.block \in [Blocks -> BlockFields]
      BY <1>2, <2>1, NoTypes DEF Destroyed, Worlds
    <3>3. x = [fun |-> x.fun, block |-> x.block, alive |-> x.alive]
      BY <1>2, <2>1 DEF Destroyed, Worlds
    <3>4. x.alive \in Int
      BY <2>1, <2>5 DEF Worlds
    <3> HIDE DEF x
    <3> QED BY <3>1, <3>2, <3>3, <3>4, WorldIntro
  <2> HIDE DEF x
  <2>7. ObjectsSound(x)
    BY <2>1, <2>2, <2>3 DEF ObjectsSound
  <2>8. BlocksSound(x)
    <3>1. \A h \in Objs : x.fun[h].heap # Null =>
            /\ h # f /\ x.fun[h].heap = w.fun[h].heap
            /\ x.fun[h].heap \in Blocks /\ x.fun[h].heap # w.fun[f].heap
      BY <2>1, <2>2, <2>3 DEF BlocksSound, Worlds, FunFields
    <3>2. \A b \in Blocks : x.block[b].used => b # w.fun[f].heap /\ w.block[b].used
      BY <2>4, LightFunctionConstants
    <3> QED BY <2>1, <2>2, <2>3, <2>4, <3>1, <3>2 DEF BlocksSound
  <2>9. CountSound(x)
    <3>1. HeldIn(x) = HeldIn(w) \ {f} /\ f \in HeldIn(w)
      BY <1>2, <2>2, <2>3 DEF HeldIn
    <3> QED BY <2>1, <2>5, <3>1, FS_RemoveElement DEF CountSound
  <2>10. KeepsOthers(w, x, {f})
    <3>1. ASSUME NEW h \in Objs \ {f}
          PROVE  Worth(x, h) = Worth(w, h)
      BY <2>1, <2>3, <2>4 DEF Worth, Storage, BlocksSound, Worlds, FunFields
    <3> QED BY <3>1 DEF KeepsOthers
  <2> QED BY <2>2, <2>6, <2>7, <2>8, <2>9, <2>10 DEF FunSound, x
<1> QED BY <1>1, <1>2

LEMMA StoredSound ==
  ASSUME NEW w, FunSound(w), NEW f \in Objs, w.fun[f].vtable = Null,
         NEW t \in Types, NEW c \in {0, 1}, NEW b \in FreeBlocks(w) \cup {Null}
  PROVE  /\ FunSound(Stored(w, f, t, c, b))
         /\ Worth(Stored(w, f, t, c, b), f) = <<t, c>>
         /\ KeepsOthers(w, Stored(w, f, t, c, b), {f})
<1> DEFINE x == Stored(w, f, t, c, b)
<1>1. w \in Worlds /\ ObjectsSound(w) /\ BlocksSound(w) /\ CountSound(w)
  BY DEF FunSound
<1>2. /\ w.fun[f].heap = Null /\ w.fun[f].sbo = Null
      /\ b # Null => b \in Blocks /\ ~w.block[b].used
  BY <1>1 DEF ObjectsSound, FreeBlocks
<1>3. /\ x.fun[f].vtable = t /\ x.fun[f].heap = b
      /\ x.fun[f].sbo = IF b = Null THEN c ELSE Null
  BY <1>1, <1>2 DEF Stored, Worlds, FunFields
<1>4. \A h \in Objs \ {f} : x.fun[h] = w.fun[h]
  BY <1>1 DEF Stored, Worlds
<1>5. /\ \A d \in Blocks \ {b} : x.block[d] = w.block[d]
      /\ b # Null => x.block[b].used /\ x.block[b].state = c
  BY <1>1, <1>2 DEF Stored, Worlds
<1>6. x.alive = w.alive + 1
  BY <1>1 DEF Stored, Worlds
<1>7. x \in Worlds
  <2>1. x.fun \in [Objs -> FunFields]
    <3> DEFINE r == IF b = Null THEN [vtable |-> t, heap |-> Null, sbo |-> c]
                    ELSE [w.fun[f] EXCEPT !.vtable = t, !.heap = b]
    <3>1. w.fun \in [Objs -> FunFields] /\ w.fun[f] \in FunFields
      BY <1>1 DEF Worlds
    <3>2. r \in FunFields
      BY <1>2, <3>1 DEF FunFields
    <3>3. x.fun = [w.fun EXCEPT ![f] = r]
      BY <1>1, <3>1 DEF Stored, Worlds
    <3> HIDE DEF r
    <3> QED BY <3>1, <3>2, <3>3
  <2>2. x.block \in [Blocks -> BlockFields]
    BY <1>1, <1>2 DEF Stored, Worlds, BlockFields
  <2>3. x = [fun |-> x.fun, block |-> x.block, alive |-> x.alive]
    BY <1>1 DEF Stored, Worlds
  <2>4. x.alive \in Int
    BY <1>1, <1>6 DEF Worlds
  <2> HIDE DEF x
  <2> QED BY <2>1, <2>2, <2>3, <2>4, WorldIntro
<1> HIDE DEF x
<1>8. t # Null /\ c # Null
  BY LightFunctionConstants
<1>9. ObjectsSound(x)
  BY <1>1, <1>3, <1>4, <1>8 DEF ObjectsSound
<1>10. \A h \in Objs \ {f} : w.fun[h].heap # Null =>
         w.fun[h].heap \in Blocks \ {b} /\ w.block[w.fun[h].heap].used
  BY <1>1, <1>2 DEF BlocksSound, Worlds, FunFields
<1>11. BlocksSound(x)
  <2>1. \A h \in Objs : x.fun[h].heap # Null =>
          x.block[x.fun[h].heap].used /\ x.block[x.fun[h].heap].state \in {0, 1}
    BY <1>1, <1>3, <1>4, <1>5, <1>10 DEF BlocksSound
  <2>2. \A h, g \in Objs : x.fun[h].heap # Null /\ x.fun[h].heap = x.fun[g].heap => h = g
    BY <1>1, <1>3, <1>4, <1>10 DEF BlocksSound
  <2>3. ASSUME NEW d \in Blocks, x.block[d].used
        PROVE  \E h \in Objs : x.fun[h].heap = d
    <3>1. CASE d = b
      BY <1>3, <3>1
    <3>2. CASE d # b
      <4>1. PICK h \in Objs : w.fun[h].heap = d
        BY <1>1, <1>5, <2>3, <3>2 DEF BlocksSound
      <4>2. h # f
        BY <1>2, <4>1, LightFunctionConstants
      <4> QED BY <1>4, <4>1, <4>2
    <3> QED BY <3>1, <3>2
  <2> QED BY <2>1, <2>2, <2>3 DEF BlocksSound
<1>12. CountSound(x)
  <2>1. HeldIn(x) = HeldIn(w) \cup {f} /\ f \notin HeldIn(w)
    BY <1>3, <1>4, <1>8 DEF HeldIn
  <2> QED BY <1>1, <1>6, <2>1, FS_AddElement DEF CountSound
<1>13. Worth(x, f) = <<t, c>>
  BY <1>3, <1>5, <1>8 DEF Worth, Storage
<1>14. ASSUME NEW h \in Objs \ {f}
       PROVE  Worth(x, h) = Worth(w, h)
  BY <1>4, <1>5, <1>10 DEF Worth, Storage
<1> QED BY <1>7, <1>9, <1>11, <1>12, <1>13, <1>14 DEF FunSound, KeepsOthers, x

LEMMA MovedFromSound ==
  ASSUME NEW w, FunSound(w), NEW f \in Objs, NEW g \in Objs, f # g, w.fun[f].vtable = Null
  PROVE  /\ FunSound(MovedFrom(w, f, g))
         /\ Worth(MovedFrom(w, f, g), f) = Worth(w, g)
         /\ MovedFrom(w, f, g).fun[g].vtable = Null
         /\ KeepsOthers(w, MovedFrom(w, f, g), {f, g})
<1> DEFINE x == MovedFrom(w, f, g)
<1>1. w \in Worlds /\ ObjectsSound(w) /\ BlocksSound(w) /\ CountSound(w)
  BY DEF FunSound
<1>2. CASE w.fun[g].vtable = Null
  BY <1>1, <1>2 DEF MovedFrom, KeepsOthers, Worth
<1>3. CASE w.fun[g].vtable # Null
  <2>1. w.fun[f].heap = Null /\ w.fun[f].sbo = Null
    BY <1>1 DEF ObjectsSound
  <2>2. /\ x.fun[f].vtable = w.fun[g].vtable /\ x.fun[f].heap = w.fun[g].heap
        /\ x.fun[f].sbo = w.fun[g].sbo
    <3>1. CASE w.fun[g].heap # Null
      <4>1. w.fun[g].sbo = Null
        BY <1>1, <3>1, SMTT(30) DEF ObjectsSound
      <4> QED BY <1>1, <1>3, <2>1, <3>1, <4>1 DEF MovedFrom, Stolen, Worlds, FunFields
    <3>2. CASE w.fun[g].heap = Null
      BY <1>1, <1>3, <2>1, <3>2, SMTT(30) DEF MovedFrom, MovedInPlace, Worlds, FunFields
    <3> QED BY <3>1, <3>2
  <2>3. x.fun[g].vtable = Null /\ x.fun[g].heap = Null /\ x.fun[g].sbo = Null
    BY <1>1, <1>3, SMTT(30) DEF MovedFrom, Stolen, MovedInPlace, Worlds, FunFields, ObjectsSound
  <2>4. \A h \in Objs \ {f, g} : x.fun[h] = w.fun[h]
    BY <1>1, <1>3 DEF MovedFrom, Stolen, MovedInPlace, Worlds
  <2>5. x.block = w.block /\ x.alive = w.alive
    BY <1>1, <1>3 DEF MovedFrom, Stolen, MovedInPlace, Worlds
  <2>6. x \in Worlds
    <3>1. x.fun \in [Objs -> FunFields]
      <4>1. CASE w.fun[g].heap # Null
        BY <1>1, <1>3, <4>1, SMTT(30) DEF MovedFrom, Stolen, Worlds, FunFields
      <4>2. CASE w.fun[g].heap = Null
        BY <1>1, <1>3, <4>2, SMTT(30) DEF MovedFrom, MovedInPlace, Worlds, FunFields
      <4> QED BY <4>1, <4>2
    <3>2. x = [fun |-> x.fun, block |-> x.block, alive |-> x.alive]
      BY <1>1, <1>3 DEF MovedFrom, Stolen, MovedInPlace, Worlds
    <3> HIDE DEF x
    <3> QED BY <1>1, <2>5, <3>1, <3>2, WorldIntro DEF Worlds
  <2> HIDE DEF x
  <2>7. ObjectsSound(x)
    BY <1>1, <2>2, <2>3, <2>4 DEF ObjectsSound
  <2>8. BlocksSound(x)
    BY <1>1, <2>1, <2>2, <2>3, <2>4, <2>5, SMTT(30) DEF BlocksSound
  <2>9. CountSound(x)
    <3>1. /\ HeldIn(x) = (HeldIn(w) \ {g}) \cup {f}
          /\ g \in HeldIn(w) /\ f \notin HeldIn(w) \ {g}
      BY <1>3, <2>2, <2>3, <2>4 DEF HeldIn
    <3>2. /\ IsFiniteSet(HeldIn(w) \ {g})
          /\ Cardinality(HeldIn(w) \ {g}) = Cardinality(HeldIn(w)) - 1
      BY <1>1, <3>1, FS_RemoveElement DEF CountSound
    <3>3. Cardinality(HeldIn(w)) \in Nat
      BY <1>1, FS_CardinalityType DEF CountSound
    <3> QED BY <1>1, <2>5, <3>1, <3>2, <3>3, FS_AddElement DEF CountSound
  <2>10. Worth(x, f) = Worth(w, g)
    BY <2>2, <2>5 DEF Worth, Storage
  <2>11. KeepsOthers(w, x, {f, g})
    BY <2>4, <2>5 DEF KeepsOthers, Worth, Storage
  <2> QED BY <2>3, <2>6, <2>7, <2>8, <2>9, <2>10, <2>11 DEF FunSound, x
<1> QED BY <1>2, <1>3

LEMMA MoveAssignedSound ==
  ASSUME NEW w, FunSound(w), NEW f \in Objs, NEW g \in Objs, f # g
  PROVE  /\ FunSound(MoveAssigned(w, f, g))
         /\ Worth(MoveAssigned(w, f, g), f) = Worth(w, g)
         /\ MoveAssigned(w, f, g).fun[g].vtable = Null
         /\ KeepsOthers(w, MoveAssigned(w, f, g), {f, g})
<1> DEFINE d == Destroyed(w, f)
           x == MovedFrom(d, f, g)
<1>1. FunSound(d) /\ d.fun[f].vtable = Null /\ KeepsOthers(w, d, {f})
  BY DestroyedSound
<1>2. MoveAssigned(w, f, g) = x
  BY DEF MoveAssigned
<1> HIDE DEF d
<1>3. /\ FunSound(x) /\ Worth(x, f) = Worth(d, g) /\ x.fun[g].vtable = Null
      /\ KeepsOthers(d, x, {f, g})
  BY <1>1, MovedFromSound
<1> HIDE DEF x
<1>4. Worth(x, f) = Worth(w, g) /\ KeepsOthers(w, x, {f, g})
  BY <1>1, <1>3 DEF KeepsOthers
<1> QED BY <1>2, <1>3, <1>4

\* The three moves of swap, through the temporary object, also of an object with itself.
LEMMA SwappedSound ==
  ASSUME NEW w, FunSound(w), NEW f \in Funs, NEW g \in Funs, w.fun[Tmp].vtable = Null
  PROVE  /\ FunSound(Swapped(w, f, g))
         /\ Worth(Swapped(w, f, g), f) = Worth(w, g)
         /\ Worth(Swapped(w, f, g), g) = Worth(w, f)
         /\ Swapped(w, f, g).fun[Tmp].vtable = Null
         /\ KeepsOthers(w, Swapped(w, f, g), {f, g, Tmp})
<1> DEFINE a == MovedFrom(w, Tmp, g)
           b == MoveAssigned(a, g, f)
           c == MoveAssigned(b, f, Tmp)
           x == Destroyed(c, Tmp)
<1>1. f \in Objs /\ g \in Objs /\ Tmp \in Objs /\ f # Tmp /\ g # Tmp
  BY LightFunctionConstants DEF Objs
<1>2. /\ FunSound(a) /\ Worth(a, Tmp) = Worth(w, g) /\ a.fun[g].vtable = Null
      /\ KeepsOthers(w, a, {Tmp, g})
  BY <1>1, MovedFromSound
<1>3. Swapped(w, f, g) = x
  BY DEF Swapped
<1> HIDE DEF a
<1>4. /\ FunSound(b)
      /\ f = g => b = a
      /\ f # g => Worth(b, g) = Worth(a, f) /\ KeepsOthers(a, b, {f, g})
  BY <1>1, <1>2, MoveAssignedSound DEF MoveAssigned
<1> HIDE DEF b
<1>5. /\ FunSound(c) /\ Worth(c, f) = Worth(b, Tmp)
      /\ c.fun[Tmp].vtable = Null /\ KeepsOthers(b, c, {f, Tmp})
  BY <1>1, <1>2, <1>4, MoveAssignedSound
<1>6. FunSound(x) /\ x.fun[Tmp].vtable = Null /\ KeepsOthers(c, x, {Tmp})
  BY <1>1, <1>5, DestroyedSound
<1> HIDE DEF c, x
<1>7. Worth(x, f) = Worth(w, g)
  BY <1>1, <1>2, <1>4, <1>5, <1>6 DEF KeepsOthers
<1>8. Worth(x, g) = Worth(w, f)
  BY <1>1, <1>2, <1>4, <1>5, <1>6, <1>7 DEF KeepsOthers
<1>9. KeepsOthers(w, x, {f, g, Tmp})
  BY <1>1, <1>2, <1>4, <1>5, <1>6 DEF KeepsOthers
<1> QED BY <1>3, <1>6, <1>7, <1>8, <1>9

\* A copy, into an object that is empty.
LEMMA CopiedFromSound ==
  ASSUME NEW w, FunSound(w), NEW f \in Objs, NEW g \in Objs, f # g, w.fun[f].vtable = Null,
         NEW b \in CopyPlaces(w, g)
  PROVE  /\ FunSound(CopiedFrom(w, f, g, b))
         /\ Worth(CopiedFrom(w, f, g, b), f) = Worth(w, g)
         /\ KeepsOthers(w, CopiedFrom(w, f, g, b), {f})
<1>1. CASE w.fun[g].vtable = Null
  BY <1>1 DEF CopiedFrom, KeepsOthers, Worth
<1>2. CASE w.fun[g].vtable # Null
  <2> DEFINE t == w.fun[g].vtable
             c == Storage(w, g)
  <2>1. t \in Types /\ c \in {0, 1}
    BY <1>2 DEF FunSound, Worlds, FunFields, ObjectsSound, BlocksSound, Storage
  <2>2. b \in FreeBlocks(w) \cup {Null}
    BY DEF CopyPlaces
  <2>3. CopiedFrom(w, f, g, b) = Stored(w, f, t, c, b) /\ Worth(w, g) = <<t, c>>
    BY <1>2 DEF CopiedFrom, Worth
  <2> HIDE DEF t, c
  <2>4. /\ FunSound(Stored(w, f, t, c, b)) /\ Worth(Stored(w, f, t, c, b), f) = <<t, c>>
        /\ KeepsOthers(w, Stored(w, f, t, c, b), {f})
    BY <2>1, <2>2, StoredSound, ZenonT(60)
  <2> QED BY <2>3, <2>4
<1> QED BY <1>1, <1>2

-----------------------------------------------------------------------------
(* The operations, on the world and on the values *)

FunInv == FunSound(World) /\ fun[Tmp].vtable = Null

Vals(w) == [f \in Funs |-> Worth(w, f)]

\* Only the empty object is worth Null.
LEMMA EmptyWorth ==
  ASSUME NEW w, FunSound(w), NEW f \in Objs
  PROVE  Worth(w, f) = Null <=> w.fun[f].vtable = Null
<1>1. CASE w.fun[f].vtable = Null
  BY <1>1 DEF Worth
<1>2. CASE w.fun[f].vtable # Null
  <2>1. w.fun[f].vtable \in Types /\ Storage(w, f) \in {0, 1}
    BY <1>2 DEF FunSound, Worlds, FunFields, ObjectsSound, BlocksSound, Storage
  <2> QED BY <1>2, <2>1, LightFunctionConstants DEF Worth
<1> QED BY <1>1, <1>2

\* A call that leaves the world x behind, with another value of one object ...
LEMMA OneValueCall ==
  ASSUME FunInv, NEW x, FunSound(x), To(x), NEW f \in Funs, KeepsOthers(World, x, {f})
  PROVE  FunInv' /\ Vals(World)' = [Vals(World) EXCEPT ![f] = Worth(x, f)]
<1>1. World' = x
  BY DEF To, World, FunSound, Worlds
<1>2. Tmp \in Objs \ {f} /\ FunSound(World)
  BY LightFunctionConstants DEF Objs, FunInv
<1>3. Worth(World, Tmp) = Null
  BY DEF FunInv, Worth, World
<1>4. x.fun[Tmp].vtable = Null
  BY <1>2, <1>3, EmptyWorth DEF KeepsOthers
<1>5. FunInv'
  <2>1. FunInv' <=> FunSound(World') /\ fun'[Tmp].vtable = Null
    BY DEF FunInv
  <2> QED BY <1>1, <1>4, <2>1 DEF To
<1>6. Vals(x) = [Vals(World) EXCEPT ![f] = Worth(x, f)]
  BY DEF Vals, KeepsOthers, Objs
<1> QED BY <1>1, <1>5, <1>6

\* ... or of two.
LEMMA TwoValuesCall ==
  ASSUME FunInv, NEW x, FunSound(x), To(x), NEW f \in Funs, NEW g \in Funs,
         KeepsOthers(World, x, {f, g, Tmp}), x.fun[Tmp].vtable = Null
  PROVE  /\ FunInv'
         /\ Vals(World)' = [Vals(World) EXCEPT ![f] = Worth(x, f), ![g] = Worth(x, g)]
<1>1. World' = x
  BY DEF To, World, FunSound, Worlds
<1>2. FunInv'
  <2>1. FunInv' <=> FunSound(World') /\ fun'[Tmp].vtable = Null
    BY DEF FunInv
  <2> QED BY <1>1, <2>1 DEF To
<1>3. Vals(x) = [Vals(World) EXCEPT ![f] = Worth(x, f), ![g] = Worth(x, g)]
  BY LightFunctionConstants DEF Vals, KeepsOthers, Objs
<1> QED BY <1>1, <1>2, <1>3

\* Assignment and construction.
LEMMA AssignStep ==
  ASSUME FunInv, NEW f \in Funs, NEW t \in Types, NEW c \in {0, 1}, Assign(f, t, c)
  PROVE  FunInv' /\ Vals(World)' = [Vals(World) EXCEPT ![f] = <<t, c>>]
<1> DEFINE d == Destroyed(World, f)
<1>1. f \in Objs
  BY DEF Objs
<1>2. FunSound(d) /\ d.fun[f].vtable = Null /\ KeepsOthers(World, d, {f})
  BY <1>1, DestroyedSound DEF FunInv
<1>3. PICK b \in Places(d, t) : To(Stored(d, f, t, c, b))
  BY DEF Assign
<1> DEFINE x == Stored(d, f, t, c, b)
<1> HIDE DEF d
<1>4. b \in FreeBlocks(d) \cup {Null}
  BY <1>3 DEF Places
<1>5. FunSound(x) /\ Worth(x, f) = <<t, c>> /\ KeepsOthers(d, x, {f})
  BY <1>1, <1>2, <1>4, StoredSound, ZenonT(60)
<1>6. To(x)
  BY <1>3
<1> HIDE DEF x
<1>7. KeepsOthers(World, x, {f})
  BY <1>2, <1>5 DEF KeepsOthers
<1> QED BY <1>5, <1>6, <1>7, OneValueCall

LEMMA CopyAssignStep ==
  ASSUME FunInv, NEW f \in Funs, NEW g \in Funs, CopyAssign(f, g)
  PROVE  FunInv' /\ Vals(World)' = [Vals(World) EXCEPT ![f] = Worth(World, g)]
<1> DEFINE d == Destroyed(World, f)
<1>1. f \in Objs /\ g \in Objs /\ f # g
  BY DEF Objs, CopyAssign
<1>2. FunSound(d) /\ d.fun[f].vtable = Null /\ KeepsOthers(World, d, {f})
  BY <1>1, DestroyedSound DEF FunInv
<1>3. PICK b \in CopyPlaces(d, g) : To(CopiedFrom(d, f, g, b))
  BY DEF CopyAssign
<1> DEFINE x == CopiedFrom(d, f, g, b)
<1> HIDE DEF d
<1>4. FunSound(x) /\ Worth(x, f) = Worth(d, g) /\ KeepsOthers(d, x, {f})
  BY <1>1, <1>2, <1>3, CopiedFromSound
<1>5. To(x)
  BY <1>3
<1> HIDE DEF x
<1>6. Worth(x, f) = Worth(World, g) /\ KeepsOthers(World, x, {f})
  BY <1>1, <1>2, <1>4 DEF KeepsOthers
<1> QED BY <1>4, <1>5, <1>6, OneValueCall

LEMMA FunctionMoveStep ==
  ASSUME FunInv, NEW f \in Funs, NEW g \in Funs, f # g, FunctionMove(f, g)
  PROVE  FunInv' /\ Vals(World)' = [Vals(World) EXCEPT ![f] = Worth(World, g), ![g] = Null]
<1> DEFINE x == MoveAssigned(World, f, g)
<1>1. f \in Objs /\ g \in Objs /\ Tmp \in Objs /\ f # Tmp /\ g # Tmp
  BY LightFunctionConstants DEF Objs
<1>2. /\ FunSound(x) /\ Worth(x, f) = Worth(World, g) /\ x.fun[g].vtable = Null
      /\ KeepsOthers(World, x, {f, g})
  BY <1>1, MoveAssignedSound DEF FunInv
<1>3. To(x)
  BY DEF FunctionMove
<1> HIDE DEF x
<1>4. Worth(x, g) = Null /\ Worth(World, Tmp) = Null /\ FunSound(World)
  BY <1>2 DEF Worth, FunInv, World
<1>5. x.fun[Tmp].vtable = Null
  BY <1>1, <1>2, <1>4, EmptyWorth DEF KeepsOthers
<1>6. KeepsOthers(World, x, {f, g, Tmp})
  BY <1>2 DEF KeepsOthers
<1>7. /\ FunInv'
      /\ Vals(World)' = [Vals(World) EXCEPT ![f] = Worth(x, f), ![g] = Worth(x, g)]
  BY <1>2, <1>3, <1>5, <1>6, TwoValuesCall
<1> QED BY <1>2, <1>4, <1>7

\* Assignment of nullptr, and destruction.
LEMMA ResetStep ==
  ASSUME FunInv, NEW f \in Funs, ResetFunction(f)
  PROVE  FunInv' /\ Vals(World)' = [Vals(World) EXCEPT ![f] = Null]
<1> DEFINE x == Destroyed(World, f)
<1>1. f \in Objs
  BY DEF Objs
<1>2. FunSound(x) /\ x.fun[f].vtable = Null /\ KeepsOthers(World, x, {f})
  BY <1>1, DestroyedSound DEF FunInv
<1>3. To(x)
  BY DEF ResetFunction
<1> HIDE DEF x
<1>4. Worth(x, f) = Null
  BY <1>2 DEF Worth
<1> QED BY <1>2, <1>3, <1>4, OneValueCall

LEMMA SwapStep ==
  ASSUME FunInv, NEW f \in Funs, NEW g \in Funs, Swap(f, g)
  PROVE  /\ FunInv'
         /\ Vals(World)' =
              [Vals(World) EXCEPT ![f] = Worth(World, g), ![g] = Worth(World, f)]
<1> DEFINE x == Swapped(World, f, g)
<1>1. /\ FunSound(x) /\ Worth(x, f) = Worth(World, g) /\ Worth(x, g) = Worth(World, f)
      /\ x.fun[Tmp].vtable = Null /\ KeepsOthers(World, x, {f, g, Tmp})
  <2>1. FunSound(World) /\ World.fun[Tmp].vtable = Null
    BY DEF FunInv, World
  <2> QED BY <2>1, SwappedSound
<1>2. To(x)
  BY DEF Swap
<1> HIDE DEF x
<1> QED BY <1>1, <1>2, TwoValuesCall

\* A call changes the state of the callable, where it is.
LEMMA InvokeStep ==
  ASSUME FunInv, NEW f \in Funs, Invoke(f)
  PROVE  /\ FunInv'
         /\ Vals(World)' = [Vals(World) EXCEPT ![f] = AfterCall(Worth(World, f))]
<1> DEFINE x == [fun |-> fun', block |-> block', alive |-> alive']
           s == Storage(World, f)
           t == fun[f].vtable
<1>1. /\ FunSound(World) /\ World \in Worlds
      /\ ObjectsSound(World) /\ BlocksSound(World) /\ CountSound(World)
      /\ World.fun = fun /\ World.block = block /\ World.alive = alive
  BY DEF FunInv, FunSound, World
<1>2. /\ f \in Objs /\ t # Null
      /\ fun \in [Objs -> FunFields] /\ block \in [Blocks -> BlockFields] /\ alive \in Int
  BY <1>1 DEF Objs, Worlds, Invoke
<1>3. s \in {0, 1} /\ Worth(World, f) = <<t, s>>
  BY <1>1, <1>2 DEF ObjectsSound, BlocksSound, Storage, Worth
<1>4. To(x) /\ x.fun = fun' /\ x.block = block' /\ x.alive = alive' /\ alive' = alive
  BY DEF To, Invoke
<1>5. /\ x \in Worlds /\ ObjectsSound(x) /\ BlocksSound(x) /\ CountSound(x)
      /\ Worth(x, f) = <<t, 1 - s>> /\ KeepsOthers(World, x, {f})
  <2>1. CASE fun[f].heap # Null
    <3> DEFINE b == fun[f].heap
    <3>1. /\ b \in Blocks /\ s = block[b].state
          /\ fun' = fun /\ block' = [block EXCEPT ![b].state = 1 - @]
      BY <1>1, <1>2, <2>1 DEF Storage, FunFields, Invoke
    <3>2. /\ block' \in [Blocks -> BlockFields]
          /\ block'[b].state = 1 - s
          /\ \A d \in Blocks \ {b} : block'[d] = block[d]
          /\ \A d \in Blocks : block'[d].used = block[d].used
      BY <1>2, <1>3, <3>1 DEF BlockFields
    <3>3. x \in Worlds
      BY <1>2, <1>4, <3>1, <3>2, WorldIntro
    <3>4. ObjectsSound(x) /\ CountSound(x)
      BY <1>1, <1>4, <3>1 DEF ObjectsSound, CountSound, HeldIn
    <3> HIDE DEF x, s, b
    <3>5. \A h \in Objs : fun[h].heap # Null =>
            fun[h].heap \in Blocks /\ (h # f => fun[h].heap # b)
      BY <1>1, <1>2, <2>1 DEF BlocksSound, FunFields, b
    <3>6. BlocksSound(x)
      BY <1>1, <1>3, <1>4, <3>1, <3>2, <3>5 DEF BlocksSound
    <3>7. Worth(x, f) = <<t, 1 - s>>
      BY <1>2, <1>4, <2>1, <3>1, <3>2 DEF Worth, Storage, b
    <3>8. KeepsOthers(World, x, {f})
      BY <1>1, <1>4, <3>1, <3>2, <3>5 DEF KeepsOthers, Worth, Storage
    <3> QED BY <3>3, <3>4, <3>6, <3>7, <3>8
  <2>2. CASE fun[f].heap = Null
    <3>1. s = fun[f].sbo /\ block' = block /\ fun' = [fun EXCEPT ![f].sbo = 1 - @]
      BY <1>1, <2>2 DEF Storage, Invoke
    <3>2. /\ fun' \in [Objs -> FunFields]
          /\ fun'[f].vtable = t /\ fun'[f].heap = Null /\ fun'[f].sbo = 1 - s
          /\ \A h \in Objs \ {f} : fun'[h] = fun[h]
      BY <1>2, <1>3, <2>2, <3>1 DEF FunFields
    <3>3. x \in Worlds
      BY <1>2, <1>4, <3>1, <3>2, WorldIntro
    <3> HIDE DEF x, s
    <3>4. ObjectsSound(x)
      BY <1>1, <1>2, <1>3, <1>4, <3>2 DEF ObjectsSound
    <3>5. BlocksSound(x)
      BY <1>1, <1>4, <2>2, <3>1, <3>2 DEF BlocksSound
    <3>6. CountSound(x)
      <4>1. HeldIn(x) = HeldIn(World)
        BY <1>1, <1>2, <1>4, <3>2 DEF HeldIn
      <4> QED BY <1>1, <1>4, <4>1 DEF CountSound
    <3>7. Worth(x, f) = <<t, 1 - s>>
      BY <1>2, <1>4, <3>2 DEF Worth, Storage
    <3>8. KeepsOthers(World, x, {f})
      BY <1>1, <1>4, <3>1, <3>2 DEF KeepsOthers, Worth, Storage
    <3> QED BY <3>3, <3>4, <3>5, <3>6, <3>7, <3>8
  <2> QED BY <2>1, <2>2
<1>6. AfterCall(Worth(World, f)) = <<t, 1 - s>>
  BY <1>3 DEF AfterCall
<1> HIDE DEF x, s, t
<1> QED BY <1>4, <1>5, <1>6, OneValueCall DEF FunSound

-----------------------------------------------------------------------------
(* The results *)

LEMMA FunInit == FunctionInit => FunInv /\ Vals(World) = [f \in Funs |-> Null]
<1> SUFFICES ASSUME FunctionInit
             PROVE  FunInv /\ Vals(World) = [f \in Funs |-> Null]
  OBVIOUS
<1>1. /\ World.fun = [f \in Objs |-> NoFunction] /\ World.alive = 0
      /\ World.block = [b \in Blocks |-> NoBlock]
  BY DEF FunctionInit, World, Objs
<1>2. World \in Worlds
  BY <1>1, NoTypes, WorldIntro DEF World
<1>3. HeldIn(World) = {} /\ ObjectsSound(World) /\ BlocksSound(World)
  BY <1>1 DEF HeldIn, ObjectsSound, BlocksSound, NoFunction, NoBlock
<1>4. CountSound(World)
  BY <1>1, <1>3, FS_EmptySet DEF CountSound
<1>5. fun[Tmp].vtable = Null
  BY <1>1 DEF World, Objs, NoFunction
<1> QED BY <1>1, <1>2, <1>3, <1>4, <1>5 DEF FunInv, FunSound, Vals, Worth, NoFunction, Objs

\* The values as ActsAsValue writes them.
ValueNow ==
  [f \in Funs |-> IF fun[f].vtable = Null THEN Null ELSE <<fun[f].vtable, Storage(World, f)>>]

LEMMA ValuesAreVals == ValueNow = Vals(World) /\ ValueNow' = Vals(World)'
  BY DEF ValueNow, Vals, Worth, World

\* A call of another object than the empty one finds a callable there.
LEMMA ValueTypes ==
  ASSUME FunInv, NEW f \in Funs
  PROVE  /\ Vals(World)[f] = Worth(World, f)
         /\ Worth(World, f) \in (Types \X {0, 1}) \cup {Null}
         /\ Worth(World, f) # Null <=> fun[f].vtable # Null
<1>1. f \in Objs /\ FunSound(World) /\ World.fun = fun
  BY DEF Objs, FunInv, World
<1>2. Worth(World, f) = Null <=> fun[f].vtable = Null
  BY <1>1, EmptyWorth
<1>3. fun[f].vtable # Null => fun[f].vtable \in Types /\ Storage(World, f) \in {0, 1}
  BY <1>1 DEF FunSound, Worlds, FunFields, ObjectsSound, BlocksSound, Storage
<1>4. Worth(World, f) \in (Types \X {0, 1}) \cup {Null}
  BY <1>1, <1>3 DEF Worth
<1> QED BY <1>2, <1>4 DEF Vals

\* Every call is an operation on independent values, or leaves them alone.
LEMMA StepOnValues ==
  ASSUME FunInv, [FunctionNext]_funVars
  PROVE  FunInv' /\ [Values!Next]_ValueNow
<1> DEFINE v == Vals(World)
<1>0. ValueNow = v /\ ValueNow' = v'
  BY ValuesAreVals
<1>1. ASSUME NEW f \in Funs, NEW t \in Types, NEW c \in {0, 1}, Assign(f, t, c)
      PROVE  FunInv' /\ Values!Next
  <2>1. FunInv' /\ v' = [v EXCEPT ![f] = <<t, c>>]
    BY <1>1, AssignStep
  <2>2. Values!Assign(f, <<t, c>>)
    BY <1>0, <2>1 DEF Values!Assign, ValueNow
  <2> QED BY <2>1, <2>2 DEF Values!Next
<1>2. ASSUME NEW f \in Funs, NEW g \in Funs, CopyAssign(f, g)
      PROVE  FunInv' /\ Values!Next
  <2>1. FunInv' /\ v' = [v EXCEPT ![f] = v[g]]
    BY <1>2, CopyAssignStep, ValueTypes
  <2>2. Values!Copy(f, g)
    BY <1>0, <2>1 DEF Values!Copy, ValueNow
  <2> QED BY <2>1, <2>2 DEF Values!Next
<1>3. ASSUME NEW f \in Funs, NEW g \in Funs, f # g, FunctionMove(f, g)
      PROVE  FunInv' /\ Values!Next
  <2>1. FunInv' /\ v' = [v EXCEPT ![f] = v[g], ![g] = Null]
    BY <1>3, FunctionMoveStep, ValueTypes
  <2>2. Values!Move(f, g)
    BY <1>0, <1>3, <2>1 DEF Values!Move, ValueNow
  <2> QED BY <2>1, <2>2 DEF Values!Next
<1>4. ASSUME NEW f \in Funs, NEW g \in Funs, Swap(f, g)
      PROVE  FunInv' /\ Values!Next
  <2>1. FunInv' /\ v' = [v EXCEPT ![f] = v[g], ![g] = v[f]]
    BY <1>4, SwapStep, ValueTypes
  <2>2. Values!Swap(f, g)
    BY <1>0, <2>1 DEF Values!Swap, ValueNow
  <2> QED BY <2>1, <2>2 DEF Values!Next
<1>5. ASSUME NEW f \in Funs, ResetFunction(f)
      PROVE  FunInv' /\ Values!Next
  <2>1. FunInv' /\ v' = [v EXCEPT ![f] = Null]
    BY <1>5, ResetStep
  <2>2. Values!Assign(f, Null)
    BY <1>0, <2>1 DEF Values!Assign, ValueNow
  <2> QED BY <2>1, <2>2 DEF Values!Next
<1>6. ASSUME NEW f \in Funs, Invoke(f)
      PROVE  FunInv' /\ Values!Next
  <2>1. FunInv' /\ v' = [v EXCEPT ![f] = AfterCall(v[f])] /\ v[f] # Null
    BY <1>6, InvokeStep, ValueTypes DEF Invoke
  <2>2. Values!Call(f)
    BY <1>0, <2>1 DEF Values!Call, ValueNow, AfterCall
  <2> QED BY <2>1, <2>2 DEF Values!Next
<1>7. ASSUME \/ UNCHANGED funVars
             \/ \E f \in Funs : FunctionMove(f, f)
      PROVE  FunInv' /\ UNCHANGED ValueNow
  <2>1. UNCHANGED <<fun, block, alive>>
    BY <1>7 DEF FunctionMove, MoveAssigned, To, World, funVars
  <2>2. World' = World
    BY <2>1 DEF World
  <2> QED BY <1>0, <2>1, <2>2 DEF FunInv
<1> QED BY <1>1, <1>2, <1>3, <1>4, <1>5, <1>6, <1>7 DEF FunctionNext

LEMMA FunInvariance == FunctionSpec => []FunInv
  BY FunInit, StepOnValues, PTL DEF FunctionSpec

\* Whatever is assigned, copied, moved and swapped, every callable has one owner:
\* every block in use belongs to one light_function that holds a callable, no object
\* points to a block that is free, and what is constructed is destroyed once.
THEOREM OwnedOnce == FunctionSpec => []CallablesOwnedOnce
<1>1. ASSUME FunInv
      PROVE  CallablesOwnedOnce
  <2>1. /\ ObjectsSound(World) /\ BlocksSound(World) /\ CountSound(World)
        /\ World.fun = fun /\ World.block = block /\ World.alive = alive
    BY <1>1 DEF FunInv, FunSound, World
  <2>2. HeldIn(World) = Held
    BY <1>1, <2>1 DEF HeldIn, Held, Objs, FunInv
  <2>3. ASSUME NEW b \in Blocks, block[b].used
        PROVE  \E f \in Held : Owners(b) = {f}
    <3>1. PICK f \in Objs : fun[f].heap = b
      BY <2>1, <2>3 DEF BlocksSound
    <3>2. b # Null
      BY LightFunctionConstants
    <3>3. f \in Held
      BY <2>1, <2>2, <3>1, <3>2 DEF ObjectsSound, HeldIn
    <3>4. Owners(b) = {f}
      BY <2>1, <3>1, <3>2 DEF Owners, BlocksSound, Objs
    <3> QED BY <3>3, <3>4
  <2>4. ASSUME NEW b \in Blocks, ~block[b].used
        PROVE  Owners(b) = {}
    BY <2>1, <2>4, LightFunctionConstants DEF Owners, BlocksSound, Objs
  <2> QED BY <2>1, <2>2, <2>3, <2>4 DEF CallablesOwnedOnce, CountSound
<1> QED BY <1>1, FunInvariance, PTL

\* Whatever operator=, swap and the calls do to vtables, blocks and bytes, function
\* objects are values: a copy is independent of the original, a moved object is empty.
THEOREM FunctionsAreValues == FunctionSpec => ActsAsValue
<1>1. FunctionInit => Values!Init
  BY FunInit, ValuesAreVals DEF Values!Init, ValueNow
<1>2. FunInv /\ [FunctionNext]_funVars => [Values!Next]_ValueNow
  BY StepOnValues
<1> QED
  BY <1>1, <1>2, FunInvariance, PTL DEF FunctionSpec, ActsAsValue, Values!Spec, ValueNow


-----------------------------------------------------------------------------
(* Convert *)

Octet == 0 .. 255

(* The alphabets *)

\* The values and the characters of Base64 correspond to each other.
LEMMA Base64Symbols ==
  ASSUME NEW u \in BOOLEAN
  PROVE  /\ \A v \in 0 .. 63 : /\ b64EncodeChar(v, u) \in Octet
                               /\ b64EncodeChar(v, u) # Pad /\ ~IsBlank(b64EncodeChar(v, u))
                               /\ b64DecodeChar(b64EncodeChar(v, u), u) = v
         /\ \A c : \/ b64DecodeChar(c, u) = -1
                   \/ /\ b64DecodeChar(c, u) \in 0 .. 63
                      /\ b64EncodeChar(b64DecodeChar(c, u), u) = c
<1>1. ASSUME NEW v \in 0 .. 63
      PROVE  /\ b64EncodeChar(v, u) \in Octet
             /\ b64EncodeChar(v, u) # Pad /\ ~IsBlank(b64EncodeChar(v, u))
             /\ b64DecodeChar(b64EncodeChar(v, u), u) = v
  BY SMTT(60) DEF b64EncodeChar, b64DecodeChar, Pad, IsBlank, Octet
<1>2. ASSUME NEW c
      PROVE  \/ b64DecodeChar(c, u) = -1
             \/ /\ b64DecodeChar(c, u) \in 0 .. 63
                /\ b64EncodeChar(b64DecodeChar(c, u), u) = c
  BY SMTT(60) DEF b64EncodeChar, b64DecodeChar
<1> QED BY <1>1, <1>2

\* The same of the hexadecimal digits, of which a decoder also takes lowercase.
Upper(c) == IF c \in 97 .. 102 THEN c - 32 ELSE c

LEMMA HexSymbols ==
  /\ \A v \in 0 .. 15 : hexaChars(v) \in Octet /\ HexDigit(hexaChars(v)) = v
  /\ \A c : \/ HexDigit(c) = -1
            \/ HexDigit(c) \in 0 .. 15 /\ hexaChars(HexDigit(c)) = Upper(c)
  /\ \A v \in 0 .. 15 : Upper(hexaChars(v)) = hexaChars(v)
  BY SMTT(60) DEF hexaChars, HexDigit, Upper, Octet

\* A character is in the alphabet or refused.
LEMMA SymbolsOrNot ==
  /\ \A c : HexDigit(c) >= 0 <=> HexDigit(c) \in 0 .. 15
  /\ \A c, u : b64DecodeChar(c, u) >= 0 <=> b64DecodeChar(c, u) \in 0 .. 63
<1>1. ASSUME NEW c
      PROVE  HexDigit(c) >= 0 <=> HexDigit(c) \in 0 .. 15
  BY SMTT(30) DEF HexDigit
<1>2. ASSUME NEW c, NEW u
      PROVE  b64DecodeChar(c, u) >= 0 <=> b64DecodeChar(c, u) \in 0 .. 63
  BY SMTT(30) DEF b64DecodeChar
<1> QED BY <1>1, <1>2

\* The reference's alphabets are those of the code.
LEMMA CodesSeq ==
  ASSUME NEW a \in Octet, NEW b \in Octet, a <= b
  PROVE  CodesFrom(a, b) \in Seq(Octet)
<1>1. CodesFrom(a, b) \in [1 .. b - a + 1 -> Octet] /\ b - a + 1 \in Nat
  BY DEF CodesFrom, Octet
<1> QED BY <1>1, SeqIntro

\* Two sequences joined, without their contents.
LEMMA Joined ==
  ASSUME NEW S, NEW s \in Seq(S), NEW t \in Seq(S)
  PROVE  /\ s \o t \in Seq(S) /\ Len(s \o t) = Len(s) + Len(t)
         /\ \A i \in 1 .. Len(s) : (s \o t)[i] = s[i]
         /\ \A i \in 1 .. Len(t) : (s \o t)[Len(s) + i] = t[i]
<1> DEFINE st == s \o t
           m == Len(s)
           n == Len(t)
<1>1. m \in Nat /\ n \in Nat
  BY LenProperties
<1>2. st \in Seq(S) /\ Len(st) = m + n
  BY ConcatProperties
<1>3. \A i \in 1 .. m + n : st[i] = IF i <= m THEN s[i] ELSE t[i - m]
  BY ConcatProperties
<1> HIDE DEF st, m, n
<1>4. \A i \in 1 .. m : st[i] = s[i]
  BY <1>1, <1>3
<1>5. \A i \in 1 .. n : st[m + i] = t[i]
  <2> TAKE i \in 1 .. n
  <2>1. m + i \in 1 .. m + n /\ ~(m + i <= m) /\ (m + i) - m = i
    BY <1>1
  <2> QED BY <1>3, <2>1
<1> QED BY <1>2, <1>4, <1>5 DEF st, m, n

\* The reference's alphabet of hexadecimal is the table of the encoder.
LEMMA AlphabetHex ==
  /\ Len(Alphabet("hex")) = 16 /\ DOMAIN Alphabet("hex") = 1 .. 16
  /\ \A v \in 0 .. 15 : Alphabet("hex")[v + 1] = hexaChars(v)
<1> DEFINE a == CodesFrom(48, 57)
           b == CodesFrom(65, 70)
           ab == a \o b
<1>1. a \in Seq(Octet) /\ b \in Seq(Octet)
  <2>1. {48, 57, 65, 70} \subseteq Octet
    BY DEF Octet
  <2> QED BY <2>1, CodesSeq
<1>2. Len(a) = 10 /\ \A i \in 1 .. 10 : a[i] = 48 + i - 1
  BY DEF CodesFrom
<1>3. Len(b) = 6 /\ \A i \in 1 .. 6 : b[i] = 65 + i - 1
  BY DEF CodesFrom
<1> HIDE DEF a, b
<1>4. /\ ab \in Seq(Octet) /\ Len(ab) = Len(a) + Len(b)
      /\ \A i \in 1 .. Len(a) : ab[i] = a[i]
      /\ \A i \in 1 .. Len(b) : ab[Len(a) + i] = b[i]
  BY <1>1, Joined
<1> HIDE DEF ab
<1>5. DOMAIN ab = 1 .. Len(ab) /\ (Len(ab) = Len(a) + Len(b))
  BY <1>4, LenProperties
<1>6. /\ \A i \in 1 .. Len(a) : ab[i] = a[i]
      /\ \A i \in 1 .. Len(b) : ab[Len(a) + i] = b[i]
  BY <1>4
<1>7. /\ \A i \in 1 .. 10 : ab[i] = a[i]
      /\ \A i \in 1 .. 6 : ab[10 + i] = b[i]
  BY <1>2, <1>3, <1>6
<1>8. ASSUME NEW v \in 0 .. 15
      PROVE  ab[v + 1] = hexaChars(v)
  <2>1. CASE v < 10
    BY <1>2, <1>7, <2>1 DEF hexaChars
  <2>2. CASE v >= 10
    <3>1. v - 9 \in 1 .. 6 /\ 10 + (v - 9) = v + 1
      BY <2>2
    <3>2. ab[v + 1] = b[v - 9]
      BY <1>7, <3>1
    <3> QED BY <1>3, <2>2, <3>1, <3>2 DEF hexaChars
  <2> QED BY <2>1, <2>2
<1>9. ab = Alphabet("hex")
  BY DEF ab, a, b, Alphabet
<1>10. Len(ab) = 16 /\ DOMAIN ab = 1 .. 16
  BY <1>2, <1>3, <1>5
<1> QED BY <1>8, <1>9, <1>10

\* So are those of Base64.
LEMMA Alphabet64 ==
  ASSUME NEW form \in {"b64", "url"}
  PROVE  /\ Len(Alphabet(form)) = 64 /\ DOMAIN Alphabet(form) = 1 .. 64
         /\ \A v \in 0 .. 63 : Alphabet(form)[v + 1] = b64EncodeChar(v, form = "url")
<1> DEFINE a == CodesFrom(65, 90)
           b == CodesFrom(97, 122)
           c == CodesFrom(48, 57)
           d == IF form = "url" THEN <<45, 95>> ELSE <<43, 47>>
           ab == a \o b
           abc == ab \o c
           abcd == abc \o d
<1>1. a \in Seq(Octet) /\ b \in Seq(Octet) /\ c \in Seq(Octet) /\ d \in Seq(Octet)
  <2>1. {48, 57, 65, 90, 97, 122, 45, 95, 43, 47} \subseteq Octet
    BY DEF Octet
  <2>2. d \in Seq(Octet)
    BY <2>1
  <2> QED BY <2>1, <2>2, CodesSeq
<1>2. Len(a) = 26 /\ \A i \in 1 .. 26 : a[i] = 65 + i - 1
  BY DEF CodesFrom
<1>3. Len(b) = 26 /\ \A i \in 1 .. 26 : b[i] = 97 + i - 1
  BY DEF CodesFrom
<1>4. Len(c) = 10 /\ \A i \in 1 .. 10 : c[i] = 48 + i - 1
  BY DEF CodesFrom
<1>5. /\ Len(d) = 2
      /\ d[1] = (IF form = "url" THEN 45 ELSE 43) /\ d[2] = (IF form = "url" THEN 95 ELSE 47)
  OBVIOUS
<1> HIDE DEF a, b, c, d
<1>6. /\ ab \in Seq(Octet) /\ Len(ab) = Len(a) + Len(b)
      /\ \A i \in 1 .. Len(a) : ab[i] = a[i]
      /\ \A i \in 1 .. Len(b) : ab[Len(a) + i] = b[i]
  <2> a \in Seq(Octet) /\ b \in Seq(Octet)
    BY <1>1
  <2> QED BY Joined
<1> HIDE DEF ab
<1>7. /\ abc \in Seq(Octet) /\ Len(abc) = Len(ab) + Len(c)
      /\ \A i \in 1 .. Len(ab) : abc[i] = ab[i]
      /\ \A i \in 1 .. Len(c) : abc[Len(ab) + i] = c[i]
  <2> ab \in Seq(Octet) /\ c \in Seq(Octet)
    BY <1>1, <1>6
  <2> QED BY Joined
<1> HIDE DEF abc
<1>8. /\ abcd \in Seq(Octet) /\ Len(abcd) = Len(abc) + Len(d)
      /\ \A i \in 1 .. Len(abc) : abcd[i] = abc[i]
      /\ \A i \in 1 .. Len(d) : abcd[Len(abc) + i] = d[i]
  <2> abc \in Seq(Octet) /\ d \in Seq(Octet)
    BY <1>1, <1>7
  <2> QED BY Joined
<1> HIDE DEF abcd
<1>9. /\ Len(ab) = Len(a) + Len(b) /\ Len(abc) = Len(ab) + Len(c)
      /\ Len(abcd) = Len(abc) + Len(d) /\ DOMAIN abcd = 1 .. Len(abcd)
  BY <1>6, <1>7, <1>8, LenProperties
<1>10. Len(ab) = 52 /\ Len(abc) = 62 /\ Len(abcd) = 64 /\ DOMAIN abcd = 1 .. 64
  BY <1>2, <1>3, <1>4, <1>5, <1>9
<1>11. /\ \A i \in 1 .. Len(a) : ab[i] = a[i]
       /\ \A i \in 1 .. Len(b) : ab[Len(a) + i] = b[i]
       /\ \A i \in 1 .. Len(ab) : abc[i] = ab[i]
       /\ \A i \in 1 .. Len(c) : abc[Len(ab) + i] = c[i]
       /\ \A i \in 1 .. Len(abc) : abcd[i] = abc[i]
       /\ \A i \in 1 .. Len(d) : abcd[Len(abc) + i] = d[i]
  BY <1>6, <1>7, <1>8
<1>12. /\ \A i \in 1 .. 26 : ab[i] = a[i] /\ ab[26 + i] = b[i]
       /\ \A i \in 1 .. 52 : abc[i] = ab[i]
       /\ \A i \in 1 .. 10 : abc[52 + i] = c[i]
       /\ \A i \in 1 .. 62 : abcd[i] = abc[i]
       /\ \A i \in 1 .. 2 : abcd[62 + i] = d[i]
  BY <1>2, <1>3, <1>4, <1>5, <1>10, <1>11
<1>13. ASSUME NEW v \in 0 .. 63
       PROVE  abcd[v + 1] = b64EncodeChar(v, form = "url")
  <2>1. CASE v < 26
    <3>1. v + 1 \in 1 .. 26 /\ v + 1 \in 1 .. 52 /\ v + 1 \in 1 .. 62
      BY <2>1
    <3>2. abcd[v + 1] = a[v + 1] /\ a[v + 1] = 65 + v
      BY <1>2, <1>12, <3>1
    <3> QED BY <2>1, <3>2 DEF b64EncodeChar
  <2>2. CASE v \in 26 .. 51
    <3>1. /\ v - 25 \in 1 .. 26 /\ 26 + (v - 25) = v + 1
          /\ v + 1 \in 1 .. 52 /\ v + 1 \in 1 .. 62
      BY <2>2
    <3>2. abcd[v + 1] = b[v - 25] /\ b[v - 25] = 97 + (v - 26)
      BY <1>3, <1>12, <3>1
    <3> QED BY <2>2, <3>2 DEF b64EncodeChar
  <2>3. CASE v \in 52 .. 61
    <3>1. v - 51 \in 1 .. 10 /\ 52 + (v - 51) = v + 1 /\ v + 1 \in 1 .. 62
      BY <2>3
    <3>2. abcd[v + 1] = c[v - 51] /\ c[v - 51] = 48 + (v - 52)
      BY <1>4, <1>12, <3>1
    <3> QED BY <2>3, <3>2 DEF b64EncodeChar
  <2>4. CASE v \in 62 .. 63
    <3>1. v - 61 \in 1 .. 2 /\ 62 + (v - 61) = v + 1
      BY <2>4
    <3>2. abcd[v + 1] = d[v - 61]
      BY <1>12, <3>1
    <3> QED BY <1>5, <2>4, <3>2 DEF b64EncodeChar
  <2> QED BY <2>1, <2>2, <2>3, <2>4
<1>14. abcd = ((a \o b) \o c) \o d /\ Alphabet(form) = ((a \o b) \o c) \o d
  BY DEF ab, abc, abcd, a, b, c, d, Alphabet
<1> QED BY <1>10, <1>13, <1>14, ZenonT(60)

-----------------------------------------------------------------------------
(* Octet and the symbols that carry their bits *)

\* A byte has the bits of two symbols in a row.  Which ones, depends on its place
\* in a triple.
FromSextets(a, b, r) ==
  CASE r = 0 -> 4 * a + (b \div 16)
    [] r = 1 -> 16 * (a % 16) + (b \div 4)
    [] r = 2 -> 64 * (a % 4) + b

FromDigits(a, b) == 16 * a + b

\* The weights of the bits of a byte.
LEMMA Powers ==
  /\ PowerOfTwo(0) = 1 /\ PowerOfTwo(1) = 2 /\ PowerOfTwo(2) = 4 /\ PowerOfTwo(3) = 8
  /\ PowerOfTwo(4) = 16 /\ PowerOfTwo(5) = 32 /\ PowerOfTwo(6) = 64 /\ PowerOfTwo(7) = 128
  BY DEF PowerOfTwo

\* Where a bit of a byte is in the two groups of six that the byte is made of.
LEMMA SextetBits ==
  ASSUME NEW a \in 0 .. 63, NEW b \in 0 .. 63, NEW r \in 0 .. 2, NEW p \in 0 .. 7
  PROVE  (FromSextets(a, b, r) \div PowerOfTwo(7 - p)) % 2
           = IF 2 * r + p < 6 THEN (a \div PowerOfTwo(5 - (2 * r + p))) % 2
             ELSE (b \div PowerOfTwo(11 - (2 * r + p))) % 2
<1>1. p = 0 \/ p = 1 \/ p = 2 \/ p = 3 \/ p = 4 \/ p = 5 \/ p = 6 \/ p = 7
  OBVIOUS
<1>2. CASE r = 0
  BY <1>1, <1>2, Powers, SMTT(60) DEF FromSextets
<1>3. CASE r = 1
  BY <1>1, <1>3, Powers, SMTT(60) DEF FromSextets
<1>4. CASE r = 2
  BY <1>1, <1>4, Powers, SMTT(60) DEF FromSextets
<1> QED BY <1>2, <1>3, <1>4

\* The same of two hexadecimal digits.
LEMMA DigitBits ==
  ASSUME NEW a \in 0 .. 15, NEW b \in 0 .. 15, NEW p \in 0 .. 7
  PROVE  (FromDigits(a, b) \div PowerOfTwo(7 - p)) % 2
           = IF p < 4 THEN (a \div PowerOfTwo(3 - p)) % 2 ELSE (b \div PowerOfTwo(7 - p)) % 2
<1>1. p = 0 \/ p = 1 \/ p = 2 \/ p = 3 \/ p = 4 \/ p = 5 \/ p = 6 \/ p = 7
  OBVIOUS
<1>2. CASE p < 4
  BY <1>1, <1>2, Powers, SMTT(60) DEF FromDigits
<1>3. CASE p >= 4
  BY <1>1, <1>3, Powers, SMTT(60) DEF FromDigits
<1> QED BY <1>2, <1>3

\* What is put together is a byte.
LEMMA BytesOfSymbols ==
  /\ \A a, b \in 0 .. 15 : FromDigits(a, b) \in Octet
  /\ \A a, b \in 0 .. 63, r \in 0 .. 2 : FromSextets(a, b, r) \in Octet
<1>1. \A a, b \in 0 .. 15 : FromDigits(a, b) \in Octet
  BY DEF FromDigits, Octet
<1>2. ASSUME NEW a \in 0 .. 63, NEW b \in 0 .. 63, NEW r \in 0 .. 2
      PROVE  FromSextets(a, b, r) \in Octet
  BY SMTT(60) DEF FromSextets, Octet
<1> QED BY <1>1, <1>2

\* The byte that has the i-th bit, and the bit's place in it; the place of the k-th
\* byte among the triples of bytes.
ByteWith(i) == (i - 1) \div 8 + 1
PlaceOf(i) == (i - 1) % 8
TripleOf(k) == (k - 1) \div 3
RankOf(k) == (k - 1) % 3

\* The i-th bit is one of the byte it is looked up in.
LEMMA ByteIndex ==
  ASSUME NEW n \in Nat, NEW i \in 1 .. 8 * n
  PROVE  /\ ByteWith(i) \in 1 .. n /\ PlaceOf(i) \in 0 .. 7
         /\ i - 1 = 8 * (ByteWith(i) - 1) + PlaceOf(i)
  BY DEF ByteWith, PlaceOf

\* A byte is in a triple.
LEMMA TripleIndex ==
  ASSUME NEW k \in Nat \ {0}
  PROVE  TripleOf(k) \in Nat /\ RankOf(k) \in 0 .. 2 /\ k = 3 * TripleOf(k) + RankOf(k) + 1
  BY DEF TripleOf, RankOf

\* The symbol that has the i-th bit, from the place of its byte.
LEMMA SextetIndex ==
  ASSUME NEW i \in Nat, NEW k \in Nat, NEW p \in 0 .. 7, NEW g \in Nat, NEW r \in 0 .. 2,
         NEW o \in Nat, i - 1 = 8 * (k - 1) + p, k = 3 * g + r + 1, o = 2 * r + p
  PROVE  /\ (i - 1) \div 6 + 1 = 4 * g + r + (IF o < 6 THEN 1 ELSE 2)
         /\ (i - 1) % 6 = IF o < 6 THEN o ELSE o - 6
<1>1. i - 1 = 6 * (4 * g + r) + o /\ o \in 0 .. 11
  OBVIOUS
<1>2. CASE o < 6
  BY <1>1, <1>2
<1>3. CASE o >= 6
  BY <1>1, <1>3
<1> QED BY <1>1, <1>2, <1>3

\* The same of hexadecimal.
LEMMA DigitIndex ==
  ASSUME NEW n \in Nat, NEW i \in 1 .. 8 * n
  PROVE  /\ (i - 1) \div 4 + 1 = 2 * ByteWith(i) - (IF PlaceOf(i) < 4 THEN 1 ELSE 0)
         /\ (i - 1) % 4 = IF PlaceOf(i) < 4 THEN PlaceOf(i) ELSE PlaceOf(i) - 4
  BY DEF ByteWith, PlaceOf

\* The value that the reference gives to a symbol is the one that is decoded.
LEMMA Symbol64 ==
  ASSUME NEW form \in {"b64", "url"}, NEW c, b64DecodeChar(c, form = "url") \in 0 .. 63
  PROVE  /\ \E v \in DOMAIN Alphabet(form) : Alphabet(form)[v] = c
         /\ ValueIn(Alphabet(form), c) = b64DecodeChar(c, form = "url")
<1> DEFINE u == form = "url"
           abc == Alphabet(form)
           w == b64DecodeChar(c, u)
<1>0. u \in BOOLEAN /\ b64DecodeChar(c, u) \in 0 .. 63
  OBVIOUS
<1>1. /\ Len(abc) = 64 /\ DOMAIN abc = 1 .. 64
      /\ \A v \in 0 .. 63 : abc[v + 1] = b64EncodeChar(v, u)
  BY Alphabet64
<1>2. /\ \A v \in 0 .. 63 : b64DecodeChar(b64EncodeChar(v, u), u) = v
      /\ b64EncodeChar(w, u) = c /\ w \in 0 .. 63
  <2> HIDE DEF u
  <2> QED BY <1>0, Base64Symbols
<1> HIDE DEF u, abc, w
<1>3. \A v \in 0 .. 63 : abc[v + 1] = c <=> v = w
  <2> SUFFICES ASSUME NEW v \in 0 .. 63 PROVE abc[v + 1] = c <=> v = w
    OBVIOUS
  <2>1. abc[v + 1] = b64EncodeChar(v, u) /\ b64DecodeChar(b64EncodeChar(v, u), u) = v
    BY <1>1, <1>2
  <2> QED BY <1>2, <2>1 DEF w
<1>4. w + 1 \in DOMAIN abc /\ abc[w + 1] = c
  BY <1>1, <1>2, <1>3
<1>5. (CHOOSE v \in 0 .. 63 : abc[v + 1] = c) = w
  BY <1>2, <1>3
<1>6. Len(abc) - 1 = 63
  BY <1>1
<1> QED BY <1>4, <1>5, <1>6 DEF ValueIn, abc, w, u

\* The same of a hexadecimal digit, in either case.
LEMMA SymbolHex ==
  ASSUME NEW c, HexDigit(c) \in 0 .. 15
  PROVE  /\ \E v \in DOMAIN Alphabet("hex") : Alphabet("hex")[v] = Upper(c)
         /\ ValueIn(Alphabet("hex"), Upper(c)) = HexDigit(c)
<1> DEFINE abc == Alphabet("hex")
           w == HexDigit(c)
           d == Upper(c)
<1>1. /\ Len(abc) = 16 /\ DOMAIN abc = 1 .. 16
      /\ \A v \in 0 .. 15 : abc[v + 1] = hexaChars(v)
  BY AlphabetHex
<1>2. /\ \A v \in 0 .. 15 : HexDigit(hexaChars(v)) = v
      /\ hexaChars(w) = d /\ w \in 0 .. 15
  BY HexSymbols
<1> HIDE DEF abc, w, d
<1>3. \A v \in 0 .. 15 : abc[v + 1] = d <=> v = w
  <2> SUFFICES ASSUME NEW v \in 0 .. 15 PROVE abc[v + 1] = d <=> v = w
    OBVIOUS
  <2>1. abc[v + 1] = hexaChars(v) /\ HexDigit(hexaChars(v)) = v /\ HexDigit(hexaChars(w)) = w
    BY <1>1, <1>2
  <2> QED BY <1>2, <2>1, Zenon
<1>4. w + 1 \in DOMAIN abc /\ abc[w + 1] = d
  BY <1>1, <1>2, <1>3
<1>5. (CHOOSE v \in 0 .. 15 : abc[v + 1] = d) = w
  BY <1>2, <1>3
<1>6. Len(abc) - 1 = 15
  BY <1>1
<1> QED BY <1>4, <1>5, <1>6 DEF ValueIn, abc, w, d

\* The bytes that are made of the symbols' values.
PackedIn(bytes, value) ==
  \A k \in 1 .. Len(bytes) :
    LET g == TripleOf(k)
        r == RankOf(k)
    IN  bytes[k] = FromSextets(value[4 * g + r + 1], value[4 * g + r + 2], r)

\* How many bytes a number of symbols carries, and which symbols these are in.
LEMMA SymbolCount ==
  ASSUME NEW m \in Nat, m % 4 # 1
  PROVE  /\ (3 * m) \div 4 \in Nat /\ (8 * ((3 * m) \div 4) + 5) \div 6 = m
         /\ \A g \in Nat, r \in 0 .. 2 :
              3 * g + r + 1 <= (3 * m) \div 4 => 4 * g + r + 2 <= m
<1>1. (3 * m) \div 4 \in Nat
  OBVIOUS
<1>2. (8 * ((3 * m) \div 4) + 5) \div 6 = m
  BY SMTT(30)
<1>3. ASSUME NEW g \in Nat, NEW r \in 0 .. 2, 3 * g + r + 1 <= (3 * m) \div 4
      PROVE  4 * g + r + 2 <= m
  BY <1>3, SMTT(30)
<1> QED BY <1>1, <1>2, <1>3

\* The text d, without blanks, is m symbols of these values, which carry the bytes,
\* and the padding that is due.
Carries(d, u, m, value, bytes) ==
  /\ m \in Nat /\ m % 4 # 1 /\ value \in [1 .. m -> 0 .. 63]
  /\ Len(bytes) = (3 * m) \div 4 /\ PackedIn(bytes, value)
  /\ Len(d) = (IF u THEN m ELSE 4 * ((m + 3) \div 4))
  /\ \A i \in 1 .. m : b64DecodeChar(d[i], u) = value[i]
  /\ \A i \in m + 1 .. Len(d) : d[i] = Pad

\* Then the symbols have the bits of the bytes.
LEMMA Base64Bits ==
  ASSUME NEW d, NEW u, NEW m, NEW value, NEW bytes, Carries(d, u, m, value, bytes)
  PROVE  \A i \in 1 .. 8 * Len(bytes) : Bit(bytes, 8, i) = Bit(value, 6, i)
<1> DEFINE n == Len(bytes)
<1>0. /\ n \in Nat /\ m \in Nat /\ value \in [1 .. m -> 0 .. 63] /\ PackedIn(bytes, value)
      /\ \A g \in Nat, r \in 0 .. 2 : 3 * g + r + 1 <= n => 4 * g + r + 2 <= m
  <2>1. /\ m \in Nat /\ m % 4 # 1 /\ n = (3 * m) \div 4
        /\ value \in [1 .. m -> 0 .. 63] /\ PackedIn(bytes, value)
    BY Zenon DEF Carries
  <2> QED BY <2>1, SymbolCount, Zenon
<1> HIDE DEF n
<1> SUFFICES ASSUME NEW i \in 1 .. 8 * n PROVE Bit(bytes, 8, i) = Bit(value, 6, i)
  BY DEF n
<1> DEFINE k == ByteWith(i)
           p == PlaceOf(i)
           g == TripleOf(k)
           r == RankOf(k)
           o == 2 * r + p
           a == value[4 * g + r + 1]
           b == value[4 * g + r + 2]
<1>1. /\ k \in 1 .. n /\ p \in 0 .. 7 /\ r \in 0 .. 2 /\ g \in Nat /\ k = 3 * g + r + 1
      /\ i - 1 = 8 * (k - 1) + p /\ i \in Nat /\ k \in Nat
  <2>1. k \in 1 .. n /\ p \in 0 .. 7 /\ i - 1 = 8 * (k - 1) + p
    BY <1>0, ByteIndex
  <2> HIDE DEF k, p
  <2>2. k \in Nat \ {0} /\ i \in Nat
    BY <1>0, <2>1
  <2> QED BY <2>1, <2>2, TripleIndex
<1>2. bytes[k] = FromSextets(a, b, r)
  BY <1>0, <1>1 DEF PackedIn, n
<1>3. Bit(bytes, 8, i) = (bytes[k] \div PowerOfTwo(7 - p)) % 2
  <2>1. 8 - 1 - p = 7 - p
    BY <1>1
  <2> QED BY <2>1 DEF Bit, ByteWith, PlaceOf
<1> HIDE DEF k, p, g, r
<1>4. /\ (i - 1) \div 6 + 1 = 4 * g + r + (IF o < 6 THEN 1 ELSE 2)
      /\ (i - 1) % 6 = IF o < 6 THEN o ELSE o - 6
  <2>1. o \in Nat /\ o = 2 * r + p
    BY <1>1
  <2> HIDE DEF o
  <2>2. i \in Nat /\ k \in Nat /\ p \in 0 .. 7 /\ g \in Nat /\ r \in 0 .. 2
    BY <1>1
  <2>3. i - 1 = 8 * (k - 1) + p /\ k = 3 * g + r + 1
    BY <1>1
  <2> QED BY <2>1, <2>2, <2>3, SextetIndex, SMTT(30)
<1>5. 4 * g + r + 1 \in 1 .. m /\ 4 * g + r + 2 \in 1 .. m
  BY <1>0, <1>1
<1>6. a \in 0 .. 63 /\ b \in 0 .. 63
  <2>1. \A j \in 1 .. m : value[j] \in 0 .. 63
    BY <1>0
  <2> QED BY <1>5, <2>1, Zenon
<1>7. (bytes[k] \div PowerOfTwo(7 - p)) % 2
        = IF o < 6 THEN (a \div PowerOfTwo(5 - o)) % 2 ELSE (b \div PowerOfTwo(11 - o)) % 2
  <2> HIDE DEF a, b
  <2>1. (FromSextets(a, b, r) \div PowerOfTwo(7 - p)) % 2
          = IF o < 6 THEN (a \div PowerOfTwo(5 - o)) % 2 ELSE (b \div PowerOfTwo(11 - o)) % 2
    <3>1. r \in 0 .. 2 /\ p \in 0 .. 7
      BY <1>1
    <3> QED BY <1>6, <3>1, SextetBits, Zenon
  <2> QED BY <1>2, <2>1, Zenon
<1>8. Bit(value, 6, i)
        = (value[(i - 1) \div 6 + 1] \div PowerOfTwo(6 - 1 - ((i - 1) % 6))) % 2
  BY DEF Bit
<1>9. CASE o < 6
  <2>1. (i - 1) \div 6 + 1 = 4 * g + r + 1 /\ 6 - 1 - ((i - 1) % 6) = 5 - o
    BY <1>1, <1>4, <1>9
  <2> QED BY <1>3, <1>7, <1>8, <1>9, <2>1
<1>10. CASE o >= 6
  <2>1. (i - 1) \div 6 + 1 = 4 * g + r + 2 /\ 6 - 1 - ((i - 1) % 6) = 11 - o
    BY <1>1, <1>4, <1>10
  <2>2. ~(o < 6)
    BY <1>1, <1>10
  <2> QED BY <1>3, <1>7, <1>8, <2>1, <2>2
<1> QED BY <1>1, <1>9, <1>10

\* Two digits have the bits of a byte.
LEMMA HexBits ==
  ASSUME NEW n \in Nat, NEW bytes, NEW value \in [1 .. 2 * n -> 0 .. 15],
         \A k \in 1 .. n : bytes[k] = FromDigits(value[2 * k - 1], value[2 * k])
  PROVE  \A i \in 1 .. 8 * n : Bit(bytes, 8, i) = Bit(value, 4, i)
<1> SUFFICES ASSUME NEW i \in 1 .. 8 * n PROVE Bit(bytes, 8, i) = Bit(value, 4, i)
  OBVIOUS
<1> DEFINE k == ByteWith(i)
           p == PlaceOf(i)
           a == value[2 * k - 1]
           b == value[2 * k]
<1>1. k \in 1 .. n /\ p \in 0 .. 7
  BY ByteIndex
<1>2. /\ (i - 1) \div 4 + 1 = 2 * k - (IF p < 4 THEN 1 ELSE 0)
      /\ (i - 1) % 4 = IF p < 4 THEN p ELSE p - 4
  BY DigitIndex
<1>3. Bit(bytes, 8, i) = (bytes[k] \div PowerOfTwo(7 - p)) % 2
  <2>1. 8 - 1 - p = 7 - p
    BY <1>1
  <2> QED BY <2>1 DEF Bit, ByteWith, PlaceOf
<1> HIDE DEF k, p
<1>4. 2 * k - 1 \in 1 .. 2 * n /\ 2 * k \in 1 .. 2 * n
  BY <1>1
<1>5. a \in 0 .. 15 /\ b \in 0 .. 15
  BY <1>4, SMTT(30)
<1>6. bytes[k] = FromDigits(a, b)
  BY <1>1
<1>7. (FromDigits(a, b) \div PowerOfTwo(7 - p)) % 2
        = IF p < 4 THEN (a \div PowerOfTwo(3 - p)) % 2 ELSE (b \div PowerOfTwo(7 - p)) % 2
  <2> HIDE DEF a, b
  <2> QED BY <1>1, <1>5, DigitBits, Zenon
<1>8. Bit(value, 4, i)
        = (value[(i - 1) \div 4 + 1] \div PowerOfTwo(4 - 1 - ((i - 1) % 4))) % 2
  BY DEF Bit
<1>9. CASE p < 4
  <2>1. (i - 1) \div 4 + 1 = 2 * k - 1 /\ 4 - 1 - ((i - 1) % 4) = 3 - p
    BY <1>1, <1>2, <1>9
  <2> QED BY <1>3, <1>6, <1>7, <1>8, <1>9, <2>1
<1>10. CASE p >= 4
  <2>1. (i - 1) \div 4 + 1 = 2 * k /\ 4 - 1 - ((i - 1) % 4) = 7 - p /\ ~(p < 4)
    BY <1>1, <1>2, <1>10
  <2> QED BY <1>3, <1>6, <1>7, <1>8, <2>1
<1> QED BY <1>1, <1>9, <1>10

\* Such a text is one of the bytes by the reference.
LEMMA Base64Text ==
  ASSUME NEW form \in {"b64", "url"}, NEW text, NEW m, NEW value, NEW bytes,
         Carries(Canonical(form, text), form = "url", m, value, bytes)
  PROVE  IsTextOf(form, text, bytes)
<1> DEFINE d == Canonical(form, text)
           u == form = "url"
           n == (8 * Len(bytes) + 6 - 1) \div 6
           abc == Alphabet(form)
           read == [i \in 1 .. n |-> ValueIn(abc, d[i])]
<1>1. /\ m \in Nat /\ m % 4 # 1 /\ value \in [1 .. m -> 0 .. 63]
      /\ Len(bytes) = (3 * m) \div 4 /\ PackedIn(bytes, value)
      /\ \A i \in 1 .. m : b64DecodeChar(d[i], u) = value[i]
      /\ \A i \in m + 1 .. Len(d) : d[i] = Pad
      /\ Len(d) = (IF u THEN m ELSE 4 * ((m + 3) \div 4))
  BY DEF Carries
<1>2. form # "hex" /\ (u <=> form # "b64")
  OBVIOUS
<1> HIDE DEF d
<1>3. n = m
  <2>1. Len(bytes) \in Nat /\ (8 * Len(bytes) + 5) \div 6 = m
    BY <1>1, SymbolCount
  <2>2. 8 * Len(bytes) + 6 - 1 = 8 * Len(bytes) + 5
    BY <2>1
  <2> QED BY <2>1, <2>2
<1>4. ASSUME NEW i \in 1 .. m
      PROVE  /\ \E v \in DOMAIN abc : abc[v] = d[i]
             /\ ValueIn(abc, d[i]) = value[i]
  <2>1. b64DecodeChar(d[i], form = "url") = value[i] /\ value[i] \in 0 .. 63
    BY <1>1
  <2>2. b64DecodeChar(d[i], form = "url") \in 0 .. 63
    BY <2>1, Zenon
  <2> QED BY <2>1, <2>2, Symbol64
<1> HIDE DEF n, abc, u
<1>5. read = value
  BY <1>1, <1>3, <1>4
<1>6. \A i \in 1 .. 8 * Len(bytes) : Bit(bytes, 8, i) = Bit(value, 6, i)
  <2>1. Carries(d, u, m, value, bytes)
    BY DEF d, u
  <2> QED BY <2>1, Base64Bits
<1> HIDE DEF read
<1>7. \A i \in 1 .. n : \E v \in DOMAIN abc : abc[v] = d[i]
  BY <1>3, <1>4
<1>8. Len(d) = (IF form = "b64" THEN 4 * ((n + 3) \div 4) ELSE n)
  BY <1>1, <1>2, <1>3
<1>9. \A i \in n + 1 .. Len(d) : d[i] = 61
  BY <1>1, <1>3 DEF Pad
<1>10. \A i \in 1 .. 8 * Len(bytes) : Bit(bytes, 8, i) = Bit(read, 6, i)
  BY <1>5, <1>6
<1>11. Spells(d, abc, 6, form = "b64", bytes)
  BY <1>7, <1>8, <1>9, <1>10 DEF Spells, read, n
<1> QED BY <1>2, <1>11 DEF IsTextOf, abc, d

\* Digits that have the bits of the bytes are a text of them by the reference.
LEMMA HexText ==
  ASSUME NEW text, NEW d, Canonical("hex", text) = d,
         NEW n \in Nat, NEW value \in [1 .. 2 * n -> 0 .. 15],
         NEW bytes, Len(bytes) = n,
         \A k \in 1 .. n : bytes[k] = FromDigits(value[2 * k - 1], value[2 * k]),
         Len(d) = 2 * n,
         \A i \in 1 .. 2 * n : HexDigit(text[i]) = value[i] /\ d[i] = Upper(text[i])
  PROVE  IsTextOf("hex", text, bytes)
<1> DEFINE m == (8 * Len(bytes) + 4 - 1) \div 4
           abc == Alphabet("hex")
           read == [i \in 1 .. m |-> ValueIn(abc, d[i])]
<1>1. m = 2 * n
  OBVIOUS
<1>2. \A i \in 1 .. 2 * n : HexDigit(text[i]) \in 0 .. 15
  BY SMTT(30)
<1>3. ASSUME NEW i \in 1 .. 2 * n
      PROVE  /\ \E v \in DOMAIN abc : abc[v] = d[i]
             /\ ValueIn(abc, d[i]) = value[i]
  <2>1. HexDigit(text[i]) \in 0 .. 15
    BY <1>2
  <2>2. HexDigit(text[i]) = value[i] /\ d[i] = Upper(text[i])
    OBVIOUS
  <2> QED BY <2>1, <2>2, SymbolHex
<1> HIDE DEF m, abc
<1>4. read = value
  BY <1>1, <1>3
<1>5. \A i \in 1 .. 8 * n : Bit(bytes, 8, i) = Bit(value, 4, i)
  BY HexBits, SMTT(30)
<1> HIDE DEF read
<1>6. \A i \in 1 .. m : \E v \in DOMAIN abc : abc[v] = d[i]
  BY <1>1, <1>3
<1>7. Len(d) = m
  BY <1>1
<1>8. \A i \in m + 1 .. Len(d) : d[i] = 61
  BY <1>1, <1>7
<1>9. \A i \in 1 .. 8 * Len(bytes) : Bit(bytes, 8, i) = Bit(read, 4, i)
  BY <1>4, <1>5
<1>10. Spells(d, abc, 4, FALSE, bytes)
  BY <1>6, <1>7, <1>8, <1>9 DEF Spells, read, m
<1> QED BY <1>10 DEF IsTextOf, abc

\* A set of natural numbers has a least element.
LEMMA Least ==
  ASSUME NEW S \in SUBSET Nat, S # {}
  PROVE  \E x \in S : \A y \in S : x <= y
<1> DEFINE R == OpToRel(<, Nat)
<1>1. IsWellFoundedOn(R, Nat)
  BY NatLessThanWellFounded, Zenon
<1>2. \A x, y \in Nat : <<x, y>> \in R <=> x < y
  BY DEF OpToRel
<1> HIDE DEF R
<1>3. PICK x \in S : \A y \in S : ~(<<y, x>> \in R)
  BY <1>1, WFMin
<1>4. ASSUME NEW y \in S
      PROVE  x <= y
  <2>1. ~(y < x) /\ x \in Nat /\ y \in Nat
    BY <1>2, <1>3
  <2> QED BY <2>1
<1> QED BY <1>4

\* The symbols are what comes before the first '='.
EndsAt(t, m) == m \in 0 .. Len(t) /\ (m = Len(t) \/ t[m + 1] = Pad)

\* SymbolsOf finds such a place, with no '=' before it.
LEMMA SymbolsEnd ==
  ASSUME NEW t, Len(t) \in Nat
  PROVE  /\ EndsAt(t, SymbolsOf(t)) /\ SymbolsOf(t) \in Nat
         /\ \A i \in 1 .. SymbolsOf(t) : t[i] # Pad
<1> DEFINE ends == {i \in 0 .. Len(t) : i = Len(t) \/ t[i + 1] = Pad}
           m == SymbolsOf(t)
<1>1. ends \in SUBSET Nat /\ Len(t) \in ends
  OBVIOUS
<1>2. \E i \in ends : \A j \in ends : i <= j
  <2> HIDE DEF ends
  <2> QED BY <1>1, Least
<1>3. m \in ends /\ \A j \in ends : m <= j
  <2>1. m = CHOOSE i \in ends : \A j \in ends : i <= j
    BY DEF SymbolsOf
  <2> HIDE DEF m, ends
  <2> QED BY <1>2, <2>1
<1> HIDE DEF m
<1>4. EndsAt(t, m) /\ m \in Nat
  BY <1>3 DEF EndsAt
<1>5. ASSUME NEW i \in 1 .. m, t[i] = Pad
      PROVE  FALSE
  <2>1. i - 1 \in 0 .. Len(t) /\ (i - 1) + 1 = i /\ i - 1 < m
    BY <1>3
  <2>2. i - 1 \in ends
    BY <1>5, <2>1
  <2> HIDE DEF ends
  <2> QED BY <1>3, <1>4, <2>1, <2>2
<1> QED BY <1>4, <1>5 DEF m

\* There is only one.
LEMMA SymbolsUnique ==
  ASSUME NEW t, Len(t) \in Nat, NEW m, EndsAt(t, m), \A i \in 1 .. m : t[i] # Pad
  PROVE  SymbolsOf(t) = m
<1> DEFINE s == SymbolsOf(t)
<1>1. EndsAt(t, s) /\ s \in Nat /\ \A i \in 1 .. s : t[i] # Pad
  BY SymbolsEnd
<1> HIDE DEF s
<1>2. CASE s < m
  <2>1. s + 1 \in 1 .. m /\ s # Len(t)
    BY <1>1, <1>2 DEF EndsAt
  <2> QED BY <1>1, <2>1 DEF EndsAt
<1>3. CASE m < s
  <2>1. m + 1 \in 1 .. s /\ m # Len(t)
    BY <1>1, <1>3 DEF EndsAt
  <2> QED BY <1>1, <2>1 DEF EndsAt
<1>4. s \in Nat /\ m \in Nat
  BY <1>1 DEF EndsAt
<1> QED BY <1>2, <1>3, <1>4 DEF s

(* Blanks *)

\* What is selected has a length.
LEMMA SelectedSome ==
  ASSUME NEW t \in Seq(Octet), NEW S \in SUBSET DOMAIN t
  PROVE  Len(Selected(t, S)) \in Nat
<1>1. DOMAIN t = 1 .. Len(t) /\ Len(t) \in Nat
  BY LenProperties
<1>2. IsFiniteSet(1 .. Len(t))
  BY <1>1, FS_Interval
<1>3. Cardinality(S) \in Nat
  BY <1>1, <1>2, FS_Subset, FS_CardinalityType
<1> DEFINE n == Cardinality(S)
           f == Selected(t, S)
           C == {f[k] : k \in 1 .. n}
<1>4. f \in [1 .. n -> C]
  BY DEF Selected
<1> HIDE DEF f, n, C
<1>5. Len(f) = n
  BY <1>3, <1>4, SeqIntro DEF n
<1> QED BY <1>3, <1>5 DEF f, n

\* Where nothing is left out, the text is selected.
LEMMA SelectedAll ==
  ASSUME NEW t \in Seq(Octet)
  PROVE  Selected(t, DOMAIN t) = t
<1> DEFINE n == Len(t)
           upTo(i) == Cardinality({j \in 1 .. n : j <= i})
           pick(k) == CHOOSE i \in 1 .. n : upTo(i) = k
<1>1. DOMAIN t = 1 .. n /\ n \in Nat /\ t = [k \in 1 .. n |-> t[k]]
  BY LenProperties
<1> HIDE DEF n
<1>2. Cardinality(1 .. n) = n
  <2>1. n \in Int /\ 1 \in Int /\ n \in Nat
    BY <1>1
  <2>2. Cardinality(1 .. n) = IF 1 > n THEN 0 ELSE n - 1 + 1
    BY <2>1, FS_Interval, Zenon
  <2> QED BY <2>1, <2>2
<1>3. \A i \in 1 .. n : upTo(i) = i
  <2> TAKE i \in 1 .. n
  <2>1. {j \in 1 .. n : j <= i} = 1 .. i /\ 1 \in Int /\ i \in Int /\ ~(1 > i) /\ i - 1 + 1 = i
    BY <1>1
  <2>2. Cardinality(1 .. i) = i
    BY <2>1, FS_Interval
  <2> QED BY <2>1, <2>2
<1>4. ASSUME NEW k \in 1 .. n
      PROVE  pick(k) = k
  <2> HIDE DEF upTo
  <2> QED BY <1>3
<1>5. Selected(t, 1 .. n) = [k \in 1 .. Cardinality(1 .. n) |-> t[pick(k)]]
  BY Zenon DEF Selected
<1> HIDE DEF pick
<1> QED BY <1>1, <1>2, <1>4, <1>5

\* The decoder passes over the blanks that the reference leaves out.
LEMMA DenseText ==
  ASSUME NEW t \in Seq(Octet)
  PROVE  /\ Len(Dense(t)) \in Nat
         /\ (\A i \in 1 .. Len(t) : ~IsBlank(t[i])) => Dense(t) = t
         /\ \A form \in {"b64", "url"} : Canonical(form, t) = Dense(t)
<1> DEFINE kept == {i \in DOMAIN t : ~IsBlank(t[i])}
<1>1. Dense(t) = Selected(t, kept) /\ kept \in SUBSET DOMAIN t
  BY DEF Dense
<1>2. Len(Dense(t)) \in Nat
  <2> HIDE DEF kept
  <2> QED BY <1>1, SelectedSome
<1>3. ASSUME \A i \in 1 .. Len(t) : ~IsBlank(t[i])
      PROVE  Dense(t) = t
  <2>1. kept = DOMAIN t
    BY <1>3, LenProperties
  <2> QED BY <1>1, <2>1, SelectedAll
<1>4. kept = {i \in DOMAIN t : t[i] \notin {9, 10, 13, 32}}
  BY DEF IsBlank
<1>5. \A form \in {"b64", "url"} : Canonical(form, t) = Dense(t)
  BY <1>1, <1>4 DEF Canonical
<1> QED BY <1>2, <1>3, <1>5

\* A byte is made of its halves.
LEMMA Halves ==
  ASSUME NEW x \in Octet
  PROVE  /\ x \div 16 \in 0 .. 15 /\ x % 16 \in 0 .. 15
         /\ FromDigits(x \div 16, x % 16) = x
  BY SMTT(30) DEF Octet, FromDigits

\* Twice a number, and half an even one.
LEMMA Even ==
  ASSUME NEW n \in Nat
  PROVE  /\ n % 2 = 0 => n = 2 * (n \div 2) /\ n \div 2 \in Nat
         /\ (2 * n) % 2 = 0 /\ (2 * n) \div 2 = n
  BY SMTT(30)

\* The two digits of the k-th byte.
LEMMA DigitPlaces ==
  ASSUME NEW n \in Nat, NEW k \in 1 .. n
  PROVE  /\ (2 * k - 1) % 2 = 1 /\ ((2 * k - 1) + 1) \div 2 = k
         /\ (2 * k) % 2 = 0 /\ (2 * k) \div 2 = k
         /\ 2 * k - 1 \in 1 .. 2 * n /\ 2 * k \in 1 .. 2 * n
  BY SMTT(30)

\* The byte of the i-th digit.
LEMMA DigitPlace ==
  ASSUME NEW n \in Nat, NEW i \in 1 .. 2 * n
  PROVE  /\ i % 2 = 1 => (i + 1) \div 2 \in 1 .. n
         /\ i % 2 # 1 => i \div 2 \in 1 .. n
  BY SMTT(30)

(* Hexadecimal *)

\* toHex writes the digits of the bytes' halves.
LEMMA ToHexText ==
  ASSUME NEW s \in Seq(Octet)
  PROVE  /\ ToHex(s) \in Seq(Octet) /\ Len(ToHex(s)) = 2 * Len(s)
         /\ \A i \in 1 .. 2 * Len(s) : HexDigit(ToHex(s)[i]) \in 0 .. 15
         /\ \A k \in 1 .. Len(s) :
              s[k] = FromDigits(HexDigit(ToHex(s)[2 * k - 1]), HexDigit(ToHex(s)[2 * k]))
<1> DEFINE n == Len(s)
           digit(i) == IF i % 2 = 1 THEN s[(i + 1) \div 2] \div 16 ELSE s[i \div 2] % 16
           t == ToHex(s)
<1>1. n \in Nat /\ \A k \in 1 .. n : s[k] \in Octet
  BY LenProperties
<1>2. t = [i \in 1 .. 2 * n |-> hexaChars(digit(i))]
  BY DEF ToHex
<1> HIDE DEF t, n
<1>3. ASSUME NEW k \in 1 .. n
      PROVE  /\ digit(2 * k - 1) = s[k] \div 16 /\ digit(2 * k) = s[k] % 16
  <2>1. /\ (2 * k - 1) % 2 = 1 /\ ((2 * k - 1) + 1) \div 2 = k
        /\ (2 * k) % 2 = 0 /\ (2 * k) \div 2 = k
    BY <1>1, DigitPlaces
  <2> QED BY <2>1
<1>4. ASSUME NEW i \in 1 .. 2 * n
      PROVE  digit(i) \in 0 .. 15
  <2>1. CASE i % 2 = 1
    <3>1. s[(i + 1) \div 2] \in Octet
      BY <1>1, <2>1, DigitPlace
    <3>2. s[(i + 1) \div 2] \div 16 \in 0 .. 15
      BY <3>1, Halves
    <3> QED BY <2>1, <3>2
  <2>2. CASE i % 2 # 1
    <3>1. s[i \div 2] \in Octet
      BY <1>1, <2>2, DigitPlace
    <3>2. s[i \div 2] % 16 \in 0 .. 15
      BY <3>1, Halves
    <3> QED BY <2>2, <3>2
  <2> QED BY <2>1, <2>2
<1> HIDE DEF digit
<1>5. ASSUME NEW i \in 1 .. 2 * n
      PROVE  t[i] \in Octet /\ HexDigit(t[i]) = digit(i)
  <2>1. t[i] = hexaChars(digit(i))
    BY <1>2
  <2> QED BY <1>4, <2>1, HexSymbols, Zenon
<1>6. t \in Seq(Octet) /\ Len(t) = 2 * n
  <2>1. t \in [1 .. 2 * n -> Octet] /\ 2 * n \in Nat
    BY <1>1, <1>2, <1>5
  <2> QED BY <2>1, SeqIntro
<1>7. \A i \in 1 .. 2 * n : HexDigit(t[i]) \in 0 .. 15
  BY <1>4, <1>5
<1>8. ASSUME NEW k \in 1 .. n
      PROVE  s[k] = FromDigits(HexDigit(t[2 * k - 1]), HexDigit(t[2 * k]))
  <2>1. 2 * k - 1 \in 1 .. 2 * n /\ 2 * k \in 1 .. 2 * n
    BY <1>1, DigitPlaces
  <2>2. HexDigit(t[2 * k - 1]) = s[k] \div 16 /\ HexDigit(t[2 * k]) = s[k] % 16
    BY <1>3, <1>5, <2>1
  <2>3. FromDigits(s[k] \div 16, s[k] % 16) = s[k]
    BY <1>1, Halves
  <2> QED BY <2>2, <2>3
<1> QED BY <1>6, <1>7, <1>8 DEF t, n

\* fromHex makes bytes of the pairs of digits.
LEMMA FromHexBytes ==
  ASSUME NEW t \in Seq(Octet), Len(t) % 2 = 0, \A i \in 1 .. Len(t) : HexDigit(t[i]) >= 0
  PROVE  /\ FromHex(t) \in Seq(Octet) /\ Len(FromHex(t)) = Len(t) \div 2
         /\ \A i \in 1 .. Len(t) : HexDigit(t[i]) \in 0 .. 15
         /\ \A k \in 1 .. Len(t) \div 2 :
              FromHex(t)[k] = FromDigits(HexDigit(t[2 * k - 1]), HexDigit(t[2 * k]))
<1> DEFINE n == Len(t) \div 2
           f == FromHex(t)
           len == Len(t)
<1>1. len \in Nat
  BY LenProperties
<1>2. f = [k \in 1 .. n |-> 16 * HexDigit(t[2 * k - 1]) + HexDigit(t[2 * k])]
  BY DEF FromHex
<1>3. \A i \in 1 .. len : HexDigit(t[i]) \in 0 .. 15
  BY SymbolsOrNot, Zenon
<1>4. n \in Nat /\ len = 2 * n
  <2>1. len % 2 = 0 /\ n = len \div 2
    OBVIOUS
  <2> HIDE DEF len, n
  <2>2. len % 2 = 0 => len = 2 * (len \div 2) /\ len \div 2 \in Nat
    BY <1>1, Even
  <2> QED BY <2>1, <2>2
<1> HIDE DEF f, len, n
<1>5. ASSUME NEW k \in 1 .. n
      PROVE  /\ f[k] = FromDigits(HexDigit(t[2 * k - 1]), HexDigit(t[2 * k]))
             /\ f[k] \in Octet
  <2>1. 2 * k - 1 \in 1 .. len /\ 2 * k \in 1 .. len
    BY <1>4, DigitPlaces
  <2>2. f[k] = FromDigits(HexDigit(t[2 * k - 1]), HexDigit(t[2 * k]))
    BY <1>2 DEF FromDigits
  <2>3. HexDigit(t[2 * k - 1]) \in 0 .. 15 /\ HexDigit(t[2 * k]) \in 0 .. 15
    BY <1>3, <2>1
  <2> QED BY <2>2, <2>3, BytesOfSymbols, Zenon
<1>6. f \in [1 .. n -> Octet]
  BY <1>2, <1>5
<1>7. f \in Seq(Octet) /\ Len(f) = n
  BY <1>4, <1>6, SeqIntro
<1> QED BY <1>3, <1>5, <1>7 DEF f, n, len

\* fromHex gives back what toHex was given.
LEMMA HexRoundTrip ==
  ASSUME NEW s \in Seq(Octet)
  PROVE  ~Malformed("hex", ToHex(s)) /\ FromHex(ToHex(s)) = s
<1> DEFINE t == ToHex(s)
           n == Len(s)
           f == FromHex(t)
<1>1. /\ t \in Seq(Octet) /\ Len(t) = 2 * n
      /\ \A i \in 1 .. 2 * n : HexDigit(t[i]) \in 0 .. 15
      /\ \A k \in 1 .. n : s[k] = FromDigits(HexDigit(t[2 * k - 1]), HexDigit(t[2 * k]))
  BY ToHexText
<1>2. n \in Nat
  BY LenProperties
<1> HIDE DEF t, n
<1>3. Len(t) % 2 = 0 /\ Len(t) \div 2 = n /\ Len(t) = 2 * n
  <2>1. (2 * n) % 2 = 0 /\ (2 * n) \div 2 = n /\ Len(t) = 2 * n
    BY <1>1, <1>2, Even
  <2> QED BY <2>1
<1>4. \A i \in 1 .. Len(t) : HexDigit(t[i]) >= 0
  BY <1>1, <1>3, SymbolsOrNot, Zenon
<1>5. /\ f \in Seq(Octet) /\ Len(f) = n
      /\ \A k \in 1 .. n : f[k] = FromDigits(HexDigit(t[2 * k - 1]), HexDigit(t[2 * k]))
  BY <1>1, <1>3, <1>4, FromHexBytes
<1> HIDE DEF f
<1>6. f = s
  BY <1>1, <1>5, SeqEqual DEF n
<1>7. DOMAIN t = 1 .. Len(t)
  BY <1>1, LenProperties
<1>8. ~Malformed("hex", t)
  BY <1>3, <1>4, <1>7 DEF Malformed, InAlphabet
<1> QED BY <1>6, <1>8 DEF f, t

\* An even number of digits is a text of the bytes that their pairs are.
LEMMA DigitsAreText ==
  ASSUME NEW t \in Seq(Octet), NEW n \in Nat, Len(t) = 2 * n,
         \A i \in 1 .. 2 * n : HexDigit(t[i]) \in 0 .. 15,
         NEW bytes, Len(bytes) = n,
         \A k \in 1 .. n : bytes[k] = FromDigits(HexDigit(t[2 * k - 1]), HexDigit(t[2 * k]))
  PROVE  IsTextOf("hex", t, bytes)
<1> DEFINE d == Canonical("hex", t)
           value == [i \in 1 .. 2 * n |-> HexDigit(t[i])]
<1>1. DOMAIN t = 1 .. 2 * n
  BY LenProperties
<1>2. d = [i \in 1 .. 2 * n |-> Upper(t[i])]
  BY <1>1 DEF Canonical, Upper
<1>3. Len(d) = 2 * n
  <2> DEFINE C == {Upper(t[i]) : i \in 1 .. 2 * n}
  <2>1. d \in [1 .. 2 * n -> C] /\ 2 * n \in Nat
    BY <1>2
  <2> HIDE DEF d, C
  <2> QED BY <2>1, SeqIntro
<1>4. value \in [1 .. 2 * n -> 0 .. 15]
  OBVIOUS
<1>5. \A i \in 1 .. 2 * n : HexDigit(t[i]) = value[i] /\ d[i] = Upper(t[i])
  BY <1>2
<1>6. ASSUME NEW k \in 1 .. n
      PROVE  bytes[k] = FromDigits(value[2 * k - 1], value[2 * k])
  <2>1. 2 * k - 1 \in 1 .. 2 * n /\ 2 * k \in 1 .. 2 * n
    BY DigitPlaces
  <2> QED BY <2>1
<1>7. Canonical("hex", t) = d
  OBVIOUS
<1> HIDE DEF d, value
<1> QED BY <1>3, <1>4, <1>5, <1>6, <1>7, HexText

\* What toHex writes and what fromHex accepts are texts of the bytes.
LEMMA HexCodec ==
  /\ \A s \in Seq(Octet) : IsTextOf("hex", ToHex(s), s)
  /\ \A t \in Seq(Octet) : ~Malformed("hex", t) => IsTextOf("hex", t, FromHex(t))
<1>1. ASSUME NEW s \in Seq(Octet)
      PROVE  IsTextOf("hex", ToHex(s), s)
  <2> DEFINE t == ToHex(s)
             n == Len(s)
  <2>1. /\ t \in Seq(Octet) /\ Len(t) = 2 * n
        /\ \A i \in 1 .. 2 * n : HexDigit(t[i]) \in 0 .. 15
        /\ \A k \in 1 .. n : s[k] = FromDigits(HexDigit(t[2 * k - 1]), HexDigit(t[2 * k]))
    BY ToHexText
  <2>2. n \in Nat /\ Len(s) = n
    BY LenProperties
  <2> HIDE DEF t, n
  <2>3. IsTextOf("hex", t, s)
    BY <2>1, <2>2, DigitsAreText
  <2> QED BY <2>3 DEF t
<1>2. ASSUME NEW t \in Seq(Octet), ~Malformed("hex", t)
      PROVE  IsTextOf("hex", t, FromHex(t))
  <2> DEFINE f == FromHex(t)
             n == Len(t) \div 2
  <2>1. Len(t) \in Nat /\ DOMAIN t = 1 .. Len(t)
    BY LenProperties
  <2>2. Len(t) % 2 # 1 /\ \A i \in 1 .. Len(t) : HexDigit(t[i]) >= 0
    BY <1>2, <2>1 DEF Malformed, InAlphabet
  <2>3. Len(t) % 2 = 0 /\ n \in Nat /\ Len(t) = 2 * n
    <3> DEFINE len == Len(t)
    <3>1. len \in Nat /\ len % 2 # 1 /\ n = len \div 2
      BY <2>1, <2>2
    <3> HIDE DEF len, n
    <3>2. len % 2 = 0
      BY <3>1
    <3>3. len = 2 * (len \div 2) /\ len \div 2 \in Nat
      BY <3>1, <3>2, Even
    <3> QED BY <3>1, <3>2, <3>3 DEF len
  <2> HIDE DEF n, f
  <2>4. /\ Len(f) = n
        /\ \A i \in 1 .. Len(t) : HexDigit(t[i]) \in 0 .. 15
        /\ \A k \in 1 .. n : f[k] = FromDigits(HexDigit(t[2 * k - 1]), HexDigit(t[2 * k]))
    BY <2>2, <2>3, FromHexBytes DEF n, f
  <2>5. \A i \in 1 .. 2 * n : HexDigit(t[i]) \in 0 .. 15
    BY <2>3, <2>4
  <2>6. IsTextOf("hex", t, f)
    BY <2>3, <2>4, <2>5, DigitsAreText
  <2> QED BY <2>6 DEF f
<1> QED BY <1>1, <1>2

(* Base64 *)

\* n bytes, the symbols that carry them, and those with the padding.
LengthsFit(n, m, len) ==
  /\ m \in Nat /\ len \in Nat /\ m % 4 # 1 /\ (3 * m) \div 4 = n
  /\ len = 4 * ((m + 3) \div 4) /\ m <= len /\ len - m <= 3
  /\ m = len \/ (len - m) + (m % 4) = 4
  /\ m % 4 = 0 <=> m = len

\* The lengths that toB64 asks for are these, without the padding and with it.
LEMMA Lengths ==
  ASSUME NEW n \in Nat
  PROVE  LengthsFit(n, RequiredLen(n, TRUE), RequiredLen(n, FALSE))
<1> DEFINE q == n \div 3
           r == n % 3
           m == RequiredLen(n, TRUE)
           len == RequiredLen(n, FALSE)
<1>1. n = 3 * q + r /\ q \in Nat /\ r \in 0 .. 2
  BY SMTT(30)
<1>2. m = 4 * q + (IF r = 0 THEN 0 ELSE r + 1) /\ len = 4 * ((n + 2) \div 3)
  BY DEF RequiredLen
<1> SUFFICES LengthsFit(n, m, len)
  OBVIOUS
<1> HIDE DEF q, r, m, len
<1>3. (n + 2) \div 3 = q + (IF r = 0 THEN 0 ELSE 1)
  BY <1>1, SMTT(30)
<1>4. /\ r = 0 => m = 4 * q + 0 /\ len = 4 * (q + 0) /\ n = 3 * q + 0
      /\ r = 1 => m = 4 * q + 2 /\ len = 4 * (q + 1) /\ n = 3 * q + 1
      /\ r = 2 => m = 4 * q + 3 /\ len = 4 * (q + 1) /\ n = 3 * q + 2
  BY <1>1, <1>2, <1>3
<1>5. CASE r = 0
  <2>1. m = 4 * q + 0 /\ len = 4 * (q + 0) /\ n = 3 * q + 0
    BY <1>1, <1>4, <1>5, Zenon
  <2> HIDE DEF m, len
  <2>2. m \in Nat /\ len \in Nat /\ m % 4 = 0
    BY <1>1, <2>1, SMTT(30)
  <2>3. (3 * m) \div 4 = n
    BY <1>1, <2>1, SMTT(30)
  <2>4. (m + 3) \div 4 = q + 0
    BY <1>1, <2>1, SMTT(30)
  <2>5. len = 4 * ((m + 3) \div 4) /\ m % 4 # 1
    BY <2>1, <2>2, <2>4
  <2>6. m <= len /\ len - m <= 3
    BY <1>1, <2>1
  <2>7. m % 4 = 0 <=> m = len
    BY <1>1, <2>1, <2>2
  <2>8. m = len \/ (len - m) + (m % 4) = 4
    BY <1>1, <2>1, <2>2
  <2> QED BY <2>2, <2>3, <2>5, <2>6, <2>7, <2>8 DEF LengthsFit
<1>6. CASE r = 1
  <2>1. m = 4 * q + 2 /\ len = 4 * (q + 1) /\ n = 3 * q + 1
    BY <1>1, <1>4, <1>6, Zenon
  <2> HIDE DEF m, len
  <2>2. m \in Nat /\ len \in Nat /\ m % 4 = 2
    BY <1>1, <2>1, SMTT(30)
  <2>3. (3 * m) \div 4 = n
    BY <1>1, <2>1, SMTT(30)
  <2>4. (m + 3) \div 4 = q + 1
    BY <1>1, <2>1, SMTT(30)
  <2>5. len = 4 * ((m + 3) \div 4) /\ m % 4 # 1
    BY <2>1, <2>2, <2>4
  <2>6. m <= len /\ len - m <= 3
    BY <1>1, <2>1
  <2>7. m % 4 = 0 <=> m = len
    BY <1>1, <2>1, <2>2
  <2>8. m = len \/ (len - m) + (m % 4) = 4
    BY <1>1, <2>1, <2>2
  <2> QED BY <2>2, <2>3, <2>5, <2>6, <2>7, <2>8 DEF LengthsFit
<1>7. CASE r = 2
  <2>1. m = 4 * q + 3 /\ len = 4 * (q + 1) /\ n = 3 * q + 2
    BY <1>1, <1>4, <1>7, Zenon
  <2> HIDE DEF m, len
  <2>2. m \in Nat /\ len \in Nat /\ m % 4 = 3
    BY <1>1, <2>1, SMTT(30)
  <2>3. (3 * m) \div 4 = n
    BY <1>1, <2>1, SMTT(30)
  <2>4. (m + 3) \div 4 = q + 1
    BY <1>1, <2>1, SMTT(30)
  <2>5. len = 4 * ((m + 3) \div 4) /\ m % 4 # 1
    BY <2>1, <2>2, <2>4
  <2>6. m <= len /\ len - m <= 3
    BY <1>1, <2>1
  <2>7. m % 4 = 0 <=> m = len
    BY <1>1, <2>1, <2>2
  <2>8. m = len \/ (len - m) + (m % 4) = 4
    BY <1>1, <2>1, <2>2
  <2> QED BY <2>2, <2>3, <2>5, <2>6, <2>7, <2>8 DEF LengthsFit
<1>8. r = 0 \/ r = 1 \/ r = 2
  BY <1>1
<1> QED BY <1>5, <1>6, <1>7, <1>8, Zenon

\* The four groups of six bits of three bytes, and the bytes they are put together to.
LEMMA Sextets ==
  ASSUME NEW v \in Nat, NEW j \in 1 .. 4
  PROVE  Sextet(v, j) \in 0 .. 63
<1>1. CASE j = 1
  BY <1>1, SMTT(30) DEF Sextet
<1>2. CASE j = 2
  BY <1>2, SMTT(30) DEF Sextet
<1>3. CASE j = 3
  BY <1>3, SMTT(30) DEF Sextet
<1>4. CASE j = 4
  BY <1>4, SMTT(30) DEF Sextet
<1> QED BY <1>1, <1>2, <1>3, <1>4

Packed(x, y, z) == 65536 * x + 256 * y + z

\* The groups of a triple give its three bytes back.
LEMMA SextetsOfBytes ==
  ASSUME NEW x \in Octet, NEW y \in Octet, NEW z \in Octet
  PROVE  LET v == Packed(x, y, z)
         IN  /\ v \in Nat
             /\ FromSextets(Sextet(v, 1), Sextet(v, 2), 0) = x
             /\ FromSextets(Sextet(v, 2), Sextet(v, 3), 1) = y
             /\ FromSextets(Sextet(v, 3), Sextet(v, 4), 2) = z
<1> DEFINE v == 65536 * x + 256 * y + z
<1>1. Sextet(v, 1) = x \div 4
  BY SMTT(30) DEF Sextet, Octet
<1>2. Sextet(v, 2) = 16 * (x % 4) + y \div 16
  <2>1. v \div 4096 = 16 * x + y \div 16
    BY SMTT(30) DEF Octet
  <2>2. Sextet(v, 2) = (v \div 4096) % 64
    BY DEF Sextet
  <2>3. (16 * x + y \div 16) % 64 = 16 * (x % 4) + y \div 16
    BY SMTT(30) DEF Octet
  <2> QED BY <2>1, <2>2, <2>3
<1>3. Sextet(v, 3) = 4 * (y % 16) + z \div 64
  <2>1. v \div 64 = 1024 * x + 4 * y + z \div 64
    <3>1. z = 64 * (z \div 64) + (z % 64) /\ z % 64 \in 0 .. 63 /\ z \div 64 \in 0 .. 3
      BY SMTT(30) DEF Octet
    <3> DEFINE a == 1024 * x + 4 * y + z \div 64
               b == z % 64
    <3>2. v = 64 * a + b /\ a \in Nat /\ b \in 0 .. 63
      BY <3>1 DEF Octet
    <3> HIDE DEF a, b, v
    <3>3. v \div 64 = a
      BY <3>2, SMTT(30)
    <3> QED BY <3>3 DEF a
  <2>2. Sextet(v, 3) = (v \div 64) % 64
    BY DEF Sextet
  <2>3. (1024 * x + 4 * y + z \div 64) % 64 = 4 * (y % 16) + z \div 64
    BY SMTT(30) DEF Octet
  <2> QED BY <2>1, <2>2, <2>3
<1>4. Sextet(v, 4) = z % 64
  BY SMTT(30) DEF Sextet, Octet
<1> HIDE DEF v
<1>5. FromSextets(Sextet(v, 1), Sextet(v, 2), 0) = x
  BY <1>1, <1>2, SMTT(30) DEF FromSextets, Octet
<1>6. FromSextets(Sextet(v, 2), Sextet(v, 3), 1) = y
  BY <1>2, <1>3, SMTT(30) DEF FromSextets, Octet
<1>7. FromSextets(Sextet(v, 3), Sextet(v, 4), 2) = z
  BY <1>3, <1>4, SMTT(30) DEF FromSextets, Octet
<1>8. v = Packed(x, y, z) /\ v \in Nat
  BY DEF v, Packed, Octet
<1> QED BY <1>5, <1>6, <1>7, <1>8, Zenon

\* The place of a symbol in its quartet.
LEMMA FourIndex ==
  ASSUME NEW g \in Nat, NEW r \in 0 .. 3
  PROVE  (4 * g + r) \div 4 = g /\ (4 * g + r) % 4 = r
  BY SMTT(30)

\* Every symbol has one.
LEMMA QuartetPlace ==
  ASSUME NEW i \in Nat \ {0}
  PROVE  (i - 1) \div 4 \in Nat /\ ((i - 1) % 4) + 1 \in 1 .. 4
  BY SMTT(30)

\* The values of the symbols that toB64 writes.
SymbolValue(s, i) == Sextet(Triple(s, (i - 1) \div 4), ((i - 1) % 4) + 1)

\* The values of the symbols carry the bytes.
LEMMA ValuesOfBytes ==
  ASSUME NEW s \in Seq(Octet)
  PROVE  /\ \A i \in Nat \ {0} : SymbolValue(s, i) \in 0 .. 63
         /\ \A k \in 1 .. Len(s) :
              s[k] = FromSextets(SymbolValue(s, 4 * TripleOf(k) + RankOf(k) + 1),
                                 SymbolValue(s, 4 * TripleOf(k) + RankOf(k) + 2), RankOf(k))
<1> DEFINE n == Len(s)
           byte(i) == IF i <= n THEN s[i] ELSE 0
<1>1. n \in Nat /\ \A i \in 1 .. n : s[i] \in Octet
  BY LenProperties
<1>2. \A g \in Nat : Triple(s, g) = Packed(byte(3 * g + 1), byte(3 * g + 2), byte(3 * g + 3))
  BY DEF Triple, Packed
<1> HIDE DEF n
<1>3. \A i \in Nat \ {0} : byte(i) \in Octet
  <2> TAKE i \in Nat \ {0}
  <2>1. CASE i <= n
    <3>1. i \in 1 .. n
      BY <1>1, <2>1
    <3> QED BY <1>1, <2>1, <3>1, Zenon
  <2>2. CASE ~(i <= n)
    BY <2>2 DEF Octet
  <2> QED BY <2>1, <2>2
<1>4. \A k \in 1 .. n : byte(k) = s[k]
  BY <1>1
<1> HIDE DEF byte
<1>5. ASSUME NEW g \in Nat
      PROVE  /\ byte(3 * g + 1) \in Octet /\ byte(3 * g + 2) \in Octet
             /\ byte(3 * g + 3) \in Octet
             /\ Triple(s, g) \in Nat
  <2>1. 3 * g + 1 \in Nat \ {0} /\ 3 * g + 2 \in Nat \ {0} /\ 3 * g + 3 \in Nat \ {0}
    OBVIOUS
  <2>2. byte(3 * g + 1) \in Octet /\ byte(3 * g + 2) \in Octet /\ byte(3 * g + 3) \in Octet
    BY <1>3, <2>1
  <2> DEFINE x == byte(3 * g + 1)
             y == byte(3 * g + 2)
             z == byte(3 * g + 3)
  <2>3. Triple(s, g) = Packed(x, y, z) /\ x \in Octet /\ y \in Octet /\ z \in Octet
    BY <1>2, <2>2
  <2> HIDE DEF x, y, z
  <2>4. Triple(s, g) \in Nat
    BY <2>3, SextetsOfBytes
  <2> QED BY <2>2, <2>4
<1>6. ASSUME NEW i \in Nat \ {0}
      PROVE  SymbolValue(s, i) \in 0 .. 63
  <2>1. (i - 1) \div 4 \in Nat /\ ((i - 1) % 4) + 1 \in 1 .. 4
    BY QuartetPlace
  <2> QED BY <1>5, <2>1, Sextets DEF SymbolValue
<1>7. ASSUME NEW k \in 1 .. n
      PROVE  s[k] = FromSextets(SymbolValue(s, 4 * TripleOf(k) + RankOf(k) + 1),
                                SymbolValue(s, 4 * TripleOf(k) + RankOf(k) + 2), RankOf(k))
  <2> DEFINE g == TripleOf(k)
             r == RankOf(k)
             x == byte(3 * g + 1)
             y == byte(3 * g + 2)
             z == byte(3 * g + 3)
             v == Packed(x, y, z)
  <2>1. g \in Nat /\ r \in 0 .. 2 /\ k = 3 * g + r + 1
    <3>1. k \in Nat \ {0}
      BY <1>1
    <3> QED BY <3>1, TripleIndex
  <2> SUFFICES s[k] = FromSextets(SymbolValue(s, 4 * g + r + 1), SymbolValue(s, 4 * g + r + 2), r)
    BY Zenon
  <2> HIDE DEF g, r
  <2>2. x \in Octet /\ y \in Octet /\ z \in Octet /\ Triple(s, g) = v
    <3>1. g \in Nat
      BY <2>1, Zenon
    <3>2. Triple(s, g) = v
      BY <1>2, <3>1, Zenon
    <3>3. x \in Octet /\ y \in Octet /\ z \in Octet
      BY <1>5, <3>1, Zenon
    <3> QED BY <3>2, <3>3
  <2>3. /\ SymbolValue(s, 4 * g + r + 1) = Sextet(v, r + 1)
        /\ SymbolValue(s, 4 * g + r + 2) = Sextet(v, r + 2)
    <3>1. /\ (4 * g + r + 1) - 1 = 4 * g + r /\ (4 * g + r + 2) - 1 = 4 * g + (r + 1)
          /\ r \in 0 .. 3 /\ r + 1 \in 0 .. 3
      BY <2>1
    <3>2. /\ (4 * g + r) \div 4 = g /\ (4 * g + r) % 4 = r
          /\ (4 * g + (r + 1)) \div 4 = g /\ (4 * g + (r + 1)) % 4 = r + 1
      BY <2>1, <3>1, FourIndex
    <3>3. (r + 1) + 1 = r + 2
      BY <2>1
    <3> HIDE DEF v
    <3> QED BY <2>2, <3>1, <3>2, <3>3, Zenon DEF SymbolValue
  <2>4. /\ r = 0 => s[k] = x
        /\ r = 1 => s[k] = y
        /\ r = 2 => s[k] = z
    <3>1. s[k] = byte(k) /\ k = 3 * g + r + 1
      BY <1>4, <2>1
    <3>2. r = 0 => k = 3 * g + 1
      BY <2>1, <3>1
    <3>3. r = 1 => k = 3 * g + 2
      BY <2>1, <3>1
    <3>4. r = 2 => k = 3 * g + 3
      BY <2>1, <3>1
    <3> QED BY <3>1, <3>2, <3>3, <3>4, Zenon
  <2> HIDE DEF x, y, z
  <2>5. /\ FromSextets(Sextet(v, 1), Sextet(v, 2), 0) = x
        /\ FromSextets(Sextet(v, 2), Sextet(v, 3), 1) = y
        /\ FromSextets(Sextet(v, 3), Sextet(v, 4), 2) = z
    BY <2>2, SextetsOfBytes
  <2> HIDE DEF v
  <2>6. s[k] = FromSextets(Sextet(v, r + 1), Sextet(v, r + 2), r)
    <3>1. CASE r = 0
      BY <2>4, <2>5, <3>1
    <3>2. CASE r = 1
      BY <2>4, <2>5, <3>2
    <3>3. CASE r = 2
      BY <2>4, <2>5, <3>3
    <3> QED BY <2>1, <3>1, <3>2, <3>3
  <2> QED BY <2>3, <2>6, Zenon
<1> QED BY <1>6, <1>7 DEF n

\* What toB64 writes: the symbols of the values, then the padding.
Written(t, m, len, s, u) ==
  /\ t \in Seq(Octet) /\ Len(t) = len /\ SymbolsOf(t) = m
  /\ \A i \in 1 .. m : b64DecodeChar(t[i], u) = SymbolValue(s, i)
  /\ \A i \in m + 1 .. len : t[i] = Pad
  /\ \A i \in 1 .. len : ~IsBlank(t[i])

\* The places of the symbols and of the padding.
LEMMA SymbolPlaces ==
  ASSUME NEW m \in Nat, NEW len \in Nat, m <= len
  PROVE  /\ m \in 0 .. len
         /\ \A i \in 1 .. len : i \in Nat \ {0} /\ (i \in 1 .. m \/ i \in m + 1 .. len)
         /\ \A i \in 1 .. m : i \in 1 .. len /\ i <= m
         /\ \A i \in m + 1 .. len : i \in 1 .. len /\ ~(i <= m)
         /\ m # len => m + 1 \in m + 1 .. len
  OBVIOUS

\* This is what toB64 returns.
LEMMA WrittenText ==
  ASSUME NEW s \in Seq(Octet), NEW u \in BOOLEAN
  PROVE  Written(ToB64(s, u), RequiredLen(Len(s), TRUE), RequiredLen(Len(s), u), s, u)
<1> DEFINE t == ToB64(s, u)
           m == RequiredLen(Len(s), TRUE)
           len == RequiredLen(Len(s), u)
           all == RequiredLen(Len(s), FALSE)
<1>1. Len(s) \in Nat
  BY LenProperties
<1>2. t = [i \in 1 .. len |-> IF i <= m THEN b64EncodeChar(SymbolValue(s, i), u) ELSE Pad]
  BY DEF ToB64, SymbolValue
<1>3. m \in Nat /\ len \in Nat /\ m <= len
  <2>1. LengthsFit(Len(s), m, all)
    BY <1>1, Lengths
  <2>2. len = m \/ len = all
    <3>1. u = TRUE \/ u = FALSE
      OBVIOUS
    <3> QED BY <3>1, Zenon
  <2> HIDE DEF m, len, all
  <2>3. m \in Nat /\ all \in Nat /\ m <= all /\ m <= m
    BY <2>1 DEF LengthsFit
  <2> QED BY <2>2, <2>3, Zenon
<1> SUFFICES Written(t, m, len, s, u)
  OBVIOUS
<1> HIDE DEF t, m, len, all
<1>4. ASSUME NEW i \in 1 .. m
      PROVE  /\ t[i] \in Octet /\ t[i] # Pad /\ ~IsBlank(t[i])
             /\ b64DecodeChar(t[i], u) = SymbolValue(s, i)
  <2>1. i \in Nat \ {0} /\ i \in 1 .. len /\ i <= m
    BY <1>3, SymbolPlaces, Zenon
  <2>2. SymbolValue(s, i) \in 0 .. 63
    BY <2>1, ValuesOfBytes
  <2>3. t[i] = b64EncodeChar(SymbolValue(s, i), u)
    BY <1>2, <2>1, Zenon
  <2> QED BY <2>2, <2>3, Base64Symbols, ZenonT(60)
<1>5. ASSUME NEW i \in m + 1 .. len
      PROVE  t[i] = Pad
  <2>1. i \in 1 .. len /\ ~(i <= m)
    BY <1>3, SymbolPlaces, Zenon
  <2> QED BY <1>2, <2>1, Zenon
<1>6. Pad \in Octet /\ ~IsBlank(Pad)
  BY DEF Pad, IsBlank, Octet
<1>7. \A i \in 1 .. len : i \in 1 .. m \/ i \in m + 1 .. len
  BY <1>3, SymbolPlaces, Zenon
<1>8. \A i \in 1 .. len : t[i] \in Octet /\ ~IsBlank(t[i])
  <2> TAKE i \in 1 .. len
  <2>1. CASE i \in 1 .. m
    BY <1>4, <2>1, Zenon
  <2>2. CASE i \in m + 1 .. len
    BY <1>5, <1>6, <2>2, Zenon
  <2> QED BY <1>7, <2>1, <2>2, Zenon
<1>9. t \in Seq(Octet) /\ Len(t) = len
  <2>1. t \in [1 .. len -> Octet]
    BY <1>2, <1>8, Zenon
  <2> QED BY <1>3, <2>1, SeqIntro
<1>10. EndsAt(t, m)
  <2>1. m \in 0 .. Len(t)
    BY <1>3, <1>9, SymbolPlaces, Zenon
  <2>2. m # len => t[m + 1] = Pad
    BY <1>3, <1>5, SymbolPlaces, Zenon
  <2> QED BY <1>9, <2>1, <2>2, Zenon DEF EndsAt
<1>11. SymbolsOf(t) = m
  <2>1. Len(t) \in Nat /\ \A i \in 1 .. m : t[i] # Pad
    BY <1>3, <1>4, <1>9, Zenon
  <2> QED BY <1>10, <2>1, SymbolsUnique
<1> QED BY <1>4, <1>5, <1>8, <1>9, <1>11, Zenon DEF Written

\* The padding that is not refused is the one that fills the last quartet.
LEMMA PadsFill ==
  ASSUME NEW m \in Nat, NEW len \in Nat, m <= len, m % 4 # 1, NEW u \in BOOLEAN,
         len - m > 0 => (len - m) + (m % 4) = 4,
         ~((len - m > 0) = (m % 4 = 0 \/ u))
  PROVE  len = IF u THEN m ELSE 4 * ((m + 3) \div 4)
<1>1. CASE m % 4 = 0 \/ u
  <2>1. len = m
    BY <1>1
  <2>2. m % 4 = 0 => m = 4 * ((m + 3) \div 4)
    BY SMTT(30)
  <2> QED BY <1>1, <2>1, <2>2
<1>2. CASE ~(m % 4 = 0 \/ u)
  <2> DEFINE q == m \div 4
             r == m % 4
  <2>1. m = 4 * q + r /\ q \in Nat /\ r \in 2 .. 3
    BY <1>2, SMTT(30)
  <2>2. len = m + (4 - r) /\ ~u
    BY <1>2
  <2> HIDE DEF q, r
  <2>3. (m + 3) \div 4 = q + 1
    BY <2>1, SMTT(30)
  <2> QED BY <2>1, <2>2, <2>3
<1> QED BY <1>1, <1>2

\* The bytes that fromB64 makes of a text it does not refuse.
ValuesOf(d, u) == [i \in 1 .. SymbolsOf(d) |-> b64DecodeChar(d[i], u)]

\* The text carries them.
LEMMA AcceptedText ==
  ASSUME NEW d, Len(d) \in Nat, NEW u \in BOOLEAN, ~FromB64Refuses(d, u),
         \A i \in 1 .. SymbolsOf(d) : b64DecodeChar(d[i], u) >= 0
  PROVE  /\ FromB64(d, u) \in Seq(Octet)
         /\ Carries(d, u, SymbolsOf(d), ValuesOf(d, u), FromB64(d, u))
<1> DEFINE m == SymbolsOf(d)
           value == ValuesOf(d, u)
           f == FromB64(d, u)
           n == (3 * m) \div 4
           len == Len(d)
           v(i) == b64DecodeChar(d[i], u)
<1>1. m \in Nat /\ m <= len /\ len \in Nat
  <2>1. EndsAt(d, m) /\ m \in Nat
    BY SymbolsEnd
  <2> QED BY <2>1 DEF EndsAt
<1>2. PadsAtEnd(d) /\ m % 4 # 1 /\ PadsOf(d) = len - m /\ ~((PadsOf(d) > 0) = (m % 4 = 0 \/ u))
  BY DEF FromB64Refuses, PadsOf
<1>3. value \in [1 .. m -> 0 .. 63] /\ \A i \in 1 .. m : value[i] = v(i)
  <2>1. \A i \in 1 .. m : b64DecodeChar(d[i], u) \in 0 .. 63
    BY SymbolsOrNot, Zenon
  <2> HIDE DEF m
  <2> QED BY <2>1 DEF ValuesOf, m
<1>4. /\ len = (IF u THEN m ELSE 4 * ((m + 3) \div 4))
      /\ \A i \in m + 1 .. len : d[i] = Pad
  <2>1. /\ len - m > 0 => (\A i \in m + 1 .. len : d[i] = Pad) /\ (len - m) + (m % 4) = 4
        /\ ~((len - m > 0) = (m % 4 = 0 \/ u)) /\ m % 4 # 1
    BY <1>2, Zenon DEF PadsAtEnd
  <2> HIDE DEF len
  <2>2. len = (IF u THEN m ELSE 4 * ((m + 3) \div 4))
    BY <1>1, <2>1, PadsFill
  <2>3. len - m > 0 \/ m + 1 .. len = {}
    BY <1>1
  <2> QED BY <2>1, <2>2, <2>3, Zenon
<1>5. n \in Nat /\ \A g \in Nat, r \in 0 .. 2 : 3 * g + r + 1 <= n => 4 * g + r + 2 <= m
  BY <1>1, <1>2, SymbolCount, Zenon
<1>6. f = [k \in 1 .. n |->
             LET r == (k - 1) % 3
                 i == 4 * ((k - 1) \div 3) + r + 1
             IN  ((v(i) * <<4, 16, 64>>[r + 1]) % 256) + (v(i + 1) \div <<16, 4, 1>>[r + 1])]
  BY DEF FromB64
<1> HIDE DEF f, n, m, value
<1>7. ASSUME NEW k \in 1 .. n
      PROVE  /\ f[k] = FromSextets(value[4 * TripleOf(k) + RankOf(k) + 1],
                                   value[4 * TripleOf(k) + RankOf(k) + 2], RankOf(k))
             /\ f[k] \in Octet
  <2> DEFINE g == TripleOf(k)
             r == RankOf(k)
             i == 4 * g + r + 1
             j == 4 * g + r + 2
             a == v(i)
             b == v(j)
  <2>1. g \in Nat /\ r \in 0 .. 2 /\ k = 3 * g + r + 1
    <3>1. k \in Nat \ {0}
      BY <1>5
    <3> QED BY <3>1, TripleIndex
  <2>2. f[k] = ((v(4 * g + r + 1) * <<4, 16, 64>>[r + 1]) % 256)
                 + (v(4 * g + r + 1 + 1) \div <<16, 4, 1>>[r + 1])
    BY <1>6, Zenon DEF TripleOf, RankOf
  <2> SUFFICES f[k] = FromSextets(value[i], value[j], r) /\ f[k] \in Octet
    BY Zenon
  <2> HIDE DEF g, r, v
  <2>3. i \in 1 .. m /\ j \in 1 .. m /\ 4 * g + r + 1 + 1 = j
    <3>1. k <= n
      BY <1>5
    <3>2. 4 * g + r + 2 <= m
      BY <1>5, <2>1, <3>1
    <3> QED BY <1>1, <2>1, <3>2
  <2>4. a \in 0 .. 63 /\ b \in 0 .. 63 /\ value[i] = a /\ value[j] = b
    BY <1>3, <2>3
  <2>5. f[k] = ((a * <<4, 16, 64>>[r + 1]) % 256) + (b \div <<16, 4, 1>>[r + 1])
    BY <2>2, <2>3
  <2> HIDE DEF a, b, i, j
  <2>6. f[k] = FromSextets(a, b, r)
    <3>1. CASE r = 0
      <4>1. f[k] = ((a * 4) % 256) + (b \div 16)
        BY <2>5, <3>1
      <4>2. (a * 4) % 256 = 4 * a
        BY <2>4, SMTT(30)
      <4> QED BY <3>1, <4>1, <4>2 DEF FromSextets
    <3>2. CASE r = 1
      <4>1. f[k] = ((a * 16) % 256) + (b \div 4)
        BY <2>5, <3>2
      <4>2. (a * 16) % 256 = 16 * (a % 16)
        BY <2>4, SMTT(30)
      <4> QED BY <3>2, <4>1, <4>2 DEF FromSextets
    <3>3. CASE r = 2
      <4>1. f[k] = ((a * 64) % 256) + (b \div 1)
        BY <2>5, <3>3
      <4>2. (a * 64) % 256 = 64 * (a % 4) /\ b \div 1 = b
        BY <2>4, SMTT(30)
      <4> QED BY <3>3, <4>1, <4>2 DEF FromSextets
    <3> QED BY <2>1, <3>1, <3>2, <3>3
  <2>7. FromSextets(a, b, r) \in Octet
    BY <2>1, <2>4, BytesOfSymbols
  <2> QED BY <2>4, <2>6, <2>7
<1>8. f \in Seq(Octet) /\ Len(f) = n
  <2>1. f \in [1 .. n -> Octet]
    BY <1>6, <1>7, Zenon
  <2> QED BY <1>5, <2>1, SeqIntro
<1>9. PackedIn(f, value)
  BY <1>7, <1>8 DEF PackedIn
<1>10. Carries(d, u, m, value, f)
  BY <1>1, <1>2, <1>3, <1>4, <1>8, <1>9 DEF Carries, n
<1> QED BY <1>8, <1>10 DEF f, m, value

\* The two symbols of the k-th byte are symbols of the text.
LEMMA SymbolsOfByte ==
  ASSUME NEW m \in Nat, m % 4 # 1, NEW k \in 1 .. (3 * m) \div 4
  PROVE  /\ 4 * TripleOf(k) + RankOf(k) + 1 \in 1 .. m
         /\ 4 * TripleOf(k) + RankOf(k) + 2 \in 1 .. m
<1> DEFINE g == TripleOf(k)
           r == RankOf(k)
           n == (3 * m) \div 4
<1>1. n \in Nat /\ \A h \in Nat, q \in 0 .. 2 : 3 * h + q + 1 <= n => 4 * h + q + 2 <= m
  BY SymbolCount, Zenon
<1> HIDE DEF n
<1>2. k \in Nat \ {0} /\ k <= n
  BY <1>1 DEF n
<1>3. g \in Nat /\ r \in 0 .. 2 /\ k = 3 * g + r + 1
  BY <1>2, TripleIndex
<1> SUFFICES 4 * g + r + 1 \in 1 .. m /\ 4 * g + r + 2 \in 1 .. m
  BY Zenon
<1> HIDE DEF g, r
<1>4. 4 * g + r + 2 <= m
  BY <1>1, <1>2, <1>3
<1> QED BY <1>3, <1>4

\* A text carries only one sequence of bytes.
LEMMA CarriedOnce ==
  ASSUME NEW d, NEW u, NEW m, NEW value, NEW other, NEW s \in Seq(Octet), NEW f \in Seq(Octet),
         Carries(d, u, m, value, s), Carries(d, u, m, other, f)
  PROVE  f = s
<1>0. /\ m \in Nat /\ m % 4 # 1 /\ \A i \in 1 .. m : value[i] = other[i]
      /\ PackedIn(s, value) /\ Len(s) = (3 * m) \div 4
      /\ PackedIn(f, other) /\ Len(f) = (3 * m) \div 4
  <2>1. \A i \in 1 .. m : b64DecodeChar(d[i], u) = value[i] /\ b64DecodeChar(d[i], u) = other[i]
    BY Zenon DEF Carries
  <2>2. \A i \in 1 .. m : value[i] = other[i]
    BY <2>1, Zenon
  <2> QED BY <2>2, Zenon DEF Carries
<1>1. ASSUME NEW k \in 1 .. (3 * m) \div 4
      PROVE  f[k] = s[k]
  <2> DEFINE i == 4 * TripleOf(k) + RankOf(k) + 1
             j == 4 * TripleOf(k) + RankOf(k) + 2
             r == RankOf(k)
  <2>1. i \in 1 .. m /\ j \in 1 .. m
    BY <1>0, SymbolsOfByte
  <2>2. k \in 1 .. Len(s) /\ k \in 1 .. Len(f)
    BY <1>0, Zenon
  <2>3. s[k] = FromSextets(value[i], value[j], r) /\ f[k] = FromSextets(other[i], other[j], r)
    BY <1>0, <2>2, Zenon DEF PackedIn
  <2> HIDE DEF i, j, r
  <2> QED BY <1>0, <2>1, <2>3, Zenon
<1>2. Len(f) = Len(s) /\ \A k \in 1 .. Len(s) : f[k] = s[k]
  BY <1>0, <1>1, Zenon
<1> QED BY <1>2, SeqEqual

\* The values of the symbols that toB64 writes carry the bytes it is given.
LEMMA EncodedBytes ==
  ASSUME NEW s \in Seq(Octet), NEW m, m = RequiredLen(Len(s), TRUE),
         NEW value, value = [i \in 1 .. m |-> SymbolValue(s, i)]
  PROVE  /\ m \in Nat /\ m % 4 # 1 /\ Len(s) = (3 * m) \div 4
         /\ value \in [1 .. m -> 0 .. 63] /\ PackedIn(s, value)
<1>1. Len(s) \in Nat
  BY LenProperties
<1>2. m \in Nat /\ m % 4 # 1 /\ (3 * m) \div 4 = Len(s)
  <2>1. LengthsFit(Len(s), m, RequiredLen(Len(s), FALSE))
    BY <1>1, Lengths
  <2> QED BY <2>1, Zenon DEF LengthsFit
<1>3. \A i \in 1 .. m : i \in Nat \ {0}
  BY <1>2
<1>4. \A i \in 1 .. m : value[i] \in 0 .. 63
  <2> TAKE i \in 1 .. m
  <2>1. SymbolValue(s, i) \in 0 .. 63
    BY <1>3, ValuesOfBytes, Zenon
  <2> QED BY <2>1, Zenon
<1>5. value \in [1 .. m -> 0 .. 63]
  BY <1>4, Zenon
<1>6. ASSUME NEW k \in 1 .. Len(s)
      PROVE  s[k] = FromSextets(value[4 * TripleOf(k) + RankOf(k) + 1],
                                value[4 * TripleOf(k) + RankOf(k) + 2], RankOf(k))
  <2> DEFINE i == 4 * TripleOf(k) + RankOf(k) + 1
             j == 4 * TripleOf(k) + RankOf(k) + 2
             r == RankOf(k)
  <2>1. i \in 1 .. m /\ j \in 1 .. m
    <3>1. k \in 1 .. (3 * m) \div 4
      BY <1>2, Zenon
    <3> QED BY <1>2, <3>1, SymbolsOfByte
  <2>2. s[k] = FromSextets(SymbolValue(s, i), SymbolValue(s, j), r)
    BY ValuesOfBytes, Zenon
  <2> SUFFICES s[k] = FromSextets(value[i], value[j], r)
    BY Zenon
  <2> HIDE DEF i, j, r
  <2> QED BY <2>1, <2>2, Zenon
<1> QED BY <1>2, <1>5, <1>6, Zenon DEF PackedIn

\* toB64 writes a text of the bytes; fromB64 accepts it and gives the bytes back.
LEMMA Encoded64 ==
  ASSUME NEW form \in {"b64", "url"}, NEW s \in Seq(Octet)
  PROVE  LET u == form = "url"
             t == ToB64(s, u)
         IN  /\ t \in Seq(Octet) /\ Len(t) = RequiredLen(Len(s), u) /\ IsTextOf(form, t, s)
             /\ Dense(t) = t /\ InAlphabet(form, t) /\ ~FromB64Refuses(t, u) /\ FromB64(t, u) = s
<1> DEFINE u == form = "url"
           t == ToB64(s, u)
           n == Len(s)
           m == RequiredLen(n, TRUE)
           len == RequiredLen(n, u)
           all == RequiredLen(n, FALSE)
           value == [i \in 1 .. m |-> SymbolValue(s, i)]
<1>1. u \in BOOLEAN /\ (form = "b64" <=> ~u) /\ form # "hex" /\ n \in Nat
  BY LenProperties
<1>2. /\ m \in Nat /\ m % 4 # 1 /\ Len(s) = (3 * m) \div 4
      /\ value \in [1 .. m -> 0 .. 63] /\ PackedIn(s, value)
  BY EncodedBytes
<1>3. LengthsFit(n, m, all)
  BY <1>1, Lengths
<1>4. Written(t, m, len, s, u)
  <2> HIDE DEF u
  <2> QED BY <1>1, WrittenText
<1>5. len = IF u THEN m ELSE all
  <2>1. u = TRUE \/ u = FALSE
    BY <1>1
  <2> QED BY <2>1, Zenon
<1> SUFFICES /\ t \in Seq(Octet) /\ Len(t) = len /\ IsTextOf(form, t, s)
             /\ Dense(t) = t /\ InAlphabet(form, t) /\ ~FromB64Refuses(t, u)
             /\ FromB64(t, u) = s
  OBVIOUS
<1>6. \A i \in 1 .. m : value[i] = SymbolValue(s, i)
  OBVIOUS
<1> HIDE DEF t, m, len, all, n, value
<1>7. t \in Seq(Octet) /\ Len(t) = len /\ SymbolsOf(t) = m /\ len \in Nat
  <2>1. t \in Seq(Octet) /\ Len(t) = len /\ SymbolsOf(t) = m
    BY <1>4, Zenon DEF Written
  <2>2. Len(t) \in Nat
    BY <2>1, LenProperties
  <2> QED BY <2>1, <2>2, Zenon
<1>8. Dense(t) = t /\ Canonical(form, t) = t
  <2>1. \A i \in 1 .. Len(t) : ~IsBlank(t[i])
    BY <1>4, Zenon DEF Written
  <2> QED BY <1>7, <2>1, DenseText
<1>9. \A i \in 1 .. m : b64DecodeChar(t[i], u) = value[i] /\ b64DecodeChar(t[i], u) >= 0
  <2>1. \A i \in 1 .. m : b64DecodeChar(t[i], u) = value[i] /\ value[i] \in 0 .. 63
    BY <1>2, <1>4, <1>6, Zenon DEF Written
  <2> QED BY <2>1, SymbolsOrNot, Zenon
<1>10. \A i \in m + 1 .. Len(t) : t[i] = Pad
  BY <1>4, <1>7, Zenon DEF Written
<1>11. Carries(t, u, m, value, s) /\ IsTextOf(form, t, s)
  <2>1. Carries(t, u, m, value, s)
    <3> HIDE DEF u
    <3>1. \A i \in 1 .. m : b64DecodeChar(t[i], u) = value[i]
      BY <1>9, Zenon
    <3>2. Len(t) = (IF u THEN m ELSE 4 * ((m + 3) \div 4))
      BY <1>3, <1>5, <1>7, Zenon DEF LengthsFit
    <3> QED BY <1>2, <1>10, <3>1, <3>2, Zenon DEF Carries
  <2>2. Carries(Canonical(form, t), form = "url", m, value, s)
    BY <1>8, <2>1, Zenon
  <2> QED BY <2>1, <2>2, Base64Text
<1>12. InAlphabet(form, t)
  BY <1>1, <1>7, <1>9 DEF InAlphabet
<1>13. ~FromB64Refuses(t, u)
  <2>1. PadsOf(t) = len - m
    BY <1>7 DEF PadsOf
  <2>2. /\ m % 4 # 1 /\ len - m <= 3
        /\ len - m > 0 => (len - m) + (m % 4) = 4
        /\ ~((len - m > 0) = (m % 4 = 0 \/ u))
    <3>1. CASE u
      <4>1. len = m
        BY <1>5, <3>1
      <4> HIDE DEF u
      <4> QED BY <1>2, <3>1, <4>1
    <3>2. CASE ~u
      <4>1. len = all
        BY <1>5, <3>2
      <4> HIDE DEF u
      <4>2. /\ m \in Nat /\ all \in Nat /\ m % 4 # 1 /\ m <= all /\ all - m <= 3
            /\ m = all \/ (all - m) + (m % 4) = 4
            /\ m % 4 = 0 <=> m = all
        BY <1>3, Zenon DEF LengthsFit
      <4>3. (all - m > 0) <=> m # all
        BY <4>2
      <4> QED BY <3>2, <4>1, <4>2, <4>3
    <3> QED BY <3>1, <3>2
  <2> HIDE DEF u
  <2>3. PadsAtEnd(t)
    BY <1>7, <1>10, <2>1, <2>2, Zenon DEF PadsAtEnd
  <2> QED BY <1>7, <2>1, <2>2, <2>3 DEF FromB64Refuses
<1>14. FromB64(t, u) = s
  <2> DEFINE f == FromB64(t, u)
  <2>1. f \in Seq(Octet) /\ Carries(t, u, m, ValuesOf(t, u), f)
    <3> HIDE DEF u
    <3>1. /\ Len(t) \in Nat /\ u \in BOOLEAN /\ ~FromB64Refuses(t, u) /\ m = SymbolsOf(t)
          /\ \A i \in 1 .. SymbolsOf(t) : b64DecodeChar(t[i], u) >= 0
      BY <1>1, <1>7, <1>9, <1>13, Zenon
    <3> QED BY <3>1, AcceptedText
  <2> HIDE DEF u, f
  <2>2. f = s
    BY <1>11, <2>1, CarriedOnce
  <2> QED BY <2>2 DEF f
<1> QED BY <1>7, <1>8, <1>11, <1>12, <1>13, <1>14

\* A text that fromB64 accepts is one of the bytes it returns.
LEMMA Decoded64 ==
  ASSUME NEW form \in {"b64", "url"}, NEW t \in Seq(Octet), ~Malformed(form, t)
  PROVE  Decoded(form, t) \in Seq(Octet) /\ IsTextOf(form, t, Decoded(form, t))
<1> DEFINE u == form = "url"
           d == Dense(t)
           f == FromB64(d, u)
           m == SymbolsOf(d)
<1>1. u \in BOOLEAN /\ (form = "b64" <=> ~u) /\ form # "hex"
  OBVIOUS
<1>2. Len(d) \in Nat /\ Canonical(form, t) = d
  BY DenseText
<1>3. InAlphabet(form, d) /\ ~FromB64Refuses(d, u) /\ Decoded(form, t) = f
  BY <1>1 DEF Malformed, Decoded
<1>4. \A i \in 1 .. m : b64DecodeChar(d[i], u) >= 0
  BY <1>1, <1>3 DEF InAlphabet
<1>5. f \in Seq(Octet) /\ Carries(d, u, m, ValuesOf(d, u), f)
  <2> HIDE DEF d, u
  <2>1. Len(d) \in Nat /\ u \in BOOLEAN /\ ~FromB64Refuses(d, u)
    BY <1>1, <1>2, <1>3
  <2>2. \A i \in 1 .. SymbolsOf(d) : b64DecodeChar(d[i], u) >= 0
    BY <1>4
  <2> QED BY <2>1, <2>2, AcceptedText
<1>6. IsTextOf(form, t, f)
  <2>1. Carries(Canonical(form, t), form = "url", m, ValuesOf(d, u), f)
    BY <1>2, <1>5, Zenon
  <2> HIDE DEF d, u, f, m
  <2> QED BY <2>1, Base64Text
<1> QED BY <1>3, <1>5, <1>6, Zenon

(* The codecs, whatever the form *)

\* What an encoder writes is a text of the bytes, and the decoder gives them back.
LEMMA EncodedText ==
  ASSUME NEW form \in Forms, NEW s \in Seq(Octet)
  PROVE  /\ Encoded(form, s) \in Seq(Octet)
         /\ Len(Encoded(form, s)) = EncodedLen(form, Len(s))
         /\ IsTextOf(form, Encoded(form, s), s)
         /\ ~Malformed(form, Encoded(form, s)) /\ Decoded(form, Encoded(form, s)) = s
<1>1. CASE form = "hex"
  <2>1. Encoded("hex", s) = ToHex(s) /\ EncodedLen("hex", Len(s)) = 2 * Len(s)
    BY DEF Encoded, EncodedLen
  <2>2. ToHex(s) \in Seq(Octet) /\ Len(ToHex(s)) = 2 * Len(s)
    BY ToHexText, Zenon
  <2>3. ~Malformed("hex", ToHex(s)) /\ FromHex(ToHex(s)) = s
    BY HexRoundTrip, Zenon
  <2>4. IsTextOf("hex", ToHex(s), s)
    BY HexCodec, Zenon
  <2>5. Decoded("hex", ToHex(s)) = s
    BY <2>3 DEF Decoded
  <2> QED BY <1>1, <2>1, <2>2, <2>3, <2>4, <2>5, Zenon
<1>2. CASE form # "hex"
  <2> DEFINE u == form = "url"
             t == ToB64(s, u)
  <2>1. form \in {"b64", "url"}
    BY <1>2 DEF Forms
  <2>2. /\ t \in Seq(Octet) /\ Len(t) = RequiredLen(Len(s), u) /\ IsTextOf(form, t, s)
        /\ Dense(t) = t /\ InAlphabet(form, t) /\ ~FromB64Refuses(t, u) /\ FromB64(t, u) = s
    BY <2>1, Encoded64, Zenon
  <2>3. Encoded(form, s) = t /\ EncodedLen(form, Len(s)) = RequiredLen(Len(s), u)
    BY <1>2, Zenon DEF Encoded, EncodedLen
  <2> SUFFICES /\ t \in Seq(Octet) /\ Len(t) = RequiredLen(Len(s), u) /\ IsTextOf(form, t, s)
               /\ ~Malformed(form, t) /\ Decoded(form, t) = s
    BY <2>3, Zenon
  <2> HIDE DEF t
  <2>4. ~Malformed(form, t) /\ Decoded(form, t) = s
    BY <1>2, <2>2, Zenon DEF Malformed, Decoded
  <2> QED BY <2>2, <2>4, Zenon
<1> QED BY <1>1, <1>2

\* What a decoder accepts is a text of the bytes it returns.
LEMMA DecodedText ==
  ASSUME NEW form \in Forms, NEW t \in Seq(Octet), ~Malformed(form, t)
  PROVE  Decoded(form, t) \in Seq(Octet) /\ IsTextOf(form, t, Decoded(form, t))
<1>1. CASE form = "hex"
  <2>1. Decoded("hex", t) = FromHex(t) /\ ~Malformed("hex", t)
    BY <1>1, Zenon DEF Decoded
  <2>2. IsTextOf("hex", t, FromHex(t))
    BY <2>1, HexCodec, Zenon
  <2>3. Len(t) % 2 = 0 /\ \A i \in 1 .. Len(t) : HexDigit(t[i]) >= 0
    <3>1. Len(t) \in Nat /\ DOMAIN t = 1 .. Len(t)
      BY LenProperties
    <3>2. Len(t) % 2 # 1 /\ \A i \in 1 .. Len(t) : HexDigit(t[i]) >= 0
      BY <2>1, <3>1 DEF Malformed, InAlphabet
    <3> QED BY <3>1, <3>2
  <2>4. FromHex(t) \in Seq(Octet)
    BY <2>3, FromHexBytes, Zenon
  <2> QED BY <1>1, <2>1, <2>2, <2>4, Zenon
<1>2. CASE form # "hex"
  <2>1. form \in {"b64", "url"}
    BY <1>2 DEF Forms
  <2> QED BY <2>1, Decoded64
<1> QED BY <1>1, <1>2

-----------------------------------------------------------------------------
(* The caller *)

Phases == {"data", "short", "text", "rejected", "decoded", "stuck"}

JobType ==
  job \in [form : Forms, data : Seq(Octet), text : Seq(Octet), out : Seq(Octet),
           room : Nat, size : Nat, written : Nat, changed : BOOLEAN, phase : Phases]

\* What each phase of the job knows.  A caller that was refused has been told a
\* size; a text that was not changed is the one of the data.
CodecInv ==
  /\ JobType
  /\ job.phase \in {"data", "short"} => ~job.changed
  /\ job.phase = "short" => job.size = EncodedLen(job.form, Len(job.data))
  /\ job.phase \in {"text", "rejected", "decoded", "stuck"} /\ ~job.changed =>
       job.text = Encoded(job.form, job.data)
  /\ job.phase = "rejected" /\ ~job.changed =>
       job.room < Len(job.data) /\ job.size = RefusedLen(job.form, job.text, job.room)
  /\ job.phase = "decoded" =>
       ~Malformed(job.form, job.text) /\ job.out = Decoded(job.form, job.text)
  /\ SizesAreRight

\* From what a phase knows and the facts about the codecs follows the property.
LEMMA CodecInvImplies == CodecInv => AcceptsExactlyEncodings
<1> SUFFICES ASSUME CodecInv PROVE AcceptsExactlyEncodings
  OBVIOUS
<1>1. job.form \in Forms /\ job.data \in Seq(Octet) /\ job.text \in Seq(Octet)
  BY DEF CodecInv, JobType
<1>2. ASSUME job.phase = "text", ~job.changed
      PROVE  IsTextOf(job.form, job.text, job.data)
  <2>1. job.text = Encoded(job.form, job.data)
    BY <1>2 DEF CodecInv
  <2> QED BY <1>1, <2>1, EncodedText, Zenon
<1>3. ASSUME job.phase = "rejected", ~job.changed
      PROVE  job.room < Len(job.data)
  BY <1>3 DEF CodecInv
<1>4. ASSUME job.phase = "decoded"
      PROVE  /\ ~Malformed(job.form, job.text) /\ job.out = Decoded(job.form, job.text)
             /\ ~job.changed => job.text = Encoded(job.form, job.data)
  BY <1>4 DEF CodecInv
<1>5. ASSUME job.phase = "decoded", ~job.changed
      PROVE  job.out = job.data
  BY <1>1, <1>4, <1>5, EncodedText, Zenon
<1>6. ASSUME job.phase = "decoded"
      PROVE  IsTextOf(job.form, job.text, job.out)
  BY <1>1, <1>4, <1>6, DecodedText, Zenon
<1> QED BY <1>2, <1>3, <1>5, <1>6, Zenon DEF AcceptsExactlyEncodings

\* What the caller of an encoder is told, and what it is left with.
LEMMA EncodeStep ==
  ASSUME CodecInv, ~job.changed, NEW room \in Nat, NEW next \in {"short", "stuck"},
         next = "stuck" => room >= EncodedLen(job.form, Len(job.data)), Encode(room, next)
  PROVE  CodecInv'
<1> DEFINE n == EncodedLen(job.form, Len(job.data))
           t == Encoded(job.form, job.data)
<1>1. JobType
  BY DEF CodecInv
<1>2. t \in Seq(Octet) /\ Len(t) = n /\ n \in Nat
  <2>1. job.form \in Forms /\ job.data \in Seq(Octet)
    BY <1>1 DEF JobType
  <2>2. t \in Seq(Octet) /\ Len(t) = n
    BY <2>1, EncodedText, Zenon
  <2>3. Len(t) \in Nat
    BY <2>2, LenProperties
  <2> QED BY <2>2, <2>3, Zenon
<1>3. job' = IF room < n
             THEN [job EXCEPT !.room = room, !.size = n, !.written = 0, !.phase = next]
             ELSE [job EXCEPT !.room = room, !.size = n, !.written = n + TrailingNul(room, n),
                              !.text = t, !.phase = "text"]
  BY Zenon DEF Encode
<1>4. next \in Phases /\ "text" \in Phases
  BY DEF Phases
<1> HIDE DEF n, t
<1>5. CASE room < n
  <2>1. job' = [job EXCEPT !.room = room, !.size = n, !.written = 0, !.phase = next]
    BY <1>3, <1>5
  <2>2. next = "short"
    BY <1>2, <1>5 DEF n
  <2>3. JobType'
    BY <1>1, <1>2, <1>4, <2>1 DEF JobType
  <2>4. /\ job'.phase = "short" /\ job'.written = 0 /\ job'.room = room /\ job'.size = n
        /\ job'.form = job.form /\ job'.data = job.data /\ job'.text = job.text
        /\ job'.changed = job.changed
    BY <1>1, <2>1, <2>2 DEF JobType
  <2>5. SizesAreRight'
    BY <2>4 DEF SizesAreRight
  <2> QED BY <2>3, <2>4, <2>5 DEF CodecInv, n
<1>6. CASE ~(room < n)
  <2> DEFINE w == n + TrailingNul(room, n)
  <2>1. job' = [job EXCEPT !.room = room, !.size = n, !.written = w, !.text = t, !.phase = "text"]
    BY <1>3, <1>6
  <2>2. w \in Nat /\ w <= room
    BY <1>2, <1>6 DEF TrailingNul
  <2> HIDE DEF w
  <2>3. JobType'
    BY <1>1, <1>2, <1>4, <2>1, <2>2 DEF JobType
  <2>4. /\ job'.phase = "text" /\ job'.written = w /\ job'.room = room /\ job'.size = n
        /\ job'.form = job.form /\ job'.data = job.data /\ job'.text = t
        /\ job'.changed = job.changed
    BY <1>1, <2>1 DEF JobType
  <2>5. SizesAreRight'
    BY <2>2, <2>4 DEF SizesAreRight
  <2>6. job'.text = Encoded(job'.form, job'.data)
    BY <2>4 DEF t
  <2> QED BY <2>3, <2>4, <2>5, <2>6 DEF CodecInv
<1> QED BY <1>5, <1>6

\* The same of a decoder.
LEMMA DecodeStep ==
  ASSUME CodecInv, job.phase \in {"text", "rejected"}, NEW room \in Nat,
         NEW next \in {"rejected", "stuck"}, Decode(room, next),
         (next = "stuck" /\ ~job.changed /\ room < Len(job.data)) =>
            (job.form = "url" /\ job.text # <<>>)
  PROVE  CodecInv'
<1> DEFINE out == Decoded(job.form, job.text)
           bad == Malformed(job.form, job.text)
           told == RefusedLen(job.form, job.text, room)
<1>1. /\ JobType /\ job.form \in Forms /\ job.data \in Seq(Octet) /\ job.text \in Seq(Octet)
  BY DEF CodecInv, JobType
<1>2. ~job.changed => ~bad /\ out = job.data /\ job.text = Encoded(job.form, job.data)
  <2> SUFFICES ASSUME ~job.changed
               PROVE  ~bad /\ out = job.data /\ job.text = Encoded(job.form, job.data)
    OBVIOUS
  <2>1. job.text = Encoded(job.form, job.data)
    BY DEF CodecInv
  <2> QED BY <1>1, <2>1, EncodedText, Zenon
<1>3. ~bad => out \in Seq(Octet) /\ Len(out) \in Nat
  <2> SUFFICES ASSUME ~bad PROVE out \in Seq(Octet) /\ Len(out) \in Nat
    OBVIOUS
  <2>1. out \in Seq(Octet)
    BY <1>1, DecodedText, Zenon
  <2> HIDE DEF out
  <2> QED BY <2>1, LenProperties
<1>4. told \in Nat
  <2> DEFINE len == Len(job.text)
  <2>1. len \in Nat
    BY <1>1, LenProperties
  <2>2. told = (len \div 4) * 3 \/ told = 0 \/ told = len \div 2
    BY Zenon DEF RefusedLen
  <2> HIDE DEF len, told
  <2> QED BY <2>1, <2>2
<1>5. job' = IF bad \/ room < Len(out)
             THEN [job EXCEPT !.room = room, !.size = told, !.written = 0, !.phase = next]
             ELSE [job EXCEPT !.room = room, !.size = Len(out), !.written = Len(out),
                              !.out = out, !.phase = "decoded"]
  BY Zenon DEF Decode
<1>6. next \in Phases /\ "decoded" \in Phases
  BY DEF Phases
<1> HIDE DEF out, bad, told
<1>7. CASE bad \/ room < Len(out)
  <2>1. job' = [job EXCEPT !.room = room, !.size = told, !.written = 0, !.phase = next]
    BY <1>5, <1>7
  <2>2. JobType'
    BY <1>1, <1>4, <1>6, <2>1 DEF JobType
  <2>3. /\ job'.phase = next /\ job'.written = 0 /\ job'.room = room /\ job'.size = told
        /\ job'.form = job.form /\ job'.data = job.data /\ job'.text = job.text
        /\ job'.changed = job.changed
    BY <1>1, <2>1 DEF JobType
  <2>4. ~job.changed => room < Len(job.data) /\ job.text = Encoded(job.form, job.data)
    BY <1>2, <1>7
  <2>5. SizesAreRight'
    BY <2>3, <2>4 DEF SizesAreRight
  <2>6. told = RefusedLen(job'.form, job'.text, job'.room)
    BY <2>3 DEF told
  <2> QED BY <2>2, <2>3, <2>4, <2>5, <2>6 DEF CodecInv
<1>8. CASE ~(bad \/ room < Len(out))
  <2>1. job' = [job EXCEPT !.room = room, !.size = Len(out), !.written = Len(out),
                           !.out = out, !.phase = "decoded"]
    BY <1>5, <1>8
  <2>2. JobType'
    BY <1>1, <1>3, <1>6, <1>8, <2>1 DEF JobType
  <2>3. /\ job'.phase = "decoded" /\ job'.written = Len(out) /\ job'.room = room
        /\ job'.form = job.form /\ job'.data = job.data /\ job'.text = job.text
        /\ job'.changed = job.changed /\ job'.out = out
    BY <1>1, <2>1 DEF JobType
  <2>4. SizesAreRight'
    BY <1>3, <1>8, <2>3 DEF SizesAreRight
  <2>5. ~Malformed(job'.form, job'.text) /\ job'.out = Decoded(job'.form, job'.text)
    BY <1>8, <2>3 DEF out, bad
  <2>6. ~job'.changed => job'.text = Encoded(job'.form, job'.data)
    BY <1>2, <2>3
  <2> QED BY <2>2, <2>3, <2>4, <2>5, <2>6 DEF CodecInv
<1> QED BY <1>7, <1>8
\* The size that a decoder reports for a text of n bytes is enough for them, but not
\* for the URL form.
LEMMA ToldEnough ==
  ASSUME NEW form \in Forms, NEW n \in Nat, NEW room \in Nat, room < n,
         NEW t, Len(t) = EncodedLen(form, n), RefusedLen(form, t, room) < n
  PROVE  form = "url" /\ Len(t) # 0
<1>1. form \in {"hex", "b64", "url"}
  BY DEF Forms
<1>2. CASE form = "hex"
  <2>1. Len(t) = 2 * n
    BY <1>2 DEF EncodedLen
  <2>2. RefusedLen(form, t, room) = Len(t) \div 2
    BY <1>2, <2>1 DEF RefusedLen
  <2>3. (2 * n) \div 2 = n
    BY Even
  <2> QED BY <2>1, <2>2, <2>3
<1>3. CASE form = "b64"
  <2>1. Len(t) = 4 * ((n + 2) \div 3)
    BY <1>3 DEF EncodedLen, RequiredLen
  <2>2. RefusedLen(form, t, room) = (Len(t) \div 4) * 3
    BY <1>3 DEF RefusedLen
  <2>3. 3 * ((n + 2) \div 3) >= n /\ (n + 2) \div 3 \in Nat
    BY SMTT(30)
  <2> DEFINE q == (n + 2) \div 3
  <2> HIDE DEF q
  <2>4. (4 * q) \div 4 = q
    BY <2>3, SMTT(30) DEF q
  <2> QED BY <2>1, <2>2, <2>3, <2>4 DEF q
<1>4. CASE form = "url"
  <2>1. Len(t) = RequiredLen(n, TRUE)
    BY <1>4 DEF EncodedLen
  <2>2. (3 * Len(t)) \div 4 = n
    BY <2>1, Lengths, Zenon DEF LengthsFit
  <2>3. Len(t) # 0
    BY <2>2
  <2> QED BY <1>4, <2>3
<1> QED BY <1>1, <1>2, <1>3, <1>4

\* Another character, one more or one less leaves a text.
LEMMA ChangedText ==
  ASSUME NEW t \in Seq(Octet), NEW i \in 0 .. Len(t), NEW skip \in {0, 1},
         NEW new \in {<<>>} \cup {<<c>> : c \in Strange}
  PROVE  SubSeq(t, 1, i) \o new \o SubSeq(t, i + 1 + skip, Len(t)) \in Seq(Octet)
<1> DEFINE left == SubSeq(t, 1, i)
           right == SubSeq(t, i + 1 + skip, Len(t))
<1>1. Len(t) \in Nat
  BY LenProperties
<1>2. left \in Seq(Octet) /\ right \in Seq(Octet)
  <2>1. \A a \in 1 .. Len(t) + 1, b \in 0 .. Len(t) : SubSeq(t, a, b) \in Seq(Octet)
    BY SubSeqProperties
  <2>2. \A a \in Int, b \in Int : a > b => SubSeq(t, a, b) = << >>
    BY SubSeqProperties
  <2>3. /\ 1 \in 1 .. Len(t) + 1 /\ i \in 0 .. Len(t) /\ Len(t) \in 0 .. Len(t)
        /\ i + 1 + skip \in Int /\ Len(t) \in Int
        /\ i + 1 + skip \in 1 .. Len(t) + 1 \/ i + 1 + skip > Len(t)
    BY <1>1
  <2>4. << >> \in Seq(Octet)
    OBVIOUS
  <2> QED BY <2>1, <2>2, <2>3, <2>4, Zenon
<1>3. new \in Seq(Octet)
  <2>1. \A c \in Strange : <<c>> \in Seq(Octet)
    BY ConvertConstants DEF Octet
  <2>2. << >> \in Seq(Octet)
    OBVIOUS
  <2> QED BY <2>1, <2>2
<1> HIDE DEF left, right
<1>4. left \o new \in Seq(Octet)
  BY <1>2, <1>3, ConcatProperties
<1>5. (left \o new) \o right \in Seq(Octet)
  BY <1>2, <1>4, ConcatProperties
<1> QED BY <1>5 DEF left, right

\* The invariant holds of a new job,
LEMMA CodecInit == ConvertInit => CodecInv
<1> SUFFICES ASSUME ConvertInit PROVE CodecInv
  OBVIOUS
<1>1. PICK form \in Forms, data \in UNION {[1 .. n -> Octets] : n \in 0 .. MaxOctets} :
        job = NewJob(form, data)
  BY Zenon DEF ConvertInit
<1>2. data \in Seq(Octet)
  <2>1. PICK n \in 0 .. MaxOctets : data \in [1 .. n -> Octets]
    OBVIOUS
  <2>2. n \in Nat
    BY <2>1, ConvertConstants
  <2>3. Octets \subseteq Octet
    BY ConvertConstants DEF Octet
  <2>4. data \in [1 .. n -> Octet]
    BY <2>1, <2>3
  <2> QED BY <2>2, <2>4, SeqIntro
<1>3. JobType
  BY <1>1, <1>2 DEF JobType, NewJob, Phases
<1>4. job.phase = "data" /\ ~job.changed /\ job.written = 0 /\ job.room = 0
  BY <1>1 DEF NewJob
<1> QED BY <1>3, <1>4 DEF CodecInv, SizesAreRight

\* every call preserves it,
LEMMA CodecInductive == CodecInv /\ [ConvertNext]_job => CodecInv'
<1> SUFFICES ASSUME CodecInv, [ConvertNext]_job PROVE CodecInv'
  OBVIOUS
<1>1. /\ JobType /\ job.form \in Forms /\ job.data \in Seq(Octet) /\ job.text \in Seq(Octet)
      /\ job.size \in Nat /\ job.room \in Nat
  BY DEF CodecInv, JobType
<1>2. Len(job.data) \in Nat /\ EncodedLen(job.form, Len(job.data)) \in Nat
  <2> DEFINE t == Encoded(job.form, job.data)
  <2>1. t \in Seq(Octet) /\ Len(t) = EncodedLen(job.form, Len(job.data))
    BY <1>1, EncodedText, Zenon
  <2> HIDE DEF t
  <2>2. Len(t) \in Nat /\ Len(job.data) \in Nat
    BY <1>1, <2>1, LenProperties
  <2> QED BY <2>1, <2>2, Zenon
<1>3. CASE FirstEncode
  <2>1. PICK room \in Nat : Encode(room, "short")
    BY <1>3 DEF FirstEncode, Rooms
  <2>2. ~job.changed
    BY <1>3 DEF FirstEncode, CodecInv
  <2> QED BY <2>1, <2>2, EncodeStep
<1>4. CASE EncodeAgain
  <2>1. /\ Encode(job.size, "stuck") /\ ~job.changed
        /\ job.size = EncodedLen(job.form, Len(job.data))
    BY <1>4 DEF EncodeAgain, CodecInv
  <2>2. job.size >= EncodedLen(job.form, Len(job.data))
    BY <1>1, <2>1
  <2> QED BY <1>1, <2>1, <2>2, EncodeStep
<1>5. CASE ChangeText
  <2>1. PICK i \in 0 .. Len(job.text), skip \in {0, 1},
             new \in {<<>>} \cup {<<c>> : c \in Strange} :
          job' = [job EXCEPT !.text = SubSeq(@, 1, i) \o new \o SubSeq(@, i + 1 + skip, Len(@)),
                             !.changed = TRUE]
    BY <1>5, Zenon DEF ChangeText
  <2> DEFINE t == SubSeq(job.text, 1, i) \o new \o SubSeq(job.text, i + 1 + skip, Len(job.text))
  <2>2. t \in Seq(Octet)
    BY <1>1, ChangedText
  <2>3. job' = [job EXCEPT !.text = t, !.changed = TRUE]
    BY <1>1, <2>1 DEF JobType
  <2> HIDE DEF t
  <2>4. job.phase = "text"
    BY <1>5 DEF ChangeText
  <2>5. JobType'
    BY <1>1, <2>2, <2>3 DEF JobType
  <2>6. /\ job'.phase = "text" /\ job'.written = job.written /\ job'.room = job.room
        /\ job'.changed = TRUE
    BY <1>1, <2>3, <2>4 DEF JobType
  <2>7. job.written <= job.room
    BY DEF CodecInv, SizesAreRight
  <2> QED BY <2>5, <2>6, <2>7 DEF CodecInv, SizesAreRight
<1>6. CASE FirstDecode
  <2>1. PICK room \in Nat : Decode(room, "rejected")
    BY <1>6 DEF FirstDecode, Rooms
  <2>2. job.phase \in {"text", "rejected"}
    BY <1>6 DEF FirstDecode
  <2> QED BY <2>1, <2>2, DecodeStep
<1>7. CASE DecodeAgain
  <2>1. Decode(job.size, "stuck") /\ job.phase = "rejected"
    BY <1>7 DEF DecodeAgain
  <2>2. ASSUME ~job.changed, job.size < Len(job.data)
        PROVE  job.form = "url" /\ job.text # <<>>
    <3>1. /\ job.room < Len(job.data) /\ job.size = RefusedLen(job.form, job.text, job.room)
          /\ job.text = Encoded(job.form, job.data)
      BY <2>1, <2>2 DEF CodecInv
    <3>2. Len(job.text) = EncodedLen(job.form, Len(job.data))
      BY <1>1, <3>1, EncodedText, Zenon
    <3>3. job.form = "url" /\ Len(job.text) # 0
      BY <1>1, <1>2, <2>2, <3>1, <3>2, ToldEnough
    <3>4. Len(<<>>) = 0
      OBVIOUS
    <3> QED BY <3>3, <3>4, Zenon
  <2> QED BY <1>1, <2>1, <2>2, DecodeStep
<1>8. CASE UNCHANGED job
  BY <1>8 DEF CodecInv, JobType, SizesAreRight
<1> QED BY <1>3, <1>4, <1>5, <1>6, <1>7, <1>8 DEF ConvertNext

\* so it always holds.
LEMMA CodecAlways == ConvertSpec => []CodecInv
  BY CodecInit, CodecInductive, PTL DEF ConvertSpec

\* For every Octets, MaxOctets and Strange: a text is accepted exactly if it encodes
\* bytes by RFC 4648, and these are returned (AcceptsExactlyEncodings).
THEOREM CodesExact == ConvertSpec => []AcceptsExactlyEncodings
  BY CodecAlways, CodecInvImplies, PTL

\* And no call writes beyond the room, nor reports a size that is too small, but for
\* fromB64 of the URL form (SizesAreRight).
THEOREM SizesCorrect == ConvertSpec => []SizesAreRight
<1>1. CodecInv => SizesAreRight
  BY DEF CodecInv
<1> QED BY <1>1, CodecAlways, PTL

=============================================================================

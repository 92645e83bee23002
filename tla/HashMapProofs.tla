---------------------------- MODULE HashMapProofs ----------------------------
(***************************************************************************)
(* Proofs about StaticHashMap, for every set of keys and values, every     *)
(* hash function, every table size and every order of the operations: the  *)
(* chains of the probe loops hold, the counters and the iteration are      *)
(* right, and the table implements the dictionary.                         *)
(*                                                                         *)
(* The invariant that carries them is Shape.  Besides the probe chains it  *)
(* says that the ring of slots can be cut open between two slots where no  *)
(* probe chain passes.  The rehash without temporary storage works in      *)
(* place, in the order of the slots, and cannot know where that cut is:    *)
(* its first pass puts everything behind the cut in order, the second one  *)
(* the rest, and nothing moves again.  A single pass is not enough, and    *)
(* without the cut neither are two.  insert keeps a cut, since it needs an *)
(* empty slot to end its loop, and no other operation lengthens a chain.   *)
(*                                                                         *)
(* What the passes compute is a function defined by recursion over the     *)
(* slots; SetInduction and Iteration are the two facts about recursion     *)
(* that the proofs need.                                                   *)
(***************************************************************************)
EXTENDS StaticHashMap, FiniteSetTheorems, WellFoundedInduction, TLAPS

-----------------------------------------------------------------------------
(* Induction, and functions defined by it *)

\* Induction on the natural numbers, for a set.
LEMMA SetInduction ==
  ASSUME NEW T, 0 \in T, \A n \in Nat : n \in T => n + 1 \in T
  PROVE  \A n \in Nat : n \in T
<1> DEFINE R == OpToRel(<, Nat)
           B == Nat \ T
<1>1. SUFFICES ASSUME B # {} PROVE FALSE
  OBVIOUS
<1>2. IsWellFoundedOn(R, Nat)
  BY NatLessThanWellFounded
<1>3. \A x, y \in Nat : <<x, y>> \in R <=> x < y
  BY DEF OpToRel
<1> HIDE DEF R
<1>4. PICK x \in B : \A y \in B : ~(<<y, x>> \in R)
  BY <1>1, <1>2, WFMin
<1>5. x # 0 /\ x \in Nat
  OBVIOUS
<1>6. x - 1 \in Nat /\ x - 1 < x
  BY <1>5
<1>7. x - 1 \in T
  BY <1>3, <1>4, <1>5, <1>6
<1>8. (x - 1) + 1 \in T
  BY <1>6, <1>7
<1> QED BY <1>5, <1>8

\* Min returns the least element.
LEMMA LeastElement ==
  ASSUME NEW S \in SUBSET Nat, S # {}
  PROVE  Min(S) \in S /\ \A y \in S : Min(S) <= y
<1> DEFINE T == {n \in Nat : \A y \in S : n <= y}
<1>1. \E x \in S : \A y \in S : x <= y
  <2>1. SUFFICES ASSUME \A x \in S : \E y \in S : ~(x <= y) PROVE FALSE
    OBVIOUS
  <2>2. 0 \in T
    OBVIOUS
  <2>3. \A n \in Nat : n \in T => n + 1 \in T
    <3> SUFFICES ASSUME NEW n \in Nat, n \in T, NEW y \in S PROVE n + 1 <= y
      OBVIOUS
    <3>1. n <= y /\ y \in Nat
      OBVIOUS
    <3>2. n # y
      <4>1. ASSUME n = y PROVE FALSE
        <5>1. PICK z \in S : ~(y <= z)
          BY <2>1
        <5> QED BY <4>1, <5>1
      <4> QED BY <4>1
    <3> QED BY <3>1, <3>2
  <2>4. \A n \in Nat : n \in T
    <3> HIDE DEF T
    <3> QED BY <2>2, <2>3, SetInduction
  <2>5. PICK y \in S : TRUE
    OBVIOUS
  <2>6. y + 1 \in T
    BY <2>4
  <2> QED BY <2>5, <2>6
<1> QED BY <1>1 DEF Min

\* A function on 0 .. n given by its first value and a step function.
StepsOn(X, n) == [0 .. n - 1 -> [X -> X]]

Iterates(f, X, n, x, step) ==
  f \in [0 .. n -> X] /\ f[0] = x /\ \A m \in 1 .. n : f[m] = step[m - 1][f[m - 1]]

\* A function defined by recursion on 0 .. n exists.
LEMMA Iteration ==
  ASSUME NEW X, NEW x \in X, NEW n \in Nat, NEW step \in StepsOn(X, n)
  PROVE  \E f : Iterates(f, X, n, x, step)
<1> DEFINE Follows(m, f) == f[0] = x /\ \A k \in 1 .. m : f[k] = step[k - 1][f[k - 1]]
           T == {m \in Nat : m <= n => \E f \in [0 .. m -> X] : Follows(m, f)}
<1>1. 0 \in T
  <2> DEFINE f == [k \in 0 .. 0 |-> x]
  <2>1. f \in [0 .. 0 -> X] /\ Follows(0, f)
    OBVIOUS
  <2> QED BY <2>1
<1>2. ASSUME NEW m \in Nat, m \in T
      PROVE  m + 1 \in T
  <2> SUFFICES ASSUME m + 1 <= n
               PROVE  \E f \in [0 .. m + 1 -> X] : Follows(m + 1, f)
    OBVIOUS
  <2>1. PICK g \in [0 .. m -> X] : Follows(m, g)
    BY <1>2
  <2> DEFINE v == step[m][g[m]]
             f == [k \in 0 .. m + 1 |-> IF k = m + 1 THEN v ELSE g[k]]
  <2>2. g[m] \in X /\ m \in 0 .. n - 1
    OBVIOUS
  <2>3. v \in X
    BY <2>2 DEF StepsOn
  <2>4. f \in [0 .. m + 1 -> X]
    BY <2>3
  <2>5. f[0] = x
    BY <2>1
  <2>6. ASSUME NEW k \in 1 .. m + 1
        PROVE  f[k] = step[k - 1][f[k - 1]]
    <3>1. CASE k = m + 1
      <4>1. f[k] = v /\ f[k - 1] = g[m] /\ k - 1 = m
        BY <3>1
      <4> QED BY <4>1
    <3>2. CASE k # m + 1
      <4>1. k \in 1 .. m /\ k - 1 \in 0 .. m /\ k - 1 # m + 1
        BY <3>2
      <4>2. f[k] = g[k] /\ f[k - 1] = g[k - 1]
        BY <3>2, <4>1
      <4> QED BY <2>1, <4>1, <4>2
    <3> QED BY <3>1, <3>2
  <2> QED BY <2>4, <2>5, <2>6
<1>3. \A m \in Nat : m \in T
  <2> HIDE DEF T
  <2> QED BY <1>1, <1>2, SetInduction
<1>4. n \in T
  BY <1>3
<1> QED BY <1>4 DEF Iterates

-----------------------------------------------------------------------------
(* The ring of slots *)

\* A map with a table.
Sized == tableSize \in Nat \ {0} /\ hash \in [Keys -> Nat]

\* The probe loop of a key starts at a slot.
LEMMA HomeIsSlot ==
  ASSUME Sized, NEW k \in Keys
  PROVE  getHash(k) \in Slots
<1>1. hash[k] \in Nat /\ tableSize \in Nat /\ tableSize > 0
  BY DEF Sized
<1>2. hash[k] % tableSize \in 0 .. tableSize - 1
  BY <1>1
<1> QED BY <1>2 DEF getHash, Slots

\* Slots and their distances from a home correspond one to one.
LEMMA Distances ==
  ASSUME Sized, NEW h \in Slots
  PROVE  /\ Distance(h, h) = 0
         /\ \A i \in Slots : Distance(h, i) \in 0 .. tableSize - 1 /\ After(h, Distance(h, i)) = i
         /\ \A i, j \in Slots : Distance(h, i) = Distance(h, j) => i = j
  BY DEF Sized, Slots, Distance, After

\* The loops "first slot of some kind" find the nearest one, if there is one.
LEMMA FirstFound ==
  ASSUME Sized, NEW h \in Slots, NEW n \in 0 .. tableSize, NEW S \in SUBSET Slots
  PROVE  \/ FirstFrom(h, n, S) = NoSlot /\ \A i \in S : Distance(h, i) >= n
         \/ /\ FirstFrom(h, n, S) \in S /\ Distance(h, FirstFrom(h, n, S)) < n
            /\ \A i \in S : Distance(h, FirstFrom(h, n, S)) <= Distance(h, i)
<1> DEFINE D == {Distance(h, i) : i \in S} \cap 0 .. n - 1
<1>1. /\ tableSize \in Nat /\ n \in Nat /\ n <= tableSize
      /\ \A i \in S : Distance(h, i) \in 0 .. tableSize - 1 /\ After(h, Distance(h, i)) = i
  BY Distances DEF Sized
<1>2. CASE D = {}
  <2>1. FirstFrom(h, n, S) = NoSlot
    BY <1>2 DEF FirstFrom
  <2>2. \A i \in S : ~(Distance(h, i) \in 0 .. n - 1)
    BY <1>2
  <2> QED BY <1>1, <2>1, <2>2
<1>3. CASE D # {}
  <2>1. D \in SUBSET Nat
    BY <1>1
  <2>2. Min(D) \in D /\ \A y \in D : Min(D) <= y
    BY <1>3, <2>1, LeastElement
  <2>3. FirstFrom(h, n, S) = After(h, Min(D))
    BY <1>3 DEF FirstFrom
  <2>4. PICK r \in S : Min(D) = Distance(h, r)
    BY <2>2
  <2>5. Distance(h, r) < n /\ FirstFrom(h, n, S) = r
    BY <1>1, <2>2, <2>3, <2>4
  <2>6. ASSUME NEW i \in S
        PROVE  Distance(h, r) <= Distance(h, i)
    <3>1. CASE Distance(h, i) \in 0 .. n - 1
      BY <2>2, <2>4, <3>1
    <3>2. CASE ~(Distance(h, i) \in 0 .. n - 1)
      BY <1>1, <2>5, <3>2
    <3> QED BY <3>1, <3>2
  <2> QED BY <2>5, <2>6
<1> QED BY <1>2, <1>3

\* The place of a slot when the ring is cut open behind slot c.
Rank(c, i) == Distance(After(c, 1), i)

\* Ranks number the slots, from the one behind the cut.
LEMMA Ranks ==
  ASSUME Sized, NEW c \in Slots
  PROVE  /\ \A i \in Slots : Rank(c, i) = IF i > c THEN i - c - 1 ELSE i + tableSize - c - 1
         /\ \A i \in Slots : Rank(c, i) \in 0 .. tableSize - 1
         /\ \A i, j \in Slots : Rank(c, i) = Rank(c, j) => i = j
  BY DEF Sized, Slots, Rank, Distance, After

\* A way that does not pass the cut consists of the ranks in between.
LEMMA WayUncut ==
  ASSUME Sized, NEW c \in Slots, NEW h \in Slots, NEW i \in Slots, NEW j \in Slots,
         Rank(c, h) <= Rank(c, i)
  PROVE  /\ Distance(h, i) = Rank(c, i) - Rank(c, h)
         /\ Distance(h, j) < Distance(h, i)
              <=> Rank(c, h) <= Rank(c, j) /\ Rank(c, j) < Rank(c, i)
  BY DEF Sized, Slots, Rank, Distance, After

\* A way that ends before or at the cut does not pass it.
LEMMA WayToCut ==
  ASSUME Sized, NEW c \in Slots, NEW h \in Slots, NEW i \in Slots,
         Distance(h, i) <= Distance(h, c)
  PROVE  Rank(c, h) <= Rank(c, i)
  BY DEF Sized, Slots, Rank, Distance, After

-----------------------------------------------------------------------------
(* Tables *)

States == {EMPTY, OCCUPIED, TOMBSTONE}

EntryType == [state : States, key : Keys \cup {Zero}, value : Values \cup {Zero}]

\* The slots of tab, of a table of the right type, and home of the key in slot i.
Used(tab) == OfState(tab, OCCUPIED)
Graves(tab) == OfState(tab, TOMBSTONE)

Typed(tab) ==
  /\ tab \in [Slots -> EntryType]
  /\ \A i \in Used(tab) : tab[i].key \in Keys /\ tab[i].value \in Values

Home(tab, i) == getHash(tab[i].key)

\* No key is in two slots.
NoKeyTwice(tab) == \A i, j \in Used(tab) : tab[i].key = tab[j].key => i = j

\* No slot is empty on the way from a key's home to where it is.
Chained(tab) ==
  \A i \in Used(tab), j \in Slots :
    Distance(Home(tab, i), j) < Distance(Home(tab, i), i) => tab[j].state # EMPTY

\* The ring can be cut open between two slots so that nobody's way passes there.
CutAt(tab, c) == \A i \in Used(tab) : Rank(c, Home(tab, i)) <= Rank(c, i)
Cut(tab) == \E c \in Slots : CutAt(tab, c)

\* What the table says.
Content(tab) == {<<tab[i].key, tab[i].value>> : i \in Used(tab)}

\* OfState, for a table of the right type.
LEMMA UsedSlots ==
  ASSUME NEW tab, Typed(tab)
  PROVE  /\ DOMAIN tab = Slots
         /\ \A i : i \in Used(tab) <=> i \in Slots /\ tab[i].state = OCCUPIED
         /\ \A i : i \in Graves(tab) <=> i \in Slots /\ tab[i].state = TOMBSTONE
         /\ Used(tab) \subseteq Slots /\ Graves(tab) \subseteq Slots
         /\ Used(tab) \cap Graves(tab) = {}
         /\ \A i \in Slots : tab[i].state \in States
  BY DEF Typed, Used, Graves, OfState, EntryType, OCCUPIED, TOMBSTONE

\* Sets of slots are finite.
LEMMA SlotsFinite ==
  ASSUME Sized
  PROVE  /\ IsFiniteSet(Slots) /\ Cardinality(Slots) = tableSize
         /\ \A S \in SUBSET Slots : IsFiniteSet(S) /\ Cardinality(S) \in 0 .. tableSize
<1>1. IsFiniteSet(Slots) /\ Cardinality(Slots) = tableSize
  BY FS_Interval DEF Slots, Sized
<1>2. ASSUME NEW S \in SUBSET Slots
      PROVE  IsFiniteSet(S) /\ Cardinality(S) \in 0 .. tableSize
  BY <1>1, FS_Subset, FS_CardinalityType DEF Sized
<1> QED BY <1>1, <1>2

\* A stored key has a home.
LEMMA HomesAreSlots ==
  ASSUME Sized, NEW tab, Typed(tab), NEW i \in Used(tab)
  PROVE  i \in Slots /\ Home(tab, i) \in Slots
<1>1. tab[i].key \in Keys
  BY DEF Typed
<1> QED BY <1>1, HomeIsSlot, UsedSlots DEF Home

-----------------------------------------------------------------------------
(* One entry moves *)

\* What erase and the rehash leave behind.
LEMMA FreedEntry == Freed \in EntryType /\ Freed.state = TOMBSTONE
  BY DEF Freed, Entry, EntryType, States

Transfer(t, i, x) == [t EXCEPT ![x] = t[i], ![i] = Freed]

\* Moving an entry to a slot that is not used keeps the content.
LEMMA Moved ==
  ASSUME Sized, NEW t, Typed(t), NEW i \in Used(t), NEW x \in Slots, x \notin Used(t),
         NEW u, u = Transfer(t, i, x)
  PROVE  /\ Typed(u) /\ Used(u) = (Used(t) \ {i}) \cup {x}
         /\ u[x] = t[i] /\ \A j \in Used(t) \ {i} : u[j] = t[j]
         /\ NoKeyTwice(t) => NoKeyTwice(u)
         /\ Content(u) = Content(t)
         /\ Cardinality(Used(u)) = Cardinality(Used(t))
<1>1. /\ i \in Slots /\ i # x /\ t \in [Slots -> EntryType] /\ t[i] \in EntryType
      /\ t[i].state = OCCUPIED /\ Used(t) \subseteq Slots
      /\ \A j : j \in Used(t) <=> j \in Slots /\ t[j].state = OCCUPIED
  BY UsedSlots DEF Typed
<1>2. u \in [Slots -> EntryType]
  BY <1>1, FreedEntry DEF Transfer
<1>3. u[x] = t[i] /\ u[i] = Freed /\ \A j \in Slots \ {x, i} : u[j] = t[j]
  BY <1>1 DEF Transfer
<1>4. \A j : j \in Used(u) <=> j \in Slots /\ u[j].state = OCCUPIED
  BY <1>2 DEF Used, OfState
<1>5. Used(u) = (Used(t) \ {i}) \cup {x}
  BY <1>1, <1>3, <1>4, FreedEntry DEF OCCUPIED, TOMBSTONE
<1>6. \A j \in Used(t) \ {i} : u[j] = t[j]
  BY <1>1, <1>3
<1>7. Typed(u)
  BY <1>1, <1>2, <1>3, <1>5, <1>6 DEF Typed
<1>8. ASSUME NoKeyTwice(t), NEW j \in Used(u), NEW k \in Used(u), u[j].key = u[k].key
      PROVE  j = k
  <2>1. CASE j = x /\ k = x
    BY <2>1
  <2>2. CASE j = x /\ k # x
    <3>1. k \in Used(t) \ {i} /\ t[i].key = t[k].key
      BY <1>3, <1>5, <1>6, <1>8, <2>2
    <3> QED BY <1>8, <3>1 DEF NoKeyTwice
  <2>3. CASE j # x /\ k = x
    <3>1. j \in Used(t) \ {i} /\ t[i].key = t[j].key
      BY <1>3, <1>5, <1>6, <1>8, <2>3
    <3> QED BY <1>8, <3>1 DEF NoKeyTwice
  <2>4. CASE j # x /\ k # x
    <3>1. j \in Used(t) /\ k \in Used(t) /\ t[j].key = t[k].key
      BY <1>5, <1>6, <1>8, <2>4
    <3> QED BY <1>8, <3>1 DEF NoKeyTwice
  <2> QED BY <2>1, <2>2, <2>3, <2>4
<1>9. Content(u) = Content(t)
  BY <1>3, <1>5, <1>6 DEF Content
<1>10. Cardinality(Used(u)) = Cardinality(Used(t))
  <2>1. IsFiniteSet(Used(t)) /\ IsFiniteSet(Used(t) \ {i})
    BY <1>1, SlotsFinite
  <2>2. Cardinality(Used(t) \ {i}) = Cardinality(Used(t)) - 1
    BY <2>1, FS_RemoveElement
  <2>3. x \notin Used(t) \ {i}
    OBVIOUS
  <2>4. Cardinality((Used(t) \ {i}) \cup {x}) = Cardinality(Used(t) \ {i}) + 1
    BY <2>1, <2>3, FS_AddElement
  <2>5. Cardinality(Used(t)) \in Nat
    BY <2>1, FS_CardinalityType
  <2>6. Cardinality(Used(t)) = (Cardinality(Used(t)) - 1) + 1
    BY <2>5
  <2> QED BY <1>5, <2>2, <2>4, <2>6
<1> QED BY <1>3, <1>5, <1>6, <1>7, <1>8, <1>9, <1>10 DEF NoKeyTwice

\* The slots between the home of slot i's key and slot i are used.
Settled(t, c, i) ==
  \A j \in Slots : Rank(c, Home(t, i)) <= Rank(c, j) /\ Rank(c, j) < Rank(c, i) => j \in Used(t)

SettledBelow(t, c, n) == \A i \in Used(t) : Rank(c, i) < n => Settled(t, c, i)

\* What a redistribution never changes.
Kept(t, u, c) ==
  /\ Typed(u) /\ NoKeyTwice(u) /\ CutAt(u, c)
  /\ Content(u) = Content(t) /\ Cardinality(Used(u)) = Cardinality(Used(t))

\* Redistributing slot i settles it, and no slot before it is disturbed.
LEMMA Redistributed ==
  ASSUME Sized, NEW t, Typed(t), NoKeyTwice(t), NEW c \in Slots, CutAt(t, c), NEW i \in Slots,
         NEW u, u = Redistribute(t, i)
  PROVE  /\ Kept(t, u, c)
         /\ SettledBelow(t, c, Rank(c, i)) => SettledBelow(u, c, Rank(c, i) + 1)
         /\ SettledBelow(t, c, tableSize) => u = t
<1> DEFINE h == Home(t, i)
           to == FirstFrom(h, Distance(h, i), Slots \ Used(t))
<1>1. /\ Used(t) \subseteq Slots /\ DOMAIN t = Slots /\ (i \in Used(t) <=> t[i].state = OCCUPIED)
      /\ \A j \in Slots : Rank(c, j) \in 0 .. tableSize - 1
      /\ \A j, k \in Slots : Rank(c, j) = Rank(c, k) => j = k
  BY UsedSlots, Ranks
<1>2. tableSize \in Nat
  BY DEF Sized
<1>3. CASE i \notin Used(t)
  <2>1. u = t
    BY <1>1, <1>3 DEF Redistribute
  <2>2. SettledBelow(t, c, Rank(c, i)) => SettledBelow(t, c, Rank(c, i) + 1)
    BY <1>1, <1>3 DEF SettledBelow
  <2> QED BY <2>1, <2>2 DEF Kept
<1>4. CASE i \in Used(t)
  <2>1. h \in Slots /\ Rank(c, h) <= Rank(c, i)
    BY <1>4, HomesAreSlots DEF CutAt
  <2>2. Distance(h, i) \in 0 .. tableSize
    BY <2>1, Distances, <1>2
  <2>3. \A j \in Slots : Distance(h, j) < Distance(h, i) <=>
                           Rank(c, h) <= Rank(c, j) /\ Rank(c, j) < Rank(c, i)
    BY <2>1, WayUncut
  <2>4. \/ to = NoSlot /\ \A j \in Slots \ Used(t) : Distance(h, j) >= Distance(h, i)
        \/ /\ to \in Slots \ Used(t) /\ Distance(h, to) < Distance(h, i)
           /\ \A j \in Slots \ Used(t) : Distance(h, to) <= Distance(h, j)
    BY <2>1, <2>2, FirstFound
  <2>5. u = IF to = NoSlot THEN t ELSE [t EXCEPT ![to] = t[i], ![i] = Freed]
    BY <1>1, <1>4 DEF Redistribute, Home, Used
  <2> HIDE DEF h, to
  <2>6. \A j \in Slots : Distance(h, j) \in Int
    BY <2>1, Distances, <1>2
  <2>7. CASE to = NoSlot /\ \A j \in Slots \ Used(t) : Distance(h, j) >= Distance(h, i)
    <3>1. u = t
      BY <2>5, <2>7
    <3>2. Settled(t, c, i)
      BY <2>3, <2>6, <2>7 DEF Settled, h
    <3>3. SettledBelow(t, c, Rank(c, i)) => SettledBelow(t, c, Rank(c, i) + 1)
      BY <1>1, <3>2 DEF SettledBelow
    <3> QED BY <3>1, <3>3 DEF Kept
  <2>8. CASE /\ to \in Slots \ Used(t) /\ Distance(h, to) < Distance(h, i)
             /\ \A j \in Slots \ Used(t) : Distance(h, to) <= Distance(h, j)
    <3>1. to # NoSlot
      BY <1>2, <2>8 DEF NoSlot, Slots
    <3>2. /\ Typed(u) /\ Used(u) = (Used(t) \ {i}) \cup {to}
          /\ u[to] = t[i] /\ \A j \in Used(t) \ {i} : u[j] = t[j]
          /\ NoKeyTwice(u) /\ Content(u) = Content(t)
          /\ Cardinality(Used(u)) = Cardinality(Used(t))
      <4>1. u = Transfer(t, i, to) /\ to \in Slots /\ to \notin Used(t)
        BY <2>5, <2>8, <3>1 DEF Transfer
      <4> QED BY <1>4, <4>1, Moved
    <3>3. Home(u, to) = h /\ \A j \in Used(t) \ {i} : Home(u, j) = Home(t, j)
      BY <3>2 DEF Home, h
    <3>4. Rank(c, h) <= Rank(c, to) /\ Rank(c, to) < Rank(c, i)
      BY <2>3, <2>8
    <3>5. CutAt(u, c)
      BY <3>2, <3>3, <3>4 DEF CutAt
    <3>6. Settled(u, c, to)
      <4> SUFFICES ASSUME NEW j \in Slots, Rank(c, h) <= Rank(c, j), Rank(c, j) < Rank(c, to)
                   PROVE  j \in Used(u)
        BY <3>3 DEF Settled
      <4>1. Distance(h, j) < Distance(h, to)
        BY <2>1, <2>8, <3>4, WayUncut
      <4>2. j \in Used(t)
        BY <2>6, <2>8, <4>1
      <4>3. j # i
        BY <1>1, <3>4, <2>8
      <4> QED BY <3>2, <4>2, <4>3
    <3>7. SettledBelow(t, c, Rank(c, i)) => SettledBelow(u, c, Rank(c, i) + 1)
      <4> SUFFICES ASSUME SettledBelow(t, c, Rank(c, i)),
                          NEW k \in Used(u), Rank(c, k) < Rank(c, i) + 1, k # to
                   PROVE  Settled(u, c, k)
        BY <3>6 DEF SettledBelow
      <4>1. k \in Used(t) \ {i} /\ Rank(c, k) < Rank(c, i)
        BY <1>1, <3>2
      <4>2. Settled(t, c, k) /\ Home(u, k) = Home(t, k)
        BY <3>3, <4>1 DEF SettledBelow
      <4>3. ASSUME NEW j \in Slots, Rank(c, Home(t, k)) <= Rank(c, j), Rank(c, j) < Rank(c, k)
            PROVE  j \in Used(u)
        <5>1. j \in Used(t)
          BY <4>2, <4>3 DEF Settled
        <5>2. j # i
          BY <1>1, <4>1, <4>3
        <5> QED BY <3>2, <5>1, <5>2
      <4> QED BY <4>2, <4>3 DEF Settled
    <3>8. ~SettledBelow(t, c, tableSize)
      <4>1. SettledBelow(t, c, tableSize) => Settled(t, c, i)
        BY <1>1, <1>2, <1>4 DEF SettledBelow
      <4>2. Settled(t, c, i) => to \in Used(t)
        BY <2>8, <3>4 DEF Settled, h
      <4> QED BY <2>8, <4>1, <4>2
    <3> QED BY <3>2, <3>5, <3>7, <3>8 DEF Kept
  <2> QED BY <2>4, <2>7, <2>8
<1> QED BY <1>3, <1>4

-----------------------------------------------------------------------------
(* A pass over the table *)

\* The tables that a pass meets, cut at slot c.
CutTables(c) == {t \in [Slots -> EntryType] : Typed(t) /\ NoKeyTwice(t) /\ CutAt(t, c)}

IsPass(f, t) ==
  f = [n \in 0 .. tableSize |-> IF n = 0 THEN t ELSE Redistribute(f[n - 1], n - 1)]

\* A pass redistributes slot after slot.
LEMMA PassDefined ==
  ASSUME Sized, NEW c \in Slots, NEW t \in CutTables(c)
  PROVE  \E f : IsPass(f, t) /\ Pass(t) = f[tableSize]
<1> DEFINE X == CutTables(c)
           N == tableSize
           step == [k \in 0 .. N - 1 |-> [v \in X |-> Redistribute(v, k)]]
<1>1. N \in Nat /\ Slots = 0 .. N - 1
  BY DEF Sized, Slots
<1>2. ASSUME NEW k \in 0 .. N - 1, NEW v \in X
      PROVE  Redistribute(v, k) \in X
  <2>1. Kept(v, Redistribute(v, k), c)
    BY <1>1, <1>2, Redistributed DEF CutTables
  <2> QED BY <2>1 DEF Kept, CutTables, Typed
<1>3. step \in StepsOn(X, N)
  BY <1>2 DEF StepsOn
<1>4. \A k \in 0 .. N - 1, v \in X : step[k][v] = Redistribute(v, k)
  OBVIOUS
<1> HIDE DEF X, step
<1>5. PICK f : Iterates(f, X, N, t, step)
  <2>1. t \in X
    BY DEF X
  <2> QED BY <1>1, <1>3, <2>1, Iteration
<1>6. ASSUME NEW m \in 0 .. N
      PROVE  f[m] = IF m = 0 THEN t ELSE Redistribute(f[m - 1], m - 1)
  <2>1. CASE m = 0
    BY <1>5, <2>1 DEF Iterates
  <2>2. CASE m # 0
    <3>1. m \in 1 .. N /\ m - 1 \in 0 .. N - 1 /\ m - 1 \in 0 .. N
      BY <1>1, <2>2
    <3> QED BY <1>4, <1>5, <2>2, <3>1 DEF Iterates
  <2> QED BY <2>1, <2>2
<1>7. IsPass(f, t)
  BY <1>5, <1>6 DEF IsPass, Iterates
<1> DEFINE g == CHOOSE e : IsPass(e, t)
<1>8. IsPass(g, t)
  BY <1>7
<1>9. Pass(t) = g[tableSize]
  BY DEF Pass, IsPass
<1> HIDE DEF g
<1> QED BY <1>8, <1>9

\* Nothing is changed yet.
LEMMA PassStart ==
  ASSUME NEW c \in Slots, NEW t \in CutTables(c)
  PROVE  Kept(t, t, c)
  BY DEF Kept, CutTables

\* What two redistributions keep, both keep.
LEMMA KeptOn ==
  ASSUME NEW c \in Slots, NEW t, NEW u, NEW w, Kept(t, u, c), Kept(u, w, c)
  PROVE  Kept(t, w, c) /\ w \in CutTables(c)
  BY DEF Kept, CutTables, Typed

\* The first pass settles the slots behind the cut, the second one those before it.
LEMMA FirstPass ==
  ASSUME Sized, NEW c \in Slots, NEW t \in CutTables(c)
  PROVE  Kept(t, Pass(t), c) /\ SettledBelow(Pass(t), c, tableSize - c - 1)
<1> DEFINE N == tableSize
<1>1. PICK f : IsPass(f, t) /\ Pass(t) = f[N]
  BY PassDefined
<1>2. N \in Nat /\ c \in Nat /\ c < N /\ Slots = 0 .. N - 1
  BY DEF Sized, Slots
<1> DEFINE T == {n \in Nat : n <= N => Kept(t, f[n], c) /\ SettledBelow(f[n], c, n - c - 1)}
<1>3. 0 \in T
  <2>1. f[0] = t
    BY <1>1, <1>2 DEF IsPass
  <2>2. SettledBelow(t, c, 0 - c - 1)
    <3>1. \A i \in Used(t) : Rank(c, i) \in Nat
      BY <1>2, UsedSlots, Ranks DEF CutTables
    <3> QED BY <1>2, <3>1 DEF SettledBelow
  <2> QED BY <2>1, <2>2, PassStart
<1>4. ASSUME NEW n \in Nat, n \in T
      PROVE  n + 1 \in T
  <2> SUFFICES ASSUME n + 1 <= N
               PROVE  Kept(t, f[n + 1], c) /\ SettledBelow(f[n + 1], c, (n + 1) - c - 1)
    OBVIOUS
  <2>1. n \in Slots /\ Kept(t, f[n], c) /\ SettledBelow(f[n], c, n - c - 1)
    BY <1>2, <1>4
  <2>2. f[n + 1] = Redistribute(f[n], n)
    <3>1. n + 1 \in 0 .. N /\ n + 1 # 0 /\ (n + 1) - 1 = n
      BY <1>2
    <3> QED BY <1>1, <3>1 DEF IsPass
  <2> DEFINE v == f[n]
             w == f[n + 1]
  <2> HIDE DEF v, w
  <2>3. w = Redistribute(v, n) /\ Kept(t, v, c) /\ SettledBelow(v, c, n - c - 1)
    BY <2>1, <2>2 DEF v, w
  <2>4. /\ Kept(v, w, c)
        /\ SettledBelow(v, c, Rank(c, n)) => SettledBelow(w, c, Rank(c, n) + 1)
    BY <2>1, <2>3, Redistributed DEF Kept
  <2>5. Kept(t, w, c)
    BY <2>3, <2>4, KeptOn
  <2>6. CASE n > c
    <3>1. Rank(c, n) = n - c - 1 /\ Rank(c, n) + 1 = (n + 1) - c - 1
      BY <1>2, <2>1, <2>6, Ranks
    <3> QED BY <2>3, <2>4, <2>5, <3>1 DEF w
  <2>7. CASE ~(n > c)
    <3>1. \A i \in Used(w) : Rank(c, i) \in Nat
      BY <1>2, <2>4, UsedSlots, Ranks DEF Kept
    <3>2. SettledBelow(w, c, (n + 1) - c - 1)
      BY <1>2, <2>7, <3>1 DEF SettledBelow
    <3> QED BY <2>5, <3>2 DEF w
  <2> QED BY <2>6, <2>7
<1>5. \A n \in Nat : n \in T
  <2> HIDE DEF T
  <2> QED BY <1>3, <1>4, SetInduction
<1> QED BY <1>1, <1>2, <1>5

\* What the first pass has settled stays, and the rest is settled.
LEMMA SecondPass ==
  ASSUME Sized, NEW c \in Slots, NEW t \in CutTables(c), SettledBelow(t, c, tableSize - c - 1)
  PROVE  Kept(t, Pass(t), c) /\ SettledBelow(Pass(t), c, tableSize)
<1> DEFINE N == tableSize
           Below(n) == IF n <= c THEN n + N - c - 1 ELSE N
<1>1. PICK f : IsPass(f, t) /\ Pass(t) = f[N]
  BY PassDefined
<1>2. N \in Nat /\ c \in Nat /\ c < N /\ Slots = 0 .. N - 1
  BY DEF Sized, Slots
<1> DEFINE T == {n \in Nat : n <= N => Kept(t, f[n], c) /\ SettledBelow(f[n], c, Below(n))}
<1>3. 0 \in T
  <2>1. f[0] = t
    BY <1>1, <1>2 DEF IsPass
  <2>2. Below(0) = N - c - 1
    BY <1>2
  <2> QED BY <2>1, <2>2, PassStart
<1>4. ASSUME NEW n \in Nat, n \in T
      PROVE  n + 1 \in T
  <2> SUFFICES ASSUME n + 1 <= N
               PROVE  Kept(t, f[n + 1], c) /\ SettledBelow(f[n + 1], c, Below(n + 1))
    OBVIOUS
  <2>1. n \in Slots /\ Kept(t, f[n], c) /\ SettledBelow(f[n], c, Below(n))
    BY <1>2, <1>4
  <2>2. f[n + 1] = Redistribute(f[n], n)
    <3>1. n + 1 \in 0 .. N /\ n + 1 # 0 /\ (n + 1) - 1 = n
      BY <1>2
    <3> QED BY <1>1, <3>1 DEF IsPass
  <2> DEFINE v == f[n]
             w == f[n + 1]
  <2> HIDE DEF v, w
  <2>3. w = Redistribute(v, n) /\ Kept(t, v, c) /\ SettledBelow(v, c, Below(n))
    BY <2>1, <2>2 DEF v, w
  <2>4. /\ Kept(v, w, c)
        /\ SettledBelow(v, c, Rank(c, n)) => SettledBelow(w, c, Rank(c, n) + 1)
        /\ SettledBelow(v, c, N) => w = v
    BY <2>1, <2>3, Redistributed DEF Kept
  <2>5. Kept(t, w, c)
    BY <2>3, <2>4, KeptOn
  <2>6. CASE n <= c
    <3>1. Rank(c, n) = Below(n) /\ Rank(c, n) + 1 = Below(n + 1)
      BY <1>2, <2>1, <2>6, Ranks
    <3> QED BY <2>3, <2>4, <2>5, <3>1 DEF w
  <2>7. CASE ~(n <= c)
    <3>1. Below(n) = N /\ Below(n + 1) = N
      BY <1>2, <2>7
    <3> QED BY <2>3, <2>4, <2>5, <3>1 DEF w
  <2> QED BY <2>6, <2>7
<1>5. \A n \in Nat : n \in T
  <2> HIDE DEF T
  <2> QED BY <1>3, <1>4, SetInduction
<1>6. Below(N) = N
  BY <1>2
<1>7. Kept(t, f[N], c) /\ SettledBelow(f[N], c, Below(N))
  BY <1>2, <1>5
<1> QED BY <1>1, <1>6, <1>7

\* Two passes are enough: the table that they leave has all its chains, and no tombstone.
LEMMA SlowRehashed ==
  ASSUME Sized, NEW t, Typed(t), NoKeyTwice(t), Cut(t), NEW w, w = SlowRehash(t)
  PROVE  /\ Typed(w) /\ NoKeyTwice(w) /\ Chained(w) /\ Cut(w)
         /\ Content(w) = Content(t) /\ Cardinality(Used(w)) = Cardinality(Used(t))
         /\ Graves(w) = {}
<1>1. PICK c \in Slots : CutAt(t, c)
  BY DEF Cut
<1>2. t \in CutTables(c)
  BY <1>1 DEF CutTables, Typed
<1> DEFINE u == Pass(Pass(t))
<1>3. Kept(t, u, c) /\ SettledBelow(u, c, tableSize)
  <2>1. Kept(t, Pass(t), c) /\ SettledBelow(Pass(t), c, tableSize - c - 1)
    BY <1>2, FirstPass
  <2>2. Pass(t) \in CutTables(c)
    BY <2>1 DEF Kept, CutTables, Typed
  <2>3. Kept(Pass(t), u, c) /\ SettledBelow(u, c, tableSize)
    BY <2>1, <2>2, SecondPass
  <2> QED BY <2>1, <2>3, KeptOn
<1>4. w = [i \in Slots |-> IF u[i].state = TOMBSTONE THEN [u[i] EXCEPT !.state = EMPTY] ELSE u[i]]
  BY DEF SlowRehash, TwoPasses
<1> HIDE DEF u
<1>5. Typed(u) /\ u \in [Slots -> EntryType]
  BY <1>3 DEF Kept, Typed
<1>6. \A e \in EntryType : LET d == [e EXCEPT !.state = EMPTY]
                           IN  d \in EntryType /\ d.state = EMPTY
  BY DEF EntryType, States
<1>7. \A i \in Slots : /\ w[i] \in EntryType
                       /\ u[i].state = TOMBSTONE => w[i].state = EMPTY
                       /\ u[i].state # TOMBSTONE => w[i] = u[i]
  BY <1>4, <1>5, <1>6
<1>8. w \in [Slots -> EntryType]
  BY <1>4, <1>7
<1>9. /\ \A i : i \in Used(w) <=> i \in Slots /\ w[i].state = OCCUPIED
      /\ \A i : i \in Graves(w) <=> i \in Slots /\ w[i].state = TOMBSTONE
  BY <1>8 DEF Used, Graves, OfState
<1>10. Used(w) = Used(u) /\ Graves(w) = {} /\ \A i \in Used(u) : w[i] = u[i]
  <2>1. \A i : i \in Used(u) <=> i \in Slots /\ u[i].state = OCCUPIED
    BY <1>5, UsedSlots
  <2>2. \A i \in Used(u) : i \in Slots /\ w[i] = u[i]
    BY <1>7, <2>1 DEF OCCUPIED, TOMBSTONE
  <2>3. \A i \in Used(w) : i \in Used(u)
    BY <1>7, <1>9, <2>1 DEF OCCUPIED, EMPTY
  <2>4. \A i : i \notin Graves(w)
    BY <1>7, <1>9 DEF TOMBSTONE, EMPTY
  <2>5. \A i \in Used(u) : i \in Used(w)
    BY <1>9, <2>1, <2>2
  <2> QED BY <2>2, <2>3, <2>4, <2>5
<1>11. \A i \in Used(u) : Home(w, i) = Home(u, i)
  BY <1>10 DEF Home
<1>12. Typed(w) /\ NoKeyTwice(w) /\ Content(w) = Content(u)
  BY <1>3, <1>8, <1>10 DEF Kept, Typed, NoKeyTwice, Content
<1>13. CutAt(w, c)
  BY <1>3, <1>10, <1>11 DEF Kept, CutAt
<1>14. Chained(w)
  <2> SUFFICES ASSUME NEW i \in Used(w), NEW j \in Slots,
                      Distance(Home(w, i), j) < Distance(Home(w, i), i)
               PROVE  w[j].state # EMPTY
    BY DEF Chained
  <2>1. i \in Slots /\ Home(w, i) \in Slots /\ Rank(c, Home(w, i)) <= Rank(c, i)
    BY <1>12, <1>13, HomesAreSlots DEF CutAt
  <2>2. Rank(c, Home(w, i)) <= Rank(c, j) /\ Rank(c, j) < Rank(c, i)
    BY <2>1, WayUncut
  <2>3. Settled(u, c, i)
    BY <1>3, <1>10, <2>1, Ranks DEF SettledBelow, Sized
  <2>4. j \in Used(u)
    BY <1>10, <1>11, <2>2, <2>3 DEF Settled
  <2> QED BY <1>9, <1>10, <2>4 DEF EMPTY, OCCUPIED
<1> QED BY <1>3, <1>10, <1>12, <1>13, <1>14 DEF Kept, Cut

-----------------------------------------------------------------------------
(* Probing, and insertion *)

\* A table in which every stored key is found.
Good(t) == Typed(t) /\ NoKeyTwice(t) /\ Chained(t)

Present(t, k) == \E i \in Used(t) : t[i].key = k

\* Where the loops of insert, find and erase end.
LEMMA ProbeEndIn ==
  ASSUME Sized, NEW t, Typed(t), NEW k \in Keys
  PROVE  /\ \/ ProbeEnd(t, k) = NoSlot /\ \A i \in Slots : t[i].state # EMPTY /\ ~Holds(t, i, k)
            \/ /\ ProbeEnd(t, k) \in Slots
               /\ t[ProbeEnd(t, k)].state = EMPTY \/ Holds(t, ProbeEnd(t, k), k)
               /\ \A i \in Slots : t[i].state = EMPTY \/ Holds(t, i, k) =>
                    Distance(getHash(k), ProbeEnd(t, k)) <= Distance(getHash(k), i)
         /\ getHash(k) \in Slots
         /\ \A i : Holds(t, i, k) /\ i \in Slots <=> i \in Used(t) /\ t[i].key = k
<1> DEFINE S == {i \in Slots : t[i].state = EMPTY \/ Holds(t, i, k)}
           h == getHash(k)
<1>1. h \in Slots /\ DOMAIN t = Slots /\ tableSize \in 0 .. tableSize
  BY HomeIsSlot, UsedSlots DEF Sized
<1>2. ProbeEnd(t, k) = FirstFrom(h, tableSize, S)
  BY <1>1 DEF ProbeEnd
<1>3. S \in SUBSET Slots
  OBVIOUS
<1> DEFINE stop == FirstFrom(h, tableSize, S)
<1>4. \/ stop = NoSlot /\ \A i \in S : Distance(h, i) >= tableSize
      \/ stop \in S /\ \A i \in S : Distance(h, stop) <= Distance(h, i)
  BY <1>1, <1>3, FirstFound
<1>5. \A i \in Slots : ~(Distance(h, i) >= tableSize)
  BY <1>1, Distances DEF Sized
<1>6. \A i : Holds(t, i, k) /\ i \in Slots <=> i \in Used(t) /\ t[i].key = k
  BY UsedSlots DEF Holds
<1> HIDE DEF h, stop
<1>7. CASE stop = NoSlot /\ \A i \in S : Distance(h, i) >= tableSize
  <2>1. \A i \in Slots : i \notin S
    BY <1>5, <1>7
  <2> QED BY <1>1, <1>2, <1>6, <1>7, <2>1 DEF h, stop
<1>8. CASE stop \in S /\ \A i \in S : Distance(h, stop) <= Distance(h, i)
  BY <1>1, <1>2, <1>6, <1>8 DEF h, stop
<1> QED BY <1>4, <1>7, <1>8

\* The loop for a stored key ends at the key.
LEMMA ProbeOfStored ==
  ASSUME Sized, NEW t, Good(t), NEW i \in Used(t)
  PROVE  ProbeEnd(t, t[i].key) = i
<1> DEFINE k == t[i].key
           stop == ProbeEnd(t, k)
           h == getHash(k)
<1>1. Typed(t) /\ k \in Keys /\ i \in Slots /\ h = Home(t, i)
  BY UsedSlots DEF Good, Typed, Home
<1> HIDE DEF k, stop, h
<1>2. /\ \/ stop = NoSlot /\ \A j \in Slots : t[j].state # EMPTY /\ ~Holds(t, j, k)
         \/ /\ stop \in Slots
            /\ t[stop].state = EMPTY \/ Holds(t, stop, k)
            /\ \A j \in Slots : t[j].state = EMPTY \/ Holds(t, j, k) =>
                 Distance(h, stop) <= Distance(h, j)
      /\ h \in Slots
      /\ \A j : Holds(t, j, k) /\ j \in Slots <=> j \in Used(t) /\ t[j].key = k
  BY <1>1, ProbeEndIn DEF stop, h
<1>3. Holds(t, i, k)
  BY <1>1, <1>2 DEF k
<1>4. stop \in Slots /\ Distance(h, stop) <= Distance(h, i)
  BY <1>1, <1>2, <1>3
<1>5. CASE Holds(t, stop, k)
  <2>1. stop \in Used(t) /\ t[stop].key = t[i].key
    BY <1>2, <1>4, <1>5 DEF k
  <2> QED BY <2>1 DEF Good, NoKeyTwice, stop, k
<1>6. CASE t[stop].state = EMPTY
  <2>1. ~(Distance(h, stop) < Distance(h, i))
    BY <1>1, <1>4, <1>6 DEF Good, Chained
  <2>2. Distance(h, stop) = Distance(h, i)
    <3>1. Distance(h, stop) \in Int /\ Distance(h, i) \in Int
      BY <1>1, <1>2, <1>4, Distances DEF Sized
    <3> QED BY <1>4, <2>1, <3>1
  <2>3. \A a, b \in Slots : Distance(h, a) = Distance(h, b) => a = b
    BY <1>2, Distances
  <2>4. stop = i
    BY <1>1, <1>4, <2>2, <2>3
  <2> QED BY <2>4 DEF stop, k
<1>7. t[stop].state = EMPTY \/ Holds(t, stop, k)
  BY <1>1, <1>2, <1>3
<1> QED BY <1>5, <1>6, <1>7

\* The probe loop for a key that is not stored ends at the first empty slot.
LEMMA ProbeOfAbsent ==
  ASSUME Sized, NEW t, Good(t), NEW k \in Keys, ~Present(t, k)
  PROVE  /\ \/ ProbeEnd(t, k) = NoSlot /\ \A i \in Slots : t[i].state # EMPTY
            \/ /\ ProbeEnd(t, k) \in Slots /\ t[ProbeEnd(t, k)].state = EMPTY
               /\ \A i \in Slots : t[i].state = EMPTY =>
                    Distance(getHash(k), ProbeEnd(t, k)) <= Distance(getHash(k), i)
         /\ ~(ProbeEnd(t, k) \in Slots /\ Holds(t, ProbeEnd(t, k), k))
<1>1. \A i : ~(i \in Used(t) /\ t[i].key = k)
  BY DEF Present
<1> QED BY <1>1, ProbeEndIn DEF Good

\* A new key goes to the first tombstone or empty slot; the chains stay whole.
LEMMA Inserted ==
  ASSUME Sized, NEW t, Good(t), NEW k \in Keys, NEW v \in Values, ~Present(t, k),
         NEW stop, stop = ProbeEnd(t, k), stop # NoSlot,
         NEW x, x = Target(t, k, stop), NEW u, u = Stored(t, k, v)
  PROVE  /\ Good(u) /\ Cut(u)
         /\ x \in Slots \ Used(t) /\ Used(u) = Used(t) \cup {x}
         /\ Content(u) = Content(t) \cup {<<k, v>>}
         /\ \/ x = stop /\ Graves(u) = Graves(t)
            \/ x # stop /\ x \in Graves(t) /\ Graves(u) = Graves(t) \ {x}
<1> DEFINE h == getHash(k)
<1>1. /\ stop \in Slots /\ t[stop].state = EMPTY /\ h \in Slots
      /\ \A i \in Slots : t[i].state = EMPTY => Distance(h, stop) <= Distance(h, i)
  BY ProbeOfAbsent, HomeIsSlot DEF NoSlot, Slots
<1>2. /\ Typed(t) /\ t \in [Slots -> EntryType] /\ DOMAIN t = Slots
      /\ \A i : i \in Used(t) <=> i \in Slots /\ t[i].state = OCCUPIED
      /\ \A i : i \in Graves(t) <=> i \in Slots /\ t[i].state = TOMBSTONE
      /\ Graves(t) \in SUBSET Slots
  BY UsedSlots DEF Good, Typed
<1>3. /\ \A i \in Slots : Distance(h, i) \in 0 .. tableSize - 1
      /\ tableSize \in Nat
  BY <1>1, Distances DEF Sized
<1>4. /\ x \in Slots /\ Distance(h, x) <= Distance(h, stop)
      /\ x = stop \/ (x # stop /\ x \in Graves(t))
  <2> DEFINE n == Distance(h, stop)
             grave == FirstFrom(h, n, Graves(t))
  <2>1. n \in 0 .. tableSize
    BY <1>1, <1>3
  <2>2. \/ grave = NoSlot
        \/ grave \in Graves(t) /\ Distance(h, grave) < n
    BY <1>1, <1>2, <2>1, FirstFound
  <2>3. x = IF grave # NoSlot THEN grave ELSE stop
    BY DEF Target, Grave, Graves
  <2>4. NoSlot \notin Slots /\ stop \notin Graves(t)
    BY <1>1, <1>2, <1>3, SMTT(30) DEF NoSlot, Slots, EMPTY, TOMBSTONE
  <2> HIDE DEF grave
  <2>5. CASE grave = NoSlot
    BY <1>1, <1>3, <2>3, <2>5
  <2>6. CASE grave \in Graves(t) /\ Distance(h, grave) < n
    <3>1. x = grave /\ x \in Slots /\ x # stop
      BY <1>2, <2>3, <2>4, <2>6
    <3> QED BY <1>1, <1>3, <2>6, <3>1
  <2> QED BY <2>2, <2>5, <2>6
<1>5. x \notin Used(t)
  BY <1>1, <1>2, <1>4 DEF EMPTY, OCCUPIED, TOMBSTONE
<1> DEFINE e == Entry(OCCUPIED, k, v)
<1>6. e \in EntryType /\ e.state = OCCUPIED /\ e.key = k /\ e.value = v
  BY DEF Entry, EntryType, States
<1>7. u = [t EXCEPT ![x] = e]
  BY DEF Stored
<1> HIDE DEF e, h
<1>8. u \in [Slots -> EntryType] /\ u[x] = e /\ \A i \in Slots \ {x} : u[i] = t[i]
  BY <1>2, <1>4, <1>6, <1>7
<1>9. /\ \A i : i \in Used(u) <=> i \in Slots /\ u[i].state = OCCUPIED
      /\ \A i : i \in Graves(u) <=> i \in Slots /\ u[i].state = TOMBSTONE
  BY <1>8 DEF Used, Graves, OfState
<1>10. Used(u) = Used(t) \cup {x}
  BY <1>2, <1>4, <1>6, <1>8, <1>9
<1>11. Graves(u) = Graves(t) \ {x}
  BY <1>2, <1>4, <1>6, <1>8, <1>9 DEF OCCUPIED, TOMBSTONE
<1>12. \A i \in Used(t) : i # x /\ u[i] = t[i]
  BY <1>2, <1>5, <1>8
<1>13. Typed(u)
  BY <1>2, <1>6, <1>8, <1>10, <1>12 DEF Typed
<1>14. Home(u, x) = h /\ \A i \in Used(t) : Home(u, i) = Home(t, i)
  BY <1>6, <1>8, <1>12 DEF Home, h
<1>15. NoKeyTwice(u)
  <2> SUFFICES ASSUME NEW i \in Used(u), NEW j \in Used(u), u[i].key = u[j].key
               PROVE  i = j
    BY DEF NoKeyTwice
  <2>1. \A l \in Used(t) : u[l].key # k /\ u[l].key = t[l].key
    BY <1>12 DEF Present
  <2>2. CASE i \in Used(t) /\ j \in Used(t)
    <3>1. t[i].key = t[j].key
      BY <2>1, <2>2
    <3> QED BY <2>2, <3>1 DEF Good, NoKeyTwice
  <2>3. CASE i = x \/ j = x
    BY <1>6, <1>8, <1>10, <2>1, <2>3
  <2> QED BY <1>10, <2>2, <2>3
<1>16. Content(u) = Content(t) \cup {<<k, v>>}
  BY <1>6, <1>8, <1>10, <1>12 DEF Content
<1>17. \A i \in Slots : t[i].state # EMPTY => u[i].state # EMPTY
  BY <1>6, <1>8 DEF OCCUPIED, EMPTY
<1>18. Chained(u)
  <2> SUFFICES ASSUME NEW i \in Used(u), NEW j \in Slots,
                      Distance(Home(u, i), j) < Distance(Home(u, i), i)
               PROVE  u[j].state # EMPTY
    BY DEF Chained
  <2>1. CASE i \in Used(t)
    <3>1. t[j].state # EMPTY
      BY <1>14, <2>1 DEF Good, Chained
    <3> QED BY <1>17, <3>1
  <2>2. CASE i = x
    <3>1. Distance(h, j) < Distance(h, x)
      BY <1>14, <2>2
    <3>2. t[j].state # EMPTY
      BY <1>1, <1>3, <1>4, <3>1
    <3> QED BY <1>17, <3>2
  <2> QED BY <1>10, <2>1, <2>2
<1>19. CutAt(u, stop)
  <2> SUFFICES ASSUME NEW i \in Used(u)
               PROVE  Rank(stop, Home(u, i)) <= Rank(stop, i)
    BY DEF CutAt
  <2>1. CASE i \in Used(t)
    <3>1. i \in Slots /\ Home(t, i) \in Slots
      BY <1>2, <2>1, HomesAreSlots
    <3>2. ~(Distance(Home(t, i), stop) < Distance(Home(t, i), i))
      BY <1>1, <2>1 DEF Good, Chained
    <3>3. Distance(Home(t, i), stop) \in Int /\ Distance(Home(t, i), i) \in Int
      BY <1>1, <1>3, <3>1, Distances
    <3>4. Distance(Home(t, i), i) <= Distance(Home(t, i), stop)
      BY <3>2, <3>3
    <3> QED BY <1>1, <1>14, <2>1, <3>1, <3>4, WayToCut
  <2>2. CASE i = x
    BY <1>1, <1>4, <1>14, <2>2, WayToCut
  <2> QED BY <1>10, <2>1, <2>2
<1>20. x # stop \/ Graves(u) = Graves(t)
  BY <1>1, <1>2, <1>11 DEF EMPTY, TOMBSTONE
<1> QED BY <1>1, <1>4, <1>5, <1>10, <1>11, <1>13, <1>15, <1>16, <1>18, <1>19, <1>20 DEF Good, Cut

-----------------------------------------------------------------------------
(* The rehash with temporary storage *)

\* The empty table is in order.
LEMMA BlankTable ==
  ASSUME Sized
  PROVE  /\ Good(Blank) /\ Cut(Blank) /\ Used(Blank) = {} /\ Graves(Blank) = {}
         /\ Content(Blank) = {} /\ Cardinality(Used(Blank)) = 0
<1>1. \A i \in Slots : Blank[i] \in EntryType /\ Blank[i].state = EMPTY
  BY DEF Blank, Entry, EntryType, States
<1>2. Blank \in [Slots -> EntryType]
  BY <1>1 DEF Blank
<1>3. Used(Blank) = {} /\ Graves(Blank) = {}
  BY <1>1, <1>2 DEF Used, Graves, OfState, EMPTY, OCCUPIED, TOMBSTONE
<1>4. Content(Blank) = {}
  BY <1>3 DEF Content
<1>5. Cardinality(Used(Blank)) = 0
  BY <1>3, FS_EmptySet
<1>6. 0 \in Slots
  BY DEF Slots, Sized
<1> QED BY <1>2, <1>3, <1>4, <1>5, <1>6 DEF Good, Cut, Typed, NoKeyTwice, Chained, CutAt

\* Some slot is empty while not all are used, in a table without tombstones.
LEMMA RoomLeft ==
  ASSUME Sized, NEW t, Typed(t), Graves(t) = {}, Cardinality(Used(t)) < tableSize
  PROVE  \E i \in Slots : t[i].state = EMPTY
<1>1. Used(t) # Slots
  BY SlotsFinite
<1>2. PICK i \in Slots : i \notin Used(t)
  BY <1>1, UsedSlots
<1>3. t[i].state = EMPTY
  BY <1>2, UsedSlots DEF States
<1> QED BY <1>3

IsRehash(f, t) ==
  f = [n \in 0 .. tableSize |-> IF n = 0 THEN Blank ELSE Reinsert(f[n - 1], t[n - 1])]

\* The rehash inserts slot after slot.
LEMMA RehashDefined ==
  ASSUME Sized, NEW t, Typed(t)
  PROVE  \E f : IsRehash(f, t) /\ FastRehash(t) = f[tableSize]
<1> DEFINE X == [Slots -> EntryType]
           N == tableSize
           step == [i \in 0 .. N - 1 |-> [v \in X |-> Reinsert(v, t[i])]]
<1>1. N \in Nat /\ Slots = 0 .. N - 1
  BY DEF Sized, Slots
<1>2. ASSUME NEW i \in 0 .. N - 1, NEW v \in X
      PROVE  Reinsert(v, t[i]) \in X
  <2>1. CASE t[i].state = OCCUPIED
    <3>1. t[i].key \in Keys /\ t[i].value \in Values
      BY <1>1, <2>1, UsedSlots DEF Typed
    <3>2. Entry(OCCUPIED, t[i].key, t[i].value) \in EntryType
      BY <3>1 DEF Entry, EntryType, States
    <3>3. Stored(v, t[i].key, t[i].value) \in X
      BY <3>2 DEF Stored
    <3> QED BY <2>1, <3>3 DEF Reinsert
  <2>2. CASE t[i].state # OCCUPIED
    BY <2>2 DEF Reinsert
  <2> QED BY <2>1, <2>2
<1>3. step \in StepsOn(X, N)
  BY <1>2 DEF StepsOn
<1>4. \A i \in 0 .. N - 1, v \in X : step[i][v] = Reinsert(v, t[i])
  OBVIOUS
<1>5. Blank \in X
  BY BlankTable DEF Good, Typed
<1> HIDE DEF X, step
<1>6. PICK f : Iterates(f, X, N, Blank, step)
  BY <1>1, <1>3, <1>5, Iteration
<1>7. ASSUME NEW m \in 0 .. N
      PROVE  f[m] = IF m = 0 THEN Blank ELSE Reinsert(f[m - 1], t[m - 1])
  <2>1. CASE m = 0
    BY <1>6, <2>1 DEF Iterates
  <2>2. CASE m # 0
    <3>1. m \in 1 .. N /\ m - 1 \in 0 .. N - 1 /\ m - 1 \in 0 .. N
      BY <1>1, <2>2
    <3> QED BY <1>4, <1>6, <2>2, <3>1 DEF Iterates
  <2> QED BY <2>1, <2>2
<1>8. IsRehash(f, t)
  BY <1>6, <1>7 DEF IsRehash, Iterates
<1> DEFINE g == CHOOSE e : IsRehash(e, t)
<1>9. IsRehash(g, t)
  BY <1>8
<1>10. FastRehash(t) = g[tableSize]
  BY DEF FastRehash, IsRehash
<1> HIDE DEF g
<1> QED BY <1>9, <1>10

\* What slots 0 to n - 1 of t say, put in table v.
Rebuilt(t, v, n) ==
  /\ Good(v) /\ Cut(v) /\ Graves(v) = {}
  /\ Content(v) = {<<t[i].key, t[i].value>> : i \in Used(t) \cap 0 .. n - 1}
  /\ Cardinality(Used(v)) = Cardinality(Used(t) \cap 0 .. n - 1)

\* One more slot is inserted again.
LEMMA ReinsertOne ==
  ASSUME Sized, NEW t, Typed(t), NoKeyTwice(t), NEW n \in Slots, NEW v, Rebuilt(t, v, n)
  PROVE  Rebuilt(t, Reinsert(v, t[n]), n + 1)
<1> DEFINE P == Used(t) \cap 0 .. n - 1
           Q == Used(t) \cap 0 .. (n + 1) - 1
<1>1. tableSize \in Nat /\ n \in 0 .. tableSize - 1 /\ Slots = 0 .. tableSize - 1
  BY DEF Sized, Slots
<1>2. Used(t) \subseteq Slots /\ (n \in Used(t) <=> t[n].state = OCCUPIED)
  BY UsedSlots
<1>3. CASE n \notin Used(t)
  <2>1. Q = P
    BY <1>1, <1>2, <1>3
  <2>2. Reinsert(v, t[n]) = v
    BY <1>2, <1>3 DEF Reinsert
  <2> QED BY <2>1, <2>2 DEF Rebuilt
<1>4. CASE n \in Used(t)
  <2> DEFINE k == t[n].key
             w == t[n].value
             stop == ProbeEnd(v, k)
             u == Stored(v, k, w)
  <2>1. k \in Keys /\ w \in Values /\ Reinsert(v, t[n]) = u
    BY <1>2, <1>4 DEF Typed, Reinsert
  <2>2. Q = P \cup {n} /\ n \notin P /\ P \subseteq Slots \ {n}
    BY <1>1, <1>2, <1>4
  <2>3. Good(v) /\ Typed(v) /\ Graves(v) = {} /\ Cardinality(Used(v)) = Cardinality(P)
        /\ Content(v) = {<<t[i].key, t[i].value>> : i \in P}
    BY DEF Rebuilt, Good
  <2>4. IsFiniteSet(P) /\ Cardinality(P) \in Nat /\ Cardinality(P) < tableSize
    <3>1. IsFiniteSet(Slots) /\ IsFiniteSet(Slots \ {n}) /\ Cardinality(Slots) = tableSize
      BY SlotsFinite
    <3>2. Cardinality(Slots \ {n}) = tableSize - 1
      BY <3>1, FS_RemoveElement
    <3>3. IsFiniteSet(P) /\ Cardinality(P) <= Cardinality(Slots \ {n})
      BY <2>2, <3>1, FS_Subset
    <3>4. Cardinality(P) \in Nat
      BY <3>3, FS_CardinalityType
    <3> QED BY <1>1, <3>2, <3>3, <3>4
  <2>5. ~Present(v, k)
    <3> SUFFICES ASSUME NEW j \in Used(v), v[j].key = k PROVE FALSE
      BY DEF Present
    <3>1. <<v[j].key, v[j].value>> \in Content(v)
      BY DEF Content
    <3>2. PICK i \in P : <<v[j].key, v[j].value>> = <<t[i].key, t[i].value>>
      BY <2>3, <3>1
    <3>3. t[i].key = t[n].key /\ i \in Used(t)
      BY <3>2
    <3>4. i = n
      BY <1>4, <3>3 DEF NoKeyTwice
    <3> QED BY <2>2, <3>4
  <2>6. stop # NoSlot
    <3>1. \E i \in Slots : v[i].state = EMPTY
      BY <2>3, <2>4, RoomLeft
    <3> QED BY <2>1, <2>3, <2>5, <3>1, ProbeOfAbsent DEF NoSlot, Slots
  <2> DEFINE x == Target(v, k, stop)
  <2>7. /\ Good(u) /\ Cut(u) /\ x \notin Used(v) /\ Used(u) = Used(v) \cup {x}
        /\ Content(u) = Content(v) \cup {<<k, w>>}
        /\ Graves(u) = {}
    <3> HIDE DEF u, k, w, stop, x
    <3> QED BY <2>1, <2>3, <2>5, <2>6, Inserted DEF stop, x, u
  <2> HIDE DEF u, x
  <2>8. Content(u) = {<<t[i].key, t[i].value>> : i \in Q}
    BY <2>2, <2>3, <2>7
  <2>9. Cardinality(Used(u)) = Cardinality(Q)
    <3>1. IsFiniteSet(Used(v))
      BY <2>3, SlotsFinite, UsedSlots
    <3>2. Cardinality(Used(v) \cup {x}) = Cardinality(Used(v)) + 1
      BY <2>7, <3>1, FS_AddElement
    <3>3. Cardinality(P \cup {n}) = Cardinality(P) + 1
      BY <2>2, <2>4, FS_AddElement
    <3> QED BY <2>2, <2>3, <2>7, <3>2, <3>3
  <2> QED BY <2>1, <2>7, <2>8, <2>9 DEF Rebuilt
<1> QED BY <1>3, <1>4

\* The rehash with temporary storage keeps the content and drops the tombstones.
LEMMA FastRehashed ==
  ASSUME Sized, NEW t, Typed(t), NoKeyTwice(t), NEW w, w = FastRehash(t)
  PROVE  /\ Good(w) /\ Cut(w) /\ Graves(w) = {}
         /\ Content(w) = Content(t) /\ Cardinality(Used(w)) = Cardinality(Used(t))
<1> DEFINE N == tableSize
<1>1. PICK f : IsRehash(f, t) /\ FastRehash(t) = f[N]
  BY RehashDefined
<1>2. N \in Nat /\ Slots = 0 .. N - 1
  BY DEF Sized, Slots
<1> DEFINE T == {n \in Nat : n <= N => Rebuilt(t, f[n], n)}
<1>3. 0 \in T
  <2>1. f[0] = Blank
    BY <1>1, <1>2 DEF IsRehash
  <2>2. Used(t) \cap 0 .. 0 - 1 = {}
    OBVIOUS
  <2>3. Rebuilt(t, Blank, 0)
    BY <2>2, BlankTable DEF Rebuilt
  <2> QED BY <2>1, <2>3
<1>4. ASSUME NEW n \in Nat, n \in T
      PROVE  n + 1 \in T
  <2> SUFFICES ASSUME n + 1 <= N
               PROVE  Rebuilt(t, f[n + 1], n + 1)
    OBVIOUS
  <2>1. n \in Slots /\ Rebuilt(t, f[n], n)
    BY <1>2, <1>4
  <2>2. f[n + 1] = Reinsert(f[n], t[n])
    <3>1. n + 1 \in 0 .. N /\ n + 1 # 0 /\ (n + 1) - 1 = n
      BY <1>2
    <3> QED BY <1>1, <3>1 DEF IsRehash
  <2>3. Rebuilt(t, Reinsert(f[n], t[n]), n + 1)
    BY <2>1, ReinsertOne
  <2> QED BY <2>2, <2>3
<1>5. \A n \in Nat : n \in T
  <2> HIDE DEF T
  <2> QED BY <1>3, <1>4, SetInduction
<1>6. Rebuilt(t, w, N)
  BY <1>1, <1>2, <1>5
<1>7. Used(t) \cap 0 .. N - 1 = Used(t)
  BY <1>2, UsedSlots
<1> QED BY <1>6, <1>7 DEF Rebuilt, Content

-----------------------------------------------------------------------------
(* The table after the operations *)

\* A table that keeps its promises, with the two counters.
Shape(t, n, g) ==
  /\ Good(t) /\ Cut(t)
  /\ n = Cardinality(Used(t)) /\ g = Cardinality(Graves(t))
  /\ 4 * g <= tableSize

\* The counters are at most the size of the table.
LEMMA ShapeBounds ==
  ASSUME Sized, NEW t, NEW n, NEW g, Shape(t, n, g)
  PROVE  n \in 0 .. tableSize /\ g \in 0 .. tableSize
  BY SlotsFinite, UsedSlots DEF Shape, Good

\* A table that is full for insert: nothing is left but entries and tombstones.
LEMMA NothingEmpty ==
  ASSUME Sized, NEW t, NEW n, NEW g, Shape(t, n, g), \A i \in Slots : t[i].state # EMPTY
  PROVE  n + g = tableSize
<1>1. /\ Used(t) \subseteq Slots /\ Graves(t) \subseteq Slots /\ Used(t) \cap Graves(t) = {}
      /\ Slots = Used(t) \cup Graves(t)
  BY UsedSlots DEF Shape, Good, States
<1>2. IsFiniteSet(Used(t)) /\ IsFiniteSet(Graves(t)) /\ Cardinality(Slots) = tableSize
  BY <1>1, SlotsFinite
<1>3. Cardinality(Used(t) \cup Graves(t))
        = Cardinality(Used(t)) + Cardinality(Graves(t)) - Cardinality(Used(t) \cap Graves(t))
  BY <1>2, FS_Union
<1>4. Cardinality(Used(t) \cap Graves(t)) = 0
  BY <1>1, FS_EmptySet
<1>5. Cardinality(Used(t)) \in Nat /\ Cardinality(Graves(t)) \in Nat
  BY <1>2, FS_CardinalityType
<1> QED BY <1>1, <1>2, <1>3, <1>4, <1>5 DEF Shape

\* insert of a new key.
LEMMA InsertedShape ==
  ASSUME Sized, NEW t, NEW n, NEW g, Shape(t, n, g), NEW k \in Keys, NEW v \in Values,
         ~Present(t, k), NEW stop, stop = ProbeEnd(t, k), stop # NoSlot,
         NEW u, u = Stored(t, k, v)
  PROVE  /\ Shape(u, n + 1, IF Target(t, k, stop) # stop THEN g - 1 ELSE g)
         /\ Content(u) = Content(t) \cup {<<k, v>>}
<1> DEFINE x == Target(t, k, stop)
<1>1. /\ Good(u) /\ Cut(u)
      /\ x \in Slots \ Used(t) /\ Used(u) = Used(t) \cup {x}
      /\ Content(u) = Content(t) \cup {<<k, v>>}
      /\ \/ x = stop /\ Graves(u) = Graves(t)
         \/ x # stop /\ x \in Graves(t) /\ Graves(u) = Graves(t) \ {x}
  BY Inserted DEF Shape
<1> HIDE DEF x
<1>2. IsFiniteSet(Used(t)) /\ IsFiniteSet(Graves(t))
  BY SlotsFinite, UsedSlots DEF Shape, Good
<1>3. Cardinality(Used(u)) = n + 1
  BY <1>1, <1>2, FS_AddElement DEF Shape
<1>4. g \in Nat /\ tableSize \in Nat
  BY ShapeBounds DEF Sized
<1>5. CASE x = stop /\ Graves(u) = Graves(t)
  BY <1>1, <1>3, <1>5 DEF Shape, x
<1>6. CASE x # stop /\ x \in Graves(t) /\ Graves(u) = Graves(t) \ {x}
  <2>1. Cardinality(Graves(u)) = g - 1
    BY <1>2, <1>6, FS_RemoveElement DEF Shape
  <2>2. 4 * (g - 1) <= tableSize
    BY <1>4 DEF Shape
  <2> QED BY <1>1, <1>3, <1>6, <2>1, <2>2 DEF Shape, x
<1> QED BY <1>1, <1>5, <1>6

\* The pairs of C for the other keys.
Without(C, k) == {p \in C : p[1] # k}

Revalued(t, i, v) == [t EXCEPT ![i].value = v]

\* insert of a key that is there.
LEMMA UpdatedShape ==
  ASSUME Sized, NEW t, NEW n, NEW g, Shape(t, n, g), NEW i \in Used(t), NEW v \in Values,
         NEW u, u = Revalued(t, i, v)
  PROVE  /\ Shape(u, n, g)
         /\ Content(u) = Without(Content(t), t[i].key) \cup {<<t[i].key, v>>}
<1>1. /\ Typed(t) /\ t \in [Slots -> EntryType] /\ i \in Slots
      /\ \A j : j \in Used(t) <=> j \in Slots /\ t[j].state = OCCUPIED
      /\ \A j : j \in Graves(t) <=> j \in Slots /\ t[j].state = TOMBSTONE
  BY UsedSlots DEF Shape, Good, Typed
<1>2. /\ u[i] \in EntryType /\ u[i].state = t[i].state /\ u[i].key = t[i].key /\ u[i].value = v
      /\ \A j \in Slots \ {i} : u[j] = t[j]
      /\ DOMAIN u = Slots
  BY <1>1 DEF EntryType, Revalued
<1>3. u \in [Slots -> EntryType]
  BY <1>1 DEF EntryType, Revalued
<1>4. /\ \A j : j \in Used(u) <=> j \in Slots /\ u[j].state = OCCUPIED
      /\ \A j : j \in Graves(u) <=> j \in Slots /\ u[j].state = TOMBSTONE
  BY <1>2 DEF Used, Graves, OfState
<1>5. \A j \in Slots : u[j].state = t[j].state /\ u[j].key = t[j].key
  BY <1>2
<1>6. Used(u) = Used(t) /\ Graves(u) = Graves(t)
  BY <1>1, <1>4, <1>5
<1>7. Typed(u)
  BY <1>1, <1>2, <1>3, <1>5, <1>6 DEF Typed
<1>8. \A j \in Slots : Home(u, j) = Home(t, j)
  BY <1>5 DEF Home
<1>9. NoKeyTwice(u) /\ Chained(u) /\ Cut(u)
  <2>1. Used(t) \subseteq Slots
    BY <1>1
  <2>2. NoKeyTwice(u)
    BY <1>5, <1>6, <2>1 DEF Shape, Good, NoKeyTwice
  <2>3. Chained(u)
    BY <1>5, <1>6, <1>8, <2>1 DEF Shape, Good, Chained
  <2>4. Cut(u)
    BY <1>6, <1>8, <2>1 DEF Shape, Cut, CutAt
  <2> QED BY <2>2, <2>3, <2>4
<1>10. Content(u) = Without(Content(t), t[i].key) \cup {<<t[i].key, v>>}
  <2>1. \A j \in Used(t) \ {i} : u[j] = t[j] /\ t[j].key # t[i].key
    BY <1>1, <1>2 DEF Shape, Good, NoKeyTwice
  <2>2. Content(u) = {<<u[j].key, u[j].value>> : j \in Used(t)}
    BY <1>6 DEF Content
  <2>3. ASSUME NEW p \in Content(u)
        PROVE  p \in Without(Content(t), t[i].key) \cup {<<t[i].key, v>>}
    <3>1. PICK j \in Used(t) : p = <<u[j].key, u[j].value>>
      BY <2>2
    <3>2. CASE j = i
      BY <1>2, <3>1, <3>2
    <3>3. CASE j # i
      <4>1. p \in Content(t) /\ p[1] = t[j].key /\ t[j].key # t[i].key
        BY <2>1, <3>1, <3>3 DEF Content
      <4> QED BY <4>1 DEF Without
    <3> QED BY <3>2, <3>3
  <2>4. ASSUME NEW p \in Without(Content(t), t[i].key)
        PROVE  p \in Content(u)
    <3>1. p \in Content(t) /\ p[1] # t[i].key
      BY DEF Without
    <3>2. PICK j \in Used(t) : p = <<t[j].key, t[j].value>>
      BY <3>1 DEF Content
    <3>3. j # i
      BY <3>1, <3>2
    <3> QED BY <2>1, <2>2, <3>2, <3>3
  <2>5. <<t[i].key, v>> \in Content(u)
    BY <1>2, <2>2
  <2> QED BY <2>3, <2>4, <2>5
<1> QED BY <1>6, <1>7, <1>9, <1>10 DEF Shape, Good

\* erase without a rehash.
LEMMA ErasedTable ==
  ASSUME Sized, NEW t, Good(t), Cut(t), NEW i \in Used(t), NEW u, u = [t EXCEPT ![i] = Freed]
  PROVE  /\ Good(u) /\ Cut(u)
         /\ Cardinality(Used(u)) = Cardinality(Used(t)) - 1
         /\ Cardinality(Graves(u)) = Cardinality(Graves(t)) + 1
         /\ Content(u) = Without(Content(t), t[i].key)
<1>1. /\ Typed(t) /\ t \in [Slots -> EntryType] /\ i \in Slots
      /\ \A j : j \in Used(t) <=> j \in Slots /\ t[j].state = OCCUPIED
      /\ \A j : j \in Graves(t) <=> j \in Slots /\ t[j].state = TOMBSTONE
      /\ Used(t) \subseteq Slots /\ Graves(t) \subseteq Slots
  BY UsedSlots DEF Good, Typed
<1>2. u \in [Slots -> EntryType] /\ u[i] = Freed /\ \A j \in Slots \ {i} : u[j] = t[j]
  BY <1>1, FreedEntry
<1>3. /\ \A j : j \in Used(u) <=> j \in Slots /\ u[j].state = OCCUPIED
      /\ \A j : j \in Graves(u) <=> j \in Slots /\ u[j].state = TOMBSTONE
  BY <1>2 DEF Used, Graves, OfState
<1>4. Used(u) = Used(t) \ {i} /\ Graves(u) = Graves(t) \cup {i} /\ i \notin Graves(t)
  <2>1. u[i].state = TOMBSTONE /\ OCCUPIED # TOMBSTONE
    BY <1>2, FreedEntry DEF OCCUPIED, TOMBSTONE
  <2>2. \A j : j \in Used(u) <=> j \in Used(t) /\ j # i
    BY <1>1, <1>2, <1>3, <2>1
  <2>3. \A j : j \in Graves(u) <=> j \in Graves(t) \/ j = i
    BY <1>1, <1>2, <1>3, <2>1
  <2>4. i \notin Graves(t)
    BY <1>1, <2>1
  <2> QED BY <2>2, <2>3, <2>4
<1>5. \A j \in Used(u) : j \in Used(t) /\ j # i /\ j \in Slots /\ u[j] = t[j]
  BY <1>1, <1>2, <1>4
<1>6. \A j \in Used(u) : Home(u, j) = Home(t, j)
  BY <1>5 DEF Home
<1>7. \A j \in Slots : t[j].state # EMPTY => u[j].state # EMPTY
  BY <1>2, FreedEntry DEF EMPTY, TOMBSTONE
<1>8. Typed(u)
  BY <1>1, <1>2, <1>5 DEF Typed
<1>9. NoKeyTwice(u)
  BY <1>5 DEF Good, NoKeyTwice
<1>10. Chained(u)
  BY <1>5, <1>6, <1>7 DEF Good, Chained
<1>11. Cut(u)
  BY <1>5, <1>6 DEF Cut, CutAt
<1>12. IsFiniteSet(Used(t)) /\ IsFiniteSet(Graves(t))
  BY <1>1, SlotsFinite
<1>13. Cardinality(Used(u)) = Cardinality(Used(t)) - 1
  BY <1>4, <1>12, FS_RemoveElement
<1>14. Cardinality(Graves(u)) = Cardinality(Graves(t)) + 1
  BY <1>4, <1>12, FS_AddElement
<1>15. Content(u) = Without(Content(t), t[i].key)
  <2>1. \A j \in Used(t) \ {i} : t[j].key # t[i].key
    BY DEF Good, NoKeyTwice
  <2>2. ASSUME NEW p \in Content(u)
        PROVE  p \in Without(Content(t), t[i].key)
    <3>1. PICK j \in Used(u) : p = <<u[j].key, u[j].value>>
      BY DEF Content
    <3>2. p = <<t[j].key, t[j].value>> /\ j \in Used(t) \ {i}
      BY <1>5, <3>1
    <3>3. p \in Content(t) /\ p[1] = t[j].key
      BY <3>2 DEF Content
    <3> QED BY <2>1, <3>2, <3>3 DEF Without
  <2>3. ASSUME NEW p \in Without(Content(t), t[i].key)
        PROVE  p \in Content(u)
    <3>1. p \in Content(t) /\ p[1] # t[i].key
      BY DEF Without
    <3>2. PICK j \in Used(t) : p = <<t[j].key, t[j].value>>
      BY <3>1 DEF Content
    <3>3. j \in Used(u)
      BY <1>4, <3>1, <3>2
    <3> QED BY <1>5, <3>2, <3>3 DEF Content
  <2> QED BY <2>2, <2>3
<1> QED BY <1>8, <1>9, <1>10, <1>11, <1>13, <1>14, <1>15 DEF Good

\* rehashIfNeeded.
LEMMA RehashedShape ==
  ASSUME Sized, NEW t, Good(t), Cut(t), NEW n, n = Cardinality(Used(t)),
         NEW u, \/ u = IF n = 0 THEN Blank ELSE FastRehash(t)
                \/ u = SlowRehash(t)
  PROVE  Shape(u, n, 0) /\ Content(u) = Content(t)
<1>1. Typed(t) /\ NoKeyTwice(t)
  BY DEF Good
<1>2. ASSUME Good(u), Cut(u), Graves(u) = {}, Cardinality(Used(u)) = n
      PROVE  Shape(u, n, 0)
  <2>1. Cardinality(Graves(u)) = 0 /\ 4 * 0 <= tableSize
    BY <1>2, FS_EmptySet DEF Sized
  <2> QED BY <1>2, <2>1 DEF Shape
<1>3. CASE u = SlowRehash(t)
  BY <1>1, <1>2, <1>3, SlowRehashed DEF Good
<1>4. CASE u = FastRehash(t)
  BY <1>1, <1>2, <1>4, FastRehashed
<1>5. CASE n = 0 /\ u = Blank
  <2>1. Used(t) = {}
    BY <1>1, <1>5, SlotsFinite, UsedSlots, FS_EmptySet
  <2>2. Content(t) = {}
    BY <2>1 DEF Content
  <2> QED BY <1>2, <1>5, <2>2, BlankTable
<1> QED BY <1>3, <1>4, <1>5

\* find: the probe loop ends at the key if it is stored, and only then.
LEMMA FoundIsPresent ==
  ASSUME Sized, NEW t, Good(t), NEW k \in Keys
  PROVE  /\ ProbeEnd(t, k) # NoSlot /\ Holds(t, ProbeEnd(t, k), k) <=> Present(t, k)
         /\ Present(t, k) => ProbeEnd(t, k) \in Used(t) /\ t[ProbeEnd(t, k)].key = k
<1> DEFINE stop == ProbeEnd(t, k)
<1>1. /\ stop = NoSlot \/ stop \in Slots
      /\ NoSlot \notin Slots
      /\ \A i : Holds(t, i, k) /\ i \in Slots <=> i \in Used(t) /\ t[i].key = k
  BY ProbeEndIn DEF Good, NoSlot, Slots, Sized
<1>2. ASSUME Present(t, k)
      PROVE  stop \in Used(t) /\ t[stop].key = k /\ stop # NoSlot /\ Holds(t, stop, k)
  <2>1. PICK i \in Used(t) : t[i].key = k
    BY <1>2 DEF Present
  <2>2. stop = i
    BY <2>1, ProbeOfStored
  <2>3. i \in Slots /\ Holds(t, i, k)
    BY <1>1, <2>1
  <2> QED BY <1>1, <2>1, <2>2, <2>3
<1>3. ASSUME stop # NoSlot, Holds(t, stop, k)
      PROVE  Present(t, k)
  BY <1>1, <1>3 DEF Present
<1> QED BY <1>2, <1>3

-----------------------------------------------------------------------------
(* Iteration *)

\* The slots from a on that are not occupied are skipped.
LEMMA Skipped ==
  ASSUME tableSize \in Nat, Typed(table), NEW a \in 0 .. tableSize
  PROVE  /\ Skip(a) \in a .. tableSize
         /\ Skip(a) = end \/ Skip(a) \in Used(table)
         /\ Used(table) \cap 0 .. Skip(a) - 1 = Used(table) \cap 0 .. a - 1
<1> DEFINE S == {j \in a .. end : j = end \/ table[j].state = OCCUPIED}
<1>1. S \in SUBSET Nat /\ S # {} /\ end = tableSize
  BY DEF end
<1>2. Min(S) \in S /\ \A y \in S : Min(S) <= y
  BY <1>1, LeastElement
<1>3. Skip(a) = Min(S)
  BY DEF Skip
<1> DEFINE s == Skip(a)
<1>4. s \in S /\ \A y \in S : s <= y
  BY <1>2, <1>3
<1> HIDE DEF s
<1>5. s \in a .. tableSize /\ (s = end \/ table[s].state = OCCUPIED)
  BY <1>1, <1>4
<1>6. /\ \A i : i \in Used(table) <=> i \in Slots /\ table[i].state = OCCUPIED
      /\ Slots = 0 .. tableSize - 1
  BY UsedSlots DEF Slots
<1>7. s = end \/ s \in Used(table)
  <2>1. CASE s = tableSize
    BY <1>1, <2>1
  <2>2. CASE s # tableSize
    BY <1>1, <1>5, <1>6, <2>2
  <2> QED BY <2>1, <2>2
<1>8. ASSUME NEW i \in Used(table), i < s
      PROVE  i < a
  <2>1. i \in Slots /\ table[i].state = OCCUPIED /\ i \in Nat /\ i < tableSize
    BY <1>6
  <2>2. i \notin S
    BY <1>4, <1>5, <1>8, <2>1
  <2> QED BY <1>1, <2>1, <2>2
<1>9. Used(table) \cap 0 .. s - 1 = Used(table) \cap 0 .. a - 1
  <2>1. \A i : i \in 0 .. s - 1 <=> i \in Nat /\ i < s
    BY <1>5
  <2>2. \A i : i \in 0 .. a - 1 <=> i \in Nat /\ i < a
    BY <1>5
  <2>3. \A i \in Used(table) : i \in Nat
    BY <1>6
  <2>4. ASSUME NEW i \in Used(table), i < a
        PROVE  i < s
    BY <1>5, <2>3, <2>4
  <2> QED BY <1>8, <2>1, <2>2, <2>3, <2>4
<1> QED BY <1>5, <1>7, <1>9 DEF s

IsWalk(f, n) == f = [m \in 0 .. n |-> IF m = 0 THEN begin ELSE Advance(f[m - 1])]

\* An iteration advances step after step.
LEMMA WalkDefined ==
  ASSUME tableSize \in Nat, Typed(table), NEW n \in Nat
  PROVE  \E f : IsWalk(f, n) /\ Walk(n) = f[n]
<1> DEFINE X == 0 .. tableSize
           step == [k \in 0 .. n - 1 |-> [i \in X |-> Advance(i)]]
<1>1. end \in X /\ end = tableSize
  BY DEF end
<1>2. ASSUME NEW i \in X
      PROVE  Advance(i) \in X
  <2>1. CASE i = end
    BY <1>1, <2>1 DEF Advance
  <2>2. CASE i # end
    <3>1. i + 1 \in 0 .. tableSize
      BY <1>1, <2>2
    <3>2. Skip(i + 1) \in i + 1 .. tableSize
      BY <3>1, Skipped
    <3> QED BY <2>2, <3>1, <3>2 DEF Advance
  <2> QED BY <2>1, <2>2
<1>3. step \in StepsOn(X, n)
  BY <1>2 DEF StepsOn
<1>4. \A k \in 0 .. n - 1, i \in X : step[k][i] = Advance(i)
  OBVIOUS
<1>5. begin \in X
  BY Skipped DEF begin
<1> HIDE DEF X, step
<1>6. PICK f : Iterates(f, X, n, begin, step)
  BY <1>3, <1>5, Iteration
<1>7. ASSUME NEW m \in 0 .. n
      PROVE  f[m] = IF m = 0 THEN begin ELSE Advance(f[m - 1])
  <2>1. CASE m = 0
    BY <1>6, <2>1 DEF Iterates
  <2>2. CASE m # 0
    <3>1. m \in 1 .. n /\ m - 1 \in 0 .. n - 1 /\ m - 1 \in 0 .. n
      BY <2>2
    <3> QED BY <1>4, <1>6, <2>2, <3>1 DEF Iterates
  <2> QED BY <2>1, <2>2
<1>8. IsWalk(f, n)
  BY <1>6, <1>7 DEF IsWalk, Iterates
<1> DEFINE g == CHOOSE e : IsWalk(e, n)
<1>9. IsWalk(g, n)
  BY <1>8
<1>10. Walk(n) = g[n]
  BY DEF Walk, IsWalk
<1> HIDE DEF g
<1> QED BY <1>9, <1>10

\* Iterator i points behind m entries of the table: to the next one, or to the end.
Visited(i, m) ==
  /\ i \in 0 .. tableSize
  /\ i = end \/ i \in Used(table)
  /\ Cardinality(Used(table) \cap 0 .. i - 1) = m

\* An iteration visits every entry.
LEMMA WalkVisits ==
  ASSUME tableSize \in Nat, Typed(table), count = Cardinality(Used(table)), count \in Nat
  PROVE  WalkVisitsAll
<1> DEFINE U == Used(table)
           Upto(i) == U \cap 0 .. i - 1
<1>1. /\ Slots = 0 .. tableSize - 1 /\ end = tableSize
      /\ U \subseteq Slots
  BY UsedSlots DEF Slots, end
<1>2. IsFiniteSet(U)
  <2>1. IsFiniteSet(0 .. tableSize - 1)
    BY FS_Interval
  <2> QED BY <1>1, <2>1, FS_Subset
<1>3. ASSUME NEW i \in 0 .. tableSize, NEW m, Visited(i, m)
      PROVE  /\ m \in Nat /\ m <= count
             /\ i = end => m = count
             /\ i # end => m < count /\ Visited(Advance(i), m + 1)
  <2>1. m = Cardinality(Upto(i)) /\ (i = end \/ i \in U)
    BY <1>3 DEF Visited
  <2>2. IsFiniteSet(Upto(i)) /\ m \in Nat /\ m <= count
    <3>1. Upto(i) \in SUBSET U
      OBVIOUS
    <3>2. IsFiniteSet(Upto(i)) /\ Cardinality(Upto(i)) <= Cardinality(U)
      BY <1>2, <3>1, FS_Subset
    <3> QED BY <2>1, <3>2, FS_CardinalityType
  <2>3. CASE i = end
    <3>1. Upto(i) = U
      BY <1>1, <2>3
    <3> QED BY <2>1, <2>2, <2>3, <3>1
  <2>4. CASE i # end
    <3>1. i \in U /\ i + 1 \in 0 .. tableSize
      BY <1>1, <2>1, <2>4
    <3>2. Upto(i + 1) = Upto(i) \cup {i} /\ i \notin Upto(i)
      BY <1>1, <3>1
    <3>3. Cardinality(Upto(i) \cup {i}) = m + 1
      BY <2>1, <2>2, <3>2, FS_AddElement
    <3>4. Cardinality(Upto(i + 1)) <= count
      <4>1. Upto(i + 1) \in SUBSET U
        OBVIOUS
      <4> QED BY <1>2, <4>1, FS_Subset
    <3> HIDE DEF U
    <3>5. Advance(i) = Skip(i + 1)
      BY <2>4 DEF Advance
    <3>6. /\ Skip(i + 1) \in i + 1 .. tableSize
          /\ Skip(i + 1) = end \/ Skip(i + 1) \in U
          /\ Upto(Skip(i + 1)) = Upto(i + 1)
      BY <3>1, Skipped DEF U
    <3>7. Visited(Advance(i), m + 1)
      <4>1. Skip(i + 1) \in 0 .. tableSize
        BY <3>1, <3>6
      <4>2. Cardinality(Upto(Skip(i + 1))) = m + 1
        BY <3>2, <3>3, <3>6
      <4>3. Visited(Skip(i + 1), m + 1)
        BY <3>6, <4>1, <4>2 DEF Visited, U
      <4> QED BY <3>5, <4>3
    <3>8. m + 1 <= count
      BY <3>2, <3>3, <3>4
    <3> QED BY <2>2, <2>4, <3>7, <3>8
  <2> QED BY <2>3, <2>4
<1>4. Visited(begin, 0)
  <2>1. /\ begin \in 0 .. tableSize
        /\ begin = end \/ begin \in U
        /\ U \cap 0 .. begin - 1 = U \cap 0 .. 0 - 1
    BY Skipped DEF begin
  <2>2. U \cap 0 .. 0 - 1 = {}
    OBVIOUS
  <2> QED BY <2>1, <2>2, FS_EmptySet DEF Visited
<1>5. ASSUME NEW n \in Nat, n <= count
      PROVE  Visited(Walk(n), n)
  <2>1. PICK f : IsWalk(f, n) /\ Walk(n) = f[n]
    BY WalkDefined
  <2> DEFINE T == {m \in Nat : m <= n => Visited(f[m], m)}
  <2>2. 0 \in T
    BY <1>4, <2>1 DEF IsWalk
  <2>3. ASSUME NEW m \in Nat, m \in T
        PROVE  m + 1 \in T
    <3> SUFFICES ASSUME m + 1 <= n
                 PROVE  Visited(f[m + 1], m + 1)
      OBVIOUS
    <3>1. Visited(f[m], m) /\ f[m] \in 0 .. tableSize
      BY <2>3 DEF Visited
    <3>2. f[m] # end
      <4>1. m < count
        BY <1>5
      <4> QED BY <1>3, <3>1, <4>1
    <3>3. f[m + 1] = Advance(f[m])
      <4>1. m + 1 \in 0 .. n /\ m + 1 # 0 /\ (m + 1) - 1 = m
        OBVIOUS
      <4> QED BY <2>1, <4>1 DEF IsWalk
    <3> QED BY <1>3, <3>1, <3>2, <3>3
  <2>4. \A m \in Nat : m \in T
    <3> HIDE DEF T
    <3> QED BY <2>2, <2>3, SetInduction
  <2> QED BY <2>1, <2>4
<1> HIDE DEF U
<1>6. Walk(count) = end
  <2>1. Visited(Walk(count), count) /\ Walk(count) \in 0 .. tableSize
    BY <1>5 DEF Visited
  <2> QED BY <1>3, <2>1
<1>7. ASSUME NEW n \in 0 .. count - 1
      PROVE  Walk(n) \in OfState(table, OCCUPIED)
  <2>1. n \in Nat /\ n < count
    OBVIOUS
  <2>2. Visited(Walk(n), n)
    BY <1>5, <2>1
  <2>3. Walk(n) \in 0 .. tableSize
    BY <2>2 DEF Visited
  <2>4. Walk(n) # end
    BY <1>3, <2>1, <2>2, <2>3
  <2> QED BY <2>2, <2>4 DEF Visited, Used
<1> QED BY <1>6, <1>7 DEF WalkVisitsAll

-----------------------------------------------------------------------------
(* The operations *)

\* What insert does, by its reply.
LEMMA InsertEffect ==
  ASSUME Sized, Shape(table, count, tombstones), NEW k \in Keys, NEW v \in Values, Insert(k, v)
  PROVE  /\ Shape(table', count', tombstones') /\ UNCHANGED <<hash, tableSize>>
         /\ \/ /\ reply' = "refused" /\ table' = table
               /\ ~Present(table, k) /\ count + tombstones = tableSize
            \/ /\ reply' = "updated" /\ Present(table, k)
               /\ Content(table') = Without(Content(table), k) \cup {<<k, v>>}
            \/ /\ reply' = "inserted" /\ ~Present(table, k)
               /\ Content(table') = Content(table) \cup {<<k, v>>}
<1> DEFINE stop == ProbeEnd(table, k)
<1>1. Good(table) /\ Typed(table) /\ count = Cardinality(Used(table))
  BY DEF Shape, Good
<1>2. /\ stop # NoSlot /\ Holds(table, stop, k) <=> Present(table, k)
      /\ Present(table, k) => stop \in Used(table) /\ table[stop].key = k
  BY <1>1, FoundIsPresent
<1>3. UNCHANGED <<hash, tableSize>>
  BY DEF Insert
<1>4. \/ /\ stop # NoSlot => ~Holds(table, stop, k) /\ count >= tableSize
         /\ reply' = "refused"
         /\ UNCHANGED <<table, count, tombstones>>
      \/ /\ stop # NoSlot
         /\ Holds(table, stop, k)
         /\ table' = [table EXCEPT ![stop].value = v]
         /\ reply' = "updated"
         /\ UNCHANGED <<count, tombstones>>
      \/ /\ stop # NoSlot
         /\ ~Holds(table, stop, k) /\ count < tableSize
         /\ table' = Stored(table, k, v)
         /\ count' = count + 1
         /\ tombstones' = IF Target(table, k, stop) # stop THEN tombstones - 1 ELSE tombstones
         /\ reply' = "inserted"
  BY DEF Insert, GravesAfterInsert
<1>5. CASE /\ stop # NoSlot => ~Holds(table, stop, k) /\ count >= tableSize
           /\ reply' = "refused"
           /\ UNCHANGED <<table, count, tombstones>>
  <2>1. ~Present(table, k)
    BY <1>2, <1>5
  <2>2. \A i \in Slots : table[i].state # EMPTY
    <3>1. CASE stop = NoSlot
      BY <1>1, <2>1, <3>1, ProbeOfAbsent DEF NoSlot, Slots, Sized
    <3>2. CASE stop # NoSlot
      <4>1. Used(table) = Slots
        <5>1. Used(table) \in SUBSET Slots /\ IsFiniteSet(Slots) /\ Cardinality(Slots) = tableSize
          BY <1>1, UsedSlots, SlotsFinite
        <5>2. Cardinality(Used(table)) \in 0 .. tableSize
          BY <5>1, SlotsFinite
        <5>3. Cardinality(Used(table)) = Cardinality(Slots)
          BY <1>1, <1>5, <3>2, <5>1, <5>2 DEF Sized
        <5> QED BY <5>1, <5>3, FS_Subset
      <4> QED BY <1>1, <4>1, UsedSlots DEF EMPTY, OCCUPIED
    <3> QED BY <3>1, <3>2
  <2>3. count + tombstones = tableSize
    BY <2>2, NothingEmpty
  <2>4. Shape(table', count', tombstones')
    BY <1>5
  <2> QED BY <1>3, <1>5, <2>1, <2>3, <2>4
<1>6. CASE /\ stop # NoSlot
           /\ Holds(table, stop, k)
           /\ table' = [table EXCEPT ![stop].value = v]
           /\ reply' = "updated"
           /\ UNCHANGED <<count, tombstones>>
  <2>1. Present(table, k) /\ stop \in Used(table) /\ table[stop].key = k
    BY <1>2, <1>6
  <2> HIDE DEF stop
  <2>2. /\ Shape(table', count, tombstones)
        /\ Content(table') = Without(Content(table), k) \cup {<<k, v>>}
    <3>1. table' = Revalued(table, stop, v)
      BY <1>6 DEF Revalued
    <3> QED BY <2>1, <3>1, UpdatedShape
  <2> QED BY <1>3, <1>6, <2>1, <2>2
<1>7. CASE /\ stop # NoSlot
           /\ ~Holds(table, stop, k) /\ count < tableSize
           /\ table' = Stored(table, k, v)
           /\ count' = count + 1
           /\ tombstones' = IF Target(table, k, stop) # stop THEN tombstones - 1 ELSE tombstones
           /\ reply' = "inserted"
  <2>1. ~Present(table, k)
    BY <1>2, <1>7
  <2>2. /\ Shape(table', count', tombstones')
        /\ Content(table') = Content(table) \cup {<<k, v>>}
    BY <1>7, <2>1, InsertedShape
  <2> QED BY <1>3, <1>7, <2>1, <2>2
<1> QED BY <1>4, <1>5, <1>6, <1>7

\* What erase of a stored key does.
LEMMA EraseEffect ==
  ASSUME Sized, Shape(table, count, tombstones), NEW k \in Keys, Erase(k)
  PROVE  /\ Shape(table', count', tombstones') /\ UNCHANGED <<hash, tableSize>>
         /\ reply' = "erased" /\ Present(table, k)
         /\ Content(table') = Without(Content(table), k)
<1> DEFINE stop == ProbeEnd(table, k)
           u == [table EXCEPT ![stop] = Freed]
<1>1. Good(table) /\ Cut(table)
  BY DEF Shape
<1>2. Present(table, k) /\ stop \in Used(table) /\ table[stop].key = k
  BY <1>1, FoundIsPresent DEF Erase, Found
<1>3. /\ UNCHANGED <<hash, tableSize>> /\ reply' = "erased" /\ count' = count - 1
      /\ \/ /\ TooManyGraves(tombstones + 1)
            /\ Rehash(u, count - 1)
         \/ /\ ~TooManyGraves(tombstones + 1)
            /\ table' = u /\ tombstones' = tombstones + 1
  BY DEF Erase
<1> HIDE DEF stop
<1>4. /\ Good(u) /\ Cut(u)
      /\ Cardinality(Used(u)) = count - 1
      /\ Cardinality(Graves(u)) = tombstones + 1
      /\ Content(u) = Without(Content(table), k)
  BY <1>1, <1>2, ErasedTable DEF Shape
<1> HIDE DEF u
<1>5. tombstones \in Nat /\ tableSize \in Nat \ {0} /\ count \in Nat
  BY ShapeBounds DEF Sized
<1>6. CASE ~TooManyGraves(tombstones + 1) /\ table' = u /\ tombstones' = tombstones + 1
  <2>1. 4 * (tombstones + 1) <= tableSize
    BY <1>5, <1>6 DEF TooManyGraves
  <2> QED BY <1>2, <1>3, <1>4, <1>6, <2>1 DEF Shape
<1>7. CASE Rehash(u, count - 1)
  <2>1. /\ tombstones' = 0
        /\ \/ table' = IF count - 1 = 0 THEN Blank ELSE FastRehash(u)
           \/ table' = SlowRehash(u)
    BY <1>7 DEF Rehash
  <2>2. Shape(table', count - 1, 0) /\ Content(table') = Content(u)
    BY <1>4, <2>1, RehashedShape
  <2> QED BY <1>2, <1>3, <1>4, <2>1, <2>2
<1> QED BY <1>3, <1>6, <1>7

\* What compact does.
LEMMA CompactEffect ==
  ASSUME Sized, Shape(table, count, tombstones), compact
  PROVE  /\ Shape(table', count', tombstones') /\ UNCHANGED <<hash, tableSize>>
         /\ reply' = "none" /\ Content(table') = Content(table)
<1>1. /\ UNCHANGED <<hash, tableSize, count>> /\ reply' = "none" /\ tombstones' = 0
      /\ \/ table' = IF count = 0 THEN Blank ELSE FastRehash(table)
         \/ table' = SlowRehash(table)
  BY DEF compact, Rehash
<1>2. Shape(table', count, 0) /\ Content(table') = Content(table)
  BY <1>1, RehashedShape DEF Shape
<1> QED BY <1>1, <1>2

\* What clear does.
LEMMA ClearEffect ==
  ASSUME Sized, clear
  PROVE  /\ Shape(table', count', tombstones') /\ UNCHANGED <<hash, tableSize>>
         /\ reply' = "none" /\ Content(table') = {}
<1>1. /\ UNCHANGED <<hash, tableSize>> /\ reply' = "none"
      /\ table' = Blank /\ count' = 0 /\ tombstones' = 0
  BY DEF clear
<1>2. Cardinality(Graves(Blank)) = 0 /\ 4 * 0 <= tableSize
  BY BlankTable, FS_EmptySet DEF Sized
<1>3. Shape(Blank, 0, 0)
  BY <1>2, BlankTable DEF Shape
<1> QED BY <1>1, <1>3, BlankTable

-----------------------------------------------------------------------------
(* The inductive invariant *)

Replies ==
  {"none", "inserted", "updated", "refused", "erased", "absent", "no memory"}

NoTable == table = [i \in {} |-> 0] /\ count = 0 /\ tombstones = 0

IInv ==
  /\ hash \in [Keys -> 0 .. MaxHash]
  /\ tableSize \in Sizes \cup {0}
  /\ reply \in Replies
  /\ HasTable => Shape(table, count, tombstones)
  /\ ~HasTable => NoTable

\* A map with a table has slots.
LEMMA SizedNow == IInv /\ HasTable => Sized
  BY SizesType DEF IInv, HasTable, Sized

\* The promises about a table depend on nothing but the table, its size and the hash.
LEMMA SameRing ==
  ASSUME UNCHANGED <<hash, tableSize>>, Shape(table', count', tombstones')
  PROVE  Shape(table, count, tombstones)'
  BY DEF Shape, Good, Typed, NoKeyTwice, Chained, Cut, CutAt, Used, Graves, OfState, EntryType,
         States, Slots, Home, getHash, Rank, Distance, After

\* A new table.
LEMMA NewTable ==
  Sized /\ table = Blank /\ count = 0 /\ tombstones = 0 => Shape(table, count, tombstones)
<1> SUFFICES ASSUME Sized, table = Blank, count = 0, tombstones = 0
             PROVE  Shape(table, count, tombstones)
  OBVIOUS
<1>1. Cardinality(Graves(Blank)) = 0 /\ 4 * 0 <= tableSize
  BY BlankTable, FS_EmptySet DEF Sized
<1> QED BY <1>1, BlankTable DEF Shape


\* A default-constructed map.
LEMMA Initially == Init => IInv
  BY DEF Init, IInv, HasTable, Replies, NoTable

\* Every operation keeps the invariant.
LEMMA Step == IInv /\ [Next]_vars => IInv'
<1> SUFFICES ASSUME IInv, [Next]_vars PROVE IInv'
  OBVIOUS
<1>1. HasTable => Sized /\ Shape(table, count, tombstones)
  BY SizedNow DEF IInv
<1>2. ASSUME HasTable, UNCHANGED <<hash, tableSize>>, Shape(table', count', tombstones'),
             reply' \in Replies
      PROVE  IInv'
  <2>1. Shape(table, count, tombstones)'
    BY <1>2, SameRing
  <2>2. HasTable'
    BY <1>2 DEF HasTable
  <2> QED BY <1>2, <2>1, <2>2 DEF IInv
<1>3. ASSUME NEW n \in Sizes, init(n)
      PROVE  IInv'
  <2>1. ~HasTable /\ NoTable /\ n \in Nat \ {0}
    BY <1>3, SizesType DEF init, IInv
  <2>2. CASE /\ tableSize' = n
             /\ table' = [i \in 0 .. n - 1 |-> Entry(EMPTY, Zero, Zero)]
             /\ reply' = "none"
    <3>1. hash' = hash /\ count' = 0 /\ tombstones' = 0 /\ hash \in [Keys -> Nat]
      <4>1. hash \in [Keys -> 0 .. MaxHash] /\ MaxHash \in Nat
        BY SizesType DEF IInv
      <4>2. hash \in [Keys -> Nat]
        BY <4>1
      <4> QED BY <1>3, <2>1, <4>2 DEF init, NoTable
    <3>2. (Sized /\ table = Blank /\ count = 0 /\ tombstones = 0)'
      BY <2>1, <2>2, <3>1 DEF Sized, Blank, Slots
    <3>3. Shape(table, count, tombstones)'
      BY <3>2, NewTable, PTL
    <3>4. HasTable' /\ (tableSize \in Sizes \cup {0})'
      BY <2>1, <2>2 DEF HasTable
    <3> QED BY <2>2, <3>1, <3>3, <3>4 DEF IInv, Replies
  <2>3. CASE reply' = "no memory" /\ UNCHANGED <<table, tableSize>>
    <3>1. UNCHANGED <<hash, count, tombstones>>
      BY <1>3 DEF init
    <3> QED BY <2>1, <2>3, <3>1 DEF IInv, HasTable, NoTable, Replies
  <2> QED BY <1>3, <2>2, <2>3 DEF init
<1>4. ASSUME deinit
      PROVE  IInv'
  BY <1>4 DEF deinit, IInv, HasTable, NoTable, Replies
<1>5. ASSUME NEW k \in Keys, NEW v \in Values, Insert(k, v)
      PROVE  IInv'
  <2>1. HasTable
    BY <1>5 DEF Insert
  <2> QED BY <1>1, <1>2, <1>5, <2>1, InsertEffect DEF Replies
<1>6. ASSUME NEW k \in Keys, Erase(k)
      PROVE  IInv'
  <2>1. HasTable
    BY <1>6 DEF Erase
  <2> QED BY <1>1, <1>2, <1>6, <2>1, EraseEffect DEF Replies
<1>7. ASSUME NEW k \in Keys, EraseAbsent(k)
      PROVE  IInv'
  BY <1>1, <1>2, <1>7 DEF EraseAbsent, Replies
<1>8. ASSUME clear
      PROVE  IInv'
  <2>1. HasTable
    BY <1>8 DEF clear
  <2> QED BY <1>1, <1>2, <1>8, <2>1, ClearEffect DEF Replies
<1>9. ASSUME compact
      PROVE  IInv'
  <2>1. HasTable
    BY <1>9 DEF compact, IInv, NoTable
  <2> QED BY <1>1, <1>2, <1>9, <2>1, CompactEffect DEF Replies
<1>10. ASSUME UNCHANGED vars
       PROVE  IInv'
  <2>1. UNCHANGED <<hash, table, tableSize, count, tombstones, reply>>
    BY <1>10 DEF vars
  <2>2. CASE HasTable
    BY <1>1, <1>2, <2>1, <2>2 DEF IInv
  <2>3. CASE ~HasTable
    BY <2>1, <2>3 DEF IInv, HasTable, NoTable
  <2> QED BY <2>2, <2>3
<1> QED BY <1>3, <1>4, <1>5, <1>6, <1>7, <1>8, <1>9, <1>10 DEF Next

\* The invariant holds in every state.
LEMMA Invariance == Spec => []IInv
  BY Initially, Step, PTL DEF Spec

-----------------------------------------------------------------------------
(* The theorems *)

\* Every stored key is found by its own probe loop and is stored once, whatever the
\* hash function does: reuse of tombstones, and both rehashes, keep the probe chains
\* of insert, find and erase (unordered_map.h:107-215, 376-480).
THEOREM EveryKeyFound == Spec => []Reachable
<1>1. IInv => Reachable
  <2> SUFFICES ASSUME IInv, NEW i \in OfState(table, OCCUPIED)
               PROVE  ProbeEnd(table, table[i].key) = i
    BY DEF Reachable
  <2>1. HasTable
    BY DEF IInv, NoTable, OfState
  <2>2. Sized /\ Good(table) /\ i \in Used(table)
    BY <2>1, SizedNow DEF IInv, Shape, Used
  <2> QED BY <2>2, ProbeOfStored
<1> QED BY <1>1, Invariance, PTL

\* The types of the map, and what a caller and the rehash go by: size() and the number
\* of tombstones are exact, tombstones stay at most a quarter of the table, and a
\* range-for over begin() .. end() visits size() entries.
THEOREM MapWellFormed == Spec => []WellFormed
<1>1. IInv => WellFormed
  <2> SUFFICES ASSUME IInv PROVE WellFormed
    OBVIOUS
  <2>1. CASE HasTable
    <3>1. Sized /\ Shape(table, count, tombstones) /\ Typed(table)
      BY <2>1, SizedNow DEF IInv, Shape, Good
    <3>2. /\ count \in 0 .. tableSize /\ tombstones \in 0 .. tableSize
          /\ count \in Nat /\ tableSize \in Nat
      BY <3>1, ShapeBounds DEF Sized
    <3>3. TypeOK
      <4>1. \A i \in Slots : table[i].state = OCCUPIED => i \in Used(table)
        BY <3>1, UsedSlots
      <4>2. DOMAIN table = Slots /\ \A i \in Slots : table[i].state \in States
        BY <3>1, UsedSlots
      <4> QED BY <3>1, <3>2, <4>1, <4>2 DEF TypeOK, IInv, Typed, States, Replies
    <3>4. CountsExact /\ FewTombstones
      BY <3>1 DEF Shape, CountsExact, FewTombstones, Used, Graves
    <3>5. WalkVisitsAll
      BY <3>1, <3>2, WalkVisits DEF Shape
    <3> QED BY <3>3, <3>4, <3>5 DEF WellFormed
  <2>2. CASE ~HasTable
    <3>1. table = [i \in {} |-> 0] /\ count = 0 /\ tombstones = 0 /\ tableSize = 0
      BY <2>2 DEF IInv, NoTable, HasTable
    <3>2. Slots = {} /\ DOMAIN table = {}
      BY <3>1 DEF Slots
    <3>3. TypeOK /\ FewTombstones
      <4>1. /\ hash \in [Keys -> 0 .. MaxHash]
            /\ reply \in {"none", "inserted", "updated", "refused", "erased", "absent",
                           "no memory"}
        BY DEF IInv, Replies
      <4>2. /\ tableSize \in Sizes \cup {0}
            /\ count \in 0 .. tableSize /\ tombstones \in 0 .. tableSize
        BY <3>1
      <4>3. TypeOK
        BY <3>2, <4>1, <4>2 DEF TypeOK
      <4> QED BY <3>1, <4>3 DEF FewTombstones
    <3>4. OfState(table, OCCUPIED) = {} /\ OfState(table, TOMBSTONE) = {}
      BY <3>2 DEF OfState
    <3>5. CountsExact
      BY <3>1, <3>4, FS_EmptySet DEF CountsExact
    <3>6. WalkVisitsAll
      <4>1. Typed(table) /\ count = Cardinality(Used(table)) /\ count \in Nat /\ tableSize \in Nat
        BY <3>1, <3>2, <3>4, FS_EmptySet DEF Typed, Used
      <4> QED BY <4>1, WalkVisits
    <3> QED BY <3>3, <3>5, <3>6 DEF WellFormed
  <2> QED BY <2>1, <2>2
<1> QED BY <1>1, Invariance, PTL

-----------------------------------------------------------------------------
(* The dictionary *)

\* What a table stands for: the refinement mapping, and what it has to do with Content.
Lookup == [k \in {x \in Keys : HasTable /\ Found(x)} |-> Find(k)]

Says(d, C) == d = [k \in {p[1] : p \in C} |-> d[k]] /\ \A p \in C : d[p[1]] = p[2]

\* The keys of the content are the stored keys.
LEMMA KeysOfContent ==
  ASSUME NEW t
  PROVE  /\ {p[1] : p \in Content(t)} = {t[i].key : i \in Used(t)}
         /\ \A k : k \in {p[1] : p \in Content(t)} <=> Present(t, k)
<1>1. ASSUME NEW i \in Used(t)
      PROVE  t[i].key \in {p[1] : p \in Content(t)}
  <2>1. <<t[i].key, t[i].value>> \in Content(t) /\ <<t[i].key, t[i].value>>[1] = t[i].key
    BY DEF Content
  <2> QED BY <2>1
<1>2. ASSUME NEW p \in Content(t)
      PROVE  p[1] \in {t[i].key : i \in Used(t)}
  <2>1. PICK i \in Used(t) : p = <<t[i].key, t[i].value>>
    BY DEF Content
  <2> QED BY <2>1
<1>3. {p[1] : p \in Content(t)} = {t[i].key : i \in Used(t)}
  BY <1>1, <1>2
<1> QED BY <1>3 DEF Present

\* What can be found is what the table contains.
LEMMA LookupSays == IInv => Says(Lookup, Content(table))
<1> SUFFICES ASSUME IInv PROVE Says(Lookup, Content(table))
  OBVIOUS
<1>1. CASE ~HasTable
  <2>1. Content(table) = {}
    BY <1>1 DEF IInv, NoTable, Content, Used, OfState
  <2>2. Lookup = [k \in {} |-> Lookup[k]]
    BY <1>1 DEF Lookup
  <2> QED BY <2>1, <2>2 DEF Says
<1>2. CASE HasTable
  <2>1. Sized /\ Good(table) /\ Typed(table)
    BY <1>2, SizedNow DEF IInv, Shape, Good
  <2>2. \A k \in Keys : Found(k) <=> Present(table, k)
    BY <2>1, FoundIsPresent DEF Found
  <2>3. \A k : k \in {p[1] : p \in Content(table)} <=> Present(table, k)
    BY KeysOfContent
  <2>4. \A p \in Content(table) : p[1] \in Keys
    BY <2>1 DEF Content, Typed
  <2>5. {p[1] : p \in Content(table)} = {x \in Keys : HasTable /\ Found(x)}
    BY <1>2, <2>2, <2>3, <2>4
  <2>6. Lookup = [k \in {p[1] : p \in Content(table)} |-> Lookup[k]]
    BY <2>5 DEF Lookup
  <2>7. ASSUME NEW p \in Content(table)
        PROVE  Lookup[p[1]] = p[2]
    <3>1. PICK i \in Used(table) : p = <<table[i].key, table[i].value>>
      BY DEF Content
    <3>2. p[1] = table[i].key /\ p[2] = table[i].value
      BY <3>1
    <3>3. ProbeEnd(table, p[1]) = i
      BY <2>1, <3>2, ProbeOfStored
    <3>4. p[1] \in {x \in Keys : HasTable /\ Found(x)}
      BY <2>5
    <3>5. Lookup[p[1]] = Find(p[1])
      BY <3>4 DEF Lookup
    <3> QED BY <3>2, <3>3, <3>5 DEF Find
  <2> QED BY <2>6, <2>7 DEF Says
<1> QED BY <1>1, <1>2

\* There are as many keys to find as entries.
LEMMA LookupSize == IInv /\ HasTable => Cardinality(DOMAIN Lookup) = count
<1> SUFFICES ASSUME IInv, HasTable PROVE Cardinality(DOMAIN Lookup) = count
  OBVIOUS
<1>1. /\ Sized /\ Good(table) /\ Typed(table) /\ count = Cardinality(Used(table))
      /\ IsFiniteSet(Used(table))
  BY SizedNow, SlotsFinite, UsedSlots DEF IInv, Shape, Good
<1> DEFINE f == [i \in Used(table) |-> table[i].key]
<1>2. DOMAIN Lookup = {p[1] : p \in Content(table)}
  BY LookupSays DEF Says
<1>3. DOMAIN Lookup = {table[i].key : i \in Used(table)}
  BY <1>2, KeysOfContent
<1>4. f \in Surjection(Used(table), DOMAIN Lookup)
  BY <1>3 DEF Surjection
<1>5. f \in Injection(Used(table), DOMAIN Lookup)
  BY <1>1, <1>3 DEF Good, NoKeyTwice, Injection, IsInjective
<1>6. ExistsBijection(Used(table), DOMAIN Lookup)
  BY <1>4, <1>5 DEF Bijection, ExistsBijection
<1> QED BY <1>1, <1>6, FS_Bijection

\* How the dictionary changes with the content.
LEMMA SaysNothing ==
  ASSUME NEW d, Says(d, {})
  PROVE  d = [k \in {} |-> 0]
  BY DEF Says

\* Equal contents, equal dictionaries.
LEMMA SaysSame ==
  ASSUME NEW C, NEW d, Says(d, C), NEW e, Says(e, C)
  PROVE  d = e
<1>1. \A k \in {p[1] : p \in C} : d[k] = e[k]
  BY DEF Says
<1> QED BY <1>1 DEF Says

More(C, k, v) == C \cup {<<k, v>>}

\* One more pair.
LEMMA SaysMore ==
  ASSUME NEW C, NEW d, Says(d, C), NEW k, k \notin DOMAIN d, NEW v,
         NEW e, Says(e, More(C, k, v))
  PROVE  e = [x \in DOMAIN d \cup {k} |-> IF x = k THEN v ELSE d[x]]
<1> DEFINE N == More(C, k, v)
<1>1. /\ d = [x \in {p[1] : p \in C} |-> d[x]] /\ e = [x \in {p[1] : p \in N} |-> e[x]]
      /\ \A p \in C : d[p[1]] = p[2]
      /\ \A p \in N : e[p[1]] = p[2]
  BY DEF Says
<1>2. <<k, v>> \in N /\ <<k, v>>[1] = k /\ <<k, v>>[2] = v
  BY DEF More
<1>3. {p[1] : p \in N} = {p[1] : p \in C} \cup {k}
  BY <1>2 DEF More
<1>4. DOMAIN d = {p[1] : p \in C}
  BY <1>1
<1>5. e[k] = v
  BY <1>1, <1>2
<1>6. ASSUME NEW x \in DOMAIN d
      PROVE  x # k /\ e[x] = d[x]
  <2>1. PICK p \in C : x = p[1]
    BY <1>4
  <2> QED BY <1>1, <2>1 DEF More
<1> HIDE DEF N
<1>7. e = [x \in DOMAIN d \cup {k} |-> e[x]]
  BY <1>1, <1>3, <1>4
<1>8. \A x \in DOMAIN d \cup {k} : e[x] = IF x = k THEN v ELSE d[x]
  BY <1>5, <1>6
<1> QED BY <1>7, <1>8

\* One key less.
LEMMA SaysLess ==
  ASSUME NEW C, NEW d, Says(d, C), NEW k, NEW e, Says(e, Without(C, k))
  PROVE  e = [x \in DOMAIN d \ {k} |-> d[x]]
<1> DEFINE N == Without(C, k)
<1>1. /\ d = [x \in {p[1] : p \in C} |-> d[x]] /\ e = [x \in {p[1] : p \in N} |-> e[x]]
      /\ \A p \in C : d[p[1]] = p[2]
      /\ \A p \in N : e[p[1]] = p[2]
  BY DEF Says
<1>2. \A p : p \in N <=> p \in C /\ p[1] # k
  BY DEF Without
<1> HIDE DEF N
<1>3. {p[1] : p \in N} = {p[1] : p \in C} \ {k}
  BY <1>2
<1>4. DOMAIN d = {p[1] : p \in C}
  BY <1>1
<1>5. ASSUME NEW x \in DOMAIN d \ {k}
      PROVE  e[x] = d[x]
  <2>1. PICK p \in C : x = p[1]
    BY <1>4
  <2>2. p \in N
    BY <1>2, <2>1
  <2> QED BY <1>1, <2>1, <2>2
<1>6. e = [x \in DOMAIN d \ {k} |-> e[x]]
  BY <1>1, <1>3, <1>4
<1> QED BY <1>5, <1>6

\* Another value for a key.
LEMMA SaysOther ==
  ASSUME NEW C, NEW d, Says(d, C), NEW k \in DOMAIN d, NEW v,
         NEW e, Says(e, More(Without(C, k), k, v))
  PROVE  e = [d EXCEPT ![k] = v]
<1> DEFINE W == Without(C, k)
           r == [x \in DOMAIN d \ {k} |-> d[x]]
<1>1. Says(r, W)
  <2>1. d = [x \in {p[1] : p \in C} |-> d[x]] /\ \A p \in C : d[p[1]] = p[2]
    BY DEF Says
  <2>2. \A p : p \in W <=> p \in C /\ p[1] # k
    BY DEF Without
  <2> HIDE DEF W
  <2>3. {p[1] : p \in W} = DOMAIN d \ {k}
    BY <2>1, <2>2
  <2>4. \A p \in W : p[1] \in DOMAIN d \ {k} /\ d[p[1]] = p[2]
    BY <2>1, <2>2, <2>3
  <2>5. r = [x \in {p[1] : p \in W} |-> r[x]]
    BY <2>3
  <2>6. \A p \in W : r[p[1]] = p[2]
    BY <2>4
  <2> QED BY <2>5, <2>6 DEF Says
<1>2. DOMAIN r = DOMAIN d \ {k} /\ k \notin DOMAIN r /\ \A x \in DOMAIN d \ {k} : r[x] = d[x]
  OBVIOUS
<1> HIDE DEF r, W
<1>3. e = [x \in DOMAIN r \cup {k} |-> IF x = k THEN v ELSE r[x]]
  BY <1>1, <1>2, SaysMore DEF W
<1>4. d = [x \in DOMAIN d |-> d[x]]
  BY DEF Says
<1>5. DOMAIN r \cup {k} = DOMAIN d
  BY <1>2
<1>6. \A x \in DOMAIN d : e[x] = IF x = k THEN v ELSE d[x]
  BY <1>2, <1>3, <1>5
<1>7. DOMAIN e = DOMAIN d
  BY <1>3, <1>5
<1> QED BY <1>3, <1>4, <1>5, <1>6, <1>7


\* The keys that can be found are the stored ones.
LEMMA KeysOfLookup ==
  IInv => \A k : k \in DOMAIN Lookup <=> Present(table, k)
<1> SUFFICES ASSUME IInv, NEW k PROVE k \in DOMAIN Lookup <=> Present(table, k)
  OBVIOUS
<1>1. DOMAIN Lookup = {p[1] : p \in Content(table)}
  BY LookupSays DEF Says
<1> QED BY <1>1, KeysOfContent

\* The bound of the abstract map: insert turns a new key down only in the last quarter.
LEMMA NoSlack ==
  IInv /\ HasTable /\ count + tombstones = tableSize
    => ~(Cardinality(DOMAIN Lookup) < tableSize - tableSize \div 4)
<1> SUFFICES ASSUME IInv, HasTable, count + tombstones = tableSize
             PROVE  ~(Cardinality(DOMAIN Lookup) < tableSize - tableSize \div 4)
  OBVIOUS
<1>1. Sized /\ Shape(table, count, tombstones)
  BY SizedNow DEF IInv
<1>2. /\ count \in Nat /\ tombstones \in Nat /\ tableSize \in Nat
      /\ 4 * tombstones <= tableSize
  BY <1>1, ShapeBounds DEF Sized, Shape
<1>3. tombstones <= tableSize \div 4
  BY <1>2
<1> QED BY <1>2, <1>3, LookupSize

\* The map without a table is the empty dictionary.
LEMMA InitMaps == Init => Dict!Init
<1> SUFFICES ASSUME Init PROVE Dict!Init
  OBVIOUS
<1>1. ~HasTable /\ tableSize = 0 /\ reply = "none"
  BY DEF Init, HasTable
<1>2. Lookup = [k \in {} |-> 0]
  BY <1>1 DEF Lookup
<1> QED BY <1>1, <1>2 DEF Dict!Init, Dict!NoEntries, Lookup

\* Every operation of the table is the operation of the dictionary.
LEMMA StepMaps == IInv /\ IInv' /\ [Next]_vars => [Dict!Next]_(Dict!dictVars)
<1> SUFFICES ASSUME IInv, IInv', [Next]_vars PROVE [Dict!Next]_(Dict!dictVars)
  OBVIOUS
<1> DEFINE d == Lookup
           C == Content(table)
<1>1. Says(d, C) /\ Says(d', C')
  <2>1. Says(Lookup, Content(table))
    BY LookupSays
  <2>2. Says(Lookup, Content(table))'
    BY LookupSays, PTL
  <2>3. Says(Lookup', Content(table)')
    BY <2>2 DEF Says
  <2> QED BY <2>1, <2>3
<1>2. C' = Content(table')
  BY DEF Content, Used, OfState
<1>3. \A k : k \in DOMAIN d <=> Present(table, k)
  BY KeysOfLookup
<1> HIDE DEF d, C
<1>4. ASSUME table' = table
      PROVE  d' = d
  <2>1. Content(table') = Content(table)
    BY <1>4
  <2> QED BY <1>1, <1>2, <2>1, SaysSame DEF C
<1>5. HasTable => Sized /\ Shape(table, count, tombstones)
  BY SizedNow DEF IInv
<1>6. ASSUME NEW n \in Sizes, init(n)
      PROVE  Dict!Open(n)
  <2>1. ~HasTable /\ tableSize = 0 /\ C = {}
    BY <1>6 DEF init, HasTable, IInv, NoTable, C, Content, Used, OfState
  <2>2. CASE /\ tableSize' = n
             /\ table' = [i \in 0 .. n - 1 |-> Entry(EMPTY, Zero, Zero)]
             /\ reply' = "none"
    <3>1. C' = {}
      BY <1>2, <2>2 DEF Content, Used, OfState, Entry, EMPTY, OCCUPIED
    <3>2. d' = d
      BY <1>1, <2>1, <3>1, SaysSame
    <3> QED BY <2>1, <2>2, <3>2 DEF Dict!Open, d, Lookup
  <2>3. CASE reply' = "no memory" /\ UNCHANGED <<table, tableSize>>
    BY <1>4, <2>1, <2>3 DEF Dict!Open, d, Lookup
  <2> QED BY <1>6, <2>2, <2>3 DEF init
<1>7. ASSUME deinit
      PROVE  Dict!Close
  <2>1. reply' = "none" /\ tableSize' = 0 /\ C' = {}
    BY <1>2, <1>7 DEF deinit, Content, Used, OfState
  <2>2. d' = [k \in {} |-> 0]
    BY <1>1, <2>1, SaysNothing
  <2> QED BY <2>1, <2>2 DEF Dict!Close, Dict!NoEntries, d, Lookup
<1>8. ASSUME NEW k \in Keys, NEW v \in Values, Insert(k, v)
      PROVE  Dict!Put(k, v)
  <2>1. HasTable
    BY <1>8 DEF Insert
  <2>2. /\ UNCHANGED <<hash, tableSize>>
        /\ \/ /\ reply' = "refused" /\ table' = table
              /\ ~Present(table, k) /\ count + tombstones = tableSize
           \/ /\ reply' = "updated" /\ Present(table, k)
              /\ Content(table') = Without(Content(table), k) \cup {<<k, v>>}
           \/ /\ reply' = "inserted" /\ ~Present(table, k)
              /\ Content(table') = Content(table) \cup {<<k, v>>}
    BY <1>5, <1>8, <2>1, InsertEffect
  <2>3. CASE /\ reply' = "refused" /\ table' = table
             /\ ~Present(table, k) /\ count + tombstones = tableSize
    <3>1. d' = d /\ k \notin DOMAIN d
      BY <1>3, <1>4, <2>3
    <3>2. ~(Cardinality(DOMAIN d) < tableSize - tableSize \div 4)
      BY <2>1, <2>3, NoSlack DEF d
    <3>3. ~Dict!Slack
      <4>1. Dict!Cardinality(DOMAIN d) = Cardinality(DOMAIN d)
        BY DEF Cardinality, Dict!Cardinality
      <4> QED BY <3>2, <4>1 DEF Dict!Slack, d, Lookup
    <3> QED BY <2>2, <2>3, <3>1, <3>3 DEF Dict!Put, d, Lookup
  <2>4. CASE /\ reply' = "updated" /\ Present(table, k)
             /\ Content(table') = Without(Content(table), k) \cup {<<k, v>>}
    <3>1. k \in DOMAIN d
      BY <1>3, <2>4
    <3>2. d' = [d EXCEPT ![k] = v]
      <4>1. C' = More(Without(C, k), k, v)
        BY <1>2, <2>4 DEF C, More
      <4> QED BY <1>1, <3>1, <4>1, SaysOther
    <3> QED BY <2>2, <2>4, <3>1, <3>2 DEF Dict!Put, d, Lookup
  <2>5. CASE /\ reply' = "inserted" /\ ~Present(table, k)
             /\ Content(table') = Content(table) \cup {<<k, v>>}
    <3>1. k \notin DOMAIN d
      BY <1>3, <2>5
    <3>2. d' = [x \in DOMAIN d \cup {k} |-> IF x = k THEN v ELSE d[x]]
      <4>1. C' = More(C, k, v)
        BY <1>2, <2>5 DEF C, More
      <4> QED BY <1>1, <3>1, <4>1, SaysMore
    <3> QED BY <2>2, <2>5, <3>1, <3>2 DEF Dict!Put, d, Lookup
  <2> QED BY <2>2, <2>3, <2>4, <2>5
<1>9. ASSUME NEW k \in Keys, Erase(k)
      PROVE  Dict!Remove(k)
  <2>1. HasTable
    BY <1>9 DEF Erase
  <2>2. /\ UNCHANGED <<hash, tableSize>> /\ reply' = "erased" /\ Present(table, k)
        /\ Content(table') = Without(Content(table), k)
    BY <1>5, <1>9, <2>1, EraseEffect
  <2>3. d' = [x \in DOMAIN d \ {k} |-> d[x]]
    BY <1>1, <1>2, <2>2, SaysLess, SMTT(30) DEF C
  <2>4. k \in DOMAIN d
    BY <1>3, <2>2
  <2> QED BY <2>2, <2>3, <2>4 DEF Dict!Remove, d, Lookup
<1>10. ASSUME NEW k \in Keys, EraseAbsent(k)
       PROVE  Dict!Remove(k)
  <2>1. HasTable /\ ~Found(k) /\ reply' = "absent" /\ UNCHANGED <<table, tableSize>>
    BY <1>10 DEF EraseAbsent
  <2>2. k \notin DOMAIN d
    BY <2>1 DEF d, Lookup
  <2>3. d = [x \in DOMAIN d \ {k} |-> d[x]]
    <3>1. d = [x \in DOMAIN d |-> d[x]]
      BY DEF d, Lookup
    <3>2. DOMAIN d \ {k} = DOMAIN d
      BY <2>2
    <3> QED BY <3>1, <3>2
  <2>4. d' = [x \in DOMAIN d \ {k} |-> d[x]]
    BY <1>4, <2>1, <2>3
  <2> QED BY <2>1, <2>2, <2>4 DEF Dict!Remove, d, Lookup
<1>11. ASSUME clear
       PROVE  Dict!Empty
  <2>1. UNCHANGED <<hash, tableSize>> /\ reply' = "none" /\ Content(table') = {}
    <3>1. HasTable
      BY <1>11 DEF clear
    <3> QED BY <1>5, <1>11, <3>1, ClearEffect
  <2>2. d' = [k \in {} |-> 0]
    BY <1>1, <1>2, <2>1, SaysNothing
  <2> QED BY <2>1, <2>2 DEF Dict!Empty, Dict!NoEntries, d, Lookup
<1>12. ASSUME compact
       PROVE  Dict!Tidy
  <2>1. UNCHANGED <<hash, tableSize>> /\ reply' = "none" /\ Content(table') = Content(table)
    <3>1. HasTable
      BY <1>12 DEF compact, IInv, NoTable
    <3> QED BY <1>5, <1>12, <3>1, CompactEffect
  <2>2. d' = d
    BY <1>1, <1>2, <2>1, SaysSame DEF C
  <2> QED BY <2>1, <2>2 DEF Dict!Tidy, d, Lookup
<1>13. ASSUME UNCHANGED vars
       PROVE  UNCHANGED Dict!dictVars
  <2>1. d' = d /\ UNCHANGED <<tableSize, reply>>
    BY <1>4, <1>13 DEF vars
  <2> QED BY <2>1 DEF Dict!dictVars, d, Lookup
<1>14. CASE Next
  BY <1>6, <1>7, <1>8, <1>9, <1>10, <1>11, <1>12, <1>14 DEF Next, Dict!Next
<1> QED BY <1>13, <1>14

\* The table implements a dictionary: insert, erase, find, clear and compact do to what
\* can be found exactly what they say, with the documented reply, whatever the
\* collisions, the tombstones and the rehashes; and a new key is only refused when less
\* than a quarter of the table is left (unordered_map.h:96-270).
THEOREM TableIsDictionary == Spec => ImplementsDictionary
<1>1. Init => Dict!Init
  BY InitMaps
<1>2. IInv /\ IInv' /\ [Next]_vars => [Dict!Next]_(Dict!dictVars)
  BY StepMaps
<1> QED BY <1>1, <1>2, Invariance, PTL DEF Spec, ImplementsDictionary, Dict!Spec

=============================================================================

---------------------------- MODULE StaticHashMap ----------------------------
(***************************************************************************)
(* lightstd::static_hash_map (include/lightstd/unordered_map.h): open      *)
(* addressing with linear probing and tombstones in a table of fixed size. *)
(* Every operation is one action; the hash function is any function from   *)
(* keys to numbers, chosen once.                                           *)
(*                                                                         *)
(* A probe loop visits the slots home, home + 1, ... around the table and  *)
(* stops at the first one of some kind.  It is written as that slot: the   *)
(* one of that kind at the least distance from home.                       *)
(*                                                                         *)
(* How the map is used: every operation but init on a map with a table,    *)
(* init on a map without (the code tests neither).                         *)
(***************************************************************************)
EXTENDS Integers, FiniteSets, FiniteSetsExt

CONSTANTS
  Keys, Values,
  Sizes,        \* the table sizes init is called with
  MaxHash,      \* bound on the values of the hash function
  MallocFails   \* may the allocation of the temporary storage fail?

ASSUME SizesType == Sizes \subseteq Nat \ {0} /\ MaxHash \in Nat /\ MallocFails \in BOOLEAN

VARIABLES
  hash,         \* hasher
  table,        \* table: a function from slots to entries
  tableSize,
  count,
  tombstones,
  reply         \* what the last operation returned

vars == <<hash, table, tableSize, count, tombstones, reply>>

EMPTY     == "EMPTY"
OCCUPIED  == "OCCUPIED"
TOMBSTONE == "TOMBSTONE"

Zero == "0"     \* what memset leaves in a key or a value

Entry(s, k, v) == [state |-> s, key |-> k, value |-> v]
Slots == 0 .. tableSize - 1

TypeOK ==
  /\ hash \in [Keys -> 0 .. MaxHash]
  /\ tableSize \in Sizes \cup {0}
  /\ DOMAIN table = Slots
  /\ \A i \in Slots :
       /\ table[i].state \in {EMPTY, OCCUPIED, TOMBSTONE}
       /\ table[i].state = OCCUPIED => table[i].key \in Keys /\ table[i].value \in Values
  /\ count \in 0 .. tableSize
  /\ tombstones \in 0 .. tableSize
  /\ reply \in {"none", "inserted", "updated", "refused", "erased", "absent",
             "no memory"}

\* A default-constructed map has no table.
Init ==
  /\ hash \in [Keys -> 0 .. MaxHash]
  /\ table = [i \in {} |-> 0]
  /\ tableSize = 0
  /\ count = 0
  /\ tombstones = 0
  /\ reply = "none"

-----------------------------------------------------------------------------
(* Probing *)

NoSlot == tableSize     \* the "invalid index" of insert

getHash(k) == hash[k] % tableSize

\* The slot d steps after home, around the table, and how far slot i is.
After(home, d) == IF home + d < tableSize THEN home + d ELSE home + d - tableSize
Distance(home, i) == IF i >= home THEN i - home ELSE i + tableSize - home

\* The first slot of the set S on the way from home, fewer than n steps away.
FirstFrom(home, n, S) ==
  LET D == {Distance(home, i) : i \in S} \cap 0 .. n - 1
  IN  IF D = {} THEN NoSlot ELSE After(home, Min(D))

OfState(tab, s) == {i \in DOMAIN tab : tab[i].state = s}
Holds(tab, i, k) == tab[i].state = OCCUPIED /\ tab[i].key = k

\* Where the loops of insert, find and erase end: an empty slot or the key's own.
ProbeEnd(tab, k) ==
  FirstFrom(getHash(k), tableSize,
            {i \in DOMAIN tab : tab[i].state = EMPTY \/ Holds(tab, i, k)})

-----------------------------------------------------------------------------
(* Defective variants of definitions below, for the sensitivity checks. *)

Freed_Empty == Entry(EMPTY, Zero, Zero)             \* line 212: breaks the probe chains
GravesAfterInsert_Kept(reused) == tombstones        \* line 144 dropped

-----------------------------------------------------------------------------
(* The table after an insertion, an erasure, a rehash *)

\* The first tombstone on the way, fewer than n steps from home.
Grave(home, n, tab) == FirstFrom(home, n, OfState(tab, TOMBSTONE))

\* The slot a new key goes to, given where its probe loop ended.
Target(tab, k, stop) ==
  LET grave == Grave(getHash(k), Distance(getHash(k), stop), tab)
  IN  IF grave # NoSlot THEN grave ELSE stop

Stored(tab, k, v) ==
  [tab EXCEPT ![Target(tab, k, ProbeEnd(tab, k))] = Entry(OCCUPIED, k, v)]

Freed == Entry(TOMBSTONE, Zero, Zero)

Blank == [i \in Slots |-> Entry(EMPTY, Zero, Zero)]

Reinsert(new, e) == IF e.state = OCCUPIED THEN Stored(new, e.key, e.value) ELSE new

\* With temporary storage: every entry is inserted again in an empty table, in the
\* order of the slots.
FastRehash(tab) ==
  LET new[n \in 0 .. tableSize] ==
        IF n = 0 THEN Blank ELSE Reinsert(new[n - 1], tab[n - 1])
  IN  new[tableSize]

\* Without: an entry moves to the first slot that is not occupied on the way
\* from its home to where it is.
Redistribute(tab, i) ==
  IF tab[i].state # OCCUPIED THEN tab
  ELSE LET home == getHash(tab[i].key)
           to   == FirstFrom(home, Distance(home, i), DOMAIN tab \ OfState(tab, OCCUPIED))
       IN  IF to = NoSlot THEN tab ELSE [tab EXCEPT ![to] = tab[i], ![i] = Freed]

Pass(tab) ==
  LET new[n \in 0 .. tableSize] ==
        IF n = 0 THEN tab ELSE Redistribute(new[n - 1], n - 1)
  IN  new[tableSize]

TwoPasses_Once(tab) == Pass(tab)    \* defective: line 459, one pass only
TwoPasses(tab) == Pass(Pass(tab))

SlowRehash(tab) ==
  LET moved == TwoPasses(tab)
  IN  [i \in Slots |-> IF moved[i].state = TOMBSTONE
                       THEN [moved[i] EXCEPT !.state = EMPTY] ELSE moved[i]]

TooManyGraves(n) == n > tableSize \div 4

\* rehashIfNeeded on table tab with n entries left.
Rehash(tab, n) ==
  /\ \/ table' = IF n = 0 THEN Blank ELSE FastRehash(tab)
     \/ MallocFails /\ n # 0 /\ table' = SlowRehash(tab)
  /\ tombstones' = 0

-----------------------------------------------------------------------------
(* Operations *)

HasTable == tableSize # 0

init(n) ==
  /\ ~ HasTable
  /\ \/ /\ tableSize' = n
        /\ table' = [i \in 0 .. n - 1 |-> Entry(EMPTY, Zero, Zero)]
        /\ reply' = "none"
     \/ /\ MallocFails
        /\ reply' = "no memory"
        /\ UNCHANGED <<table, tableSize>>
  /\ UNCHANGED <<hash, count, tombstones>>

deinit ==
  /\ HasTable
  /\ table' = [i \in {} |-> 0]
  /\ tableSize' = 0
  /\ count' = 0
  /\ tombstones' = 0
  /\ reply' = "none"
  /\ UNCHANGED hash

GravesAfterInsert(reused) == IF reused THEN tombstones - 1 ELSE tombstones

Insert(k, v) ==
  LET stop == ProbeEnd(table, k)
  IN
  /\ HasTable
  /\ \/ /\ stop # NoSlot => ~ Holds(table, stop, k) /\ count >= tableSize
        /\ reply' = "refused"
        /\ UNCHANGED <<table, count, tombstones>>
     \/ /\ stop # NoSlot
        /\ Holds(table, stop, k)
        /\ table' = [table EXCEPT ![stop].value = v]
        /\ reply' = "updated"
        /\ UNCHANGED <<count, tombstones>>
     \/ /\ stop # NoSlot
        /\ ~ Holds(table, stop, k) /\ count < tableSize
        /\ table' = Stored(table, k, v)
        /\ count' = count + 1
        /\ tombstones' = GravesAfterInsert(Target(table, k, stop) # stop)
        /\ reply' = "inserted"
  /\ UNCHANGED <<hash, tableSize>>

Found(k) ==
  LET stop == ProbeEnd(table, k)
  IN  stop # NoSlot /\ Holds(table, stop, k)

Find(k) == table[ProbeEnd(table, k)].value

EraseAbsent(k) ==
  /\ HasTable
  /\ ~ Found(k)
  /\ reply' = "absent"
  /\ UNCHANGED <<hash, table, tableSize, count, tombstones>>

Erase(k) ==
  LET tab == [table EXCEPT ![ProbeEnd(table, k)] = Freed]
  IN
  /\ HasTable
  /\ Found(k)
  /\ count' = count - 1
  /\ IF TooManyGraves(tombstones + 1)
     THEN Rehash(tab, count - 1)
     ELSE table' = tab /\ tombstones' = tombstones + 1
  /\ reply' = "erased"
  /\ UNCHANGED <<hash, tableSize>>

clear ==
  /\ HasTable
  /\ table' = Blank
  /\ count' = 0
  /\ tombstones' = 0
  /\ reply' = "none"
  /\ UNCHANGED <<hash, tableSize>>

compact ==
  /\ tombstones > 0
  /\ Rehash(table, count)
  /\ reply' = "none"
  /\ UNCHANGED <<hash, tableSize, count>>

Next ==
  \/ \E n \in Sizes : init(n)
  \/ deinit
  \/ \E k \in Keys, v \in Values : Insert(k, v)
  \/ \E k \in Keys : Erase(k) \/ EraseAbsent(k)
  \/ clear
  \/ compact

Spec == Init /\ [][Next]_vars

-----------------------------------------------------------------------------
(* Iteration: an iterator is the slot it points to *)

end == tableSize

\* The constructor and operator++ skip the slots that are not occupied.
Skip(i) == Min({j \in i .. end : j = end \/ table[j].state = OCCUPIED})

begin == Skip(0)
Advance(i) == IF i = end THEN end ELSE Skip(i + 1)

\* begin() after n increments.
Walk(n) ==
  LET it[m \in 0 .. n] == IF m = 0 THEN begin ELSE Advance(it[m - 1])
  IN  it[n]

-----------------------------------------------------------------------------
(* Properties *)

\* Every stored key is found by its own probe loop, and no key is stored twice:
\* tombstones, the reuse of slots and the two rehashes keep the probe chains.
Reachable ==
  \A i \in OfState(table, OCCUPIED) : ProbeEnd(table, table[i].key) = i

\* size() and the trigger of the rehash count what is in the table.
CountsExact ==
  /\ count = Cardinality(OfState(table, OCCUPIED))
  /\ tombstones = Cardinality(OfState(table, TOMBSTONE))

\* Lookups of absent keys stay cheap: outside the operations at most a quarter
\* of the table is tombstones.
FewTombstones == 4 * tombstones <= tableSize

\* A range-for sees every entry once: it reaches end() after size() steps, and
\* not before, over the tombstones and empty slots in between.
WalkVisitsAll ==
  /\ Walk(count) = end
  /\ \A n \in 0 .. count - 1 : Walk(n) \in OfState(table, OCCUPIED)

\* The table has its types, the two counters are exact, tombstones are few and
\* an iteration visits what size() counts.
WellFormed == TypeOK /\ CountsExact /\ FewTombstones /\ WalkVisitsAll

\* unordered_map.h:124, "Inserts a new key or updates the value of an existing
\* key": a new key is turned down only by a full table (lines 137-139).
RefusedOnlyWhenFull ==
  [][reply' = "refused" => count = tableSize]_vars

-----------------------------------------------------------------------------

\* The table implements a dictionary: what can be found is what was put, with
\* its last value, and not what was removed, whatever the collisions.
Dict == INSTANCE Dictionary WITH
  dict     <- [k \in {x \in Keys : HasTable /\ Found(x)} |-> Find(k)],
  capacity <- tableSize

ImplementsDictionary == Dict!Spec

=============================================================================

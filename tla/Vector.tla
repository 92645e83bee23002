-------------------------------- MODULE Vector --------------------------------
(***************************************************************************)
(* lightstd::vector (include/lightstd/vector.h): an allocation of cap      *)
(* slots, of which the first len hold elements.  A call is one action.     *)
(* The elements of any type are counted: what a constructor makes, a       *)
(* destructor must end, once.  Sizes stay far from the end of size_t.      *)
(***************************************************************************)
EXTENDS Integers, Sequences, Edits

CONSTANTS
  Vecs,       \* the vector objects
  Elems,      \* the values of an element
  Default,    \* the one its default constructor makes
  Raw,        \* what is read where there is no element
  FirstCap,   \* the smallest capacity a growth asks for, 16
  MaxSlots,   \* bound: larger allocations always fail, smaller ones may
  PopsObjects \* whether pop_back is called when elements have a destructor

ASSUME VectorConstants ==
  /\ Default \in Elems /\ Raw \notin Elems
  /\ FirstCap \in Nat \ {0} /\ MaxSlots \in Nat /\ PopsObjects \in BOOLEAN

VARIABLES
  vec,            \* each object: [slots |-> the slots at ptr, len |-> len, made |-> history:
                  \* the constructor calls less the destructor calls it has made]
  hasDestructor,  \* whether the element type has a destructor; never changes
  vectorCall      \* history: what the last call has asked for (Edits)

vecVars == <<vec, hasDestructor, vectorCall>>

NoVector == [slots |-> <<>>, len |-> 0, made |-> 0]

VectorInit ==
  /\ vec = [v \in Vecs |-> NoVector]
  /\ hasDestructor \in BOOLEAN
  /\ vectorCall = NoEdit

vector_capacity(s) == Len(s.slots)

Live(s) == SubSeq(s.slots, 1, s.len)

-----------------------------------------------------------------------------
(* Defective variants of definitions below, for the sensitivity checks. *)

Ended_NotCounted(s, from, to) ==             \* the destructors are not called
  [s EXCEPT !.slots = [i \in DOMAIN @ |-> IF i \in from + 1 .. to THEN Raw ELSE @[i]]]
Relocated_First(src, s, r) ==                \* line 272 without the index of line 264
  IF src.own THEN r.slots[1] ELSE src.value

-----------------------------------------------------------------------------
(* Operators on one vector *)

\* Elements are constructed in the slots behind the last one.
Made(s, new) ==
  [slots |-> [i \in DOMAIN s.slots |->
                IF i \in s.len + 1 .. s.len + Len(new) THEN new[i - s.len] ELSE s.slots[i]],
   len |-> s.len + Len(new), made |-> s.made + Len(new)]

\* destroy_range
Ended(s, from, to) ==
  [slots |-> [i \in DOMAIN s.slots |-> IF i \in from + 1 .. to THEN Raw ELSE s.slots[i]],
   len |-> s.len, made |-> s.made - (to - from)]

\* The elements behind the first n are destroyed.
Truncated(s, n) ==
  [slots |-> Ended(s, n, s.len).slots, len |-> n, made |-> Ended(s, n, s.len).made]

\* destroy_and_deallocate
Released(s) == [slots |-> <<>>, len |-> 0, made |-> Ended(s, 0, s.len).made]

\* reallocate to another capacity, which may fail: the elements that fit move to
\* new slots, and all old ones are destroyed.
Reallocated(s, n) ==
  IF n > MaxSlots THEN {}
  ELSE IF n = 0 THEN {[slots |-> <<>>, len |-> s.len, made |-> s.made]}
  ELSE LET kept == SubSeq(Live(s), 1, IF s.len < n THEN s.len ELSE n)
       IN  {[slots |-> kept \o [i \in 1 .. n - Len(kept) |-> Raw],
             len   |-> Len(kept),
             made  |-> Ended(s, 0, s.len).made + Len(kept)]}

\* The capacity, or FirstCap, doubled until it is enough: a set of one number.
growth_capacity(s, needed) ==
  LET c == IF vector_capacity(s) < FirstCap THEN FirstCap ELSE vector_capacity(s)
  IN  {n \in needed .. 2 * needed + c :
         (n = c \/ n < 2 * needed) /\ \E k \in 0 .. needed : n = c * 2 ^ k}

\* The vector when there is capacity for n elements.
GrownFor(s, n) ==
  IF n <= vector_capacity(s) THEN {s}
  ELSE UNION {Reallocated(s, c) : c \in growth_capacity(s, n)}

\* An argument that is a reference: to a value elsewhere, or to an own element.
Outside == {[own |-> FALSE, value |-> e] : e \in Elems}
Own(s)  == {[own |-> TRUE, index |-> i] : i \in 1 .. s.len}

\* What it refers to when a call on s begins.
ValueAtCall(src, s) == IF src.own THEN s.slots[src.index] ELSE src.value

\* Following it in vector r, which was s when the call began: the storage of s is
\* gone if the capacity has changed.
Followed(src, s, r) ==
  IF ~src.own THEN src.value
  ELSE IF vector_capacity(r) = vector_capacity(s) THEN r.slots[src.index] ELSE Raw

\* push_back makes a copy of an own element before the storage is replaced.
CopiedFirst(s, src) == src.own /\ s.len = vector_capacity(s)

\* resize with a fill value looks for an own element in the new storage.
Relocated(src, s, r) == IF src.own THEN r.slots[src.index] ELSE Followed(src, s, r)

-----------------------------------------------------------------------------
(* Operations *)

Set(v, r) == vec' = [vec EXCEPT ![v] = r] /\ UNCHANGED hasDestructor

Nothing == vectorCall' = NoEdit /\ UNCHANGED <<vec, hasDestructor>>

\* The allocation a call needs fails: for a capacity of n, whichever call asks.
VectorNoMemory(v, n) == n # vector_capacity(vec[v]) /\ n > 0 /\ Nothing

\* What has become of the vector, r, gets the elements that were stored; values are
\* those that were asked for.
Appended(v, r, stored, values) ==
  /\ Set(v, Made(r, stored))
  /\ vectorCall' = InsertOf(v, vec[v].len, values)

vector_reserve(v, n) ==
  /\ \E r \in IF n <= vector_capacity(vec[v]) THEN {vec[v]} ELSE Reallocated(vec[v], n) :
       Set(v, r)
  /\ vectorCall' = NoEdit

shrink_to_fit(v) ==
  /\ \E r \in Reallocated(vec[v], vec[v].len) : Set(v, r)
  /\ vectorCall' = NoEdit

\* push_back of a const reference.
push_back(v, src) ==
  \E r \in GrownFor(vec[v], vec[v].len + 1) :
    Appended(v, r, <<IF CopiedFirst(vec[v], src) THEN vec[v].slots[src.index]
                     ELSE Followed(src, vec[v], r)>>,
             <<ValueAtCall(src, vec[v])>>)

\* push_back of an rvalue, and emplace_back with arguments from elsewhere.
emplace_back(v, e) ==
  \E r \in GrownFor(vec[v], vec[v].len + 1) : Appended(v, r, <<e>>, <<e>>)

\* resize to fewer elements, resize_down, clear.
resize_down(v, n) ==
  /\ n <= vec[v].len
  /\ Set(v, Truncated(vec[v], n))
  /\ vectorCall' = DeletionOf(v, n, vec[v].len - n)

\* resize to more elements.
vector_resize(v, n) ==
  /\ n > vec[v].len
  /\ \E r \in GrownFor(vec[v], n) :
       Appended(v, r, [i \in 1 .. n - r.len |-> Default], [i \in 1 .. n - vec[v].len |-> Default])

resize_fill(v, n, src) ==
  /\ n > vec[v].len
  /\ \E r \in GrownFor(vec[v], n) :
       Appended(v, r, [i \in 1 .. n - r.len |-> Relocated(src, vec[v], r)],
                [i \in 1 .. n - vec[v].len |-> ValueAtCall(src, vec[v])])

\* The destructor is called for types that have one, and then for all types.
pop_back(v) ==
  /\ vec[v].len > 0
  /\ hasDestructor => PopsObjects
  /\ LET once == Truncated(vec[v], vec[v].len - 1)
     IN  Set(v, IF hasDestructor THEN Ended(once, once.len, once.len + 1) ELSE once)
  /\ vectorCall' = DeletionOf(v, vec[v].len - 1, 1)

\* Move assignment; construction by move is the case of an empty target.
VectorMove(to, from) ==
  /\ to # from
  /\ LET freed == Released(vec[to])
     IN  vec' = [vec EXCEPT ![to] = [slots |-> vec[from].slots, len |-> vec[from].len,
                                     made |-> freed.made + vec[from].made],
                            ![from] = NoVector]
  /\ vectorCall' = MoveOf(to, from)
  /\ UNCHANGED hasDestructor

\* Destruction, and construction of the next object in its place.
VectorRenew(v) ==
  /\ Set(v, Released(vec[v]))
  /\ vectorCall' = DeletionOf(v, 0, vec[v].len)

VectorNext ==
  \/ \E v \in Vecs, n \in 0 .. MaxSlots + 1 :
       vector_reserve(v, n) \/ vector_resize(v, n) \/ resize_down(v, n) \/ VectorNoMemory(v, n)
  \/ \E v \in Vecs, n \in 0 .. MaxSlots :
       \E src \in Outside \cup Own(vec[v]) : resize_fill(v, n, src)
  \/ \E v \in Vecs : \E src \in Outside \cup Own(vec[v]) : push_back(v, src)
  \/ \E v \in Vecs, e \in Elems : emplace_back(v, e)
  \/ \E v \in Vecs : shrink_to_fit(v) \/ pop_back(v) \/ VectorRenew(v)
  \/ \E to, from \in Vecs : VectorMove(to, from)

VectorSpec == VectorInit /\ [][VectorNext]_vecVars

-----------------------------------------------------------------------------
(* Properties *)

\* Every element that a vector has constructed, and no other, is destroyed, once:
\* over growth, shrinking, moves and failures the calls balance out to the
\* elements it holds.
ElementsDestroyedOnce == \A v \in Vecs : vec[v].made = vec[v].len

\* The elements are a sequence that is edited as the calls have asked for: an
\* appended element has the value its argument had when the call began, also if
\* that is an element of the vector and the call replaces the storage; resize
\* fills with that value; a deletion removes the last elements and no others;
\* growth, shrink_to_fit and a failed call change none.
Sequence == INSTANCE EditedSequence WITH
  Objects <- Vecs, Elements <- Elems,
  content <- [v \in Vecs |-> Live(vec[v])], last <- vectorCall
VectorIsSequence == Sequence!Spec

=============================================================================

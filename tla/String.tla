-------------------------------- MODULE String --------------------------------
(***************************************************************************)
(* lightstd::string (include/lightstd/string.h): an allocation with room   *)
(* for the capacity and a NUL, and a length.  A call is one action; data   *)
(* passed to append lie outside the string itself, whose allocation may be *)
(* replaced before they are read.                                          *)
(***************************************************************************)
EXTENDS Naturals, Sequences, Edits

CONSTANTS
  Strs,       \* the string objects
  Chars,      \* the values of a character, NUL among them
  Room,       \* what string_resize(0) allocates for a string without allocation, 16
  MaxAppend,  \* bound: characters stringCall by one call
  MaxCap      \* bound: allocations for more characters always fail

NUL == 0

ASSUME StringConstants ==
  NUL \in Chars /\ Room \in Nat \ {0} /\ MaxAppend \in Nat /\ MaxCap \in Nat

VARIABLES
  str,        \* each object: [buf |-> the bytes at ptr, <<>> for null, len |-> len]
  stringCall  \* history: what the last call has asked for (Edits)

strVars == <<str, stringCall>>

NoString == [buf |-> <<>>, len |-> 0]

StringInit ==
  /\ str = [s \in Strs |-> NoString]
  /\ stringCall = NoEdit

string_capacity(s) == IF s.buf = <<>> THEN 0 ELSE Len(s.buf) - 1

Characters(s) == SubSeq(s.buf, 1, s.len)

-----------------------------------------------------------------------------
(* Defective variants of definitions below, for the sensitivity checks. *)

Terminated_AtOldEnd(buf, old, new) == [buf EXCEPT ![old + 1] = NUL]  \* line 207 before line 206
Emptied_Shared(s) == s                                               \* lines 58-60 forgotten

-----------------------------------------------------------------------------
(* Operators on one string *)

\* The string after string_reserve(n), if the allocation succeeds: the characters
\* are copied and terminated, the rest is uninitialised.
Reserved(s, n) ==
  IF n <= string_capacity(s) THEN {s}
  ELSE IF n > MaxCap THEN {}
  ELSE {[buf |-> Characters(s) \o <<NUL>> \o junk, len |-> s.len] :
          junk \in [1 .. n - s.len -> Chars]}

\* The NUL goes behind the new length; the length was old.
Terminated(buf, old, new) == [buf EXCEPT ![new + 1] = NUL]

\* memcpy of data behind the characters.
CopiedBehind(s, data) ==
  [i \in DOMAIN s.buf |->
     IF i \in s.len + 1 .. s.len + Len(data) THEN data[i - s.len] ELSE s.buf[i]]

\* A C string has n characters: the first NUL is behind them.
CStringLength(data, n) ==
  /\ \A i \in 1 .. n : data[i] # NUL
  /\ n < Len(data) => data[n + 1] = NUL

-----------------------------------------------------------------------------
(* Operations *)

NoChange == UNCHANGED str /\ stringCall' = NoEdit

\* The allocation fails for want of memory, whatever was asked for.
StringNoMemory(s, n) == n > string_capacity(str[s]) /\ NoChange

append(s, data) ==
  /\ data # <<>>
  /\ \E r \in Reserved(str[s], str[s].len + Len(data)) :
       str' = [str EXCEPT ![s] =
                 [buf |-> Terminated(CopiedBehind(r, data), r.len, r.len + Len(data)),
                  len |-> r.len + Len(data)]]
  /\ stringCall' = InsertOf(s, str[s].len, data)

\* append without a length.
appendCString(s, data) ==
  \E n \in 0 .. Len(data) :
    /\ CStringLength(data, n)
    /\ IF n = 0 THEN NoChange ELSE append(s, SubSeq(data, 1, n))

AppendNoMemory(s, n) == n > 0 /\ StringNoMemory(s, str[s].len + n)

string_reserve(s, n) ==
  /\ \E r \in Reserved(str[s], n) : str' = [str EXCEPT ![s] = r]
  /\ stringCall' = NoEdit

\* What resize makes sure of before it sets the length.
RoomFor(s, n) == IF n = 0 /\ string_capacity(s) = 0 THEN Room ELSE n

\* New characters are what the allocation holds there.
string_resize(s, n) ==
  /\ \E r \in Reserved(str[s], RoomFor(str[s], n)) :
       str' = [str EXCEPT ![s] = [buf |-> Terminated(r.buf, r.len, n), len |-> n]]
  /\ stringCall' = IF n > str[s].len THEN RoomIn(s, str[s].len, n - str[s].len)
                 ELSE DeletionOf(s, n, str[s].len - n)

string_clear(s) ==
  /\ str' = [str EXCEPT ![s] =
               [buf |-> IF @.buf = <<>> THEN <<>> ELSE Terminated(@.buf, @.len, 0), len |-> 0]]
  /\ stringCall' = DeletionOf(s, 0, str[s].len)

\* What a move leaves behind.
Emptied(s) == NoString

\* Move assignment; construction by move is the case of an empty target.
StringMove(to, from) ==
  /\ to # from
  /\ str' = [str EXCEPT ![to] = str[from], ![from] = Emptied(str[from])]
  /\ stringCall' = MoveOf(to, from)

\* Destruction, and construction of the next object in its place.
StringRenew(s) ==
  /\ str' = [str EXCEPT ![s] = NoString]
  /\ stringCall' = DeletionOf(s, 0, str[s].len)

Appendable == UNION {[1 .. n -> Chars] : n \in 0 .. MaxAppend}

StringNext ==
  \/ \E s \in Strs, data \in Appendable : append(s, data) \/ appendCString(s, data)
  \/ \E s \in Strs, n \in 0 .. MaxCap + 1 :
       string_reserve(s, n) \/ string_resize(s, n) \/ StringNoMemory(s, n)
  \/ \E s \in Strs : string_clear(s) \/ StringRenew(s) \/ AppendNoMemory(s, MaxAppend)
  \/ \E to, from \in Strs : StringMove(to, from)

StringSpec == StringInit /\ [][StringNext]_strVars

-----------------------------------------------------------------------------
(* Properties *)

\* c_str() always ends where the string does: the length fits the allocation
\* and a NUL follows the characters, after growth, truncation and moves.
NulTerminated ==
  \A s \in Strs :
    IF str[s].buf = <<>> THEN str[s].len = 0
    ELSE str[s].len <= string_capacity(str[s]) /\ str[s].buf[str[s].len + 1] = NUL

\* The characters are a sequence that is edited as the calls have asked for: growth
\* keeps them, an append puts its data behind them, resize keeps all or the first
\* ones, a failed call changes nothing, and a move takes them from one string to
\* the other and leaves that one empty.
Text == INSTANCE EditedSequence WITH
  Objects <- Strs, Elements <- Chars,
  content <- [s \in Strs |-> Characters(str[s])], last <- stringCall
StringIsSequence == Text!Spec

=============================================================================

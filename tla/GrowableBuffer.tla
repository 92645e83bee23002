---------------------------- MODULE GrowableBuffer ----------------------------
(***************************************************************************)
(* The growable buffer of src/growable_buffer.cpp: an allocation that only *)
(* grows, in chunks, and the number of its bytes that are used.  One task  *)
(* uses a buffer, so a call is one action.  Sizes stay far from the end of *)
(* size_t (MaxLen, MaxSize): the sums do not wrap around.                  *)
(***************************************************************************)
EXTENDS Integers, Sequences, Edits

CONSTANTS
  Bytes,      \* the values of a byte, 0 among them
  Chunk,      \* the allocation unit, 512
  MaxLen,     \* bound: length and offset arguments
  MaxSize     \* bound: malloc always fails above this size, and may below it

ASSUME GrowableBufferConstants ==
  /\ 0 \in Bytes
  /\ Chunk \in Nat \ {0} /\ MaxLen \in Nat /\ MaxSize \in Nat

VARIABLES
  buffer,     \* whether there is an allocation (gb->buffer is not null)
  mem,        \* its bytes; their number is gb->size
  used,       \* gb->used
  gbCall      \* history: what the last call has asked for (Edits)

gbVars == <<buffer, mem, used, gbCall>>

\* The name of the one buffer.
Self == "buffer"

\* What gbAdd may be given.
Data == UNION {[1 .. n -> Bytes] : n \in 0 .. MaxLen}

\* The largest offset, (size_t)-1, means the end; so does any beyond it.
Offsets == 0 .. MaxLen

gbTypeOK ==
  /\ buffer \in BOOLEAN
  /\ mem \in Seq(Bytes) /\ Len(mem) <= MaxSize
  /\ used \in Nat

gbInit ==
  /\ buffer = FALSE
  /\ mem = <<>>
  /\ used = 0
  /\ gbCall = NoEdit

Content == SubSeq(mem, 1, used)

-----------------------------------------------------------------------------
(* Defective variants of definitions below, for the sensitivity checks. *)

Cut_Unbounded(offset, len) == len         \* lines 66-68 dropped: used falls below zero

Moved_Copied(m, from, to, len) ==          \* memcpy for memmove: bytes read after they
  LET copied[i \in 0 .. len] ==            \* have been overwritten
        IF i = 0 THEN m ELSE [copied[i - 1] EXCEPT ![to + i] = copied[i - 1][from + i]]
  IN  copied[len]

-----------------------------------------------------------------------------
(* gbEnsureSize *)

Rounded(n) == Chunk * ((n + Chunk - 1) \div Chunk)

Fits(n) == buffer /\ n <= Len(mem)

\* The allocations that may come out of gbEnsureSize when it succeeds: the same,
\* or a new one with the used bytes copied and the rest uninitialised.
Ensured(n) ==
  IF Fits(n) THEN {mem}
  ELSE IF Rounded(n) > MaxSize THEN {}
  ELSE {Content \o junk : junk \in [1 .. Rounded(n) - used -> Bytes]}

gbEnsureSize(n) ==
  /\ \E m \in Ensured(n) : mem' = m
  /\ buffer' = TRUE
  /\ gbCall' = NoEdit
  /\ UNCHANGED used

\* malloc fails.
NoMemory(n) == ~Fits(n) /\ gbCall' = NoEdit /\ UNCHANGED <<buffer, mem, used>>

-----------------------------------------------------------------------------
(* gbReserve and gbAdd *)

At(offset) == IF offset > used THEN used ELSE offset

\* memmove of len bytes of m, from one offset to another.
Moved(m, from, to, len) ==
  [i \in DOMAIN m |-> IF i \in to + 1 .. to + len THEN m[i - to + from] ELSE m[i]]

\* len bytes are made room for at offset; they keep what was there.
Opened(m, offset, len) == Moved(m, At(offset), At(offset) + len, used - At(offset))

\* memcpy of data to offset.
Filled(m, offset, data) ==
  [i \in DOMAIN m |-> IF i \in offset + 1 .. offset + Len(data) THEN data[i - offset] ELSE m[i]]

gbReserve(len, offset) ==
  /\ len > 0
  /\ \E m \in Ensured(used + len) : mem' = Opened(m, offset, len)
  /\ buffer' = TRUE
  /\ used' = used + len
  /\ gbCall' = RoomIn(Self, offset, len)

\* An empty reservation returns the place; without an allocation that is a null
\* pointer, which gbAdd takes for a failure.
ReserveNothing == gbCall' = NoEdit /\ UNCHANGED <<buffer, mem, used>>

ReserveFails(len) == len > 0 /\ NoMemory(used + len)

gbAdd(data, offset) ==
  /\ data # <<>>
  /\ \E m \in Ensured(used + Len(data)) :
       mem' = Filled(Opened(m, offset, Len(data)), At(offset), data)
  /\ buffer' = TRUE
  /\ used' = used + Len(data)
  /\ gbCall' = InsertOf(Self, offset, data)

-----------------------------------------------------------------------------
(* gbDel, gbReset, gbWipe *)

\* How many bytes there are to delete.
Cut(offset, len) == IF len > used - offset THEN used - offset ELSE len

gbDel(offset, len) ==
  /\ offset < used
  /\ mem' = Moved(mem, offset + Cut(offset, len), offset, used - (offset + Cut(offset, len)))
  /\ used' = used - Cut(offset, len)
  /\ gbCall' = DeletionOf(Self, offset, len)
  /\ UNCHANGED buffer

gbReset(free) ==
  /\ buffer' = (buffer /\ ~free)
  /\ mem' = IF free THEN <<>> ELSE mem
  /\ used' = 0
  /\ gbCall' = DeletionOf(Self, 0, used)

gbWipe ==
  /\ mem' = [i \in DOMAIN mem |-> 0]
  /\ gbCall' = WipeOf(Self, 0)
  /\ UNCHANGED <<buffer, used>>

-----------------------------------------------------------------------------

gbNext ==
  \/ \E n \in 0 .. MaxLen : gbEnsureSize(n) \/ NoMemory(n) \/ ReserveFails(n)
  \/ \E n \in 0 .. MaxLen, offset \in Offsets : gbReserve(n, offset) \/ gbDel(offset, n)
  \/ \E data \in Data, offset \in Offsets : gbAdd(data, offset)
  \/ \E free \in BOOLEAN : gbReset(free)
  \/ ReserveNothing \/ gbWipe

gbSpec == gbInit /\ [][gbNext]_gbVars

-----------------------------------------------------------------------------
(* Properties *)

\* The used bytes are within the allocation, and there is one if any is used:
\* no sequence of edits, failures and resets makes memmove leave the buffer.
UsedWithinSize == used <= Len(mem) /\ (used > 0 => buffer)

\* The fields have their types, and the used bytes are within the allocation.
WellFormed == gbTypeOK /\ UsedWithinSize

\* The used bytes are a sequence that is edited as the calls have asked for: growth
\* copies it, an insertion puts what gbAdd was given where it was asked to and moves
\* what is behind, a deletion removes the bytes of its range and closes the gap, a
\* failed call changes nothing.
Buffer == INSTANCE EditedSequence WITH
  Objects <- {Self}, Elements <- Bytes, content <- [o \in {Self} |-> Content], last <- gbCall
BufferIsSequence == Buffer!Spec

=============================================================================

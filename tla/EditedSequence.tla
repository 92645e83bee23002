---------------------------- MODULE EditedSequence ----------------------------
(***************************************************************************)
(* What the growable buffer, the string and the vector promise: sequences  *)
(* that are edited, and that can be moved from one object to another.  A   *)
(* step does what the call has asked for, whole; an edit that needs memory *)
(* may fail, and then nothing has happened.                                *)
(***************************************************************************)
EXTENDS Integers, Sequences, Edits

CONSTANTS
  Objects,
  Elements

VARIABLES
  content,    \* the sequence in each object
  last        \* what the last call has asked for

Init == content = [o \in Objects |-> <<>>] /\ last = NoEdit

Left(o, n)  == SubSeq(content[o], 1, n)
Right(o, n) == SubSeq(content[o], n + 1, Len(content[o]))

Becomes(o, s) == content' = [content EXCEPT ![o] = s]

\* The place after the first n elements, or the end.
Place(o, n) == IF n > Len(content[o]) THEN Len(content[o]) ELSE n

Inserted(o, n, data) == Becomes(o, Left(o, Place(o, n)) \o data \o Right(o, Place(o, n)))

Nothing == last'.kind = "none" /\ UNCHANGED content

Insert ==
  /\ last'.kind = "insert"
  /\ last'.on \in Objects /\ last'.at \in Nat /\ last'.data \in Seq(Elements)
  /\ Inserted(last'.on, last'.at, last'.data)

MakeRoom ==
  /\ last'.kind = "room"
  /\ last'.on \in Objects /\ last'.at \in Nat /\ last'.len \in Nat
  /\ \E data \in [1 .. last'.len -> Elements] : Inserted(last'.on, last'.at, data)

Delete ==
  /\ last'.kind = "delete"
  /\ last'.on \in Objects /\ last'.at \in Nat /\ last'.len \in Nat
  /\ last'.at <= Len(content[last'.on])
  /\ Becomes(last'.on, Left(last'.on, last'.at) \o Right(last'.on, last'.at + last'.len))

Wipe ==
  /\ last'.kind = "wipe"
  /\ last'.on \in Objects /\ last'.value \in Elements
  /\ Becomes(last'.on, [i \in DOMAIN content[last'.on] |-> last'.value])

Move ==
  /\ last'.kind = "move"
  /\ last'.to \in Objects /\ last'.from \in Objects /\ last'.to # last'.from
  /\ content' = [content EXCEPT ![last'.to] = content[last'.from], ![last'.from] = <<>>]

Next == Nothing \/ Insert \/ MakeRoom \/ Delete \/ Wipe \/ Move

Spec == Init /\ [][Next]_<<content, last>>

=============================================================================

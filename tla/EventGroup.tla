----------------------------- MODULE EventGroup -----------------------------
(***************************************************************************)
(* The FreeRTOS event group, external to this repository, as far as        *)
(* rundown_protection.cpp and task.cpp use it: a set of bits in a buffer   *)
(* owned by the caller, usable from xEventGroupCreateStatic until          *)
(* vEventGroupDelete.  The handle is the address of the buffer, hence the  *)
(* same every time the group of an object is created again.                *)
(***************************************************************************)

\* The values a handle variable holds.
NULL     == "NULL"
CREATING == "CREATING"    \* the sentinel (EventGroupHandle_t)1
GROUP    == "GROUP"       \* the address of the object's own buffer

Groups(Bits) == [live : BOOLEAN, bits : SUBSET Bits]

NoGroup  == [live |-> FALSE, bits |-> {}]     \* never created, or deleted
NewGroup == [live |-> TRUE,  bits |-> {}]     \* xEventGroupCreateStatic

\* A call through handle h is defined only while the group exists: FreeRTOS
\* asserts on a null handle and works on freed state after a deletion.
Usable(h, g) == h = GROUP /\ g.live

WithBit(g, b) == [g EXCEPT !.bits = @ \cup {b}]

=============================================================================

--------------------------------- MODULE Edits ---------------------------------
(***************************************************************************)
(* What a caller can ask of a sequence of elements that an object holds.   *)
(* The growable buffer, the string and the vector record the last call in  *)
(* these terms: its arguments, as they were when it began, and nothing of  *)
(* what the code has made of them.                                         *)
(***************************************************************************)

\* Nothing: the call deals with memory only, or it has failed.
NoEdit == [kind |-> "none"]

\* The elements of data, after the first n elements or at the end if there are fewer.
InsertOf(o, n, data) == [kind |-> "insert", on |-> o, at |-> n, data |-> data]

\* The same with len elements that the caller will overwrite.
RoomIn(o, n, len) == [kind |-> "room", on |-> o, at |-> n, len |-> len]

\* At most len elements after the first n go.
DeletionOf(o, n, len) == [kind |-> "delete", on |-> o, at |-> n, len |-> len]

\* All elements become e.
WipeOf(o, e) == [kind |-> "wipe", on |-> o, value |-> e]

\* One object takes the elements of the other, which is left empty.
MoveOf(to, from) == [kind |-> "move", to |-> to, from |-> from]

=============================================================================

---------------------------- MODULE FunctionValues ----------------------------
(***************************************************************************)
(* What lightstd::light_function promises: a function object is a value,   *)
(* empty or a callable of its own.  A copy is independent of the original: *)
(* calling one does not change the state of the other.                     *)
(***************************************************************************)

CONSTANTS
  Objects,        \* the function objects
  Callables,      \* what they may hold
  Empty,
  Called(_)       \* the callable after it has been called

VARIABLE value

Init == value = [f \in Objects |-> Empty]

Assign(f, c) == value' = [value EXCEPT ![f] = c]

Copy(f, g) == value' = [value EXCEPT ![f] = value[g]]

Move(f, g) == f # g /\ value' = [value EXCEPT ![f] = value[g], ![g] = Empty]

Swap(f, g) == value' = [value EXCEPT ![f] = value[g], ![g] = value[f]]

Call(f) == value[f] # Empty /\ value' = [value EXCEPT ![f] = Called(value[f])]

Next ==
  \/ \E f \in Objects, c \in Callables \cup {Empty} : Assign(f, c)
  \/ \E f, g \in Objects : Copy(f, g) \/ Move(f, g) \/ Swap(f, g)
  \/ \E f \in Objects : Call(f)

Spec == Init /\ [][Next]_value

=============================================================================

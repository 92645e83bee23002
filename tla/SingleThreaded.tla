---------------------------- MODULE SingleThreaded ----------------------------
(***************************************************************************)
(* The components that one task uses at a time and that share nothing with *)
(* one another, as one specification: a behaviour is one of one of them,   *)
(* the others stay as they are.                                            *)
(***************************************************************************)
EXTENDS GrowableBuffer, String, Vector, LightFunction, Convert, TLC

VARIABLE component      \* the one that is used; never changes

Components == {"growable_buffer", "string", "vector", "light_function", "convert"}

Init ==
  /\ component \in Components
  /\ gbInit /\ StringInit /\ VectorInit /\ FunctionInit
  /\ component # "vector" => ~hasDestructor
  /\ IF component = "convert" THEN ConvertInit ELSE job = NewJob("hex", <<>>)

Next ==
  /\ \/ /\ component = "growable_buffer" /\ gbNext
        /\ UNCHANGED <<strVars, vecVars, funVars, job>>
     \/ /\ component = "string" /\ StringNext
        /\ UNCHANGED <<gbVars, vecVars, funVars, job>>
     \/ /\ component = "vector" /\ VectorNext
        /\ UNCHANGED <<gbVars, strVars, funVars, job>>
     \/ /\ component = "light_function" /\ FunctionNext
        /\ UNCHANGED <<gbVars, strVars, vecVars, job>>
     \/ /\ component = "convert" /\ ConvertNext
        /\ UNCHANGED <<gbVars, strVars, vecVars, funVars>>
  /\ UNCHANGED component

vars == <<component, gbVars, strVars, vecVars, funVars, job>>

Spec == Init /\ [][Next]_vars

\* The objects of one kind are alike.
Symmetry == Permutations(Strs) \cup Permutations(Vecs)

=============================================================================

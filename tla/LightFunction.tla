----------------------------- MODULE LightFunction -----------------------------
(***************************************************************************)
(* lightstd::light_function (include/lightstd/functional.h): a function    *)
(* object that owns a callable, in its own bytes if it is small and on the *)
(* heap if not.  A call is one action.  An allocation that fails, and a    *)
(* call of an empty object, abort the program: they have no next state.    *)
(* Callables do not touch the object that holds them.                      *)
(***************************************************************************)
EXTENDS Integers, FiniteSets

CONSTANTS
  Funs,       \* the function objects
  Tmp,        \* the temporary one in swap
  Types,      \* the types of callables; each callable is 0 or 1 and changes when called
  Large,      \* those that do not fit in the object
  Blocks,     \* heap blocks
  Null        \* no block, no type, no callable in a place

ASSUME LightFunctionConstants ==
  /\ Tmp \notin Funs /\ Large \subseteq Types
  /\ Null \notin Types \cup Blocks \cup {0, 1} \cup (Types \X {0, 1})

VARIABLES
  fun,        \* each object: [vtable |-> the type, heap |-> m_heap, sbo |-> what is in m_sbo]
  block,      \* each heap block: [used |-> whether it is allocated, state |-> what is in it]
  alive       \* history: the callables constructed less those destroyed

funVars == <<fun, block, alive>>

NoFunction == [vtable |-> Null, heap |-> Null, sbo |-> Null]
NoBlock == [used |-> FALSE, state |-> Null]

FunctionInit ==
  /\ fun = [f \in Funs \cup {Tmp} |-> NoFunction]
  /\ block = [b \in Blocks |-> NoBlock]
  /\ alive = 0

\* A world is the values of the three variables.  The operators take the world
\* before a step of a call to the one after it.
World == [fun |-> fun, block |-> block, alive |-> alive]

FreeBlocks(w) == {b \in Blocks : ~w.block[b].used}

\* active_storage: what is in the object's bytes or in its block.
Storage(w, f) ==
  IF w.fun[f].heap # Null THEN w.block[w.fun[f].heap].state ELSE w.fun[f].sbo

-----------------------------------------------------------------------------
(* Defective variants of definitions below, for the sensitivity checks. *)

Stolen_Shared(w, f, g) ==                    \* line 387 forgotten
  [w EXCEPT !.fun[f].heap = w.fun[g].heap]
CopiedFrom_Shared(w, f, g, b) ==             \* the copy takes the pointer to the block
  IF w.fun[g].vtable = Null THEN w ELSE [w EXCEPT !.fun[f] = w.fun[g], !.alive = @ + 1]

-----------------------------------------------------------------------------
(* The private steps *)

\* store: a callable of a type is constructed, in block b if that is not Null.
Stored(w, f, t, c, b) ==
  IF b = Null
  THEN [w EXCEPT !.fun[f] = [vtable |-> t, heap |-> Null, sbo |-> c], !.alive = @ + 1]
  ELSE [w EXCEPT !.fun[f] = [@ EXCEPT !.vtable = t, !.heap = b],
                 !.block[b] = [used |-> TRUE, state |-> c], !.alive = @ + 1]

\* Where a callable of type t can be stored: nowhere if the heap is full.
Places(w, t) == IF t \in Large THEN FreeBlocks(w) ELSE {Null}

Destroyed(w, f) ==
  IF w.fun[f].vtable = Null THEN w
  ELSE IF w.fun[f].heap = Null
  THEN [w EXCEPT !.fun[f] = NoFunction, !.alive = @ - 1]
  ELSE [w EXCEPT !.fun[f] = [@ EXCEPT !.vtable = Null, !.heap = Null],
                 !.block[w.fun[f].heap] = NoBlock, !.alive = @ - 1]

\* copy_from, into an object that is empty.
CopiedFrom(w, f, g, b) ==
  IF w.fun[g].vtable = Null THEN w ELSE Stored(w, f, w.fun[g].vtable, Storage(w, g), b)

CopyPlaces(w, g) ==
  IF w.fun[g].vtable = Null \/ w.fun[g].heap = Null THEN {Null} ELSE FreeBlocks(w)

\* move_from on the heap, where the block changes hands, and in the object, where
\* the callable is moved and the source destroyed.
Stolen(w, f, g) == [w EXCEPT !.fun[f].heap = w.fun[g].heap, !.fun[g].heap = Null]

MovedInPlace(w, f, g) ==
  [w EXCEPT !.fun[f].heap = Null, !.fun[f].sbo = w.fun[g].sbo, !.fun[g].sbo = Null]

\* move_from, into an object that is empty.
MovedFrom(w, f, g) ==
  IF w.fun[g].vtable = Null THEN w
  ELSE [(IF w.fun[g].heap # Null THEN Stolen(w, f, g) ELSE MovedInPlace(w, f, g))
          EXCEPT !.fun[f].vtable = w.fun[g].vtable, !.fun[g].vtable = Null]

\* operator= of an rvalue.
MoveAssigned(w, f, g) == IF f = g THEN w ELSE MovedFrom(Destroyed(w, f), f, g)

\* swap: tmp is constructed from g, g assigned from f, f from tmp, tmp destroyed.
Swapped(w, f, g) ==
  Destroyed(MoveAssigned(MoveAssigned(MovedFrom(w, Tmp, g), g, f), f, Tmp), Tmp)

-----------------------------------------------------------------------------
(* Operations *)

To(w) == fun' = w.fun /\ block' = w.block /\ alive' = w.alive

\* Assignment of a callable; construction is the case of an empty object.
Assign(f, t, c) ==
  LET w == Destroyed(World, f)
  IN  \E b \in Places(w, t) : To(Stored(w, f, t, c, b))

CopyAssign(f, g) ==
  /\ f # g
  /\ LET w == Destroyed(World, f)
     IN  \E b \in CopyPlaces(w, g) : To(CopiedFrom(w, f, g, b))

FunctionMove(f, g) == To(MoveAssigned(World, f, g))

\* Assignment of nullptr, and destruction.
ResetFunction(f) == To(Destroyed(World, f))

Swap(f, g) == To(Swapped(World, f, g))

\* operator(), with a callable that changes its own state.
Invoke(f) ==
  /\ fun[f].vtable # Null
  /\ IF fun[f].heap # Null
     THEN block' = [block EXCEPT ![fun[f].heap].state = 1 - @] /\ UNCHANGED fun
     ELSE fun' = [fun EXCEPT ![f].sbo = 1 - @] /\ UNCHANGED block
  /\ UNCHANGED alive

FunctionNext ==
  \/ \E f \in Funs, t \in Types, c \in {0, 1} : Assign(f, t, c)
  \/ \E f, g \in Funs : CopyAssign(f, g) \/ FunctionMove(f, g) \/ Swap(f, g)
  \/ \E f \in Funs : ResetFunction(f) \/ Invoke(f)

FunctionSpec == FunctionInit /\ [][FunctionNext]_funVars

-----------------------------------------------------------------------------
(* Properties *)

Held == {f \in Funs : fun[f].vtable # Null}
Owners(b) == {f \in Funs \cup {Tmp} : fun[f].heap = b}

\* Whatever is assigned, copied, moved and swapped, an object owns what it holds
\* alone: every allocated block belongs to one object that holds a callable, no
\* object points to a block that is free, and every callable is destroyed once.
CallablesOwnedOnce ==
  /\ \A b \in Blocks :
       IF block[b].used THEN \E f \in Held : Owners(b) = {f} ELSE Owners(b) = {}
  /\ alive = Cardinality(Held)

AfterCall(v) == <<v[1], 1 - v[2]>>

\* Function objects are values: whatever a call does to vtables, blocks and bytes
\* is an assignment, a copy, a move, a swap or a call on independent values.
Values == INSTANCE FunctionValues WITH
  Objects <- Funs, Callables <- Types \X {0, 1}, Empty <- Null, Called <- AfterCall,
  value <- [f \in Funs |->
              IF fun[f].vtable = Null THEN Null ELSE <<fun[f].vtable, Storage(World, f)>>]
ActsAsValue == Values!Spec

=============================================================================

----------------------------- MODULE RundownGate -----------------------------
(***************************************************************************)
(* What a rundown protection object promises (include/rundown_protection.h:*)
(* "Tracks active users so teardown can wait until the resource is no      *)
(* longer in use"), with no counter, event group or waiting in it: a gate  *)
(* that users pass while it is open, that once closed admits nobody, and   *)
(* from which a waiter comes back only after the last user has left.       *)
(***************************************************************************)
CONSTANT Threads

VARIABLES
  phase,      \* "open", "closing" (users still inside) or "closed"
  holders,    \* the users inside
  returned    \* the waiters that came back and still rely on the rundown

gateVars == <<phase, holders, returned>>

Init ==
  /\ phase = "open"
  /\ holders = {}
  /\ returned = {}

Acquire(t) ==
  /\ phase = "open"
  /\ t \notin holders
  /\ holders' = holders \cup {t}
  /\ UNCHANGED <<phase, returned>>

Release(t) ==
  /\ t \in holders
  /\ holders' = holders \ {t}
  /\ UNCHANGED <<phase, returned>>

Close ==
  /\ phase = "open"
  /\ phase' = "closing"
  /\ UNCHANGED <<holders, returned>>

Complete ==
  /\ phase = "closing"
  /\ holders = {}
  /\ phase' = "closed"
  /\ UNCHANGED <<holders, returned>>

Return(t) ==
  /\ phase = "closed"
  /\ returned' = returned \cup {t}
  /\ UNCHANGED <<phase, holders>>

\* A waiter that finds nobody inside completes the rundown itself.
CompleteAndReturn(t) ==
  /\ phase = "closing"
  /\ holders = {}
  /\ phase' = "closed"
  /\ returned' = returned \cup {t}
  /\ UNCHANGED holders

Leave(t) ==
  /\ returned' = returned \ {t}
  /\ UNCHANGED <<phase, holders>>

\* The last waiter destroys the object, which is then as good as new.
Reopen(t) ==
  /\ phase = "closed"
  /\ returned = {t}
  /\ phase' = "open"
  /\ returned' = {}
  /\ UNCHANGED holders

Next ==
  \/ \E t \in Threads : Acquire(t) \/ Release(t)
  \/ Close \/ Complete
  \/ \E t \in Threads : Return(t) \/ CompleteAndReturn(t) \/ Leave(t) \/ Reopen(t)

Safety == Init /\ [][Next]_gateVars

\* A rundown that has begun completes.
Spec ==
  /\ Safety
  /\ WF_gateVars(Complete)
  /\ \A t \in Threads : WF_gateVars(phase = "closing" /\ Release(t))

=============================================================================

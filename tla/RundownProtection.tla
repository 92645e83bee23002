-------------------------- MODULE RundownProtection --------------------------
(***************************************************************************)
(* src/rundown_protection.cpp: one atomic word holds the number of users   *)
(* and the "rundown active" flag, and an event group carries the signal of *)
(* the last user to the waiters.  Every access to a shared object (atomic  *)
(* load, store, exchange or compare-and-swap, event group call) is one     *)
(* action; the code between two of them only touches the locals val and    *)
(* handle and is merged with the access that follows.                      *)
(*                                                                         *)
(* How the object is used: a user releases what it acquired, once; the     *)
(* thread that destroys the object has come back from its own wait and no  *)
(* other wait is in progress (waiters may otherwise be concurrent, see     *)
(* line 97).  Acquisitions may be in flight at any time, destruction       *)
(* included.                                                               *)
(***************************************************************************)
EXTENDS Integers, FiniteSets, EventGroup

CONSTANTS
  Threads,
  MaxRef,         \* RUNDOWN_REF_MASK, 2^31 - 1 in the code
  AllowDestroy,   \* does a thread call rundownProtDestroy?
  AllowReuse      \* may new calls begin on a destroyed object?

ASSUME ThreadsFinite == IsFiniteSet(Threads)
ASSUME MaxRefType == MaxRef \in Nat \ {0}
ASSUME SwitchesType == AllowDestroy \in BOOLEAN /\ AllowReuse \in BOOLEAN

VARIABLES
  counter,   \* rp->counter
  eg,        \* rp->eg
  group,     \* rp->eventGroupBuffer
  pc,        \* the next access of each thread
  val,       \* the local val: last value of counter the thread has seen
  handle,    \* the local eg: the handle the thread works on
  fault,     \* a call was made on an event group that does not exist
  stage      \* history: "up", "rundown" once begun, "destroyed"

vars == <<counter, eg, group, pc, val, handle, fault, stage>>

\* RUNDOWN_IS_ACTIVE and RUNDOWN_REF_MASK: the flag is the bit above the count.
ACTIVE == MaxRef + 1
Word == 0 .. (2 * MaxRef + 1)
IsActive(w) == w >= ACTIVE
Refs(w) == IF IsActive(w) THEN w - ACTIVE ELSE w
Flag(w) == w - Refs(w)

DONE == "RUNDOWN_DONE_BIT"

AcquirePcs == {"acq_cas"}
HoldPcs    == {"held", "rel_cas"}
SignalPcs  == {"rel_eg", "rel_set", "w_set"}
EnsurePcs  == {"ens_cas", "ens_create", "ens_store", "ens_spin"}
WaitPcs    == EnsurePcs \cup {"w_load", "w_cas", "w_set", "w_block"}
DestroyPcs == {"d_delete", "d_reset"}
Pcs == {"idle", "waited", "asserted"}
         \cup AcquirePcs \cup HoldPcs \cup SignalPcs \cup WaitPcs \cup DestroyPcs

Holders == {t \in Threads : pc[t] \in HoldPcs}

TypeOK ==
  /\ counter \in Word
  /\ eg \in {NULL, CREATING, GROUP}
  /\ group \in Groups({DONE})
  /\ pc \in [Threads -> Pcs]
  /\ val \in [Threads -> Word]
  /\ handle \in [Threads -> {NULL, CREATING, GROUP}]
  /\ fault \in BOOLEAN
  /\ stage \in {"up", "rundown", "destroyed"}

\* An object comes from RUNDOWN_PROTECTION_INIT_STATIC, without event group, or
\* from rundownProtInit, with one.
Init ==
  /\ counter = 0
  /\ \/ eg = NULL  /\ group = NoGroup
     \/ eg = GROUP /\ group = NewGroup
  /\ pc = [t \in Threads |-> "idle"]
  /\ val = [t \in Threads |-> 0]
  /\ handle = [t \in Threads |-> NULL]
  /\ fault = FALSE
  /\ stage = "up"

-----------------------------------------------------------------------------
(* Helpers *)

Goto(t, l) == pc' = [pc EXCEPT ![t] = l]
See(t, w)  == val' = [val EXCEPT ![t] = w]
Hold(t, h) == handle' = [handle EXCEPT ![t] = h]

\* Back to the caller; the locals are gone.
Finish(t, l) == Goto(t, l) /\ See(t, 0) /\ Hold(t, NULL)

\* A failed compare-and-swap stores the current value in val and loops.
Retry(t) ==
  /\ counter # val[t]
  /\ See(t, counter)
  /\ UNCHANGED <<counter, eg, group, pc, handle, fault, stage>>

\* xEventGroupSetBits(h, RUNDOWN_DONE_BIT)
SetDone(h) ==
  IF Usable(h, group)
  THEN group' = WithBit(group, DONE) /\ UNCHANGED fault
  ELSE fault' = TRUE /\ UNCHANGED group

MayBegin == stage # "destroyed" \/ AllowReuse
NoDestroyRunning == \A t \in Threads : pc[t] \notin DestroyPcs

-----------------------------------------------------------------------------
(* Defective variants of definitions below, for the sensitivity checks. *)

Refused_NoFlagTest(w) == Refs(w) = MaxRef          \* line 43 dropped
Refused_NoOverflowTest(w) == IsActive(w)           \* line 46 dropped
LastOut_Never(w) == FALSE                          \* line 77: nobody signals
LastOut_AnyZero(w) == Refs(w) = 0                  \* line 77: flag not tested
AfterClose_BlindSet(w) == "w_set"                  \* line 112: users ignored
EnsureStore_NoHandle(t) ==                         \* line 146: sentinel stays
  /\ pc[t] = "ens_store"
  /\ Goto(t, "w_load")
  /\ UNCHANGED <<counter, eg, group, val, handle, fault, stage>>
-----------------------------------------------------------------------------
(* rundownProtAcquire *)

Acquire(t) ==
  /\ pc[t] = "idle"
  /\ MayBegin
  /\ See(t, counter)
  /\ Goto(t, "acq_cas")
  /\ UNCHANGED <<counter, eg, group, handle, fault, stage>>

\* The rundown has begun, or the count is at its limit.
Refused(w) == IsActive(w) \/ Refs(w) = MaxRef

AcquireRefuse(t) ==
  /\ pc[t] = "acq_cas"
  /\ Refused(val[t])
  /\ Finish(t, "idle")
  /\ UNCHANGED <<counter, eg, group, fault, stage>>

AcquireCas(t) ==
  /\ pc[t] = "acq_cas"
  /\ ~ Refused(val[t])
  /\ \/ /\ counter = val[t]
        /\ counter' = val[t] + 1
        /\ Finish(t, "held")
        /\ UNCHANGED <<eg, group, fault, stage>>
     \/ Retry(t)

-----------------------------------------------------------------------------
(* rundownProtRelease *)

Release(t) ==
  /\ pc[t] = "held"
  /\ See(t, counter)
  /\ Goto(t, "rel_cas")
  /\ UNCHANGED <<counter, eg, group, handle, fault, stage>>

\* One user fewer, the flag kept.
AfterRelease(w) == Flag(w) + (Refs(w) - 1)

\* The last user leaves while a wait is in progress.
LastOut(w) == w = ACTIVE

ReleaseCas(t) ==
  /\ pc[t] = "rel_cas"
  /\ IF Refs(val[t]) = 0
     THEN /\ Finish(t, "asserted")      \* release without acquire
          /\ UNCHANGED <<counter, eg, group, fault, stage>>
     ELSE \/ /\ counter = val[t]
             /\ counter' = AfterRelease(val[t])
             /\ Finish(t, IF LastOut(AfterRelease(val[t])) THEN "rel_eg" ELSE "idle")
             /\ UNCHANGED <<eg, group, fault, stage>>
          \/ Retry(t)

ReleaseLoadGroup(t) ==
  /\ pc[t] = "rel_eg"
  /\ Hold(t, eg)
  /\ Goto(t, "rel_set")
  /\ UNCHANGED <<counter, eg, group, val, fault, stage>>

ReleaseSet(t) ==
  /\ pc[t] = "rel_set"
  /\ SetDone(handle[t])
  /\ Finish(t, "idle")
  /\ UNCHANGED <<counter, eg, stage>>

-----------------------------------------------------------------------------
(* rundownProtWait, beginning with rpEnsureEventGroup *)

Wait(t) ==
  /\ pc[t] = "idle"
  /\ MayBegin
  /\ NoDestroyRunning
  /\ Hold(t, eg)
  /\ Goto(t, IF eg = GROUP THEN "w_load" ELSE "ens_cas")
  /\ UNCHANGED <<counter, eg, group, val, fault, stage>>

\* Try to become the creator.
EnsureCas(t) ==
  /\ pc[t] = "ens_cas"
  /\ \/ eg = NULL /\ eg' = CREATING /\ Goto(t, "ens_create")
     \/ eg # NULL /\ UNCHANGED eg /\ Goto(t, "ens_spin")
  /\ UNCHANGED <<counter, group, val, handle, fault, stage>>

EnsureCreate(t) ==
  /\ pc[t] = "ens_create"
  /\ group' = NewGroup
  /\ Hold(t, GROUP)
  /\ Goto(t, "ens_store")
  /\ UNCHANGED <<counter, eg, val, fault, stage>>

EnsureStore(t) ==
  /\ pc[t] = "ens_store"
  /\ eg' = handle[t]
  /\ Goto(t, "w_load")
  /\ UNCHANGED <<counter, group, val, handle, fault, stage>>

\* The turn of the yielding loop that finds the handle; the others change nothing.
EnsureSpin(t) ==
  /\ pc[t] = "ens_spin"
  /\ eg = GROUP
  /\ Hold(t, eg)
  /\ Goto(t, "w_load")
  /\ UNCHANGED <<counter, eg, group, val, fault, stage>>

WaitLoad(t) ==
  /\ pc[t] = "w_load"
  /\ See(t, counter)
  /\ Goto(t, "w_cas")
  /\ UNCHANGED <<counter, eg, group, handle, fault, stage>>

\* Another waiter has begun the rundown.
WaitFollow(t) ==
  /\ pc[t] = "w_cas"
  /\ IsActive(val[t])
  /\ Goto(t, "w_block")
  /\ See(t, 0)
  /\ UNCHANGED <<counter, eg, group, handle, fault, stage>>

\* Without users the waiter signals itself and the others; with users it waits.
AfterClose(w) == IF Refs(w) = 0 THEN "w_set" ELSE "w_block"

WaitCas(t) ==
  /\ pc[t] = "w_cas"
  /\ ~ IsActive(val[t])
  /\ \/ /\ counter = val[t]
        /\ counter' = val[t] + ACTIVE
        /\ Goto(t, AfterClose(val[t]))
        /\ See(t, 0)
        /\ stage' = "rundown"
        /\ UNCHANGED <<eg, group, handle, fault>>
     \/ Retry(t)

WaitSet(t) ==
  /\ pc[t] = "w_set"
  /\ SetDone(handle[t])
  /\ Finish(t, "waited")
  /\ UNCHANGED <<counter, eg, stage>>

\* xEventGroupWaitBits without clearing comes back once the bit is set.
WaitBlock(t) ==
  /\ pc[t] = "w_block"
  /\ Usable(handle[t], group) => DONE \in group.bits
  /\ fault' = (fault \/ ~ Usable(handle[t], group))
  /\ Finish(t, "waited")
  /\ UNCHANGED <<counter, eg, group, stage>>

\* A waiter that is not the one to destroy the object goes its way.
Leave(t) ==
  /\ pc[t] = "waited"
  /\ Goto(t, "idle")
  /\ UNCHANGED <<counter, eg, group, val, handle, fault, stage>>

-----------------------------------------------------------------------------
(* rundownProtDestroy *)

Destroy(t) ==
  /\ AllowDestroy
  /\ pc[t] = "waited"
  /\ \A u \in Threads \ {t} : pc[u] \notin WaitPcs \cup DestroyPcs \cup {"waited"}
  /\ Hold(t, eg)
  /\ eg' = NULL
  /\ Goto(t, "d_delete")
  /\ UNCHANGED <<counter, group, val, fault, stage>>

DestroyDelete(t) ==
  /\ pc[t] = "d_delete"
  /\ group' = IF handle[t] = NULL THEN group ELSE NoGroup
  /\ fault' = (fault \/ (handle[t] # NULL /\ ~ Usable(handle[t], group)))
  /\ Goto(t, "d_reset")
  /\ UNCHANGED <<counter, eg, val, handle, stage>>

\* The count is cleared, flag included, and the buffer wiped.
DestroyReset(t) ==
  /\ pc[t] = "d_reset"
  /\ counter' = 0
  /\ group' = NoGroup
  /\ Finish(t, "idle")
  /\ stage' = "destroyed"
  /\ UNCHANGED <<eg, fault>>

-----------------------------------------------------------------------------

\* The steps of a call that has begun, and the release every user owes.
Progress(t) ==
  \/ AcquireRefuse(t) \/ AcquireCas(t)
  \/ Release(t) \/ ReleaseCas(t) \/ ReleaseLoadGroup(t) \/ ReleaseSet(t)
  \/ EnsureCas(t) \/ EnsureCreate(t) \/ EnsureStore(t) \/ EnsureSpin(t)
  \/ WaitLoad(t) \/ WaitFollow(t) \/ WaitCas(t) \/ WaitSet(t) \/ WaitBlock(t)
  \/ DestroyDelete(t) \/ DestroyReset(t)

Next == \E t \in Threads :
  Progress(t) \/ Acquire(t) \/ Wait(t) \/ Leave(t) \/ Destroy(t)

\* Threads that can run are run and users release in the end; nobody has to
\* acquire, wait or destroy.
Fairness == \A t \in Threads : WF_vars(Progress(t))

Spec == Init /\ [][Next]_vars /\ Fairness

-----------------------------------------------------------------------------
(* Properties *)

\* What the object is for: from the return of a wait until the object has been
\* destroyed nobody holds a reference.
RundownGuarantee ==
  (\E t \in Threads : pc[t] \in {"waited"} \cup DestroyPcs) => Holders = {}

\* The count is the number of users, through every failed compare-and-swap, at
\* the overflow guard and across destruction: so the assertion of line 67
\* ("release without acquire") never fires for a paired release.
CountsHolders ==
  /\ Refs(counter) = Cardinality(Holders)
  /\ \A t \in Threads : pc[t] # "asserted"

\* The event group is in existence at every call made on it, also by the last
\* user, who loads the handle after it has given up its reference.
NoDeadGroupUse == ~ fault

\* Once the rundown has begun and the last user is out, the bit is set or one
\* thread is on its way to set it: no waiter sleeps for ever.
NoLostWakeup ==
  counter = ACTIVE /\ NoDestroyRunning =>
    \/ DONE \in group.bits
    \/ \E t \in Threads : pc[t] \in SignalPcs

\* A waiter whose rundown has begun comes back.  (Before that a waiter may lose
\* the compare-and-swap for as long as others keep changing the count.)
RundownCompletes ==
  \A t \in Threads : IsActive(counter) /\ pc[t] \in WaitPcs ~> pc[t] = "waited"

-----------------------------------------------------------------------------
(* The object implements the abstract gate: it is closing from the moment  *)
(* the flag is set and closed when the bit is.                             *)

gatePhase ==
  CASE ~ NoDestroyRunning                      -> "closed"
    [] NoDestroyRunning /\ ~ IsActive(counter) -> "open"
    [] OTHER -> IF DONE \in group.bits THEN "closed" ELSE "closing"

Gate == INSTANCE RundownGate WITH
  phase    <- gatePhase,
  holders  <- Holders,
  returned <- {t \in Threads : pc[t] \in {"waited"} \cup DestroyPcs}

\* Every behaviour of the object is one of the gate, progress included: the
\* counter, the lazily created group and the signal add nothing a user sees.
ImplementsGate == Gate!Spec

=============================================================================

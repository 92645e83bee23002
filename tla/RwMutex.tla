------------------------------- MODULE RwMutex -------------------------------
(***************************************************************************)
(* The readers-writer lock of src/mutex.cpp: a FreeRTOS mutex guards the   *)
(* count of readers, and a FreeRTOS binary semaphore is the token that a   *)
(* writer, or the readers together, hold.  The first reader takes the      *)
(* token while it keeps the mutex; the last one gives it back, whichever   *)
(* thread took it.                                                         *)
(*                                                                         *)
(* Every call of xSemaphoreTake and xSemaphoreGive is one action, and so   *)
(* is every access to the count, a plain field: an update loads it and     *)
(* then stores it.  A take that blocks is an action that is not enabled.   *)
(* A thread locks before it unlocks and does not lock twice.               *)
(***************************************************************************)
EXTENDS Integers, FiniteSets

CONSTANTS
  Threads,
  Nobody      \* holds the mutex when no thread does

ASSUME ThreadsFinite == IsFiniteSet(Threads)
ASSUME NobodyOutside == Nobody \notin Threads

VARIABLES
  reader,         \* the thread that holds the mutex rwMtx->reader, or Nobody
  writer,         \* the count of the binary semaphore rwMtx->writer
  readersCount,   \* rwMtx->readersCount
  alive,          \* do the two semaphores exist?
  count,          \* the count in a register of each thread, while it has one
  pc              \* the next access of each thread

vars == <<reader, writer, readersCount, alive, count, pc>>

LockReadPcs   == {"lr_take", "lr_load", "lr_store", "lr_test", "lr_writer", "lr_give"}
UnlockReadPcs == {"ur_take", "ur_load", "ur_store", "ur_test", "ur_writer", "ur_give"}
Pcs == {"idle", "reading", "lw_take", "writing"} \cup LockReadPcs \cup UnlockReadPcs

At(pcs) == {t \in Threads : pc[t] \in pcs}

TypeOK ==
  /\ reader \in Threads \cup {Nobody}
  /\ writer \in {0, 1}
  /\ readersCount \in Nat
  /\ alive \in BOOLEAN
  /\ count \in [Threads -> Nat]
  /\ pc \in [Threads -> Pcs]

Goto(t, l) == pc' = [pc EXCEPT ![t] = l]

-----------------------------------------------------------------------------
(* Defective variants of definitions below, for the sensitivity checks. *)

Init_TokenNotGiven ==            \* line 44 forgotten: a binary semaphore starts empty
  /\ reader = Nobody
  /\ writer = 0
  /\ readersCount = 0
  /\ alive = TRUE
  /\ count = [t \in Threads |-> 0]
  /\ pc = [t \in Threads |-> "idle"]

FirstReader_Never(n) == FALSE    \* line 65: readers do not exclude writers
LastReader_Never(n) == FALSE     \* line 76: the token is not given back

UnlockReadTake_NoMutex(t) ==     \* line 74 dropped
  /\ pc[t] = "ur_take"
  /\ Goto(t, "ur_load")
  /\ UNCHANGED <<reader, writer, readersCount, alive, count>>

-----------------------------------------------------------------------------

\* rwMutexInit: a binary semaphore is created empty, then given once.
Init ==
  /\ reader = Nobody
  /\ writer = 1
  /\ readersCount = 0
  /\ alive = TRUE
  /\ count = [t \in Threads |-> 0]
  /\ pc = [t \in Threads |-> "idle"]

\* A reader that finds itself the first takes the token for all of them, and
\* the one that leaves none behind gives it back.
FirstReader(n) == n = 1
LastReader(n)  == n = 0

NoSemaphore == UNCHANGED <<reader, writer, readersCount, alive, count>>

TakeReader(t) ==
  /\ reader = Nobody
  /\ reader' = t
  /\ UNCHANGED <<writer, readersCount, alive, count>>

GiveReader(t) ==
  /\ reader = t
  /\ reader' = Nobody
  /\ UNCHANGED <<writer, readersCount, alive, count>>

TakeWriter ==
  /\ writer = 1
  /\ writer' = 0
  /\ UNCHANGED <<reader, readersCount, alive, count>>

\* Giving a full binary semaphore fails, and the code ignores it.
GiveWriter ==
  /\ writer' = 1
  /\ UNCHANGED <<reader, readersCount, alive, count>>

\* The plain accesses: the count is loaded, the new one stored and then tested,
\* when the compiler may use its register or load the count again.
LoadCount(t) ==
  /\ count' = [count EXCEPT ![t] = readersCount]
  /\ UNCHANGED <<reader, writer, readersCount, alive>>

StoreCount(t, n) ==
  /\ readersCount' = n
  /\ count' = [count EXCEPT ![t] = n]
  /\ UNCHANGED <<reader, writer, alive>>

Tested(t) == {count[t], readersCount}

ForgetCount(t) ==
  /\ count' = [count EXCEPT ![t] = 0]
  /\ UNCHANGED <<reader, writer, readersCount, alive>>

-----------------------------------------------------------------------------
(* rwMutexLockRead *)

LockRead(t)     == alive /\ pc[t] = "idle" /\ Goto(t, "lr_take") /\ NoSemaphore
LockReadTake(t) == pc[t] = "lr_take" /\ Goto(t, "lr_load") /\ TakeReader(t)

LockReadLoad(t)  == pc[t] = "lr_load" /\ Goto(t, "lr_store") /\ LoadCount(t)
LockReadStore(t) == pc[t] = "lr_store" /\ Goto(t, "lr_test") /\ StoreCount(t, count[t] + 1)

LockReadTest(t) ==
  /\ pc[t] = "lr_test"
  /\ \E n \in Tested(t) : Goto(t, IF FirstReader(n) THEN "lr_writer" ELSE "lr_give")
  /\ ForgetCount(t)

LockReadWriter(t) == pc[t] = "lr_writer" /\ Goto(t, "lr_give") /\ TakeWriter
LockReadGive(t)   == pc[t] = "lr_give"   /\ Goto(t, "reading") /\ GiveReader(t)

-----------------------------------------------------------------------------
(* rwMutexUnlockRead *)

UnlockRead(t)     == pc[t] = "reading" /\ Goto(t, "ur_take") /\ NoSemaphore
UnlockReadTake(t) == pc[t] = "ur_take" /\ Goto(t, "ur_load") /\ TakeReader(t)

UnlockReadLoad(t)  == pc[t] = "ur_load" /\ Goto(t, "ur_store") /\ LoadCount(t)
UnlockReadStore(t) == pc[t] = "ur_store" /\ Goto(t, "ur_test") /\ StoreCount(t, count[t] - 1)

UnlockReadTest(t) ==
  /\ pc[t] = "ur_test"
  /\ \E n \in Tested(t) : Goto(t, IF LastReader(n) THEN "ur_writer" ELSE "ur_give")
  /\ ForgetCount(t)

UnlockReadWriter(t) == pc[t] = "ur_writer" /\ Goto(t, "ur_give") /\ GiveWriter
UnlockReadGive(t)   == pc[t] = "ur_give"   /\ Goto(t, "idle") /\ GiveReader(t)

-----------------------------------------------------------------------------
(* rwMutexLockWrite and rwMutexUnlockWrite *)

LockWrite(t)     == alive /\ pc[t] = "idle" /\ Goto(t, "lw_take") /\ NoSemaphore
LockWriteTake(t) == pc[t] = "lw_take" /\ Goto(t, "writing") /\ TakeWriter
UnlockWrite(t)   == pc[t] = "writing" /\ Goto(t, "idle") /\ GiveWriter

-----------------------------------------------------------------------------
(* The life of the lock: it is taken down and set up again between the uses *)

Unused == alive /\ At({"idle"}) = Threads

\* The semaphores are deleted, wherever their tokens are; the count stays.
rwMutexDeinit ==
  /\ Unused
  /\ alive' = FALSE
  /\ UNCHANGED <<reader, writer, readersCount, count, pc>>

rwMutexInit ==
  /\ ~alive
  /\ alive' = TRUE
  /\ reader' = Nobody /\ writer' = 1 /\ readersCount' = 0
  /\ UNCHANGED <<count, pc>>

-----------------------------------------------------------------------------

Step(t) ==
  \/ LockReadTake(t) \/ LockReadLoad(t) \/ LockReadStore(t) \/ LockReadTest(t)
  \/ LockReadWriter(t) \/ LockReadGive(t)
  \/ UnlockRead(t) \/ UnlockReadTake(t) \/ UnlockReadLoad(t) \/ UnlockReadStore(t)
  \/ UnlockReadTest(t) \/ UnlockReadWriter(t) \/ UnlockReadGive(t)
  \/ LockWriteTake(t) \/ UnlockWrite(t)

Next ==
  \/ \E t \in Threads : LockRead(t) \/ LockWrite(t) \/ Step(t)
  \/ rwMutexDeinit
  \/ rwMutexInit

\* A thread that can go on is scheduled, and whoever has access gives it up in
\* the end.  Nothing is assumed of the order in which the semaphores serve the
\* waiters: FreeRTOS wakes one that has to compete for the semaphore again.
Fairness == \A t \in Threads : WF_vars(Step(t))

Spec == Init /\ [][Next]_vars /\ Fairness

-----------------------------------------------------------------------------
(* Properties *)

\* A reader is in from the moment the readers hold the token on its behalf until
\* it has counted itself out.
Readers == At({"lr_give", "reading", "ur_take", "ur_load", "ur_store"})
Writers == At({"writing"})

\* Write access excludes read access and other write access.
MutualExclusion ==
  /\ Writers # {} => Readers = {}
  /\ \A t, u \in Writers : t = u

\* No update of the count is lost, however lockers and unlockers meet between a
\* load and a store: it is the number of threads that have counted themselves in
\* and not yet out, and so comes back to zero.
CountsReaders ==
  readersCount = Cardinality(At({"lr_test", "lr_writer", "lr_give", "reading",
                                 "ur_take", "ur_load", "ur_store"}))

\* A first reader that blocks, with the mutex in its hands, waits for a thread
\* that is writing and so will release it: never for the token of readers that
\* have left, nor for a thread that needs the mutex.
FirstReaderWaitsForWriter ==
  \A t \in Threads : pc[t] = "lr_writer" /\ writer = 0 => Writers # {}

\* As long as threads ask for access some thread gets it: no deadlock on the
\* two semaphores and no token lost, whatever the scheduling.
SomebodyGetsIn ==
  At({"lr_take", "lr_writer", "lw_take"}) # {} ~> At({"reading", "writing"}) # {}

=============================================================================

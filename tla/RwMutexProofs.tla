---------------------------- MODULE RwMutexProofs ----------------------------
(***************************************************************************)
(* Proofs about module RwMutex, for any finite set of threads.             *)
(***************************************************************************)
EXTENDS RwMutex, FiniteSetTheorems, TLAPS

\* The calls between the take and the give of the mutex.
MutexPcs ==
  {"lr_load", "lr_store", "lr_test", "lr_writer", "lr_give",
   "ur_load", "ur_store", "ur_test", "ur_writer", "ur_give"}

CountedPcs ==
  {"lr_test", "lr_writer", "lr_give", "reading", "ur_take", "ur_load", "ur_store"}
ReaderPcs  == {"lr_give", "reading", "ur_take", "ur_load", "ur_store"}
RegisterPcs == {"lr_store", "lr_test", "ur_store", "ur_test"}

\* The mutex is held by the thread that is between its take and its give.
MutexInv == \A t \in Threads : pc[t] \in MutexPcs <=> reader = t

\* The count, and what the holder of the mutex knows of it: its register is not
\* outdated.
CountInv ==
  /\ readersCount = Cardinality(At(CountedPcs))
  /\ \A t \in Threads : pc[t] \in RegisterPcs => count[t] = readersCount
  /\ \A t \in Threads : pc[t] = "lr_writer" => readersCount = 1
  /\ \A t \in Threads : pc[t] = "ur_writer" => readersCount = 0

\* The reader that will find itself the first has not asked for the token yet; the
\* one that will find itself the last still has it, as have those in between.
ComesFirst(t) == pc[t] = "lr_test" /\ readersCount = 1
LeavesLast(t) == pc[t] = "ur_test" /\ readersCount = 0
HoldsToken(t) ==
  \/ pc[t] \in ReaderPcs \cup {"ur_writer"}
  \/ LeavesLast(t)
  \/ pc[t] = "lr_test" /\ readersCount # 1

\* The token is with one writer, with the readers together, with the last reader
\* about to give it back, or in the semaphore.
TokenInv ==
  /\ writer = 0 =>
       \/ \E t \in Threads : pc[t] \in {"writing", "ur_writer"} \/ LeavesLast(t)
       \/ readersCount # 0 /\ \A t \in Threads : pc[t] # "lr_writer" /\ ~ ComesFirst(t)
  /\ \A t \in Threads : HoldsToken(t) => writer = 0
  /\ \A t \in Threads : pc[t] = "writing" =>
       /\ writer = 0
       /\ \A u \in Threads : ~ HoldsToken(u)
       /\ \A u \in Threads \ {t} : pc[u] # "writing"

\* Nobody uses a lock that is taken down.
AliveInv == ~alive => \A t \in Threads : pc[t] = "idle"

IInv ==
  /\ TypeOK
  /\ MutexInv
  /\ CountInv
  /\ TokenInv
  /\ AliveInv

-----------------------------------------------------------------------------
(* Facts about the set of counted readers *)

\* A thread that stays among them, or outside, leaves the set as it is.
LEMMA CountedKept ==
  ASSUME pc \in [Threads -> Pcs], NEW t \in Threads, NEW l, Goto(t, l),
         pc[t] \in CountedPcs <=> l \in CountedPcs
  PROVE  At(CountedPcs)' = At(CountedPcs)
  BY DEF Goto, At

\* The set has one more when a thread counts itself in.
LEMMA CountedGrows ==
  ASSUME pc \in [Threads -> Pcs], NEW t \in Threads, NEW l, Goto(t, l),
         pc[t] \notin CountedPcs, l \in CountedPcs
  PROVE  Cardinality(At(CountedPcs)') = Cardinality(At(CountedPcs)) + 1
<1>1. IsFiniteSet(At(CountedPcs))
  BY ThreadsFinite, FS_Subset DEF At
<1>2. t \notin At(CountedPcs) /\ At(CountedPcs)' = At(CountedPcs) \cup {t}
  BY DEF Goto, At
<1> QED BY <1>1, <1>2, FS_AddElement

\* The set has one less when a thread counts itself out.
LEMMA CountedShrinks ==
  ASSUME pc \in [Threads -> Pcs], NEW t \in Threads, NEW l, Goto(t, l),
         pc[t] \in CountedPcs, l \notin CountedPcs
  PROVE  Cardinality(At(CountedPcs)') = Cardinality(At(CountedPcs)) - 1
<1>1. IsFiniteSet(At(CountedPcs))
  BY ThreadsFinite, FS_Subset DEF At
<1>2. t \in At(CountedPcs) /\ At(CountedPcs)' = At(CountedPcs) \ {t}
  BY DEF Goto, At
<1> QED BY <1>1, <1>2, FS_RemoveElement

\* The count is zero exactly if no thread is counted.
LEMMA CountedZero ==
  /\ Cardinality(At(CountedPcs)) \in Nat
  /\ Cardinality(At(CountedPcs)) = 0 <=> \A t \in Threads : pc[t] \notin CountedPcs
<1>1. IsFiniteSet(At(CountedPcs))
  BY ThreadsFinite, FS_Subset DEF At
<1> QED BY <1>1, FS_EmptySet, FS_CardinalityType DEF At

-----------------------------------------------------------------------------
(* IInv is inductive *)

LEMMA InitInv == Init => IInv
<1> SUFFICES ASSUME Init PROVE IInv
  OBVIOUS
<1>1. \A t \in Threads : pc[t] = "idle"
  BY DEF Init
<1>2. Cardinality(At(CountedPcs)) = 0
  BY <1>1, CountedZero DEF CountedPcs
<1> QED BY <1>1, <1>2, NobodyOutside
  DEF Init, IInv, TypeOK, MutexInv, CountInv, TokenInv, AliveInv, Pcs, MutexPcs, ReaderPcs,
      RegisterPcs, ComesFirst, LeavesLast, HoldsToken

\* One proof step per action of the specification.
LEMMA NextInv == IInv /\ [Next]_vars => IInv'
<1> SUFFICES ASSUME IInv, [Next]_vars
             PROVE  IInv'
  OBVIOUS
<1> USE NobodyOutside, CountedZero
<1> USE DEF IInv, LockReadPcs, UnlockReadPcs, MutexPcs, CountedPcs, ReaderPcs,
          RegisterPcs, ComesFirst, LeavesLast, HoldsToken, Goto
<1>1. ASSUME NEW t \in Threads, LockRead(t)
      PROVE  IInv'
  <2>1. At(CountedPcs)' = At(CountedPcs)
    BY <1>1, CountedKept DEF TypeOK, LockRead
  <2>2. TypeOK' /\ MutexInv'
    BY <1>1, <2>1 DEF TypeOK, Pcs, MutexInv, CountInv, LockRead, NoSemaphore
  <2>3. CountInv'
    BY <1>1, <2>1 DEF TypeOK, MutexInv, CountInv, LockRead, NoSemaphore
  <2>4. TokenInv'
    BY <1>1, <2>1 DEF TypeOK, MutexInv, CountInv, TokenInv, LockRead, NoSemaphore
  <2>5. AliveInv'
    BY <1>1 DEF TypeOK, AliveInv, LockRead, NoSemaphore
  <2> QED BY <2>2, <2>3, <2>4, <2>5
<1>2. ASSUME NEW t \in Threads, LockReadTake(t)
      PROVE  IInv'
  <2>1. At(CountedPcs)' = At(CountedPcs)
    BY <1>2, CountedKept DEF TypeOK, LockReadTake
  <2>2. TypeOK' /\ MutexInv'
    BY <1>2, <2>1 DEF TypeOK, Pcs, MutexInv, CountInv, LockReadTake, TakeReader
  <2>3. CountInv'
    BY <1>2, <2>1 DEF TypeOK, MutexInv, CountInv, LockReadTake, TakeReader
  <2>4. TokenInv'
    BY <1>2, <2>1 DEF TypeOK, MutexInv, CountInv, TokenInv, LockReadTake, TakeReader
  <2>5. AliveInv'
    BY <1>2 DEF TypeOK, AliveInv, LockReadTake, TakeReader
  <2> QED BY <2>2, <2>3, <2>4, <2>5
<1>3. ASSUME NEW t \in Threads, LockReadLoad(t)
      PROVE  IInv'
  <2>1. At(CountedPcs)' = At(CountedPcs)
    BY <1>3, CountedKept DEF TypeOK, LockReadLoad
  <2>2. TypeOK' /\ MutexInv'
    BY <1>3, <2>1 DEF TypeOK, Pcs, MutexInv, CountInv, LockReadLoad, LoadCount
  <2>3. CountInv'
    BY <1>3, <2>1 DEF TypeOK, MutexInv, CountInv, LockReadLoad, LoadCount
  <2>4. TokenInv'
    BY <1>3, <2>1 DEF TypeOK, MutexInv, CountInv, TokenInv, LockReadLoad, LoadCount
  <2>5. AliveInv'
    BY <1>3 DEF TypeOK, AliveInv, LockReadLoad, LoadCount
  <2> QED BY <2>2, <2>3, <2>4, <2>5
<1>4. ASSUME NEW t \in Threads, LockReadStore(t)
      PROVE  IInv'
  <2>1. Cardinality(At(CountedPcs)') = Cardinality(At(CountedPcs)) + 1
    BY <1>4, CountedGrows, ZenonT(60) DEF TypeOK, LockReadStore
  <2>2. TypeOK' /\ MutexInv'
    BY <1>4, <2>1 DEF TypeOK, Pcs, MutexInv, CountInv, LockReadStore, StoreCount
  <2>3. CountInv'
    BY <1>4, <2>1 DEF TypeOK, MutexInv, CountInv, LockReadStore, StoreCount
  <2>4. TokenInv'
    BY <1>4, <2>1 DEF TypeOK, MutexInv, CountInv, TokenInv, LockReadStore, StoreCount
  <2>5. AliveInv'
    BY <1>4 DEF TypeOK, AliveInv, LockReadStore, StoreCount
  <2> QED BY <2>2, <2>3, <2>4, <2>5
<1>5. ASSUME NEW t \in Threads, LockReadTest(t)
      PROVE  IInv'
  <2>0. PICK l \in {"lr_writer", "lr_give"} :
          Goto(t, l) /\ (l = "lr_writer" <=> readersCount = 1)
    BY <1>5 DEF LockReadTest, Tested, FirstReader, CountInv
  <2>1. At(CountedPcs)' = At(CountedPcs)
    BY <1>5, <2>0, CountedKept DEF TypeOK, LockReadTest
  <2>2. TypeOK' /\ MutexInv'
    BY <1>5, <2>0, <2>1 DEF TypeOK, Pcs, MutexInv, CountInv, LockReadTest, ForgetCount
  <2>3. CountInv'
    BY <1>5, <2>0, <2>1 DEF TypeOK, MutexInv, CountInv, LockReadTest, ForgetCount
  <2>4. TokenInv'
    BY <1>5, <2>0, <2>1 DEF TypeOK, MutexInv, CountInv, TokenInv, LockReadTest, ForgetCount
  <2>5. AliveInv'
    BY <1>5, <2>0 DEF TypeOK, AliveInv, LockReadTest, ForgetCount
  <2> QED BY <2>2, <2>3, <2>4, <2>5
<1>6. ASSUME NEW t \in Threads, LockReadWriter(t)
      PROVE  IInv'
  <2>1. At(CountedPcs)' = At(CountedPcs)
    BY <1>6, CountedKept DEF TypeOK, LockReadWriter
  <2>2. TypeOK' /\ MutexInv'
    BY <1>6, <2>1 DEF TypeOK, Pcs, MutexInv, CountInv, LockReadWriter, TakeWriter
  <2>3. CountInv'
    BY <1>6, <2>1 DEF TypeOK, MutexInv, CountInv, LockReadWriter, TakeWriter
  <2>4. TokenInv'
    BY <1>6, <2>1 DEF TypeOK, MutexInv, CountInv, TokenInv, LockReadWriter, TakeWriter
  <2>5. AliveInv'
    BY <1>6 DEF TypeOK, AliveInv, LockReadWriter, TakeWriter
  <2> QED BY <2>2, <2>3, <2>4, <2>5
<1>7. ASSUME NEW t \in Threads, LockReadGive(t)
      PROVE  IInv'
  <2>1. At(CountedPcs)' = At(CountedPcs)
    BY <1>7, CountedKept DEF TypeOK, LockReadGive
  <2>2. TypeOK' /\ MutexInv'
    BY <1>7, <2>1 DEF TypeOK, Pcs, MutexInv, CountInv, LockReadGive, GiveReader
  <2>3. CountInv'
    BY <1>7, <2>1 DEF TypeOK, MutexInv, CountInv, LockReadGive, GiveReader
  <2>4. TokenInv'
    BY <1>7, <2>1 DEF TypeOK, MutexInv, CountInv, TokenInv, LockReadGive, GiveReader
  <2>5. AliveInv'
    BY <1>7 DEF TypeOK, AliveInv, LockReadGive, GiveReader
  <2> QED BY <2>2, <2>3, <2>4, <2>5
<1>8. ASSUME NEW t \in Threads, UnlockRead(t)
      PROVE  IInv'
  <2>1. At(CountedPcs)' = At(CountedPcs)
    BY <1>8, CountedKept DEF TypeOK, UnlockRead
  <2>2. TypeOK' /\ MutexInv'
    BY <1>8, <2>1 DEF TypeOK, Pcs, MutexInv, CountInv, UnlockRead, NoSemaphore
  <2>3. CountInv'
    BY <1>8, <2>1 DEF TypeOK, MutexInv, CountInv, UnlockRead, NoSemaphore
  <2>4. TokenInv'
    BY <1>8, <2>1 DEF TypeOK, MutexInv, CountInv, TokenInv, UnlockRead, NoSemaphore
  <2>5. AliveInv'
    BY <1>8 DEF TypeOK, AliveInv, UnlockRead, NoSemaphore
  <2> QED BY <2>2, <2>3, <2>4, <2>5
<1>9. ASSUME NEW t \in Threads, UnlockReadTake(t)
      PROVE  IInv'
  <2>1. At(CountedPcs)' = At(CountedPcs)
    BY <1>9, CountedKept DEF TypeOK, UnlockReadTake
  <2>2. TypeOK' /\ MutexInv'
    BY <1>9, <2>1 DEF TypeOK, Pcs, MutexInv, CountInv, UnlockReadTake, TakeReader
  <2>3. CountInv'
    BY <1>9, <2>1 DEF TypeOK, MutexInv, CountInv, UnlockReadTake, TakeReader
  <2>4. TokenInv'
    BY <1>9, <2>1 DEF TypeOK, MutexInv, CountInv, TokenInv, UnlockReadTake, TakeReader
  <2>5. AliveInv'
    BY <1>9 DEF TypeOK, AliveInv, UnlockReadTake, TakeReader
  <2> QED BY <2>2, <2>3, <2>4, <2>5
<1>10. ASSUME NEW t \in Threads, UnlockReadLoad(t)
      PROVE  IInv'
  <2>1. At(CountedPcs)' = At(CountedPcs)
    BY <1>10, CountedKept DEF TypeOK, UnlockReadLoad
  <2>2. TypeOK' /\ MutexInv'
    BY <1>10, <2>1 DEF TypeOK, Pcs, MutexInv, CountInv, UnlockReadLoad, LoadCount
  <2>3. CountInv'
    BY <1>10, <2>1 DEF TypeOK, MutexInv, CountInv, UnlockReadLoad, LoadCount
  <2>4. TokenInv'
    BY <1>10, <2>1 DEF TypeOK, MutexInv, CountInv, TokenInv, UnlockReadLoad, LoadCount
  <2>5. AliveInv'
    BY <1>10 DEF TypeOK, AliveInv, UnlockReadLoad, LoadCount
  <2> QED BY <2>2, <2>3, <2>4, <2>5
<1>11. ASSUME NEW t \in Threads, UnlockReadStore(t)
      PROVE  IInv'
  <2>1. Cardinality(At(CountedPcs)') = Cardinality(At(CountedPcs)) - 1
    BY <1>11, CountedShrinks, ZenonT(60) DEF TypeOK, UnlockReadStore
  <2>2. TypeOK' /\ MutexInv'
    BY <1>11, <2>1 DEF TypeOK, Pcs, MutexInv, CountInv, UnlockReadStore, StoreCount
  <2>3. CountInv'
    BY <1>11, <2>1 DEF TypeOK, MutexInv, CountInv, UnlockReadStore, StoreCount
  <2>4. TokenInv'
    BY <1>11, <2>1 DEF TypeOK, MutexInv, CountInv, TokenInv, UnlockReadStore, StoreCount
  <2>5. AliveInv'
    BY <1>11 DEF TypeOK, AliveInv, UnlockReadStore, StoreCount
  <2> QED BY <2>2, <2>3, <2>4, <2>5
<1>12. ASSUME NEW t \in Threads, UnlockReadTest(t)
      PROVE  IInv'
  <2>0. PICK l \in {"ur_writer", "ur_give"} :
          Goto(t, l) /\ (l = "ur_writer" <=> readersCount = 0)
    BY <1>12 DEF UnlockReadTest, Tested, LastReader, CountInv
  <2>1. At(CountedPcs)' = At(CountedPcs)
    BY <1>12, <2>0, CountedKept DEF TypeOK, UnlockReadTest
  <2>2. TypeOK' /\ MutexInv'
    BY <1>12, <2>0, <2>1 DEF TypeOK, Pcs, MutexInv, CountInv, UnlockReadTest, ForgetCount
  <2>3. CountInv'
    BY <1>12, <2>0, <2>1 DEF TypeOK, MutexInv, CountInv, UnlockReadTest, ForgetCount
  <2>4. TokenInv'
    BY <1>12, <2>0, <2>1 DEF TypeOK, MutexInv, CountInv, TokenInv, UnlockReadTest, ForgetCount
  <2>5. AliveInv'
    BY <1>12, <2>0 DEF TypeOK, AliveInv, UnlockReadTest, ForgetCount
  <2> QED BY <2>2, <2>3, <2>4, <2>5
<1>13. ASSUME NEW t \in Threads, UnlockReadWriter(t)
      PROVE  IInv'
  <2>1. At(CountedPcs)' = At(CountedPcs)
    BY <1>13, CountedKept DEF TypeOK, UnlockReadWriter
  <2>2. TypeOK' /\ MutexInv'
    BY <1>13, <2>1 DEF TypeOK, Pcs, MutexInv, CountInv, UnlockReadWriter, GiveWriter
  <2>3. CountInv'
    BY <1>13, <2>1 DEF TypeOK, MutexInv, CountInv, UnlockReadWriter, GiveWriter
  <2>4. TokenInv'
    BY <1>13, <2>1 DEF TypeOK, MutexInv, CountInv, TokenInv, UnlockReadWriter, GiveWriter
  <2>5. AliveInv'
    BY <1>13 DEF TypeOK, AliveInv, UnlockReadWriter, GiveWriter
  <2> QED BY <2>2, <2>3, <2>4, <2>5
<1>14. ASSUME NEW t \in Threads, UnlockReadGive(t)
      PROVE  IInv'
  <2>1. At(CountedPcs)' = At(CountedPcs)
    BY <1>14, CountedKept DEF TypeOK, UnlockReadGive
  <2>2. TypeOK' /\ MutexInv'
    BY <1>14, <2>1 DEF TypeOK, Pcs, MutexInv, CountInv, UnlockReadGive, GiveReader
  <2>3. CountInv'
    BY <1>14, <2>1 DEF TypeOK, MutexInv, CountInv, UnlockReadGive, GiveReader
  <2>4. TokenInv'
    BY <1>14, <2>1 DEF TypeOK, MutexInv, CountInv, TokenInv, UnlockReadGive, GiveReader
  <2>5. AliveInv'
    BY <1>14 DEF TypeOK, AliveInv, UnlockReadGive, GiveReader
  <2> QED BY <2>2, <2>3, <2>4, <2>5
<1>15. ASSUME NEW t \in Threads, LockWrite(t)
      PROVE  IInv'
  <2>1. At(CountedPcs)' = At(CountedPcs)
    BY <1>15, CountedKept DEF TypeOK, LockWrite
  <2>2. TypeOK' /\ MutexInv'
    BY <1>15, <2>1 DEF TypeOK, Pcs, MutexInv, CountInv, LockWrite, NoSemaphore
  <2>3. CountInv'
    BY <1>15, <2>1 DEF TypeOK, MutexInv, CountInv, LockWrite, NoSemaphore
  <2>4. TokenInv'
    BY <1>15, <2>1 DEF TypeOK, MutexInv, CountInv, TokenInv, LockWrite, NoSemaphore
  <2>5. AliveInv'
    BY <1>15 DEF TypeOK, AliveInv, LockWrite, NoSemaphore
  <2> QED BY <2>2, <2>3, <2>4, <2>5
<1>16. ASSUME NEW t \in Threads, LockWriteTake(t)
      PROVE  IInv'
  <2>1. At(CountedPcs)' = At(CountedPcs)
    BY <1>16, CountedKept DEF TypeOK, LockWriteTake
  <2>2. TypeOK' /\ MutexInv'
    BY <1>16, <2>1 DEF TypeOK, Pcs, MutexInv, CountInv, LockWriteTake, TakeWriter
  <2>3. CountInv'
    BY <1>16, <2>1 DEF TypeOK, MutexInv, CountInv, LockWriteTake, TakeWriter
  <2>4. TokenInv'
    BY <1>16, <2>1 DEF TypeOK, MutexInv, CountInv, TokenInv, LockWriteTake, TakeWriter
  <2>5. AliveInv'
    BY <1>16 DEF TypeOK, AliveInv, LockWriteTake, TakeWriter
  <2> QED BY <2>2, <2>3, <2>4, <2>5
<1>17. ASSUME NEW t \in Threads, UnlockWrite(t)
      PROVE  IInv'
  <2>1. At(CountedPcs)' = At(CountedPcs)
    BY <1>17, CountedKept DEF TypeOK, UnlockWrite
  <2>2. TypeOK' /\ MutexInv'
    BY <1>17, <2>1 DEF TypeOK, Pcs, MutexInv, CountInv, UnlockWrite, GiveWriter
  <2>3. CountInv'
    BY <1>17, <2>1 DEF TypeOK, MutexInv, CountInv, UnlockWrite, GiveWriter
  <2>4. TokenInv'
    BY <1>17, <2>1 DEF TypeOK, MutexInv, CountInv, TokenInv, UnlockWrite, GiveWriter
  <2>5. AliveInv'
    BY <1>17 DEF TypeOK, AliveInv, UnlockWrite, GiveWriter
  <2> QED BY <2>2, <2>3, <2>4, <2>5
<1>18. ASSUME rwMutexDeinit
       PROVE  IInv'
  BY <1>18 DEF rwMutexDeinit, Unused, TypeOK, MutexInv, CountInv, TokenInv, AliveInv, At
<1>19. ASSUME rwMutexInit
       PROVE  IInv'
  <2>1. \A t \in Threads : pc'[t] = "idle"
    BY <1>19 DEF rwMutexInit, AliveInv
  <2>2. At(CountedPcs)' = At(CountedPcs) /\ Cardinality(At(CountedPcs)) = 0
    BY <1>19, <2>1 DEF rwMutexInit, At
  <2>3. TypeOK' /\ MutexInv' /\ AliveInv'
    BY <1>19, <2>1 DEF rwMutexInit, TypeOK, MutexInv, AliveInv
  <2>4. CountInv' /\ TokenInv'
    BY <1>19, <2>1, <2>2 DEF rwMutexInit, CountInv, TokenInv
  <2> QED BY <2>3, <2>4
<1>20. CASE UNCHANGED vars
  BY <1>20 DEF vars, TypeOK, MutexInv, CountInv, TokenInv, AliveInv, At
<1> QED BY <1>1, <1>2, <1>3, <1>4, <1>5, <1>6, <1>7, <1>8, <1>9, <1>10, <1>11, <1>12, <1>13,
           <1>14, <1>15, <1>16, <1>17, <1>18, <1>19, <1>20
  DEF Next, Step

LEMMA Invariance == Spec => []IInv
  BY InitInv, NextInv, PTL DEF Spec

-----------------------------------------------------------------------------
(* Theorems *)

\* The variables keep their types: the semaphores hold at most one token and the
\* unsigned count of readers never goes below zero.
THEOREM TypeCorrect == Spec => []TypeOK
<1>1. IInv => TypeOK
  BY DEF IInv
<1> QED BY <1>1, Invariance, PTL

\* Write access is exclusive, for any number of readers and writers.
THEOREM Exclusion == Spec => []MutualExclusion
<1>1. IInv => MutualExclusion
  BY DEF IInv, TokenInv, MutualExclusion, HoldsToken, Readers, Writers, At, ReaderPcs
<1> QED BY <1>1, Invariance, PTL

\* No update of the count is lost, for any number of threads: the mutex keeps every
\* load and the store that follows it together.
THEOREM CountExact == Spec => []CountsReaders
<1>1. IInv => CountsReaders
  BY DEF IInv, CountInv, CountsReaders, CountedPcs
<1> QED BY <1>1, Invariance, PTL

\* The reader that blocks on the token with the mutex held waits for a writer.
THEOREM NoReaderDeadlock == Spec => []FirstReaderWaitsForWriter
<1>1. IInv => FirstReaderWaitsForWriter
  BY DEF IInv, TypeOK, MutexInv, TokenInv, LeavesLast, FirstReaderWaitsForWriter, Writers, At,
         MutexPcs
<1> QED BY <1>1, Invariance, PTL

=============================================================================

----------------------- MODULE RundownProtectionProofs -----------------------
(***************************************************************************)
(* Proofs about module RundownProtection, for any finite set of threads,   *)
(* any limit of the count and whether or not the object is destroyed and   *)
(* used again.  IInv is the inductive invariant behind all of them.        *)
(***************************************************************************)
EXTENDS RundownProtection, FiniteSetTheorems, TLAPS

\* The waiters past rpEnsureEventGroup.
ReadyPcs == {"w_load", "w_cas", "w_set", "w_block"}

\* A user about to release sees a count that includes it.
CountInv ==
  /\ Refs(counter) = Cardinality(Holders)
  /\ \A t \in Threads : pc[t] # "asserted"
  /\ \A t \in Threads : pc[t] = "rel_cas" => Refs(val[t]) # 0

\* One thread creates the group, and publishes it complete.
CreateInv ==
  /\ eg = GROUP => group.live
  /\ \A t \in Threads : pc[t] \in {"ens_create", "ens_store"} =>
       /\ eg = CREATING
       /\ pc[t] = "ens_store" => group = NewGroup /\ handle[t] = GROUP
       /\ \A u \in Threads \ {t} : pc[u] \notin {"ens_create", "ens_store"}

\* The rundown begins only once the group is there.
WaitInv ==
  /\ IsActive(counter) /\ NoDestroyRunning => eg = GROUP
  /\ \A t \in Threads : pc[t] \in ReadyPcs => eg = GROUP /\ handle[t] = GROUP
  /\ \A t \in Threads : pc[t] = "waited" => eg = GROUP /\ DONE \in group.bits

\* The bit is set once, by one thread, after the last user has left.
SignalInv ==
  /\ DONE \in group.bits /\ eg = GROUP => counter = ACTIVE
  /\ \A t \in Threads : pc[t] \in SignalPcs =>
       /\ counter = ACTIVE
       /\ eg = GROUP
       /\ DONE \notin group.bits
       /\ pc[t] = "rel_set" => handle[t] = GROUP
       /\ \A u \in Threads \ {t} : pc[u] \notin SignalPcs

\* The destroyer is alone with the group it deletes.
DestroyInv ==
  \A t \in Threads : pc[t] \in DestroyPcs =>
    /\ counter = ACTIVE
    /\ eg = NULL
    /\ pc[t] = "d_delete" => handle[t] = GROUP /\ group.live
    /\ \A u \in Threads \ {t} :
         pc[u] \notin WaitPcs \cup SignalPcs \cup DestroyPcs \cup {"waited"}

IInv ==
  /\ TypeOK
  /\ ~ fault
  /\ CountInv
  /\ CreateInv
  /\ WaitInv
  /\ SignalInv
  /\ DestroyInv
  /\ NoLostWakeup

-----------------------------------------------------------------------------
(* Facts about the word, the set of holders and the signal *)

\* The count and the flag of the words the code computes.
LEMMA WordFacts ==
  /\ 0 \in Word /\ Refs(0) = 0 /\ ~ IsActive(0)
  /\ ACTIVE \in Word /\ Refs(ACTIVE) = 0 /\ IsActive(ACTIVE) /\ ACTIVE # 0
  /\ \A w \in Word :
       /\ Refs(w) \in 0 .. MaxRef
       /\ IsActive(w) /\ Refs(w) = 0 => w = ACTIVE
       /\ ~ Refused(w) => /\ w + 1 \in Word
                          /\ Refs(w + 1) = Refs(w) + 1
                          /\ ~ IsActive(w) /\ ~ IsActive(w + 1)
       /\ Refs(w) # 0 => /\ AfterRelease(w) \in Word
                         /\ Refs(AfterRelease(w)) = Refs(w) - 1
                         /\ IsActive(AfterRelease(w)) <=> IsActive(w)
                         /\ w # ACTIVE
       /\ ~ IsActive(w) => /\ w + ACTIVE \in Word
                           /\ Refs(w + ACTIVE) = Refs(w)
                           /\ IsActive(w + ACTIVE)
                           /\ w # ACTIVE
  BY MaxRefType DEF Word, Refs, IsActive, ACTIVE, Refused, AfterRelease, Flag

\* A step of thread t that takes or gives up no reference.
LEMMA HoldersKept ==
  ASSUME pc \in [Threads -> Pcs], NEW t \in Threads, NEW l, Goto(t, l),
         pc[t] \in HoldPcs <=> l \in HoldPcs
  PROVE  Holders' = Holders
  BY DEF Goto, Holders

LEMMA HoldersGrow ==
  ASSUME pc \in [Threads -> Pcs], NEW t \in Threads, NEW l, Goto(t, l),
         pc[t] \notin HoldPcs, l \in HoldPcs
  PROVE  Cardinality(Holders') = Cardinality(Holders) + 1
<1>1. IsFiniteSet(Holders)
  BY ThreadsFinite, FS_Subset DEF Holders
<1>2. t \notin Holders /\ Holders' = Holders \cup {t}
  BY DEF Goto, Holders
<1> QED BY <1>1, <1>2, FS_AddElement

LEMMA HoldersShrink ==
  ASSUME pc \in [Threads -> Pcs], NEW t \in Threads, NEW l, Goto(t, l),
         pc[t] \in HoldPcs, l \notin HoldPcs
  PROVE  Cardinality(Holders') = Cardinality(Holders) - 1
<1>1. IsFiniteSet(Holders)
  BY ThreadsFinite, FS_Subset DEF Holders
<1>2. t \in Holders /\ Holders' = Holders \ {t}
  BY DEF Goto, Holders
<1> QED BY <1>1, <1>2, FS_RemoveElement

\* A holder is counted; without count there is no holder.
LEMMA HolderCounted ==
  /\ \A t \in Threads : pc[t] \in HoldPcs => Cardinality(Holders) # 0
  /\ Cardinality(Holders) = 0 => Holders = {}
<1>1. IsFiniteSet(Holders)
  BY ThreadsFinite, FS_Subset DEF Holders
<1> QED BY <1>1, FS_EmptySet DEF Holders

\* Setting the bit of a group that exists.
LEMMA SetDoneFacts ==
  ASSUME group \in Groups({DONE}), group.live, SetDone(GROUP)
  PROVE  /\ group' \in Groups({DONE})
         /\ group'.live
         /\ DONE \in group'.bits
         /\ fault' = fault
  BY DEF Groups, SetDone, Usable, WithBit

\* The two groups the code stores as a whole.
LEMMA GroupFacts ==
  /\ NewGroup \in Groups({DONE}) /\ NewGroup.live /\ DONE \notin NewGroup.bits
  /\ NoGroup \in Groups({DONE}) /\ DONE \notin NoGroup.bits
  BY DEF Groups, NewGroup, NoGroup

-----------------------------------------------------------------------------
(* IInv is inductive *)

LEMMA InitInv == Init => IInv
<1> SUFFICES ASSUME Init PROVE IInv
  OBVIOUS
<1> USE DEF Init
<1>1. Holders = {} /\ Cardinality(Holders) = 0
  BY FS_EmptySet DEF Holders, HoldPcs
<1>2. TypeOK
  BY WordFacts, GroupFacts DEF TypeOK, Pcs, NULL, GROUP
<1>3. CountInv
  BY <1>1, WordFacts DEF CountInv
<1>4. CreateInv
  BY GroupFacts DEF CreateInv, NULL, GROUP
<1>5. WaitInv
  BY WordFacts DEF WaitInv, ReadyPcs
<1>6. SignalInv
  BY GroupFacts DEF SignalInv, SignalPcs
<1>7. DestroyInv
  BY DEF DestroyInv, DestroyPcs
<1>8. NoLostWakeup
  BY WordFacts DEF NoLostWakeup
<1> QED BY <1>2, <1>3, <1>4, <1>5, <1>6, <1>7, <1>8 DEF IInv

\* A failed compare-and-swap: only the local val changes.
LEMMA RetryInv ==
  ASSUME IInv, NEW t \in Threads, Retry(t)
  PROVE  IInv'
<1> USE DEF Retry, See, IInv
<1>1. Holders' = Holders
  BY DEF Holders
<1>2. TypeOK'
  BY DEF TypeOK
<1>3. CountInv'
  BY <1>1, HolderCounted DEF TypeOK, CountInv, HoldPcs
<1>4. CreateInv' /\ WaitInv' /\ SignalInv'
  BY DEF CreateInv, WaitInv, SignalInv, NoDestroyRunning
<1>5. DestroyInv' /\ NoLostWakeup'
  BY DEF DestroyInv, NoLostWakeup, NoDestroyRunning
<1> QED BY <1>2, <1>3, <1>4, <1>5

\* One proof step per action of the specification.
LEMMA NextInv == IInv /\ [Next]_vars => IInv'
<1> SUFFICES ASSUME IInv, [Next]_vars
             PROVE  IInv'
  OBVIOUS
<1> USE DEF IInv, AcquirePcs, HoldPcs, SignalPcs, EnsurePcs, WaitPcs, ReadyPcs, DestroyPcs,
            Goto, See, Hold, NoDestroyRunning, NULL, CREATING, GROUP
<1>1. ASSUME NEW t \in Threads, Acquire(t)
      PROVE  IInv'
  <2>1. Holders' = Holders
    BY <1>1, HoldersKept DEF TypeOK, Acquire
  <2>2. TypeOK' /\ ~ fault'
    BY <1>1, <2>1 DEF TypeOK, Pcs, Acquire
  <2>3. CountInv' /\ CreateInv'
    BY <1>1, <2>1 DEF TypeOK, CountInv, CreateInv, Acquire
  <2>4. WaitInv' /\ SignalInv'
    BY <1>1, <2>1 DEF TypeOK, CreateInv, WaitInv, SignalInv, DestroyInv, Acquire
  <2>5. DestroyInv' /\ NoLostWakeup'
    BY <1>1, <2>1 DEF TypeOK, CreateInv, WaitInv, SignalInv, DestroyInv, NoLostWakeup, Acquire
  <2> QED BY <2>2, <2>3, <2>4, <2>5
<1>2. ASSUME NEW t \in Threads, AcquireRefuse(t)
      PROVE  IInv'
  <2>1. Holders' = Holders
    BY <1>2, HoldersKept DEF TypeOK, AcquireRefuse, Finish
  <2>2. TypeOK' /\ ~ fault'
    BY <1>2, <2>1, WordFacts DEF TypeOK, Pcs, AcquireRefuse, Finish
  <2>3. CountInv' /\ CreateInv'
    BY <1>2, <2>1 DEF TypeOK, CountInv, CreateInv, AcquireRefuse, Finish
  <2>4. WaitInv' /\ SignalInv'
    BY <1>2, <2>1 DEF TypeOK, CreateInv, WaitInv, SignalInv, DestroyInv, AcquireRefuse, Finish
  <2>5. DestroyInv' /\ NoLostWakeup'
    BY <1>2, <2>1
      DEF TypeOK, CreateInv, WaitInv, SignalInv, DestroyInv, NoLostWakeup, AcquireRefuse, Finish
  <2> QED BY <2>2, <2>3, <2>4, <2>5
<1>3. ASSUME NEW t \in Threads, AcquireCas(t)
      PROVE  IInv'
  <2>1. CASE /\ counter = val[t]
            /\ counter' = val[t] + 1
            /\ Finish(t, "held")
            /\ UNCHANGED <<eg, group, fault, stage>>
    <3>1. pc[t] = "acq_cas" /\ counter \in Word /\ ~ Refused(counter)
      BY <1>3, <2>1 DEF TypeOK, AcquireCas
    <3>2. /\ counter' \in Word
          /\ ~ IsActive(counter)
          /\ ~ IsActive(counter')
          /\ counter # ACTIVE
          /\ counter' # ACTIVE
      BY <2>1, <3>1, WordFacts
    <3>3. Cardinality(Holders') = Cardinality(Holders) + 1
      BY <2>1, <3>1, HoldersGrow DEF TypeOK, Finish
    <3>4. Refs(counter') = Cardinality(Holders')
      BY <2>1, <3>1, <3>3, WordFacts DEF CountInv
    <3>5. TypeOK' /\ ~ fault'
      BY <1>3, <2>1, <3>1, <3>2, <3>3, <3>4, WordFacts DEF TypeOK, Pcs, Finish
    <3>6. CountInv' /\ CreateInv'
      BY <1>3, <2>1, <3>1, <3>2, <3>3, <3>4 DEF TypeOK, CountInv, CreateInv, Finish
    <3>7. WaitInv' /\ SignalInv'
      BY <1>3, <2>1, <3>1, <3>2, <3>3, <3>4
        DEF TypeOK, CreateInv, WaitInv, SignalInv, DestroyInv, Finish
    <3>8. DestroyInv' /\ NoLostWakeup'
      BY <1>3, <2>1, <3>1, <3>2, <3>3, <3>4
        DEF TypeOK, CreateInv, WaitInv, SignalInv, DestroyInv, NoLostWakeup, Finish
    <3> QED BY <3>5, <3>6, <3>7, <3>8
  <2>2. CASE Retry(t)
    BY <2>2, RetryInv
  <2> QED BY <1>3, <2>1, <2>2 DEF AcquireCas
<1>4. ASSUME NEW t \in Threads, Release(t)
      PROVE  IInv'
  <2>1. Holders' = Holders
    BY <1>4, HoldersKept DEF TypeOK, Release
  <2>2. TypeOK' /\ ~ fault'
    BY <1>4, <2>1 DEF TypeOK, Pcs, Release
  <2>3. CountInv' /\ CreateInv'
    BY <1>4, <2>1, HolderCounted DEF TypeOK, CountInv, CreateInv, Release
  <2>4. WaitInv' /\ SignalInv'
    BY <1>4, <2>1 DEF TypeOK, CreateInv, WaitInv, SignalInv, DestroyInv, Release
  <2>5. DestroyInv' /\ NoLostWakeup'
    BY <1>4, <2>1 DEF TypeOK, CreateInv, WaitInv, SignalInv, DestroyInv, NoLostWakeup, Release
  <2> QED BY <2>2, <2>3, <2>4, <2>5
<1>5. ASSUME NEW t \in Threads, ReleaseCas(t)
      PROVE  IInv'
  <2>1. CASE /\ counter = val[t]
            /\ counter' = AfterRelease(val[t])
            /\ Finish(t, IF LastOut(AfterRelease(val[t])) THEN "rel_eg" ELSE "idle")
            /\ UNCHANGED <<eg, group, fault, stage>>
    <3>1. pc[t] = "rel_cas" /\ counter \in Word /\ Refs(counter) # 0
      BY <1>5, <2>1 DEF TypeOK, CountInv, ReleaseCas
    <3>2. /\ counter' \in Word
          /\ counter # ACTIVE
          /\ (IsActive(counter') <=> IsActive(counter))
          /\ (counter' = ACTIVE => IsActive(counter))
      BY <2>1, <3>1, WordFacts
    <3>3. PICK l \in {"rel_eg", "idle"} : Finish(t, l) /\ (l = "rel_eg" <=> counter' = ACTIVE)
      BY <2>1 DEF LastOut
    <3>4. Cardinality(Holders') = Cardinality(Holders) - 1
      BY <3>1, <3>3, HoldersShrink DEF TypeOK, Finish
    <3>5. Refs(counter') = Cardinality(Holders')
      BY <2>1, <3>1, <3>4, WordFacts DEF CountInv
    <3>6. TypeOK' /\ ~ fault'
      BY <1>5, <2>1, <3>1, <3>2, <3>3, <3>4, <3>5, WordFacts DEF TypeOK, Pcs, Finish
    <3>7. CountInv' /\ CreateInv'
      BY <1>5, <2>1, <3>1, <3>2, <3>3, <3>4, <3>5 DEF TypeOK, CountInv, CreateInv, Finish
    <3>8. WaitInv' /\ SignalInv'
      BY <1>5, <2>1, <3>1, <3>2, <3>3, <3>4, <3>5
        DEF TypeOK, CreateInv, WaitInv, SignalInv, DestroyInv, Finish
    <3>9. DestroyInv' /\ NoLostWakeup'
      BY <1>5, <2>1, <3>1, <3>2, <3>3, <3>4, <3>5
        DEF TypeOK, CreateInv, WaitInv, SignalInv, DestroyInv, NoLostWakeup, Finish
    <3> QED BY <3>6, <3>7, <3>8, <3>9
  <2>2. CASE Retry(t)
    BY <2>2, RetryInv
  <2> QED BY <1>5, <2>1, <2>2 DEF ReleaseCas, CountInv
<1>6. ASSUME NEW t \in Threads, ReleaseLoadGroup(t)
      PROVE  IInv'
  <2>1. Holders' = Holders
    BY <1>6, HoldersKept DEF TypeOK, ReleaseLoadGroup
  <2>2. TypeOK' /\ ~ fault'
    BY <1>6, <2>1 DEF TypeOK, Pcs, ReleaseLoadGroup
  <2>3. CountInv' /\ CreateInv'
    BY <1>6, <2>1 DEF TypeOK, CountInv, CreateInv, ReleaseLoadGroup
  <2>4. WaitInv' /\ SignalInv'
    BY <1>6, <2>1 DEF TypeOK, CreateInv, WaitInv, SignalInv, DestroyInv, ReleaseLoadGroup
  <2>5. DestroyInv' /\ NoLostWakeup'
    BY <1>6, <2>1
      DEF TypeOK, CreateInv, WaitInv, SignalInv, DestroyInv, NoLostWakeup, ReleaseLoadGroup
  <2> QED BY <2>2, <2>3, <2>4, <2>5
<1>7. ASSUME NEW t \in Threads, ReleaseSet(t)
      PROVE  IInv'
  <2>1. Holders' = Holders
    BY <1>7, HoldersKept DEF TypeOK, ReleaseSet, Finish
  <2>2. eg = GROUP /\ group.live /\ handle[t] = GROUP
    BY <1>7 DEF TypeOK, CreateInv, WaitInv, SignalInv, ReleaseSet, Finish
  <2>3. group' \in Groups({DONE}) /\ group'.live /\ DONE \in group'.bits /\ fault' = fault
    BY <1>7, <2>2, SetDoneFacts DEF TypeOK, ReleaseSet, Finish
  <2>4. TypeOK' /\ ~ fault'
    BY <1>7, <2>1, <2>2, <2>3, WordFacts DEF TypeOK, Pcs, ReleaseSet, Finish
  <2>5. CountInv' /\ CreateInv'
    BY <1>7, <2>1, <2>2, <2>3 DEF TypeOK, CountInv, CreateInv, ReleaseSet, Finish
  <2>6. WaitInv' /\ SignalInv'
    BY <1>7, <2>1, <2>2, <2>3
      DEF TypeOK, CreateInv, WaitInv, SignalInv, DestroyInv, ReleaseSet, Finish
  <2>7. DestroyInv' /\ NoLostWakeup'
    BY <1>7, <2>1, <2>2, <2>3
      DEF TypeOK, CreateInv, WaitInv, SignalInv, DestroyInv, NoLostWakeup, ReleaseSet, Finish
  <2> QED BY <2>4, <2>5, <2>6, <2>7
<1>8. ASSUME NEW t \in Threads, Wait(t)
      PROVE  IInv'
  <2>1. Holders' = Holders
    BY <1>8 DEF TypeOK, Holders, Wait
  <2>2. TypeOK' /\ ~ fault'
    BY <1>8, <2>1 DEF TypeOK, Pcs, Wait
  <2>3. CountInv' /\ CreateInv'
    BY <1>8, <2>1 DEF TypeOK, CountInv, CreateInv, Wait
  <2>4. WaitInv' /\ SignalInv'
    BY <1>8, <2>1 DEF TypeOK, CreateInv, WaitInv, SignalInv, DestroyInv, Wait
  <2>5. DestroyInv' /\ NoLostWakeup'
    BY <1>8, <2>1 DEF TypeOK, CreateInv, WaitInv, SignalInv, DestroyInv, NoLostWakeup, Wait
  <2> QED BY <2>2, <2>3, <2>4, <2>5
<1>9. ASSUME NEW t \in Threads, EnsureCas(t)
      PROVE  IInv'
  <2>1. Holders' = Holders
    BY <1>9 DEF TypeOK, Holders, EnsureCas
  <2>2. TypeOK' /\ ~ fault'
    BY <1>9, <2>1 DEF TypeOK, Pcs, EnsureCas
  <2>3. CountInv' /\ CreateInv'
    BY <1>9, <2>1 DEF TypeOK, CountInv, CreateInv, EnsureCas
  <2>4. WaitInv' /\ SignalInv'
    BY <1>9, <2>1 DEF TypeOK, CreateInv, WaitInv, SignalInv, DestroyInv, EnsureCas
  <2>5. DestroyInv' /\ NoLostWakeup'
    BY <1>9, <2>1 DEF TypeOK, CreateInv, WaitInv, SignalInv, DestroyInv, NoLostWakeup, EnsureCas
  <2> QED BY <2>2, <2>3, <2>4, <2>5
<1>10. ASSUME NEW t \in Threads, EnsureCreate(t)
      PROVE  IInv'
  <2>1. Holders' = Holders
    BY <1>10, HoldersKept DEF TypeOK, EnsureCreate
  <2>2. TypeOK' /\ ~ fault'
    BY <1>10, <2>1, GroupFacts DEF TypeOK, Pcs, EnsureCreate
  <2>3. CountInv' /\ CreateInv'
    BY <1>10, <2>1, GroupFacts DEF TypeOK, CountInv, CreateInv, EnsureCreate
  <2>4. WaitInv' /\ SignalInv'
    BY <1>10, <2>1, GroupFacts
      DEF TypeOK, CreateInv, WaitInv, SignalInv, DestroyInv, EnsureCreate
  <2>5. DestroyInv' /\ NoLostWakeup'
    BY <1>10, <2>1, GroupFacts, WordFacts
    DEF TypeOK, CreateInv, WaitInv, SignalInv, DestroyInv, NoLostWakeup, EnsureCreate
  <2> QED BY <2>2, <2>3, <2>4, <2>5
<1>11. ASSUME NEW t \in Threads, EnsureStore(t)
      PROVE  IInv'
  <2>1. Holders' = Holders
    BY <1>11, HoldersKept DEF TypeOK, EnsureStore
  <2>2. TypeOK' /\ ~ fault'
    BY <1>11, <2>1, GroupFacts DEF TypeOK, Pcs, EnsureStore
  <2>3. CountInv' /\ CreateInv'
    BY <1>11, <2>1, GroupFacts DEF TypeOK, CountInv, CreateInv, EnsureStore
  <2>4. WaitInv' /\ SignalInv'
    BY <1>11, <2>1, GroupFacts
      DEF TypeOK, CreateInv, WaitInv, SignalInv, DestroyInv, EnsureStore
  <2>5. DestroyInv' /\ NoLostWakeup'
    BY <1>11, <2>1, GroupFacts
      DEF TypeOK, CreateInv, WaitInv, SignalInv, DestroyInv, NoLostWakeup, EnsureStore
  <2> QED BY <2>2, <2>3, <2>4, <2>5
<1>12. ASSUME NEW t \in Threads, EnsureSpin(t)
      PROVE  IInv'
  <2>1. Holders' = Holders
    BY <1>12, HoldersKept DEF TypeOK, EnsureSpin
  <2>2. TypeOK' /\ ~ fault'
    BY <1>12, <2>1 DEF TypeOK, Pcs, EnsureSpin
  <2>3. CountInv' /\ CreateInv'
    BY <1>12, <2>1 DEF TypeOK, CountInv, CreateInv, EnsureSpin
  <2>4. WaitInv' /\ SignalInv'
    BY <1>12, <2>1 DEF TypeOK, CreateInv, WaitInv, SignalInv, DestroyInv, EnsureSpin
  <2>5. DestroyInv' /\ NoLostWakeup'
    BY <1>12, <2>1
      DEF TypeOK, CreateInv, WaitInv, SignalInv, DestroyInv, NoLostWakeup, EnsureSpin
  <2> QED BY <2>2, <2>3, <2>4, <2>5
<1>13. ASSUME NEW t \in Threads, WaitLoad(t)
      PROVE  IInv'
  <2>1. Holders' = Holders
    BY <1>13, HoldersKept DEF TypeOK, WaitLoad
  <2>2. TypeOK' /\ ~ fault'
    BY <1>13, <2>1 DEF TypeOK, Pcs, WaitLoad
  <2>3. CountInv' /\ CreateInv'
    BY <1>13, <2>1 DEF TypeOK, CountInv, CreateInv, WaitLoad
  <2>4. WaitInv' /\ SignalInv'
    BY <1>13, <2>1 DEF TypeOK, CreateInv, WaitInv, SignalInv, DestroyInv, WaitLoad
  <2>5. DestroyInv' /\ NoLostWakeup'
    BY <1>13, <2>1 DEF TypeOK, CreateInv, WaitInv, SignalInv, DestroyInv, NoLostWakeup, WaitLoad
  <2> QED BY <2>2, <2>3, <2>4, <2>5
<1>14. ASSUME NEW t \in Threads, WaitFollow(t)
      PROVE  IInv'
  <2>1. Holders' = Holders
    BY <1>14, HoldersKept DEF TypeOK, WaitFollow
  <2>2. TypeOK' /\ ~ fault'
    BY <1>14, <2>1, WordFacts DEF TypeOK, Pcs, WaitFollow
  <2>3. CountInv' /\ CreateInv'
    BY <1>14, <2>1 DEF TypeOK, CountInv, CreateInv, WaitFollow
  <2>4. WaitInv' /\ SignalInv'
    BY <1>14, <2>1 DEF TypeOK, CreateInv, WaitInv, SignalInv, DestroyInv, WaitFollow
  <2>5. DestroyInv' /\ NoLostWakeup'
    BY <1>14, <2>1
      DEF TypeOK, CreateInv, WaitInv, SignalInv, DestroyInv, NoLostWakeup, WaitFollow
  <2> QED BY <2>2, <2>3, <2>4, <2>5
<1>15. ASSUME NEW t \in Threads, WaitCas(t)
      PROVE  IInv'
  <2>1. CASE /\ counter = val[t]
            /\ counter' = val[t] + ACTIVE
            /\ Goto(t, AfterClose(val[t]))
            /\ See(t, 0)
            /\ stage' = "rundown"
            /\ UNCHANGED <<eg, group, handle, fault>>
    <3>1. pc[t] = "w_cas" /\ counter \in Word /\ ~ IsActive(counter)
      BY <1>15, <2>1 DEF TypeOK, WaitCas
    <3>2. /\ counter' \in Word
          /\ counter # ACTIVE
          /\ IsActive(counter')
          /\ (counter' = ACTIVE <=> Refs(counter) = 0)
      BY <2>1, <3>1, WordFacts
    <3>3. pc' = [pc EXCEPT ![t] = IF counter' = ACTIVE THEN "w_set" ELSE "w_block"]
      BY <2>1, <3>2 DEF AfterClose
    <3>4. Holders' = Holders /\ Refs(counter') = Refs(counter)
      BY <2>1, <3>1, <3>3, WordFacts DEF TypeOK, Holders
    <3>5. TypeOK' /\ ~ fault'
      BY <1>15, <2>1, <3>1, <3>2, <3>3, <3>4, WordFacts DEF TypeOK, Pcs, AfterClose
    <3>6. CountInv' /\ CreateInv'
      BY <1>15, <2>1, <3>1, <3>2, <3>3, <3>4 DEF TypeOK, CountInv, CreateInv, AfterClose
    <3>7. WaitInv' /\ SignalInv'
      BY <1>15, <2>1, <3>1, <3>2, <3>3, <3>4
        DEF TypeOK, CreateInv, WaitInv, SignalInv, DestroyInv, AfterClose
    <3>8. DestroyInv' /\ NoLostWakeup'
      BY <1>15, <2>1, <3>1, <3>2, <3>3, <3>4
        DEF TypeOK, CreateInv, WaitInv, SignalInv, DestroyInv, NoLostWakeup, AfterClose
    <3> QED BY <3>5, <3>6, <3>7, <3>8
  <2>2. CASE Retry(t)
    BY <2>2, RetryInv
  <2> QED BY <1>15, <2>1, <2>2 DEF WaitCas
<1>16. ASSUME NEW t \in Threads, WaitSet(t)
      PROVE  IInv'
  <2>1. Holders' = Holders
    BY <1>16, HoldersKept DEF TypeOK, WaitSet, Finish
  <2>2. eg = GROUP /\ group.live /\ handle[t] = GROUP
    BY <1>16 DEF TypeOK, CreateInv, WaitInv, SignalInv, WaitSet, Finish
  <2>3. group' \in Groups({DONE}) /\ group'.live /\ DONE \in group'.bits /\ fault' = fault
    BY <1>16, <2>2, SetDoneFacts DEF TypeOK, WaitSet, Finish
  <2>4. TypeOK' /\ ~ fault'
    BY <1>16, <2>1, <2>2, <2>3, WordFacts DEF TypeOK, Pcs, WaitSet, Finish
  <2>5. CountInv' /\ CreateInv'
    BY <1>16, <2>1, <2>2, <2>3 DEF TypeOK, CountInv, CreateInv, WaitSet, Finish
  <2>6. WaitInv' /\ SignalInv'
    BY <1>16, <2>1, <2>2, <2>3
      DEF TypeOK, CreateInv, WaitInv, SignalInv, DestroyInv, WaitSet, Finish
  <2>7. DestroyInv' /\ NoLostWakeup'
    BY <1>16, <2>1, <2>2, <2>3
      DEF TypeOK, CreateInv, WaitInv, SignalInv, DestroyInv, NoLostWakeup, WaitSet, Finish
  <2> QED BY <2>4, <2>5, <2>6, <2>7
<1>17. ASSUME NEW t \in Threads, WaitBlock(t)
      PROVE  IInv'
  <2>1. Holders' = Holders
    BY <1>17, HoldersKept DEF TypeOK, WaitBlock, Finish
  <2>2. eg = GROUP /\ group.live /\ handle[t] = GROUP
    BY <1>17 DEF TypeOK, CreateInv, WaitInv, WaitBlock, Finish
  <2>3. fault' = fault /\ DONE \in group.bits
    BY <1>17, <2>2 DEF TypeOK, Usable, WaitBlock, Finish
  <2>4. TypeOK' /\ ~ fault'
    BY <1>17, <2>1, <2>2, <2>3, WordFacts DEF TypeOK, Pcs, WaitBlock, Finish
  <2>5. CountInv' /\ CreateInv'
    BY <1>17, <2>1, <2>2, <2>3 DEF TypeOK, CountInv, CreateInv, WaitBlock, Finish
  <2>6. WaitInv' /\ SignalInv'
    BY <1>17, <2>1, <2>2, <2>3
      DEF TypeOK, CreateInv, WaitInv, SignalInv, DestroyInv, WaitBlock, Finish
  <2>7. DestroyInv' /\ NoLostWakeup'
    BY <1>17, <2>1, <2>2, <2>3
      DEF TypeOK, CreateInv, WaitInv, SignalInv, DestroyInv, NoLostWakeup, WaitBlock, Finish
  <2> QED BY <2>4, <2>5, <2>6, <2>7
<1>18. ASSUME NEW t \in Threads, Leave(t)
      PROVE  IInv'
  <2>1. Holders' = Holders
    BY <1>18, HoldersKept DEF TypeOK, Leave
  <2>2. TypeOK' /\ ~ fault'
    BY <1>18, <2>1 DEF TypeOK, Pcs, Leave
  <2>3. CountInv' /\ CreateInv'
    BY <1>18, <2>1 DEF TypeOK, CountInv, CreateInv, Leave
  <2>4. WaitInv' /\ SignalInv'
    BY <1>18, <2>1 DEF TypeOK, CreateInv, WaitInv, SignalInv, DestroyInv, Leave
  <2>5. DestroyInv' /\ NoLostWakeup'
    BY <1>18, <2>1 DEF TypeOK, CreateInv, WaitInv, SignalInv, DestroyInv, NoLostWakeup, Leave
  <2> QED BY <2>2, <2>3, <2>4, <2>5
<1>19. ASSUME NEW t \in Threads, Destroy(t)
      PROVE  IInv'
  <2>1. Holders' = Holders
    BY <1>19, HoldersKept DEF TypeOK, Destroy
  <2>2. TypeOK' /\ ~ fault'
    BY <1>19, <2>1 DEF TypeOK, Pcs, Destroy
  <2>3. CountInv' /\ CreateInv'
    BY <1>19, <2>1 DEF TypeOK, CountInv, CreateInv, Destroy
  <2>4. WaitInv' /\ SignalInv'
    BY <1>19, <2>1 DEF TypeOK, CreateInv, WaitInv, SignalInv, DestroyInv, Destroy
  <2>5. DestroyInv' /\ NoLostWakeup'
    BY <1>19, <2>1 DEF TypeOK, CreateInv, WaitInv, SignalInv, DestroyInv, NoLostWakeup, Destroy
  <2> QED BY <2>2, <2>3, <2>4, <2>5
<1>20. ASSUME NEW t \in Threads, DestroyDelete(t)
      PROVE  IInv'
  <2>1. Holders' = Holders
    BY <1>20, HoldersKept DEF TypeOK, DestroyDelete, Usable
  <2>2. TypeOK' /\ ~ fault'
    BY <1>20, <2>1, GroupFacts DEF TypeOK, Pcs, DestroyInv, DestroyDelete, Usable
  <2>3. CountInv' /\ CreateInv'
    BY <1>20, <2>1, GroupFacts
      DEF TypeOK, CountInv, CreateInv, DestroyInv, DestroyDelete, Usable
  <2>4. WaitInv' /\ SignalInv'
    BY <1>20, <2>1, GroupFacts
      DEF TypeOK, CreateInv, WaitInv, SignalInv, DestroyInv, DestroyDelete, Usable
  <2>5. DestroyInv' /\ NoLostWakeup'
    BY <1>20, <2>1, GroupFacts
      DEF TypeOK, CreateInv, WaitInv, SignalInv, DestroyInv, NoLostWakeup, DestroyDelete, Usable
  <2> QED BY <2>2, <2>3, <2>4, <2>5
<1>21. ASSUME NEW t \in Threads, DestroyReset(t)
      PROVE  IInv'
  <2>1. Holders' = Holders
    BY <1>21, HoldersKept DEF TypeOK, DestroyReset, Finish
  <2>2. TypeOK' /\ ~ fault'
    BY <1>21, <2>1, GroupFacts, WordFacts DEF TypeOK, Pcs, DestroyInv, DestroyReset, Finish
  <2>3. CountInv' /\ CreateInv'
    BY <1>21, <2>1, GroupFacts, WordFacts
      DEF TypeOK, CountInv, CreateInv, SignalInv, DestroyInv, DestroyReset, Finish
  <2>4. WaitInv' /\ SignalInv'
    BY <1>21, <2>1, GroupFacts, WordFacts
      DEF TypeOK, CreateInv, WaitInv, SignalInv, DestroyInv, DestroyReset, Finish
  <2>5. DestroyInv' /\ NoLostWakeup'
    BY <1>21, <2>1, GroupFacts, WordFacts
      DEF TypeOK, CreateInv, WaitInv, SignalInv, DestroyInv, NoLostWakeup, DestroyReset, Finish
  <2> QED BY <2>2, <2>3, <2>4, <2>5
<1>22. CASE UNCHANGED vars
  BY <1>22
    DEF vars, TypeOK, CountInv, CreateInv, WaitInv, SignalInv, DestroyInv, NoLostWakeup, Holders
<1> QED BY <1>1, <1>2, <1>3, <1>4, <1>5, <1>6, <1>7, <1>8, <1>9, <1>10, <1>11, <1>12, <1>13,
    <1>14, <1>15, <1>16, <1>17, <1>18, <1>19, <1>20, <1>21, <1>22 DEF Next, Progress

LEMMA Invariance == Spec => []IInv
  BY InitInv, NextInv, PTL DEF Spec

-----------------------------------------------------------------------------
(* Theorems *)

\* The variables keep their types; in particular no interleaving of acquires and
\* releases carries the count into the flag bit or below zero.
THEOREM TypeCorrect == Spec => []TypeOK
<1>1. IInv => TypeOK
  BY DEF IInv
<1> QED BY <1>1, Invariance, PTL

\* Between the return of a wait and the end of the destruction nobody holds a
\* reference: teardown is safe, for any number of users and waiters.
THEOREM RundownSafe == Spec => []RundownGuarantee
<1>1. IInv => RundownGuarantee
  BY WordFacts, HolderCounted
  DEF IInv, CountInv, WaitInv, SignalInv, DestroyInv, RundownGuarantee
<1> QED BY <1>1, Invariance, PTL

\* The word counts the users exactly, and the assertion in rundownProtRelease
\* does not fire for a user that releases what it acquired.
THEOREM CountExact == Spec => []CountsHolders
<1>1. IInv => CountsHolders
  BY DEF IInv, CountInv, CountsHolders
<1> QED BY <1>1, Invariance, PTL

\* No event group call is made on a null handle or a deleted group.
THEOREM GroupUseSafe == Spec => []NoDeadGroupUse
<1>1. IInv => NoDeadGroupUse
  BY DEF IInv, NoDeadGroupUse
<1> QED BY <1>1, Invariance, PTL

\* The signal of the last user is never lost: it is there or about to be given.
THEOREM SignalNotLost == Spec => []NoLostWakeup
<1>1. IInv => NoLostWakeup
  BY DEF IInv
<1> QED BY <1>1, Invariance, PTL

-----------------------------------------------------------------------------
(* The object implements the abstract gate *)

Returned == {t \in Threads : pc[t] \in {"waited"} \cup DestroyPcs}

\* What the gate shows of a state.
LEMMA PhaseValue ==
  /\ ~ NoDestroyRunning => gatePhase = "closed"
  /\ NoDestroyRunning /\ ~ IsActive(counter) => gatePhase = "open"
  /\ NoDestroyRunning /\ IsActive(counter) =>
       gatePhase = IF DONE \in group.bits THEN "closed" ELSE "closing"
  BY DEF gatePhase

\* A step that leaves alone what the gate shows.
LEMMA GateStutter ==
  ASSUME Holders' = Holders, Returned' = Returned, gatePhase' = gatePhase
  PROVE  UNCHANGED Gate!gateVars
  BY DEF Gate!gateVars, Returned

\* The steps inside a call, none of which the gate shows.
LEMMA QuietStep ==
  ASSUME IInv, NEW t \in Threads, NEW l, Goto(t, l),
         pc[t] \in HoldPcs <=> l \in HoldPcs,
         pc[t] \notin {"waited"} \cup DestroyPcs,
         l \notin {"waited"} \cup DestroyPcs,
         UNCHANGED counter, group' = group \/ ~ IsActive(counter)
  PROVE  UNCHANGED Gate!gateVars
<1> USE DEF IInv, TypeOK
<1>1. Holders' = Holders
  BY HoldersKept
<1>2. Returned' = Returned
  BY DEF Returned, Goto
<1>3. NoDestroyRunning' = NoDestroyRunning
  BY DEF NoDestroyRunning, Goto
<1>4. gatePhase' = gatePhase
  BY <1>3 DEF gatePhase
<1> QED BY <1>1, <1>2, <1>4, GateStutter

LEMMA RetryQuiet ==
  ASSUME NEW t \in Threads, Retry(t)
  PROVE  UNCHANGED Gate!gateVars
  BY GateStutter DEF Retry, Holders, Returned, gatePhase, NoDestroyRunning

LEMMA InitGate == Init => Gate!Init
<1> SUFFICES ASSUME Init PROVE Gate!Init
  OBVIOUS
<1>1. NoDestroyRunning /\ ~ IsActive(counter)
  BY WordFacts DEF Init, NoDestroyRunning, DestroyPcs
<1> QED BY <1>1, PhaseValue DEF Init, Gate!Init, Holders, HoldPcs, DestroyPcs

\* One proof step per action of the specification.
LEMMA NextGate == IInv /\ IInv' /\ [Next]_vars => [Gate!Next]_(Gate!gateVars)
<1> SUFFICES ASSUME IInv, IInv', [Next]_vars
             PROVE  Gate!Next \/ UNCHANGED Gate!gateVars
  OBVIOUS
<1> USE DEF HoldPcs, SignalPcs, EnsurePcs, WaitPcs, DestroyPcs, Goto
<1>1. ASSUME NEW t \in Threads, Acquire(t)
      PROVE  Gate!Next \/ UNCHANGED Gate!gateVars
  BY <1>1, QuietStep DEF Acquire
<1>2. ASSUME NEW t \in Threads, AcquireRefuse(t)
      PROVE  Gate!Next \/ UNCHANGED Gate!gateVars
  BY <1>2, QuietStep DEF AcquireRefuse, Finish
<1>3. ASSUME NEW t \in Threads, AcquireCas(t)
      PROVE  Gate!Next \/ UNCHANGED Gate!gateVars
  <2>1. CASE /\ counter = val[t]
            /\ counter' = val[t] + 1
            /\ Finish(t, "held")
            /\ UNCHANGED <<eg, group, fault, stage>>
    <3>1. t \notin Holders /\ Holders' = Holders \cup {t} /\ Returned' = Returned
      BY <1>3, <2>1 DEF IInv, TypeOK, AcquireCas, Finish, Holders, Returned
    <3>2. ~ IsActive(counter) /\ ~ IsActive(counter')
      BY <1>3, <2>1, WordFacts DEF IInv, TypeOK, AcquireCas
    <3>3. NoDestroyRunning /\ NoDestroyRunning'
      BY <1>3, <3>2, <2>1, WordFacts
      DEF IInv, TypeOK, DestroyInv, NoDestroyRunning, Finish, AcquireCas
    <3> QED BY <3>1, <3>2, <3>3 DEF Gate!Next, Gate!Acquire, gatePhase, Returned
  <2> QED BY <1>3, <2>1, RetryQuiet DEF AcquireCas
<1>4. ASSUME NEW t \in Threads, Release(t)
      PROVE  Gate!Next \/ UNCHANGED Gate!gateVars
  BY <1>4, QuietStep DEF Release
<1>5. ASSUME NEW t \in Threads, ReleaseCas(t)
      PROVE  Gate!Next \/ UNCHANGED Gate!gateVars
  <2>1. CASE /\ counter = val[t]
            /\ counter' = AfterRelease(val[t])
            /\ Finish(t, IF LastOut(AfterRelease(val[t])) THEN "rel_eg" ELSE "idle")
            /\ UNCHANGED <<eg, group, fault, stage>>
    <3>1. PICK l \in {"rel_eg", "idle"} : Finish(t, l)
      BY <2>1
    <3>2. t \in Holders /\ Holders' = Holders \ {t} /\ Returned' = Returned
      BY <1>5, <3>1 DEF IInv, TypeOK, ReleaseCas, Finish, Holders, Returned
    <3>3. IsActive(counter') <=> IsActive(counter)
      BY <1>5, <2>1, WordFacts DEF IInv, TypeOK, CountInv, ReleaseCas
    <3>4. gatePhase' = gatePhase
      <4>1. NoDestroyRunning' = NoDestroyRunning
        BY <1>5, <3>1 DEF IInv, TypeOK, NoDestroyRunning, Finish, ReleaseCas
      <4> QED BY <2>1, <3>3, <4>1 DEF gatePhase
    <3> QED BY <3>2, <3>4 DEF Gate!Next, Gate!Release, Returned
  <2> QED BY <1>5, <2>1, RetryQuiet DEF ReleaseCas, IInv, CountInv
<1>6. ASSUME NEW t \in Threads, ReleaseLoadGroup(t)
      PROVE  Gate!Next \/ UNCHANGED Gate!gateVars
  BY <1>6, QuietStep DEF ReleaseLoadGroup
<1>7. ASSUME NEW t \in Threads, ReleaseSet(t)
      PROVE  Gate!Next \/ UNCHANGED Gate!gateVars
  <2>1. Holders' = Holders /\ Returned' = Returned
    BY <1>7 DEF IInv, TypeOK, ReleaseSet, Finish, Holders, Returned
  <2>2. /\ group.live /\ handle[t] = GROUP
        /\ counter = ACTIVE /\ DONE \notin group.bits
        /\ NoDestroyRunning /\ NoDestroyRunning'
    BY <1>7
    DEF IInv, TypeOK, CreateInv, WaitInv, ReadyPcs, SignalInv, DestroyInv, NoDestroyRunning,
        ReleaseSet, Finish
  <2>3. Holders = {} /\ IsActive(counter) /\ UNCHANGED counter
    BY <1>7, <2>2, WordFacts, HolderCounted DEF IInv, CountInv, ReleaseSet
  <2>4. DONE \in group'.bits
    BY <1>7, <2>2, SetDoneFacts DEF IInv, TypeOK, ReleaseSet
  <2> QED BY <2>1, <2>2, <2>3, <2>4 DEF Gate!Next, Gate!Complete, gatePhase, Returned
<1>8. ASSUME NEW t \in Threads, Wait(t)
      PROVE  Gate!Next \/ UNCHANGED Gate!gateVars
  <2>1. PICK l \in {"w_load", "ens_cas"} : Goto(t, l)
    BY <1>8 DEF Wait
  <2> QED BY <1>8, <2>1, QuietStep DEF Wait
<1>9. ASSUME NEW t \in Threads, EnsureCas(t)
      PROVE  Gate!Next \/ UNCHANGED Gate!gateVars
  <2>1. PICK l \in {"ens_create", "ens_spin"} : Goto(t, l)
    BY <1>9 DEF EnsureCas
  <2> QED BY <1>9, <2>1, QuietStep DEF EnsureCas
<1>10. ASSUME NEW t \in Threads, EnsureCreate(t)
      PROVE  Gate!Next \/ UNCHANGED Gate!gateVars
  BY <1>10, QuietStep
  DEF EnsureCreate, IInv, CreateInv, WaitInv, DestroyInv, NoDestroyRunning, CREATING, GROUP, NULL
<1>11. ASSUME NEW t \in Threads, EnsureStore(t)
      PROVE  Gate!Next \/ UNCHANGED Gate!gateVars
  BY <1>11, QuietStep DEF EnsureStore
<1>12. ASSUME NEW t \in Threads, EnsureSpin(t)
      PROVE  Gate!Next \/ UNCHANGED Gate!gateVars
  BY <1>12, QuietStep DEF EnsureSpin
<1>13. ASSUME NEW t \in Threads, WaitLoad(t)
      PROVE  Gate!Next \/ UNCHANGED Gate!gateVars
  BY <1>13, QuietStep DEF WaitLoad
<1>14. ASSUME NEW t \in Threads, WaitFollow(t)
      PROVE  Gate!Next \/ UNCHANGED Gate!gateVars
  BY <1>14, QuietStep DEF WaitFollow
<1>15. ASSUME NEW t \in Threads, WaitCas(t)
      PROVE  Gate!Next \/ UNCHANGED Gate!gateVars
  <2>1. CASE /\ counter = val[t]
            /\ counter' = val[t] + ACTIVE
            /\ Goto(t, AfterClose(val[t]))
            /\ UNCHANGED group
    <3>1. PICK l \in {"w_set", "w_block"} : Goto(t, l)
      BY <2>1 DEF AfterClose
    <3>2. Holders' = Holders /\ Returned' = Returned
      BY <1>15, <3>1 DEF IInv, TypeOK, WaitCas, Holders, Returned
    <3>3. ~ IsActive(counter) /\ IsActive(counter') /\ counter # ACTIVE /\ eg = GROUP
      BY <1>15, <2>1, WordFacts DEF IInv, TypeOK, WaitInv, ReadyPcs, WaitCas
    <3>4. NoDestroyRunning /\ NoDestroyRunning' /\ DONE \notin group'.bits
      BY <1>15, <2>1, <3>1, <3>3 DEF IInv, TypeOK, SignalInv, DestroyInv, NoDestroyRunning, WaitCas
    <3> QED BY <3>2, <3>3, <3>4 DEF Gate!Next, Gate!Close, gatePhase, Returned
  <2> QED BY <1>15, <2>1, RetryQuiet DEF WaitCas
<1>16. ASSUME NEW t \in Threads, WaitSet(t)
      PROVE  Gate!Next \/ UNCHANGED Gate!gateVars
  <2>1. Holders' = Holders /\ Returned' = Returned \cup {t}
    BY <1>16 DEF IInv, TypeOK, WaitSet, Finish, Holders, Returned
  <2>2. /\ group.live /\ handle[t] = GROUP
        /\ counter = ACTIVE /\ DONE \notin group.bits
        /\ NoDestroyRunning /\ NoDestroyRunning'
    BY <1>16
    DEF IInv, TypeOK, CreateInv, WaitInv, ReadyPcs, SignalInv, DestroyInv, NoDestroyRunning,
        WaitSet, Finish
  <2>3. Holders = {} /\ IsActive(counter) /\ UNCHANGED counter
    BY <1>16, <2>2, WordFacts, HolderCounted DEF IInv, CountInv, WaitSet
  <2>4. DONE \in group'.bits
    BY <1>16, <2>2, SetDoneFacts DEF IInv, TypeOK, WaitSet
  <2> QED BY <2>1, <2>2, <2>3, <2>4 DEF Gate!Next, Gate!CompleteAndReturn, gatePhase, Returned
<1>17. ASSUME NEW t \in Threads, WaitBlock(t)
      PROVE  Gate!Next \/ UNCHANGED Gate!gateVars
  <2>1. Holders' = Holders /\ Returned' = Returned \cup {t}
    BY <1>17 DEF IInv, TypeOK, WaitBlock, Finish, Holders, Returned
  <2>2. eg = GROUP /\ handle[t] = GROUP /\ group.live /\ NoDestroyRunning /\ NoDestroyRunning'
    BY <1>17 DEF IInv, TypeOK, CreateInv, WaitInv, ReadyPcs, DestroyInv, NoDestroyRunning,
               WaitBlock, Finish, NULL, GROUP
  <2>3. DONE \in group.bits /\ counter = ACTIVE /\ UNCHANGED <<counter, group>>
    BY <1>17, <2>2 DEF IInv, SignalInv, Usable, WaitBlock
  <2> QED BY <2>1, <2>2, <2>3, WordFacts DEF Gate!Next, Gate!Return, gatePhase, Returned
<1>18. ASSUME NEW t \in Threads, Leave(t)
      PROVE  Gate!Next \/ UNCHANGED Gate!gateVars
  <2>1. Holders' = Holders /\ Returned' = Returned \ {t}
    BY <1>18 DEF IInv, TypeOK, Leave, Holders, Returned
  <2>2. NoDestroyRunning' = NoDestroyRunning /\ UNCHANGED <<counter, group>>
    BY <1>18 DEF IInv, TypeOK, NoDestroyRunning, Leave
  <2> QED BY <2>1, <2>2 DEF Gate!Next, Gate!Leave, gatePhase, Returned
<1>19. ASSUME NEW t \in Threads, Destroy(t)
      PROVE  Gate!Next \/ UNCHANGED Gate!gateVars
  <2>1. Holders' = Holders /\ Returned' = Returned
    BY <1>19 DEF IInv, TypeOK, Destroy, Holders, Returned
  <2>2. NoDestroyRunning /\ ~ NoDestroyRunning' /\ DONE \in group.bits /\ IsActive(counter)
    BY <1>19, WordFacts DEF IInv, TypeOK, WaitInv, SignalInv, NoDestroyRunning, Destroy
  <2> QED BY <2>1, <2>2, GateStutter DEF gatePhase
<1>20. ASSUME NEW t \in Threads, DestroyDelete(t)
      PROVE  Gate!Next \/ UNCHANGED Gate!gateVars
  <2>1. Holders' = Holders /\ Returned' = Returned
    BY <1>20 DEF IInv, TypeOK, DestroyDelete, Holders, Returned
  <2>2. ~ NoDestroyRunning /\ ~ NoDestroyRunning'
    BY <1>20 DEF IInv, TypeOK, NoDestroyRunning, DestroyDelete
  <2> QED BY <2>1, <2>2, GateStutter DEF gatePhase
<1>21. ASSUME NEW t \in Threads, DestroyReset(t)
      PROVE  Gate!Next \/ UNCHANGED Gate!gateVars
  <2>1. Holders' = Holders /\ Returned = {t} /\ Returned' = {}
    BY <1>21 DEF IInv, TypeOK, DestroyInv, DestroyReset, Finish, Holders, Returned
  <2>2. ~ NoDestroyRunning /\ NoDestroyRunning' /\ ~ IsActive(counter')
    BY <1>21, WordFacts DEF IInv, TypeOK, DestroyInv, NoDestroyRunning, DestroyReset, Finish
  <2> QED BY <2>1, <2>2 DEF Gate!Next, Gate!Reopen, gatePhase, Returned
<1>22. CASE UNCHANGED vars
  BY <1>22, GateStutter DEF vars, Holders, Returned, gatePhase, NoDestroyRunning
<1> QED BY <1>1, <1>2, <1>3, <1>4, <1>5, <1>6, <1>7, <1>8, <1>9, <1>10, <1>11, <1>12,
           <1>13, <1>14, <1>15, <1>16, <1>17, <1>18, <1>19, <1>20, <1>21, <1>22
  DEF Next, Progress

\* The detailed object implements the abstract gate's safety: the first step and
\* every later one is one of the gate or invisible.
THEOREM GateImplemented == Spec => Gate!Safety
<1>1. Spec => []IInv
  BY Invariance
<1> QED BY <1>1, InitGate, NextGate, PTL DEF Spec, Gate!Safety

=============================================================================

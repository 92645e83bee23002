------------------------------ MODULE TaskProofs ------------------------------
(***************************************************************************)
(* The safety of the managed task, for any sets of joining and observing   *)
(* threads and any number of creations, when its users are aware of each   *)
(* other (CarefulUse).  Without that some of the properties that the run   *)
(* checks are false (see the README): taskCreate and taskDetach write      *)
(* fields that others still use.                                           *)
(***************************************************************************)
EXTENDS Task, TLAPS

JoinPcs == {"j_signal", "j_wait", "j_delete", "j_clear"}
RoutinePcs == {"none", "copy", "signal", "fn", "q_wait", "rd_clear", "end", "e_set", "gone"}

TypeOK ==
  /\ RO!TypeOK
  /\ eg \in {NULL, GROUP}
  /\ group \in Groups({CONTINUE, MUST_QUIT, QUIT})
  /\ jpc \in [Joiners -> JoinPcs \cup {"none"}]
  /\ cpc \in CreatePcs \cup {"idle", "det_clear"}
  /\ rpc \in RoutinePcs
  /\ obs \in [Observers -> {"idle", "test", "no"}]
  /\ gen \in Nat /\ managed \in BOOLEAN

\* Whoever has won the runOnce of taskJoin and has not published the end of it.
Runs(t) == opc[t] \in {"callback", "publish"}

\* The word of runOnce: one thread at a time runs the callback, and the steps of
\* taskJoin's callback are taken by that thread.
WordInv ==
  /\ \A t \in Joiners : Runs(t) => once = RO!Running
  /\ \A t, u \in Joiners : Runs(t) /\ Runs(u) => t = u
  /\ \A t \in Joiners : opc[t] = "returned" => once = RO!Finished
  /\ \A t \in Joiners : jpc[t] \in JoinPcs <=> opc[t] = "callback"
  /\ once = RO!NotStarted => runs = 0

\* What the care of the users amounts to: creating, detaching, joining and
\* observing exclude each other, but for the joiners that only poll.
AloneInv ==
  /\ cpc # "idle" => NoJoin /\ NoObserve /\ rpc # "rd_clear"
  /\ rpc = "rd_clear" => NoJoin /\ NoObserve
  /\ NoObserve \/ NoJoin

\* Between the deletion of the group and the assignment of the null handle.
Clearing ==
  cpc = "det_clear" \/ rpc = "rd_clear" \/ \E t \in Joiners : jpc[t] = "j_clear"

\* The handle tells whether there is a group, except while it is being cleared;
\* and whoever is between two uses of the group still has one.
GroupInv ==
  /\ eg = NULL => ~ group.live
  /\ eg = GROUP => (group.live <=> ~ Clearing)
  /\ Clearing => eg = GROUP
  /\ cpc = "cr_group" => eg = NULL
  /\ cpc \in CreatePcs \ {"cr_group"} => eg = GROUP
  /\ cpc \in {"cr_group", "cr_spawn"} => RoutineGone
  /\ cpc = "cr_spawn" => group.bits = {}
  /\ cpc = "det_clear" => rpc \in {"fn", "gone"}
  /\ rpc \in {"q_wait", "e_set"} => eg = GROUP
  /\ \A t \in Joiners : jpc[t] \in {"j_wait", "j_delete"} => eg = GROUP
  /\ \A t \in Joiners : jpc[t] \in {"j_delete", "j_clear"} => rpc = "gone"
  /\ \A o \in Observers : obs[o] = "test" => eg = GROUP

\* The bits the routine sets: QUIT is its last access, and taskCreate does not
\* return before CONTINUE.
SignalInv ==
  /\ QUIT \in group.bits => rpc = "gone"
  /\ rpc \in {"copy", "signal"} =>
       cpc \in {"cr_wait", "cr_blocked"} /\ CONTINUE \notin group.bits

\* A managed routine that is not gone has its group, so nobody has finished a join
\* of it, or been told that it is gone.
ExitInv ==
  /\ managed /\ rpc # "gone" => eg = GROUP /\ group.live
  /\ cpc \in {"cr_group", "cr_spawn"} => ~ managed
  /\ cpc \in CreatePcs => once = RO!NotStarted /\ \A o \in Observers : obs[o] = "idle"
  /\ managed /\ (once = RO!Finished \/ \E t \in Joiners : opc[t] = "publish") => rpc = "gone"
  /\ NotRunningMeansExited

IInv ==
  TypeOK /\ WordInv /\ AloneInv /\ GroupInv /\ SignalInv /\ ExitInv /\ NothingDeadUsed

-----------------------------------------------------------------------------

\* The event group keeps its type.
LEMMA GroupType ==
  /\ NoGroup \in Groups({CONTINUE, MUST_QUIT, QUIT})
  /\ NewGroup \in Groups({CONTINUE, MUST_QUIT, QUIT})
  /\ \A g \in Groups({CONTINUE, MUST_QUIT, QUIT}), b \in {CONTINUE, MUST_QUIT, QUIT} :
       /\ WithBit(g, b) \in Groups({CONTINUE, MUST_QUIT, QUIT})
       /\ WithBit(g, b).live = g.live
       /\ WithBit(g, b).bits = g.bits \cup {b}
  BY DEF Groups, NoGroup, NewGroup, WithBit

LEMMA InitInv == Init => IInv
<1> SUFFICES ASSUME Init
             PROVE  IInv
  OBVIOUS
<1> USE DEF Init, RO!Init
<1>1. TypeOK
  BY GroupType DEF TypeOK, RO!TypeOK, RO!OutOfCall, RoutinePcs
<1>2. WordInv
  BY DEF WordInv, Runs, JoinPcs
<1>3. AloneInv
  BY DEF AloneInv, NoJoin, NoObserve
<1>4. GroupInv /\ SignalInv
  BY DEF GroupInv, SignalInv, Clearing, CreatePcs, NULL, GROUP, NoGroup
<1>5. ExitInv /\ NothingDeadUsed
  BY DEF ExitInv, NotRunningMeansExited, NothingDeadUsed, CreatePcs
<1> QED BY <1>1, <1>2, <1>3, <1>4, <1>5 DEF IInv

\* taskCreate begins: the marks of the calls that are over are taken away.
LEMMA CreateType ==
  ASSUME CarefulUse, TypeOK, Create
  PROVE  TypeOK'
<1>1. once' = RO!NotStarted /\ runs' = 0 /\ gen' = gen + 1 /\ managed' = FALSE
  BY DEF Create, Reset, RO!runOnceInit
<1>2. /\ opc' \in [Joiners -> RO!OutOfCall \cup RO!InCall]
      /\ obs' \in [Observers -> {"idle", "test", "no"}]
  BY DEF Create, TypeOK, RO!TypeOK, RO!OutOfCall
<1>3. cpc' = "cr_group" /\ UNCHANGED <<eg, group, jpc, rpc>>
  BY DEF Create
<1>4. RO!TypeOK'
  BY <1>1, <1>2 DEF RO!TypeOK
<1>5. gen' \in Nat
  BY <1>1 DEF TypeOK
<1>6. /\ eg' \in {NULL, GROUP} /\ group' \in Groups({CONTINUE, MUST_QUIT, QUIT})
      /\ jpc' \in [Joiners -> JoinPcs \cup {"none"}] /\ rpc' \in RoutinePcs
  BY <1>3 DEF TypeOK
<1>7. cpc' \in CreatePcs /\ managed' \in BOOLEAN
  BY <1>1, <1>3 DEF CreatePcs
<1> QED BY <1>2, <1>4, <1>5, <1>6, <1>7 DEF TypeOK

\* One proof step per action of the specification.
LEMMA NextInv == CarefulUse /\ IInv /\ [Next]_vars => IInv'
<1> SUFFICES ASSUME CarefulUse, IInv, [Next]_vars
             PROVE  IInv'
  OBVIOUS
<1> USE GroupType DEF IInv, TypeOK, RO!TypeOK, WordInv, Runs, AloneInv, NoJoin, NoObserve,
      GroupInv, Clearing, SignalInv, ExitInv, NotRunningMeansExited, NothingDeadUsed,
      JoinPcs, RoutinePcs, CreatePcs, RoutineGone, onceVars, NULL, GROUP,
      RO!OutOfCall, RO!InCall, RO!NotStarted, RO!Running, RO!Finished
<1>1. CASE Create
  <2>1. /\ \A t \in Joiners : opc[t] \in {"out", "returned", "spin"}
        /\ opc' = [t \in Joiners |-> IF opc[t] = "returned" THEN "out" ELSE opc[t]]
    BY <1>1 DEF Create
  <2>2. once' = RO!NotStarted /\ runs' = 0
    BY <1>1 DEF Create, Reset, RO!runOnceInit
  <2>3. TypeOK'
    BY <1>1, CreateType DEF IInv
  <2>4. WordInv'
    BY <1>1, <2>1, <2>2 DEF Create
  <2>5. AloneInv' /\ GroupInv' /\ SignalInv' /\ ExitInv' /\ NothingDeadUsed'
    BY <1>1, <2>1, <2>2 DEF Create
  <2> QED BY <2>3, <2>4, <2>5
<1>2. CASE CreateGroup
  BY <1>2 DEF CreateGroup, NewGroup, CONTINUE, QUIT
<1>3. CASE Spawn
  BY <1>3 DEF Spawn, AfterSpawn, CONTINUE, QUIT
<1>4. CASE SpawnFails
  BY <1>4 DEF SpawnFails, DeleteGroup, UseGroup, FaultIf, Usable, NoGroup, CONTINUE, QUIT
<1>5. CASE CreateWait
  BY <1>5 DEF CreateWait, UseGroup, FaultIf, Usable
<1>6. CASE CreateWake
  BY <1>6 DEF CreateWake
<1>7. CASE Detach
  BY <1>7, ZenonT(60) DEF Detach, MayDetach, DeleteGroup, UseGroup, FaultIf, Usable, NoGroup
<1>8. CASE DetachClear
  BY <1>8 DEF DetachClear
<1>9. ASSUME NEW t \in Joiners, Join(t)
      PROVE  IInv'
  BY <1>9 DEF Join, RO!Call, RO!WinCall, RO!JoinCall, RO!LateCall
<1>10. ASSUME NEW t \in Joiners, JoinSignal(t)
      PROVE  IInv'
  BY <1>10 DEF JoinSignal, SetBit, UseGroup, FaultIf, Usable, AskToQuit, CONTINUE, MUST_QUIT,
              QUIT
<1>11. ASSUME NEW t \in Joiners, JoinNothing(t)
      PROVE  IInv'
  BY <1>11 DEF JoinNothing, RO!CallbackReturn
<1>12. ASSUME NEW t \in Joiners, JoinWait(t)
      PROVE  IInv'
  BY <1>12 DEF JoinWait, UseGroup, FaultIf, Usable
<1>13. ASSUME NEW t \in Joiners, JoinDelete(t)
      PROVE  IInv'
  BY <1>13 DEF JoinDelete, DeleteGroup, UseGroup, FaultIf, Usable, NoGroup
<1>14. ASSUME NEW t \in Joiners, JoinClear(t)
      PROVE  IInv'
  BY <1>14 DEF JoinClear, RO!CallbackReturn
<1>15. ASSUME NEW t \in Joiners, JoinReturn(t)
      PROVE  IInv'
  BY <1>15 DEF JoinReturn, RO!Publish, RO!Poll
<1>16. CASE Copy
  BY <1>16 DEF Copy, FaultIf, FrameAlive
<1>17. CASE SignalContinue
  BY <1>17 DEF SignalContinue, SetBit, UseGroup, FaultIf, Usable, StartSignal, CONTINUE,
              MUST_QUIT, QUIT
<1>18. CASE ShouldQuit
  BY <1>18 DEF ShouldQuit
<1>19. CASE ShouldQuitTest
  BY <1>19 DEF ShouldQuitTest, Again, UseGroup, FaultIf, Usable
<1>20. CASE RoutineEnd
  BY <1>20 DEF RoutineEnd
<1>21. CASE RoutineSetQuit
  BY <1>21 DEF RoutineSetQuit, Again, SetBit, UseGroup, FaultIf, Usable, CONTINUE, MUST_QUIT,
              QUIT
<1>22. CASE FnReturns
  BY <1>22 DEF FnReturns
<1>23. CASE SelfDetach
  BY <1>23, ZenonT(60) DEF SelfDetach, MayDetach, DeleteGroup, UseGroup, FaultIf, Usable, NoGroup
<1>24. CASE SelfDetachClear
  BY <1>24 DEF SelfDetachClear
<1>25. ASSUME NEW o \in Observers, IsRunning(o)
      PROVE  IInv'
  BY <1>25 DEF IsRunning
<1>26. ASSUME NEW o \in Observers, IsRunningTest(o)
      PROVE  IInv'
  BY <1>26 DEF IsRunningTest, Again, UseGroup, FaultIf, Usable, RunningBit
<1>27. CASE UNCHANGED vars
  BY <1>27 DEF vars
<1> QED
  BY <1>1, <1>2, <1>3, <1>4, <1>5, <1>6, <1>7, <1>8, <1>9, <1>10, <1>11, <1>12, <1>13, <1>14,
     <1>15, <1>16, <1>17, <1>18, <1>19, <1>20, <1>21, <1>22, <1>23, <1>24, <1>25, <1>26, <1>27,
     ZenonT(60)
     DEF Next, CreateStep, JoinStep, RoutineStep

LEMMA Invariance == ASSUME CarefulUse PROVE Spec => []IInv
  BY InitInv, NextInv, PTL DEF Spec

-----------------------------------------------------------------------------
(* The results *)

\* Whoever comes back from taskJoin, the caller that waited for the routine, one
\* that polled the word of runOnce or a late one, finds the routine of the task
\* past its last access to the Task_t.
THEOREM JoinExited == ASSUME CarefulUse PROVE Spec => []JoinMeansExited
<1>1. IInv => JoinMeansExited
  BY DEF IInv, WordInv, ExitInv, JoinMeansExited
<1> QED BY <1>1, Invariance, PTL

\* taskIsRunning answers false only if the routine is past its last access.
THEOREM NotRunningExited == ASSUME CarefulUse PROVE Spec => []NotRunningMeansExited
<1>1. IInv => NotRunningMeansExited
  BY DEF IInv, ExitInv
<1> QED BY <1>1, Invariance, PTL

\* The routine copies the data on the stack of taskCreate while taskCreate waits
\* for it, and no event group call of task.cpp is made on a null handle or on a
\* group that taskJoin or taskDetach has deleted.
THEOREM OnlyLiveUsed == ASSUME CarefulUse PROVE Spec => []NothingDeadUsed
<1>1. IInv => NothingDeadUsed
  BY DEF IInv
<1> QED BY <1>1, Invariance, PTL

=============================================================================

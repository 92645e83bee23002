--------------------------------- MODULE Task ---------------------------------
(***************************************************************************)
(* The managed task of src/task.cpp: an owner creates a FreeRTOS task,     *)
(* waits until it has copied its start-up data from the owner's stack, and *)
(* later the task is joined (any number of callers, through runOnce) or    *)
(* detached.  An event group in the Task_t carries the signals.            *)
(*                                                                         *)
(* Every event group call is an action of its own, and so is every read of *)
(* the plain field task->eg on which a later call depends; a second read   *)
(* in the same expression may be served from a register (see Again).       *)
(*                                                                         *)
(* How a Task_t is used: it is created when no group is in it and the      *)
(* earlier routine is gone; joins and observations begin outside taskCreate*)
(* and taskDetach; whoever detaches while the routine runs has made sure   *)
(* that the routine's function is not inside taskShouldQuit.  With         *)
(* CarefulUse the callers are also aware of each other (see the uses of    *)
(* CarefulUse): nothing in the API makes that easy.                        *)
(***************************************************************************)
EXTENDS Naturals, FiniteSets, EventGroup

CONSTANTS
  Owner,        \* the thread that creates and detaches
  Joiners,      \* the threads that call taskJoin
  Observers,    \* the threads that call taskIsRunning
  Detachers,    \* who may detach: "owner", "routine" (from inside its function)
  CarefulUse,
  MaxGen        \* bound: how often the Task_t is created

ASSUME TaskConstants ==
  /\ Observers \cap (Joiners \cup {Owner}) = {}
  /\ Detachers \subseteq {"owner", "routine"}
  /\ CarefulUse \in BOOLEAN
  /\ MaxGen \in Nat

VARIABLES
  once, opc, runs,   \* task->once and its callers (module RunOnce)
  eg,                \* task->eg
  group,             \* task->eventGroupBuffer
  jpc,               \* the joiner that runs the callback: where it is
  cpc,               \* the owner: in taskCreate or taskDetach
  rpc,               \* the routine
  obs,               \* the observers; "no" remembers that the answer was false
  gen,               \* how often taskCreate has been called
  managed,           \* history: created, and not detached since
  fault              \* history: "group", "frame": use of what does not exist

onceVars == <<once, opc, runs>>
vars == <<onceVars, eg, group, jpc, cpc, rpc, obs, gen, managed, fault>>

RO == INSTANCE RunOnce WITH Callers <- Joiners

CONTINUE  == "SIGNAL_BIT_CONTINUE"
MUST_QUIT == "SIGNAL_BIT_MUST_QUIT"
QUIT      == "SIGNAL_BIT_QUIT"

CreatePcs == {"cr_group", "cr_spawn", "cr_wait", "cr_blocked"}

\* The data of taskCreate lives on the owner's stack.
FrameAlive == cpc \in CreatePcs
RoutineGone == rpc \in {"none", "gone"}

\* taskInit
Init ==
  /\ RO!Init
  /\ eg = NULL
  /\ group = NoGroup
  /\ jpc = [t \in Joiners |-> "none"]
  /\ cpc = "idle"
  /\ rpc = "none"
  /\ obs = [o \in Observers |-> "idle"]
  /\ gen = 0
  /\ managed = FALSE
  /\ fault = {}

-----------------------------------------------------------------------------
(* Helpers *)

\* What a second read of task->eg gives after a first one that was not null: the
\* value of the first, kept in a register, or the present one.
Again == {GROUP, eg}

FaultIf(p, f) == fault' = IF p THEN fault \cup {f} ELSE fault

UseGroup(h) == FaultIf(~ Usable(h, group), "group")

SetBit(h, b) ==
  /\ UseGroup(h)
  /\ group' = IF Usable(h, group) THEN WithBit(group, b) ELSE group

DeleteGroup(h) ==
  /\ UseGroup(h)
  /\ group' = NoGroup

\* Nobody is at work on the Task_t in taskJoin; those that poll only watch the word.
NoJoin    == \A t \in Joiners : opc[t] \notin {"callback", "publish"}
NoObserve == \A o \in Observers : obs[o] # "test"
OwnerOut  == Owner \in Joiners => opc[Owner] \in RO!OutOfCall

-----------------------------------------------------------------------------
(* Defective variants of definitions below, for the sensitivity checks. *)

JoinWait_NotWaiting(t) ==        \* line 95 dropped
  /\ jpc[t] = "j_wait"
  /\ jpc' = [jpc EXCEPT ![t] = "j_delete"]
  /\ UNCHANGED <<onceVars, eg, group, cpc, rpc, obs, gen, managed, fault>>

AskToQuit_WrongBit == CONTINUE   \* line 92: MUST_QUIT mistaken
RunningBit_WrongBit == CONTINUE  \* line 82: QUIT mistaken

JoinClear_KeepHandle(t) ==       \* line 99 dropped: joined again after the deletion
  /\ jpc[t] = "j_clear"
  /\ jpc' = [jpc EXCEPT ![t] = "none"]
  /\ RO!CallbackReturn(t)
  /\ UNCHANGED <<eg, group, cpc, rpc, obs, gen, managed, fault>>

-----------------------------------------------------------------------------
(* taskCreate; a call with invalid arguments returns before it does anything *)

Reset == RO!runOnceInit

\* The word of runOnce is reset whoever still polls it: the owner knows that its
\* own joins are over, a careful one also that nobody has yet to publish the end
\* of one, but not who polls.
Create ==
  /\ cpc = "idle" /\ OwnerOut
  /\ gen < MaxGen
  /\ eg = NULL /\ RoutineGone
  /\ NoObserve
  /\ \A t \in Joiners : opc[t] # "callback"
  /\ CarefulUse => NoJoin
  /\ Reset
  /\ opc' = [t \in Joiners |-> IF opc[t] = "returned" THEN "out" ELSE opc[t]]
  /\ obs' = [o \in Observers |-> "idle"]
  /\ cpc' = "cr_group"
  /\ gen' = gen + 1
  /\ managed' = FALSE
  /\ UNCHANGED <<eg, group, jpc, rpc, fault>>

CreateGroup ==
  /\ cpc = "cr_group"
  /\ group' = NewGroup
  /\ eg' = GROUP
  /\ cpc' = "cr_spawn"
  /\ UNCHANGED <<onceVars, jpc, rpc, obs, gen, managed, fault>>

AfterSpawn == "cr_wait"

Spawn ==
  /\ cpc = "cr_spawn"
  /\ rpc' = "copy"
  /\ managed' = TRUE
  /\ cpc' = AfterSpawn
  /\ UNCHANGED <<onceVars, eg, group, jpc, obs, gen, fault>>

SpawnFails ==
  /\ cpc = "cr_spawn"
  /\ DeleteGroup(eg)
  /\ eg' = NULL
  /\ cpc' = "idle"
  /\ UNCHANGED <<onceVars, jpc, rpc, obs, gen, managed>>

\* The wait for CONTINUE reads task->eg anew; it may block.
CreateWait ==
  /\ cpc = "cr_wait"
  /\ UseGroup(eg)
  /\ cpc' = IF Usable(eg, group) /\ CONTINUE \notin group.bits THEN "cr_blocked" ELSE "idle"
  /\ UNCHANGED <<onceVars, eg, group, jpc, rpc, obs, gen, managed>>

\* A blocked waiter is also woken by the deletion of the group.
CreateWake ==
  /\ cpc = "cr_blocked"
  /\ CONTINUE \in group.bits \/ ~ group.live
  /\ cpc' = "idle"
  /\ UNCHANGED <<onceVars, eg, group, jpc, rpc, obs, gen, managed, fault>>

CreateStep == CreateGroup \/ Spawn \/ SpawnFails \/ CreateWait \/ CreateWake

-----------------------------------------------------------------------------
(* taskJoin: runOnce with a callback of several steps *)

Join(t) ==
  /\ opc[t] \in RO!OutOfCall
  /\ cpc = "idle" /\ rpc # "rd_clear"
  /\ CarefulUse => NoObserve
  /\ RO!Call(t)
  /\ jpc' = [jpc EXCEPT ![t] = IF opc'[t] = "callback" THEN "j_signal" ELSE "none"]
  /\ UNCHANGED <<eg, group, cpc, rpc, obs, gen, managed, fault>>

AskToQuit == MUST_QUIT

JoinSignal(t) ==
  /\ jpc[t] = "j_signal"
  /\ eg # NULL
  /\ SetBit(eg, AskToQuit)
  /\ jpc' = [jpc EXCEPT ![t] = "j_wait"]
  /\ UNCHANGED <<onceVars, eg, cpc, rpc, obs, gen, managed>>

\* Never created, joined before, or detached: nothing to do.
JoinNothing(t) ==
  /\ jpc[t] = "j_signal"
  /\ eg = NULL
  /\ jpc' = [jpc EXCEPT ![t] = "none"]
  /\ RO!CallbackReturn(t)
  /\ UNCHANGED <<eg, group, cpc, rpc, obs, gen, managed, fault>>

JoinWait(t) ==
  /\ jpc[t] = "j_wait"
  /\ Usable(eg, group) => QUIT \in group.bits
  /\ UseGroup(eg)
  /\ jpc' = [jpc EXCEPT ![t] = "j_delete"]
  /\ UNCHANGED <<onceVars, eg, group, cpc, rpc, obs, gen, managed>>

JoinDelete(t) ==
  /\ jpc[t] = "j_delete"
  /\ DeleteGroup(eg)
  /\ jpc' = [jpc EXCEPT ![t] = "j_clear"]
  /\ UNCHANGED <<onceVars, eg, cpc, rpc, obs, gen, managed>>

JoinClear(t) ==
  /\ jpc[t] = "j_clear"
  /\ eg' = NULL
  /\ jpc' = [jpc EXCEPT ![t] = "none"]
  /\ RO!CallbackReturn(t)
  /\ UNCHANGED <<group, cpc, rpc, obs, gen, managed, fault>>

JoinReturn(t) ==
  /\ RO!Publish(t) \/ RO!Poll(t)
  /\ UNCHANGED <<eg, group, jpc, cpc, rpc, obs, gen, managed, fault>>

JoinStep(t) ==
  \/ JoinSignal(t) \/ JoinNothing(t) \/ JoinWait(t)
  \/ JoinDelete(t) \/ JoinClear(t) \/ JoinReturn(t)

-----------------------------------------------------------------------------
(* taskRoutine, the function it calls, taskSignalContinue and taskShouldQuit *)

Copy ==
  /\ rpc = "copy"
  /\ FaultIf(~ FrameAlive, "frame")
  /\ rpc' = "signal"
  /\ UNCHANGED <<onceVars, eg, group, jpc, cpc, obs, gen, managed>>

StartSignal == CONTINUE

\* taskRoutine calls taskSignalContinue when there are no parameters; otherwise
\* the function does, once it has copied them.
SignalContinue ==
  /\ rpc = "signal"
  /\ SetBit(eg, StartSignal)
  /\ rpc' = "fn"
  /\ UNCHANGED <<onceVars, eg, jpc, cpc, obs, gen, managed>>

\* The function asks; it returns if the answer is true.
ShouldQuit ==
  /\ rpc = "fn"
  /\ cpc # "det_clear"
  /\ rpc' = IF eg = NULL THEN "end" ELSE "q_wait"
  /\ UNCHANGED <<onceVars, eg, group, jpc, cpc, obs, gen, managed, fault>>

ShouldQuitTest ==
  /\ rpc = "q_wait"
  /\ \E h \in Again : UseGroup(h)
  /\ rpc' = IF MUST_QUIT \in group.bits THEN "end" ELSE "fn"
  /\ UNCHANGED <<onceVars, eg, group, jpc, cpc, obs, gen, managed>>

\* The function has done its work.
FnReturns ==
  /\ rpc = "fn"
  /\ CarefulUse => cpc # "det_clear"
  /\ rpc' = "end"
  /\ UNCHANGED <<onceVars, eg, group, jpc, cpc, obs, gen, managed, fault>>

RoutineEnd ==
  /\ rpc = "end"
  /\ rpc' = IF eg = NULL THEN "gone" ELSE "e_set"
  /\ UNCHANGED <<onceVars, eg, group, jpc, cpc, obs, gen, managed, fault>>

RoutineSetQuit ==
  /\ rpc = "e_set"
  /\ \E h \in Again : SetBit(h, QUIT)
  /\ rpc' = "gone"
  /\ UNCHANGED <<onceVars, eg, jpc, cpc, obs, gen, managed>>

-----------------------------------------------------------------------------
(* taskDetach, called by the function or by the owner *)

MayDetach ==
  /\ eg # NULL
  /\ NoJoin
  /\ CarefulUse => NoObserve

SelfDetach ==
  /\ "routine" \in Detachers
  /\ rpc = "fn"
  /\ cpc # "det_clear"
  /\ CarefulUse => cpc = "idle"
  /\ MayDetach
  /\ DeleteGroup(eg)
  /\ rpc' = "rd_clear"
  /\ managed' = FALSE
  /\ UNCHANGED <<onceVars, eg, jpc, cpc, obs, gen>>

SelfDetachClear ==
  /\ rpc = "rd_clear"
  /\ eg' = NULL
  /\ rpc' = "fn"
  /\ UNCHANGED <<onceVars, group, jpc, cpc, obs, gen, managed, fault>>

Detach ==
  /\ "owner" \in Detachers
  /\ cpc = "idle" /\ OwnerOut
  /\ rpc \notin {"q_wait", "rd_clear"}
  /\ CarefulUse => rpc \in {"fn", "gone"}
  /\ MayDetach
  /\ DeleteGroup(eg)
  /\ cpc' = "det_clear"
  /\ managed' = FALSE
  /\ UNCHANGED <<onceVars, eg, jpc, rpc, obs, gen>>

DetachClear ==
  /\ cpc = "det_clear"
  /\ eg' = NULL
  /\ cpc' = "idle"
  /\ UNCHANGED <<onceVars, group, jpc, rpc, obs, gen, managed, fault>>

RoutineStep ==
  \/ Copy \/ SignalContinue \/ ShouldQuit \/ ShouldQuitTest
  \/ RoutineEnd \/ RoutineSetQuit \/ SelfDetachClear

-----------------------------------------------------------------------------
(* taskIsRunning *)

IsRunning(o) ==
  /\ obs[o] # "test"
  /\ cpc = "idle"
  /\ CarefulUse => NoJoin /\ rpc # "rd_clear"
  /\ obs' = [obs EXCEPT ![o] = IF eg = NULL THEN "no" ELSE "test"]
  /\ UNCHANGED <<onceVars, eg, group, jpc, cpc, rpc, gen, managed, fault>>

RunningBit == QUIT

IsRunningTest(o) ==
  /\ obs[o] = "test"
  /\ \E h \in Again : UseGroup(h)
  /\ obs' = [obs EXCEPT ![o] = IF RunningBit \in group.bits THEN "no" ELSE "idle"]
  /\ UNCHANGED <<onceVars, eg, group, jpc, cpc, rpc, gen, managed>>

-----------------------------------------------------------------------------

Next ==
  \/ Create \/ CreateStep \/ Detach \/ DetachClear
  \/ \E t \in Joiners : Join(t) \/ JoinStep(t)
  \/ RoutineStep \/ FnReturns \/ SelfDetach
  \/ \E o \in Observers : IsRunning(o) \/ IsRunningTest(o)

\* Threads that can run are run, and the function asks taskShouldQuit again and
\* again; it need not return by itself.
Fairness ==
  /\ WF_vars(CreateStep) /\ WF_vars(DetachClear) /\ WF_vars(RoutineStep)
  /\ \A t \in Joiners : WF_vars(JoinStep(t))
  /\ \A o \in Observers : WF_vars(IsRunningTest(o))

Spec == Init /\ [][Next]_vars /\ Fairness

-----------------------------------------------------------------------------
(* Properties *)

\* task.h:44, "waits for it to exit": whoever comes back from taskJoin, the
\* caller that did the work, one that polled or a late one, finds the routine
\* past its last access to the Task_t.
JoinMeansExited ==
  managed /\ (\E t \in Joiners : opc[t] = "returned") => rpc = "gone"

\* taskIsRunning answers false only if the routine is past its last access.
NotRunningMeansExited ==
  managed /\ (\E o \in Observers : obs[o] = "no") => rpc = "gone"

\* Nothing is used that is gone: the routine copies its start-up data while
\* taskCreate, whose local it is, has not returned, and no event group call is
\* made on a null handle or a deleted group.
NothingDeadUsed == fault = {}

\* Every taskJoin comes back: the routine is told to quit, and those that poll
\* learn of it.  Only a new creation may come in between: it resets the word under
\* a caller that polls, which then comes back from the next join that begins.
JoinReturns ==
  \A t \in Joiners, g \in 0 .. MaxGen :
    opc[t] \in RO!InCall /\ once # RO!NotStarted /\ gen = g
      ~> opc[t] \in RO!OutOfCall \/ gen > g

\* Every taskCreate comes back: its routine does not miss to signal.
CreateReturns == cpc \in CreatePcs ~> cpc = "idle"

\* Both: no call into the task module that has begun waits for ever.
CallsReturn == JoinReturns /\ CreateReturns

=============================================================================

--------------------------- MODULE RunOnceProofs ---------------------------
(***************************************************************************)
(* The safety of runOnce for any set of callers.                           *)
(***************************************************************************)
EXTENDS RunOnce, TLAPS

Runners == {t \in Callers : opc[t] \in {"callback", "publish"}}

\* The word tells how far the one execution has come: not begun, in the hands
\* of exactly one caller, or over.
WordInv ==
  /\ once = NotStarted => runs = 0 /\ Runners = {}
  /\ once = Running    => runs = 1 /\ \E t \in Callers : Runners = {t}
  /\ once = Finished   => runs = 1 /\ Runners = {}

\* Only a finished word lets a caller come back.
ReturnInv == \A t \in Callers : opc[t] = "returned" => once = Finished

IInv == TypeOK /\ WordInv /\ ReturnInv

LEMMA InitInv == Init => IInv
  BY DEF Init, IInv, TypeOK, WordInv, ReturnInv, Runners, OutOfCall, InCall,
         NotStarted, Running, Finished

\* One proof step per action of the specification.
LEMMA NextInv == IInv /\ [Next]_onceVars => IInv'
<1> SUFFICES ASSUME IInv, [Next]_onceVars
             PROVE  IInv'
  OBVIOUS
<1> USE DEF IInv, TypeOK, WordInv, ReturnInv, Runners, OutOfCall, InCall,
            NotStarted, Running, Finished
<1>1. ASSUME NEW t \in Callers, Call(t), WinCall(t)
      PROVE  IInv'
  <2>1. Runners' = {t}
    BY <1>1 DEF Call, WinCall
  <2> QED BY <1>1, <2>1 DEF Call, WinCall
<1>2. ASSUME NEW t \in Callers, Call(t), JoinCall(t)
      PROVE  IInv'
  <2>1. Runners' = Runners
    BY <1>2 DEF Call, JoinCall
  <2> QED BY <1>2, <2>1 DEF Call, JoinCall
<1>3. ASSUME NEW t \in Callers, Call(t), LateCall(t)
      PROVE  IInv'
  BY <1>3 DEF Call, LateCall
<1>4. ASSUME NEW t \in Callers, CallbackReturn(t)
      PROVE  IInv'
  <2>1. Runners' = Runners
    BY <1>4 DEF CallbackReturn
  <2> QED BY <1>4, <2>1 DEF CallbackReturn
<1>5. ASSUME NEW t \in Callers, Publish(t)
      PROVE  IInv'
  <2>1. Runners = {t} /\ runs = 1
    BY <1>5 DEF Publish
  <2>2. Runners' = {}
    BY <1>5, <2>1 DEF Publish
  <2> QED BY <1>5, <2>1, <2>2 DEF Publish
<1>6. ASSUME NEW t \in Callers, Poll(t)
      PROVE  IInv'
  BY <1>6 DEF Poll
<1>7. CASE Reuse
  BY <1>7 DEF Reuse, runOnceInit
<1>8. CASE UNCHANGED onceVars
  BY <1>8 DEF onceVars
<1> QED BY <1>1, <1>2, <1>3, <1>4, <1>5, <1>6, <1>7, <1>8 DEF Next, Step, Call

LEMMA Invariance == Spec => []IInv
  BY InitInv, NextInv, PTL DEF Spec

\* The variables keep their types: the atomic word never holds anything but the
\* three states of run_once.cpp, whatever the callers do.
THEOREM TypeCorrect == Spec => []TypeOK
<1>1. IInv => TypeOK
  BY DEF IInv
<1> QED BY <1>1, Invariance, PTL

\* The callback of an initialised word is invoked at most once, whatever the
\* number of callers of runOnce.
THEOREM AtMostOnce == Spec => []CallbackAtMostOnce
<1>1. IInv => CallbackAtMostOnce
  BY DEF IInv, TypeOK, WordInv, CallbackAtMostOnce, NotStarted, Running, Finished
<1> QED BY <1>1, Invariance, PTL

\* No call of runOnce returns before the callback has completed.
THEOREM ReturnAfterCallback == Spec => []ReturnedMeansDone
<1>1. IInv => ReturnedMeansDone
  BY DEF IInv, WordInv, ReturnInv, ReturnedMeansDone, Runners, NotStarted, Running, Finished
<1> QED BY <1>1, Invariance, PTL

=============================================================================

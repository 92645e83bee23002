------------------------------- MODULE RunOnce -------------------------------
(***************************************************************************)
(* One-time execution, src/run_once.cpp: an atomic word guards a callback. *)
(* The caller whose compare-and-swap moves the word out of NOT_STARTED     *)
(* runs the callback; a caller that finds it RUNNING polls, with a delay,  *)
(* until it reads FINISHED; a caller that finds it FINISHED returns.       *)
(*                                                                         *)
(* Every access to the atomic word is one action.  The callback is a step  *)
(* of its own (CallbackReturn), which a composing module may refine: see   *)
(* Task, whose join callback has several steps.                            *)
(***************************************************************************)
EXTENDS Naturals

CONSTANT Callers    \* the tasks that call runOnce on this object

VARIABLES
  once,     \* the atomic word
  opc,      \* where each caller is with respect to runOnce
  runs      \* history: callback invocations since the word was initialised

onceVars == <<once, opc, runs>>

NotStarted == "not_started"
Running    == "running"
Finished   == "finished"

\* "returned" is "out" with the memory that the last call came back.
OutOfCall == {"out", "returned"}
InCall    == {"callback", "publish", "spin"}

TypeOK ==
  /\ once \in {NotStarted, Running, Finished}
  /\ opc \in [Callers -> OutOfCall \cup InCall]
  /\ runs \in Nat

Init ==
  /\ once = NotStarted
  /\ opc = [t \in Callers |-> "out"]
  /\ runs = 0

-----------------------------------------------------------------------------
(* Defective variants of the definitions below, for the sensitivity checks. *)

WinCall_LoadThenStore(t) ==       \* test and set not atomic: RUNNING is won again
  /\ once # Finished
  /\ once' = Running
  /\ opc' = [opc EXCEPT ![t] = "callback"]
  /\ runs' = runs + 1

JoinCall_NoSpin(t) ==             \* returns while another caller is still running it
  /\ once = Running
  /\ opc' = [opc EXCEPT ![t] = "returned"]
  /\ UNCHANGED <<once, runs>>

Publish_NoStore(t) ==             \* FINISHED is never stored
  /\ opc[t] = "publish"
  /\ opc' = [opc EXCEPT ![t] = "returned"]
  /\ UNCHANGED <<once, runs>>

-----------------------------------------------------------------------------
(* runOnce *)

\* The compare-and-swap succeeds: this caller runs the callback.
WinCall(t) ==
  /\ once = NotStarted
  /\ once' = Running
  /\ opc' = [opc EXCEPT ![t] = "callback"]
  /\ runs' = runs + 1

\* The compare-and-swap fails and reads RUNNING.
JoinCall(t) ==
  /\ once = Running
  /\ opc' = [opc EXCEPT ![t] = "spin"]
  /\ UNCHANGED <<once, runs>>

\* The compare-and-swap fails and reads FINISHED: nothing to do.
LateCall(t) ==
  /\ once = Finished
  /\ opc' = [opc EXCEPT ![t] = "returned"]
  /\ UNCHANGED <<once, runs>>

Call(t) ==
  /\ opc[t] \in OutOfCall
  /\ WinCall(t) \/ JoinCall(t) \/ LateCall(t)

CallbackReturn(t) ==
  /\ opc[t] = "callback"
  /\ opc' = [opc EXCEPT ![t] = "publish"]
  /\ UNCHANGED <<once, runs>>

Publish(t) ==
  /\ opc[t] = "publish"
  /\ once' = Finished
  /\ opc' = [opc EXCEPT ![t] = "returned"]
  /\ UNCHANGED runs

\* One turn of the polling loop that ends it; a turn that does not see
\* FINISHED changes nothing.
Poll(t) ==
  /\ opc[t] = "spin"
  /\ once = Finished
  /\ opc' = [opc EXCEPT ![t] = "returned"]
  /\ UNCHANGED <<once, runs>>

\* runOnceInit stores NOT_STARTED whatever the word holds and whoever uses it.
runOnceInit ==
  /\ once' = NotStarted
  /\ runs' = 0

\* Here it is called as run_once.h documents, "before first use": no call is
\* in flight.  taskCreate calls it without that guard (module Task).
Reuse ==
  /\ once # NotStarted
  /\ \A t \in Callers : opc[t] \in OutOfCall
  /\ runOnceInit
  /\ opc' = [t \in Callers |-> "out"]

-----------------------------------------------------------------------------

Step(t) == CallbackReturn(t) \/ Publish(t) \/ Poll(t)

Next ==
  \/ \E t \in Callers : Call(t) \/ Step(t)
  \/ Reuse

\* A started call is scheduled until it returns and its callback terminates;
\* nobody is obliged to call.
Fairness == \A t \in Callers : WF_onceVars(Step(t))

Spec == Init /\ [][Next]_onceVars /\ Fairness

-----------------------------------------------------------------------------
(* Properties *)

\* However the callers interleave, the callback is invoked at most once per
\* initialisation of the word ("Execute code blocks exactly once").
CallbackAtMostOnce == runs <= 1

\* Whoever returned from runOnce, the winner, a caller that polled or a late
\* one, did so after the callback had completed: its effects are there.
ReturnedMeansDone ==
  \A t \in Callers : opc[t] = "returned" =>
    /\ runs = 1
    /\ \A u \in Callers : opc[u] # "callback"

\* Every call returns: polling ends once the winner has published.
CallReturns ==
  \A t \in Callers : opc[t] \in InCall ~> opc[t] \in OutOfCall

=============================================================================

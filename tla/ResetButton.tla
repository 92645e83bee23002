------------------------------ MODULE ResetButton ------------------------------
(***************************************************************************)
(* The reset button of src/reset_button.cpp: an interrupt on both edges of *)
(* the pin debounces them and starts or stops a one-shot FreeRTOS timer;   *)
(* the timer's callback notifies a task, which runs the handler.           *)
(*                                                                         *)
(* Time passes in ticks (Tick); what the code computes from absolute times *)
(* is kept as the ticks since or until an event, up to the largest value   *)
(* that makes a difference.  The button bounces: its contacts may open and *)
(* close, as often as they like, for less than Debounce ticks after each   *)
(* move.  An interrupt is served before the next edge.  The timer task     *)
(* handles its queue and due timers in the same tick or up to Lag later.   *)
(***************************************************************************)
EXTENDS Integers, Sequences

CONSTANTS
  LongPress,    \* LONG_PRESS_MS, in ticks
  Debounce,     \* DEBOUNCE_MS, in ticks
  MinHold,      \* the user leaves the button in a position for so long
  Lag,          \* the timer task runs at most so late
  QueueLen      \* configTIMER_QUEUE_LENGTH

ASSUME ResetButtonConstants ==
  /\ LongPress \in Nat /\ Debounce \in Nat /\ MinHold \in Nat \ {0}
  /\ Lag \in Nat /\ QueueLen \in Nat
  /\ Lag < LongPress

VARIABLES
  down,         \* the user holds the button
  sinceMove,    \* ticks since it was pressed or released, up to Quiet
  heldFor,      \* ticks the last press has lasted, up to LongEnough
  pin,          \* the level of the pin, 0 while the contacts are closed
  irq,          \* an edge has raised the interrupt
  ready,        \* setupResetButton has run
  lastLevel,    \* the level of the last accepted edge
  sinceEdge,    \* now_ms() - lastEdgeMs in ticks, up to Debounce
  queue,        \* the timer task's commands, each with its age
  timer,        \* ticks until the timer is due, or Off
  notified,     \* the notification of the action task
  task,         \* the action task: waiting or in the handler
  served        \* history: the handler has run since the last press after the setup

userVars  == <<down, sinceMove, heldFor>>
isrVars   == <<ready, lastLevel, sinceEdge>>
timerVars == <<queue, timer>>
taskVars  == <<notified, task, served>>
vars == <<userVars, pin, irq, isrVars, timerVars, taskVars>>

Off == LongPress + 1
LongEnough == LongPress + Lag + 1   \* a press so long cannot end before the timer is handled
Quiet == IF MinHold > Debounce THEN MinHold ELSE Debounce

UpTo(bound, n) == IF n < bound THEN n ELSE bound

\* A boot: nobody has touched the button lately, but somebody may be holding it;
\* more than the debounce time has passed since time 0, the initial lastEdgeMs.
Init ==
  /\ down \in BOOLEAN
  /\ sinceMove = Quiet
  /\ heldFor = 0
  /\ pin = IF down THEN 0 ELSE 1
  /\ irq = FALSE
  /\ ready = FALSE
  /\ lastLevel = 1
  /\ sinceEdge = Debounce
  /\ queue = <<>>
  /\ timer = Off
  /\ notified = FALSE
  /\ task = "waiting"
  /\ served = TRUE

-----------------------------------------------------------------------------
(* Defective variants of definitions below, for the sensitivity checks. *)

ReleaseCommands_None == <<>>              \* a release does not stop the timer

IgnoredEdge_Prolongs == 0                 \* line 95 before the test of lines 92-94

-----------------------------------------------------------------------------
(* The button *)

Level(d) == IF d THEN 0 ELSE 1

\* The first contact or break of a press or release.
Move ==
  /\ sinceMove >= MinHold /\ pin = Level(down)
  /\ ~irq
  /\ down' = ~down
  /\ pin' = Level(down')
  /\ irq' = ready
  /\ sinceMove' = 0
  /\ IF down' THEN heldFor' = 0 /\ served' = ~ready ELSE UNCHANGED <<heldFor, served>>
  /\ UNCHANGED <<isrVars, timerVars, notified, task>>

\* The contacts bounce; they have come to rest when Debounce ticks are over.
Bounce ==
  /\ sinceMove < Debounce
  /\ ~irq
  /\ pin' = 1 - pin
  /\ irq' = ready
  /\ UNCHANGED <<userVars, isrVars, timerVars, taskVars>>

-----------------------------------------------------------------------------
(* setupResetButton, and the interrupt handler *)

\* The task and the timer exist when the interrupt is attached, last; the edge
\* of a button that is already down has been missed.  The contacts are at rest:
\* the first edge of a bounce would be taken for a move.
setupResetButton ==
  /\ ~ready
  /\ sinceMove >= Debounce
  /\ ready' = TRUE
  /\ UNCHANGED <<userVars, pin, irq, lastLevel, sinceEdge, timerVars, taskVars>>

\* Commands from the interrupt are dropped once the queue is full: the results
\* of the calls are ignored.
Sent(cmds) ==
  LET all == queue \o [i \in DOMAIN cmds |-> [cmd |-> cmds[i], age |-> 0]]
  IN  SubSeq(all, 1, UpTo(QueueLen, Len(all)))

PressCommands   == <<"stop", "changePeriod", "start">>
ReleaseCommands == <<"stop">>

\* Lines 92-94; an edge that comes too soon leaves the time of the last edge alone.
TooSoon == sinceEdge < Debounce
IgnoredEdge == sinceEdge

onButtonISR ==
  /\ irq
  /\ irq' = FALSE
  /\ IF TooSoon
       THEN sinceEdge' = IgnoredEdge /\ UNCHANGED <<lastLevel, queue>>
       ELSE /\ sinceEdge' = 0
            /\ lastLevel' = pin
            /\ queue' = CASE pin = lastLevel -> queue
                          [] pin # lastLevel /\ pin = 0 -> Sent(PressCommands)
                          [] pin # lastLevel /\ pin = 1 -> Sent(ReleaseCommands)
  /\ UNCHANGED <<userVars, pin, ready, timer, taskVars>>

-----------------------------------------------------------------------------
(* The timer task of FreeRTOS, its callback, and the action task *)

\* A start counts from the moment it was requested, a change of period, which
\* starts the timer too, from the moment it is carried out.
TimerAfter(c) ==
  CASE c.cmd = "stop"         -> Off
    [] c.cmd = "changePeriod" -> LongPress
    [] c.cmd = "start"        -> LongPress - c.age

TimerCommand ==
  /\ queue # <<>>
  /\ timer' = TimerAfter(Head(queue))
  /\ queue' = Tail(queue)
  /\ UNCHANGED <<userVars, pin, irq, isrVars, taskVars>>

\* The timer is due.  A stop may still be waiting in the queue.
onLongPressTimer ==
  /\ timer <= 0
  /\ timer' = Off
  /\ notified' = TRUE
  /\ UNCHANGED <<userVars, pin, irq, isrVars, queue, task, served>>

\* ulTaskNotifyTake takes all notifications at once; the handler is called.
TakeNotification ==
  /\ task = "waiting" /\ notified
  /\ notified' = FALSE
  /\ task' = "handler"
  /\ served' = TRUE
  /\ UNCHANGED <<userVars, pin, irq, isrVars, timerVars>>

HandlerReturns ==
  /\ task = "handler"
  /\ task' = "waiting"
  /\ UNCHANGED <<userVars, pin, irq, isrVars, timerVars, notified, served>>

-----------------------------------------------------------------------------

\* A tick: the interrupt has been served, the timer task is not later than
\* Lag, and the contacts come to rest in time.
Tick ==
  /\ ~irq
  /\ \A i \in DOMAIN queue : queue[i].age < Lag
  /\ timer > -Lag
  /\ sinceMove = Debounce - 1 => pin = Level(down)
  /\ sinceMove' = UpTo(Quiet, sinceMove + 1)
  /\ heldFor' = IF down THEN UpTo(LongEnough, heldFor + 1) ELSE heldFor
  /\ sinceEdge' = UpTo(Debounce, sinceEdge + 1)
  /\ queue' = [i \in DOMAIN queue |-> [queue[i] EXCEPT !.age = @ + 1]]
  /\ timer' = IF timer = Off THEN Off ELSE timer - 1
  /\ UNCHANGED <<down, pin, irq, ready, lastLevel, taskVars>>

Next ==
  \/ Move \/ Bounce \/ setupResetButton \/ onButtonISR
  \/ TimerCommand \/ onLongPressTimer \/ TakeNotification \/ HandlerReturns
  \/ Tick

\* Interrupts and tasks run, the handler returns, time passes.
Fairness ==
  /\ WF_vars(onButtonISR) /\ WF_vars(TimerCommand) /\ WF_vars(onLongPressTimer)
  /\ WF_vars(TakeNotification) /\ WF_vars(HandlerReturns) /\ WF_vars(Tick)

Spec == Init /\ [][Next]_vars /\ Fairness

-----------------------------------------------------------------------------
(* Properties *)

\* The timer's callback asks for the handler only for a press that has lasted
\* LONG_PRESS_MS ("hold 3s to reset", src/reset_button.cpp:10), up to the time
\* the timer task may be late.
OnlyLongPresses ==
  [][~notified /\ notified' => heldFor >= LongPress - Lag]_vars

\* Whoever holds the button long enough gets the handler called, also while
\* it still runs for an earlier press.
LongPressServed ==
  down /\ heldFor = LongEnough /\ ~served ~> served

=============================================================================

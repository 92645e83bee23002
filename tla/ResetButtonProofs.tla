--------------------------- MODULE ResetButtonProofs ---------------------------
(***************************************************************************)
(* The reset handler is called for long presses only, for any times and    *)
(* any length of the timer task's queue, if the user leaves the button     *)
(* alone for the debounce time and the timer task is less late than that.  *)
(* Both conditions are needed: the run reset_button_tap shows it of the    *)
(* first; without the second a release and the next press may both be in   *)
(* the queue.                                                              *)
(***************************************************************************)
EXTENDS ResetButton, SequenceTheorems, TLAPS

Calm == MinHold >= Debounce /\ Lag < Debounce

Commands == {"stop", "changePeriod", "start"}
Entries == [cmd : Commands, age : Nat]

TypeOK ==
  /\ down \in BOOLEAN /\ sinceMove \in 0 .. Quiet /\ heldFor \in 0 .. LongEnough
  /\ pin \in {0, 1} /\ irq \in BOOLEAN
  /\ ready \in BOOLEAN /\ lastLevel \in {0, 1} /\ sinceEdge \in 0 .. Debounce
  /\ queue \in Seq(Entries)
  /\ timer \in Int

\* The edge of a move, not of a bounce, waits for the interrupt handler.
MoveEdge == irq /\ sinceEdge = Debounce

\* The handler takes the first edge of a move and no other: while the contacts
\* bounce, the time since the last accepted edge is the time since the move.
EdgeInv ==
  /\ irq => ready /\ sinceMove < Debounce
  /\ ~ready => sinceEdge = Debounce
  /\ MoveEdge => sinceMove = 0 /\ pin = Level(down)
  /\ ready /\ sinceMove < Debounce /\ ~MoveEdge => sinceEdge = sinceMove
  /\ sinceMove >= Debounce => sinceEdge = Debounce /\ pin = Level(down)

\* lastLevel is where the button was before the last move, or where it is, except
\* for a button that was down at the setup: nothing has been commanded then.
LevelInv ==
  /\ ~ready => lastLevel = 1 /\ queue = <<>> /\ timer = Off
  /\ (down <=> MoveEdge) => lastLevel = 1
  /\ lastLevel = 1 /\ (down \/ MoveEdge) => queue = <<>> /\ timer = Off

\* Each command in the queue has been there for n ticks.
Aged(q, n) == \A i \in 1 .. Len(q) : q[i].age = n

OnlyAStop(q) == Len(q) <= 1 /\ \A i \in 1 .. Len(q) : q[i].cmd = "stop"

\* The commands in the queue are those of the last move, and a stop if it was a
\* release; they are gone before the next one.
QueueInv ==
  /\ MoveEdge => queue = <<>>
  /\ Aged(queue, sinceMove)
  /\ queue # <<>> => sinceMove <= Lag
  /\ ~down => OnlyAStop(queue)
  /\ QueueLen = 0 => queue = <<>> /\ timer = Off

\* A running timer counts the time of the press, and goes on after the release only
\* until the stop is carried out.
TimerInv ==
  /\ down /\ sinceMove <= Lag => heldFor = sinceMove
  /\ timer # Off =>
       /\ timer \in (-Lag) .. LongPress
       /\ timer + heldFor + (IF down THEN 0 ELSE sinceMove) >= LongPress
       /\ ~down => MoveEdge \/ queue # <<>>

IInv == TypeOK /\ EdgeInv /\ LevelInv /\ QueueInv /\ TimerInv

-----------------------------------------------------------------------------
(* The queue *)

LEMMA Bounds ==
  ASSUME Calm
  PROVE  /\ LongPress \in Nat /\ Debounce \in Nat /\ MinHold \in Nat /\ Lag \in Nat
         /\ QueueLen \in Nat /\ Lag < LongPress /\ Lag < Debounce
         /\ Quiet \in Nat /\ Quiet = MinHold /\ Quiet >= Debounce
         /\ Off \in Nat /\ Off = LongPress + 1
         /\ LongEnough \in Nat /\ LongEnough = LongPress + Lag + 1
  BY ResetButtonConstants DEF Calm, Quiet, Off, LongEnough

LEMMA EmptyQueue ==
  ASSUME NEW n
  PROVE  <<>> \in Seq(Entries) /\ Aged(<<>>, n) /\ OnlyAStop(<<>>)
<1>1. <<>> \in Seq(Entries) /\ Len(<<>>) = 0
  BY EmptySeq
<1> QED BY <1>1 DEF Aged, OnlyAStop

\* What is sent to an empty queue: the first commands, as many as it has room for,
\* of age 0.
LEMMA SentToEmpty ==
  ASSUME queue = <<>>, QueueLen \in Nat, NEW cmds \in Seq(Commands)
  PROVE  /\ Sent(cmds) \in Seq(Entries)
         /\ Len(Sent(cmds)) = UpTo(QueueLen, Len(cmds))
         /\ \A i \in 1 .. Len(Sent(cmds)) : Sent(cmds)[i] = [cmd |-> cmds[i], age |-> 0]
<1> DEFINE s == [i \in DOMAIN cmds |-> [cmd |-> cmds[i], age |-> 0]]
           n == UpTo(QueueLen, Len(cmds))
<1>1. /\ Len(cmds) \in Nat /\ DOMAIN cmds = 1 .. Len(cmds)
      /\ \A i \in DOMAIN cmds : cmds[i] \in Commands
  BY LenProperties
<1>2. s \in [1 .. Len(cmds) -> Entries]
  BY <1>1 DEF Entries
<1>3. s \in Seq(Entries) /\ Len(s) = Len(cmds)
  BY <1>1, <1>2
<1>4. \A i \in 1 .. Len(cmds) : s[i] = [cmd |-> cmds[i], age |-> 0]
  BY <1>1
<1> HIDE DEF s
<1>5. <<>> \o s = s
  BY <1>3, ConcatEmptySeq
<1>6. Sent(cmds) = SubSeq(s, 1, n)
  BY <1>3, <1>5 DEF Sent, s
<1>7. n \in 0 .. Len(cmds)
  BY <1>1 DEF UpTo
<1> HIDE DEF n
<1>8. \A i \in 1 .. n : s[i] \in Entries
  BY <1>1, <1>2, <1>7
<1>9. /\ SubSeq(s, 1, n) \in Seq(Entries) /\ Len(SubSeq(s, 1, n)) = n
      /\ \A i \in 1 .. n : SubSeq(s, 1, n)[i] = s[i]
  BY <1>7, <1>8, SubSeqProperties
<1> QED BY <1>4, <1>6, <1>7, <1>9 DEF n

LEMMA PressSent ==
  ASSUME queue = <<>>, QueueLen \in Nat
  PROVE  /\ Sent(PressCommands) \in Seq(Entries) /\ Aged(Sent(PressCommands), 0)
         /\ QueueLen = 0 => Sent(PressCommands) = <<>>
<1> DEFINE s == Sent(PressCommands)
<1>1. PressCommands \in Seq(Commands) /\ Len(PressCommands) = 3
  BY DEF PressCommands, Commands
<1>2. /\ s \in Seq(Entries) /\ Len(s) = UpTo(QueueLen, 3)
      /\ \A i \in 1 .. Len(s) : s[i] = [cmd |-> PressCommands[i], age |-> 0]
  BY <1>1, SentToEmpty
<1> HIDE DEF s
<1>3. Aged(s, 0)
  BY <1>2 DEF Aged
<1>4. QueueLen = 0 => s = <<>>
  BY <1>2, EmptySeq DEF UpTo
<1> QED BY <1>2, <1>3, <1>4 DEF s

LEMMA ReleaseSent ==
  ASSUME queue = <<>>, QueueLen \in Nat
  PROVE  /\ Sent(ReleaseCommands) \in Seq(Entries) /\ Aged(Sent(ReleaseCommands), 0)
         /\ OnlyAStop(Sent(ReleaseCommands))
         /\ QueueLen = 0 <=> Sent(ReleaseCommands) = <<>>
<1> DEFINE s == Sent(ReleaseCommands)
<1>1. /\ ReleaseCommands \in Seq(Commands) /\ Len(ReleaseCommands) = 1
      /\ ReleaseCommands[1] = "stop"
  BY DEF ReleaseCommands, Commands
<1>2. /\ s \in Seq(Entries) /\ Len(s) = UpTo(QueueLen, 1)
      /\ \A i \in 1 .. Len(s) : s[i] = [cmd |-> ReleaseCommands[i], age |-> 0]
  BY <1>1, SentToEmpty
<1> HIDE DEF s
<1>3. Aged(s, 0)
  BY <1>2 DEF Aged
<1>4. Len(s) \in Nat /\ Len(s) <= 1 /\ (QueueLen = 0 <=> Len(s) = 0)
  BY <1>2 DEF UpTo
<1>5. OnlyAStop(s)
  <2>1. \A i \in 1 .. Len(s) : i = 1
    BY <1>4
  <2> QED BY <1>1, <1>2, <1>4, <2>1 DEF OnlyAStop
<1>6. QueueLen = 0 <=> s = <<>>
  BY <1>2, <1>4, EmptySeq
<1> QED BY <1>2, <1>3, <1>5, <1>6 DEF s

\* The timer task takes the first command.
LEMMA FirstCommand ==
  ASSUME NEW q \in Seq(Entries), q # <<>>, NEW n, Aged(q, n)
  PROVE  /\ Head(q) \in Entries /\ Head(q).age = n
         /\ Tail(q) \in Seq(Entries) /\ Aged(Tail(q), n)
         /\ OnlyAStop(q) => Head(q).cmd = "stop" /\ Tail(q) = <<>>
<1>1. /\ Head(q) = q[1] /\ Len(q) \in Nat \ {0} /\ Head(q) \in Entries
      /\ Tail(q) \in Seq(Entries) /\ Len(Tail(q)) = Len(q) - 1
      /\ \A i \in 1 .. Len(Tail(q)) : Tail(q)[i] = q[i + 1]
  BY HeadTailProperties, EmptySeq, LenProperties
<1>2. Head(q).age = n
  BY <1>1 DEF Aged
<1>3. Aged(Tail(q), n)
  BY <1>1 DEF Aged
<1>4. ASSUME OnlyAStop(q) PROVE Head(q).cmd = "stop" /\ Tail(q) = <<>>
  BY <1>1, <1>4, EmptySeq DEF OnlyAStop
<1> QED BY <1>1, <1>2, <1>3, <1>4

\* The commands a tick later.
Older(q) == [i \in DOMAIN q |-> [q[i] EXCEPT !.age = @ + 1]]

LEMMA OlderQueue ==
  ASSUME NEW q \in Seq(Entries), NEW n \in Nat, Aged(q, n)
  PROVE  /\ Older(q) \in Seq(Entries) /\ Aged(Older(q), n + 1)
         /\ OnlyAStop(q) => OnlyAStop(Older(q))
         /\ Older(q) = <<>> <=> q = <<>>
         /\ (\A i \in DOMAIN q : q[i].age < Lag) /\ q # <<>> => n < Lag
<1>1. Len(q) \in Nat /\ DOMAIN q = 1 .. Len(q) /\ \A i \in 1 .. Len(q) : q[i] \in Entries
  BY LenProperties
<1>2. \A i \in 1 .. Len(q) : Older(q)[i] = [q[i] EXCEPT !.age = @ + 1]
  BY <1>1 DEF Older
<1>3. \A e \in Entries : LET f == [e EXCEPT !.age = @ + 1]
                       IN  f \in Entries /\ f.age = e.age + 1 /\ f.cmd = e.cmd
  BY DEF Entries
<1>4. \A i \in 1 .. Len(q) : /\ Older(q)[i] \in Entries
                             /\ Older(q)[i].age = q[i].age + 1
                             /\ Older(q)[i].cmd = q[i].cmd
  BY <1>1, <1>2, <1>3, ZenonT(60)
<1>5. Older(q) \in [1 .. Len(q) -> Entries]
  BY <1>1, <1>4 DEF Older
<1>6. Older(q) \in Seq(Entries) /\ Len(Older(q)) = Len(q)
  BY <1>1, <1>5
<1>7. Aged(Older(q), n + 1)
  BY <1>1, <1>4, <1>6 DEF Aged
<1>8. OnlyAStop(q) => OnlyAStop(Older(q))
  BY <1>1, <1>4, <1>6 DEF OnlyAStop
<1>9. Older(q) = <<>> <=> q = <<>>
  BY <1>6, EmptySeq
<1>10. (\A i \in DOMAIN q : q[i].age < Lag) /\ q # <<>> => n < Lag
  <2>1. q # <<>> => 1 \in DOMAIN q
    BY <1>1, EmptySeq
  <2> QED BY <1>1, <2>1 DEF Aged
<1> QED BY <1>6, <1>7, <1>8, <1>9, <1>10

-----------------------------------------------------------------------------
(* The inductive invariant *)

LEMMA InitInv == ASSUME Calm PROVE Init => IInv
<1> SUFFICES ASSUME Init
             PROVE  IInv
  OBVIOUS
<1> USE Bounds DEF Init
<1>1. TypeOK
  <2>1. queue \in Seq(Entries)
    BY EmptyQueue
  <2>2. timer \in Int /\ sinceMove \in 0 .. Quiet /\ heldFor \in 0 .. LongEnough
    OBVIOUS
  <2>3. sinceEdge \in 0 .. Debounce /\ lastLevel \in {0, 1}
    OBVIOUS
  <2>4. irq \in BOOLEAN /\ ready \in BOOLEAN
    OBVIOUS
  <2>5. down \in BOOLEAN /\ pin \in {0, 1}
    OBVIOUS
  <2> QED BY <2>1, <2>2, <2>3, <2>5, <2>4 DEF TypeOK
<1>2. EdgeInv /\ LevelInv
  BY DEF EdgeInv, LevelInv, MoveEdge, Level
<1>3. QueueInv
  BY EmptyQueue DEF QueueInv, MoveEdge
<1>4. TimerInv
  BY DEF TimerInv
<1> QED BY <1>1, <1>2, <1>3, <1>4 DEF IInv

LEMMA MoveInv == ASSUME Calm, IInv, Move PROVE IInv'
<1> USE Bounds DEF IInv, userVars, isrVars, timerVars, MoveEdge, Level
<1>1. queue = <<>> /\ queue' = <<>>
  BY DEF Move, EdgeInv, QueueInv, TypeOK
<1>2. /\ down' = ~down /\ pin' = Level(down') /\ irq' = ready /\ sinceMove' = 0
      /\ heldFor' = IF down' THEN 0 ELSE heldFor
      /\ UNCHANGED <<ready, lastLevel, sinceEdge, timer>>
      /\ ~irq /\ sinceMove >= Debounce /\ sinceEdge = Debounce
  BY SMTT(30) DEF Move, TypeOK, EdgeInv
<1>3. TypeOK'
  BY <1>1, <1>2 DEF TypeOK
<1>4. EdgeInv'
  BY <1>2 DEF TypeOK, EdgeInv
<1>5. ~MoveEdge /\ MoveEdge' = ready
  BY <1>2 DEF TypeOK
<1>6. (down <=> ~down') /\ (ready' <=> ready) /\ lastLevel' = lastLevel /\ timer' = timer
  BY <1>2 DEF TypeOK
<1> HIDE DEF MoveEdge
<1>7. LevelInv'
  <2>1. ~ready => lastLevel = 1 /\ timer = Off
    BY DEF LevelInv
  <2>2. down' /\ MoveEdge' => lastLevel = 1
    BY <1>5, <1>6 DEF LevelInv
  <2>3. ~down' /\ ~MoveEdge' => lastLevel = 1
    BY <1>5, <2>1
  <2>4. lastLevel = 1 => timer = Off
    BY <1>1, <1>5, <1>6 DEF LevelInv, TimerInv
  <2> QED BY <1>1, <1>6, <2>1, <2>2, <2>3, <2>4 DEF LevelInv
<1>8. QueueInv'
  BY <1>1, <1>2, EmptyQueue DEF QueueInv
<1>9. TimerInv'
  BY <1>1, <1>2, <1>5, <1>6 DEF TypeOK, LevelInv, TimerInv
<1> QED BY <1>3, <1>4, <1>7, <1>8, <1>9

LEMMA BounceInv == ASSUME Calm, IInv, Bounce PROVE IInv'
  BY Bounds, SMTT(30)
  DEF IInv, Bounce, TypeOK, MoveEdge, EdgeInv, LevelInv, QueueInv, TimerInv, Level,
      isrVars, timerVars, taskVars, userVars

LEMMA SetupInv == ASSUME Calm, IInv, setupResetButton PROVE IInv'
  BY Bounds
  DEF IInv, setupResetButton, TypeOK, MoveEdge, EdgeInv, LevelInv, QueueInv, TimerInv, Level,
      isrVars, timerVars, taskVars, userVars

\* The edges of a bounce change nothing.
LEMMA IgnoredEdgeInv == ASSUME Calm, IInv, onButtonISR, TooSoon PROVE IInv'
<1> USE Bounds DEF IInv, MoveEdge
<1>1. /\ irq /\ irq' = FALSE /\ sinceEdge < Debounce
      /\ UNCHANGED <<down, sinceMove, heldFor, pin, ready, lastLevel, sinceEdge, queue, timer>>
  BY DEF onButtonISR, TooSoon, IgnoredEdge, userVars
<1>2. ~MoveEdge /\ ~MoveEdge'
  BY <1>1 DEF TypeOK
<1> HIDE DEF MoveEdge
<1>3. TypeOK' /\ EdgeInv'
  BY <1>1, <1>2 DEF TypeOK, EdgeInv, Level
<1>4. LevelInv' /\ QueueInv'
  BY <1>1, <1>2 DEF LevelInv, QueueInv
<1>5. TimerInv'
  BY <1>1, <1>2 DEF TimerInv
<1> QED BY <1>3, <1>4, <1>5

\* The first edge of a move starts the timer, stops it, or is not a change of level.
LEMMA AcceptedEdgeInv == ASSUME Calm, IInv, onButtonISR, ~TooSoon PROVE IInv'
<1> USE Bounds DEF IInv
<1>1. /\ irq /\ MoveEdge /\ ready /\ sinceMove = 0 /\ pin = Level(down) /\ queue = <<>>
  BY DEF onButtonISR, TooSoon, TypeOK, MoveEdge, EdgeInv, QueueInv
<1>2. /\ irq' = FALSE /\ sinceEdge' = 0 /\ lastLevel' = pin /\ ~MoveEdge'
      /\ UNCHANGED <<down, sinceMove, heldFor, pin, ready, timer>>
  BY DEF onButtonISR, userVars, MoveEdge
<1>3. down => lastLevel = 1 /\ pin = 0 /\ timer = Off
  BY <1>1 DEF LevelInv, Level
<1>4. ~down => pin = 1
  BY <1>1 DEF Level
<1>5. /\ queue' \in Seq(Entries) /\ Aged(queue', 0)
      /\ ~down => OnlyAStop(queue')
      /\ QueueLen = 0 => queue' = <<>>
      /\ ~down /\ lastLevel = 0 /\ QueueLen # 0 => queue' # <<>>
      /\ ~down /\ lastLevel = 1 => queue' = <<>>
  <2>1. CASE down
    <3>1. queue' = Sent(PressCommands)
      BY <1>3, <2>1 DEF onButtonISR
    <3> QED BY <1>1, <2>1, <3>1, PressSent
  <2>2. CASE ~down /\ lastLevel = 0
    <3>1. queue' = Sent(ReleaseCommands)
      BY <1>4, <2>2 DEF onButtonISR
    <3> QED BY <1>1, <2>2, <3>1, ReleaseSent
  <2>3. CASE ~down /\ lastLevel # 0
    <3>1. queue' = <<>>
      BY <1>1, <1>4, <2>3 DEF onButtonISR, TypeOK
    <3> QED BY <2>3, <3>1, EmptyQueue
  <2> QED BY <2>1, <2>2, <2>3
<1>6. TypeOK'
  <2>1. lastLevel' \in {0, 1} /\ sinceEdge' \in 0 .. Debounce
    BY <1>2 DEF TypeOK
  <2> QED BY <1>2, <1>5, <2>1 DEF TypeOK
<1>7. EdgeInv'
  BY <1>1, <1>2 DEF TypeOK, EdgeInv, Level
<1>8. LevelInv'
  BY <1>1, <1>2, <1>3, <1>4, <1>5 DEF LevelInv
<1>9. QueueInv'
  BY <1>1, <1>2, <1>3, <1>5 DEF QueueInv
<1>10. TimerInv'
  <2>1. timer # Off => ~down /\ lastLevel = 0 /\ QueueLen # 0
    BY <1>1, <1>3 DEF TypeOK, LevelInv, QueueInv
  <2>2. timer' # Off => queue' # <<>>
    BY <1>2, <1>5, <2>1
  <2> QED BY <1>1, <1>2, <2>2 DEF TimerInv
<1> QED BY <1>6, <1>7, <1>8, <1>9, <1>10

\* A start counts from the press, a change of period from now; a stop ends a press.
LEMMA TimerCommandInv == ASSUME Calm, IInv, TimerCommand PROVE IInv'
<1> USE Bounds DEF IInv
<1> DEFINE c == Head(queue)
<1>1. /\ queue # <<>> /\ queue' = Tail(queue) /\ timer' = TimerAfter(c)
      /\ UNCHANGED <<down, sinceMove, heldFor, pin, irq, ready, lastLevel, sinceEdge>>
  BY DEF TimerCommand, userVars, isrVars
<1>2. /\ c \in Entries /\ c.age = sinceMove /\ sinceMove <= Lag
      /\ queue' \in Seq(Entries) /\ Aged(queue', sinceMove)
      /\ ~down => c.cmd = "stop" /\ queue' = <<>>
  BY <1>1, FirstCommand DEF TypeOK, QueueInv
<1> HIDE DEF c
<1>3. MoveEdge' = MoveEdge /\ ~MoveEdge
  BY <1>1 DEF MoveEdge, QueueInv
<1>4. c.cmd \in Commands /\ sinceMove \in Nat /\ heldFor \in Nat
  BY <1>2 DEF Entries, TypeOK
<1>5. \/ timer' = Off
      \/ down /\ timer' = LongPress
      \/ down /\ timer' = LongPress - sinceMove
  BY <1>1, <1>2, <1>4 DEF TimerAfter, Commands
<1>6. ~down => timer' = Off
  BY <1>1, <1>2 DEF TimerAfter
<1>7. TypeOK'
  BY <1>1, <1>2, <1>4, <1>5, SMTT(30) DEF TypeOK
<1>8. EdgeInv'
  BY <1>1, <1>3 DEF EdgeInv, Level
<1>9. LevelInv'
  BY <1>1, <1>2, <1>3, <1>6 DEF LevelInv
<1>10. QueueInv'
  BY <1>1, <1>2, <1>3, EmptyQueue DEF QueueInv
<1>11. TimerInv'
  <2>1. down => heldFor = sinceMove
    BY <1>2 DEF TimerInv
  <2>2. CASE timer' = Off
    BY <1>1, <2>1, <2>2 DEF TimerInv
  <2>3. CASE down /\ timer' = LongPress
    <3>1. timer' \in (-Lag) .. LongPress /\ timer' + heldFor >= LongPress
      BY <1>4, <2>3
    <3> QED BY <1>1, <1>4, <2>1, <2>3, <3>1 DEF TimerInv
  <2>4. CASE down /\ timer' = LongPress - sinceMove
    <3>1. timer' \in (-Lag) .. LongPress /\ timer' + heldFor >= LongPress
      BY <1>2, <1>4, <2>1, <2>4, SMTT(30)
    <3> QED BY <1>1, <1>4, <2>1, <2>4, <3>1 DEF TimerInv
  <2> QED BY <1>5, <2>2, <2>3, <2>4
<1> QED BY <1>7, <1>8, <1>9, <1>10, <1>11

\* Time passes for the press, the timer and the commands alike.
LEMMA TickInv == ASSUME Calm, IInv, Tick PROVE IInv'
<1> USE Bounds DEF IInv
<1>1. /\ ~irq /\ timer > -Lag
      /\ UNCHANGED <<down, pin, irq, ready, lastLevel>>
      /\ sinceMove' = UpTo(Quiet, sinceMove + 1) /\ sinceEdge' = UpTo(Debounce, sinceEdge + 1)
      /\ heldFor' = IF down THEN UpTo(LongEnough, heldFor + 1) ELSE heldFor
      /\ timer' = IF timer = Off THEN Off ELSE timer - 1
      /\ sinceMove = Debounce - 1 => pin = Level(down)
  BY DEF Tick
<1>2. /\ queue' = Older(queue)
      /\ \A i \in DOMAIN queue : queue[i].age < Lag
  BY DEF Tick, Older
<1>3. sinceMove \in Nat /\ heldFor \in Nat /\ sinceEdge \in Nat /\ timer \in Int
  BY DEF TypeOK
<1>4. /\ queue' \in Seq(Entries) /\ Aged(queue', sinceMove + 1)
      /\ ~down => OnlyAStop(queue')
      /\ queue' = <<>> <=> queue = <<>>
      /\ queue # <<>> => sinceMove < Lag
  BY <1>2, <1>3, OlderQueue DEF TypeOK, QueueInv
<1>5. ~MoveEdge /\ ~MoveEdge'
  BY <1>1 DEF MoveEdge
<1>6. /\ sinceMove' \in 0 .. Quiet
      /\ sinceMove < Quiet => sinceMove' = sinceMove + 1
      /\ sinceMove >= Quiet => sinceMove' = Quiet
  <2>1. CASE sinceMove + 1 < Quiet
    <3>1. sinceMove' = sinceMove + 1
      BY <1>1, <2>1 DEF UpTo
    <3> QED BY <1>3, <2>1, <3>1
  <2>2. CASE ~(sinceMove + 1 < Quiet)
    <3>1. sinceMove' = Quiet
      BY <1>1, <2>2 DEF UpTo
    <3>2. sinceMove \in 0 .. Quiet
      BY DEF TypeOK
    <3> QED BY <1>3, <2>2, <3>1, <3>2
  <2> QED BY <2>1, <2>2
<1>7. /\ sinceEdge' \in 0 .. Debounce
      /\ sinceEdge < Debounce => sinceEdge' = sinceEdge + 1
      /\ sinceEdge >= Debounce => sinceEdge' = Debounce
  <2>1. CASE sinceEdge + 1 < Debounce
    <3>1. sinceEdge' = sinceEdge + 1
      BY <1>1, <2>1 DEF UpTo
    <3> QED BY <1>3, <2>1, <3>1
  <2>2. CASE ~(sinceEdge + 1 < Debounce)
    <3>1. sinceEdge' = Debounce
      BY <1>1, <2>2 DEF UpTo
    <3>2. sinceEdge \in 0 .. Debounce
      BY DEF TypeOK
    <3> QED BY <1>3, <2>2, <3>1, <3>2
  <2> QED BY <2>1, <2>2
<1>8. /\ heldFor' \in 0 .. LongEnough
      /\ ~down => heldFor' = heldFor
      /\ down /\ heldFor < LongEnough => heldFor' = heldFor + 1
      /\ down /\ heldFor >= LongEnough => heldFor' = LongEnough
  <2>1. UpTo(LongEnough, heldFor + 1) \in 0 .. LongEnough
    BY <1>3 DEF UpTo
  <2>2. heldFor < LongEnough => UpTo(LongEnough, heldFor + 1) = heldFor + 1
    BY <1>3 DEF UpTo
  <2>3. heldFor >= LongEnough => UpTo(LongEnough, heldFor + 1) = LongEnough
    BY <1>3 DEF UpTo
  <2> QED BY <1>1, <1>3, <2>1, <2>2, <2>3 DEF TypeOK
<1>9. timer' \in Int
  BY <1>1, <1>3
<1>10. TypeOK'
  BY <1>1, <1>4, <1>9, <1>6, <1>7, <1>8 DEF TypeOK
<1>11. EdgeInv'
  <2> HIDE DEF MoveEdge
  <2>1. ~irq' /\ (ready' <=> ready) /\ (Level(down)' = Level(down)) /\ pin' = pin
    BY <1>1 DEF Level
  <2>2. sinceEdge \in 0 .. Debounce
    BY DEF TypeOK
  <2>3. ~ready => sinceEdge' = Debounce
    BY <1>3, <1>7, <2>2 DEF EdgeInv
  <2>4. ready /\ sinceMove' < Debounce => sinceEdge' = sinceMove'
    BY <1>3, <1>5, <1>6, <1>7, <2>2 DEF EdgeInv
  <2>5. sinceMove' >= Debounce => sinceEdge' = Debounce /\ pin = Level(down)
    BY <1>1, <1>3, <1>5, <1>6, <1>7, <2>2 DEF EdgeInv
  <2> QED BY <1>5, <2>1, <2>3, <2>4, <2>5 DEF EdgeInv
<1>12. LevelInv'
  BY <1>1, <1>3, <1>4, <1>5 DEF LevelInv
<1>13. QueueInv'
  <2>1. queue # <<>> => sinceMove' = sinceMove + 1 /\ sinceMove' <= Lag
    BY <1>3, <1>4, <1>6, SMTT(30)
  <2>2. Aged(queue', sinceMove')
    BY <1>4, <2>1, EmptyQueue
  <2> QED BY <1>1, <1>4, <1>5, <2>1, <2>2 DEF QueueInv
<1>14. TimerInv'
  <2>1. sinceMove' <= Lag => sinceMove' = sinceMove + 1 /\ sinceMove < Lag
    BY <1>3, <1>6
  <2>2. down' /\ sinceMove' <= Lag => heldFor' = sinceMove'
    BY <1>1, <1>3, <1>8, <2>1 DEF TimerInv
  <2>3. ASSUME timer' # Off
        PROVE  /\ timer' \in (-Lag) .. LongPress
               /\ timer' + heldFor' + (IF down' THEN 0 ELSE sinceMove') >= LongPress
               /\ ~down' => queue' # <<>>
    <3>1. /\ timer # Off /\ timer' = timer - 1 /\ timer \in (-Lag) .. LongPress
          /\ timer + heldFor + (IF down THEN 0 ELSE sinceMove) >= LongPress
          /\ ~down => queue # <<>>
      BY <1>1, <1>5, <2>3 DEF TimerInv
    <3>2. timer' \in (-Lag) .. LongPress
      BY <1>1, <1>3, <3>1, SMTT(30)
    <3>3. CASE down
      <4>1. timer + heldFor >= LongPress
        BY <1>3, <3>1, <3>3
      <4>2. timer' + heldFor' >= LongPress
        BY <1>3, <1>8, <3>1, <3>3, <4>1
      <4> QED BY <1>1, <1>3, <1>8, <3>2, <3>3, <4>2
    <3>4. CASE ~down
      <4>1. sinceMove' = sinceMove + 1 /\ heldFor' = heldFor
        BY <1>3, <1>4, <1>6, <1>8, <3>1, <3>4, SMTT(30)
      <4> QED BY <1>1, <1>3, <1>4, <3>1, <3>2, <3>4, <4>1, SMTT(30)
    <3> QED BY <3>3, <3>4
  <2> QED BY <2>2, <2>3 DEF TimerInv
<1> QED BY <1>10, <1>11, <1>12, <1>13, <1>14

LEMMA OtherStepsInv ==
  ASSUME Calm, IInv,
         onLongPressTimer \/ TakeNotification \/ HandlerReturns \/ UNCHANGED vars
  PROVE  IInv'
<1>1. /\ UNCHANGED <<down, sinceMove, heldFor, pin, irq, ready, lastLevel, sinceEdge, queue>>
      /\ timer' = timer \/ timer' = Off
  BY DEF onLongPressTimer, TakeNotification, HandlerReturns, vars, userVars, isrVars, timerVars
<1>2. CASE timer' = timer
  BY <1>1, <1>2 DEF IInv, TypeOK, MoveEdge, EdgeInv, LevelInv, QueueInv, TimerInv, Level
<1>3. CASE timer' = Off
  BY <1>1, <1>3, Bounds, SMTT(30)
     DEF IInv, TypeOK, MoveEdge, EdgeInv, LevelInv, QueueInv, TimerInv, Level
<1> QED BY <1>1, <1>2, <1>3

LEMMA NextInv == Calm /\ IInv /\ [Next]_vars => IInv'
  BY MoveInv, BounceInv, SetupInv, IgnoredEdgeInv, AcceptedEdgeInv, TimerCommandInv,
     TickInv, OtherStepsInv
  DEF Next

LEMMA Invariance == ASSUME Calm PROVE Spec => []IInv
  BY InitInv, NextInv, PTL DEF Spec

-----------------------------------------------------------------------------
(* The theorem *)

\* The timer's callback asks for the reset handler only when the button has been held
\* for LONG_PRESS_MS, less the time the timer task may be late: neither the bouncing
\* of the contacts nor a short press between others starts or keeps the timer.
THEOREM LongPressesOnly == ASSUME Calm PROVE Spec => OnlyLongPresses
<1>1. ASSUME IInv, [Next]_vars, ~notified, notified'
      PROVE  heldFor >= LongPress - Lag
  <2>1. onLongPressTimer
    BY <1>1
    DEF Next, Move, Bounce, setupResetButton, onButtonISR, TimerCommand, TakeNotification,
        HandlerReturns, Tick, vars, taskVars
  <2>2. timer <= 0 /\ timer # Off
    BY <2>1, Bounds DEF onLongPressTimer
  <2>3. /\ timer \in Int /\ heldFor \in Nat /\ sinceMove \in Nat
        /\ timer + heldFor + (IF down THEN 0 ELSE sinceMove) >= LongPress
        /\ ~down => MoveEdge \/ queue # <<>>
    BY <1>1, <2>2, Bounds DEF IInv, TypeOK, TimerInv
  <2>4. MoveEdge \/ queue # <<>> => sinceMove <= Lag
    BY <1>1, Bounds DEF IInv, EdgeInv, QueueInv
  <2> QED BY <2>2, <2>3, <2>4, Bounds, SMTT(30)
<1>2. IInv /\ [Next]_vars => [~notified /\ notified' => heldFor >= LongPress - Lag]_vars
  BY <1>1
<1> QED BY <1>2, Invariance, PTL DEF Spec, OnlyLongPresses
=============================================================================

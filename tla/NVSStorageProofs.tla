--------------------------- MODULE NVSStorageProofs ---------------------------
(***************************************************************************)
(* The safety of the storage wrapper for any number of views, lengths and  *)
(* handles, with and without failures of NVS.                              *)
(***************************************************************************)
EXTENDS NVSStorage, TLAPS

Calls == {"none", "commit", "eraseAll"} \cup ReadCalls \cup WriteCalls
Outputs == [val : Values, len : 0 .. MaxLen]

\* Inside open, once the handle of the view is closed or was never there.
OpenPcs == {"lock", "part", "open"} \cup InitPcs

\* What a task knows where it is in the code of its call: which call it is in,
\* what it holds and what nvsInit has done.
PlaceInv(v) ==
  /\ pc[v] \in OpenPcs \cup {"close"} => call[v] \in ReadCalls \cup WriteCalls
  /\ pc[v] \in OpenPcs => handle[v] = 0
  /\ pc[v] \in {"size", "data"} => call[v] \in {"readStr", "readBlob"}
  /\ pc[v] = "get" => call[v] = "readInt"
  /\ pc[v] = "set" => call[v] \in {"writeStr", "writeBlob", "writeInt"}
  /\ pc[v] \in {"set", "del"} => ~readOnlyMode[v]
  /\ pc[v] # "data" => requiredSize[v] = 0
  /\ call[v] = "readBlob" => requiredSize[v] <= MaxLen
  /\ pc[v] \in InitPcs <=> mtx = v
  /\ pc[v] \in InitPcs \ {"unlock"} => ~nvsInitialized
  /\ pc[v] \in {"part", "open"} => nvsInitialized

PlacesInv == \A v \in Views : PlaceInv(v)

\* No two views hold the same handle, and every open handle is held.
OwnerInv ==
  /\ \A v, w \in Views : handle[v] # 0 /\ handle[v] = handle[w] => v = w
  /\ \A h \in 1 .. MaxHandle : opened[h] # "closed" => \E v \in Views : handle[v] = h

\* The mode a view remembers is the one its handle is open in; only a read-write
\* handle has writes to commit; and there is no handle before nvsInit is done.
ModeInv ==
  \A v \in Views :
    /\ Alive(v) => opened[handle[v]] = IF readOnlyMode[v] THEN "RO" ELSE "RW"
    /\ pending[v] => handle[v] # 0 /\ ~readOnlyMode[v]
    /\ handle[v] # 0 => nvsInitialized

IInv == TypeOK /\ PlacesInv /\ OwnerInv /\ ModeInv /\ ReadStrExact

-----------------------------------------------------------------------------
(* The locals of the tasks *)

\* The locals keep their types, and what a read hands out is exact.
LocalsOK ==
  /\ pc' \in [Views -> Pcs] /\ call' \in [Views -> Calls]
  /\ requiredSize' \in [Views -> 0 .. MaxLen + 1] /\ out' \in Outputs
  /\ ReadStrExact'

\* A task other than v is where it was, with what it had.
Rests(w) ==
  /\ pc'[w] = pc[w] /\ call'[w] = call[w] /\ requiredSize'[w] = requiredSize[w]
  /\ handle'[w] = handle[w] /\ readOnlyMode'[w] = readOnlyMode[w]

LEMMA NothingExact ==
  Nothing \in Outputs /\ Nothing.val.type # "str"
  BY NVSConstants DEF Nothing, Outputs, Values, Absent

LEMMA EnterLocals ==
  ASSUME TypeOK, NEW v \in Views, NEW c \in Calls, NEW p \in Pcs, Enter(v, c, p)
  PROVE  LocalsOK
  BY NothingExact DEF LocalsOK, Enter, TypeOK, Calls, ReadStrExact

LEMMA GoToLocals ==
  ASSUME TypeOK, NEW v \in Views, NEW p \in Pcs, GoTo(v, p)
  PROVE  LocalsOK
  BY NothingExact DEF LocalsOK, GoTo, TypeOK, Calls, ReadStrExact

LEMMA ReturnWithLocals ==
  ASSUME TypeOK, NEW v \in Views, NEW o \in Outputs, ReturnWith(v, o),
         o.val.type = "str" => o.len = o.val.len
  PROVE  LocalsOK
  BY NVSConstants DEF LocalsOK, ReturnWith, TypeOK, Calls, Pcs, ReadStrExact

LEMMA ReturnLocals ==
  ASSUME TypeOK, NEW v \in Views, Return(v)
  PROVE  LocalsOK
  BY NothingExact, ReturnWithLocals DEF Return

\* A step that touches only the locals of one task.
LEMMA LocalStep ==
  ASSUME IInv, NEW v \in Views, LocalsOK, OnlyLocals, PlaceInv(v)',
         \A w \in Views \ {v} : Rests(w)
  PROVE  IInv'
<1>1. TypeOK'
  BY DEF IInv, TypeOK, LocalsOK, OnlyLocals, Calls, Outputs, initVars, dataVars, viewVars
<1>2. ASSUME NEW w \in Views \ {v}
      PROVE  PlaceInv(w)'
  BY <1>2 DEF IInv, PlacesInv, PlaceInv, Rests, OnlyLocals, initVars, viewVars
<1>3. OwnerInv' /\ ModeInv'
  BY DEF IInv, OwnerInv, ModeInv, Alive, OnlyLocals, initVars, viewVars
<1> QED BY <1>1, <1>2, <1>3 DEF IInv, PlacesInv, LocalsOK

\* Closing the handle of a view keeps the types.
LEMMA DropHandleType ==
  ASSUME TypeOK, NEW v \in Views, DropHandle(v)
  PROVE  /\ opened' \in [1 .. MaxHandle -> {"closed", "RO", "RW"}]
         /\ handle' \in [Views -> 0 .. MaxHandle] /\ pending' \in [Views -> BOOLEAN]
  BY NVSConstants DEF TypeOK, DropHandle, Closed

\* What one object takes over from another is of the same type.
LEMMA TakeOverType ==
  ASSUME NEW S, NEW f \in [Views -> S], NEW v \in Views, NEW w \in Views, NEW b \in S
  PROVE  [f EXCEPT ![v] = f[w], ![w] = b] \in [Views -> S]
  OBVIOUS

\* The tasks other than the one a helper moves rest, as far as locals go.
LEMMA OthersRest ==
  ASSUME TypeOK, NEW v \in Views, UNCHANGED <<handle, readOnlyMode>>,
         \/ \E c \in Calls, p \in Pcs : Enter(v, c, p)
         \/ \E p \in Pcs : GoTo(v, p)
         \/ \E o \in Outputs : ReturnWith(v, o)
  PROVE  \A w \in Views \ {v} : Rests(w)
  BY DEF TypeOK, Enter, GoTo, ReturnWith, Rests

\* A task that has returned knows nothing and holds nothing.
LEMMA ReturnStep ==
  ASSUME IInv, NEW v \in Views, OnlyLocals, pc[v] \notin InitPcs,
         NEW o \in Outputs, ReturnWith(v, o), o.val.type = "str" => o.len = o.val.len
  PROVE  IInv'
<1>1. LocalsOK
  BY ReturnWithLocals DEF IInv
<1>2. \A w \in Views \ {v} : Rests(w)
  BY OthersRest DEF IInv, OnlyLocals, viewVars
<1>3. PlaceInv(v)'
  BY DEF IInv, TypeOK, PlacesInv, PlaceInv, ReturnWith, OnlyLocals, initVars,
         OpenPcs, InitPcs, ReadCalls, WriteCalls
<1> QED BY <1>1, <1>2, <1>3, LocalStep

LEMMA ReturnNothingStep ==
  ASSUME IInv, NEW v \in Views, OnlyLocals, pc[v] \notin InitPcs, Return(v)
  PROVE  IInv'
  BY NothingExact, ReturnStep DEF Return

\* The call of v moves on to p, for which PlaceInv has to be shown.
LEMMA GoToStep ==
  ASSUME IInv, NEW v \in Views, OnlyLocals, NEW p \in Pcs, GoTo(v, p), PlaceInv(v)'
  PROVE  IInv'
<1>1. LocalsOK
  BY GoToLocals DEF IInv
<1>2. \A w \in Views \ {v} : Rests(w)
  BY OthersRest DEF IInv, OnlyLocals, viewVars
<1> QED BY <1>1, <1>2, LocalStep

-----------------------------------------------------------------------------
(* The initial states, and one lemma for each part of the next-state relation *)

LEMMA InitInv == Init => IInv
<1> SUFFICES ASSUME Init
             PROVE  IInv
  OBVIOUS
<1>1. TypeOK
  <2>1. out \in [val : Values, len : 0 .. MaxLen]
    BY NothingExact DEF Init, Outputs
  <2>2. /\ {nvsInitialized, needsErase, unsaved} \subseteq BOOLEAN
        /\ {readOnlyMode, valid, pending} \subseteq [Views -> BOOLEAN]
        /\ mtx \in Views \cup {Nobody} /\ store \in Values
    BY DEF Init, mutexInit
  <2>3. /\ opened \in [1 .. MaxHandle -> {"closed", "RO", "RW"}]
        /\ handle \in [Views -> 0 .. MaxHandle]
        /\ requiredSize \in [Views -> 0 .. MaxLen + 1]
    BY NVSConstants DEF Init
  <2>4. pc \in [Views -> Pcs] /\ call \in [Views -> Calls]
    BY DEF Init, Pcs, Calls
  <2> QED BY <2>1, <2>2, <2>3, <2>4 DEF TypeOK, Calls
<1>2. PlacesInv
  BY NVSConstants DEF Init, mutexInit, PlacesInv, PlaceInv, OpenPcs, InitPcs
<1>3. OwnerInv /\ ModeInv
  BY DEF Init, OwnerInv, ModeInv, Alive
<1>4. ReadStrExact
  BY DEF Init, ReadStrExact, Nothing, Absent
<1> QED BY <1>1, <1>2, <1>3, <1>4 DEF IInv

\* A read or write is called: AfterEnter sends it where its handle lets it go.
LEMMA CallInv ==
  ASSUME IInv, NEW v \in Views, NEW c \in ReadCalls \cup WriteCalls, Call(v, c)
  PROVE  IInv'
<1> DEFINE p == AfterEnter(v, c)
<1>1. c \in Calls
  BY DEF Calls
<1>2. \/ p = "close"
      \/ handle[v] # 0 /\ (c \in ReadCalls \/ ~readOnlyMode[v]) /\ p = FirstStep[c]
      \/ handle[v] = 0 /\ p = "lock"
  BY DEF AfterEnter, Upgrade, ReadCalls, WriteCalls, IInv, TypeOK
<1>3. FirstStep[c] \in {"size", "get", "set", "del"}
  BY DEF FirstStep, ReadCalls, WriteCalls
<1>4. p \in Pcs
  BY <1>2, <1>3 DEF Pcs, HandlePcs
<1>5. LocalsOK
  BY <1>1, <1>4, EnterLocals DEF Call, IInv
<1>6. \A w \in Views \ {v} : Rests(w)
  BY <1>1, <1>4, OthersRest DEF Call, IInv, OnlyLocals, viewVars
<1>7. pc'[v] = p /\ call'[v] = c /\ pc[v] = "idle"
  BY DEF Call, Enter, IInv, TypeOK
<1>8. /\ p \in {"size", "data"} => c \in {"readStr", "readBlob"}
      /\ p = "get" => c = "readInt"
      /\ p = "set" => c \in {"writeStr", "writeBlob", "writeInt"}
      /\ p \in {"set", "del"} => ~readOnlyMode[v]
  BY <1>2 DEF FirstStep, ReadCalls, WriteCalls
<1>9. PlaceInv(v)'
  BY <1>2, <1>3, <1>7, <1>8, NVSConstants
     DEF IInv, PlacesInv, PlaceInv, Call, Enter, OnlyLocals, initVars, viewVars,
         OpenPcs, InitPcs
<1> QED BY <1>5, <1>6, <1>9, LocalStep DEF Call

\* The steps of open and nvsInit.
LEMMA OpenInv ==
  ASSUME IInv, NEW v \in Views, OpenStep(v)
  PROVE  IInv'
<1> USE DEF IInv
<1>1. ASSUME Close(v) PROVE IInv'
  <2>1. OwnerInv'
    BY <1>1 DEF Close, DropHandle, Closed, TypeOK, OwnerInv
  <2>2. ModeInv'
    BY <1>1 DEF Close, DropHandle, Closed, TypeOK, OwnerInv, ModeInv, Alive, initVars
  <2>3. PlacesInv'
    BY <1>1 DEF Close, DropHandle, GoTo, TypeOK, PlacesInv, PlaceInv, initVars,
               OpenPcs, InitPcs
  <2>4. LocalsOK
    BY <1>1, GoToLocals DEF Close, Pcs
  <2>5. TypeOK'
    BY <1>1, <2>4, DropHandleType DEF Close, TypeOK, LocalsOK, Calls, Outputs, initVars,
               dataVars
  <2> QED BY <2>1, <2>2, <2>3, <2>4, <2>5 DEF LocalsOK
<1>2. ASSUME Lock(v) PROVE IInv'
  <2> DEFINE p == IF nvsInitialized THEN "unlock" ELSE "init"
  <2>1. OwnerInv' /\ ModeInv'
    BY <1>2 DEF Lock, OwnerInv, ModeInv, Alive, viewVars
  <2>2. GoTo(v, p) /\ p \in {"unlock", "init"}
    BY <1>2 DEF Lock
  <2>3. PlacesInv'
    BY <1>2, <2>2, NVSConstants DEF Lock, mutexLock, GoTo, TypeOK, PlacesInv, PlaceInv,
               viewVars, OpenPcs, InitPcs
  <2>4. LocalsOK
    BY <2>2, GoToLocals DEF Pcs, InitPcs
  <2>5. TypeOK'
    BY <1>2, <2>4 DEF Lock, mutexLock, TypeOK, LocalsOK, Calls, Outputs, dataVars, viewVars
  <2> QED BY <2>1, <2>3, <2>4, <2>5 DEF LocalsOK
<1>3. ASSUME FlashInit(v) PROVE IInv'
  <2>1. OwnerInv' /\ ModeInv'
    BY <1>3 DEF FlashInit, TypeOK, OwnerInv, ModeInv, Alive, viewVars
  <2>2. PlacesInv'
    BY <1>3, NVSConstants DEF FlashInit, GoTo, TypeOK, PlacesInv, PlaceInv,
               viewVars, OpenPcs, InitPcs
  <2>3. LocalsOK
    BY <1>3, GoToLocals DEF FlashInit, Pcs, InitPcs
  <2>4. TypeOK'
    BY <1>3, <2>3 DEF FlashInit, TypeOK, LocalsOK, Calls, Outputs, dataVars, viewVars
  <2> QED BY <2>1, <2>2, <2>3, <2>4 DEF LocalsOK
<1>4. ASSUME InitRefused(v) PROVE IInv'
  <2>1. PlaceInv(v)'
    BY <1>4 DEF InitRefused, GoTo, TypeOK, PlacesInv, PlaceInv, OnlyLocals, initVars,
               viewVars, OpenPcs, InitPcs
  <2> QED BY <1>4, <2>1, GoToStep DEF InitRefused, Pcs, InitPcs
<1>5. ASSUME Format(v) PROVE IInv'
  <2> \A w \in Views : handle[w] = 0 /\ ~pending[w]
    BY <1>5 DEF Format, TypeOK, PlacesInv, PlaceInv, ModeInv, InitPcs
  <2>0. /\ \A h \in 1 .. MaxHandle : opened'[h] \in {"closed", opened[h]}
        /\ opened' \in [1 .. MaxHandle -> {"closed", "RO", "RW"}]
    BY <1>5 DEF Format, TypeOK
  <2>1. OwnerInv' /\ ModeInv'
    BY <1>5, <2>0 DEF Format, TypeOK, OwnerInv, ModeInv, Alive, viewVars
  <2>2. PlacesInv'
    BY <1>5 DEF Format, GoTo, TypeOK, PlacesInv, PlaceInv, viewVars, OpenPcs, InitPcs
  <2>3. LocalsOK
    BY <1>5, GoToLocals DEF Format, Pcs, InitPcs
  <2>4. TypeOK'
    BY <1>5, <2>3 DEF Format, TypeOK, LocalsOK, Calls, Outputs, dataVars, viewVars, Values
  <2> QED BY <2>1, <2>2, <2>3, <2>4 DEF LocalsOK
<1>6. ASSUME Unlock(v) PROVE IInv'
  <2>1. OwnerInv' /\ ModeInv'
    BY <1>6 DEF Unlock, OwnerInv, ModeInv, Alive, viewVars
  <2>2. CASE nvsInitialized
    <3>1. PlacesInv'
      BY <1>6, <2>2, NVSConstants DEF Unlock, mutexUnlock, GoTo, TypeOK, PlacesInv,
                 PlaceInv, viewVars, OpenPcs, InitPcs
    <3>2. LocalsOK
      BY <1>6, <2>2, GoToLocals DEF Unlock, Pcs
    <3>3. TypeOK'
      BY <1>6, <3>2 DEF Unlock, mutexUnlock, TypeOK, LocalsOK, Calls, Outputs, dataVars,
                 viewVars
    <3> QED BY <2>1, <3>1, <3>2, <3>3 DEF LocalsOK
  <2>3. CASE ~nvsInitialized
    <3>1. PlacesInv'
      BY <1>6, <2>3, NVSConstants DEF Unlock, mutexUnlock, Return, ReturnWith, TypeOK,
                 PlacesInv, PlaceInv, viewVars, OpenPcs, InitPcs, ReadCalls, WriteCalls
    <3>2. LocalsOK
      BY <1>6, <2>3, ReturnLocals DEF Unlock
    <3>3. TypeOK'
      BY <1>6, <3>2 DEF Unlock, mutexUnlock, TypeOK, LocalsOK, Calls, Outputs, dataVars,
                 viewVars
    <3> QED BY <2>1, <3>1, <3>2, <3>3 DEF LocalsOK
  <2> QED BY <2>2, <2>3
<1>7. ASSUME PartInit(v) PROVE IInv'
  <2>1. CASE GoTo(v, "open")
    <3>1. PlaceInv(v)'
      BY <1>7, <2>1 DEF PartInit, GoTo, TypeOK, PlacesInv, PlaceInv, OnlyLocals, initVars,
                 viewVars, OpenPcs, InitPcs
    <3> QED BY <1>7, <2>1, <3>1, GoToStep DEF PartInit, Pcs
  <2>2. CASE Return(v)
    BY <1>7, <2>2, ReturnNothingStep DEF PartInit, InitPcs
  <2> QED BY <1>7, <2>1, <2>2 DEF PartInit
<1>8. ASSUME Open(v) PROVE IInv'
  <2> DEFINE p == FirstStep[call[v]]
             mode == IF call[v] \in ReadCalls THEN "RO" ELSE "RW"
  <2>1. PICK h \in FreshHandles :
          handle' = [handle EXCEPT ![v] = h] /\ opened' = [opened EXCEPT ![h] = mode]
    BY <1>8 DEF Open
  <2>2. /\ h \in 1 .. MaxHandle /\ opened[h] = "closed"
        /\ \A w \in Views : handle[w] # h
    BY DEF FreshHandles
  <2>3. /\ handle[v] = 0 /\ nvsInitialized /\ pc[v] = "open" /\ requiredSize[v] = 0
        /\ call[v] \in ReadCalls \cup WriteCalls /\ mtx # v
    BY <1>8 DEF Open, PlacesInv, PlaceInv, OpenPcs, InitPcs
  <2>4. /\ p \in {"size", "get", "set", "del"}
        /\ p = "size" => call[v] \in {"readStr", "readBlob"}
        /\ p = "get" => call[v] = "readInt"
        /\ p = "set" => call[v] \in {"writeStr", "writeBlob", "writeInt"}
        /\ p \in {"set", "del"} => call[v] \notin ReadCalls
    BY <2>3 DEF FirstStep, ReadCalls, WriteCalls
  <2>5. OwnerInv'
    BY <2>1, <2>2, <2>3 DEF TypeOK, OwnerInv
  <2>6. ASSUME NEW w \in Views
        PROVE  /\ Alive(w)' => opened'[handle'[w]] = IF readOnlyMode'[w] THEN "RO" ELSE "RW"
               /\ pending'[w] => handle'[w] # 0 /\ ~readOnlyMode'[w]
               /\ handle'[w] # 0 => nvsInitialized'
    <3>1. /\ readOnlyMode' = [readOnlyMode EXCEPT ![v] = call[v] \in ReadCalls]
          /\ pending' = pending /\ nvsInitialized' = nvsInitialized
      BY <1>8 DEF Open, ModeAfterOpen, initVars
    <3>2. CASE w = v
      BY <2>1, <2>2, <2>3, <3>1, <3>2 DEF TypeOK, ModeInv, Alive
    <3>3. CASE w # v
      BY <2>1, <2>2, <3>1, <3>3 DEF TypeOK, ModeInv, Alive
    <3> QED BY <3>2, <3>3
  <2>7. PlacesInv'
    <3>1. /\ pc' = [pc EXCEPT ![v] = p] /\ call' = call /\ requiredSize' = requiredSize
          /\ mtx' = mtx /\ nvsInitialized' = nvsInitialized
          /\ readOnlyMode' = [readOnlyMode EXCEPT ![v] = call[v] \in ReadCalls]
      BY <1>8 DEF Open, ModeAfterOpen, GoTo, initVars
    <3> HIDE DEF p
    <3>2. ASSUME NEW w \in Views \ {v}
          PROVE  PlaceInv(w)'
      <4>1. /\ pc'[w] = pc[w] /\ handle'[w] = handle[w] /\ readOnlyMode'[w] = readOnlyMode[w]
            /\ PlaceInv(w)
        BY <2>1, <3>1 DEF TypeOK, PlacesInv
      <4> QED BY <3>1, <4>1 DEF PlaceInv
    <3>3. pc'[v] = p /\ (readOnlyMode'[v] <=> call[v] \in ReadCalls)
      BY <3>1 DEF TypeOK
    <3>4. PlaceInv(v)'
      BY <2>3, <2>4, <3>1, <3>3, NVSConstants DEF PlaceInv, OpenPcs, InitPcs
    <3> QED BY <3>2, <3>4 DEF PlacesInv
  <2>8. LocalsOK
    BY <1>8, <2>4, GoToLocals DEF Open, Pcs, HandlePcs
  <2>9. TypeOK'
    <3>1. /\ opened' \in [1 .. MaxHandle -> {"closed", "RO", "RW"}]
          /\ handle' \in [Views -> 0 .. MaxHandle]
      BY <2>1, <2>2 DEF TypeOK
    <3>2. {readOnlyMode', valid', pending'} \subseteq [Views -> BOOLEAN]
      BY <1>8 DEF Open, ModeAfterOpen, TypeOK
    <3> QED BY <1>8, <2>8, <3>1, <3>2 DEF Open, TypeOK, LocalsOK, Calls, Outputs, initVars,
               dataVars
  <2> QED BY <2>5, <2>6, <2>7, <2>8, <2>9 DEF LocalsOK, ModeInv
<1>9. ASSUME OpenFails(v) PROVE IInv'
  BY <1>9, ReturnNothingStep DEF OpenFails, InitPcs
<1> QED
  BY <1>1, <1>2, <1>3, <1>4, <1>5, <1>6, <1>7, <1>8, <1>9 DEF OpenStep

\* The calls into NVS with the handle.
LEMMA HandleInv ==
  ASSUME IInv, NEW v \in Views, HandleStep(v)
  PROVE  IInv'
<1> USE DEF IInv
<1>1. ASSUME Refused(v) PROVE IInv'
  BY <1>1, ReturnNothingStep DEF Refused, HandlePcs, InitPcs
<1>2. ASSUME Inconsistent(v) PROVE IInv'
  <2>1. OwnerInv'
    BY <1>2 DEF Inconsistent, DropHandle, Closed, TypeOK, OwnerInv
  <2>2. ModeInv'
    BY <1>2 DEF Inconsistent, DropHandle, Closed, TypeOK, OwnerInv, ModeInv, Alive, initVars
  <2>3. PlacesInv'
    BY <1>2, NVSConstants DEF Inconsistent, DropHandle, Return, ReturnWith, TypeOK, PlacesInv,
               PlaceInv, initVars, OpenPcs, InitPcs, HandlePcs, ReadCalls, WriteCalls
  <2>4. LocalsOK
    BY <1>2, ReturnLocals DEF Inconsistent
  <2>5. TypeOK'
    BY <1>2, <2>4, DropHandleType DEF Inconsistent, TypeOK, LocalsOK, Calls, Outputs,
               initVars, dataVars
  <2> QED BY <2>1, <2>2, <2>3, <2>4, <2>5 DEF LocalsOK
<1>3. ASSUME NotFound(v) PROVE IInv'
  BY <1>3, ReturnNothingStep DEF NotFound, InitPcs
<1>4. ASSUME Size(v) PROVE IInv'
  <2>1. CASE StoredSize(store) = 0
    <3>1. store.type # "str" /\ [val |-> store, len |-> 0] \in Outputs
      BY <2>1, NVSConstants DEF StoredSize, TypeOK, Values, Written, Absent, Outputs
    <3>2. ReturnWith(v, [val |-> store, len |-> 0])
      BY <1>4, <2>1 DEF Size
    <3> QED BY <1>4, <3>1, <3>2, ReturnStep DEF Size, InitPcs
  <2>2. CASE StoredSize(store) # 0
    <3>1. /\ StoredSize(store) \in 0 .. MaxLen + 1
          /\ store.type # "str" => StoredSize(store) <= MaxLen
      BY NVSConstants, SMTT(30) DEF StoredSize, TypeOK, Values, Written, Absent
    <3>2. call[v] = "readBlob" => store.type # "str"
      BY <1>4 DEF Size, Matches, TypeOf
    <3>3. /\ pc' = [pc EXCEPT ![v] = "data"]
          /\ requiredSize' = [requiredSize EXCEPT ![v] = StoredSize(store)]
          /\ out' = Nothing /\ call' = call
      BY <1>4, <2>2 DEF Size
    <3>4. LocalsOK
      BY <3>1, <3>3, NothingExact DEF LocalsOK, TypeOK, Calls, Pcs, HandlePcs, ReadStrExact
    <3>5. PlaceInv(v)'
      BY <1>4, <3>1, <3>2, <3>3 DEF Size, TypeOK, PlacesInv, PlaceInv, OnlyLocals, initVars,
                 viewVars, OpenPcs, InitPcs
    <3>6. \A w \in Views \ {v} : Rests(w)
      BY <1>4, <3>3 DEF Size, TypeOK, Rests, OnlyLocals, viewVars
    <3> QED BY <1>4, <3>4, <3>5, <3>6, LocalStep DEF Size
  <2> QED BY <2>1, <2>2
<1>5. ASSUME Data(v) PROVE IInv'
  <2> DEFINE o == [val |-> store, len |-> ContentLen(v)]
  <2>1. /\ store.type = "str" => ContentLen(v) = store.len
        /\ store.type # "str" => ContentLen(v) = requiredSize[v]
        /\ store.type # "str" => call[v] = "readBlob"
    BY <1>5, NVSConstants DEF Data, Matches, TypeOf, ContentLen, StoredSize, TypeOK, Values,
               Written, Absent, PlacesInv, PlaceInv
  <2>2. ContentLen(v) \in 0 .. MaxLen
    BY <2>1, NVSConstants DEF TypeOK, Values, Written, Absent, PlacesInv, PlaceInv
  <2>3. o \in Outputs /\ (o.val.type = "str" => o.len = o.val.len)
    BY <2>1, <2>2 DEF Outputs, TypeOK
  <2>4. ReturnWith(v, o) /\ OnlyLocals /\ pc[v] \notin InitPcs
    BY <1>5 DEF Data, InitPcs
  <2> QED BY <2>3, <2>4, ReturnStep
<1>6. ASSUME Get(v) PROVE IInv'
  <2>1. call[v] = "readInt" /\ store.type = "i32"
    BY <1>6 DEF Get, Matches, TypeOf, PlacesInv, PlaceInv
  <2>2. [val |-> store, len |-> 1] \in Outputs
    BY NVSConstants DEF TypeOK, Outputs
  <2> QED BY <1>6, <2>1, <2>2, ReturnStep DEF Get, InitPcs
<1>7. ASSUME NEW new \in Values, Store(v, new), pc[v] \in {"set", "del"}, Alive(v)
      PROVE  IInv'
  <2>1. ~readOnlyMode[v] /\ handle[v] # 0
    BY <1>7 DEF PlacesInv, PlaceInv, Alive
  <2>2. OwnerInv' /\ ModeInv'
    BY <1>7, <2>1, ZenonT(60)
       DEF Store, TypeOK, OwnerInv, ModeInv, Alive, initVars, viewVars, dataVars
  <2>3. PlacesInv'
    BY <1>7, NVSConstants DEF Store, Return, ReturnWith, TypeOK, PlacesInv, PlaceInv,
               initVars, viewVars, OpenPcs, InitPcs, ReadCalls, WriteCalls
  <2>4. LocalsOK
    BY <1>7, ReturnLocals DEF Store
  <2>5. store' \in Values /\ unsaved' \in BOOLEAN /\ pending' \in [Views -> BOOLEAN]
    BY <1>7 DEF Store, TypeOK, dataVars
  <2>6. TypeOK'
    BY <1>7, <2>4, <2>5 DEF Store, TypeOK, LocalsOK, Calls, Outputs, initVars, viewVars
  <2> QED BY <2>2, <2>3, <2>4, <2>6 DEF LocalsOK
<1>8. ASSUME Set(v) PROVE IInv'
  BY <1>7, <1>8 DEF Set, Values
<1>9. ASSUME Del(v) PROVE IInv'
  BY <1>7, <1>9 DEF Del, Values
<1> QED
  BY <1>1, <1>2, <1>3, <1>4, <1>5, <1>6, <1>8, <1>9 DEF HandleStep

\* commit, eraseAll and the life of a view.
LEMMA LifeInv ==
  ASSUME IInv, NEW v \in Views,
         \/ CommitCall(v) \/ Commit(v) \/ EraseAllCall(v) \/ ErasePartition(v)
         \/ InitPartition(v) \/ Renew(v) \/ \E w \in Views : MoveAssign(v, w)
  PROVE  IInv'
<1> USE DEF IInv
<1>1. ASSUME CommitCall(v) PROVE IInv'
  <2>1. CASE readOnlyMode[v]
    <3>1. LocalsOK /\ Return(v)
      BY <1>1, <2>1, ReturnLocals DEF CommitCall
    <3>2. pending' = [pending EXCEPT ![v] = FALSE]
      BY <1>1, <2>1 DEF CommitCall
    <3>3. OwnerInv' /\ ModeInv'
      BY <1>1, <3>2 DEF CommitCall, TypeOK, OwnerInv, ModeInv, Alive, initVars, viewVars
    <3>4. PlacesInv'
      BY <1>1, <3>1, NVSConstants DEF CommitCall, Return, ReturnWith, TypeOK, PlacesInv,
                 PlaceInv, initVars, viewVars, OpenPcs, InitPcs, ReadCalls, WriteCalls
    <3>5. TypeOK'
      BY <1>1, <3>1, <3>2 DEF CommitCall, TypeOK, LocalsOK, Calls, Outputs, initVars,
                 dataVars, viewVars
    <3> QED BY <3>1, <3>3, <3>4, <3>5 DEF LocalsOK
  <2>2. CASE ~readOnlyMode[v]
    <3>1. Enter(v, "commit", "commit") /\ OnlyLocals
      BY <1>1, <2>2 DEF CommitCall, OnlyLocals
    <3>2. LocalsOK
      BY <3>1, EnterLocals DEF Calls, Pcs, HandlePcs
    <3>3. PlaceInv(v)'
      BY <1>1, <3>1 DEF CommitCall, Enter, OnlyLocals, TypeOK, PlacesInv, PlaceInv,
                 initVars, viewVars, OpenPcs, InitPcs
    <3>4. \A w \in Views \ {v} : Rests(w)
      BY <3>1 DEF Enter, OnlyLocals, TypeOK, Rests, viewVars
    <3> QED BY <3>1, <3>2, <3>3, <3>4, LocalStep
  <2> QED BY <2>1, <2>2
<1>2. ASSUME Commit(v) PROVE IInv'
  <2>1. OwnerInv' /\ ModeInv'
    BY <1>2 DEF Commit, TypeOK, OwnerInv, ModeInv, Alive, initVars, viewVars
  <2>2. PlacesInv'
    BY <1>2, NVSConstants DEF Commit, Return, ReturnWith, TypeOK, PlacesInv, PlaceInv,
               initVars, viewVars, OpenPcs, InitPcs, ReadCalls, WriteCalls
  <2>3. LocalsOK
    BY <1>2, ReturnLocals DEF Commit
  <2>4. TypeOK'
    BY <1>2, <2>3, ZenonT(60) DEF Commit, TypeOK, LocalsOK, Calls, Outputs, initVars, viewVars
  <2> QED BY <2>1, <2>2, <2>3, <2>4 DEF LocalsOK
<1>3. ASSUME EraseAllCall(v) PROVE IInv'
  <2>1. Enter(v, "eraseAll", "erase_part") /\ OnlyLocals
    BY <1>3 DEF EraseAllCall
  <2>2. LocalsOK
    BY <2>1, EnterLocals DEF Calls, Pcs
  <2>3. PlaceInv(v)'
    BY <1>3, <2>1 DEF EraseAllCall, Enter, OnlyLocals, TypeOK, PlacesInv, PlaceInv,
               initVars, viewVars, OpenPcs, InitPcs
  <2>4. \A w \in Views \ {v} : Rests(w)
    BY <2>1 DEF Enter, OnlyLocals, TypeOK, Rests, viewVars
  <2> QED BY <2>1, <2>2, <2>3, <2>4, LocalStep
<1>4. ASSUME ErasePartition(v) PROVE IInv'
  <2>0. /\ \A h \in 1 .. MaxHandle : opened'[h] \in {"closed", opened[h]}
        /\ opened' \in [1 .. MaxHandle -> {"closed", "RO", "RW"}]
        /\ pending' \in [Views -> BOOLEAN]
        /\ \A w \in Views : pending'[w] => pending[w]
    BY <1>4 DEF ErasePartition, TypeOK
  <2>1. OwnerInv' /\ ModeInv'
    BY <1>4, <2>0 DEF ErasePartition, TypeOK, OwnerInv, ModeInv, Alive, initVars, viewVars
  <2>2. PlacesInv'
    BY <1>4 DEF ErasePartition, GoTo, TypeOK, PlacesInv, PlaceInv, initVars, viewVars,
               OpenPcs, InitPcs
  <2>3. LocalsOK
    BY <1>4, GoToLocals DEF ErasePartition, Pcs
  <2>4. TypeOK'
    BY <1>4, <2>0, <2>3, ZenonT(60)
       DEF ErasePartition, TypeOK, LocalsOK, Calls, Outputs, initVars, viewVars, dataVars,
           Values
  <2> QED BY <2>1, <2>2, <2>3, <2>4 DEF LocalsOK
<1>5. ASSUME InitPartition(v) PROVE IInv'
  BY <1>5, ReturnNothingStep DEF InitPartition, InitPcs
<1>6. ASSUME Renew(v) PROVE IInv'
  <2>1. OwnerInv'
    BY <1>6 DEF Renew, DropHandle, Closed, TypeOK, OwnerInv
  <2>2. ModeInv'
    BY <1>6 DEF Renew, DropHandle, Closed, TypeOK, OwnerInv, ModeInv, Alive, initVars
  <2>3. PlacesInv'
    BY <1>6 DEF Renew, DropHandle, TypeOK, PlacesInv, PlaceInv, initVars, OpenPcs, InitPcs
  <2>4. TypeOK'
    BY <1>6, DropHandleType, NothingExact DEF Renew, TypeOK, Outputs, initVars, dataVars
  <2> QED BY <1>6, <2>1, <2>2, <2>3, <2>4, NothingExact DEF Renew, ReadStrExact
<1>7. ASSUME NEW w \in Views, MoveAssign(v, w) PROVE IInv'
  <2> DEFINE h == handle[v]
  <2>1. /\ v # w /\ pc[v] = "idle" /\ pc[w] = "idle"
        /\ handle' = [handle EXCEPT ![v] = handle[w], ![w] = 0]
        /\ readOnlyMode' = [readOnlyMode EXCEPT ![v] = readOnlyMode[w], ![w] = FALSE]
        /\ pending' = [pending EXCEPT ![v] = pending[w], ![w] = FALSE]
        /\ nvsInitialized' = nvsInitialized
    BY <1>7 DEF MoveAssign, initVars
  <2>2. /\ opened' \in [1 .. MaxHandle -> {"closed", "RO", "RW"}]
        /\ h # 0 => opened'[h] = "closed"
        /\ \A g \in 1 .. MaxHandle : g # h => opened'[g] = opened[g]
    BY <1>7 DEF MoveAssign, MoveAssignClosed, Closed, TypeOK
  <2>3. OwnerInv'
    <3>1. ASSUME NEW x \in Views, NEW y \in Views, handle'[x] # 0, handle'[x] = handle'[y]
          PROVE  x = y
      BY <2>1, <3>1 DEF TypeOK, OwnerInv
    <3>2. ASSUME NEW g \in 1 .. MaxHandle, opened'[g] # "closed"
          PROVE  \E x \in Views : handle'[x] = g
      <4>1. opened[g] # "closed" /\ g # h
        BY <2>2, <3>2
      <4>2. PICK x \in Views : handle[x] = g
        BY <4>1 DEF OwnerInv
      <4>3. CASE x = w
        BY <2>1, <4>2, <4>3 DEF TypeOK
      <4>4. CASE x # w
        BY <2>1, <4>1, <4>2, <4>4 DEF TypeOK
      <4> QED BY <4>3, <4>4
    <3> QED BY <3>1, <3>2 DEF OwnerInv
  <2>4. ModeInv'
    BY <2>1, <2>2 DEF TypeOK, OwnerInv, ModeInv, Alive
  <2>5. PlacesInv'
    BY <1>7, <2>1 DEF MoveAssign, TypeOK, PlacesInv, PlaceInv, initVars, OpenPcs, InitPcs
  <2>6. TypeOK'
    <3>1. handle' \in [Views -> 0 .. MaxHandle]
      <4>1. 0 \in 0 .. MaxHandle
        BY NVSConstants
      <4> QED BY <2>1, <4>1, TakeOverType DEF TypeOK
    <3>2. {readOnlyMode', valid', pending'} \subseteq [Views -> BOOLEAN]
      <4>1. readOnlyMode' \in [Views -> BOOLEAN]
        BY <2>1, TakeOverType DEF TypeOK
      <4>2. valid' \in [Views -> BOOLEAN]
        BY <1>7, TakeOverType DEF MoveAssign, TypeOK
      <4>3. pending' \in [Views -> BOOLEAN]
        BY <2>1, TakeOverType DEF TypeOK
      <4> QED BY <4>1, <4>2, <4>3
    <3> QED BY <1>7, <2>2, <3>1, <3>2, NothingExact
            DEF MoveAssign, TypeOK, Outputs, initVars, dataVars
  <2> QED BY <1>7, <2>3, <2>4, <2>5, <2>6, NothingExact DEF MoveAssign, ReadStrExact
<1> QED BY <1>1, <1>2, <1>3, <1>4, <1>5, <1>6, <1>7

\* One part of the specification's next-state relation per step of the proof.
LEMMA NextInv == IInv /\ [Next]_vars => IInv'
<1>1. ASSUME IInv, UNCHANGED vars
      PROVE  IInv'
  BY <1>1 DEF IInv, TypeOK, PlacesInv, PlaceInv, OwnerInv, ModeInv, Alive, ReadStrExact,
             vars, initVars, dataVars, viewVars, localVars
<1>2. ASSUME IInv, NEW v \in Views, NEW c \in ReadCalls \cup WriteCalls, Call(v, c)
      PROVE  IInv'
  BY <1>2, CallInv
<1> QED
  BY <1>1, <1>2, OpenInv, HandleInv, LifeInv
     DEF Next, Step, readStr, readBlob, readInt, writeStr, writeBlob, writeInt, erase,
         ReadCalls, WriteCalls

LEMMA Invariance == Spec => []IInv
  BY InitInv, NextInv, PTL DEF Spec

-----------------------------------------------------------------------------
(* The results *)

\* The variables keep their types: in particular what a read leaves in the output
\* of its caller is a value with a length within the bounds of what was stored.
THEOREM TypeCorrect == Spec => []TypeOK
<1>1. IInv => TypeOK
  BY DEF IInv
<1> QED BY <1>1, Invariance, PTL

\* Every handle open in NVS belongs to exactly one NVSStorage object, through the
\* reopening of open(false), the recovery of convertError, the move assignment and
\* the destructor, for any number of objects and of tasks that use them.
THEOREM OneOwner == Spec => []EveryHandleHasOneOwner
<1>1. IInv => EveryHandleHasOneOwner
  BY DEF IInv, TypeOK, OwnerInv, EveryHandleHasOneOwner
<1> QED BY <1>1, Invariance, PTL

\* A write or an erase reaches NVS through a handle that is open read-write: open
\* never leaves the handle of an earlier read in place for it.
THEOREM WriteAccess == Spec => []WritesNeedWriteAccess
<1>1. IInv => WritesNeedWriteAccess
  BY DEF IInv, PlacesInv, PlaceInv, ModeInv, WritesNeedWriteAccess
<1> QED BY <1>1, Invariance, PTL

\* nvsInit erases the flash only while no object has a handle and nvsInitialized is
\* still false, however many tasks run into it at the same time.
THEOREM FormatFirst == Spec => []FormatOnlyBeforeUse
<1>1. IInv => FormatOnlyBeforeUse
  BY DEF IInv, TypeOK, PlacesInv, PlaceInv, OwnerInv, ModeInv, InitPcs, FormatOnlyBeforeUse
<1> QED BY <1>1, Invariance, PTL

\* readStr hands out a string with its own length, whatever is written between its
\* two calls into NVS.
THEOREM StringsExact == Spec => []ReadStrExact
<1>1. IInv => ReadStrExact
  BY DEF IInv
<1> QED BY <1>1, Invariance, PTL

\* A commit that answers OK has secured the writes acknowledged through its handle:
\* no other call, move or failure takes the mark of an uncommitted write away from
\* an object that keeps its handle, except eraseAll, which erases the data too.
THEOREM CommitSecure == Spec => CommitSecuresWrites
<1> DEFINE Secured(v) == pending[v] /\ ~pending'[v] /\ handle'[v] = handle[v] => ~unsaved'
<1>1. ASSUME IInv, [Next]_vars, NEW v \in Views
      PROVE  Secured(v)
  <2> SUFFICES ASSUME pending[v], ~pending'[v], handle'[v] = handle[v]
               PROVE  ~unsaved'
    OBVIOUS
  <2>1. handle[v] # 0 /\ ~readOnlyMode[v]
    BY <1>1 DEF IInv, ModeInv
  <2>2. pending' # pending
    OBVIOUS
  <2>3. ASSUME NEW w \in Views, DropHandle(w)
        PROVE  FALSE
    BY <1>1, <2>1, <2>3 DEF DropHandle, IInv, TypeOK
  <2>4. ASSUME NEW w \in Views, CommitCall(w)
        PROVE  FALSE
    BY <1>1, <2>1, <2>2, <2>4 DEF CommitCall, IInv, TypeOK
  <2>5. ASSUME NEW x \in Views, NEW w \in Views, MoveAssign(x, w)
        PROVE  FALSE
    BY <1>1, <2>1, <2>5 DEF MoveAssign, IInv, TypeOK, OwnerInv
  <2>6. ASSUME NEW w \in Views, NEW new \in Values, Store(w, new)
        PROVE  FALSE
    BY <1>1, <2>6 DEF Store, IInv, TypeOK, dataVars
  <2>7. ASSUME NEW w \in Views, ErasePartition(w) \/ Commit(w)
        PROVE  ~unsaved'
    BY <2>2, <2>7 DEF ErasePartition, Commit
  <2>8. ASSUME NEW w \in Views, OpenStep(w)
        PROVE  FALSE
    BY <2>2, <2>3, <2>8 DEF OpenStep, Close, Lock, FlashInit, InitRefused, Format, Unlock,
               PartInit, Open, OpenFails, OnlyLocals
  <2>9. ASSUME NEW w \in Views, HandleStep(w)
        PROVE  FALSE
    BY <2>2, <2>3, <2>6, <2>9 DEF HandleStep, Refused, Inconsistent, NotFound, Size, Data,
               Get, Set, Del, OnlyLocals, Values
  <2>10. ASSUME NEW w \in Views, NEW c \in ReadCalls \cup WriteCalls, Call(w, c)
         PROVE  FALSE
    BY <2>2, <2>10 DEF Call, OnlyLocals
  <2>11. CASE UNCHANGED vars
    BY <2>2, <2>11 DEF vars
  <2> QED
    BY <1>1, <2>2, <2>3, <2>4, <2>5, <2>7, <2>8, <2>9, <2>10, <2>11
       DEF Next, Step, readStr, readBlob, readInt, writeStr, writeBlob, writeInt, erase,
           EraseAllCall, InitPartition, Renew, OnlyLocals, ReadCalls, WriteCalls
<1>2. IInv /\ [Next]_vars => [\A v \in Views : Secured(v)]_vars
  BY <1>1
<1> QED BY <1>2, Invariance, PTL DEF Spec, CommitSecuresWrites
=============================================================================

------------------------------ MODULE NVSStorage ------------------------------
(***************************************************************************)
(* The storage wrapper of src/storage/nvs.cpp: views (NVSStorage objects)  *)
(* of one namespace, each used by one task at a time, over the NVS library *)
(* of ESP-IDF.  A view opens its NVS handle when the first call needs it,  *)
(* read-only for a read, and opens it again read-write for a write.  The   *)
(* first opening of all initialises the flash, under a mutex, and erases   *)
(* it if it is full or has an unknown format.                              *)
(*                                                                         *)
(* Every call into NVS or on the mutex is one action; the code between two *)
(* calls is merged with one of them.  The namespace has one key: the code  *)
(* treats keys alike and NVS keeps them apart.  Values differ in type and  *)
(* length.  Any call into NVS may fail, if Failures says so; of the errors *)
(* only INVALID_STATE makes the wrapper do more than return.               *)
(***************************************************************************)
EXTENDS Integers

CONSTANTS
  Views,        \* the NVSStorage objects
  Nobody,       \* not a view: the mutex is free
  MaxLen,       \* bound: length of a string or blob
  MaxHandle,    \* bound: NVS handles in circulation
  Failures      \* whether calls into NVS and allocations may fail

ASSUME NVSConstants ==
  /\ Nobody \notin Views
  /\ MaxLen \in Nat \ {0}
  /\ MaxHandle \in Nat
  /\ Failures \in BOOLEAN

VARIABLES
  nvsInitialized, mtx,   \* nvsInit: done, and the holder of nvsInitMtx
  needsErase,            \* NVS: initialisation answers NO_FREE_PAGES or NEW_VERSION_FOUND
  opened,                \* NVS: how each handle is open
  store,                 \* NVS: the value of the key, as calls see it
  unsaved,               \* NVS: store is newer than what a commit has secured
  handle, readOnlyMode,  \* the fields of each view
  valid,                 \* the view has a namespace: it has not been moved from
  pc, call,              \* where the task using the view is, and in which call
  requiredSize,          \* the local of readStr and readBlob
  out,                   \* what a read that has just returned left in the output
  pending                \* history: acknowledged writes of the handle, not committed

initVars  == <<nvsInitialized, mtx, needsErase>>
dataVars  == <<store, unsaved>>
viewVars  == <<handle, readOnlyMode, valid>>
localVars == <<pc, call, requiredSize, out>>
vars == <<initVars, opened, dataVars, viewVars, localVars, pending>>

Absent == [type |-> "absent", len |-> 0]
Written == [type : {"str", "blob"}, len : 0 .. MaxLen] \cup {[type |-> "i32", len |-> 1]}
Values == Written \cup {Absent}

\* The calls that open a handle, with the access they ask open for and their
\* first call into NVS with that handle.
ReadCalls  == {"readStr", "readBlob", "readInt"}
WriteCalls == {"writeStr", "writeBlob", "writeInt", "erase"}
FirstStep  == [readStr |-> "size", readBlob |-> "size", readInt |-> "get",
               writeStr |-> "set", writeBlob |-> "set", writeInt |-> "set", erase |-> "del"]
TypeOf     == [readStr |-> "str", readBlob |-> "blob", readInt |-> "i32",
               writeStr |-> "str", writeBlob |-> "blob", writeInt |-> "i32"]

InitPcs   == {"init", "format", "init2", "unlock"}
HandlePcs == {"size", "data", "get", "set", "del", "commit"}
Pcs == {"idle", "close", "lock", "part", "open", "erase_part", "init_part"}
         \cup InitPcs \cup HandlePcs

\* The size NVS reports: that of a string counts its terminator.
StoredSize(val) == IF val.type = "str" THEN val.len + 1 ELSE val.len

Nothing == [val |-> Absent, len |-> 0]

TypeOK ==
  /\ {nvsInitialized, needsErase, unsaved} \subseteq BOOLEAN
  /\ mtx \in Views \cup {Nobody}
  /\ opened \in [1 .. MaxHandle -> {"closed", "RO", "RW"}]
  /\ store \in Values
  /\ handle \in [Views -> 0 .. MaxHandle]
  /\ {readOnlyMode, valid, pending} \subseteq [Views -> BOOLEAN]
  /\ pc \in [Views -> Pcs]
  /\ call \in [Views -> {"none", "commit", "eraseAll"} \cup ReadCalls \cup WriteCalls]
  /\ requiredSize \in [Views -> 0 .. MaxLen + 1]
  /\ out \in [val : Values, len : 0 .. MaxLen]

\* The Mutex_t nvsInitMtx: a FreeRTOS mutex.  A take that blocks is not enabled.
mutexInit == mtx = Nobody
mutexLock(v) == mtx = Nobody /\ mtx' = v
mutexUnlock == mtx' = Nobody

\* A boot: whatever an earlier life left in flash, of a format NVS may refuse.
Init ==
  /\ needsErase \in BOOLEAN /\ nvsInitialized = FALSE /\ mutexInit
  /\ opened = [h \in 1 .. MaxHandle |-> "closed"]
  /\ store \in Values /\ unsaved = FALSE
  /\ handle = [v \in Views |-> 0]
  /\ readOnlyMode = [v \in Views |-> FALSE]
  /\ valid = [v \in Views |-> TRUE]
  /\ pc = [v \in Views |-> "idle"] /\ call = [v \in Views |-> "none"]
  /\ requiredSize = [v \in Views |-> 0] /\ out = Nothing
  /\ pending = [v \in Views |-> FALSE]

-----------------------------------------------------------------------------
(* Helpers *)

\* Call c of v begins, at p.
Enter(v, c, p) ==
  /\ pc' = [pc EXCEPT ![v] = p]
  /\ call' = [call EXCEPT ![v] = c]
  /\ out' = Nothing
  /\ UNCHANGED requiredSize

\* The call of v goes on.
GoTo(v, p) ==
  /\ pc' = [pc EXCEPT ![v] = p]
  /\ out' = Nothing
  /\ UNCHANGED <<call, requiredSize>>

\* The call of v comes back; a read leaves o in the caller's output.
ReturnWith(v, o) ==
  /\ pc' = [pc EXCEPT ![v] = "idle"]
  /\ call' = [call EXCEPT ![v] = "none"]
  /\ requiredSize' = [requiredSize EXCEPT ![v] = 0]
  /\ out' = o

Return(v) == ReturnWith(v, Nothing)

\* Nothing changes but the place and the locals of the task.
OnlyLocals == UNCHANGED <<initVars, opened, dataVars, viewVars, pending>>

\* NVS still knows the handle of v (eraseAll takes handles away).
Alive(v) == handle[v] # 0 /\ opened[handle[v]] # "closed"

\* nvs_close: a handle NVS does not know is ignored.
Closed(h) == IF h = 0 THEN opened ELSE [opened EXCEPT ![h] = "closed"]

\* v closes its handle; what it wrote and did not commit is given up with it.
DropHandle(v) ==
  /\ opened' = Closed(handle[v])
  /\ handle' = [handle EXCEPT ![v] = 0]
  /\ pending' = [pending EXCEPT ![v] = FALSE]

\* NVS never gives out a handle that somebody still holds.
FreshHandles ==
  {h \in 1 .. MaxHandle : opened[h] = "closed" /\ \A v \in Views : handle[v] # h}

\* A key read as another type than it was written is not found.
Matches(v) == store.type = TypeOf[call[v]]

-----------------------------------------------------------------------------
(* Defective variants of definitions below, for the sensitivity checks. *)

Lock_NoMutex(v) ==                \* nvsInit without its AutoMutex
  /\ pc[v] = "lock"
  /\ GoTo(v, IF nvsInitialized THEN "unlock" ELSE "init")
  /\ OnlyLocals

Unlock_NotOnError(v) ==           \* the error path leaves without releasing the mutex
  /\ pc[v] = "unlock"
  /\ mtx' = IF nvsInitialized THEN Nobody ELSE mtx
  /\ IF nvsInitialized THEN GoTo(v, "part") ELSE Return(v)
  /\ UNCHANGED <<nvsInitialized, needsErase, opened, dataVars, viewVars, pending>>

ModeAfterOpen_Sticky(v) ==        \* line 324 sets the mode, and never resets it
  readOnlyMode[v] \/ call[v] \in ReadCalls

Upgrade_Never(v, readOnly) == FALSE        \* lines 311-314 forgotten

ContentLen_FirstSize(v) ==        \* the string is not cut to what the second call read
  IF store.type = "str" THEN requiredSize[v] - 1 ELSE requiredSize[v]

MoveAssignClosed_Forgotten(v) == opened    \* lines 61-63 forgotten

-----------------------------------------------------------------------------
(* open and nvsInit *)

Upgrade(v, readOnly) == handle[v] # 0 /\ readOnlyMode[v] /\ ~readOnly

\* What open does first with the handle the view has.
AfterEnter(v, c) ==
  CASE Upgrade(v, c \in ReadCalls)                      -> "close"
    [] ~Upgrade(v, c \in ReadCalls) /\ handle[v] # 0    -> FirstStep[c]
    [] OTHER                                            -> "lock"

\* A read or write is called.
Call(v, c) ==
  /\ pc[v] = "idle" /\ valid[v]
  /\ Enter(v, c, AfterEnter(v, c))
  /\ OnlyLocals

readStr(v)   == Call(v, "readStr")
readBlob(v)  == Call(v, "readBlob")
readInt(v)   == Call(v, "readInt")
writeStr(v)  == Call(v, "writeStr")
writeBlob(v) == Call(v, "writeBlob")
writeInt(v)  == Call(v, "writeInt")
erase(v)     == Call(v, "erase")

\* open(false) gives up a read-only handle before it asks for a new one.
Close(v) ==
  /\ pc[v] = "close"
  /\ DropHandle(v)
  /\ GoTo(v, "lock")
  /\ UNCHANGED <<initVars, dataVars, readOnlyMode, valid>>

Lock(v) ==
  /\ pc[v] = "lock"
  /\ mutexLock(v)
  /\ GoTo(v, IF nvsInitialized THEN "unlock" ELSE "init")
  /\ UNCHANGED <<nvsInitialized, needsErase, opened, dataVars, viewVars, pending>>

\* nvs_flash_init, the first time or after the erasure, succeeds and nvsInit
\* remembers it; or it fails.
FlashInit(v) ==
  /\ pc[v] \in {"init", "init2"}
  /\ \/ ~needsErase /\ nvsInitialized' = TRUE
     \/ (Failures \/ (needsErase /\ pc[v] = "init2")) /\ UNCHANGED nvsInitialized
  /\ GoTo(v, "unlock")
  /\ UNCHANGED <<mtx, needsErase, opened, dataVars, viewVars, pending>>

InitRefused(v) == pc[v] = "init" /\ needsErase /\ GoTo(v, "format") /\ OnlyLocals

\* nvs_flash_erase: all data is lost, and NVS forgets every handle.  Its result
\* is ignored.
Format(v) ==
  /\ pc[v] = "format"
  /\ \/ /\ needsErase' = FALSE
        /\ store' = Absent /\ unsaved' = FALSE
        /\ opened' = [h \in 1 .. MaxHandle |-> "closed"]
     \/ Failures /\ UNCHANGED <<needsErase, dataVars, opened>>
  /\ GoTo(v, "init2")
  /\ UNCHANGED <<nvsInitialized, mtx, viewVars, pending>>

\* nvsInit returns: its error, if any, ends the call.
Unlock(v) ==
  /\ pc[v] = "unlock"
  /\ mutexUnlock
  /\ IF nvsInitialized THEN GoTo(v, "part") ELSE Return(v)
  /\ UNCHANGED <<nvsInitialized, needsErase, opened, dataVars, viewVars, pending>>

\* nvs_flash_init_partition: nothing to do for a partition that is up.
PartInit(v) ==
  /\ pc[v] = "part"
  /\ GoTo(v, "open") \/ (Failures /\ Return(v))
  /\ OnlyLocals

ModeAfterOpen(v) == call[v] \in ReadCalls

\* nvs_open_from_partition in the mode the call needs.
Open(v) ==
  /\ pc[v] = "open"
  /\ \E h \in FreshHandles :
       /\ handle' = [handle EXCEPT ![v] = h]
       /\ opened' = [opened EXCEPT ![h] = IF call[v] \in ReadCalls THEN "RO" ELSE "RW"]
  /\ readOnlyMode' = [readOnlyMode EXCEPT ![v] = ModeAfterOpen(v)]
  /\ GoTo(v, FirstStep[call[v]])
  /\ UNCHANGED <<initVars, dataVars, valid, pending>>

\* No such namespace yet, or another error: the view stays without a handle.
OpenFails(v) == pc[v] = "open" /\ Failures /\ Return(v) /\ OnlyLocals

OpenStep(v) ==
  \/ Close(v) \/ Lock(v) \/ FlashInit(v) \/ InitRefused(v) \/ Format(v) \/ Unlock(v)
  \/ PartInit(v) \/ Open(v) \/ OpenFails(v)

-----------------------------------------------------------------------------
(* Calls into NVS with the handle *)

\* An error of the call, or of a dead handle: whatever was read is cleared.
Refused(v) ==
  /\ pc[v] \in HandlePcs
  /\ Failures \/ ~Alive(v)
  /\ Return(v)
  /\ OnlyLocals

\* INVALID_STATE: convertError closes the handle, so that the next call opens anew.
Inconsistent(v) ==
  /\ pc[v] \in HandlePcs
  /\ Failures /\ Alive(v)
  /\ DropHandle(v)
  /\ Return(v)
  /\ UNCHANGED <<initVars, dataVars, readOnlyMode, valid>>

\* NVS has no value of that type under the key, or, in the second call of a
\* read, a longer one than it had in the first: INVALID_LENGTH.
NotFound(v) ==
  /\ pc[v] \in {"size", "data", "get"}
  /\ Alive(v)
  /\ ~Matches(v) \/ (pc[v] = "data" /\ StoredSize(store) > requiredSize[v])
  /\ Return(v)
  /\ OnlyLocals

\* The first call of readStr and readBlob; an empty blob is complete, and
\* without memory for the output the read ends here (Refused stands for it).
Size(v) ==
  /\ pc[v] = "size"
  /\ Alive(v) /\ Matches(v)
  /\ IF StoredSize(store) = 0
       THEN ReturnWith(v, [val |-> store, len |-> 0])
       ELSE /\ pc' = [pc EXCEPT ![v] = "data"]
            /\ requiredSize' = [requiredSize EXCEPT ![v] = StoredSize(store)]
            /\ out' = Nothing
            /\ UNCHANGED call
  /\ OnlyLocals

\* The length of the output: a string is cut to what the second call read, a
\* blob keeps the length it was given for the first.
ContentLen(v) == IF store.type = "str" THEN StoredSize(store) - 1 ELSE requiredSize[v]

\* The second call, with room for requiredSize bytes.
Data(v) ==
  /\ pc[v] = "data"
  /\ Alive(v) /\ Matches(v)
  /\ StoredSize(store) <= requiredSize[v]
  /\ ReturnWith(v, [val |-> store, len |-> ContentLen(v)])
  /\ OnlyLocals

Get(v) ==
  /\ pc[v] = "get"
  /\ Alive(v) /\ Matches(v)
  /\ ReturnWith(v, [val |-> store, len |-> 1])
  /\ OnlyLocals

\* nvs_set_* and nvs_erase_key; NVS refuses them on a read-only handle.  The
\* absence of the key to erase is no error.
Store(v, new) ==
  /\ IF opened[handle[v]] = "RW"
       THEN store' = new /\ unsaved' = TRUE /\ pending' = [pending EXCEPT ![v] = TRUE]
       ELSE UNCHANGED <<dataVars, pending>>
  /\ Return(v)
  /\ UNCHANGED <<initVars, opened, viewVars>>

Set(v) ==
  /\ pc[v] = "set"
  /\ Alive(v)
  /\ \E new \in Written : new.type = TypeOf[call[v]] /\ Store(v, new)

Del(v) == pc[v] = "del" /\ Alive(v) /\ Store(v, Absent)

HandleStep(v) ==
  \/ Refused(v) \/ Inconsistent(v) \/ NotFound(v) \/ Size(v) \/ Data(v) \/ Get(v)
  \/ Set(v) \/ Del(v)

-----------------------------------------------------------------------------
(* commit, eraseAll, and the life of a view *)

\* commit without a handle fails and changes nothing; with a read-only one it
\* answers OK at once.
CommitCall(v) ==
  /\ pc[v] = "idle" /\ valid[v]
  /\ handle[v] # 0
  /\ IF readOnlyMode[v]
       THEN Return(v) /\ pending' = [pending EXCEPT ![v] = FALSE]
       ELSE Enter(v, "commit", "commit") /\ UNCHANGED pending
  /\ UNCHANGED <<initVars, opened, dataVars, viewVars>>

Commit(v) ==
  /\ pc[v] = "commit"
  /\ Alive(v)
  /\ unsaved' = FALSE
  /\ pending' = [pending EXCEPT ![v] = FALSE]
  /\ Return(v)
  /\ UNCHANGED <<initVars, opened, store, viewVars>>

EraseAllCall(v) ==
  /\ pc[v] = "idle" /\ valid[v]
  /\ Enter(v, "eraseAll", "erase_part")
  /\ OnlyLocals

\* nvs_flash_erase_partition takes the data and the handles of all views; the
\* views keep the dead handles.  Both results are ignored.
ErasePartition(v) ==
  /\ pc[v] = "erase_part"
  /\ \/ /\ store' = Absent /\ unsaved' = FALSE
        /\ opened' = [h \in 1 .. MaxHandle |-> "closed"]
        /\ pending' = [w \in Views |-> FALSE]
     \/ Failures /\ UNCHANGED <<dataVars, opened, pending>>
  /\ GoTo(v, "init_part")
  /\ UNCHANGED <<initVars, viewVars>>

InitPartition(v) == pc[v] = "init_part" /\ Return(v) /\ OnlyLocals

\* What the move assignment of v does to the handle v had.
MoveAssignClosed(v) == Closed(handle[v])

\* v = std::move(w), while no call is in progress on either.
MoveAssign(v, w) ==
  /\ v # w
  /\ pc[v] = "idle" /\ pc[w] = "idle"
  /\ opened' = MoveAssignClosed(v)
  /\ handle' = [handle EXCEPT ![v] = handle[w], ![w] = 0]
  /\ readOnlyMode' = [readOnlyMode EXCEPT ![v] = readOnlyMode[w], ![w] = FALSE]
  /\ valid' = [valid EXCEPT ![v] = valid[w], ![w] = FALSE]
  /\ pending' = [pending EXCEPT ![v] = pending[w], ![w] = FALSE]
  /\ out' = Nothing
  /\ UNCHANGED <<initVars, dataVars, pc, call, requiredSize>>

\* The object is destroyed and another one constructed in its place.
Renew(v) ==
  /\ pc[v] = "idle"
  /\ DropHandle(v)
  /\ readOnlyMode' = [readOnlyMode EXCEPT ![v] = FALSE]
  /\ valid' = [valid EXCEPT ![v] = TRUE]
  /\ out' = Nothing
  /\ UNCHANGED <<initVars, dataVars, pc, call, requiredSize>>

-----------------------------------------------------------------------------

Step(v) ==
  OpenStep(v) \/ HandleStep(v) \/ Commit(v) \/ ErasePartition(v) \/ InitPartition(v)

Next ==
  \E v \in Views :
    \/ readStr(v) \/ readBlob(v) \/ readInt(v)
    \/ writeStr(v) \/ writeBlob(v) \/ writeInt(v) \/ erase(v)
    \/ CommitCall(v) \/ EraseAllCall(v) \/ Renew(v)
    \/ \E w \in Views : MoveAssign(v, w)
    \/ Step(v)

\* A task inside a call is scheduled until the call returns.
Fairness == \A v \in Views : WF_vars(Step(v))

Spec == Init /\ [][Next]_vars /\ Fairness

-----------------------------------------------------------------------------
(* Properties *)

\* Every handle open in NVS belongs to exactly one view, through upgrades,
\* failures, recovery, moves and destruction: none leaks, none is shared.
EveryHandleHasOneOwner ==
  \A h \in 1 .. MaxHandle : opened[h] # "closed" =>
    /\ \E v \in Views : handle[v] = h
    /\ \A v, w \in Views : handle[v] = h /\ handle[w] = h => v = w

\* A write or an erase never reaches NVS through a handle that an earlier read
\* had opened read-only, also after the view was moved: it would be refused.
WritesNeedWriteAccess ==
  \A v \in Views : pc[v] \in {"set", "del"} /\ Alive(v) => opened[handle[v]] = "RW"

\* nvsInit formats the flash only before any view has a handle: it never takes
\* away what a task has stored since the boot, however many tasks open at once.
FormatOnlyBeforeUse ==
  \A v \in Views : pc[v] = "format" =>
    /\ ~nvsInitialized
    /\ \A h \in 1 .. MaxHandle : opened[h] = "closed"

\* A commit that answers OK has secured the writes acknowledged through the
\* handle, whichever calls and moves lie between them and the commit.
CommitSecuresWrites ==
  [][\A v \in Views :
       pending[v] /\ ~pending'[v] /\ handle'[v] = handle[v] => ~unsaved']_vars

\* A string read while another task replaces it is one of the strings that
\* were stored, with its own length.
ReadStrExact == out.val.type = "str" => out.len = out.val.len

\* The same for a blob ("Reads a blob value from NVS.", include/storage/nvs.h:38).
ReadBlobExact == out.val.type = "blob" => out.len = out.val.len

\* The initialisation mutex is given back on every path through nvsInit.
InitMutexReleased == mtx # Nobody ~> mtx = Nobody

=============================================================================

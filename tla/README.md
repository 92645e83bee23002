# A specification of esp-utils

`esp-utils` is a component of helpers for ESP-IDF firmware: synchronisation
objects on top of FreeRTOS, a managed task, a storage wrapper, small containers
and converters. This directory holds TLA+ modules translated from its C/C++
source, the TLC configurations that check them, and proofs that TLAPS checks.
File names in this text are relative to the repository, `src/` being its source
directory and `include/` its headers.

Contents: [the system](#the-system) (inventory), [the modules](#the-modules) and
how they correspond to the code, [the runs](#the-runs) with their bounds and
fairness, [the proofs](#the-proofs), [where code and documentation
disagree](#where-code-and-documentation-disagree), [what is not
modelled](#what-is-not-modelled), [the plan](#the-plan).

## The system

The parts do not form one running program; they are used by a firmware, from
several FreeRTOS tasks and from interrupts. Within the repository `task` is
built on `run_once` and event groups, `rundown_protection` on an event group,
`nvs` on the mutex, `string` and `vector`, the map on `fnv`, and the containers
on the allocator.

| Part | State | Operations | What makes it hard | What makes it correct |
|---|---|---|---|---|
| `run_once` | one atomic word | `runOnceInit`, `runOnce` | concurrent callers, polling | callback once; nobody returns before it is done; every call returns |
| `rundown_protection` | word of count and flag, event group handle and buffer | `Init`, `Acquire`, `Release`, `Wait`, `Destroy` | lock-free compare-and-swap loops, lazy creation by concurrent waiters, last user against waiter, reuse | after a wait nobody is inside; no lost signal; no call on a dead group; exact count |
| `mutex` | FreeRTOS semaphores, a count of readers | init, deinit, lock, unlock (plain; read and write) | two semaphores taken in nested order, token given back by another thread, life cycle | exclusion, no deadlock, exact count |
| `task` | `once`, event group handle and buffer; the owner's stack frame during creation | `taskCreate`, `taskSignalContinue`, `taskShouldQuit`, `taskIsRunning`, `taskJoin`, `taskDetach`, the routine | owner, routine, joiners, observers on plain fields; start-up handshake | join means exited; start-up data alive; event group alive at every call; calls return |
| `static_hash_map` | table of entries in three states, count, tombstones | `init`, `deinit`, `insert`, `find`, `erase`, `clear`, `compact`, rehash, iteration | tombstones, slot reuse, two rehash algorithms, one of them in place | a dictionary, whatever the collisions |
| `storage/nvs` | NVS handle, its mode, the initialised flag | read/write of strings, blobs, integers, `erase`, `eraseAll`, `commit`, `open` | two-step reads, mode upgrade, lost handles, failing calls | every handle has one owner; a string is read whole; an acknowledged commit has saved |
| `reset_button` | last level and edge time, timer, action task | setup, interrupt, timer callback, action task | bounce, lost edges, timer against release | the handler runs only for a long press |
| `growable_buffer` | buffer, used, size | `gbReserve`, `gbAdd`, `gbDel`, `gbEnsureSize`, `gbReset`, `gbWipe` | failing allocation, overlapping moves, rounding to chunks | used bytes within the allocation; contents are the edits applied |
| `vector` | storage, length, capacity | `reserve`, `shrink_to_fit`, `push_back`, `emplace_back`, `resize`, `pop_back`, moves | element life cycle in ten places, growth, arguments that are own elements | each element constructed and destroyed once; contents are the edits applied |
| `string` | buffer, length, capacity | `append`, `push_back`, `reserve`, `resize`, `clear`, moves | the NUL after every change, the string without a buffer | the NUL is behind the characters and in the buffer; contents are the edits applied |
| `light_function` | inline or heap storage, table of functions | construct, copy, move, swap, reset, call | ownership of the callable in two kinds of storage | each callable owned and destroyed once; copies are independent |
| `convert` | none | `toHex`, `fromHex`, `toB64`, `fromB64`, URL form | sizes one off, padding, blanks, case | a text is accepted exactly if it encodes bytes, and these are returned; no write beyond the room |
| `allocator` | none | allocate, free | it may fail | a failure leaves the caller as it was |
| `onboard_led` | the cached state of a pin | init, set, get | the cache against the pin | the pin shows what was set last |
| `fnv`, `time`, `mini_profiler` | none | — | — | — |

`PROJECT.json` lists the hazards of each part at the line where they bite, with
the properties that cover them.

## The modules

One action is one access to shared state: an atomic load, store, exchange or
compare-and-swap, a FreeRTOS call, or a read of a plain field on which a later
call depends. Code between two accesses touches only locals and is merged with
the access that follows. A thread's place is a program counter named after the
next access; the locals that live across accesses are variables and are cleared
when the call returns. Calls that block are actions that are not enabled.
Atomics are sequentially consistent in the models: each object has one atomic
word whose order the code relies on, and acquire/release on it is what the code
asks for; reorderings of relaxed accesses to different words are not explored.

The defective variants in the modules (names `Definition_What`) are one-line bugs
with the line where each would be. Each property is violated by one of them; they
are not part of any specification.

### `RunOnce` — `src/run_once.cpp`

`once` is the word, `opc[t]` where caller `t` is. `WinCall`, `JoinCall` and
`LateCall` are the three outcomes of the compare-and-swap, `CallbackReturn` the
end of the callback, `Publish` the store of FINISHED, `Poll` the turn of the
polling loop that ends it (the others change nothing). `Reuse` is `runOnceInit`
as documented, "before first use". `runs` counts callback invocations since
the word was initialised.

### `RundownProtection` — `src/rundown_protection.cpp`

`counter` is the word with the flag as the bit above the count: `MaxRef` stands
for `RUNDOWN_REF_MASK` and `ACTIVE` for the flag, so the word wraps as in the
code for every width. `eg` is the atomic handle with its sentinel, `group` the
buffer (`EventGroup` models the part of FreeRTOS event groups that is used: a
group has bits and is alive or not). `Retry` is a failed compare-and-swap, which
stores the current value in the local and loops. `fault` records a call on a
group that does not exist. Users pair acquire and release, as
`AutoRundownProtection` does; the thread that destroys has come back from its
own wait and no other wait is in progress; acquisitions may be in flight at any
time.

`RundownGate` says what the object promises without counter and event group: an
open gate, closing, closed, and waiters that return when the last user has
left. The object is *closing* from the moment the flag is set and *closed* when
the bit is; a destroyed object is a new open gate.

### `RwMutex` — `src/mutex.cpp`

`reader` is the holder of the mutex that guards `readersCount`; `writer` the
count of the binary semaphore that a writer, or the readers together, hold.
Every take, every give and every access to the count is an action: an update loads the
plain field into a register of the thread (`count`) and then stores it, so that without
the mutex one of two updates would be lost; the test that follows may use the register or
the field. `alive` says that the two semaphores exist: `rwMutexDeinit` deletes them and
`rwMutexInit` makes them again while no thread is in a call or holds the lock.

### `Task` — `src/task.cpp`, composed with `RunOnce`

`INSTANCE RunOnce` supplies the word and its callers; the join callback is
refined into the signal, the wait, the deletion and the clearing of the handle.
`cpc` is the owner inside `taskCreate` or `taskDetach`, `rpc` the routine, `jpc`
the joiner that runs the callback, `obs` the observers. Where the source tests
`task->eg` and uses it again (a plain field), the second read gives either the
tested value or the present one (`Again`). `fault` records an event group call
on a null handle or dead group, and a routine that copies its start-up data from
a stack frame that is gone. FreeRTOS frees and wakes whoever waits on a group
that is deleted (`CreateWake`).

`CarefulUse` says whether the callers keep out of each other's way where the code does
not keep them: no observation during a join or a detach, no creation between the end of
a join's callback and the store of FINISHED, no detach while the routine is between its
last test and its last signal or before the handshake is over. The run assumes it; with
`CarefulUse = FALSE` TLC finds each part of it to be needed (see
[below](#where-code-and-documentation-disagree)). It does not keep the owner from
creating the next task while another caller of `taskJoin` still polls for the end of the
last one, and so has its word reset (`task.cpp:46`): nobody can know of that caller.
`CallsReturn` says what becomes of it: it comes back from the next join that begins.

### `StaticHashMap` — `include/lightstd/unordered_map.h`

Single-threaded, so an operation is one action. A probe loop is written as the
slot at which it stops: the first on the way from the key's home with the wanted
property. `Insert` gives the three outcomes of `insert`, `Erase` includes the
rehash, `Rehash` both algorithms: `FastRehash` reinserts every entry in slot
order, `SlowRehash` runs the two in-place passes and turns the tombstones into
empty slots; both are functions defined by recursion over the slots, like the loops. The hash function is a variable that never changes, so one run
covers all hash functions. An iterator is a slot: `begin` and
`operator++` are operators on the table, and what a whole iteration visits is part
of `WellFormed`. `Dictionary` is what the map promises: a finite function from keys
to values.

### `NVSStorage` — `src/storage/nvs.cpp`

Views (`handle`, `readOnlyMode`) of one namespace, each used by one task; `valid`
says that a view has not been moved from. A call begins (`readStr` and so on)
with the first lines of `open`: use the handle there is, close it for an upgrade
(`Close`), or open one, which runs `nvsInit` under its mutex (`Lock`, `FlashInit`,
`InitRefused`, `Format`, `Unlock`; `mutexInit`, `mutexLock` and `mutexUnlock` stand for
the plain mutex of `mutex.cpp`), `PartInit` and `Open`. Then come the calls into
NVS, two for a string or blob (`Size`, `Data`). `Refused` is any error that ends
the call and `Inconsistent` the one on which `convertError` closes the handle.
`MoveAssign`, and `Renew` (destroy and construct), act on views no call is using.
There is one key, since neither the wrapper nor NVS lets keys interfere; values
differ in type and length, a string's stored size counting its terminator. Of NVS
the model has the open handles and their modes, the value, whether it is `unsaved`
since the last commit, and whether the flash must be formatted. The two resets of
the flash (`Format`, `ErasePartition`) make it forget all handles; a call on a
forgotten handle is refused. A boot is an initial state: any value in flash. The
codes of errors are not modelled, only what the wrapper does on them.

### `ResetButton` — `src/reset_button.cpp`

Discrete time: `Tick` ages everything. `Move` and `Bounce` are the user and the
contacts, and raise the interrupt; `onButtonISR` debounces the edge and sends its
commands to the timer task; `TimerCommand` carries one out, `onLongPressTimer` is
the callback, `TakeNotification` and `HandlerReturns` the action task. The
constants name what the code assumes about its surroundings: contacts are at rest
after less than `Debounce` ticks, the interrupt is served before the next edge
(an edge served after the contacts have opened again would be taken for the
previous position, and would start the debounce time all the same), the timer
task is at most `Lag` late, and the button rests when it is set up.

### `GrowableBuffer`, `String`, `Vector` — `src/growable_buffer.cpp`, `include/lightstd/string.h`, `include/lightstd/vector.h`

Single-threaded, one action per call. An object is its allocation, a sequence of
slots whose length is the capacity, and the length in use; growth copies what is in
use into a new allocation whose other slots are arbitrary, or fails. In
`GrowableBuffer`, `mem` is the allocation and its length `gb->size`; bytes that
`gbReserve` makes room for hold what was there. In `String`, `buf` has one slot more
than the capacity, for the NUL, and its `len` is what `length()` answers. In `Vector`
a slot without an element reads as `Raw`; `made` counts constructor calls less
destructor calls, so that an element destroyed twice or never shows in it;
`hasDestructor` is a property of the element type. Where a call takes a reference,
its argument is a value elsewhere or an own element (`Own`), followed into the
storage there is when the code reads it (`Followed`). `PopsObjects` says whether
`pop_back` is called on elements with a destructor, see
[below](#where-code-and-documentation-disagree).

`EditedSequence` is what the three promise: sequences that are edited by insertions
and deletions and can be moved from one object to another; an edit that needs memory
may fail, and then it has not happened. The history variables `gbCall`, `stringCall` and
`vectorCall` hold what the last call has asked for, in the terms of `Edits`: the arguments
as they were when the call began, an offset beyond the end not yet cut to it, an element of
the vector by its value then (`ValueAtCall`), and nothing of what the code has stored. The
promise is about these: an insertion has put those elements in that place, a deletion has
removed that range, a call that failed or only deals with memory has changed nothing.

### `LightFunction` — `include/lightstd/functional.h`

An object has a vtable (the callable's type, or `Null`), a pointer to a block on the
heap and the bytes inside it; types in `Large` need the heap. A call is built of the
code's private steps (`Stored`, `Destroyed`, `CopiedFrom`, `Stolen`, `MovedInPlace`),
which are operators from one state of objects and blocks to the next, so that `swap`
is its three moves through a temporary. Callables are counted like elements of a
vector (`alive`), and each has a state that a call changes, so that a copy that
shares it with the original shows. `FunctionValues` is what the objects promise: to be
independent values.

### `Convert` — `src/convert.cpp`

The codecs are operators; characters are their codes. The state is a caller's
(`job`): it encodes with the room needed, one less or one more, tries again with the
size it is told, may change the text by one character (added, dropped, replaced, with
blanks, padding, lower case and the other alphabet among the new ones), and decodes
it the same way. The reference is RFC 4648 on bits (`IsTextOf`), written without the
shifts of the code.

### `SingleThreaded`

The last five components share nothing and are used by one task at a time. This
module is their composition: a behaviour is one of one component (`component` never
changes), while the others stay as they are, so that one run explores them all.

Modelled from use and not from source (the map says external): the event group
of FreeRTOS (`EventGroup`), its timer task, the pin, and NVS.

## The runs

| Run | Instance | Shows |
|---|---|---|
| `run_once` | 4 callers | callback once, return after the callback, every call returns |
| `rundown` | 3 threads, count limit 2, destruction and reuse | the rundown guarantee, exact count at the overflow limit, no dead group, no lost signal; a begun rundown completes; refinement of `RundownGate` |
| `rw_mutex` | 4 threads, deletion and reuse | exclusion, no update of the count lost, no deadlock, somebody gets in |
| `task_careful` | owner, 2 other joiners, 1 observer, created three times | join and report are true, data and group alive, joins and creations return, also when a creation resets the word under a joiner |
| `nvs` | 2 views, lengths 0 and 1, every call into NVS may fail | handles owned by one view, writes get write access, format only before use, strings whole, a commit answered OK has secured the writes, the mutex is given back |
| `nvs_blob` | 2 views, nothing fails | (violation) a blob with the length of the one before |
| `reset_button` | long press 8, debounce 3, lag 2, queue of 3 | only long presses, every long press, no lost timer command |
| `reset_button_tap` | as above, with taps of 1 tick | (violation) a tap calls the handler |
| `single_threaded` | 3 byte values, chunks of 2, up to 4 bytes; 2 strings of up to 3 characters; 2 vectors of up to 4 slots; 3 functions, 3 blocks; texts of up to 4 bytes | bytes within the allocation, NUL, element and callable life cycles, exactness and sizes of the codecs; refinement of `EditedSequence` (three times) and `FunctionValues` |
| `hash_map` | 4 keys, 2 values, tables of 2 and 4, hashes into 0..3, failing allocation | probe chains, counters, tombstone limit, iteration; refinement of `Dictionary` |
| `hash_map_full` | 4 keys, table of 4 | (violation) refusal with a slot free |
| `vector_pop_back` | 1 vector of up to 2 slots | (violation) an element destroyed twice |

**Bounds.** The algorithms treat threads alike. Three threads give every pair of
roles (user, waiter, destroyer) plus an interfering third one, so that a
compare-and-swap fails between any two accesses; four callers of `runOnce` give
a winner, two that poll and a late one; four threads on the lock give two
readers against two writers. The count limit 2 lets two of three threads reach
the overflow guard. The invariants of these modules are also proved for every
number of threads and every width. `MaxGen = 3` lets state survive from one task
into the next, and a joiner that polls be overtaken by two of them. A table of four slots tolerates one tombstone (its quarter), so
that reuse, rehash by threshold and rehash by `compact` occur; all hashes into 0..3 with
four keys give every collision pattern, chains around the end, and a full table. That two
passes of the in-place rehash are enough is proved for every size, see
[below](#the-proofs).

Two views race for the initialisation and for one value; lengths 0 and 1 give the
empty value, one that has grown and one that has shrunk between two calls. Two
handles are as many as two views can hold, so that a leak shows at once (an
opening without a fresh handle is not enabled, which deadlock checking would
report). Three timer commands in the queue are what one press sends: the run shows
that more never wait at a time while the timer task is less late than the debounce
time; FreeRTOS's default is 10.

In `single_threaded`, buffers of up to two chunks, edited by up to two bytes at a
time, give overlapping moves, growth and an allocation that is full. Strings of up
to 3 characters, which may be NULs, take two appends with growth between
them. Vectors start at one slot (16 in the code) so that four slots take two
doublings; requests beyond fail, as may any other. Two objects give every move, three
functions a chain of copies, with as many blocks as the three can own. Four bytes give
all three remainders of a Base64 quartet, and a whole one before each; the bytes 4 and 251 use
symbols from the ends and the middle of the alphabets, among them those in which the
URL form differs. What holds of buffer, string, vector and function objects is also
proved for every bound.

**Fairness.** Weak fairness of each thread's steps inside a call: FreeRTOS
schedules ready tasks, and a polling task uses `vTaskDelay` or `taskYIELD`. Users
release what they acquired, holders of a lock leave, callbacks terminate, the
task's function asks `taskShouldQuit` again and again; nobody has to begin a
call, and the function need not return by itself. No fairness is assumed of a
semaphore towards its waiters, nor that a compare-and-swap eventually succeeds:
hence `RundownCompletes` speaks of waiters after the flag is set, and
`SomebodyGetsIn` of some thread, `InitMutexReleased` of the mutex and not of each
task that waits for it. In `ResetButton` time passes, the interrupt and the tasks
run, and the user is free.

**Deadlock** is checked in every passing run but `single_threaded`: a caller of the
codecs has finished when it has its bytes, and a call of an empty function aborts.

## The proofs

The proof modules extend the modules they prove about. All theorems hold for
every set of threads or objects (finite where a cardinality is involved) and every
value of the bounds, from the named assumptions on the constants only. Three groups
of them need one that says how the code is used, and name it in the statement:
`~PopsObjects` (elements of `pop_back` have no destructor), `CarefulUse` (the callers of
a task are aware of each other) and `Calm` (no taps shorter than the debounce time).

* `RunOnceProofs`: `TypeCorrect`, `AtMostOnce`, `ReturnAfterCallback`. The
  invariant ties the word to the callers: at most one caller is between winning
  and publishing, exactly while the word says RUNNING, and FINISHED is stored
  only after one run of the callback. The properties alone are not inductive:
  they do not say that the winner is unique.
* `RundownProtectionProofs`: `TypeCorrect`, `RundownSafe`, `CountExact`,
  `GroupUseSafe`, `SignalNotLost` and `GateImplemented` (every step of the
  object is a step of the gate or a stutter). The invariant adds to the
  properties what each thread may rely on at its place: which threads hold a
  usable handle, that there is one creator while the sentinel is in the handle,
  that the bit is set only with the flag set and nobody inside, that at most one
  thread owes the signal, and that during the destruction no waiter remains.
  Without the last part the count could be cleared under a user.
* `RwMutexProofs`: `TypeCorrect`, `Exclusion`, `CountExact`, `NoReaderDeadlock`. The invariant says who holds the token: it is available
  exactly if nobody writes and no reader holds it, that the mutex is held by the
  thread that is between its take and its give, that a thread between its load and its
  store of the count has the present count in its register, and that nobody is in a call
  while the semaphores are deleted. The register is where `CountExact` needs the mutex: a
  store is right only because nobody else has stored since the load.
* `SingleThreadedProofs`: `ElementLifeCycle` and `SequenceImplemented` (from the
  assumption `~PopsObjects`), `StringTerminated` and `StringImplemented`,
  `BufferWellFormed` and `BufferImplemented`. The invariants describe an allocation:
  elements in the first slots and `Raw` behind them (`Sound`), characters and behind
  them the NUL, or no buffer and no length (`SoundText`), used bytes within the
  allocation (`BufInv`). That elements are counted rightly does not follow without
  the first: a reallocation counts the slots it moves. The refinements rest on
  lemmas about sequences that are overwritten, split and moved within themselves
  (`Overwritten`, `PrefixSplit`, `ThreeParts`, `MovedSound`); every call is shown to do
  what it was asked for. For the vector that takes that an own element keeps its value and
  its index through the growth (`PushedValue`, `FilledValue`).
  For `light_function`, `OwnedOnce` and `FunctionsAreValues`: the invariant (`FunSound`)
  says that an empty object is empty in all its fields, that another one holds its
  callable in its bytes or in a block that no other object points to, that every block
  in use has an object, and that `alive` counts them, the temporary of `swap` included.
  The assumption on the constants keeps `Null` apart from types, blocks and what a
  callable can be worth.
  For the codecs, `CodesExact` and `SizesCorrect`, for data of every length. What a text
  carries is said once for both directions (`Carries`: so many symbols, with these values,
  which the bytes are put together of, and the padding that is due). What `toB64` writes
  carries its data (`WrittenText`, `EncodedBytes`), what `fromB64` accepts carries what it
  returns (`AcceptedText`), a text carries only one sequence of bytes (`CarriedOnce`), and
  then it is a text of them by the reference (`Base64Text`), because every bit of a byte is
  where RFC 4648 has it (`SextetBits`, `SextetIndex`, `Base64Bits`). Hexadecimal goes the
  same way by pairs of digits. The invariant (`CodecInv`) adds what the caller's phases
  know: the size it has been told, and that an unchanged text is the encoded one.
* `NVSStorageProofs`: `TypeCorrect`, `OneOwner`, `WriteAccess`, `FormatFirst`,
  `StringsExact`, `CommitSecure`, for any number of views, lengths and handles, every
  call into NVS free to fail. The invariant says what a task knows at each place of its
  call (`PlaceInv`: which calls get there, that `open` has no handle while it looks for
  one, that only the task with the mutex is inside `nvsInit`), that handles are not
  shared and not lost (`OwnerInv`), and that the mode a view remembers is the one its
  handle was opened in (`ModeInv`). `CommitSecure` needs the last: `commit` goes by the
  remembered mode.
* `TaskProofs`: `JoinExited`, `NotRunningExited`, `OnlyLiveUsed`, under
  `CarefulUse`, for any number of joining and observing threads and of creations. The
  invariant ties the run-once word to the one joiner inside the callback (`WordInv`,
  `AloneInv`), the event group to the places of owner, routine and joiner (`GroupInv`),
  its bits to how far the handshake and the routine are (`SignalInv`), and everything a
  joiner may conclude to the end of the routine (`ExitInv`).
* `ResetButtonProofs`: `LongPressesOnly`, for all times and lengths of the queue, under
  `Calm`: presses and pauses last for the debounce time at least, and the timer task is
  less late than that. The first is the documented weakness of the code (the run
  `reset_button_tap`); without the second the commands of a release and of the next
  press can be in the queue together, and an early timer expires late. The invariant
  relates the clocks (`EdgeInv`), what the interrupt handler believes of the level
  (`LevelInv`), the age of the commands in the queue (`QueueInv`) and the timer with the
  time the button is down (`TimerInv`: what is left to run plus the time held is never
  less than a long press, the lateness of a stop included).
* `HashMapProofs`: `EveryKeyFound`, `MapWellFormed`, `TableIsDictionary`, for every set of
  keys and values, every hash function and every size of the table. The invariant
  (`Shape`) says that no key is stored twice, that no slot is EMPTY on the way from a
  key's home to its slot (`Chained`), that the counters are exact and tombstones few, and
  that the ring of slots has a `Cut`: two neighbouring slots that nobody's way passes
  between. The cut is what `rehashIfNeeded` silently relies on. Its in-place variant
  moves each entry to the first slot on its way that is not occupied, slot by slot from
  index 0, twice. Seen from the cut the first pass visits the slots behind it in order
  and settles them for good; the slots before the cut, which come later on the ring, it
  visited too early, and the second pass settles these (`FirstPass`, `SecondPass`).
  Without a cut two passes are not enough: a ring-shaped layout of four slots, one of
  them a tombstone, is left with a key that cannot be found. No operation makes such a
  table, because insert ends its loop for a new key at an EMPTY slot, behind which the
  ring can be cut (`Inserted`), and everything else shortens the ways. That a walk of the
  iterator visits `size()` entries is proved by induction on its steps (`WalkVisits`).

Some of these need induction over a loop. The library's induction theorems take an
operator as a parameter, which the provers cannot instantiate; but that every number
is in a given set follows from the well-foundedness of `<` on the naturals
(`SetInduction`), and with it that a function defined by recursion exists
(`Iteration`). The loops of the map are therefore written as recursive functions
(`Pass`, `FastRehash`, `Walk`), which are unfolded step by step.

Only model-checked: all liveness (TLAPS 1.4.5 does not reason about `ENABLED`, so
not about weak fairness), with it the liveness half of the gate, and
`InitMutexReleased`. Nothing is proved of the use that `CarefulUse`, `Calm` and `~PopsObjects` exclude: the runs
`reset_button_tap` and `vector_pop_back` show what goes wrong there, and
`TaskCareful.cfg` with `CarefulUse = FALSE` shows it for the task.

## Where code and documentation disagree

* `nvs_blob`: `readBlob` keeps the length of the first of its two calls; a blob
  shortened in between comes back with a tail of zeros (`nvs.cpp:176-185`).
* `reset_button_tap`: the release of a tap shorter than the debounce time is
  ignored, and the handler runs three seconds later with the button up
  (`reset_button.cpp:92`, against lines 10 and 111).
* `hash_map_full`: `insert` refuses a new key although a tombstone is free, when
  no slot is EMPTY (`unordered_map.h:135-169`). `clear`, `compact` or an erase that
  triggers the rehash cures it.
* `vector_pop_back`: `pop_back` calls the destructor of an element twice if it has
  one (`vector.h:184-187`). The other runs and the proofs use the vector without
  that (`PopsObjects`).

Seen while modelling, without a run of their own:

* An acquisition that loaded the word before the rundown succeeds after the
  destruction has stored the same value again (`rundown_protection.cpp:32`, `:52`).
* With `CarefulUse = FALSE`, `NothingDeadUsed` and `JoinMeansExited` fail:
  `taskIsRunning` queries a group that a join has deleted (`task.cpp:79-82`); the
  routine signals a group that `taskDetach` has deleted (`task.cpp:136-137`);
  `taskCreate` waits on a group that the new task has detached itself from
  (`task.cpp:56`); a creation between the end of a join's callback and its store of
  FINISHED (`run_once.cpp:22`) makes the new task pass for joined.
* `taskCreate` resets the run-once word under a joiner that polls (`task.cpp:46`): it
  waits on, until the next task is joined.
* `init` negates the error of `nvsInit` (`nvs.cpp:337`): the caller gets a code that
  does not exist, though never OK.
* After INVALID_STATE has closed a read-write handle and a read has opened another
  one, `commit` answers OK for writes that were never committed (`nvs.cpp:301`).
* `eraseAll` leaves all views with handles that NVS has forgotten; `convertError`
  does not recover from that (`nvs.cpp:292`).
* `gbAdd` of no bytes to a buffer without an allocation reports failure
  (`growable_buffer.cpp:50-53`).
* `convert.h:14` speaks of lowercase hexadecimal, the table in `convert.cpp:6` is
  uppercase; `fromHex` accepts both.
* The size that `fromB64` reports when it refuses is three quarters of the text's
  length, rounded down to quartets: too small for the URL form, which does not pad
  (`convert.cpp:159`). A caller that tries again with it may be refused for ever.
* `onboardLedInit` switches the LED off without resetting the cached state
  (`onboard_led.cpp:18`, `:23`): switching it on again may then do nothing.

## What is not modelled

`PROJECT.json` has one entry per part. `fnv` is a pure hash over 32-bit products,
beyond TLC's integers, and the map is modelled for every hash function instead;
`onboard_led` is one cached flag in front of a pin; `time` and `mini_profiler` read a
clock and write log lines. Of the modelled parts: the moves of the hash map, which
hand over the whole table; callables that touch the function object that runs them;
arguments of `push_back(T&&)`, `emplace_back`, `string::append` and `gbAdd` that lie in
the container itself, where the code reads freed memory after a growth; sizes near
the end of `size_t`; invalid arguments of `taskCreate`, which return before anything
happens; assertion failures other than the unpaired release. The map is used as
documented: operations on a map with a table, `init` on a map without.
Timeouts do not occur (every wait is `portMAX_DELAY` or zero). `NVSStorage` leaves
out views of different namespaces or partitions, which share only `nvsInit`, and
a reset in the middle of a write, which NVS handles by itself.

Hazards outside the modelled use, and so not in `PROJECT.json`: readers that overlap
for ever keep a writer of the lock out (the design of a reader-preference lock); a
routine that joins its own task waits for itself; operations on a map without a table
divide by zero (`unordered_map.h:127`), and pointers or iterators into it dangle after
an erase that rehashes (`:218`); `gbAdd` of data inside the buffer reads memory that
the growth has freed (`growable_buffer.cpp:55`), and so do `append` of a part of the
string itself (`string.h:201`) and `emplace_back` of an own element (`vector.h:325`).

## The plan

Done: the modules and the proofs above. Left:

1. The moves of the hash map, as a second table that takes over the first.

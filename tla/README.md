# TLA+ specifications of GkTypesLib

This directory holds TLA+ models of `src/gk_types_lib`, the TLC configurations
that check them, and TLAPS proofs about them. GkTypesLib is a C++20 library of
containers, strings, smart pointers, allocators, JSON and a small job system.
What is hardest to test is the job system and what it is made of (a worker thread,
a condition variable, atomic flags, shared reference counts), so that part came
first; the containers, whose hazards are long sequences of legal calls and
off-by-ones at the edge of a buffer, followed.

Contents: [Inventory](#inventory) · [Plan](#plan) · [Modules](#modules) ·
[Runs](#runs) · [What the code does not do](#what-the-code-does-not-do) ·
[Proofs](#proofs) · [Not modelled](#not-modelled)

## Inventory

| Component | State it keeps | Operations | Hard behaviours | What makes it correct |
|---|---|---|---|---|
| **JobThread** `job/job_thread.*` | three atomic flags, an atomic count, a ring of queued jobs behind a `Mutex`, a batch of collected jobs behind another, a mutex and condition variable, the OS thread | constructor, `runJob`, `runJobWithFuture`, `wait`, `isExecuting`, `queuedJobCount`, destructor; the worker's `threadLoop` | flags read and written outside any lock; notification against sleep; jobs that queue jobs; destruction while jobs run; a full ring | jobs run once, in order; nothing queued is forgotten; notifications are not missed; the destructor returns |
| **JobSystem** `job/job_system.*` | an array of JobThreads, the preferred index (atomic) | constructor, `runJob`, `runJobWithFuture`, `wait`, destructor | two callers select at once; threads destroyed one by one while jobs still call `runJob` | a selected thread exists and is alive; work spreads |
| **JobFuture** `job/job_future.h` | a `SharedPtr` to a `Mutex` of (result, ready) shared by the caller and the job | creation in pairs, `set` by the job, `wait`, destruction of each half | caller spins while the job sets; either side dropped first; a job dropped unrun | `wait` returns the job's value and only after it was set |
| **JobContainer** `job/job_container.h` | one type-erased callable and its arguments | bind, move, invoke, destroy | ownership on move | the callable is destroyed once |
| **RingQueue** `queue/ring_queue.h`, **JobRingQueue** `job/job_thread.h` | slots, read and write index, length | push, pop, iterate, copy, move; collect | full, empty, wrap-around | a FIFO queue of at most `capacity` elements |
| **SharedPtr** `ptr/shared_ptr.h` | a pointer per handle, a counter per object | create, copy, move, assign, swap, `deinit`, destroy | compare-exchange loops of several threads; the last two references dropped at once; assignment to oneself or from null | destroyed once, by the last owner; never used afterwards; never leaked |
| **UniquePtr** `ptr/unique_ptr.h` | a pointer | create, move, `deinit` | moved-from handles | one owner |
| **Mutex, RwLock** `sync/` | data behind an SRWLOCK, and guards that point to it | `lock`, `tryLock`, `read`, `write`, `tryRead`, `tryWrite`; guards moved and destroyed | not recursive; guards in Options; what was read used after the lock is gone | a lock is given back once, by the last guard; no increment is lost |
| **GlobalString** `string/global_string.*` | two tables (string to id, id to string), the next id, one RwLock | create, createIfExists, toString, validity tests | look-up and creation from several threads; id wrap-around | equal strings have equal ids, ids never change meaning |
| **HashMap** `hash/` | groups of buckets with bit masks, a count | find, insert, erase, copy, move, reallocation | group count and element count drifting apart | a map |
| **Allocators** `allocator/` | heap, counted references to an allocator, a table of live blocks | malloc, free, clone and drop of references | accounting under a lock; lifetime of a shared allocator | every free matches a malloc |
| **ArrayList** `array/` | buffer, length, capacity | push, insert, remove, append, shrink, resize, copy, move | growth while an element is an alias; off-by-one at capacity | a sequence |
| **Option, Result** `option/`, `error/` | tagged unions | construct, move, take | moved-from unions | the tag matches what is alive |
| **Callback** `function/` | a tagged union of callables | bind, copy, move, invoke | self-assignment | one owner per bound callable |
| **String, Str** `string/` | small buffer or heap, flag, length | construct, assign, append, find, parse, UTF-8 scan | the switch between both representations | text and terminator are intact |
| **JsonObject** `json/json_object.*` | buckets of fields with bit masks, an element count | add, find, erase, iterate, reallocate, copy, move | erase leaves a copy of the last field behind the end of its bucket; searches scan whole blocks; the count drifts | a map from names to values |
| **JsonValue**, JSON text | a type and what it owns; none | copy, move; `toString`, `parseJson` | ownership; a recursive parser over indices | one owner; what is printed is parsed to the same object |
| **Serialization** `json/serialization.h` | none | `serialize`, `deserialize` | fields that do not fit are skipped | a struct comes back as it was |
| **Number and list text** `string/str.h`, `string_type_conversion.h` | none | `fromInt`, `parseInt`, ..., lists, `format` | bounds tested digit by digit; cutting at commas and braces | what is printed is parsed to the same value |
| Reflection, basic types, CPU detection, doctest | none or compile-time | | | |

How they interact. A `JobSystem` owns `JobThread`s and picks one per call. A
`JobThread` owns a ring of `JobContainer`s; `runJobWithFuture` wraps the callable
into a job that stores its result in one half of a `JobFuture` pair and gives
the other half to the caller; both halves share one block through a
`SharedPtr`. `GlobalString` sits on `HashMap`, `ArrayList` and `RwLock`; a `JsonObject` owns
`JsonValue`s that own `String`s, lists and objects; every
container takes memory from an `IAllocator`, and `TestingAllocator` keeps its own
table in a `HashMap` behind a `Mutex`.

## Plan

In order of what matters most; each module is written so that it can be proved
about (constants with named assumptions, an action per operation, invariants as
conjunctions of named parts; recursive functions where the code loops, operators that
are RECURSIVE only in the modules that only TLC evaluates).

1. `JobThread` implementing `JobExecutor`, with proofs.
2. `SharedPtr` implementing `SharedOwnership`, with proofs.
3. `JobFuture` implementing `JobPromise`, composed with what `JobExecutor` promises
   of the job and `SharedOwnership` of the block, with proofs.
4. `JobSystem`: selection by several callers, `wait`, destruction, with proofs.
5. `RingQueue` implementing `Fifo`, with proofs.
6. `GlobalString` over `RwLock`, implementing `InternTable`, with proofs.
7. `HashMap` and `JsonObject` implementing `Dictionary`, composed in `Tables`, with proofs.
8. `ArrayList` and `UnmanagedList` implementing `Listing`, `String` implementing
   `TextValues`, the types that hold one thing (`Holders`) implementing `Holding`
   and the `Allocator`, with proofs.
9. The computations: `Slice` (comparisons and searches by vectors), `Numerals` and `Utf8`, with
   proofs, `JsonText`, `Serialization`, `ComposedText`, against reference definitions.
10. `Guards` of both locks over `RwLock`, with proofs.

All of it is done, and 1 to 8, 10, `Slice`, `Numerals` and `Utf8` are proved. What is left is
`PartsInPlace` for lists of any length, which could be proved as the numbers were.

## Modules

### JobThread

`JobThread.tla` models `gk::JobThread` at the grain at which its threads can
observe each other. The three flags and `_mutex` are accessed outside any common
lock, so each access is an action of its own. `_queue` is only touched inside its
lock, each critical section has one effect visible outside of it (the atomic
`_queuedJobCount`), and so each is one action. `pc` records where each thread is
in a call, `wpc` where the worker is in `threadLoop`.

| Code | Actions |
|---|---|
| `runJob` → `queueJob` | `QueueJob`; on a full ring `QueueJobFull` |
| `notifyExecute` | `NotifyTest`, `NotifyStore`, `NotifyLock`, `NotifySignal`, `NotifyMark` |
| `wait` | `WaitCall`, `WaitReturn` |
| `~JobThread` | `DtorBegin`, `DtorWaitReturn`, `DtorKill`, the notify actions, `DtorJoin` |
| `threadLoop` | `LoopTest`, `LoopLen`, `LoopIdle`, `WaitLock`, `WaitPred`, `WaitBlock`, `WaitClear` |
| `std::condition_variable` | `WaitBlock` (release and sleep in one step), `NotifySignal`, `SpuriousWakeup` |
| `executeQueuedJobs`, `collectJobs`, `invokeAllJobs` | `Collect`, `InvokeNext`, `FinishJob` |

A running job may call `runJob` on its own thread (`Issuer` says who issues which
job). `accepted`, `ran` and `dropped` are history variables. The destructor starts
only when no other client is inside a call: calling a method of an object being
destroyed is not something the class supports. Jobs may still queue jobs then.
`runJobWithFuture` is `runJob` of a callable that stores a result.

`JobExecutor.tla` is the promise: accept a job, run the oldest, close and discard.
`JobThread` implements it with `todo <- activeWork \o queue`.

### SharedPtr

`SharedPtr.tla` models the atomic variant of `gk::SharedPtr`. Handles are places
that hold a SharedPtr; each belongs to one thread at a time (`owner`) and can be
given to another between calls (`HandOver`, the only action that is not code of
the library). A call is cut at its atomic accesses: `IncLoad`/`IncCas` and
`DecLoad`/`DecCas` are the loops of `incrementRefCount` and `decrementRefCount`,
`CasFails` is a compare-exchange that lost, `Destroy` is `~Inner` and the free, and
`Proceed` is what the caller of `decrementRefCount` does afterwards. Blocks can be
allocated again after they were freed.

`Owners(o)` are the handles an object's counter counts: those that point to it,
except a handle that has counted down and is about to be overwritten.
`SharedOwnership.tla` is the promise over sets of owners.

The constant `Lax` names three calls the class does not survive (`"null"`, `"self"`,
`"shared"`); with `Lax = {}` clients make none of them. The first has a run of its
own, see below.

### JobFuture

`JobFuture.tla` models the pair of futures that `runJob` makes and the block they
share. It does not repeat the threads of `JobThread.tla` or the counting loops of
`SharedPtr.tla`: it stands on their abstract specifications. `todo`, `done`,
`dropped` and `closed` are those of `JobExecutor`, whose actions `RunJob`, `Finish` and
`Close` conjoin; `handles` and `alive` are owners and liveness as in
`SharedOwnership`. What is left is the code of `job_future.h` itself, one access at
a time: `set` is `SetTest` (the reference count, read without the lock), `SetLock`,
`SetData`, `SetFlag`, `SetUnlock`; a turn of the loop in `wait` is `TryLock` and then
`NotReady` or `Take`, and `WaitReturn` is the guard's destructor. `at` says where the
worker is in the running job, `user` where the user of each future is.

`runJob` makes both halves before it queues the job, and nobody else sees them until
then, so it is one action. A future belongs to one thread at a time (it can be
moved, which changes nothing here). A value that was moved out of the block is
`"moved"`: a second `wait` returns it, as the code does for every result type that
is not trivially copied.

`JobPromise.tla` is the promise: a pending result is kept, or discarded with its
job; it may be skipped only when its reader is gone. `PromiseOf` and `ReaderOf` are
the refinement mapping.

### JobSystem

`JobSystem.tla` models `gk::JobSystem`. `LoadPreferred`, `ReadFlag`, `TakeIdle` or
`PassOver`, and `StoreNext` are the accesses of `getOptimalThreadForExecution` in turn;
`QueueJob`, `NotifyTest` and `NotifyMark` are what `runJob` then does to the selected
thread, as far as other selections can see it. A `JobThread` is reduced to its two
published values and a number of collected jobs: its worker may collect, or mark
itself idle, whenever it has nothing collected, which includes everything the worker
of `JobThread.tla` does. A full ring, which stops the program there, blocks here.
Clients are all threads that call `runJob`; a worker that runs a job is one of them.
`idle`, `seen` and `lowered` are history: which threads have been idle since a
selection began, what it has read, and whether a queue was emptied meanwhile.

### GlobalString

`RwLock.tla` is the lock: readers, a writer, and who may come in. `GlobalString.tla`
models every call of the class on top of it. `Call` starts one, and
`GetAllGlobalStrings` is the first use of the function-local static, during which other
threads wait. `Write` and `Read` acquire the lock. `InsertFinds` and `InsertAdds`, `PushString`
and `CountId` are what a creation does under the write lock, kept apart so that
a reader that got in between would see it half done; `FindId`, `ReadText`, `TestString` and
`TestId` look something up under the read lock, and `Leave` is the guard's destructor. The tables are what `HashMap` and
`ArrayList` promise of them, a map and a sequence.

`InternTable.tla` is the promise: one table of distinct strings that only grows, and
every call answered from it in one step. A creation takes effect at `PushString`.

`Locked.tla` runs either of GlobalString and JobFuture, the two parts of the library that
share data behind a lock and block or poll for it, and states the fairness of both.

### HashMap and JsonObject

`Hashing.tla` has what the two share: a hash is split into upper bits, which select a
group or bucket, and a mask of seven bits. `HashMap.tla` models groups of slots with
their masks, the growth of a group and of the map, and iterators; `JsonObject.tla` models
buckets, the field that stays readable behind the end after an erase, and the scan of
whole blocks. One action is one call, with the reallocations it makes. `Dictionary.tla`
is the promise of both, and `Tables.tla` runs either. No call leaves an object
with more fields in a bucket than a block has masks (`AllSearched`), unless `Lax`
has `"overfull"`; an object is not assigned to itself, which would free what it is about to copy.
`lost` is a history variable: how many fields an object lost to `eraseField` and to assignments,
neither of which counts down. A map with groups that was assigned from one without pairs keeps its
number of groups without having any (`hashmap.h:969`); like one that was moved from it is
not `Usable`, and clients only move another map into it or destroy it.

### Containers

`Containers.tla` puts the sequential components that have no state in common side by
side: a behaviour is about one `subject`. One action is one call of the library.

| Subject | Module | Models | Promise |
|---|---|---|---|
| `RingQueue` | `RingQueue.tla` | slots, indices that wrap, the length; the loop that moves elements out while its body pushes more; moves | `Fifo.tla` |
| `ArrayList`, `ArrayListUnmanaged` | `ArrayList.tla`, `UnmanagedList.tla` | slots that were never written, live or moved from; growth, elements that move up and down, `find` by vectors; for the unmanaged list, allocations that are refused | `Listing.tla` |
| `String` | `String.tla` | a text in the object or in a buffer, what is behind its end, buffers used again, comparisons of whole vectors, searches and the hash by vectors | `TextValues.tla` |
| `Allocator` | `Allocator.tla` | `TestingAllocator` and `AllocatorRef` used by several threads: a step is a section under the mutex or a call of the heap outside of it | `HeapSafe`, `TrackersExact` |
| `Holders` | `Holders.tla` | `UniquePtr`, `Option`, `Result`, `JobContainer`, `JsonValue`, `Callback`, `Fptr`, and `Option` of a pointer or a reference (`Reference...`): a tag and a thing each; what is destroyed, on which heap, how often | `Holding.tla` |
| `Guards` | `Guards.tla` over `RwLock.tla` | `LockedMutex`, `LockedReader`, `LockedWriter`: guards of several threads, moved about, null after a failed try or a move; the data they protect, read and written in two steps | `GuardsProtect` |
| `JsonText` | `JsonText.tla` | printing and parsing of JSON objects, token by token | `JsonRoundTrip` |
| `Serialization` | `Serialization.tla` | structs to JSON objects and back | `StructReadBack` |
| `Slice` | `Slice.tla` | comparisons and searches of `Str` by vectors of either width, and character by character | `SliceLookups` |
| `Numerals` | `Numerals.tla` | numbers and `bool` to text and back, in the functions of `Str` and of `String`; bounds of wide and narrow types; fractions, exactly | `NumbersReadBack` |
| `ComposedText` | `ComposedText.tla` | lists printed and read, `String::format` | `PartsInPlace` |
| `Utf8` | `Utf8.tla` | lengths in code points, at compile time and at run time, and the test of a buffer | `Utf8Counted` |

`JsonText` to `Utf8` change nothing: their Init chooses an input, and the property compares
what the code computes of it with a definition that says what it should be.

What an instruction over 16, 32 or 64 bytes does is modelled by the places it looks
at, including those behind the end; which width the processor has is `simd` in `Slice`.

The trackers of `TestingAllocator` are HashMaps. From `freeTracker` only what was found is
erased, and it is modelled as a set; the free of an address that is not tracked erases it from
`allocTracker` nevertheless, which counts down (`hashmap.h:1213`), and so the model
keeps the count (`allocCount`) beside the set, with `Known`, `Track` and `Untrack` for the three calls.

A list that had no buffer when it was moved from has none afterwards either, but its allocator
is gone (`array_list.h:1763`); the model does not tell it from a new list (`UsableList`), and says
nothing of its next allocation.

Preconditions. `Lax`, `ListLax`, `StringLax` and `HolderLax` name the calls a class does
not survive, by what the code does or by what it asks of its callers. With the empty
set clients make none of them. Each is an alternative of the action it is about: to see
what becomes of such a call, put its name into the constant of the `.cfg`.

## Runs

| Run | Instance | Shows |
|---|---|---|
| `job_thread` | 2 clients, 4 jobs of which one is queued by a job; capacity 2; 1 spurious wakeup; fair scheduling | `NoMissedNotify`, `OnlyNestedDropped`, `WorkFits`, `ExecutorSpec`, `RunJobReturns`, `CollectedJobsRun`, `KillFinishes` |
| `job_thread_lost`, `job_thread_dtor` | 2 clients with 2 jobs each | two disagreements below |
| `shared_ptr` | 2 threads, 4 handles, 2 blocks, symmetric | `RefCountExact`, `NoUseAfterFree`, `NoLeak`, `OwnershipSpec` |
| `shared_ptr_null` | the same with `Lax = {"null"}` | a disagreement below |
| `job_system` | 2 callers, 3 threads, 4 jobs, capacity 2 | `NoIdleOverlooked`, `LeastLoaded` |
| `locked` | 2 threads, 3 strings with the empty one, 4 ids; or 2 jobs, 3 waits on each future; fair scheduling | `TablesInverse`, `InternSpec`, `CallsReturn`; `NoUseAfterFree`, `WaitReturnsResult`, `PromiseSpec`, `WaitReturns` |
| `tables` | 2 maps or 2 objects, 3 keys that share masks and groups | `NothingUncounted`, `PlacedByHash`, `IterationVisits`, `DictionarySpec` |
| `tables_fieldcount` | the same instance | a disagreement below |
| `containers` | each subject in turn, see below | `SlotsOwned`, `ListLookups`, `StringLookups`, `HeapSafe`, `TrackersExact`, `JsonRoundTrip`, `SliceLookups`, `NumbersReadBack`, `StructReadBack`, `PartsInPlace`, `Utf8Counted`, `GuardsProtect`, `RingFifoSpec`, `ListSequenceSpec`, `StringTextSpec`, `HoldingSpec` |
| `slice_compared` | the instance of `containers` | a disagreement below |
| `string_substring` | the same with `StringLax = {"longestSubstring"}` | a disagreement below |

What the properties say.

- `NoMissedNotify`: a notified worker never blocks. `OnlyNestedDropped`: the destructor
  drops no job of a client outside of a job. `WorkFits`: a batch fits the array it is
  collected into. `ExecutorSpec`: each job is executed once, in order.
- `RefCountExact`: the counter is the number of owners. `NoUseAfterFree`, `NoLeak`: nothing
  is reached after it was freed, and what nobody owns is being freed.
- `WaitReturnsResult`: `wait` returns what the job stored, after it stored it.
- `NoIdleOverlooked`, `LeastLoaded`: a caller selects an idle thread if one was idle all
  along, else one with no more jobs than any other had when it was read.
- `TablesInverse`: whoever reads sees two tables that are inverse to each other.
- `NothingUncounted`: a map's count is the number of its pairs, an object's that of its
  fields and of those it `lost`: no other call lets the count drift, which is documented as exact
  (see below).
  `PlacedByHash`: each pair is where a search looks for it. `IterationVisits`: a loop over
  a map or an object has each pair once. `DictionarySpec`: both are what `Dictionary` promises.
- `SlotsOwned`: the slots up to the length are live, no others, and nothing was destroyed
  twice. `ListLookups`, `StringLookups`, `SliceLookups`: comparisons and searches say what
  the contents say.
- `Utf8Counted`: of a well formed text each form gives the number of its code points, and the
  forms agree wherever the one at compile time succeeds.
- `GuardsProtect`: a lock is held exactly as long as one guard points to it, and what was read
  through a guard is still there while it is used, so that no increment is lost.
- `JsonRoundTrip`: what is printed of an object is parsed to an equal one, if it is `Readable`:
  each quote in a string or name has a backslash in front and none ends in one (`Enclosed`), no array
  has an object or ends in null. Of others nothing is claimed; among the documents are
  some that are cut short or refused.
- `NumbersReadBack`: nothing is read as another number, and what is printed is read back, but for
  integers whose digits the bounds test mistakes. Of a sign without digits nothing is claimed.
- `StructReadBack`: a struct is read back from its object and refused when a field is missing; a value of
  another type spoils no other field, whether the object is refused, as documented, or not.
- `HeapSafe`: the heap gets back only what it has handed out, however its clients misuse addresses. `TrackersExact`: for clients
  that free what they own, once, no check fails and what is reported at the end is left.

Bounds. Two clients are needed for a caller that returns early because another
is inside `notifyExecute`; four jobs let each client queue again after a batch and
let a job queue a job; with capacity 2 the ring fills up and a check stops the program
(`trapped`), after which the liveness properties ask for nothing. One spurious wakeup
is enough to take the worker through the predicate once more with every setting of the
flag. For SharedPtr two threads race on one counter, and four handles allow a copy, an
assignment and a destruction of handles of the same object at once while a second object
is involved in the assignment.

For JobFuture two jobs give one that runs while the other is queued, or is discarded with
the queue, after its future was dropped or before; a second wait reads a value that was moved out, and
a third one comes after it (`MaxWaits`). The proofs are about any number of both. For JobSystem four jobs on three threads make a fourth
selection that finds every thread busy, while the other caller is in the middle of one of
its own. For GlobalString two threads can create the same string, and two different ones,
one id apart; a fourth id keeps the counter from wrapping.

For the tables, two keys have the same mask and the same group for every number of
groups, and the third neither; groups of two slots fill, double and are copied into more
groups; `Sparsity`, `Block`, `PerBucket` and `FirstCapacity` are scaled from 8, 64, 32 and
4 to 2, 2, 1 and 1. An object has at most three elements (`MaxElements`) and one erased
name (`MaxErased`); two of them have four elements together when one is added to or assigned
(`MaxTogether`), and more when it is copied.

For the containers: rings of two and three slots wrap and move; lists of up to three
elements, two of them with four together (`MaxTotal`), grow from every size, and with vectors of four lanes, or two, `find` looks behind
the length; texts of up to four characters lie in an object for two, or in a buffer of
four or eight; three threads on two addresses reuse an address that another is about to
record; three things in two holders are moved, copied and swapped onto empty and full
ones and onto themselves; 2401 JSON objects nest twice; slices end before,
at and behind vectors of four and of two (64 and 32 in the code; compared one by one up to 1,
16 in the code); numerals in base 4 with bounds of three digits stand for those in base 10 with
19 and 20, with at most three digits (`MaxPrecision`) behind the point, texts of up to four
(`MaxShort`) lie in their String and a machine word (`Word`) has four characters; all texts of
up to four bytes are counted as UTF-8, so every code point may lack its end or have another in
the place of it; three threads have at most two guards each (`MaxGuards`), the temporary and
what it is moved to, and two increments (`MaxData`) suffice to lose one; structs of two fields have every pair of types; lists of up to three and formats of
up to six characters with three slots cut wherever the code can cut.

Symmetry is used only where nothing distinguishes the values and no run that has it checks
liveness: threads, handles and blocks of SharedPtr, the places of tables and containers, and
the items that are in queues alone.

Deadlock is not checked for JobThread, JobSystem and `Locked`: after the destructor, or with all
futures gone, the system has stopped, and so it has when a check fails (`trapped`); a call of
GlobalString that is stuck violates `CallsReturn`. Nor for the containers: the
computations have no steps, and the testing allocator is done after its destructor. It
is checked for SharedPtr and the tables.

Fairness is stated in `FairSpec` of JobThread and of `Locked`. That of JobThread assumes
that the operating system keeps scheduling the worker and every thread that is inside a call
and can take its next step (weak fairness of each). It does not assume that clients make calls, that the condition
variable wakes by itself, or that a lock is handed out in turn. For JobFuture there is
one exception to the last: `SetLock` is strongly fair. Between two turns of `wait` the
lock is free and the user has yielded, and each release wakes a thread that is blocked
on it; the job loses that race now and then, not for ever. `WaitReturns` is about a job
that has started, because a queued job may never start (see below). For GlobalString
a thread that waits for the lock, to read or to write, gets it when it is free for that
again and again (strong fairness): an SRWLOCK queues those who wait, and readers that come
and go do not pass a queued writer for ever.

## What the code does not do

Each of these six is a run in which TLC finds the violation of something a comment, an
assertion or a test of the repository says.

- **A queued job can be left behind** (`QueuedJobsExecute`). `notifyExecute` returns
  when it reads `isExecuting` as true (`job_thread.cpp:58`), but the worker may have
  seen an empty queue already (line 74) and be about to clear the flag and sleep.
- **A destructor can spin for ever** (`DestructorReturns`). `isExecuting = true` is
  the last thing `notifyExecute` does (line 65). `shouldExecute` is set before the
  mutex is taken, so the worker may have served the call and cleared `isExecuting`
  by then; the flag then stays true with the worker asleep.
- **Assigning from a null SharedPtr** (`DestroyedAsDocumented`) drops the reference and
  keeps the pointer: the reference is given up twice.
- **Slices a vector long are equal whatever they hold** (`ComparedAsRead`).
  `(len - i * 64) % 64` characters are copied into each vector (`str.cpp:39`), which is
  none for a full one.
- **A substring of 31 characters gets a buffer** (`ShortWeededOut`), where everything else
  keeps it in the object (`string.h:1460`); compared with one that has none it fails an
  assertion (`string.cpp:394`).

- **The number of fields of an object is not counted down** (`FieldCountAsDocumented`).
  `fieldCount` is "the number of fields within the JsonObject" (`json_object.h:164`), but
  `eraseField` leaves the count as it was (`json_object.cpp:289`), and an assignment counts the
  fields it copies on top of those it freed (`json_object.h:1060`). `toString` then writes a comma
  behind the last field.

Others were met while modelling. The models do what the code does; no run is about these. Some break
what a comment says, and the properties above are stated so that they do not claim it; the
line of the comment is given with these.

Job system and pointers
- `wait()` looks only at `isExecuting`, which can be false between two batches or before
  the first: it returns although jobs are queued. In a trace of `job_thread_lost` such a
  `WaitReturn` is enabled with a queue that is not empty.
- A thread with queued jobs need not be executing: a job is pushed before `isExecuting` is
  set. The selection of a JobSystem compares loads then, and `NoIdleOverlooked` and
  `LeastLoaded` hold all the same.
- The last SharedPtr assigned to itself destroys its object, and `deinit` of a SharedPtr
  that is not the last leaves the pointer in it. To see it, put `"self"` or `"shared"` into
  `Lax` of `SharedPtr_null.cfg`.
- JobContainer leaks arguments it keeps on the heap (`job_container.h:250`); `isBound` is
  always true; `bindConstMember` and `runJob` of a `std::function` cannot be instantiated.
- The move assignments of both futures return nothing.
- The move constructor of Result moves its value from itself (`result.h:104`). `GK_CHECK`
  is defined nowhere, so an Option that was moved into a new one still has a value
  (`option.h:161`).
- A Callback that is constructed from an unbound one is not initialized (`callback.h:145`);
  assigned to itself it is destroyed first. A JsonValue copied to itself, or from what it
  contains, reads what it destroyed (`json_object.h:677`).

Containers
- HashMap: `erase` of a missing key counts an element down (`hashmap.h:1213`); assignment
  to a map with pairs erases the wrong slots (line 964), and from one without leaves the number
  of groups as it was when they are freed (line 969).
- TestingAllocator: it erases a foreign address from the blocks it tracks (`testing_allocator.cpp:70`),
  which counts them down by the above. When the count reaches zero, the blocks that are left are
  not found: their free is refused as not allocated, and no leak is reported, against
  `testing_allocator.h:10`.
- JsonObject: an erased name is found again, or cannot be added (`json_object.h:972`);
  fields behind the first 64 of a bucket are not found (`json_object.cpp:87`).
- RingQueue cannot be copied: the loops of its copy operations are over a const queue.
- ArrayListUnmanaged: `reserveExact`, `insertSwap`, `shrinkToFit`, `shrinkTo`,
  `appendList`, `appendBufferCopy` and `resize` cannot be instantiated.
- ArrayList: assignment to itself, `push(list[i])` into a full list, and appending nothing
  to an empty list (`ListLax`).
- HashMap: all negative `i64` keys hash alike (`hash.h:65`); the search for a free slot in vectors of
  64 masks goes over twice as many as there are (`hashmap.cpp:60`).
- JsonObject: with AVX-2 alone a search stops the program (`json_object.cpp:157`).
- String: a text assigned that fills its buffer to the last byte has no terminator; a slice
  of a string appended to it is read after it was overwritten (`StringLax`).

Text
- `parseInt` and `parseUint` test each digit against that of the greatest number, so they
  refuse 9199999999999999999 and 10000000000000000009, which are in the range of line 149 of
  `str.h`; `"-"` parses as 0, also as a fraction, against line 177 ("Not a number at all"); the least `i64`
  is summed by an overflow. The same functions of String refuse a string that has a
  buffer (`string.h:1537`).
- The hash of a string with a buffer leaves out its last vector, for most lengths, and for
  most from 149 on its check fails (`string.cpp:83`).
- With AVX-2 a slice is not found in a string with a buffer (`string.cpp:318`), and comparing one
  shorter than a vector with a slice counts below zero (`string.cpp:153`).
- `utf8::strlen` at run time adds to the leading byte where it means the next one (`utf8.h:103`): no
  trailing byte is tested, and the count can pass the terminator. A leading byte passes for a trailing one.
- `Str::findLast` of a character finds the first (`str.h:373`); `Str::find` reads behind
  its slice.
- `deserialize` succeeds although a value has another type than its field
  (`serialization.h:122`), where line 31 says that an error will be returned.
- Lists whose elements have commas are not read back (`string_type_conversion.h:99`).
- `String::format` loses what is behind the last slot when the format ends in a brace
  (`string.h:1262`), and reads a short String with a buffer as if it had none (line 1331).
- A text of JSON that ends right behind a value is parsed for ever. Strings are printed unescaped
  (`json_object.h:822`): one with a quote that has no backslash in front, or with a backslash at its end,
  is not read back (line 1493). An array with an object in it is refused, and so is one that ends in
  null, against lines 9 and 50 to 60.

## Proofs

TLC checks the instances above; the theorems hold for any clients, jobs, issuers
and ring size, any threads, handles and objects, any jobs with futures, any strings, any
queues and items, any lists, maps and objects, any guards, places and things, from the assumptions named in the modules
(threads and jobs are disjoint, capacities are positive, there are finitely many handles
and references, the sentinels are not objects). `TypeOK` of these components is proved and
implied by the invariants below; the runs do not check it a second time.

`JobThreadProofs.tla` proves `TypeCorrect`, `NotifyReachesSleeper`
(`NoMissedNotify`), `DestructorRunsClientJobs` (`OnlyNestedDropped`),
`CollectedWorkFits` (`WorkFits`) and `ImplementsExecutor` (`ExecutorSpec`). The
invariant `IInv` adds to the checked ones: who holds `_mutex` where (`MutexInv`),
without which a notification could fall between predicate and sleep; what the
worker has in hand where (`WorkerInv`); that history, batch and queue make up what
was accepted (`OrderInv`), which gives order and at-most-once; and `KeepInv`, the
reason the destructor loses no job of a client: while such a job is queued the
worker is marked executing, or its issuer is still in `notifyExecute`, or the
worker collects before it next tests the kill flag. `KeepInv` holds although
`QueuedJobsExecute` does not: the destructor's own notification picks up the job
that was left behind.

`SharedPtrProofs.tla` proves, for `Lax = {}`, `TypeCorrect`, `CountersExact`
(`RefCountExact`), `NothingUsedAfterFree` (`NoUseAfterFree`), `NothingLeaks`
(`NoLeak`) and `ImplementsOwnership` (`OwnershipSpec`). `IInv` adds that a call works
on handles of its own thread (`CallInv`), that what is owned is live (`LiveInv`) and
that one thread at most destroys an object, after its owners are gone
(`DestroyInv`). The argument goes through `Owners`: one lemma per kind of step says
what it does to the sets of owners, and the counters, the leak freedom and the
refinement follow from these lemmas alone.

`JobFutureProofs.tla` proves `TypeCorrect`, `NothingUsedAfterFree` (`NoUseAfterFree`),
`ResultReturned` (`WaitReturnsResult`) and `ImplementsPromise` (`PromiseSpec`). `QueueInv`
says what the executor's three sequences and the halves of a future have to do with
each other (a job holds its half exactly while it is queued or running), `BlockInv`
that a block lives while it has a handle and that whoever holds its lock is at the
step where the code holds it, and `ValueInv` what the block contains at each step of
`set` and `wait`. With these, "the count was below two" means that the user is gone
for good, which is why the skipped store is the abstract `Skip`.

`JobSystemProofs.tla` proves `TypeCorrect`, `NoneOverlooked` (`NoIdleOverlooked`) and
`LeastPicked` (`LeastLoaded`) for any number of threads and callers, from the assumptions
that there is a thread and that a ring holds fewer jobs than `0xffffffff`. `Offset` is the
place of a thread in a selection that starts anywhere in the array; `CheckedTurn` shows
that the modulus visits each place once. `ScanInv` and `FlagInv` say that a thread that
was passed over was not idle at that moment, although its flag was read earlier;
`LeastInv` and `GrowInv` relate what was read to what is there now.

`GlobalStringProofs.tla` proves `TypeCorrect`, `TablesAgree` (`TablesInverse`) and
`ImplementsIntern` (`InternSpec`) for any threads and finitely many strings, fewer than there
are ids. `IInv` adds who holds the lock where (`LockInv`), what the tables look like at each of the
three steps of a creation (`MidInv`: the map is one string ahead between `InsertAdds` and
`PushString`, the counter one behind until `CountId`) and that nobody has an id before the
tables are built or one that is not in them (`BuiltInv`). A reader holds the lock, so
nobody is in the middle, and the abstract table is what it reads.

`ContainersProofs.tla` is about `RingQueue`, `ArrayList` and `ArrayListUnmanaged`, `Allocator`,
`Holders` and `Guards`. Of rings of any capacity above one it proves `RingTypeCorrect`, `RingIndicesAgree` (`RingConsistent`: read
index plus length is the write index, modulo the capacity) and `ImplementsFifo`
(`RingFifoSpec`). The lemmas on `Place` say where the
element lies that is `i` behind the oldest: a push writes at the place behind the
newest, and the element `i` behind the new oldest is the one `i + 1` behind the old.

Of lists it proves `SlotsAreOwned` (`SlotsOwned`), `LookupsAreRight` (`ListLookups`) and
`ListsAreSequences` (`ListSequenceSpec`), and the same three of the unmanaged list, for
any elements, lengths and lanes. `ListInv` says that a list represents its contents: the slots
up to the length hold them, none behind is live, there is a buffer where there is a capacity.
Each call is a lemma on `Represents`: growth keeps it, moving elements up leaves one slot
that was moved from, moving them down destroys the last. Hypotheses: what stands for no
buffer and no contents is neither of them (`Apart`), and the calls that `ListLax` names are
not made; only those that the class in question does not survive are excluded.
`PowersAssumption` says of the lengths in question that the powers of two reach them: the
prover knows no laws of powers, and TLC evaluates it.

Of the allocator it proves `HeapGetsBackItsOwn` (`HeapSafe`) and `TrackersAreExact`
(`TrackersExact`) for any addresses and finitely many threads and references. `CallInv` says
that no two threads are in a call about the same address or place, `HeapInv` that what the
heap has handed out is tracked or on its way in or out, also when foreign frees have counted
the tracker down, `CountInv` that the count and the
threads that have yet to count make up the references that exist, and `CarefulInv` that
careful clients own what is tracked, and that the tracker's count is the number of it. It proves `ImplementsHolding` (`HoldingSpec`) for
`HolderLax = {}`: with the
invariant that what a holder has lives and no other has it (`HeldOnce`), each call of each
of the eight types comes down to putting, dropping, moving, swapping or taking. And it proves
`GuardsAreExact` (`GuardsProtect`) for any threads, guards and increments: `LockInv` says
that who holds the lock, to read or to write, has one guard that points to it, and no one else
has any, which moving a guard, emptying and destroying it all keep; `UseInv` that what was loaded
is still what the data are, and that its reader still holds the lock.

`TextProofs.tla` is about `String`, `Slice`, `Numerals` and `Utf8`. Of strings it proves `StringsAreSpelled`, `StringsAreTexts` (`StringTextSpec`) and
`StringsAreFound` (`StringLookups`), for any texts, sizes of the object and of a vector.
`StringInv` says that what was not moved from spells a text (`Spells`): it lies in the object if it
fits, else in a buffer of whole vectors with room for a terminator, and nothing but terminators
stand behind it. That last part is what the searches and comparisons by vectors need, which go
over whole vectors; an operation that left old characters there would break them only later. One lemma
per constructor, assignment and append says which text the result spells; two strings that spell
texts are equal by vectors exactly if their texts are. Hypotheses: clients do not make the calls that
`StringLax` names, and what stands for no text is not one. Of slices it proves
`SlicesAreSearched` (`SliceLookups`): a slice reads as its characters (`ReadsAs`), and no character is
the terminator, so a search that reads on behind the end of the memory finds nothing there.

Of numerals it proves `NumbersAreReadBack` (`NumbersReadBack`) for any base, any bounds and every
text, of `Utf8` `Utf8IsCounted` (`Utf8Counted`) for every sequence of bytes. Both are about what loops
over a text compute, and no induction theorem can be instantiated here. Induction is
therefore over sets: `FromAllBelow` says of a set of numbers that has each number below which all are
in it that it has them all, which follows from the well-foundedness of the order (`WFMin`), and
`FromAllAbove` says it downwards to 1. That a recursive function exists at all, so that what defines it may be
used, is proved the same way, once for each shape of recursion: `Counting` (from the number below),
`Recursion` (from any smaller one) and `Descending` (from any larger one up to a bound).

- The two sums of a text, from its last digit with a growing power (the code) and from its first
  (`Horner`), are the same number, and it has exactly one numeral without leading zeros. A sum of digits is below the
  power of the base that their number says. From these two facts follows what the tests of
  single digits against those of the greatest number refuse, and that printing and parsing are inverse.
- The digits behind the point are those of the fraction cut off at the precision, with zeros in front and
  none at the end; a fraction is read back if the precision holds it.
- Of UTF-8 texts: `Ahead` is where the next code point starts; the compile-time count fails where a code
  point is not `Announced`, the run-time test where it is not `Followed`, and in front of a terminator both are
  the same. In a well formed text the next code point starts at a leading byte or at the end, so
  the counts are those of the leading bytes from there on.

The proof found what `Numerals` had not said of its constants and the code relies on. The greatest
`u64` has no leading zero and the last digit of the greatest `i64` is below 9 (else its negation
had more digits, `BaseAssumption`); the narrow types have fewer digits than the wide ones, through which
they are parsed (`NarrowAssumption`); both words for a `bool` lie in the object of a String
(`TextAssumption`). TLC evaluates all of them on the instance.

`TablesProofs.tla` is about `HashMap`, `JsonObject` and the two together. Of any keys, hashes,
sizes of groups and blocks it proves `CountsAreExact` and `FieldsAreAccounted`
(`NothingUncounted`), `PairsAreInTheirGroups` (`PlacedByHash`), `IterationVisitsEachPair` and
`IterationVisitsEachField` (`IterationVisits`), `MapsAreDictionaries` and
`ObjectsAreDictionaries` (`DictionarySpec`); `NothingIsUncounted`, `PairsArePlacedByHash`,
`IterationIsComplete` and `TablesAreDictionaries` say it of `Tables`.

- A table is read as a partial function: `Carries` says that its places have the pairs of one,
  each once, and each in the group or bucket of its key. One lemma per operation on a group
  (insert, erase, double, search) gives the function it has afterwards; a reallocation
  inserts the pairs of one table into another in the order of their ranks, and after `i` of them
  the new one has the function restricted to those of rank `i` at most.
- `MapInv` adds that a group is empty or has as many slots as the map's groups need, that the count
  is that of the pairs, and what an iterator has seen: the keys at the places before the one
  where it is (`Visits`).
- `ObjectInv` has to say what stands behind the end of a bucket (`Represented`): names that were
  erased, or names that stand before the end as well. A search scans whole blocks and finds
  them; the name it looks for is not among them as long as no client asks for one that was
  erased. The count is the number of the fields and of those that were `lost` (`Sound`): a name is counted
  exactly if it was absent, whatever growth and copies do to the buckets.
- Hypotheses. Clients do not make the calls that `Lax` names (`Heedful`): no key is erased that
  is missing, no erased name is asked for, and no bucket gets more fields than a block has
  masks. Of the numbers, the proofs assume that
  group and bucket counts are positive and that `2 ^ n` is a number above `n`
  (`GroupCountAssumption`, `BucketCountAssumption`, `PowersAssumption`); TLC evaluates them.

The folds of these models (a reallocation, a copy, a sum over a batch) are recursive functions over
`0 .. n`. What they compute is proved from the least argument at which it would be wrong (`NatLeast`,
`UpTo`), as for the texts.

Only model-checked: the liveness properties (fairness and ENABLED are out of the
prover's reach); `PartsInPlace`, where lists within lists are printed and split again, of which no lemma
above speaks; `JsonRoundTrip` and `StructReadBack`, which are about what is printed and parsed by operators
that are declared RECURSIVE: the prover expands no such definition.

## Not modelled

- The value of a hash: what a hash is made of is in `StringHash` and `NumberHash`, how it is mixed is not;
  keys of the tables have constant hashes.
- Rounding of fractions: `fromFloat` prints and `parseFloat` sums exact fractions in the model, of numbers
  whose whole part is an `i64`.
- Of serialization: enumerations, and that strings are moved out of the object they are read
  from. The names of fields are given, reflection finds them at compile time.
- Recursive locking, which `Mutex` and `RwLock` do not support; constant-evaluated paths
  where they differ from those at run time only in being written without intrinsics.
- Sizes and alignments of allocations; a heap that is out of memory, but for
  `ArrayListUnmanaged`, which returns it as an error.
- CPU detection, type aliases, the entry point of the tests, the vendored test framework.

About a quarter of the source lines is the vendored framework, and about as many are tests at the end
of the `.cpp` files. What the definitions stand for is most of the rest.

The library assumes sequentially
consistent flags (`std::atomic` with default ordering), which the models use; the
acquire and release orderings of the SharedPtr counter are modelled as a single
order of accesses to that counter, which is what they guarantee for one location.

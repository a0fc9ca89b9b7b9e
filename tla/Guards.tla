------------------------------- MODULE Guards -------------------------------
(***************************************************************************)
(* The guards of gk::Mutex (sync/mutex.h) and gk::RwLock (sync/rw_lock.h):   *)
(* what lock, read, write and the try forms return, moved about by their     *)
(* threads and destroyed, and the data they protect.  A guard is what its    *)
(* pointer stands for: a shared or an exclusive lock, or null.              *)
(***************************************************************************)
EXTENDS Naturals, Sequences, FiniteSets

Seqs == INSTANCE SequencesExt

CONSTANTS
  Lockers,       \* threads
  NoThread,      \* "nobody writes"
  NoLoad,        \* "nothing is loaded"
  MaxGuards,     \* bound on the guards a thread has at once
  MaxData        \* bound on the increments

ASSUME GuardsAssumption == MaxGuards \in Nat \ {0} /\ MaxData \in Nat
ASSUME NobodyAssumption == NoThread \notin Lockers /\ NoLoad \notin Nat

VARIABLES
  readers,
  writer
VARIABLE data        \* Mutex::_data, RwLock::_data: a number that is incremented
VARIABLE primitive   \* "Mutex" or "RwLock"
VARIABLE guards      \* the guards that are not destroyed, per thread
VARIABLE loaded      \* what a thread read of the data and still uses
VARIABLE increments  \* how many times the data was incremented

SRWLock == INSTANCE RwLock WITH Threads <- Lockers

guardVars == <<readers, writer, data, primitive, guards, loaded, increments>>

-----------------------------------------------------------------------------
GuardsInit ==
  /\ SRWLock!LockInit
  /\ primitive \in {"Mutex", "RwLock"}
  /\ data = 0 /\ increments = 0
  /\ guards = [t \in Lockers |-> <<>>]
  /\ loaded = [t \in Lockers |-> NoLoad]

Holds(t) == \E i \in DOMAIN guards[t] : guards[t][i] # "null"
HasRoom(t) == Len(guards[t]) < MaxGuards

\* A guard comes to its thread: of what lock() returns, or in the Option of tryLock().
Locked(t, g) ==
  /\ guards' = [guards EXCEPT ![t] = Append(@, g)]
  /\ UNCHANGED <<data, primitive, loaded, increments>>

\* "Does NOT support recursive locking": what may wait is called without a lock.
Lock(t) == primitive = "Mutex" /\ ~Holds(t) /\ HasRoom(t) /\ SRWLock!WriteLock(t) /\ Locked(t, "write")

ReadData(t) == primitive = "RwLock" /\ ~Holds(t) /\ HasRoom(t) /\ SRWLock!ReadLock(t) /\ Locked(t, "read")

WriteData(t) == primitive = "RwLock" /\ ~Holds(t) /\ HasRoom(t) /\ SRWLock!WriteLock(t) /\ Locked(t, "write")

\* Option(): the guard in None is a null one.
NoneLocked(t) == Locked(t, "null") /\ UNCHANGED <<readers, writer>>

TryLock(t) ==
  /\ primitive = "Mutex" /\ HasRoom(t)
  /\ \/ SRWLock!WriteLock(t) /\ Locked(t, "write")
     \/ writer # NoThread /\ NoneLocked(t)

TryRead(t) ==
  /\ primitive = "RwLock" /\ HasRoom(t) /\ t \notin readers
  /\ \/ SRWLock!ReadLock(t) /\ Locked(t, "read")
     \/ writer # NoThread /\ NoneLocked(t)

TryWrite(t) ==
  /\ primitive = "RwLock" /\ HasRoom(t)
  /\ \/ SRWLock!WriteLock(t) /\ Locked(t, "write")
     \/ (writer # NoThread \/ readers # {}) /\ NoneLocked(t)

\* Mutant of MovedFrom: the guard that is moved from keeps its pointer.
StillHeld(g) == g

\* other._mutex = nullptr; other._rwlock = nullptr.
MovedFrom(g) == "null"

\* A guard is move constructed: returned, moved, or taken by some() out of an Option.
MoveGuard(t, i) ==
  /\ HasRoom(t) /\ i \in DOMAIN guards[t]
  /\ guards' = [guards EXCEPT ![t] = Append([@ EXCEPT ![i] = MovedFrom(@)], guards[t][i])]
  /\ UNCHANGED <<readers, writer, data, primitive, loaded, increments>>

\* The destructors, in any order: a temporary goes before the object it was moved
\* to.  A guard that is in use is not destroyed.
DestroyGuard(t, i) ==
  /\ i \in DOMAIN guards[t]
  /\ CASE guards[t][i] = "null" -> UNCHANGED <<readers, writer>>
       [] guards[t][i] = "read" -> loaded[t] = NoLoad /\ SRWLock!ReadUnlock(t)
       [] guards[t][i] = "write" -> loaded[t] = NoLoad /\ SRWLock!WriteUnlock(t)
  /\ guards' = [guards EXCEPT ![t] = Seqs!RemoveAt(@, i)]
  /\ UNCHANGED <<data, primitive, loaded, increments>>

\* *guard.get(), and (*guard.get())++ in its two steps.
Get(t, i) ==
  /\ loaded[t] = NoLoad
  /\ i \in DOMAIN guards[t] /\ guards[t][i] # "null"
  /\ loaded' = [loaded EXCEPT ![t] = data]
  /\ UNCHANGED <<readers, writer, data, primitive, guards, increments>>

Increment(t, i) ==
  /\ loaded[t] # NoLoad /\ increments < MaxData
  /\ i \in DOMAIN guards[t] /\ guards[t][i] = "write"
  /\ data' = loaded[t] + 1 /\ increments' = increments + 1
  /\ loaded' = [loaded EXCEPT ![t] = NoLoad]
  /\ UNCHANGED <<readers, writer, primitive, guards>>

\* What was read is not used any more.
Used(t) ==
  /\ loaded[t] # NoLoad
  /\ loaded' = [loaded EXCEPT ![t] = NoLoad]
  /\ UNCHANGED <<readers, writer, data, primitive, guards, increments>>

GuardsNext ==
  \E t \in Lockers :
    \/ Lock(t) \/ TryLock(t) \/ ReadData(t) \/ TryRead(t) \/ WriteData(t) \/ TryWrite(t)
    \/ Used(t)
    \/ \E i \in 1 .. MaxGuards : MoveGuard(t, i) \/ DestroyGuard(t, i) \/ Get(t, i) \/ Increment(t, i)

GuardsSpec == GuardsInit /\ [][GuardsNext]_guardVars

-----------------------------------------------------------------------------
\* A lock is held exactly as long as there is one guard that points to it, through
\* every move, Option and failed try, so it is given back once; and between a
\* read through a guard and the end of its use nobody changes the data, so no
\* increment is lost, which the tests of both files count.
GuardsProtect ==
  /\ \A t \in Lockers :
       LET Live(g) == Cardinality({i \in DOMAIN guards[t] : guards[t][i] = g}) IN
       /\ Live("read") = IF t \in readers THEN 1 ELSE 0
       /\ Live("write") = IF t = writer THEN 1 ELSE 0
       /\ loaded[t] # NoLoad => loaded[t] = data
  /\ data = increments
=============================================================================

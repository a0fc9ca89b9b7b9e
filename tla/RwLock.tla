------------------------------- MODULE RwLock -------------------------------
(***************************************************************************)
(* gk::RwLock (sync/rw_lock.h): data behind an SRWLOCK, taken by read() or  *)
(* write() and given back by the destructor of the guard these return.  An  *)
(* action is a call of one thread; the data belongs to the module that      *)
(* EXTENDS this one.                                                        *)
(***************************************************************************)
CONSTANTS
  Threads,
  NoThread       \* "nobody writes"

ASSUME NoThreadAssumption == NoThread \notin Threads

VARIABLES
  readers,       \* the threads that hold a LockedReader
  writer         \* the thread that holds the LockedWriter, or NoThread

lockVars == <<readers, writer>>

LockInit == readers = {} /\ writer = NoThread

LockTypeOK == readers \in SUBSET Threads /\ writer \in Threads \cup {NoThread}

\* read(): blocks while somebody writes.
ReadLock(t) ==
  /\ writer = NoThread
  /\ readers' = readers \cup {t}
  /\ UNCHANGED writer

\* Mutant of WriteLock: a writer does not wait for the readers.
WriteLockAmongReaders(t) ==
  /\ writer = NoThread
  /\ writer' = t
  /\ UNCHANGED readers

\* write(): blocks while anybody reads or writes.
WriteLock(t) ==
  /\ writer = NoThread /\ readers = {}
  /\ writer' = t
  /\ UNCHANGED readers

\* ~LockedReader and ~LockedWriter.
ReadUnlock(t) ==
  /\ t \in readers
  /\ readers' = readers \ {t}
  /\ UNCHANGED writer

WriteUnlock(t) ==
  /\ writer = t
  /\ writer' = NoThread
  /\ UNCHANGED readers
=============================================================================

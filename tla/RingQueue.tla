----------------------------- MODULE RingQueue -----------------------------
(***************************************************************************)
(* gk::RingQueue (queue/ring_queue.h): a ring of a capacity that is fixed   *)
(* when it is made.  A loop over a queue moves its elements out.            *)
(*                                                                         *)
(* The copy constructor and the copy assignment loop over a const queue and *)
(* can not be instantiated.  Clients push only when the queue is not full   *)
(* and pop only when it is not empty, which the code asserts; they use a    *)
(* queue they have moved from for nothing but assignment and destruction.   *)
(***************************************************************************)
EXTENDS Naturals, Sequences

CONSTANTS
  Queues,          \* places that hold a RingQueue
  Items,           \* what is queued
  Bounds,          \* the capacities queues are made with
  NoItem           \* what is in a slot that was never written or was moved from

ASSUME BoundsAssumption == Bounds # {} /\ \A c \in Bounds : c \in Nat /\ c > 1
ASSUME NoItemAssumption == NoItem \notin Items

VARIABLES
  queues,          \* of each place: its RingQueue
  built,           \* the places that hold one
  popped,          \* what the last pop returned
  loop             \* of each place: the iterations that a loop over it has left

ringVars == <<queues, built, popped, loop>>

-----------------------------------------------------------------------------
NullBuffer == <<>>

RingSlots(c) == [0 .. c - 1 -> Items \cup {NoItem}]

Rings ==
  UNION {[buffer : RingSlots(c) \cup {NullBuffer}, capacity : {c}, len : 0 .. c,
          readIndex : 0 .. c - 1, writeIndex : 0 .. c - 1] : c \in Bounds}

\* The constructor: a new ring of c slots.
NewRing(c) ==
  [buffer |-> [i \in 0 .. c - 1 |-> NoItem], capacity |-> c, len |-> 0,
   readIndex |-> 0, writeIndex |-> 0]

\* Mutant of RingNext: the index is taken back one slot too late.
RingNextLate(r, i) == (i + 1) % (r.capacity + 1)

RingNext(r, i) == (i + 1) % r.capacity

IsFull(r) == r.len = r.capacity
IsEmpty(r) == r.len = 0

Pushed(r, e) ==
  [r EXCEPT !.buffer[r.writeIndex] = e, !.writeIndex = RingNext(r, @), !.len = @ + 1]

Popped(r) ==
  [r EXCEPT !.buffer[r.readIndex] = NoItem, !.readIndex = RingNext(r, @), !.len = @ - 1]

\* Where no queue is.
Unbuilt == [NewRing(CHOOSE c \in Bounds : TRUE) EXCEPT !.buffer = NullBuffer]

Usable(q) == q \in built /\ queues[q].buffer # NullBuffer

RingInit ==
  /\ queues = [q \in Queues |-> Unbuilt]
  /\ built = {}
  /\ popped = NoItem
  /\ loop = [q \in Queues |-> 0]

-----------------------------------------------------------------------------
RingConstruct(q, c) ==
  /\ q \notin built
  /\ queues' = [queues EXCEPT ![q] = NewRing(c)]
  /\ built' = built \cup {q}
  /\ popped' = NoItem
  /\ UNCHANGED loop

RingPush(q, e) ==
  /\ Usable(q)
  /\ ~IsFull(queues[q])
  /\ queues' = [queues EXCEPT ![q] = Pushed(@, e)]
  /\ popped' = NoItem
  /\ UNCHANGED <<built, loop>>

RingPop(q) ==
  /\ Usable(q)
  /\ ~IsEmpty(queues[q])
  /\ loop[q] = 0
  /\ popped' = queues[q].buffer[queues[q].readIndex]
  /\ queues' = [queues EXCEPT ![q] = Popped(@)]
  /\ UNCHANGED <<built, loop>>

\* begin() and end() of a loop over q: it goes on for as many iterations as q has elements now.
RingLoop(q) ==
  /\ Usable(q)
  /\ loop[q] = 0
  /\ loop' = [loop EXCEPT ![q] = queues[q].len]
  /\ popped' = NoItem
  /\ UNCHANGED <<queues, built>>

\* One iteration: operator* pops, whatever the index of the iterator, and the
\* body of the loop, which may push into q, runs before the next one.
RingIterate(q) ==
  /\ loop[q] > 0
  /\ popped' = queues[q].buffer[queues[q].readIndex]
  /\ queues' = [queues EXCEPT ![q] = Popped(@)]
  /\ loop' = [loop EXCEPT ![q] = @ - 1]
  /\ UNCHANGED built

\* The move constructor and the move assignment: p keeps everything but its buffer.
RingMove(q, p) ==
  /\ p \in built /\ q # p
  /\ loop[q] = 0 /\ loop[p] = 0
  /\ queues' = [queues EXCEPT ![q] = queues[p], ![p].buffer = NullBuffer]
  /\ popped' = NoItem
  /\ UNCHANGED loop

RingMoveConstruct(q, p) == q \notin built /\ RingMove(q, p) /\ built' = built \cup {q}
RingMoveAssign(q, p) == q \in built /\ RingMove(q, p) /\ UNCHANGED built

RingDestroy(q) ==
  /\ q \in built
  /\ loop[q] = 0
  /\ queues' = [queues EXCEPT ![q] = Unbuilt]
  /\ built' = built \ {q}
  /\ popped' = NoItem
  /\ UNCHANGED loop

RingNextStep ==
  \E q \in Queues :
    \/ \E c \in Bounds : RingConstruct(q, c)
    \/ \E e \in Items : RingPush(q, e)
    \/ RingPop(q)
    \/ RingLoop(q)
    \/ RingIterate(q)
    \/ \E p \in Queues : RingMoveConstruct(q, p) \/ RingMoveAssign(q, p)
    \/ RingDestroy(q)

RingSpec == RingInit /\ [][RingNextStep]_ringVars

-----------------------------------------------------------------------------
\* The variables have their types: every index is one of the ring's, a
\* queue has as many elements as lie between its indices, and a loop never
\* has more iterations left than its queue has elements, so that no
\* iteration pops from an empty one.
RingTypeOK ==
  /\ queues \in [Queues -> Rings]
  /\ built \in SUBSET Queues
  /\ popped \in Items \cup {NoItem}
  /\ loop \in [Queues -> Nat]

RingConsistent ==
  \A q \in Queues :
    LET r == queues[q] IN
    /\ r.buffer # NullBuffer => q \in built
    /\ r.writeIndex = (r.readIndex + r.len) % r.capacity
    /\ loop[q] <= r.len
    /\ loop[q] > 0 => r.buffer # NullBuffer

\* The elements of a ring from the oldest to the newest.
Contents(r) == [i \in 1 .. r.len |-> r.buffer[(r.readIndex + i - 1) % r.capacity]]

\* What a ring without a buffer stands for is a queue with no room.
FifoOf(r) ==
  IF r.buffer = NullBuffer THEN [items |-> <<>>, bound |-> 0]
  ELSE [items |-> Contents(r), bound |-> r.capacity]

F == INSTANCE Fifo WITH fifo <- [q \in Queues |-> FifoOf(queues[q])], answer <- popped

\* However pushes, pops, loops and moves follow each other, and however often
\* the indices go around, each queue is a bounded first-in first-out queue.
RingFifoSpec == F!Spec
=============================================================================

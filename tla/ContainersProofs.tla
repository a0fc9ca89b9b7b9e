-------------------------- MODULE ContainersProofs --------------------------
(***************************************************************************)
(* Proofs about RingQueue, ArrayList and ArrayListUnmanaged, Allocator,     *)
(* Holders and Guards, for any places, elements, capacities, sizes, threads,*)
(* addresses, references, things and guards.  The indices of every ring     *)
(* agree with its length whichever way they wrapped, and each ring is a     *)
(* bounded first-in first-out queue; every slot of a list up to its capacity*)
(* is owned by it, and the lists are sequences, by vectors as well as one by*)
(* one.  The heap gets back only what it handed out, and the trackers and   *)
(* the reference count are exact; what a holder has is in one holder, lives,*)
(* and is destroyed once; a lock is given back by the one guard that has it,*)
(* and not while its data are used.                                         *)
(***************************************************************************)
EXTENDS RingQueue, UnmanagedList, Guards, Allocator, Holders, Integers, SequenceTheorems,
        FiniteSetTheorems, WellFoundedInduction, TLAPS

-----------------------------------------------------------------------------
(* Ring queues *)

\* What the indices say of a ring's length.
Agree(r) == r.writeIndex = (r.readIndex + r.len) % r.capacity

RingInv == RingTypeOK /\ RingConsistent

-----------------------------------------------------------------------------
(* Arithmetic of the indices *)

LEMMA ModSmall == ASSUME NEW n \in Nat \ {0}, NEW a \in 0 .. n - 1  PROVE a % n = a
  OBVIOUS

LEMMA ModWrap == ASSUME NEW n \in Nat \ {0}, NEW a \in n .. 2 * n - 1  PROVE a % n = a - n
  OBVIOUS

\* Where the element is that lies i places behind the oldest one.
Place(r, i) ==
  IF r.readIndex + i < r.capacity THEN r.readIndex + i ELSE r.readIndex + i - r.capacity

-----------------------------------------------------------------------------
(* Rings *)

LEMMA RingFields ==
  ASSUME NEW r \in Rings
  PROVE  /\ r.capacity \in Bounds /\ r.capacity \in Nat /\ r.capacity > 1
         /\ r.len \in 0 .. r.capacity
         /\ r.readIndex \in 0 .. r.capacity - 1 /\ r.writeIndex \in 0 .. r.capacity - 1
         /\ r.buffer \in RingSlots(r.capacity) \cup {NullBuffer}
         /\ r = [buffer |-> r.buffer, capacity |-> r.capacity, len |-> r.len,
                 readIndex |-> r.readIndex, writeIndex |-> r.writeIndex]
  BY BoundsAssumption DEF Rings

LEMMA RingMade ==
  ASSUME NEW c \in Bounds, NEW b \in RingSlots(c) \cup {NullBuffer}, NEW n \in 0 .. c,
         NEW i \in 0 .. c - 1, NEW j \in 0 .. c - 1
  PROVE  [buffer |-> b, capacity |-> c, len |-> n, readIndex |-> i, writeIndex |-> j] \in Rings
  BY DEF Rings

LEMMA NotNull == ASSUME NEW c \in Bounds, NEW b \in RingSlots(c)  PROVE b # NullBuffer
<1>1. 0 \in DOMAIN b /\ 0 \notin DOMAIN NullBuffer
  BY BoundsAssumption DEF RingSlots, NullBuffer
<1>. QED
  BY <1>1

\* The index arithmetic of the code is Place.
LEMMA PlaceIs ==
  ASSUME NEW r \in Rings, NEW i \in 0 .. r.capacity
  PROVE  /\ (r.readIndex + i) % r.capacity = Place(r, i)
         /\ Place(r, i) \in 0 .. r.capacity - 1
<1>1. /\ r.capacity \in Nat \ {0} /\ r.readIndex \in 0 .. r.capacity - 1
      /\ r.readIndex + i \in 0 .. 2 * r.capacity - 1
  BY RingFields
<1>2. CASE r.readIndex + i < r.capacity
  BY <1>1, <1>2, ModSmall DEF Place
<1>3. CASE r.readIndex + i >= r.capacity
  <2>1. r.readIndex + i \in r.capacity .. 2 * r.capacity - 1
    BY <1>1, <1>3
  <2>2. (r.readIndex + i) % r.capacity = r.readIndex + i - r.capacity
    BY <1>1, <2>1, ModWrap
  <2>. QED
    BY <1>1, <1>3, <2>1, <2>2 DEF Place
<1>. QED
  BY <1>1, <1>2, <1>3

LEMMA NextIs ==
  ASSUME NEW r \in Rings, NEW i \in 0 .. r.capacity - 1
  PROVE  RingNext(r, i) = IF i + 1 < r.capacity THEN i + 1 ELSE 0
<1>1. r.capacity \in Nat \ {0} /\ i + 1 \in 0 .. r.capacity
  BY RingFields
<1>2. CASE i + 1 < r.capacity
  BY <1>1, <1>2, ModSmall DEF RingNext
<1>3. CASE i + 1 = r.capacity
  BY <1>1, <1>3, ModWrap DEF RingNext
<1>. QED
  BY <1>1, <1>2, <1>3

\* The contents are read at the places behind the oldest element.
LEMMA RingContentsAre ==
  ASSUME NEW r \in Rings
  PROVE  Contents(r) = [i \in 1 .. r.len |-> r.buffer[Place(r, i - 1)]]
<1>1. ASSUME NEW i \in 1 .. r.len
      PROVE  r.buffer[(r.readIndex + i - 1) % r.capacity] = r.buffer[Place(r, i - 1)]
  <2>1. i - 1 \in 0 .. r.capacity /\ r.readIndex + i - 1 = r.readIndex + (i - 1)
    BY RingFields
  <2>. QED
    BY <2>1, PlaceIs
<1>. QED
  BY <1>1 DEF Contents

LEMMA AppendIs ==
  ASSUME NEW S, NEW s \in Seq(S), NEW e \in S
  PROVE  Append(s, e) = [k \in 1 .. Len(s) + 1 |-> IF k <= Len(s) THEN s[k] ELSE e]
<1> DEFINE t == Append(s, e)
<1>1. t \in Seq(S) /\ Len(t) = Len(s) + 1
  OBVIOUS
<1>2. \A k \in 1 .. Len(s) + 1 : t[k] = IF k <= Len(s) THEN s[k] ELSE e
  OBVIOUS
<1>. HIDE DEF t
<1>3. t \in [1 .. Len(s) + 1 -> S]
  BY <1>1, LenProperties
<1>4. t = [k \in 1 .. Len(s) + 1 |-> IF k <= Len(s) THEN s[k] ELSE e]
  BY <1>2, <1>3
<1>. QED
  BY <1>4 DEF t

LEMMA TailIs ==
  ASSUME NEW S, NEW s \in Seq(S), s # <<>>
  PROVE  Tail(s) = [k \in 1 .. Len(s) - 1 |-> s[k + 1]]
<1> DEFINE t == Tail(s)
<1>1. /\ t \in Seq(S) /\ Len(t) = Len(s) - 1
      /\ \A k \in 1 .. Len(t) : t[k] = s[k + 1]
  BY HeadTailProperties
<1>. HIDE DEF t
<1>2. t \in [1 .. Len(s) - 1 -> S]
  BY <1>1, LenProperties
<1>3. t = [k \in 1 .. Len(s) - 1 |-> s[k + 1]]
  BY <1>1, <1>2
<1>. QED
  BY <1>3 DEF t

\* What becomes of a queue's record when its elements change.
LEMMA WithItems ==
  ASSUME NEW f, NEW s, NEW t, NEW n, f = [items |-> s, bound |-> n]
  PROVE  [f EXCEPT !.items = t] = [items |-> t, bound |-> n]
  OBVIOUS

\* The contents are a sequence as long as the ring says.
LEMMA ContentsSeq ==
  ASSUME NEW r \in Rings, r.buffer # NullBuffer
  PROVE  /\ Contents(r) \in Seq(Items \cup {NoItem})
         /\ Len(Contents(r)) = r.len
<1>1. r.len \in Nat /\ r.buffer \in RingSlots(r.capacity)
  BY RingFields
<1>2. ASSUME NEW k \in 1 .. r.len  PROVE r.buffer[Place(r, k - 1)] \in Items \cup {NoItem}
  <2>1. k - 1 \in 0 .. r.capacity
    BY RingFields
  <2>. QED
    BY <1>1, <2>1, PlaceIs DEF RingSlots
<1>. QED
  BY <1>1, <1>2, RingContentsAre

LEMMA FifoOfRing ==
  ASSUME NEW r, r.buffer # NullBuffer
  PROVE  FifoOf(r) = [items |-> Contents(r), bound |-> r.capacity]
  BY DEF FifoOf

LEMMA NewRingSound ==
  ASSUME NEW c \in Bounds
  PROVE  /\ NewRing(c) \in Rings /\ Agree(NewRing(c))
         /\ NewRing(c).buffer # NullBuffer
         /\ FifoOf(NewRing(c)) = [items |-> <<>>, bound |-> c]
<1>1. c \in Nat /\ c > 1
  BY BoundsAssumption
<1>2. [i \in 0 .. c - 1 |-> NoItem] \in RingSlots(c)
  BY DEF RingSlots
<1>3. NewRing(c) \in Rings
  BY <1>1, <1>2, RingMade DEF NewRing
<1>4. (0 + 0) % c = 0
  BY <1>1, ModSmall
<1>5. Agree(NewRing(c))
  BY <1>1, <1>4 DEF NewRing, Agree
<1>6. NewRing(c).buffer # NullBuffer
  BY <1>2, NotNull DEF NewRing
<1>7. Contents(NewRing(c)) = <<>>
  BY DEF Contents, NewRing
<1>. QED
  BY <1>3, <1>5, <1>6, <1>7 DEF FifoOf, NewRing

\* A push writes behind the newest element and leaves the others where they are.
LEMMA PushSound ==
  ASSUME NEW r \in Rings, r.buffer # NullBuffer, Agree(r), ~IsFull(r), NEW e \in Items
  PROVE  /\ Pushed(r, e) \in Rings /\ Agree(Pushed(r, e))
         /\ Pushed(r, e).buffer # NullBuffer /\ Pushed(r, e).len = r.len + 1
         /\ FifoOf(Pushed(r, e)) = [FifoOf(r) EXCEPT !.items = Append(@, e)]
         /\ Len(FifoOf(r).items) < FifoOf(r).bound
<1> DEFINE c == r.capacity
           p == Pushed(r, e)
           b == [r.buffer EXCEPT ![r.writeIndex] = e]
           j == IF r.writeIndex + 1 < c THEN r.writeIndex + 1 ELSE 0
<1>1. /\ c \in Bounds /\ c \in Nat /\ c > 1 /\ r.len \in 0 .. c - 1
      /\ r.readIndex \in 0 .. c - 1 /\ r.writeIndex \in 0 .. c - 1 /\ r.buffer \in RingSlots(c)
  BY RingFields DEF IsFull
<1>2. p = [buffer |-> b, capacity |-> c, len |-> r.len + 1, readIndex |-> r.readIndex, writeIndex |-> j]
  <2>1. RingNext(r, r.writeIndex) = j
    BY <1>1, NextIs
  <2>2. p = [r EXCEPT !.buffer = b, !.writeIndex = j, !.len = r.len + 1]
    BY <2>1 DEF Pushed
  <2>. QED
    BY <2>2, RingFields
<1>3. b \in RingSlots(c) /\ j \in 0 .. c - 1 /\ r.len + 1 \in 0 .. c
  BY <1>1 DEF RingSlots
<1>. HIDE DEF p, b, j
<1>4. p \in Rings /\ p.buffer # NullBuffer
  BY <1>1, <1>2, <1>3, RingMade, NotNull
<1>5. r.writeIndex = Place(r, r.len)
  BY <1>1, PlaceIs DEF Agree
<1>6. (r.readIndex + (r.len + 1)) % c = Place(r, r.len + 1)
  BY <1>3, PlaceIs
<1>7. Agree(p)
  <2>1. j = Place(r, r.len + 1)
    BY <1>1, <1>5 DEF Place, j
  <2>. QED
    BY <1>2, <1>6, <2>1 DEF Agree
<1>8. Contents(p) = Append(Contents(r), e)
  <2>1. Contents(p) = [k \in 1 .. r.len + 1 |-> b[Place(r, k - 1)]]
    BY <1>2, <1>4, RingContentsAre DEF Place
  <2>2. Contents(r) = [k \in 1 .. r.len |-> r.buffer[Place(r, k - 1)]]
    BY RingContentsAre
  <2>3. b[Place(r, r.len)] = e
    BY <1>1, <1>5 DEF RingSlots, b
  <2>4. ASSUME NEW k \in 1 .. r.len  PROVE b[Place(r, k - 1)] = r.buffer[Place(r, k - 1)]
    <3>1. Place(r, k - 1) # r.writeIndex
      BY <1>1, <1>5 DEF Place
    <3>. QED
      BY <1>1, <3>1 DEF RingSlots, b
  <2>5. Append(Contents(r), e) = [k \in 1 .. r.len + 1 |-> IF k <= r.len THEN Contents(r)[k] ELSE e]
    BY ContentsSeq, AppendIs
  <2>6. ASSUME NEW k \in 1 .. r.len + 1
        PROVE  b[Place(r, k - 1)] = IF k <= r.len THEN Contents(r)[k] ELSE e
    BY <1>1, <2>2, <2>3, <2>4
  <2>. QED
    BY <2>1, <2>5, <2>6
<1>9. FifoOf(p) = [FifoOf(r) EXCEPT !.items = Append(@, e)]
  <2>1. FifoOf(r) = [items |-> Contents(r), bound |-> c]
    BY FifoOfRing
  <2>2. FifoOf(p) = [items |-> Append(Contents(r), e), bound |-> c]
    BY <1>2, <1>4, <1>8, FifoOfRing
  <2>3. [FifoOf(r) EXCEPT !.items = Append(@, e)] = [FifoOf(r) EXCEPT !.items = Append(Contents(r), e)]
    BY <2>1
  <2>. QED
    BY <2>1, <2>2, <2>3, WithItems
<1>10. Len(FifoOf(r).items) < FifoOf(r).bound
  BY <1>1, ContentsSeq, FifoOfRing
<1>11. p.len = r.len + 1
  BY <1>2
<1>. QED
  BY <1>4, <1>7, <1>9, <1>10, <1>11 DEF p

\* A pop takes the oldest element and leaves the others where they are.
LEMMA PopSound ==
  ASSUME NEW r \in Rings, r.buffer # NullBuffer, Agree(r), ~IsEmpty(r)
  PROVE  /\ Popped(r) \in Rings /\ Agree(Popped(r))
         /\ Popped(r).buffer # NullBuffer /\ Popped(r).len = r.len - 1
         /\ r.buffer[r.readIndex] \in Items \cup {NoItem}
         /\ FifoOf(r).items # <<>> /\ r.buffer[r.readIndex] = Head(FifoOf(r).items)
         /\ FifoOf(Popped(r)) = [FifoOf(r) EXCEPT !.items = Tail(@)]
<1> DEFINE c == r.capacity
           p == Popped(r)
           b == [r.buffer EXCEPT ![r.readIndex] = NoItem]
           j == IF r.readIndex + 1 < c THEN r.readIndex + 1 ELSE 0
<1>1. /\ c \in Bounds /\ c \in Nat /\ c > 1 /\ r.len \in 1 .. c
      /\ r.readIndex \in 0 .. c - 1 /\ r.writeIndex \in 0 .. c - 1 /\ r.buffer \in RingSlots(c)
  BY RingFields DEF IsEmpty
<1>2. p = [buffer |-> b, capacity |-> c, len |-> r.len - 1, readIndex |-> j, writeIndex |-> r.writeIndex]
  <2>1. RingNext(r, r.readIndex) = j
    BY <1>1, NextIs
  <2>2. p = [r EXCEPT !.buffer = b, !.readIndex = j, !.len = r.len - 1]
    BY <2>1 DEF Popped
  <2>. QED
    BY <2>2, RingFields
<1>3. b \in RingSlots(c) /\ j \in 0 .. c - 1 /\ r.len - 1 \in 0 .. c
  BY <1>1 DEF RingSlots
<1>. HIDE DEF p, b, j
<1>4. p \in Rings /\ p.buffer # NullBuffer
  BY <1>1, <1>2, <1>3, RingMade, NotNull
\* The place i behind the new oldest element is i + 1 behind the old one.
<1>5. ASSUME NEW i \in 0 .. r.len - 1  PROVE Place(p, i) = Place(r, i + 1)
  BY <1>1, <1>2 DEF Place, j
<1>6. Agree(p)
  <2>1. r.writeIndex = Place(r, r.len)
    BY <1>1, PlaceIs DEF Agree
  <2>2. Place(p, r.len - 1) = Place(r, r.len)
    BY <1>1, <1>5
  <2>3. (p.readIndex + (r.len - 1)) % p.capacity = Place(p, r.len - 1)
    BY <1>2, <1>3, <1>4, PlaceIs
  <2>. QED
    BY <1>2, <2>1, <2>2, <2>3 DEF Agree
<1>7. Contents(r) = [k \in 1 .. r.len |-> r.buffer[Place(r, k - 1)]]
  BY RingContentsAre
<1>8. Contents(r) \in Seq(Items \cup {NoItem}) /\ Len(Contents(r)) = r.len
  BY ContentsSeq
<1>9. Place(r, 0) = r.readIndex /\ Contents(r)[1] = r.buffer[r.readIndex]
  BY <1>1, <1>7 DEF Place
<1>10. Contents(p) = Tail(Contents(r))
  <2>1. Contents(p) = [k \in 1 .. r.len - 1 |-> b[Place(p, k - 1)]]
    BY <1>2, <1>4, RingContentsAre
  <2>2. Tail(Contents(r)) = [k \in 1 .. r.len - 1 |-> Contents(r)[k + 1]]
    <3>1. Contents(r) # <<>>
      BY <1>1, <1>8
    <3>. QED
      BY <1>8, <3>1, TailIs
  <2>3. ASSUME NEW k \in 1 .. r.len - 1  PROVE b[Place(p, k - 1)] = Contents(r)[k + 1]
    <3>1. Place(p, k - 1) = Place(r, k)
      BY <1>1, <1>5
    <3>2. Place(r, k) # r.readIndex /\ Place(r, k) \in 0 .. c - 1
      BY <1>1 DEF Place
    <3>3. b[Place(r, k)] = r.buffer[Place(r, k)]
      BY <1>1, <3>2 DEF RingSlots, b
    <3>. QED
      BY <1>1, <1>7, <3>1, <3>3
  <2>. QED
    BY <2>1, <2>2, <2>3
<1>11. Contents(r) # <<>> /\ Head(Contents(r)) = r.buffer[r.readIndex]
  BY <1>1, <1>8, <1>9
<1>12. r.buffer[r.readIndex] \in Items \cup {NoItem}
  BY <1>1 DEF RingSlots
<1>13. FifoOf(r) = [items |-> Contents(r), bound |-> c]
  BY FifoOfRing
<1>14. FifoOf(p) = [FifoOf(r) EXCEPT !.items = Tail(@)]
  <2> DEFINE t == Tail(Contents(r))
  <2>1. FifoOf(p) = [items |-> t, bound |-> c]
    <3>1. p.capacity = c
      BY <1>2
    <3>. QED
      BY <1>4, <1>10, <3>1, FifoOfRing
  <2>2. [FifoOf(r) EXCEPT !.items = Tail(@)] = [FifoOf(r) EXCEPT !.items = t]
    BY <1>13
  <2>. HIDE DEF t, c
  <2>3. [FifoOf(r) EXCEPT !.items = t] = [items |-> t, bound |-> c]
    BY <1>13
  <2>. QED
    BY <2>1, <2>2, <2>3
<1>15. p.len = r.len - 1
  BY <1>2
<1>. QED
  BY <1>4, <1>6, <1>11, <1>12, <1>13, <1>14, <1>15 DEF p

\* A ring without a buffer stands for no queue, whatever its indices are.
LEMMA NullSound ==
  ASSUME NEW r \in Rings, Agree(r)
  PROVE  LET n == [r EXCEPT !.buffer = NullBuffer]
         IN  n \in Rings /\ Agree(n) /\ n.buffer = NullBuffer /\ n.len = r.len
<1> DEFINE n == [r EXCEPT !.buffer = NullBuffer]
<1>1. n = [buffer |-> NullBuffer, capacity |-> r.capacity, len |-> r.len,
           readIndex |-> r.readIndex, writeIndex |-> r.writeIndex]
  BY RingFields
<1>. HIDE DEF n
<1>2. n \in Rings
  BY <1>1, RingFields, RingMade
<1>3. Agree(n)
  BY <1>1 DEF Agree
<1>4. n.buffer = NullBuffer /\ n.len = r.len
  BY <1>1
<1>. QED
  BY <1>2, <1>3, <1>4 DEF n

LEMMA UnbuiltSound == Unbuilt \in Rings /\ Agree(Unbuilt) /\ Unbuilt.buffer = NullBuffer
<1> DEFINE c == CHOOSE c \in Bounds : TRUE
<1>1. c \in Bounds
  BY BoundsAssumption
<1>. HIDE DEF c
<1>2. NewRing(c) \in Rings /\ Agree(NewRing(c))
  BY <1>1, NewRingSound
<1>3. Unbuilt = [NewRing(c) EXCEPT !.buffer = NullBuffer]
  BY DEF Unbuilt, c
<1>. QED
  BY <1>2, <1>3, NullSound

-----------------------------------------------------------------------------
(* The steps *)

\* What RingConsistent says of one place: its ring, whether it holds one, its loop.
RingSound(r, b, n) ==
  /\ r.buffer # NullBuffer => b
  /\ Agree(r)
  /\ n <= r.len
  /\ n > 0 => r.buffer # NullBuffer

LEMMA SoundPlaces == RingConsistent <=> \A q \in Queues : RingSound(queues[q], q \in built, loop[q])
  BY DEF RingConsistent, RingSound, Agree

LEMMA SoundPlacesNext ==
  ASSUME \A q \in Queues : RingSound(queues'[q], q \in built', loop'[q])  PROVE RingConsistent'
  BY DEF RingConsistent, RingSound, Agree

\* What the rings stand for.
Abs == [q \in Queues |-> FifoOf(queues[q])]

\* A step that gives one place another sound ring keeps the invariant.
LEMMA OnePlace ==
  ASSUME RingInv, NEW q \in Queues, NEW r \in Rings, NEW n \in Nat,
         queues' = [queues EXCEPT ![q] = r], loop' = [loop EXCEPT ![q] = n],
         built' \in SUBSET Queues, built' \cup {q} = built \cup {q},
         RingSound(r, q \in built', n), popped' \in Items \cup {NoItem}
  PROVE  RingInv' /\ Abs' = [Abs EXCEPT ![q] = FifoOf(r)] /\ Abs[q] = FifoOf(queues[q])
<1>1. RingTypeOK'
  BY DEF RingInv, RingTypeOK
<1>2. ASSUME NEW x \in Queues  PROVE RingSound(queues'[x], x \in built', loop'[x])
  <2>1. CASE x = q
    BY <2>1 DEF RingInv, RingTypeOK
  <2>2. CASE x # q
    <3>1. queues'[x] = queues[x] /\ loop'[x] = loop[x] /\ (x \in built' <=> x \in built)
      BY <2>2 DEF RingInv, RingTypeOK
    <3>2. RingSound(queues[x], x \in built, loop[x])
      BY SoundPlaces DEF RingInv
    <3>. QED
      BY <3>1, <3>2 DEF RingSound
  <2>. QED
    BY <2>1, <2>2
<1>3. RingConsistent'
  BY <1>2, SoundPlacesNext
<1>4. ASSUME NEW x \in Queues
      PROVE  FifoOf(queues'[x]) = IF x = q THEN FifoOf(r) ELSE FifoOf(queues[x])
  BY DEF RingInv, RingTypeOK
<1>. QED
  BY <1>1, <1>3, <1>4 DEF RingInv, Abs

LEMMA RingInitSound == RingInit => RingInv /\ F!Init
<1> SUFFICES ASSUME RingInit  PROVE RingInv /\ F!Init
  OBVIOUS
<1>1. RingTypeOK
  BY UnbuiltSound DEF RingInit, RingTypeOK
<1>2. ASSUME NEW q \in Queues  PROVE RingSound(queues[q], q \in built, loop[q])
  BY UnbuiltSound, RingFields DEF RingInit, RingSound
<1>3. FifoOf(Unbuilt) = [items |-> <<>>, bound |-> 0]
  BY UnbuiltSound DEF FifoOf
<1>4. F!Init
  BY <1>3 DEF RingInit, F!Init, F!NoQueue
<1>. QED
  BY <1>1, <1>2, <1>4, SoundPlaces DEF RingInv

\* What holds of a place before a step.
LEMMA PlaceSound ==
  ASSUME RingInv, NEW q \in Queues
  PROVE  /\ queues[q] \in Rings /\ loop[q] \in Nat /\ Agree(queues[q])
         /\ loop[q] <= queues[q].len /\ queues[q].len \in Nat
         /\ queues[q].buffer # NullBuffer => q \in built
         /\ loop[q] > 0 => queues[q].buffer # NullBuffer
         /\ built \cup {q} \in SUBSET Queues
         /\ loop = [loop EXCEPT ![q] = loop[q]] /\ queues = [queues EXCEPT ![q] = queues[q]]
<1>1. queues[q] \in Rings /\ loop[q] \in Nat
  BY DEF RingInv, RingTypeOK
<1>. QED
  BY <1>1, RingFields, SoundPlaces DEF RingInv, RingTypeOK, RingSound

LEMMA ConstructStep ==
  ASSUME RingInv, NEW q \in Queues, NEW c \in Bounds, RingConstruct(q, c)
  PROVE  RingInv' /\ F!Next
<1>1. /\ NewRing(c) \in Rings /\ Agree(NewRing(c)) /\ NewRing(c).len \in Nat
      /\ FifoOf(NewRing(c)) = [items |-> <<>>, bound |-> c]
  BY NewRingSound, RingFields
<1>2. /\ queues' = [queues EXCEPT ![q] = NewRing(c)] /\ loop' = [loop EXCEPT ![q] = 0]
      /\ built' \in SUBSET Queues /\ built' \cup {q} = built \cup {q}
      /\ popped' \in Items \cup {NoItem}
  BY PlaceSound DEF RingConstruct
<1>3. RingSound(NewRing(c), q \in built', 0)
  BY <1>1 DEF RingSound, RingConstruct
<1>4. RingInv' /\ Abs' = [Abs EXCEPT ![q] = [items |-> <<>>, bound |-> c]]
  BY <1>1, <1>2, <1>3, OnePlace
<1>5. F!Create(Abs', popped', q, c)
  BY <1>4 DEF F!Create, Abs, RingConstruct
<1>. QED
  BY <1>4, <1>5 DEF F!Next, F!Step, Abs

LEMMA PushStep ==
  ASSUME RingInv, NEW q \in Queues, NEW e \in Items, RingPush(q, e)
  PROVE  RingInv' /\ F!Next
<1> DEFINE r == queues[q]
           p == Pushed(r, e)
<1>1. /\ r \in Rings /\ r.buffer # NullBuffer /\ Agree(r) /\ ~IsFull(r)
      /\ loop[q] \in Nat /\ loop[q] <= r.len /\ r.len \in Nat
  BY PlaceSound DEF RingPush, Usable
<1>2. /\ p \in Rings /\ Agree(p) /\ p.buffer # NullBuffer /\ p.len = r.len + 1
      /\ FifoOf(p) = [FifoOf(r) EXCEPT !.items = Append(@, e)]
      /\ Len(FifoOf(r).items) < FifoOf(r).bound
  BY <1>1, PushSound
<1>3. /\ queues' = [queues EXCEPT ![q] = p] /\ loop' = [loop EXCEPT ![q] = loop[q]]
      /\ built' \in SUBSET Queues /\ built' \cup {q} = built \cup {q} /\ q \in built'
      /\ popped' = NoItem
  BY PlaceSound DEF RingPush, Usable
<1>. HIDE DEF p
<1>4. RingSound(p, q \in built', loop[q])
  BY <1>1, <1>2, <1>3 DEF RingSound
<1>5. RingInv' /\ Abs' = [Abs EXCEPT ![q] = FifoOf(p)] /\ Abs[q] = FifoOf(r)
  BY <1>1, <1>2, <1>3, <1>4, OnePlace
<1>6. Len(Abs[q].items) < Abs[q].bound
  BY <1>2, <1>5
<1>7. Abs' = [Abs EXCEPT ![q].items = Append(@, e)]
  BY <1>2, <1>5
<1>8. F!Put(Abs', popped', q, e)
  BY <1>3, <1>6, <1>7 DEF F!Put, Abs
<1>. QED
  BY <1>5, <1>8 DEF F!Next, F!Step, Abs

\* What a pop does, whether a client calls it or a loop.
LEMMA TakeStep ==
  ASSUME RingInv, NEW q \in Queues, queues[q].buffer # NullBuffer, ~IsEmpty(queues[q]),
         NEW n \in Nat, n <= queues[q].len - 1,
         popped' = queues[q].buffer[queues[q].readIndex],
         queues' = [queues EXCEPT ![q] = Popped(@)],
         loop' = [loop EXCEPT ![q] = n], UNCHANGED built
  PROVE  RingInv' /\ F!Next
<1> DEFINE r == queues[q]
           p == Popped(r)
<1>1. r \in Rings /\ Agree(r) /\ q \in built
  BY PlaceSound
<1>2. /\ p \in Rings /\ Agree(p) /\ p.buffer # NullBuffer /\ p.len = r.len - 1
      /\ r.buffer[r.readIndex] \in Items \cup {NoItem}
      /\ FifoOf(r).items # <<>> /\ r.buffer[r.readIndex] = Head(FifoOf(r).items)
      /\ FifoOf(p) = [FifoOf(r) EXCEPT !.items = Tail(@)]
  BY <1>1, PopSound
<1>3. /\ queues' = [queues EXCEPT ![q] = p]
      /\ built' \in SUBSET Queues /\ built' \cup {q} = built \cup {q} /\ q \in built'
      /\ popped' \in Items \cup {NoItem}
  BY <1>1, <1>2 DEF RingInv, RingTypeOK
<1>. HIDE DEF p
<1>4. RingSound(p, q \in built', n)
  BY <1>2, <1>3 DEF RingSound
<1>5. RingInv' /\ Abs' = [Abs EXCEPT ![q] = FifoOf(p)] /\ Abs[q] = FifoOf(r)
  BY <1>2, <1>3, <1>4, OnePlace
<1>6. Abs[q].items # <<>> /\ popped' = Head(Abs[q].items)
  BY <1>2, <1>5
<1>7. Abs' = [Abs EXCEPT ![q].items = Tail(@)]
  BY <1>2, <1>5
<1>8. F!Take(Abs', popped', q)
  BY <1>6, <1>7 DEF F!Take, Abs
<1>. QED
  BY <1>5, <1>8 DEF F!Next, F!Step, Abs

LEMMA PopStep ==
  ASSUME RingInv, NEW q \in Queues, RingPop(q)
  PROVE  RingInv' /\ F!Next
<1>1. /\ queues[q].buffer # NullBuffer /\ queues[q].len \in Nat /\ 0 <= queues[q].len - 1
      /\ loop' = [loop EXCEPT ![q] = 0]
  BY PlaceSound DEF RingPop, Usable, IsEmpty
<1>2. /\ ~IsEmpty(queues[q]) /\ popped' = queues[q].buffer[queues[q].readIndex]
      /\ queues' = [queues EXCEPT ![q] = Popped(@)] /\ UNCHANGED built
  BY DEF RingPop
<1>. QED
  BY <1>1, <1>2, TakeStep

LEMMA IterateStep ==
  ASSUME RingInv, NEW q \in Queues, RingIterate(q)
  PROVE  RingInv' /\ F!Next
<1>1. /\ queues[q].buffer # NullBuffer /\ loop[q] - 1 \in Nat
      /\ loop[q] - 1 <= queues[q].len - 1 /\ ~IsEmpty(queues[q])
      /\ loop' = [loop EXCEPT ![q] = loop[q] - 1]
  BY PlaceSound DEF RingIterate, IsEmpty
<1>. QED
  BY <1>1, TakeStep DEF RingIterate

LEMMA LoopStep ==
  ASSUME RingInv, NEW q \in Queues, RingLoop(q)
  PROVE  RingInv' /\ F!Next
<1> DEFINE r == queues[q]
<1>1. /\ r \in Rings /\ r.buffer # NullBuffer /\ Agree(r) /\ r.len \in Nat
      /\ queues' = [queues EXCEPT ![q] = r] /\ loop' = [loop EXCEPT ![q] = r.len]
      /\ built' \in SUBSET Queues /\ built' \cup {q} = built \cup {q} /\ q \in built'
      /\ popped' \in Items \cup {NoItem}
  BY PlaceSound DEF RingLoop, Usable
<1>2. RingSound(r, q \in built', r.len)
  BY <1>1 DEF RingSound
<1>3. RingInv'
  BY <1>1, <1>2, OnePlace
<1>4. Abs' = Abs /\ popped' = NoItem
  BY DEF Abs, RingLoop
<1>5. F!Other(Abs', popped')
  BY <1>4 DEF F!Other, Abs
<1>. QED
  BY <1>3, <1>5 DEF F!Next, F!Step, Abs

LEMMA RingDestroyStep ==
  ASSUME RingInv, NEW q \in Queues, RingDestroy(q)
  PROVE  RingInv' /\ F!Next
<1>1. /\ Unbuilt \in Rings /\ Agree(Unbuilt) /\ Unbuilt.buffer = NullBuffer /\ Unbuilt.len \in Nat
      /\ FifoOf(Unbuilt) = F!NoQueue
  BY UnbuiltSound, RingFields DEF FifoOf, F!NoQueue
<1>2. /\ queues' = [queues EXCEPT ![q] = Unbuilt] /\ loop' = [loop EXCEPT ![q] = 0]
      /\ built' \in SUBSET Queues /\ built' \cup {q} = built \cup {q}
      /\ popped' \in Items \cup {NoItem}
  BY PlaceSound DEF RingDestroy
<1>3. RingSound(Unbuilt, q \in built', 0)
  BY <1>1 DEF RingSound
<1>4. RingInv' /\ Abs' = [Abs EXCEPT ![q] = F!NoQueue]
  BY <1>1, <1>2, <1>3, OnePlace
<1>5. F!Drop(Abs', popped', q)
  BY <1>4 DEF F!Drop, Abs, RingDestroy
<1>. QED
  BY <1>4, <1>5 DEF F!Next, F!Step, Abs

LEMMA RingMoveStep ==
  ASSUME RingInv, NEW q \in Queues, NEW p \in Queues, RingMove(q, p), built' = built \cup {q}
  PROVE  RingInv' /\ F!Next
<1> DEFINE r == queues[p]
           n == [r EXCEPT !.buffer = NullBuffer]
<1>1. /\ q # p /\ p \in built /\ r \in Rings /\ Agree(r) /\ loop' = loop
      /\ loop[q] = 0 /\ loop[p] = 0 /\ popped' = NoItem /\ r.len \in Nat
  BY PlaceSound DEF RingMove
<1>2. n \in Rings /\ Agree(n) /\ n.buffer = NullBuffer /\ n.len = r.len
  BY <1>1, NullSound
<1>3. queues' = [queues EXCEPT ![q] = r, ![p] = n]
  BY <1>1 DEF RingMove, RingInv, RingTypeOK
<1>. HIDE DEF n
<1>4. RingTypeOK'
  BY <1>1, <1>2, <1>3 DEF RingInv, RingTypeOK
<1>5. ASSUME NEW x \in Queues
      PROVE  queues'[x] = IF x = q THEN r ELSE IF x = p THEN n ELSE queues[x]
  BY <1>1, <1>3 DEF RingInv, RingTypeOK
<1>6. ASSUME NEW x \in Queues  PROVE RingSound(queues'[x], x \in built', loop'[x])
  <2>1. CASE x = q
    BY <1>1, <1>5, <2>1 DEF RingSound
  <2>2. CASE x = p
    BY <1>1, <1>2, <1>5, <2>2 DEF RingSound
  <2>3. CASE x # q /\ x # p
    <3>1. RingSound(queues[x], x \in built, loop[x])
      BY SoundPlaces DEF RingInv
    <3>. QED
      BY <1>1, <1>5, <2>3, <3>1 DEF RingSound
  <2>. QED
    BY <2>1, <2>2, <2>3
<1>7. RingConsistent'
  BY <1>6, SoundPlacesNext
<1>8. FifoOf(n) = F!NoQueue
  BY <1>2 DEF FifoOf, F!NoQueue
<1>9. Abs' = [Abs EXCEPT ![q] = Abs[p], ![p] = F!NoQueue]
  BY <1>1, <1>5, <1>8 DEF Abs
<1>10. F!HandOver(Abs', popped', q, p)
  BY <1>1, <1>9 DEF F!HandOver, Abs
<1>. QED
  BY <1>1, <1>4, <1>7, <1>10 DEF RingInv, F!Next, F!Step, Abs

LEMMA RingStepSound == ASSUME RingInv, RingNextStep  PROVE RingInv' /\ F!Next
<1>1. PICK q \in Queues :
         \/ \E c \in Bounds : RingConstruct(q, c)
         \/ \E e \in Items : RingPush(q, e)
         \/ RingPop(q)
         \/ RingLoop(q)
         \/ RingIterate(q)
         \/ \E p \in Queues : RingMoveConstruct(q, p) \/ RingMoveAssign(q, p)
         \/ RingDestroy(q)
  BY DEF RingNextStep
<1>2. ASSUME NEW p \in Queues, RingMoveConstruct(q, p) \/ RingMoveAssign(q, p)
      PROVE  RingInv' /\ F!Next
  <2>1. RingMove(q, p) /\ built' = built \cup {q}
    BY <1>2 DEF RingMoveConstruct, RingMoveAssign
  <2>. QED
    BY <2>1, RingMoveStep
<1>. QED
  BY <1>1, <1>2, ConstructStep, PushStep, PopStep, LoopStep, IterateStep, RingDestroyStep

LEMMA RingStutterSound == ASSUME RingInv, UNCHANGED ringVars  PROVE RingInv' /\ UNCHANGED F!fifoVars
  BY DEF RingInv, RingTypeOK, RingConsistent, ringVars, F!fifoVars

-----------------------------------------------------------------------------
(* The theorems *)

\* What every step keeps.
LEMMA RingInvariance == RingSpec => []RingInv
<1>1. RingInv /\ [RingNextStep]_ringVars => RingInv'
  BY RingStepSound, RingStutterSound
<1>. QED
  BY <1>1, RingInitSound, PTL DEF RingSpec

\* Type correctness: every index stays inside its ring.
THEOREM RingTypeCorrect == RingSpec => []RingTypeOK
<1>1. RingInv => RingTypeOK
  BY DEF RingInv
<1>. QED
  BY <1>1, RingInvariance, PTL

\* The indices agree with the length at every wrap, and a loop that pops as it
\* goes never reaches an empty queue.
THEOREM RingIndicesAgree == RingSpec => []RingConsistent
<1>1. RingInv => RingConsistent
  BY DEF RingInv
<1>. QED
  BY <1>1, RingInvariance, PTL

\* RingQueue implements Fifo: each queue gives back what was pushed, in order,
\* however often its indices wrapped and wherever it was moved.
THEOREM ImplementsFifo == RingSpec => RingFifoSpec
<1>1. RingInv /\ [RingNextStep]_ringVars => [F!Next]_(F!fifoVars)
  BY RingStepSound, RingStutterSound
<1>. QED
  BY <1>1, RingInitSound, RingInvariance, PTL DEF RingSpec, RingFifoSpec, F!Spec

-----------------------------------------------------------------------------
(* Array lists *)

(* Sequences *)

LEMMA SubSeqIs ==
  ASSUME NEW S, NEW s \in Seq(S), NEW m \in 1 .. Len(s) + 1, NEW n \in m - 1 .. Len(s)
  PROVE  /\ SubSeq(s, m, n) \in Seq(S) /\ Len(SubSeq(s, m, n)) = n - m + 1
         /\ \A j \in 1 .. n - m + 1 : SubSeq(s, m, n)[j] = s[m + j - 1]
  OBVIOUS

LEMMA ConcatIs ==
  ASSUME NEW S, NEW s \in Seq(S), NEW u \in Seq(S)
  PROVE  /\ s \o u \in Seq(S) /\ Len(s \o u) = Len(s) + Len(u)
         /\ \A j \in 1 .. Len(s) + Len(u) : (s \o u)[j] = IF j <= Len(s) THEN s[j] ELSE u[j - Len(s)]
  OBVIOUS

LEMMA SameSeq ==
  ASSUME NEW S, NEW s \in Seq(S), NEW u \in Seq(S), Len(s) = Len(u), \A i \in 1 .. Len(s) : s[i] = u[i]
  PROVE  s = u
  OBVIOUS

LEMMA NoItems ==
  ASSUME NEW S, NEW s \in Seq(S), Len(s) = 0
  PROVE  s = <<>>
  OBVIOUS

LEMMA MadeSeq ==
  ASSUME NEW S, NEW n \in Nat, NEW f(_), \A i \in 1 .. n : f(i) \in S
  PROVE  LET s == [i \in 1 .. n |-> f(i)] IN
         s \in Seq(S) /\ Len(s) = n /\ \A i \in 1 .. n : s[i] = f(i)
  OBVIOUS

LEMMA RemovedAt ==
  ASSUME NEW S, NEW s \in Seq(S), NEW i \in 1 .. Len(s)
  PROVE  /\ L!RemoveAt(s, i) \in Seq(S) /\ Len(L!RemoveAt(s, i)) = Len(s) - 1
         /\ \A j \in 1 .. Len(s) - 1 : L!RemoveAt(s, i)[j] = IF j < i THEN s[j] ELSE s[j + 1]
<1> DEFINE a == SubSeq(s, 1, i - 1)
           b == SubSeq(s, i + 1, Len(s))
<1>1. /\ a \in Seq(S) /\ Len(a) = i - 1
      /\ \A j \in 1 .. i - 1 : a[j] = s[j]
  BY SubSeqIs
<1>2. /\ b \in Seq(S) /\ Len(b) = Len(s) - i
      /\ \A j \in 1 .. Len(s) - i : b[j] = s[i + j]
  BY SubSeqIs
<1> HIDE DEF a, b
<1>3. /\ a \o b \in Seq(S) /\ Len(a \o b) = Len(a) + Len(b)
      /\ \A j \in 1 .. Len(a) + Len(b) : (a \o b)[j] = IF j <= Len(a) THEN a[j] ELSE b[j - Len(a)]
  BY <1>1, <1>2, ConcatIs
<1>4. \A j \in 1 .. Len(s) - 1 : (a \o b)[j] = IF j < i THEN s[j] ELSE s[j + 1]
  BY <1>1, <1>2, <1>3
<1>5. L!RemoveAt(s, i) = a \o b
  BY DEF L!RemoveAt, a, b
<1>6. Len(a \o b) = Len(s) - 1
  BY <1>1, <1>2, <1>3
<1>7. QED
  BY <1>3, <1>4, <1>5, <1>6, Zenon

LEMMA InsertedAt ==
  ASSUME NEW S, NEW s \in Seq(S), NEW i \in 1 .. Len(s) + 1, NEW e \in S
  PROVE  /\ L!InsertAt(s, i, e) \in Seq(S) /\ Len(L!InsertAt(s, i, e)) = Len(s) + 1
         /\ \A j \in 1 .. Len(s) + 1 :
              L!InsertAt(s, i, e)[j] = IF j < i THEN s[j] ELSE IF j = i THEN e ELSE s[j - 1]
<1> DEFINE a == SubSeq(s, 1, i - 1)
           b == SubSeq(s, i, Len(s))
           c == <<e>>
<1>1. /\ a \in Seq(S) /\ Len(a) = i - 1
      /\ \A j \in 1 .. i - 1 : a[j] = s[j]
  BY SubSeqIs
<1>2. /\ b \in Seq(S) /\ Len(b) = Len(s) - i + 1
      /\ \A j \in 1 .. Len(s) - i + 1 : b[j] = s[i + j - 1]
  BY SubSeqIs
<1>3. c \in Seq(S) /\ Len(c) = 1 /\ c[1] = e
  OBVIOUS
<1> HIDE DEF a, b, c
<1>4. /\ a \o c \in Seq(S) /\ Len(a \o c) = Len(a) + Len(c)
      /\ \A j \in 1 .. Len(a) + Len(c) : (a \o c)[j] = IF j <= Len(a) THEN a[j] ELSE c[j - Len(a)]
  BY <1>1, <1>3, ConcatIs
<1> DEFINE d == a \o c
<1>5. d \in Seq(S) /\ Len(d) = i /\ \A j \in 1 .. i : d[j] = IF j < i THEN s[j] ELSE e
  BY <1>1, <1>3, <1>4
<1> HIDE DEF d
<1>6. /\ d \o b \in Seq(S) /\ Len(d \o b) = Len(d) + Len(b)
      /\ \A j \in 1 .. Len(d) + Len(b) : (d \o b)[j] = IF j <= Len(d) THEN d[j] ELSE b[j - Len(d)]
  BY <1>2, <1>5, ConcatIs
<1>7. \A j \in 1 .. Len(s) + 1 : (d \o b)[j] = IF j < i THEN s[j] ELSE IF j = i THEN e ELSE s[j - 1]
  BY <1>2, <1>5, <1>6
<1>8. L!InsertAt(s, i, e) = d \o b
  BY DEF L!InsertAt, a, b, c, d
<1>9. Len(d \o b) = Len(s) + 1
  BY <1>2, <1>5, <1>6
<1>10. QED
  BY <1>6, <1>7, <1>8, <1>9, Zenon

-----------------------------------------------------------------------------
(* Capacities *)

LEMMA RoundedToIs ==
  ASSUME NEW n \in Nat, NEW w \in Nat \ {0}
  PROVE  /\ RoundedTo(n, w) \in Nat /\ RoundedTo(n, w) >= n /\ RoundedTo(n, w) < n + w
         /\ RoundedTo(n, w) % w = 0
<1>1. n % w \in 0 .. w - 1
  OBVIOUS
<1>2. CASE n % w = 0
  BY <1>2 DEF RoundedTo
<1>3. CASE n % w # 0
  <2>1. RoundedTo(n, w) = n + w - (n % w)
    BY <1>3 DEF RoundedTo
  <2>2. (n + w - (n % w)) % w = 0
    OBVIOUS
  <2>3. PICK k \in 1 .. w - 1 : k = n % w
    BY <1>1, <1>3
  <2>4. n + w - k \in Nat /\ n + w - k >= n /\ n + w - k < n + w
    OBVIOUS
  <2>5. QED
    BY <2>1, <2>2, <2>3, <2>4, Zenon
<1>4. QED
  BY <1>2, <1>3

LEMMA RoundedUpIs ==
  ASSUME lanes \in Nat, NEW n \in Nat
  PROVE  RoundedUp(n) \in Nat /\ RoundedUp(n) >= n /\ RoundedUp(RoundedUp(n)) = RoundedUp(n)
<1>1. CASE lanes = 0  BY <1>1 DEF RoundedUp
<1>2. CASE lanes # 0
  <2>1. RoundedUp(n) = RoundedTo(n, lanes) /\ RoundedTo(n, lanes) \in Nat
        /\ RoundedTo(n, lanes) >= n /\ RoundedTo(n, lanes) % lanes = 0
    BY <1>2, RoundedToIs DEF RoundedUp
  <2>2. QED
    BY <1>2, <2>1 DEF RoundedUp, RoundedTo
<1>3. QED  BY <1>1, <1>2

LEMMA PowerAboveIs ==
  ASSUME NEW n \in 0 .. MaxLength
  PROVE  PowerAbove(n) \in Nat /\ PowerAbove(n) >= n
<1>1. CASE n = 0  BY <1>1 DEF PowerAbove
<1>2. CASE n # 0
  <2>1. n \in 1 .. MaxLength  BY <1>2, SizesAssumption
  <2>2. PICK i \in 0 .. n : 2 ^ i \in n .. 2 * n - 1  BY <2>1, PowersAssumption
  <2>3. \E p \in n .. 2 * n - 1 : \E j \in 0 .. n : p = 2 ^ j  BY <2>2
  <2>4. PowerAbove(n) \in n .. 2 * n - 1  BY <1>2, <2>3 DEF PowerAbove
  <2>5. QED  BY <2>4
<1>3. QED  BY <1>1, <1>2

-----------------------------------------------------------------------------
(* What a list stands for *)

ListSlots(c) == [0 .. c - 1 -> Elements \cup {NoElement}]

\* What is in slot i of a list that holds s.
ItemAt(s, i) == IF i < Len(s) THEN s[i + 1] ELSE NoElement

\* nullptr is no buffer.
NullIsNoBuffer == \A c \in Nat : NoData \notin ListSlots(c)

ListRecord(a) == a = [data |-> a.data, length |-> a.length, capacity |-> a.capacity]

\* The list a, that clients may use, holds the sequence s.
Represents(a, s) ==
  /\ ListRecord(a)
  /\ s \in Seq(Elements) /\ a.length = Len(s)
  /\ a.capacity \in Nat /\ a.capacity = RoundedUp(a.capacity) /\ a.length <= a.capacity
  /\ IF a.data = NoData THEN a.capacity = 0
     ELSE /\ Allocates(a.capacity)
          /\ a.data \in ListSlots(a.capacity)
          /\ \A i \in 0 .. a.capacity - 1 : a.data[i] = ItemAt(s, i)

LEMMA RepresentedItems ==
  ASSUME NEW a, NEW s, Represents(a, s)
  PROVE  ListItems(a) = s /\ (a.data # NoData \/ a.capacity = 0)
<1>1. s \in Seq(Elements) /\ a.length = Len(s) /\ Len(s) \in Nat
  BY DEF Represents
<1>2. \A i \in 1 .. Len(s) : a.data[i - 1] = s[i] /\ s[i] \in Elements
  <2> TAKE i \in 1 .. Len(s)
  <2>1. s[i] \in Elements
    BY <1>1
  <2>2. a.capacity >= Len(s) /\ a.capacity \in Nat /\ a.data # NoData
    BY <1>1 DEF Represents
  <2>3. i - 1 \in 0 .. a.capacity - 1 /\ i - 1 < Len(s) /\ (i - 1) + 1 = i
    BY <1>1, <2>2
  <2>4. a.data[i - 1] = s[(i - 1) + 1]
    BY <2>2, <2>3 DEF Represents, ItemAt
  <2>5. QED
    BY <2>1, <2>3, <2>4
<1>3. ListItems(a) = [i \in 1 .. Len(s) |-> a.data[i - 1]]
  BY <1>1 DEF ListItems
<1>4. ListItems(a) \in Seq(Elements) /\ Len(ListItems(a)) = Len(s)
      /\ \A i \in 1 .. Len(s) : ListItems(a)[i] = s[i]
  BY <1>1, <1>2, <1>3
<1>5. ListItems(a) = s
  BY <1>1, <1>4, SameSeq
<1>6. QED
  BY <1>5 DEF Represents

LEMMA BufferRepresents ==
  ASSUME NullIsNoBuffer, NEW t \in Seq(Elements), NEW c \in Nat, c = RoundedUp(c), Allocates(c), Len(t) <= c,
         NEW d, d = [i \in 0 .. c - 1 |-> d[i]],
         \A i \in 0 .. c - 1 : d[i] = ItemAt(t, i)
  PROVE  LET a == [data |-> d, length |-> Len(t), capacity |-> c]
         IN  Represents(a, t) /\ a.data # NoData
<1>1. \A i \in 0 .. c - 1 : d[i] \in Elements \cup {NoElement}
  BY DEF ItemAt
<1>2. d \in ListSlots(c)
  BY <1>1 DEF ListSlots
<1>3. d # NoData
  BY <1>2 DEF NullIsNoBuffer
<1>4. QED
  BY <1>2, <1>3 DEF Represents, ListRecord

\* What a list with a buffer has in it.
LEMMA BufferOf ==
  ASSUME NEW a, NEW s, Represents(a, s), a.data # NoData
  PROVE  /\ a = [data |-> a.data, length |-> Len(s), capacity |-> a.capacity]
         /\ a.capacity \in Nat /\ a.capacity = RoundedUp(a.capacity) /\ Len(s) <= a.capacity
         /\ Allocates(a.capacity)
         /\ a.data = [i \in 0 .. a.capacity - 1 |-> a.data[i]]
         /\ DOMAIN a.data = 0 .. a.capacity - 1
         /\ \A i \in 0 .. a.capacity - 1 : a.data[i] = ItemAt(s, i)
  BY DEF Represents, ListRecord, ListSlots

LEMMA EmptyRepresents ==
  ASSUME lanes \in Nat  PROVE Represents(EmptyList, <<>>)
<1>1. RoundedUp(0) = 0
  BY DEF RoundedUp, RoundedTo
<1>2. QED
  BY <1>1 DEF EmptyList, Represents, ListRecord

LEMMA FilledRepresents ==
  ASSUME NullIsNoBuffer, lanes \in Nat, NEW s \in Seq(Elements), NEW n \in Nat, Len(s) <= n,
         Allocates(n)
  PROVE  /\ Represents(Filled(s, n), s) /\ Filled(s, n).data # NoData
         /\ Filled(s, n).capacity >= n /\ Filled(s, n).length = Len(s)
<1> DEFINE c == RoundedUp(n)
           d == [i \in 0 .. c - 1 |-> IF i < Len(s) THEN s[i + 1] ELSE NoElement]
<1>1. c \in Nat /\ c >= n /\ c = RoundedUp(c)
  BY RoundedUpIs
<1>2. Filled(s, n) = [data |-> d, length |-> Len(s), capacity |-> c]
  BY DEF Filled
<1> HIDE DEF c
<1>3. d = [i \in 0 .. c - 1 |-> d[i]]
      /\ \A i \in 0 .. c - 1 : d[i] = ItemAt(s, i)
  BY DEF ItemAt
<1> HIDE DEF d
<1>4. Len(s) \in Nat /\ Len(s) <= c /\ Allocates(c)
  BY <1>1 DEF Allocates
<1>5. Represents([data |-> d, length |-> Len(s), capacity |-> c], s) /\ d # NoData
  BY <1>1, <1>3, <1>4, BufferRepresents
<1>6. QED
  BY <1>1, <1>2, <1>5

LEMMA ReallocateRepresents ==
  ASSUME NullIsNoBuffer, lanes \in Nat, NEW a, NEW s, Represents(a, s), NEW n \in Nat, Len(s) <= n,
         Allocates(n)
  PROVE  /\ Represents(Reallocate(a, n), s) /\ Reallocate(a, n).data # NoData
         /\ Reallocate(a, n).capacity >= n /\ Reallocate(a, n).length = Len(s)
<1>1. ListItems(a) = s /\ s \in Seq(Elements)
  BY RepresentedItems DEF Represents
<1>2. QED
  BY <1>1, FilledRepresents DEF Reallocate

LEMMA RoomRepresents ==
  ASSUME NullIsNoBuffer, lanes \in Nat, NEW a, NEW s, Represents(a, s)
  PROVE  Represents(Room(a), s) /\ Room(a).data # NoData /\ Room(a).length < Room(a).capacity
<1>1. Len(s) \in Nat /\ a.length = Len(s) /\ a.capacity \in Nat /\ Len(s) <= a.capacity
  BY DEF Represents
<1>2. CASE a.length = a.capacity
  <2>1. (a.capacity + 1) * 2 \in Nat /\ Len(s) <= (a.capacity + 1) * 2 /\ Len(s) < (a.capacity + 1) * 2
      /\ Allocates((a.capacity + 1) * 2)
    BY <1>1 DEF Allocates
  <2>2. Room(a) = Reallocate(a, (a.capacity + 1) * 2)
    BY <1>2 DEF Room
  <2> DEFINE n == (a.capacity + 1) * 2
             r == Reallocate(a, n)
  <2>3. Represents(r, s) /\ r.data # NoData /\ r.capacity >= n /\ r.length = Len(s)
    BY <2>1, ReallocateRepresents
  <2>4. r.capacity \in Nat
    BY <2>3 DEF Represents
  <2> HIDE DEF r
  <2>5. r.length < r.capacity
    BY <1>1, <2>1, <2>3, <2>4
  <2>6. QED
    BY <2>2, <2>3, <2>5 DEF r
<1>3. CASE a.length # a.capacity
  BY <1>1, <1>3 DEF Room, Represents
<1>4. QED
  BY <1>2, <1>3

-----------------------------------------------------------------------------
(* What the operations make of the sequences, slot by slot *)

LEMMA AppendItems ==
  ASSUME NEW s \in Seq(Elements), NEW e \in Elements
  PROVE  LET t == Append(s, e) IN
         /\ t \in Seq(Elements) /\ Len(t) = Len(s) + 1
         /\ \A i \in Nat : ItemAt(t, i) = IF i = Len(s) THEN e ELSE ItemAt(s, i)
  BY DEF ItemAt

LEMMA InsertItems ==
  ASSUME NEW s \in Seq(Elements), NEW e \in Elements, NEW k \in 0 .. Len(s)
  PROVE  LET t == L!InsertAt(s, k + 1, e) IN
         /\ t \in Seq(Elements) /\ Len(t) = Len(s) + 1 /\ t[k + 1] = e
         /\ \A i \in Nat : ItemAt(t, i) = IF i = k THEN e
                                         ELSE IF k < i /\ i <= Len(s) THEN ItemAt(s, i - 1) ELSE ItemAt(s, i)
<1> DEFINE t == L!InsertAt(s, k + 1, e)
<1>1. /\ t \in Seq(Elements) /\ Len(t) = Len(s) + 1
      /\ \A j \in 1 .. Len(s) + 1 : t[j] = IF j < k + 1 THEN s[j] ELSE IF j = k + 1 THEN e ELSE s[j - 1]
  BY InsertedAt
<1> HIDE DEF t
<1>2. ASSUME NEW i \in Nat
      PROVE  ItemAt(t, i) = IF i = k THEN e
                            ELSE IF k < i /\ i <= Len(s) THEN ItemAt(s, i - 1) ELSE ItemAt(s, i)
  <2>1. CASE i > Len(s)  BY <1>1, <2>1 DEF ItemAt
  <2>2. CASE i <= Len(s)
    <3>1. t[i + 1] = IF i + 1 < k + 1 THEN s[i + 1] ELSE IF i + 1 = k + 1 THEN e ELSE s[i]
      BY <1>1, <2>2
    <3>2. ItemAt(t, i) = t[i + 1]  BY <1>1, <2>2 DEF ItemAt
    <3>3. CASE i < k  BY <3>1, <3>2, <3>3 DEF ItemAt
    <3>4. CASE i = k  BY <3>1, <3>2, <3>4
    <3>5. CASE i > k
      <4>1. ItemAt(s, i - 1) = s[i]  BY <2>2, <3>5 DEF ItemAt
      <4>2. QED  BY <2>2, <3>1, <3>2, <3>5, <4>1
    <3>6. QED  BY <3>3, <3>4, <3>5
  <2>3. QED  BY <2>1, <2>2
<1>3. t[k + 1] = e
  BY <1>1
<1>4. QED
  BY <1>1, <1>2, <1>3 DEF t

LEMMA SwapInItems ==
  ASSUME NEW s \in Seq(Elements), NEW e \in Elements, NEW k \in 0 .. Len(s) - 1
  PROVE  LET t == L!SwappedIn(s, k + 1, e) IN
         /\ t \in Seq(Elements) /\ Len(t) = Len(s) + 1 /\ t[k + 1] = e
         /\ \A i \in Nat : ItemAt(t, i) = IF i = k THEN e
                                         ELSE IF i = Len(s) THEN ItemAt(s, k) ELSE ItemAt(s, i)
<1> DEFINE u == [s EXCEPT ![k + 1] = e]
           t == Append(u, s[k + 1])
<1>1. u \in Seq(Elements) /\ Len(u) = Len(s) /\ s[k + 1] \in Elements
  OBVIOUS
<1>2. \A i \in Nat : ItemAt(u, i) = IF i = k THEN e ELSE ItemAt(s, i)
  BY DEF ItemAt
<1>3. u[k + 1] = e
  OBVIOUS
<1> HIDE DEF u
<1>4. /\ t \in Seq(Elements) /\ Len(t) = Len(u) + 1
      /\ \A i \in Nat : ItemAt(t, i) = IF i = Len(u) THEN s[k + 1] ELSE ItemAt(u, i)
  BY <1>1, AppendItems
<1>5. t[k + 1] = e
  BY <1>1, <1>3
<1>6. ItemAt(s, k) = s[k + 1]
  BY DEF ItemAt
<1>7. L!SwappedIn(s, k + 1, e) = t
  BY DEF L!SwappedIn, u
<1> HIDE DEF t
<1>8. QED
  BY <1>1, <1>2, <1>4, <1>5, <1>6, <1>7

LEMMA RemoveItems ==
  ASSUME NEW s \in Seq(Elements), NEW k \in 0 .. Len(s) - 1
  PROVE  LET t == L!RemoveAt(s, k + 1) IN
         /\ t \in Seq(Elements) /\ Len(t) = Len(s) - 1
         /\ \A i \in Nat : ItemAt(t, i) = IF k <= i /\ i < Len(s) - 1 THEN ItemAt(s, i + 1)
                                         ELSE IF i = Len(s) - 1 THEN NoElement ELSE ItemAt(s, i)
<1> DEFINE m == k + 1
           t == L!RemoveAt(s, m)
<1>4. m \in 1 .. Len(s)
  OBVIOUS
<1> HIDE DEF m
<1>5. /\ L!RemoveAt(s, m) \in Seq(Elements) /\ Len(L!RemoveAt(s, m)) = Len(s) - 1
      /\ \A j \in 1 .. Len(s) - 1 : L!RemoveAt(s, m)[j] = IF j < m THEN s[j] ELSE s[j + 1]
  BY <1>4, RemovedAt
<1> HIDE DEF t
<1>1. /\ t \in Seq(Elements) /\ Len(t) = Len(s) - 1
      /\ \A j \in 1 .. Len(s) - 1 : t[j] = IF j < k + 1 THEN s[j] ELSE s[j + 1]
  BY <1>5 DEF t, m
<1>2. ASSUME NEW i \in Nat
      PROVE  ItemAt(t, i) = IF k <= i /\ i < Len(s) - 1 THEN ItemAt(s, i + 1)
                            ELSE IF i = Len(s) - 1 THEN NoElement ELSE ItemAt(s, i)
  <2>1. CASE i >= Len(s) - 1  BY <1>1, <2>1 DEF ItemAt
  <2>2. CASE i < Len(s) - 1
    <3>1. t[i + 1] = IF i + 1 < k + 1 THEN s[i + 1] ELSE s[(i + 1) + 1]
      BY <1>1, <2>2
    <3>2. ItemAt(t, i) = t[i + 1] /\ ItemAt(s, i) = s[i + 1] /\ ItemAt(s, i + 1) = s[(i + 1) + 1]
      BY <1>1, <2>2 DEF ItemAt
    <3>3. QED  BY <2>2, <3>1, <3>2
  <2>3. QED  BY <2>1, <2>2
<1>3. QED
  BY <1>1, <1>2 DEF t, m

LEMMA PrefixItems ==
  ASSUME NEW s \in Seq(Elements), NEW n \in 0 .. Len(s)
  PROVE  LET t == L!Prefix(s, n) IN
         /\ t \in Seq(Elements) /\ Len(t) = n
         /\ \A i \in Nat : ItemAt(t, i) = IF i < n THEN ItemAt(s, i) ELSE NoElement
<1> DEFINE t == L!Prefix(s, n)
<1>1. t = SubSeq(s, 1, n)
  BY DEF L!Prefix
<1>2. t \in Seq(Elements) /\ Len(t) = n /\ \A j \in 1 .. n : t[j] = s[j]
  BY <1>1
<1> HIDE DEF t
<1>3. ASSUME NEW i \in Nat  PROVE ItemAt(t, i) = IF i < n THEN ItemAt(s, i) ELSE NoElement
  BY <1>2 DEF ItemAt
<1>4. QED
  BY <1>2, <1>3 DEF t

LEMMA SwappedItems ==
  ASSUME NEW s \in Seq(Elements), NEW k \in 0 .. Len(s) - 1
  PROVE  LET t == L!Swapped(s, k + 1) IN
         /\ t \in Seq(Elements) /\ Len(t) = Len(s) - 1
         /\ \A i \in Nat : ItemAt(t, i) = IF i = Len(s) - 1 THEN NoElement
                                         ELSE IF i = k THEN ItemAt(s, Len(s) - 1) ELSE ItemAt(s, i)
<1> DEFINE u == L!Prefix(s, Len(s) - 1)
           t == L!Swapped(s, k + 1)
<1>0. Len(s) \in Nat /\ Len(s) > 0 /\ s[Len(s)] \in Elements
  OBVIOUS
<1>1. /\ u \in Seq(Elements) /\ Len(u) = Len(s) - 1
      /\ \A i \in Nat : ItemAt(u, i) = IF i < Len(s) - 1 THEN ItemAt(s, i) ELSE NoElement
  BY <1>0, PrefixItems
<1>2. t = IF k + 1 = Len(s) THEN u ELSE [u EXCEPT ![k + 1] = s[Len(s)]]
  BY DEF L!Swapped, L!Front, L!Last, L!Prefix
<1>3. ItemAt(s, Len(s) - 1) = s[Len(s)]
  BY <1>0 DEF ItemAt
<1> HIDE DEF u, t
<1>4. CASE k + 1 = Len(s)
  <2>1. t = u /\ \A i \in Nat : i >= Len(s) => ItemAt(s, i) = NoElement
    BY <1>2, <1>4 DEF ItemAt
  <2>2. QED
    BY <1>0, <1>1, <1>4, <2>1 DEF t
<1>5. CASE k + 1 # Len(s)
  <2>1. t = [u EXCEPT ![k + 1] = s[Len(s)]] /\ k + 1 \in 1 .. Len(u)
    BY <1>0, <1>1, <1>2, <1>5
  <2>2. t \in Seq(Elements) /\ Len(t) = Len(u)
    BY <1>0, <1>1, <2>1
  <2>3. \A i \in Nat : ItemAt(t, i) = IF i = k THEN s[Len(s)] ELSE ItemAt(u, i)
    BY <1>0, <1>1, <2>1, <2>2 DEF ItemAt
  <2>4. \A i \in Nat : i >= Len(s) => ItemAt(s, i) = NoElement
    BY <1>0 DEF ItemAt
  <2>5. QED
    BY <1>0, <1>1, <1>3, <1>5, <2>2, <2>3, <2>4 DEF t
<1>6. QED
  BY <1>4, <1>5

LEMMA ConcatItems ==
  ASSUME NEW s \in Seq(Elements), NEW u \in Seq(Elements)
  PROVE  LET t == s \o u IN
         /\ t \in Seq(Elements) /\ Len(t) = Len(s) + Len(u)
         /\ \A i \in Nat : ItemAt(t, i) = IF Len(s) <= i /\ i < Len(s) + Len(u) THEN u[i - Len(s) + 1]
                                         ELSE ItemAt(s, i)
<1> DEFINE t == s \o u
<1>1. /\ t \in Seq(Elements) /\ Len(t) = Len(s) + Len(u) /\ Len(s) \in Nat /\ Len(u) \in Nat
      /\ \A j \in 1 .. Len(s) + Len(u) : t[j] = IF j <= Len(s) THEN s[j] ELSE u[j - Len(s)]
  BY ConcatIs
<1> HIDE DEF t
<1>2. ASSUME NEW i \in Nat
      PROVE  ItemAt(t, i) = IF Len(s) <= i /\ i < Len(s) + Len(u) THEN u[i - Len(s) + 1] ELSE ItemAt(s, i)
  <2>1. CASE i >= Len(s) + Len(u)  BY <1>1, <2>1 DEF ItemAt
  <2>2. CASE i < Len(s) + Len(u)
    <3>1. t[i + 1] = IF i + 1 <= Len(s) THEN s[i + 1] ELSE u[(i + 1) - Len(s)]
      BY <1>1, <2>2
    <3>2. (i + 1) - Len(s) = i - Len(s) + 1
      BY <1>1
    <3>3. QED  BY <1>1, <2>2, <3>1, <3>2 DEF ItemAt
  <2>3. QED  BY <1>1, <2>1, <2>2
<1>3. QED
  BY <1>1, <1>2 DEF t

-----------------------------------------------------------------------------
(* Operations *)

\* Slots of r are written until they are those of a list that holds t.
LEMMA Rewritten ==
  ASSUME NullIsNoBuffer, NEW r, NEW s, Represents(r, s), r.data # NoData,
         NEW t, t \in Seq(Elements), Len(t) <= r.capacity,
         NEW d, d = [i \in 0 .. r.capacity - 1 |-> d[i]],
         \A i \in 0 .. r.capacity - 1 : d[i] = ItemAt(t, i),
         NEW a, a = [data |-> d, length |-> Len(t), capacity |-> r.capacity]
  PROVE  Represents(a, t) /\ a.data # NoData
<1>1. r.capacity \in Nat /\ r.capacity = RoundedUp(r.capacity) /\ Allocates(r.capacity)
  BY BufferOf
<1> DEFINE b == [data |-> d, length |-> Len(t), capacity |-> r.capacity]
<1>2. Represents(b, t) /\ b.data # NoData
  BY <1>1, BufferRepresents
<1>3. QED
  BY <1>2

LEMMA PushRepresents ==
  ASSUME NullIsNoBuffer, lanes \in Nat, NEW a, NEW s, Represents(a, s), NEW e \in Elements
  PROVE  Represents(Push(a, e), Append(s, e)) /\ Push(a, e).data # NoData
<1> DEFINE r == Room(a)
           t == Append(s, e)
           d == [r.data EXCEPT ![r.length] = e]
<1>1. Represents(r, s) /\ r.data # NoData /\ r.length < r.capacity
  BY RoomRepresents
<1>2. s \in Seq(Elements) /\ Len(s) \in Nat /\ r.length = Len(s)
  BY <1>1 DEF Represents
<1>3. t \in Seq(Elements) /\ Len(t) = Len(s) + 1
      /\ \A i \in Nat : ItemAt(t, i) = IF i = Len(s) THEN e ELSE ItemAt(s, i)
  BY <1>2, AppendItems
<1>4. Push(a, e) = [r EXCEPT !.data[r.length] = e, !.length = @ + 1]
  BY DEF Push
<1> HIDE DEF r, t
<1>5. /\ r = [data |-> r.data, length |-> Len(s), capacity |-> r.capacity]
      /\ r.capacity \in Nat
      /\ DOMAIN r.data = 0 .. r.capacity - 1
      /\ \A i \in 0 .. r.capacity - 1 : r.data[i] = ItemAt(s, i)
  BY <1>1, BufferOf
<1>6. Push(a, e) = [data |-> d, length |-> Len(t), capacity |-> r.capacity]
  BY <1>2, <1>3, <1>4, <1>5
<1>7. d = [i \in 0 .. r.capacity - 1 |-> d[i]]
      /\ \A i \in 0 .. r.capacity - 1 : d[i] = IF i = Len(s) THEN e ELSE r.data[i]
  BY <1>2, <1>5
<1> HIDE DEF d
<1>8. \A i \in 0 .. r.capacity - 1 : d[i] = ItemAt(t, i)
  BY <1>3, <1>5, <1>7
<1>9. Len(t) <= r.capacity
  BY <1>1, <1>2, <1>3, <1>5
<1> DEFINE w == Push(a, e)
<1>10. w = [data |-> d, length |-> Len(t), capacity |-> r.capacity] /\ d = [i \in 0 .. r.capacity - 1 |-> d[i]]
  BY <1>6, <1>7
<1> HIDE DEF w
<1>11. Represents(w, t) /\ w.data # NoData
  <2>1. Represents(r, s) /\ r.data # NoData
    BY <1>1
  <2>2. t \in Seq(Elements)
    BY <1>3
  <2>3. w = [data |-> d, length |-> Len(t), capacity |-> r.capacity]
    BY <1>10
  <2>4. d = [i \in 0 .. r.capacity - 1 |-> d[i]]
    BY <1>10
  <2>5. QED
    BY <2>1, <2>2, <2>3, <2>4, <1>8, <1>9, Rewritten, Zenon
<1>12. QED
  BY <1>11 DEF t, w

LEMMA InsertRepresents ==
  ASSUME NullIsNoBuffer, lanes \in Nat, NEW a, NEW s, Represents(a, s), NEW e \in Elements,
         NEW k \in 0 .. Len(s)
  PROVE  Represents(Insert(a, k, e), L!InsertAt(s, k + 1, e))
<1> DEFINE r == Room(a)
           t == L!InsertAt(s, k + 1, e)
           d == [j \in DOMAIN r.data |-> CASE j = k -> e
                                          [] k < j /\ j <= r.length -> r.data[j - 1]
                                          [] OTHER -> r.data[j]]
<1>1. Represents(r, s) /\ r.data # NoData /\ r.length < r.capacity
  BY RoomRepresents
<1>2. s \in Seq(Elements) /\ Len(s) \in Nat /\ r.length = Len(s)
  BY <1>1 DEF Represents
<1>3. t \in Seq(Elements) /\ Len(t) = Len(s) + 1
      /\ \A i \in Nat : ItemAt(t, i) = IF i = k THEN e
                                      ELSE IF k < i /\ i <= Len(s) THEN ItemAt(s, i - 1) ELSE ItemAt(s, i)
  BY <1>2, InsertItems
<1>4. Insert(a, k, e) = [r EXCEPT !.data = d, !.length = @ + 1]
  BY DEF Insert
<1> HIDE DEF r, t
<1>5. /\ r = [data |-> r.data, length |-> Len(s), capacity |-> r.capacity]
      /\ r.capacity \in Nat
      /\ DOMAIN r.data = 0 .. r.capacity - 1
      /\ \A i \in 0 .. r.capacity - 1 : r.data[i] = ItemAt(s, i)
  BY <1>1, BufferOf
<1>7. d = [i \in 0 .. r.capacity - 1 |-> d[i]]
      /\ \A i \in 0 .. r.capacity - 1 :
           d[i] = IF i = k THEN e ELSE IF k < i /\ i <= Len(s) THEN r.data[i - 1] ELSE r.data[i]
  BY <1>2, <1>5
<1> HIDE DEF d
<1>6. Insert(a, k, e) = [data |-> d, length |-> Len(t), capacity |-> r.capacity]
  BY <1>2, <1>3, <1>4, <1>5
<1>8. ASSUME NEW i \in 0 .. r.capacity - 1  PROVE d[i] = ItemAt(t, i)
  <2>1. CASE k < i /\ i <= Len(s)
    <3>1. i - 1 \in 0 .. r.capacity - 1  BY <1>5, <2>1
    <3>2. r.data[i - 1] = ItemAt(s, i - 1)  BY <1>5, <3>1
    <3>3. QED  BY <1>2, <1>3, <1>5, <1>7, <2>1, <3>2
  <2>2. CASE ~(k < i /\ i <= Len(s))
    BY <1>3, <1>5, <1>7, <2>2
  <2>3. QED  BY <2>1, <2>2
<1>9. Len(t) <= r.capacity
  BY <1>1, <1>2, <1>3, <1>5
<1>10. QED
  BY <1>1, <1>3, <1>6, <1>7, <1>8, <1>9, Rewritten, Zenon DEF t

LEMMA InsertSwapRepresents ==
  ASSUME NullIsNoBuffer, lanes \in Nat, NEW a, NEW s, Represents(a, s), NEW e \in Elements,
         NEW k \in 0 .. Len(s)
  PROVE  Represents(InsertSwap(a, k, e), L!SwappedIn(s, k + 1, e))
<1>0. s \in Seq(Elements) /\ Len(s) \in Nat /\ a.length = Len(s)
  BY DEF Represents
<1>1. CASE k = Len(s)
  <2>1. InsertSwap(a, k, e) = Push(a, e) /\ L!SwappedIn(s, k + 1, e) = Append(s, e)
    BY <1>0, <1>1 DEF InsertSwap, L!SwappedIn
  <2>2. QED
    BY <2>1, PushRepresents
<1>2. CASE k # Len(s)
  <2> DEFINE r == Room(a)
             t == L!SwappedIn(s, k + 1, e)
             d == [r.data EXCEPT ![r.length] = r.data[k], ![k] = e]
  <2>1. Represents(r, s) /\ r.data # NoData /\ r.length < r.capacity
    BY RoomRepresents
  <2>2. r.length = Len(s) /\ k \in 0 .. Len(s) - 1
    BY <1>0, <1>2, <2>1 DEF Represents
  <2>3. t \in Seq(Elements) /\ Len(t) = Len(s) + 1
        /\ \A i \in Nat : ItemAt(t, i) = IF i = k THEN e
                                        ELSE IF i = Len(s) THEN ItemAt(s, k) ELSE ItemAt(s, i)
    BY <1>0, <2>2, SwapInItems
  <2>4. InsertSwap(a, k, e) = [r EXCEPT !.data[r.length] = r.data[k], !.data[k] = e, !.length = @ + 1]
    BY <1>0, <1>2 DEF InsertSwap
  <2> HIDE DEF r, t
  <2>5. /\ r = [data |-> r.data, length |-> Len(s), capacity |-> r.capacity]
        /\ r.capacity \in Nat
        /\ DOMAIN r.data = 0 .. r.capacity - 1
        /\ \A i \in 0 .. r.capacity - 1 : r.data[i] = ItemAt(s, i)
    BY <2>1, BufferOf
  <2>6. InsertSwap(a, k, e) = [data |-> d, length |-> Len(t), capacity |-> r.capacity]
    BY <2>2, <2>3, <2>4, <2>5
  <2>7. d = [i \in 0 .. r.capacity - 1 |-> d[i]]
        /\ \A i \in 0 .. r.capacity - 1 :
             d[i] = IF i = k THEN e ELSE IF i = Len(s) THEN r.data[k] ELSE r.data[i]
    BY <1>0, <2>1, <2>2, <2>5
  <2> HIDE DEF d
  <2>8. \A i \in 0 .. r.capacity - 1 : d[i] = ItemAt(t, i)
    BY <1>0, <2>1, <2>2, <2>3, <2>5, <2>7
  <2>9. Len(t) <= r.capacity
    BY <1>0, <2>1, <2>2, <2>3, <2>5
  <2>10. QED
    BY <2>1, <2>3, <2>6, <2>7, <2>8, <2>9, Rewritten, Zenon DEF t
<1>3. QED
  BY <1>1, <1>2

LEMMA RemoveRepresents ==
  ASSUME NullIsNoBuffer, NEW a, NEW s, Represents(a, s), a.data # NoData, NEW k \in 0 .. Len(s) - 1
  PROVE  Represents(Remove(a, k), L!RemoveAt(s, k + 1))
<1> DEFINE t == L!RemoveAt(s, k + 1)
           d == [j \in DOMAIN a.data |-> CASE k <= j /\ j < a.length - 1 -> a.data[j + 1]
                                          [] j = a.length - 1 -> NoElement
                                          [] OTHER -> a.data[j]]
<1>1. s \in Seq(Elements) /\ Len(s) \in Nat /\ a.length = Len(s)
  BY DEF Represents
<1>2. t \in Seq(Elements) /\ Len(t) = Len(s) - 1
      /\ \A i \in Nat : ItemAt(t, i) = IF k <= i /\ i < Len(s) - 1 THEN ItemAt(s, i + 1)
                                      ELSE IF i = Len(s) - 1 THEN NoElement ELSE ItemAt(s, i)
  BY <1>1, RemoveItems
<1>3. Remove(a, k) = [a EXCEPT !.data = d, !.length = @ - 1]
  BY DEF Remove
<1> HIDE DEF t
<1>4. /\ a = [data |-> a.data, length |-> Len(s), capacity |-> a.capacity]
      /\ a.capacity \in Nat /\ Len(s) <= a.capacity
      /\ DOMAIN a.data = 0 .. a.capacity - 1
      /\ \A i \in 0 .. a.capacity - 1 : a.data[i] = ItemAt(s, i)
  BY BufferOf
<1>5. d = [i \in 0 .. a.capacity - 1 |-> d[i]]
      /\ \A i \in 0 .. a.capacity - 1 :
           d[i] = IF k <= i /\ i < Len(s) - 1 THEN a.data[i + 1]
                  ELSE IF i = Len(s) - 1 THEN NoElement ELSE a.data[i]
  BY <1>1, <1>4
<1> HIDE DEF d
<1>6. Remove(a, k) = [data |-> d, length |-> Len(t), capacity |-> a.capacity]
  BY <1>1, <1>2, <1>3, <1>4
<1>7. ASSUME NEW i \in 0 .. a.capacity - 1  PROVE d[i] = ItemAt(t, i)
  <2>1. CASE k <= i /\ i < Len(s) - 1
    <3>1. i + 1 \in 0 .. a.capacity - 1  BY <1>1, <1>4, <2>1
    <3>2. a.data[i + 1] = ItemAt(s, i + 1)  BY <1>4, <3>1
    <3>3. QED  BY <1>1, <1>2, <1>4, <1>5, <2>1, <3>2
  <2>2. CASE ~(k <= i /\ i < Len(s) - 1)
    BY <1>1, <1>2, <1>4, <1>5, <2>2
  <2>3. QED  BY <2>1, <2>2
<1>8. Len(t) <= a.capacity
  BY <1>1, <1>2, <1>4
<1>9. Represents(Remove(a, k), t)
  BY <1>2, <1>5, <1>6, <1>7, <1>8, Rewritten
<1>10. QED
  BY <1>9 DEF t

LEMMA RemoveSwapRepresents ==
  ASSUME NullIsNoBuffer, NEW a, NEW s, Represents(a, s), a.data # NoData, NEW k \in 0 .. Len(s) - 1
  PROVE  Represents(RemoveSwap(a, k), L!Swapped(s, k + 1))
<1> DEFINE t == L!Swapped(s, k + 1)
           d == [a.data EXCEPT ![k] = a.data[a.length - 1], ![a.length - 1] = NoElement]
<1>1. s \in Seq(Elements) /\ Len(s) \in Nat /\ a.length = Len(s)
  BY DEF Represents
<1>2. t \in Seq(Elements) /\ Len(t) = Len(s) - 1
      /\ \A i \in Nat : ItemAt(t, i) = IF i = Len(s) - 1 THEN NoElement
                                      ELSE IF i = k THEN ItemAt(s, Len(s) - 1) ELSE ItemAt(s, i)
  BY <1>1, SwappedItems
<1>3. RemoveSwap(a, k) = [a EXCEPT !.data[k] = a.data[a.length - 1],
                                   !.data[a.length - 1] = NoElement, !.length = @ - 1]
  BY DEF RemoveSwap
<1> HIDE DEF t
<1>4. /\ a = [data |-> a.data, length |-> Len(s), capacity |-> a.capacity]
      /\ a.capacity \in Nat /\ Len(s) <= a.capacity
      /\ DOMAIN a.data = 0 .. a.capacity - 1
      /\ \A i \in 0 .. a.capacity - 1 : a.data[i] = ItemAt(s, i)
  BY BufferOf
<1> DEFINE b == [a EXCEPT !.data = d, !.length = @ - 1]
<1>b. RemoveSwap(a, k) = b
  BY <1>1, <1>3, <1>4
<1>5. RemoveSwap(a, k) = [data |-> d, length |-> Len(t), capacity |-> a.capacity]
  BY <1>1, <1>2, <1>4, <1>b
<1>6. d = [i \in 0 .. a.capacity - 1 |-> d[i]]
      /\ \A i \in 0 .. a.capacity - 1 :
           d[i] = IF i = Len(s) - 1 THEN NoElement ELSE IF i = k THEN a.data[Len(s) - 1] ELSE a.data[i]
  BY <1>1, <1>4
<1> HIDE DEF d
<1>7. a.data[Len(s) - 1] = ItemAt(s, Len(s) - 1)
  BY <1>1, <1>4
<1>8. \A i \in 0 .. a.capacity - 1 : d[i] = ItemAt(t, i)
  BY <1>1, <1>2, <1>4, <1>6, <1>7
<1>9. Len(t) <= a.capacity
  BY <1>1, <1>2, <1>4
<1>10. Represents(RemoveSwap(a, k), t)
  BY <1>2, <1>5, <1>6, <1>8, <1>9, Rewritten
<1>11. QED
  BY <1>10 DEF t

LEMMA TruncateRepresents ==
  ASSUME NullIsNoBuffer, NEW a, NEW s, Represents(a, s), NEW n \in Nat
  PROVE  /\ n >= Len(s) => Truncate(a, n) = a
         /\ n < Len(s) => Represents(Truncate(a, n), L!Prefix(s, n))
<1>1. s \in Seq(Elements) /\ Len(s) \in Nat /\ a.length = Len(s)
  BY DEF Represents
<1>2. CASE n >= Len(s)
  BY <1>1, <1>2 DEF Truncate
<1>3. CASE n < Len(s)
  <2> DEFINE t == L!Prefix(s, n)
             d == [i \in DOMAIN a.data |-> IF i < n THEN a.data[i] ELSE NoElement]
  <2>1. t \in Seq(Elements) /\ Len(t) = n
        /\ \A i \in Nat : ItemAt(t, i) = IF i < n THEN ItemAt(s, i) ELSE NoElement
    BY <1>1, <1>3, PrefixItems
  <2>2. Truncate(a, n) = [a EXCEPT !.data = d, !.length = n]
    BY <1>1, <1>3 DEF Truncate
  <2>3. a.data # NoData
    BY <1>1, <1>3 DEF Represents
  <2> HIDE DEF t
  <2>4. /\ a = [data |-> a.data, length |-> Len(s), capacity |-> a.capacity]
        /\ a.capacity \in Nat /\ Len(s) <= a.capacity
        /\ DOMAIN a.data = 0 .. a.capacity - 1
        /\ \A i \in 0 .. a.capacity - 1 : a.data[i] = ItemAt(s, i)
    BY <2>3, BufferOf
  <2>5. d = [i \in 0 .. a.capacity - 1 |-> d[i]]
        /\ \A i \in 0 .. a.capacity - 1 : d[i] = IF i < n THEN a.data[i] ELSE NoElement
    BY <2>4
  <2> HIDE DEF d
  <2>6. Truncate(a, n) = [data |-> d, length |-> Len(t), capacity |-> a.capacity]
    BY <2>1, <2>2, <2>4
  <2>7. \A i \in 0 .. a.capacity - 1 : d[i] = ItemAt(t, i)
    BY <2>1, <2>4, <2>5
  <2>8. Len(t) <= a.capacity
    BY <1>1, <1>3, <2>1, <2>4
  <2>9. Represents(Truncate(a, n), t)
    BY <2>1, <2>3, <2>5, <2>6, <2>7, <2>8, Rewritten
  <2>10. QED
    BY <1>3, <2>9 DEF t
<1>4. QED
  BY <1>1, <1>2, <1>3

\* The slots behind the elements of r are filled with those of u.
LEMMA Extended ==
  ASSUME NullIsNoBuffer, NEW r, NEW s, Represents(r, s), r.data # NoData,
         NEW u, u \in Seq(Elements), NEW n, n = Len(s) + Len(u), n <= r.capacity,
         NEW d, d = [i \in 0 .. r.capacity - 1 |-> d[i]],
         \A i \in 0 .. r.capacity - 1 :
           d[i] = IF Len(s) <= i /\ i < n THEN u[i - Len(s) + 1] ELSE r.data[i],
         NEW a, a = [data |-> d, length |-> n, capacity |-> r.capacity]
  PROVE  Represents(a, s \o u)
<1> DEFINE t == s \o u
<1>1. s \in Seq(Elements) /\ Len(s) \in Nat /\ Len(u) \in Nat
  BY DEF Represents
<1>2. t \in Seq(Elements) /\ Len(t) = Len(s) + Len(u)
      /\ \A i \in Nat : ItemAt(t, i) = IF Len(s) <= i /\ i < Len(s) + Len(u) THEN u[i - Len(s) + 1]
                                      ELSE ItemAt(s, i)
  BY <1>1, ConcatItems
<1> HIDE DEF t
<1>4. /\ r = [data |-> r.data, length |-> Len(s), capacity |-> r.capacity]
      /\ r.capacity \in Nat
      /\ DOMAIN r.data = 0 .. r.capacity - 1
      /\ \A i \in 0 .. r.capacity - 1 : r.data[i] = ItemAt(s, i)
  BY BufferOf
<1>6. a = [data |-> d, length |-> Len(t), capacity |-> r.capacity]
  BY <1>2, <1>4
<1>7. ASSUME NEW i \in 0 .. r.capacity - 1  PROVE d[i] = ItemAt(t, i)
  <2>1. CASE Len(s) <= i /\ i < n
    <3>1. d[i] = u[i - Len(s) + 1]  BY <2>1
    <3>2. ItemAt(t, i) = u[i - Len(s) + 1]  BY <1>1, <1>2, <1>4, <2>1
    <3>3. QED  BY <3>1, <3>2
  <2>2. CASE ~(Len(s) <= i /\ i < n)
    BY <1>2, <1>4, <2>2
  <2>3. QED  BY <2>1, <2>2
<1>8. Len(t) <= r.capacity
  BY <1>2
<1>9. Represents(a, t)
  BY <1>2, <1>6, <1>7, <1>8, Rewritten
<1>10. QED
  BY <1>9 DEF t

LEMMA AppendedRepresents ==
  ASSUME NullIsNoBuffer, lanes \in Nat, NEW a, NEW s, Represents(a, s), NEW u \in Seq(Elements),
         Len(s) + Len(u) <= MaxLength, Len(s) + Len(u) + a.capacity = 0 => Allocates(0)
  PROVE  Represents(Appended(a, u), s \o u)
<1> DEFINE n == a.length + Len(u)
           r == IF n >= a.capacity THEN Reallocate(a, PowerAbove(n)) ELSE a
<1>1. s \in Seq(Elements) /\ Len(s) \in Nat /\ Len(u) \in Nat /\ a.length = Len(s)
      /\ n = Len(s) + Len(u) /\ n \in 0 .. MaxLength
  BY SizesAssumption DEF Represents
<1>2. /\ Represents(r, s) /\ r.data # NoData /\ n <= r.capacity
  <2>1. CASE n >= a.capacity
    <3>1. PowerAbove(n) \in Nat /\ PowerAbove(n) >= n
      BY <1>1, PowerAboveIs
    <3>6. Allocates(PowerAbove(n))
      <4>1. CASE n = 0
        BY <1>1, <2>1, <3>1, <4>1 DEF Represents, Allocates
      <4>2. CASE n # 0
        BY <1>1, <3>1, <4>2 DEF Allocates
      <4>3. QED
        BY <4>1, <4>2
    <3> DEFINE q == PowerAbove(n)
               b == Reallocate(a, q)
    <3>2. r = b
      BY <2>1
    <3> HIDE DEF q, n
    <3>3. Represents(b, s) /\ b.data # NoData /\ b.capacity >= q
      BY <1>1, <3>1, <3>6, ReallocateRepresents DEF q
    <3>4. b.capacity \in Nat
      BY <3>3 DEF Represents
    <3> HIDE DEF b
    <3>5. QED
      BY <1>1, <3>1, <3>2, <3>3, <3>4 DEF q
  <2>2. CASE ~(n >= a.capacity)
    <3>1. r = a
      BY <2>2
    <3>2. a.capacity \in Nat
      BY DEF Represents
    <3>3. a.capacity # 0 /\ n <= a.capacity
      BY <1>1, <2>2, <3>2
    <3>4. QED
      BY <3>1, <3>3 DEF Represents
  <2>3. QED
    BY <2>1, <2>2
<1> DEFINE d == [i \in DOMAIN r.data |-> IF Len(s) <= i /\ i < n THEN u[i - Len(s) + 1] ELSE r.data[i]]
<1>3. Appended(a, u) = [r EXCEPT !.data = d, !.length = n]
  BY <1>1 DEF Appended
<1> HIDE DEF r, n, d
<1>7. Appended(a, u) = [data |-> d, length |-> n, capacity |-> r.capacity]
  <2>1. r = [data |-> r.data, length |-> Len(s), capacity |-> r.capacity]
    BY <1>2, BufferOf
  <2>2. QED
    BY <1>3, <2>1
<1>4. DOMAIN r.data = 0 .. r.capacity - 1
  BY <1>2, BufferOf
<1>5. /\ d = [i \in 0 .. r.capacity - 1 |-> d[i]]
      /\ \A i \in 0 .. r.capacity - 1 :
           d[i] = IF Len(s) <= i /\ i < n THEN u[i - Len(s) + 1] ELSE r.data[i]
  BY <1>4 DEF d
<1>6. QED
  BY <1>1, <1>2, <1>5, <1>7, Extended

LEMMA ResizeRepresents ==
  ASSUME NullIsNoBuffer, lanes \in Nat, NEW a, NEW s, Represents(a, s), NEW n \in 0 .. MaxLength,
         NEW e \in Elements
  PROVE  /\ n = Len(s) => Resize(a, n, e) = a
         /\ n < Len(s) => Represents(Resize(a, n, e), L!Prefix(s, n))
         /\ n > Len(s) => Represents(Resize(a, n, e), s \o [i \in 1 .. n - Len(s) |-> e])
<1> DEFINE r == IF n > a.capacity THEN Reallocate(a, PowerAbove(n)) ELSE a
           u == [i \in 1 .. n - Len(s) |-> e]
<1>1. s \in Seq(Elements) /\ Len(s) \in Nat /\ a.length = Len(s) /\ n \in Nat
  BY SizesAssumption DEF Represents
<1>2. n <= Len(s) => Resize(a, n, e) = Truncate(a, n)
  BY <1>1 DEF Resize
<1>3. CASE n > Len(s)
  <2>1. /\ Represents(r, s) /\ r.data # NoData /\ n <= r.capacity
    <3>1. CASE n > a.capacity
      <4>1. PowerAbove(n) \in Nat /\ PowerAbove(n) >= n
        BY PowerAboveIs
      <4>6. Allocates(PowerAbove(n))
        BY <1>1, <1>3, <4>1 DEF Allocates
      <4> DEFINE q == PowerAbove(n)
                 b == Reallocate(a, q)
      <4>2. r = b
        BY <3>1
      <4> HIDE DEF q
      <4>3. Represents(b, s) /\ b.data # NoData /\ b.capacity >= q
        BY <1>1, <1>3, <4>1, <4>6, ReallocateRepresents DEF q
      <4>4. b.capacity \in Nat
        BY <4>3 DEF Represents
      <4> HIDE DEF b
      <4>5. QED
        BY <1>1, <4>1, <4>2, <4>3, <4>4 DEF q
    <3>2. CASE ~(n > a.capacity)
      <4>1. r = a
        BY <3>2
      <4>2. a.capacity \in Nat
        BY DEF Represents
      <4>3. a.capacity # 0 /\ n <= a.capacity
        BY <1>1, <1>3, <3>2, <4>2
      <4>4. QED
        BY <4>1, <4>3 DEF Represents
    <3>3. QED
      BY <3>1, <3>2
  <2>2. u \in Seq(Elements) /\ Len(u) = n - Len(s) /\ \A i \in 1 .. n - Len(s) : u[i] = e
    BY <1>1, <1>3
  <2> DEFINE d == [i \in DOMAIN r.data |-> IF Len(s) <= i /\ i < n THEN e ELSE r.data[i]]
  <2>3. Resize(a, n, e) = [r EXCEPT !.data = d, !.length = n]
    BY <1>1, <1>3 DEF Resize
  <2> HIDE DEF r, u
  <2>4. DOMAIN r.data = 0 .. r.capacity - 1 /\ r.capacity \in Nat
    BY <2>1, BufferOf
  <2>5. n = Len(s) + Len(u) /\ \A i \in Nat : Len(s) <= i /\ i < n => e = u[i - Len(s) + 1]
    BY <1>1, <1>3, <2>2
  <2>6. /\ d = [i \in 0 .. r.capacity - 1 |-> d[i]]
        /\ \A i \in 0 .. r.capacity - 1 :
             d[i] = IF Len(s) <= i /\ i < n THEN u[i - Len(s) + 1] ELSE r.data[i]
    BY <2>4, <2>5
  <2> HIDE DEF d
  <2>9. Resize(a, n, e) = [data |-> d, length |-> n, capacity |-> r.capacity]
    <3>1. r = [data |-> r.data, length |-> Len(s), capacity |-> r.capacity]
      BY <2>1, BufferOf
    <3>2. QED
      BY <2>3, <3>1
  <2>10. u \in Seq(Elements) /\ n = Len(s) + Len(u)
    BY <2>2, <2>5
  <2>7. Represents(Resize(a, n, e), s \o u)
    BY <2>1, <2>6, <2>9, <2>10, Extended
  <2>8. QED
    BY <1>1, <1>3, <2>7 DEF u
<1>4. QED
  BY <1>1, <1>2, <1>3, TruncateRepresents

LEMMA AppendedLength ==
  ASSUME NEW a, NEW s, Represents(a, s), NEW u
  PROVE  Appended(a, u).length = Len(s) + Len(u)
  BY DEF Represents, ListRecord, Appended, Reallocate, Filled

LEMMA CopyRepresents ==
  ASSUME NullIsNoBuffer, lanes \in Nat, NEW a, NEW s, Represents(a, s)
  PROVE  Represents(CopyOf(a), s)
<1>1. ListItems(a) = s /\ s \in Seq(Elements) /\ Len(s) \in Nat /\ a.length = Len(s)
  BY RepresentedItems DEF Represents
<1>2. CASE a.length = 0
  <2>1. s = <<>>
    <3>1. s \in Seq(Elements) /\ Len(s) = 0
      BY <1>1, <1>2
    <3>2. QED
      BY <3>1, NoItems
  <2>2. CopyOf(a) = EmptyList
    BY <1>2 DEF CopyOf
  <2>3. QED
    BY <2>1, <2>2, EmptyRepresents
<1>3. CASE a.length # 0
  <2>1. Allocates(Len(s))
    BY <1>1, <1>3 DEF Allocates
  <2>2. Represents(Filled(s, Len(s)), s)
    BY <1>1, <2>1, FilledRepresents
  <2>3. QED
    BY <1>1, <1>3, <2>2 DEF CopyOf
<1>4. QED
  BY <1>2, <1>3

\* A list that holds s, made with room for n.
LEMMA MadeRepresents ==
  ASSUME NullIsNoBuffer, lanes \in Nat, NEW s \in Seq(Elements), NEW n \in Nat, ~(s = <<>> /\ n = 0)
  PROVE  Represents(Filled(s, Larger(Len(s), n)), s)
<1>1. Len(s) \in Nat /\ (s = <<>> <=> Len(s) = 0)
  OBVIOUS
<1>2. /\ Larger(Len(s), n) \in Nat /\ Len(s) <= Larger(Len(s), n) /\ Larger(Len(s), n) > 0
  BY <1>1 DEF Larger
<1>3. Allocates(Larger(Len(s), n))
  BY <1>2 DEF Allocates
<1>4. QED
  BY <1>2, <1>3, FilledRepresents

LEMMA ConstructsRepresent ==
  ASSUME NullIsNoBuffer, lanes \in Nat, NEW s \in Seq(Elements), NEW n \in Nat
  PROVE  /\ Represents(InitList(s), s) /\ Represents(InitBufferCopy(s), s)
         /\ Represents(WithCapacity(n), <<>>)
         /\ Represents(WithCapacityList(n, s), s) /\ Represents(WithCapacityBufferCopy(n, s), s)
<1>1. Len(s) \in Nat /\ (s = <<>> <=> Len(s) = 0) /\ Larger(Len(s), 0) = Len(s)
  BY DEF Larger
<1>2. s # <<>> => Represents(Filled(s, Len(s)), s)
  BY <1>1, MadeRepresents
<1>3. ~(s = <<>> /\ n = 0) => Represents(Filled(s, Larger(Len(s), n)), s)
  BY MadeRepresents
<1>4. n # 0 => Represents(Filled(<<>>, n), <<>>)
  <2>1. <<>> \in Seq(Elements) /\ Len(<<>>) = 0
    OBVIOUS
  <2>2. n # 0 => Larger(Len(<<>>), n) = n
    BY <2>1 DEF Larger
  <2>3. n # 0 => Represents(Filled(<<>>, Larger(Len(<<>>), n)), <<>>)
    BY <2>1, MadeRepresents
  <2>4. QED
    BY <2>2, <2>3
<1>5. QED
  BY <1>2, <1>3, <1>4, EmptyRepresents
     DEF InitList, InitBufferCopy, WithCapacity, WithCapacityList, WithCapacityBufferCopy

LEMMA CapacityCopyRepresents ==
  ASSUME NullIsNoBuffer, lanes \in Nat, NEW a, NEW s, Represents(a, s), NEW n \in Nat
  PROVE  Represents(WithCapacityCopy(n, a), s)
<1>1. ListItems(a) = s /\ s \in Seq(Elements) /\ Len(s) \in Nat /\ a.length = Len(s)
      /\ (s = <<>> <=> Len(s) = 0)
  BY RepresentedItems DEF Represents
<1>2. ~(s = <<>> /\ n = 0) => Represents(Filled(s, Larger(Len(s), n)), s)
  BY <1>1, MadeRepresents
<1>3. QED
  BY <1>1, <1>2, EmptyRepresents DEF WithCapacityCopy

LEMMA CapacityRepresents ==
  ASSUME NullIsNoBuffer, lanes \in Nat, NEW a, NEW s, Represents(a, s), NEW n \in Nat
  PROVE  /\ Represents(Reserve(a, n), s) /\ Represents(ReserveExact(a, n), s)
         /\ Allocates(a.length) => Represents(ShrinkToFit(a), s)
         /\ Allocates(Larger(n, a.length)) => Represents(ShrinkTo(a, n), s)
<1>1. Len(s) \in Nat /\ a.length = Len(s) /\ a.capacity \in Nat
  BY DEF Represents
<1>2. Represents(Reserve(a, n), s)
  <2>1. CASE a.length + n <= a.capacity \/ a.length + n = 0
    BY <2>1 DEF Reserve
  <2>2. CASE ~(a.length + n <= a.capacity \/ a.length + n = 0)
    <3> DEFINE m == Larger(a.length + n, (a.capacity + 1) * 2)
    <3>1. m \in Nat /\ Len(s) <= m /\ Allocates(m)
      BY <1>1, <2>2 DEF Larger, Allocates
    <3>2. Reserve(a, n) = Reallocate(a, m)
      BY <2>2 DEF Reserve
    <3> HIDE DEF m
    <3>3. QED
      BY <3>1, <3>2, ReallocateRepresents
  <2>3. QED
    BY <2>1, <2>2
<1>3. Represents(ReserveExact(a, n), s)
  <2>1. CASE a.length + n <= a.capacity \/ a.length + n = 0
    BY <2>1 DEF ReserveExact
  <2>2. CASE ~(a.length + n <= a.capacity \/ a.length + n = 0)
    <3>1. a.length + n \in Nat /\ Len(s) <= a.length + n /\ Allocates(a.length + n)
      BY <1>1, <2>2 DEF Allocates
    <3>2. QED
      BY <2>2, <3>1, ReallocateRepresents DEF ReserveExact
  <2>3. QED
    BY <2>1, <2>2
<1>4. Allocates(a.length) => Represents(ShrinkToFit(a), s)
  BY <1>1, ReallocateRepresents DEF ShrinkToFit
<1>5. Allocates(Larger(n, a.length)) => Represents(ShrinkTo(a, n), s)
  <2>1. Larger(n, a.length) \in Nat /\ Len(s) <= Larger(n, a.length)
    BY <1>1 DEF Larger
  <2>2. QED
    BY <2>1, ReallocateRepresents DEF ShrinkTo
<1>6. QED
  BY <1>2, <1>3, <1>4, <1>5

-----------------------------------------------------------------------------
(* The invariant *)

\* The list was moved from or given up, and may only be assigned or destroyed.
GivenUp(a) == ListRecord(a) /\ a.data = NoData /\ a.capacity # 0

ListInv ==
  /\ lanes \in Lanes
  /\ lists = [l \in Lists |-> lists[l]]
  /\ \A l \in Lists : Represents(lists[l], ListItems(lists[l])) \/ GivenUp(lists[l])

ListContents == [l \in Lists |-> ContentsOf(l)]

LEMMA Fate ==
  ASSUME ListInv, NEW l \in Lists
  PROVE  /\ lanes \in Nat
         /\ UsableList(l) => /\ Represents(lists[l], ContentsOf(l))
                             /\ ContentsOf(l) = ListItems(lists[l])
                             /\ ContentsOf(l) \in Seq(Elements)
         /\ ~UsableList(l) => GivenUp(lists[l]) /\ ContentsOf(l) = NoContents
         /\ ListRecord(lists[l])
<1>1. lanes \in Nat
  BY LanesAssumption DEF ListInv
<1>2. Represents(lists[l], ListItems(lists[l])) \/ GivenUp(lists[l])
  BY DEF ListInv
<1>3. Represents(lists[l], ListItems(lists[l])) => UsableList(l)
  BY DEF Represents, UsableList
<1>4. GivenUp(lists[l]) => ~UsableList(l)
  BY DEF GivenUp, UsableList
<1>5. QED
  BY <1>1, <1>2, <1>3, <1>4 DEF ContentsOf, Represents, GivenUp

LEMMA Kept ==
  ASSUME lanes' = lanes, NEW a, NEW s  PROVE Represents(a, s)' <=> Represents(a, s)
  BY DEF Represents, ListRecord, ListSlots, ItemAt, RoundedUp

LEMMA NothingChanges ==
  ASSUME ListInv, lists' = lists, lanes' = lanes
  PROVE  ListInv' /\ ListContents' = ListContents
<1>1. ListContents' = ListContents
  BY DEF ListContents, ContentsOf, UsableList, ListItems
<1>2. ASSUME NEW l \in Lists
      PROVE  Represents(lists[l], ListItems(lists[l]))' \/ GivenUp(lists[l])'
  <2>1. PICK a, s : a = lists[l] /\ s = ListItems(lists[l])
    OBVIOUS
  <2>2. a = lists'[l] /\ s = ListItems(lists[l])'
    BY <2>1 DEF ListItems
  <2>3. GivenUp(lists[l]) => GivenUp(lists[l])'
    BY DEF GivenUp, ListRecord
  <2>4. Represents(a, s) => Represents(a, s)'
    BY Kept
  <2>5. QED
    BY <2>1, <2>2, <2>3, <2>4 DEF ListInv
<1>3. QED
  BY <1>1, <1>2 DEF ListInv

\* Only l changes: it becomes a, which holds t.
LEMMA OneChanges ==
  ASSUME ListInv, NEW l \in Lists, NEW a, NEW t, Represents(a, t),
         lists' = [lists EXCEPT ![l] = a], lanes' = lanes
  PROVE  ListInv' /\ ListContents' = [ListContents EXCEPT ![l] = t]
<1>1. lists = [k \in Lists |-> lists[k]]
  BY DEF ListInv
<1>2. lists' = [k \in Lists |-> lists'[k]] /\ lists'[l] = a
      /\ \A k \in Lists \ {l} : lists'[k] = lists[k]
  BY <1>1
<1>3. ListItems(a) = t /\ (a.data # NoData \/ a.capacity = 0)
  BY RepresentedItems
<1>4. UsableList(l)' /\ ListItems(lists[l])' = t
  BY <1>2, <1>3 DEF UsableList, ListItems
<1>5. ContentsOf(l)' = t
  BY <1>4 DEF ContentsOf
<1>6. ASSUME NEW k \in Lists \ {l}
      PROVE  /\ Represents(lists[k], ListItems(lists[k]))' \/ GivenUp(lists[k])'
             /\ ContentsOf(k)' = ContentsOf(k)
  <2>1. PICK b, s : b = lists[k] /\ s = ListItems(lists[k])
    OBVIOUS
  <2>2. b = lists'[k] /\ s = ListItems(lists[k])'
    BY <1>2, <2>1 DEF ListItems
  <2>3. GivenUp(lists[k]) => GivenUp(lists[k])'
    BY <1>2 DEF GivenUp, ListRecord
  <2>4. Represents(b, s) => Represents(b, s)'
    BY Kept
  <2>5. ContentsOf(k)' = ContentsOf(k)
    BY <1>2 DEF ContentsOf, UsableList, ListItems
  <2>6. QED
    BY <2>1, <2>2, <2>3, <2>4, <2>5 DEF ListInv
<1>7. Represents(a, t)'
  BY Kept
<1>8. Represents(lists[l], ListItems(lists[l]))'
  BY <1>2, <1>4, <1>7
<1>9. ListInv'
  BY <1>2, <1>6, <1>8 DEF ListInv
<1>10. ListContents' = [ListContents EXCEPT ![l] = t]
  BY <1>5, <1>6 DEF ListContents
<1>11. QED
  BY <1>9, <1>10

\* The buffer of k goes to l, and k is left without one.
LEMMA TwoChange ==
  ASSUME ListInv, NEW l \in Lists, NEW k \in Lists, l # k,
         lists' = [lists EXCEPT ![l] = lists[k], ![k] = WithoutData(@)], lanes' = lanes
  PROVE  /\ ListInv'
         /\ \E rest \in {<<>>, NoContents} : ListContents' = [ListContents EXCEPT ![l] = ListContents[k], ![k] = rest]
<1>1. lists = [m \in Lists |-> lists[m]]
  BY DEF ListInv
<1>2. lists' = [m \in Lists |-> lists'[m]] /\ lists'[l] = lists[k] /\ lists'[k] = WithoutData(lists[k])
      /\ \A m \in Lists \ {l, k} : lists'[m] = lists[m]
  BY <1>1
<1>3. lanes \in Nat /\ ListRecord(lists[k])
  BY Fate
<1>4. lists'[k] = [data |-> NoData, length |-> lists[k].length, capacity |-> lists[k].capacity]
  BY <1>2, <1>3 DEF ListRecord, WithoutData
<1>5. PICK a, s : a = lists[k] /\ s = ListItems(lists[k])
  OBVIOUS
<1>6. Represents(a, s) \/ GivenUp(a)
  BY <1>5 DEF ListInv
<1>7. a = lists'[l] /\ s = ListItems(lists[l])'
  BY <1>2, <1>5 DEF ListItems
<1>8. Represents(lists[l], ListItems(lists[l]))' \/ GivenUp(lists[l])'
  <2>1. GivenUp(a) => GivenUp(lists[l])'
    BY <1>7 DEF GivenUp, ListRecord
  <2>2. Represents(a, s) => Represents(a, s)'
    BY Kept
  <2>3. QED
    BY <1>6, <1>7, <2>1, <2>2
<1>9. ContentsOf(l)' = ContentsOf(k)
  BY <1>5, <1>7 DEF ContentsOf, UsableList
<1>10. /\ Represents(lists[k], ListItems(lists[k]))' \/ GivenUp(lists[k])'
       /\ ContentsOf(k)' \in {<<>>, NoContents}
  <2>1. CASE a.capacity = 0
    <3>1. Represents(a, s)
      BY <1>6, <2>1 DEF GivenUp
    <3>2. a.length = 0
      <4>1. a.length = Len(s) /\ a.length <= a.capacity /\ s \in Seq(Elements)
        BY <3>1 DEF Represents
      <4>2. QED
        BY <2>1, <4>1
    <3>3. lists'[k] = EmptyList
      BY <1>4, <1>5, <2>1, <3>2 DEF EmptyList
    <3>4. Represents(EmptyList, <<>>) /\ ListItems(EmptyList) = <<>>
      BY <1>3, EmptyRepresents, RepresentedItems
    <3>5. PICK e, t : e = EmptyList /\ t = <<>>
      OBVIOUS
    <3>6. Represents(e, t)'
      BY <3>4, <3>5, Kept
    <3>7. ListItems(lists[k])' = t
      BY <3>3, <3>4, <3>5 DEF ListItems
    <3>8. Represents(lists[k], ListItems(lists[k]))'
      BY <3>3, <3>5, <3>6, <3>7
    <3>9. UsableList(k)'
      BY <3>3 DEF UsableList, EmptyList
    <3>10. QED
      BY <3>5, <3>7, <3>8, <3>9 DEF ContentsOf
  <2>2. CASE a.capacity # 0
    <3>0. PICK b : b = lists'[k]
      OBVIOUS
    <3>4. GivenUp(b)
      BY <1>4, <1>5, <2>2, <3>0 DEF GivenUp, ListRecord
    <3>1. GivenUp(lists[k])'
      BY <3>0, <3>4
    <3>2. ~UsableList(k)'
      BY <3>1 DEF GivenUp, UsableList
    <3>3. QED
      BY <3>1, <3>2 DEF ContentsOf
  <2>3. QED
    BY <2>1, <2>2
<1>11. ASSUME NEW m \in Lists \ {l, k}
       PROVE  /\ Represents(lists[m], ListItems(lists[m]))' \/ GivenUp(lists[m])'
              /\ ContentsOf(m)' = ContentsOf(m)
  <2>1. PICK b, u : b = lists[m] /\ u = ListItems(lists[m])
    OBVIOUS
  <2>2. b = lists'[m] /\ u = ListItems(lists[m])'
    BY <1>2, <2>1 DEF ListItems
  <2>3. GivenUp(lists[m]) => GivenUp(lists[m])'
    BY <1>2 DEF GivenUp, ListRecord
  <2>4. Represents(b, u) => Represents(b, u)'
    BY Kept
  <2>5. ContentsOf(m)' = ContentsOf(m)
    BY <1>2 DEF ContentsOf, UsableList, ListItems
  <2>6. QED
    BY <2>1, <2>2, <2>3, <2>4, <2>5 DEF ListInv
<1>12. ListInv'
  BY <1>2, <1>8, <1>10, <1>11 DEF ListInv
<1>13. PICK rest \in {<<>>, NoContents} : ContentsOf(k)' = rest
  BY <1>10
<1>14. ListContents' = [ListContents EXCEPT ![l] = ListContents[k], ![k] = rest]
  BY <1>9, <1>11, <1>13 DEF ListContents
<1>15. QED
  BY <1>12, <1>14

-----------------------------------------------------------------------------
(* Steps of the lists are steps of Listing *)

LEMMA StepIs ==
  ASSUME NEW c, c = [k \in Lists |-> c[k]], NEW l \in Lists, NEW t, NEW d, d = [c EXCEPT ![l] = t], NEW r
  PROVE  /\ r = NoElement /\ t \in Literals \cup {<<>>} => L!Step(c, d, r)
         /\ r = NoElement /\ NoContents \notin {c[l], t} /\ L!Changed(c[l], t) => L!Step(c, d, r)
         /\ r = NoContents /\ c[l] # NoContents /\ t = NoContents => L!Step(c, d, r)
         /\ c[l] # NoContents /\ L!Removal(c[l], t, r) => L!Step(c, d, r)
         /\ \A k \in Lists : /\ r = NoElement /\ c[k] # NoContents
                             /\ t = c[k] \/ (c[l] # NoContents /\ t = c[l] \o c[k])
                             => L!Step(c, d, r)
<1>1. d[l] = t /\ L!Alone(c, d, l)
  BY DEF L!Alone
<1>2. QED
  BY <1>1, Zenon DEF L!Step

LEMMA ChangedIs ==
  ASSUME NEW s \in Seq(Elements)
  PROVE  /\ L!Changed(s, s)
         /\ \A n \in Nat : n < Len(s) => L!Changed(s, L!Prefix(s, n))
         /\ \A e \in Elements : L!Changed(s, Append(s, e))
         /\ \A e \in Elements, k \in 0 .. Len(s) : /\ L!Changed(s, L!InsertAt(s, k + 1, e))
                                                   /\ L!Changed(s, L!SwappedIn(s, k + 1, e))
         /\ \A u \in Literals : L!Changed(s, s \o u)
         /\ \A e \in Elements, n \in Nat : n > Len(s) => L!Changed(s, s \o [i \in 1 .. n - Len(s) |-> e])
<1>0. Len(s) \in Nat
  OBVIOUS
<1>1. L!Changed(s, s)
  BY DEF L!Changed, L!Prefix
<1>2. ASSUME NEW n \in Nat, n < Len(s)  PROVE L!Changed(s, L!Prefix(s, n))
  <2>1. Len(L!Prefix(s, n)) = n
    BY <1>2, PrefixItems
  <2>2. QED
    BY <1>0, <1>2, <2>1 DEF L!Changed
<1>3. ASSUME NEW e \in Elements, NEW k \in 0 .. Len(s)
      PROVE  L!Changed(s, L!InsertAt(s, k + 1, e)) /\ L!Changed(s, L!SwappedIn(s, k + 1, e))
  <2>1. L!Changed(s, L!InsertAt(s, k + 1, e))
    <3> DEFINE t == L!InsertAt(s, k + 1, e)
    <3>1. Len(t) = Len(s) + 1 /\ t[k + 1] = e
      BY InsertItems
    <3>2. k + 1 \in 1 .. Len(t)
      BY <1>0, <3>1
    <3>3. t = L!InsertAt(s, k + 1, t[k + 1])
      BY <3>1
    <3> HIDE DEF t
    <3>4. L!Changed(s, t)
      BY <3>1, <3>2, <3>3 DEF L!Changed
    <3>5. QED
      BY <3>4 DEF t
  <2>2. L!Changed(s, L!SwappedIn(s, k + 1, e))
    <3> DEFINE t == L!SwappedIn(s, k + 1, e)
    <3>1. Len(t) = Len(s) + 1 /\ t[k + 1] = e
      <4>1. CASE k = Len(s)
        BY <1>0, <4>1 DEF L!SwappedIn
      <4>2. CASE k # Len(s)
        <5>1. k \in 0 .. Len(s) - 1
          BY <1>0, <4>2
        <5>2. QED
          BY <5>1, SwapInItems
      <4>3. QED
        BY <4>1, <4>2
    <3>2. k + 1 \in 1 .. Len(t)
      BY <1>0, <3>1
    <3>3. t = L!SwappedIn(s, k + 1, t[k + 1])
      BY <3>1
    <3> HIDE DEF t
    <3>4. L!Changed(s, t)
      BY <3>1, <3>2, <3>3 DEF L!Changed
    <3>5. QED
      BY <3>4 DEF t
  <2>3. QED
    BY <2>1, <2>2
<1>4. ASSUME NEW e \in Elements  PROVE L!Changed(s, Append(s, e))
  <2>1. L!SwappedIn(s, Len(s) + 1, e) = Append(s, e)
    BY <1>0 DEF L!SwappedIn
  <2>2. Len(s) \in 0 .. Len(s)
    BY <1>0
  <2>3. L!Changed(s, L!SwappedIn(s, Len(s) + 1, e))
    BY <1>3, <2>2
  <2>4. QED
    BY <2>1, <2>3
<1>5. \A u \in Literals : L!Changed(s, s \o u)
  BY DEF L!Changed
<1>6. ASSUME NEW e \in Elements, NEW n \in Nat, n > Len(s)
      PROVE  L!Changed(s, s \o [i \in 1 .. n - Len(s) |-> e])
  <2> DEFINE u == [i \in 1 .. n - Len(s) |-> e]
             t == s \o u
  <2>1. u \in Seq(Elements) /\ Len(u) = n - Len(s) /\ \A i \in 1 .. n - Len(s) : u[i] = e
    BY <1>0, <1>6
  <2> HIDE DEF u
  <2>2. Len(t) = n /\ t[n] = e
    BY <1>0, <1>6, <2>1
  <2> HIDE DEF t
  <2>3. L!Last(t) = e
    BY <2>2 DEF L!Last
  <2>4. t = s \o [i \in 1 .. Len(t) - Len(s) |-> L!Last(t)]
    BY <2>2, <2>3 DEF t, u
  <2>5. Len(t) > Len(s)
    BY <1>6, <2>2
  <2>6. L!Changed(s, t)
    BY <2>4, <2>5 DEF L!Changed
  <2>7. QED
    BY <2>6 DEF t, u
<1>7. QED
  BY <1>1, <1>2, <1>3, <1>4, <1>5, <1>6

Sound == ListInv' /\ L!Step(ListContents, ListContents', removed')

LEMMA BecomesIs ==
  ASSUME ListInv, NEW l \in Lists, NEW a, NEW t, Represents(a, t), Becomes(l, a)
  PROVE  ListInv' /\ ListContents' = [ListContents EXCEPT ![l] = t] /\ removed' = NoElement
  BY OneChanges DEF Becomes

LEMMA ContentsAre ==
  /\ ListContents = [k \in Lists |-> ListContents[k]]
  /\ \A k \in Lists : ListContents[k] = ContentsOf(k)
  BY DEF ListContents

LEMMA BecomesGiven ==
  ASSUME ListInv, NEW l \in Lists, NEW a, NEW t \in Literals \cup {<<>>}, Represents(a, t), Becomes(l, a)
  PROVE  Sound
  BY BecomesIs, ContentsAre, StepIs DEF Sound

LEMMA BecomesChanged ==
  ASSUME ListInv, NoContents \notin Seq(Elements), NEW l \in Lists, UsableList(l), NEW a, NEW t, Represents(a, t),
         L!Changed(ContentsOf(l), t), Becomes(l, a)
  PROVE  Sound
<1>1. NoContents \notin {ListContents[l], t}
  BY Fate, ContentsAre DEF Represents
<1>2. L!Changed(ListContents[l], t)
  BY ContentsAre
<1>3. QED
  BY <1>1, <1>2, BecomesIs, ContentsAre, StepIs DEF Sound

LEMMA BecomesCopy ==
  ASSUME ListInv, NoContents \notin Seq(Elements), NEW l \in Lists, NEW k \in Lists, UsableList(k), NEW a, NEW t,
         Represents(a, t), Becomes(l, a),
         t = ContentsOf(k) \/ (UsableList(l) /\ t = ContentsOf(l) \o ContentsOf(k))
  PROVE  Sound
<1>1. ListContents[k] # NoContents
  BY Fate, ContentsAre
<1>2. t = ListContents[k] \/ (ListContents[l] # NoContents /\ t = ListContents[l] \o ListContents[k])
  BY Fate, ContentsAre
<1>3. QED
  BY <1>1, <1>2, BecomesIs, ContentsAre, StepIs DEF Sound

-----------------------------------------------------------------------------
Apart == NullIsNoBuffer /\ NoContents \notin Seq(Elements)

LEMMA ListInitSound ==
  ASSUME ListInit  PROVE ListInv /\ ListContents = [l \in Lists |-> <<>>] /\ removed = NoElement
<1>1. lanes \in Lanes /\ lanes \in Nat /\ removed = NoElement
  BY LanesAssumption DEF ListInit
<1>2. Represents(EmptyList, <<>>) /\ ListItems(EmptyList) = <<>>
  BY <1>1, EmptyRepresents, RepresentedItems
<1>3. \A l \in Lists : lists[l] = EmptyList
  BY DEF ListInit
<1>4. lists = [l \in Lists |-> lists[l]]
  BY DEF ListInit
<1>5. ListInv
  BY <1>1, <1>2, <1>3, <1>4 DEF ListInv
<1>6. \A l \in Lists : ContentsOf(l) = <<>>
  BY <1>2, <1>3 DEF ContentsOf, UsableList, EmptyList
<1>7. QED
  BY <1>1, <1>5, <1>6 DEF ListContents

LEMMA ListDestroySound ==
  ASSUME Apart, ListInv, NEW l \in Lists, ListDestroy(l)  PROVE Sound
<1>1. lanes \in Nat
  BY Fate
<1>2. QED
  BY <1>1, EmptyRepresents, BecomesGiven DEF ListDestroy

LEMMA ListConstructSound ==
  ASSUME Apart, ListInv, NEW l \in Lists, ListConstruct(l)  PROVE Sound
<1>0. lanes \in Nat /\ NullIsNoBuffer /\ NoContents \notin Seq(Elements)
  BY Fate DEF Apart
<1>1. ASSUME NEW s \in Literals,
             \/ Becomes(l, InitList(s)) \/ Becomes(l, InitBufferCopy(s))
             \/ \E n \in Sizes : Becomes(l, WithCapacityList(n, s)) \/ Becomes(l, WithCapacityBufferCopy(n, s))
      PROVE  Sound
  <2>1. s \in Seq(Elements) /\ s \in Literals \cup {<<>>}
    BY LiteralsAssumption
  <2>2. Sizes \subseteq Nat /\ 0 \in Nat
    BY SizesAssumption
  <2>3. CASE Becomes(l, InitList(s)) \/ Becomes(l, InitBufferCopy(s))
    <3>1. Represents(InitList(s), s) /\ Represents(InitBufferCopy(s), s)
      BY <1>0, <2>1, <2>2, ConstructsRepresent
    <3>2. QED
      BY <2>1, <2>3, <3>1, BecomesGiven
  <2>4. ASSUME NEW n \in Sizes, Becomes(l, WithCapacityList(n, s)) \/ Becomes(l, WithCapacityBufferCopy(n, s))
        PROVE  Sound
    <3>1. Represents(WithCapacityList(n, s), s) /\ Represents(WithCapacityBufferCopy(n, s), s)
      BY <1>0, <2>1, <2>2, ConstructsRepresent
    <3>2. QED
      BY <2>1, <2>4, <3>1, BecomesGiven
  <2>5. QED
    BY <1>1, <2>3, <2>4
<1>2. ASSUME NEW n \in Sizes, Becomes(l, WithCapacity(n))  PROVE Sound
  <2>1. Represents(WithCapacity(n), <<>>)
    BY <1>0, ConstructsRepresent, SizesAssumption, LiteralsAssumption
  <2>2. QED
    BY <1>2, <2>1, BecomesGiven
<1>3. ASSUME NEW k \in Lists, UsableList(k),
             \/ Becomes(l, CopyOf(lists[k])) \/ Becomes(l, InitCopy(lists[k]))
             \/ \E n \in Sizes : Becomes(l, WithCapacityCopy(n, lists[k]))
      PROVE  Sound
  <2>1. Represents(lists[k], ContentsOf(k))
    BY <1>3, Fate
  <2>2. Represents(CopyOf(lists[k]), ContentsOf(k)) /\ InitCopy(lists[k]) = CopyOf(lists[k])
    BY <1>0, <2>1, CopyRepresents DEF InitCopy
  <2>3. \A n \in Sizes : Represents(WithCapacityCopy(n, lists[k]), ContentsOf(k))
    BY <1>0, <2>1, CapacityCopyRepresents, SizesAssumption
  <2>4. QED
    BY <1>0, <1>3, <2>2, <2>3, BecomesCopy
<1>4. QED
  BY <1>1, <1>2, <1>3 DEF ListConstruct

LEMMA ListCopyAssignSound ==
  ASSUME Apart, "self" \notin ListLax, ListInv, NEW l \in Lists, NEW k \in Lists, ListCopyAssign(l, k)
  PROVE  Sound
<1>1. UsableList(k) /\ l # k /\ Becomes(l, CopyOf(lists[k]))
  BY DEF ListCopyAssign
<1>2. lanes \in Nat /\ Represents(lists[k], ContentsOf(k))
  BY <1>1, Fate
<1>3. Represents(CopyOf(lists[k]), ContentsOf(k))
  BY <1>2, CopyRepresents DEF Apart
<1>4. QED
  BY <1>1, <1>3, BecomesCopy DEF Apart

LEMMA MovedSound ==
  ASSUME ListInv, NEW l \in Lists, NEW k \in Lists, l # k,
         lists' = [lists EXCEPT ![l] = lists[k], ![k] = WithoutData(@)], lanes' = lanes, removed' = NoElement
  PROVE  Sound
<1>1. ListInv'
  BY TwoChange
<1>2. PICK rest \in {<<>>, NoContents} : ListContents' = [ListContents EXCEPT ![l] = ListContents[k], ![k] = rest]
  BY TwoChange
<1>3. k \in Lists \ {l}
  OBVIOUS
<1>4. L!Step(ListContents, ListContents', removed')
  BY <1>2, <1>3, Zenon DEF L!Step
<1>5. QED
  BY <1>1, <1>4 DEF Sound

LEMMA ListMoveSound ==
  ASSUME "self" \notin ListLax, ListInv, NEW l \in Lists, NEW k \in Lists, ListMove(l, k)
  PROVE  Sound
  BY MovedSound DEF ListMove

LEMMA ListPushSound ==
  ASSUME Apart, ListInv, NEW l \in Lists, NEW e \in Elements, UsableList(l), Becomes(l, Push(lists[l], e))
  PROVE  Sound
<1>1. lanes \in Nat /\ Represents(lists[l], ContentsOf(l)) /\ ContentsOf(l) \in Seq(Elements)
  BY Fate
<1>2. Represents(Push(lists[l], e), Append(ContentsOf(l), e))
  BY <1>1, PushRepresents DEF Apart
<1>3. L!Changed(ContentsOf(l), Append(ContentsOf(l), e))
  BY <1>1, ChangedIs
<1>4. QED
  BY <1>2, <1>3, BecomesChanged DEF Apart

\* An index below the length is one of an element.
LEMMA IndexIs ==
  ASSUME ListInv, NEW l \in Lists, UsableList(l), NEW i \in Nat, i < lists[l].length
  PROVE  /\ lists[l].data # NoData /\ i \in 0 .. Len(ContentsOf(l)) - 1
         /\ AtIndex(lists[l], i) = ContentsOf(l)[i + 1] /\ AtIndex(lists[l], i) \in Elements
<1>1. PICK a, s : a = lists[l] /\ s = ContentsOf(l)
  OBVIOUS
<1>2. Represents(a, s) /\ i < a.length
  BY <1>1, Fate
<1>3. s \in Seq(Elements) /\ Len(s) \in Nat /\ a.length = Len(s) /\ a.capacity \in Nat /\ Len(s) <= a.capacity
  BY <1>2 DEF Represents
<1>4. a.data # NoData
  BY <1>2, <1>3 DEF Represents
<1>5. a.data[i] = ItemAt(s, i)
  <2>1. i \in 0 .. a.capacity - 1
    BY <1>2, <1>3
  <2>2. QED
    BY <1>2, <1>4, <2>1, BufferOf
<1>6. ItemAt(s, i) = s[i + 1] /\ s[i + 1] \in Elements /\ i \in 0 .. Len(s) - 1
  BY <1>2, <1>3 DEF ItemAt
<1>7. QED
  BY <1>1, <1>4, <1>5, <1>6 DEF AtIndex

LEMMA ListPushOwnSound ==
  ASSUME Apart, "ownElement" \notin ListLax, ListInv, NEW l \in Lists, NEW i \in Nat, ListPushOwn(l, i)
  PROVE  Sound
<1>1. /\ UsableList(l) /\ i < lists[l].length
      /\ Becomes(l, Push(lists[l], AtIndex(lists[l], i)))
  BY DEF ListPushOwn
<1>2. AtIndex(lists[l], i) \in Elements
  BY <1>1, IndexIs
<1>3. QED
  BY <1>1, <1>2, ListPushSound

LEMMA LengthIs ==
  ASSUME ListInv, NEW l \in Lists, UsableList(l)
  PROVE  lists[l].length = Len(ContentsOf(l)) /\ lists[l].length \in Nat /\ lists[l].capacity \in Nat
  BY Fate DEF Represents

LEMMA ListInsertSound ==
  ASSUME Apart, ListInv, NEW l \in Lists, NEW i \in Nat, NEW e \in Elements, ListInsert(l, i, e)
  PROVE  Sound
<1>1. UsableList(l) /\ i <= lists[l].length
  BY DEF ListInsert
<1>2. lanes \in Nat /\ Represents(lists[l], ContentsOf(l)) /\ ContentsOf(l) \in Seq(Elements)
      /\ i \in 0 .. Len(ContentsOf(l))
  BY <1>1, Fate, LengthIs
<1>3. /\ Represents(Insert(lists[l], i, e), L!InsertAt(ContentsOf(l), i + 1, e))
      /\ Represents(InsertSwap(lists[l], i, e), L!SwappedIn(ContentsOf(l), i + 1, e))
  BY <1>2, InsertRepresents, InsertSwapRepresents DEF Apart
<1>4. /\ L!Changed(ContentsOf(l), L!InsertAt(ContentsOf(l), i + 1, e))
      /\ L!Changed(ContentsOf(l), L!SwappedIn(ContentsOf(l), i + 1, e))
  BY <1>2, ChangedIs
<1>5. QED
  BY <1>1, <1>3, <1>4, BecomesChanged DEF ListInsert, Apart

LEMMA ListRemoveSound ==
  ASSUME Apart, ListInv, NEW l \in Lists, NEW i \in Nat, ListRemove(l, i)
  PROVE  Sound
<1> DEFINE s == ContentsOf(l)
<1>1. UsableList(l) /\ i < lists[l].length
  BY DEF ListRemove
<1>2. /\ Represents(lists[l], s) /\ lists[l].data # NoData /\ i \in 0 .. Len(s) - 1
      /\ AtIndex(lists[l], i) = s[i + 1] /\ s # NoContents /\ s \in Seq(Elements)
  BY <1>1, Fate, IndexIs DEF Apart
<1> HIDE DEF s
<1>3. /\ Represents(Remove(lists[l], i), L!RemoveAt(s, i + 1))
      /\ Represents(RemoveSwap(lists[l], i), L!Swapped(s, i + 1))
  BY <1>2, RemoveRepresents, RemoveSwapRepresents DEF Apart
<1>4. PICK a \in {Remove(lists[l], i), RemoveSwap(lists[l], i)} : lists' = [lists EXCEPT ![l] = a]
  BY DEF ListRemove
<1>5. PICK t \in {L!RemoveAt(s, i + 1), L!Swapped(s, i + 1)} : Represents(a, t)
  BY <1>3, <1>4
<1>6. removed' = s[i + 1] /\ lanes' = lanes
  BY <1>2 DEF ListRemove
<1>7. i + 1 \in 1 .. Len(s)
  BY <1>2
<1>8. L!Removal(s, t, removed')
  BY <1>5, <1>6, <1>7 DEF L!Removal
<1>9. ListInv' /\ ListContents' = [ListContents EXCEPT ![l] = t]
  BY <1>4, <1>5, <1>6, OneChanges
<1>10. ListContents[l] = s
  BY ContentsAre DEF s
<1>11. L!Step(ListContents, ListContents', removed')
  BY <1>2, <1>8, <1>9, <1>10, ContentsAre, StepIs
<1>12. QED
  BY <1>9, <1>11 DEF Sound

LEMMA UnchangedContents ==
  ASSUME Apart, ListInv, NEW l \in Lists, UsableList(l), NEW a, Represents(a, ContentsOf(l)), Becomes(l, a)
  PROVE  Sound
<1>1. L!Changed(ContentsOf(l), ContentsOf(l))
  BY Fate, ChangedIs
<1>2. QED
  BY <1>1, BecomesChanged DEF Apart

LEMMA ListReserveSound ==
  ASSUME Apart, ListInv, NEW l \in Lists, NEW n \in Sizes, ListReserve(l, n)
  PROVE  Sound
<1>1. UsableList(l) /\ lanes \in Nat /\ Represents(lists[l], ContentsOf(l)) /\ n \in Nat
  BY Fate, SizesAssumption DEF ListReserve
<1>2. Represents(Reserve(lists[l], n), ContentsOf(l)) /\ Represents(ReserveExact(lists[l], n), ContentsOf(l))
  BY <1>1, CapacityRepresents DEF Apart
<1>3. QED
  BY <1>1, <1>2, UnchangedContents DEF ListReserve

LEMMA ListShrinkSound ==
  ASSUME Apart, ListInv, NEW l \in Lists, ListShrink(l)
  PROVE  Sound
<1>1. UsableList(l) /\ lanes \in Nat /\ Represents(lists[l], ContentsOf(l)) /\ NullIsNoBuffer
  BY Fate DEF ListShrink, Apart
<1>2. ASSUME Allocates(lists[l].length), Becomes(l, ShrinkToFit(lists[l]))  PROVE Sound
  <2>1. Represents(ShrinkToFit(lists[l]), ContentsOf(l))
    BY <1>1, <1>2, CapacityRepresents
  <2>2. QED
    BY <1>1, <1>2, <2>1, UnchangedContents
<1>3. ASSUME NEW n \in Sizes, Allocates(Larger(n, lists[l].length)), Becomes(l, ShrinkTo(lists[l], n))
      PROVE  Sound
  <2>1. n \in Nat
    BY SizesAssumption
  <2>2. Represents(ShrinkTo(lists[l], n), ContentsOf(l))
    BY <1>1, <1>3, <2>1, CapacityRepresents
  <2>3. QED
    BY <1>1, <1>3, <2>2, UnchangedContents
<1>4. QED
  BY <1>2, <1>3 DEF ListShrink

LEMMA ListTruncateSound ==
  ASSUME Apart, ListInv, NEW l \in Lists, NEW n \in Sizes, ListTruncate(l, n)
  PROVE  Sound
<1> DEFINE s == ContentsOf(l)
<1>1. UsableList(l) /\ Represents(lists[l], s) /\ s \in Seq(Elements) /\ n \in Nat /\ Len(s) \in Nat
      /\ Becomes(l, Truncate(lists[l], n))
  BY Fate, SizesAssumption DEF ListTruncate
<1>2. CASE n >= Len(s)
  <2>1. Truncate(lists[l], n) = lists[l]
    BY <1>1, <1>2, TruncateRepresents DEF Apart
  <2>2. QED
    BY <1>1, <2>1, UnchangedContents
<1>3. CASE n < Len(s)
  <2>1. Represents(Truncate(lists[l], n), L!Prefix(s, n))
    BY <1>1, <1>3, TruncateRepresents DEF Apart
  <2>2. L!Changed(s, L!Prefix(s, n))
    BY <1>1, <1>3, ChangedIs
  <2>3. QED
    BY <1>1, <2>1, <2>2, BecomesChanged DEF Apart
<1>4. QED
  BY <1>1, <1>2, <1>3

\* What appendList and appendCopy leave holds both.
LEMMA AppendHolds ==
  ASSUME Apart, ListInv, NEW l \in Lists, NEW u \in Seq(Elements), ListAppend(l, u)
  PROVE  UsableList(l) /\ Represents(Appended(lists[l], u), ContentsOf(l) \o u) /\ Becomes(l, Appended(lists[l], u))
<1> DEFINE s == ContentsOf(l)
<1>1. UsableList(l) /\ Becomes(l, Appended(lists[l], u))
      /\ (lists[l].length + Len(u) + lists[l].capacity = 0 => Allocates(0))
  BY DEF ListAppend
<1>2. lanes \in Nat /\ Represents(lists[l], s) /\ lists[l].length = Len(s)
  BY <1>1, Fate, LengthIs
<1>3. Len(s) + Len(u) <= MaxLength
  BY <1>1, <1>2, AppendedLength DEF Becomes
<1> HIDE DEF s
<1>4. Represents(Appended(lists[l], u), s \o u)
  BY <1>1, <1>2, <1>3, AppendedRepresents DEF Apart
<1>5. QED
  BY <1>1, <1>4 DEF s

LEMMA ListAppendSound ==
  ASSUME Apart, ListInv, NEW l \in Lists, NEW u \in Literals, ListAppend(l, u)
  PROVE  Sound
<1>1. u \in Seq(Elements)
  BY LiteralsAssumption
<1>2. UsableList(l) /\ Represents(Appended(lists[l], u), ContentsOf(l) \o u) /\ Becomes(l, Appended(lists[l], u))
  BY <1>1, AppendHolds
<1>3. L!Changed(ContentsOf(l), ContentsOf(l) \o u)
  BY <1>2, Fate, ChangedIs
<1>4. QED
  BY <1>2, <1>3, BecomesChanged DEF Apart

LEMMA ListAppendCopySound ==
  ASSUME Apart, ListInv, NEW l \in Lists, NEW k \in Lists, ListAppendCopy(l, k)
  PROVE  Sound
<1>1. UsableList(k) /\ ListAppend(l, ContentsOf(k)) /\ ContentsOf(k) \in Seq(Elements)
  BY Fate DEF ListAppendCopy
<1>2. /\ UsableList(l) /\ Becomes(l, Appended(lists[l], ContentsOf(k)))
      /\ Represents(Appended(lists[l], ContentsOf(k)), ContentsOf(l) \o ContentsOf(k))
  BY <1>1, AppendHolds
<1>3. QED
  BY <1>1, <1>2, BecomesCopy DEF Apart

LEMMA ListResizeSound ==
  ASSUME Apart, ListInv, NEW l \in Lists, NEW n \in 0 .. MaxLength, NEW e \in Elements, ListResize(l, n, e)
  PROVE  Sound
<1> DEFINE s == ContentsOf(l)
           a == Resize(lists[l], n, e)
<1>1. UsableList(l) /\ lanes \in Nat /\ Represents(lists[l], s) /\ s \in Seq(Elements) /\ Len(s) \in Nat
      /\ n \in Nat /\ Becomes(l, a)
  BY Fate, SizesAssumption DEF ListResize
<1>2. /\ n = Len(s) => a = lists[l]
      /\ n < Len(s) => Represents(a, L!Prefix(s, n))
      /\ n > Len(s) => Represents(a, s \o [i \in 1 .. n - Len(s) |-> e])
  BY <1>1, ResizeRepresents DEF Apart
<1> HIDE DEF a
<1>3. CASE n = Len(s)
  BY <1>1, <1>2, <1>3, UnchangedContents
<1>4. CASE n < Len(s)
  <2>1. L!Changed(s, L!Prefix(s, n))
    BY <1>1, <1>4, ChangedIs
  <2>2. QED
    BY <1>1, <1>2, <1>4, <2>1, BecomesChanged DEF Apart
<1>5. CASE n > Len(s)
  <2>1. L!Changed(s, s \o [i \in 1 .. n - Len(s) |-> e])
    BY <1>1, <1>5, ChangedIs
  <2>2. QED
    BY <1>1, <1>2, <1>5, <2>1, BecomesChanged DEF Apart
<1>6. QED
  BY <1>1, <1>3, <1>4, <1>5

LEMMA ListNextSound ==
  ASSUME Apart, "self" \notin ListLax, "ownElement" \notin ListLax, ListInv, ListNext
  PROVE  Sound
<1>1. PICK l \in Lists :
        \/ ListDestroy(l)
        \/ ListConstruct(l)
        \/ \E k \in Lists : ListCopyAssign(l, k) \/ ListMove(l, k) \/ ListAppendCopy(l, k)
        \/ \E e \in Elements : ListPush(l, e)
        \/ \E i \in 0 .. MaxLength : ListPushOwn(l, i) \/ ListRemove(l, i)
        \/ \E i \in 0 .. MaxLength, e \in Elements : ListInsert(l, i, e)
        \/ \E n \in Sizes : ListReserve(l, n) \/ ListTruncate(l, n)
        \/ ListShrink(l)
        \/ \E s \in Literals : ListAppend(l, s)
        \/ \E n \in 0 .. MaxLength, e \in Elements : ListResize(l, n, e)
  BY DEF ListNext
<1>2. 0 .. MaxLength \subseteq Nat
  BY SizesAssumption
<1>3. CASE ListDestroy(l)
  BY <1>3, ListDestroySound
<1>4. CASE ListConstruct(l)
  BY <1>4, ListConstructSound
<1>5. ASSUME NEW k \in Lists, ListCopyAssign(l, k) \/ ListMove(l, k) \/ ListAppendCopy(l, k)  PROVE Sound
  BY <1>5, ListCopyAssignSound, ListMoveSound, ListAppendCopySound
<1>6. ASSUME NEW e \in Elements, ListPush(l, e)  PROVE Sound
  BY <1>6, ListPushSound DEF ListPush
<1>7. ASSUME NEW i \in 0 .. MaxLength, ListPushOwn(l, i) \/ ListRemove(l, i)  PROVE Sound
  BY <1>2, <1>7, ListPushOwnSound, ListRemoveSound
<1>8. ASSUME NEW i \in 0 .. MaxLength, NEW e \in Elements, ListInsert(l, i, e)  PROVE Sound
  BY <1>2, <1>8, ListInsertSound
<1>9. ASSUME NEW n \in Sizes, ListReserve(l, n) \/ ListTruncate(l, n)  PROVE Sound
  BY <1>9, ListReserveSound, ListTruncateSound
<1>10. CASE ListShrink(l)
  BY <1>10, ListShrinkSound
<1>11. ASSUME NEW s \in Literals, ListAppend(l, s)  PROVE Sound
  BY <1>11, ListAppendSound
<1>12. ASSUME NEW n \in 0 .. MaxLength, NEW e \in Elements, ListResize(l, n, e)  PROVE Sound
  BY <1>12, ListResizeSound
<1>13. QED
  BY <1>1, <1>3, <1>4, <1>5, <1>6, <1>7, <1>8, <1>9, <1>10, <1>11, <1>12

-----------------------------------------------------------------------------
(* Lookups *)

LEMMA LowestIs ==
  ASSUME NEW S \in SUBSET Nat, NEW n
  PROVE  /\ S = {} => LowestOf(S, n) = n
         /\ S # {} => LowestOf(S, n) \in S /\ \A j \in S : LowestOf(S, n) <= j
<1>1. CASE S = {}
  BY <1>1 DEF LowestOf
<1>2. CASE S # {}
  <2> DEFINE R == {p \in Nat \X Nat : p[1] < p[2]}
  <2>1. IsWellFoundedOn(R, Nat)
    BY NatLessThanWellFounded DEF OpToRel
  <2>2. PICK x \in S : \A y \in S : ~(<<y, x>> \in R)
    BY <1>2, <2>1, WFMin
  <2>3. \A y \in S : x <= y
    <3>1. TAKE y \in S
    <3>2. <<y, x>> \notin R /\ y \in Nat /\ x \in Nat
      BY <2>2
    <3>3. QED
      BY <3>2
  <2>4. \E i \in S : \A j \in S : i <= j
    BY <2>3
  <2>5. QED
    BY <1>2, <2>4 DEF LowestOf
<1>3. QED
  BY <1>1, <1>2

LEMMA ScalarIs ==
  ASSUME NEW a, a.length \in Nat, NEW e
  PROVE  /\ FindScalar(a, e) \in 0 .. a.length
         /\ \A i \in 0 .. a.length - 1 : a.data[i] = e => FindScalar(a, e) <= i
         /\ FindScalar(a, e) < a.length => a.data[FindScalar(a, e)] = e
<1> DEFINE S == {i \in 0 .. a.length - 1 : a.data[i] = e}
<1>1. FindScalar(a, e) = LowestOf(S, a.length)
  BY DEF FindScalar
<1>2. S \in SUBSET Nat
  OBVIOUS
<1>3. \A i \in 0 .. a.length - 1 : i \in S <=> a.data[i] = e
  OBVIOUS
<1>4. S \subseteq 0 .. a.length - 1
  OBVIOUS
<1> HIDE DEF S
<1>5. CASE S = {}
  BY <1>1, <1>2, <1>3, <1>5, LowestIs
<1>6. CASE S # {}
  <2>1. PICK m \in S : m = FindScalar(a, e) /\ \A j \in S : m <= j
    BY <1>1, <1>2, <1>6, LowestIs
  <2>2. m \in 0 .. a.length - 1 /\ m \in 0 .. a.length /\ a.data[m] = e
    BY <1>3, <1>4, <2>1
  <2>3. \A i \in 0 .. a.length - 1 : a.data[i] = e => m <= i
    BY <1>3, <2>1
  <2>4. QED
    BY <2>1, <2>2, <2>3
<1>7. QED
  BY <1>5, <1>6

\* The vectors that are compared end at the length, or at the first multiple
\* of their width behind it.
LEMMA VectorsIs ==
  ASSUME NEW n \in Nat, NEW w \in Nat \ {0}
  PROVE  /\ RoundedTo(n, w) \in Nat /\ RoundedTo(n, w) >= n
         /\ n <= w => RoundedTo(n, w) <= w
         /\ n % w = 0 => RoundedTo(n, w) = n
<1>1. RoundedTo(n, w) \in Nat /\ RoundedTo(n, w) >= n
  BY RoundedToIs
<1>2. n % w = 0 => RoundedTo(n, w) = n
  BY DEF RoundedTo
<1>3. ASSUME n <= w  PROVE RoundedTo(n, w) <= w
  <2>1. CASE n = w
    <3>1. n % w = 0
      <4>1. (w * 1) % w = 0
        OBVIOUS
      <4>2. QED
        BY <2>1, <4>1
    <3>2. QED
      BY <1>2, <2>1, <3>1
  <2>2. CASE n < w
    <3>1. n % w = n
      BY <2>2
    <3>2. QED
      BY <2>2, <3>1 DEF RoundedTo
  <2>3. QED
    BY <1>3, <2>1, <2>2
<1>4. QED
  BY <1>1, <1>2, <1>3

LEMMA SimdIs ==
  ASSUME NEW a, a.length \in Nat, NEW e, NEW width \in Nat \ {0},
         NEW stale \in a.length .. RoundedTo(a.length, width),
         FindScalar(a, e) < a.length \/ a.length <= width \/ a.length % width = 0
  PROVE  FindSimd(a, e, width, stale) = FindScalar(a, e)
<1> DEFINE n == a.length
           R == RoundedTo(n, width)
           M == {i \in 0 .. n - 1 : a.data[i] = e}
           Equal(i) == IF i < n THEN a.data[i] = e ELSE i = stale
           S == {i \in 0 .. R - 1 : Equal(i)}
           first == LowestOf(S, n)
<1>1. n \in Nat /\ R \in Nat /\ R >= n /\ (n <= width => R <= width) /\ (n % width = 0 => R = n)
  BY VectorsIs
<1>2. FindSimd(a, e, width, stale) = IF first % width >= n THEN n ELSE first
  BY DEF FindSimd
<1>3. FindScalar(a, e) = LowestOf(M, n)
  BY DEF FindScalar
<1>4. /\ FindScalar(a, e) \in 0 .. n
      /\ \A i \in 0 .. n - 1 : a.data[i] = e => FindScalar(a, e) <= i
      /\ FindScalar(a, e) < n => a.data[FindScalar(a, e)] = e
  BY ScalarIs
<1>5. S \in SUBSET Nat
  BY <1>1
<1>6. \A i \in 0 .. R - 1 : i \in S <=> IF i < n THEN a.data[i] = e ELSE i = stale
  OBVIOUS
<1>7. S \subseteq 0 .. R - 1
  OBVIOUS
<1>8. stale \in n .. R
  OBVIOUS
<1>9. FindScalar(a, e) < n \/ n <= width \/ n % width = 0
  OBVIOUS
<1> DEFINE f == FindScalar(a, e)
<1> HIDE DEF S, R, M, n, f
<1>10. S = {} => first = n
  BY <1>5, LowestIs
<1>11. S # {} => first \in S /\ \A j \in S : first <= j
  BY <1>5, LowestIs
<1> HIDE DEF first
<1>12. CASE f < n
  <2>1. f \in S
    BY <1>1, <1>4, <1>6, <1>12 DEF f
  <2>2. first \in S /\ first <= f /\ first \in Nat
    BY <1>5, <1>11, <2>1
  <2>3. first < n
    BY <1>1, <1>4, <1>12, <2>2 DEF f
  <2>4. a.data[first] = e /\ first \in 0 .. n - 1
    BY <1>1, <1>6, <1>7, <2>2, <2>3
  <2>5. f <= first
    BY <1>4, <2>4 DEF f
  <2>6. first = f
    BY <1>4, <2>2, <2>5 DEF f
  <2>7. first % width \in Nat /\ first % width <= first
    <3>1. CASE first < width
      BY <2>2, <3>1
    <3>2. CASE first >= width
      <4>1. first % width \in 0 .. width - 1
        BY <2>2
      <4>2. QED
        BY <2>2, <3>2, <4>1
    <3>3. QED
      BY <2>2, <3>1, <3>2
  <2>8. ~(first % width >= n)
    <3>1. PICK k \in Nat : k = first % width
      BY <2>7
    <3>2. k <= first
      BY <2>7, <3>1
    <3>3. ~(k >= n)
      BY <1>1, <2>2, <2>3, <3>2
    <3>4. QED
      BY <3>1, <3>3
  <2>9. QED
    BY <1>2, <2>6, <2>8 DEF f
<1>13. CASE ~(f < n)
  <2>1. f = n
    BY <1>1, <1>4, <1>13 DEF f
  <2>2. \A i \in S : i = stale
    <3>1. ASSUME NEW i \in S, i < n  PROVE FALSE
      <4>1. i \in 0 .. n - 1 /\ a.data[i] = e
        BY <1>1, <1>5, <1>6, <1>7, <3>1
      <4>2. f <= i
        BY <1>4, <4>1 DEF f
      <4>3. QED
        BY <1>1, <2>1, <3>1, <4>1, <4>2
    <3>2. QED
      BY <1>6, <1>7, <3>1
  <2>3. CASE S = {}
    BY <1>2, <1>10, <2>1, <2>3, Zenon DEF f
  <2>4. CASE S # {}
    <3>1. first \in S /\ first = stale
      BY <1>11, <2>2, <2>4
    <3>2. first \in 0 .. R - 1 /\ first >= n
      BY <1>1, <1>7, <1>8, <3>1
    <3>3. n <= width /\ R <= width
      BY <1>1, <1>9, <2>1, <3>2 DEF f
    <3>4. first \in Nat /\ first < width
      BY <1>1, <3>2, <3>3
    <3>5. first % width = first
      BY <3>4
    <3>6. first % width >= n
      BY <3>2, <3>5, Zenon
    <3>7. QED
      BY <1>2, <2>1, <3>6 DEF f
  <2>5. QED
    BY <2>3, <2>4
<1>14. QED
  BY <1>12, <1>13

LEMMA InvLookups ==
  ASSUME ListInv  PROVE ListLookups
<1> SUFFICES ASSUME NEW l \in Lists, UsableList(l)
    PROVE  LET a == lists[l] IN
           /\ \A e \in Elements :
                /\ \A i \in 0 .. a.length - 1 : a.data[i] = e => FindScalar(a, e) <= i
                /\ FindScalar(a, e) < a.length => a.data[FindScalar(a, e)] = e
                /\ lanes > 0 => \A width \in Widths :
                     \A stale \in a.length .. RoundedTo(a.length, width) :
                       FindScalar(a, e) < a.length \/ a.length <= width \/ a.length % width = 0 =>
                         FindSimd(a, e, width, stale) = FindScalar(a, e)
           /\ \A k \in 1 .. a.length : Forward(a)[k] = Backward(a)[a.length + 1 - k]
  BY DEF ListLookups
<1>1. PICK a : a = lists[l]
  OBVIOUS
<1>2. a.length \in Nat
  BY <1>1, LengthIs
<1>3. ASSUME lanes > 0, NEW width \in Widths  PROVE width \in Nat \ {0}
  <2>1. lanes \in Nat /\ lanes % 2 = 0
    BY LanesAssumption DEF ListInv
  <2>2. lanes = 2 * (lanes \div 2) + (lanes % 2) /\ lanes \div 2 \in Nat
    BY <2>1
  <2>3. lanes \div 2 # 0
    BY <1>3, <2>1, <2>2
  <2>4. QED
    BY <1>3, <2>1, <2>2, <2>3 DEF Widths
<1>4. ASSUME NEW k \in 1 .. a.length  PROVE Forward(a)[k] = Backward(a)[a.length + 1 - k]
  <2>1. a.length + 1 - k \in 1 .. a.length /\ a.length - ((a.length + 1 - k) - 1) = k
    BY <1>2
  <2>2. Forward(a)[k] = a.data[k - 1]
    BY <1>2 DEF Forward, Pointed
  <2>3. Backward(a)[a.length + 1 - k] = a.data[k - 1]
    BY <1>2, <2>1 DEF Backward, PointedReverse
  <2>4. QED
    BY <2>2, <2>3
<1>5. ASSUME NEW e \in Elements
      PROVE  /\ \A i \in 0 .. a.length - 1 : a.data[i] = e => FindScalar(a, e) <= i
             /\ FindScalar(a, e) < a.length => a.data[FindScalar(a, e)] = e
  BY <1>2, ScalarIs
<1>6. ASSUME NEW e \in Elements, lanes > 0, NEW width \in Widths,
             NEW stale \in a.length .. RoundedTo(a.length, width),
             FindScalar(a, e) < a.length \/ a.length <= width \/ a.length % width = 0
      PROVE  FindSimd(a, e, width, stale) = FindScalar(a, e)
  <2>1. width \in Nat \ {0}
    BY <1>3, <1>6
  <2>2. QED
    BY <1>2, <1>6, <2>1, SimdIs
<1>7. QED
  BY <1>1, <1>4, <1>5, <1>6, Zenon

LEMMA InvSlots ==
  ASSUME ListInv  PROVE SlotsOwned
<1> SUFFICES ASSUME NEW l \in Lists, lists[l].data # NoData
    PROVE  LET a == lists[l] IN
           /\ DOMAIN a.data = 0 .. a.capacity - 1
           /\ a.length <= a.capacity
           /\ a.capacity = RoundedUp(a.capacity)
           /\ \A i \in DOMAIN a.data : a.data[i] # NoElement <=> i < a.length
  BY DEF SlotsOwned
<1>1. PICK a, s : a = lists[l] /\ s = ContentsOf(l)
  OBVIOUS
<1>2. Represents(a, s) /\ a.data # NoData
  BY <1>1, Fate DEF UsableList
<1>3. /\ s \in Seq(Elements) /\ a.length = Len(s) /\ a.capacity \in Nat
      /\ a.capacity = RoundedUp(a.capacity) /\ a.length <= a.capacity
  BY <1>2 DEF Represents
<1>4. DOMAIN a.data = 0 .. a.capacity - 1 /\ \A i \in 0 .. a.capacity - 1 : a.data[i] = ItemAt(s, i)
  BY <1>2, BufferOf
<1>5. \A i \in 0 .. a.capacity - 1 : ItemAt(s, i) # NoElement <=> i < a.length
  BY <1>3, NoElementAssumption DEF ItemAt
<1>6. QED
  BY <1>1, <1>3, <1>4, <1>5

-----------------------------------------------------------------------------
(* Theorems *)

LEMMA StutterSound ==
  ASSUME ListInv, UNCHANGED listVars
  PROVE  ListInv' /\ ListContents' = ListContents /\ removed' = removed
  BY NothingChanges DEF listVars

LEMMA SoundIsNext ==
  ASSUME Sound  PROVE [L!Next]_(L!listingVars)
<1>1. L!Step(ListContents, ListContents', removed')
  BY DEF Sound
<1>2. L!Next
  BY <1>1 DEF L!Next, ListContents
<1>3. QED
  BY <1>2

\* What every list stands for is a sequence in its slots: its buffer has the capacity it says, full
\* slots first, whatever reserve, insert, remove, append, resize, copy and move came before; a list
\* that was moved from has given its buffer up and kept its capacity.
THEOREM ListsStandForSequences ==
  ASSUME Apart, "self" \notin ListLax, "ownElement" \notin ListLax
  PROVE  ListSpec => []ListInv
<1>1. ListInit => ListInv
  BY ListInitSound
<1>2. ListInv /\ [ListNext]_listVars => ListInv'
  BY ListNextSound, StutterSound DEF Sound
<1>3. QED
  BY <1>1, <1>2, PTL DEF ListSpec

\* Every slot of a list up to its capacity is in a buffer the list owns, and those behind its length
\* are empty: no element is lost in them, and none is destroyed twice.
THEOREM SlotsAreOwned ==
  ASSUME Apart, "self" \notin ListLax, "ownElement" \notin ListLax
  PROVE  ListSpec => []SlotsOwned
<1>1. ListInv => SlotsOwned
  BY InvSlots
<1>2. QED
  BY <1>1, ListsStandForSequences, PTL

\* find has the first of the equal elements, or none; by vectors of any width it has the same, but
\* for an element that is not there when the last of several vectors is not full.  A loop in either
\* direction has every element in order.
THEOREM LookupsAreRight ==
  ASSUME Apart, "self" \notin ListLax, "ownElement" \notin ListLax
  PROVE  ListSpec => []ListLookups
<1>1. ListInv => ListLookups
  BY InvLookups
<1>2. QED
  BY <1>1, ListsStandForSequences, PTL

\* ArrayList implements Listing: to its clients it is a sequence, in which every call does what it
\* says, and growing and shrinking the buffer shows nowhere.
THEOREM ListsAreSequences ==
  ASSUME Apart, "self" \notin ListLax, "ownElement" \notin ListLax
  PROVE  ListSpec => ListSequenceSpec
<1>1. ListInit => L!Init
  BY ListInitSound DEF L!Init, ListContents
<1>2. ListInv /\ [ListNext]_listVars => [L!Next]_(L!listingVars)
  <2>1. ASSUME ListInv, ListNext  PROVE [L!Next]_(L!listingVars)
    BY <2>1, ListNextSound, SoundIsNext
  <2>2. ASSUME ListInv, UNCHANGED listVars  PROVE [L!Next]_(L!listingVars)
    BY <2>2, StutterSound DEF L!listingVars, ListContents
  <2>3. QED
    BY <2>1, <2>2
<1>3. QED
  BY <1>1, <1>2, ListsStandForSequences, PTL DEF ListSpec, ListSequenceSpec, L!Spec

-----------------------------------------------------------------------------
(* ArrayListUnmanaged *)

LEMMA OneGivenUp ==
  ASSUME ListInv, NEW l \in Lists, NEW a, GivenUp(a),
         lists' = [lists EXCEPT ![l] = a], lanes' = lanes
  PROVE  ListInv' /\ ListContents' = [ListContents EXCEPT ![l] = NoContents]
<1>1. lists = [k \in Lists |-> lists[k]]
  BY DEF ListInv
<1>2. lists' = [k \in Lists |-> lists'[k]] /\ lists'[l] = a
      /\ \A k \in Lists \ {l} : lists'[k] = lists[k]
  BY <1>1
<1>3. ~UsableList(l)'
  BY <1>2 DEF UsableList, GivenUp
<1>4. ContentsOf(l)' = NoContents
  BY <1>3 DEF ContentsOf
<1>5. GivenUp(lists[l])'
  BY <1>2
<1>6. ASSUME NEW k \in Lists \ {l}
      PROVE  /\ Represents(lists[k], ListItems(lists[k]))' \/ GivenUp(lists[k])'
             /\ ContentsOf(k)' = ContentsOf(k)
  <2>1. PICK b, s : b = lists[k] /\ s = ListItems(lists[k])
    OBVIOUS
  <2>2. b = lists'[k] /\ s = ListItems(lists[k])'
    BY <1>2, <2>1 DEF ListItems
  <2>3. GivenUp(lists[k]) => GivenUp(lists[k])'
    BY <1>2 DEF GivenUp, ListRecord
  <2>4. Represents(b, s) => Represents(b, s)'
    BY Kept
  <2>5. ContentsOf(k)' = ContentsOf(k)
    BY <1>2 DEF ContentsOf, UsableList, ListItems
  <2>6. QED
    BY <2>1, <2>2, <2>3, <2>4, <2>5 DEF ListInv
<1>7. ListInv'
  BY <1>2, <1>5, <1>6 DEF ListInv
<1>8. ListContents' = [ListContents EXCEPT ![l] = NoContents]
  BY <1>4, <1>6 DEF ListContents
<1>9. QED
  BY <1>7, <1>8

LEMMA UnchangedStep ==
  ASSUME NEW c, NEW r, r \in {NoElement, Refused}  PROVE L!Step(c, c, r)
  BY DEF L!Step

LEMMA RefusesSound ==
  ASSUME ListInv, Refuses  PROVE Sound
<1>1. ListInv' /\ ListContents' = ListContents /\ removed' = Refused
  BY NothingChanges DEF Refuses
<1>2. QED
  BY <1>1, UnchangedStep DEF Sound

LEMMA DeinitSound ==
  ASSUME Apart, "emptyAlloc" \notin ListLax, ListInv, NEW l \in Lists, Deinit(l)
  PROVE  Sound
<1>1. PICK a : a = lists[l] /\ ListRecord(a)
  BY Fate
<1>2. lists = [k \in Lists |-> lists[k]]
  BY DEF ListInv
<1>3. lists' = [lists EXCEPT ![l] = WithoutData(a)] /\ lanes' = lanes
  BY <1>1 DEF Deinit, Freed
<1>4. WithoutData(a) = [data |-> NoData, length |-> a.length, capacity |-> a.capacity]
  BY <1>1 DEF ListRecord, WithoutData
<1>5. CASE a.data = NoData
  <2>1. WithoutData(a) = a
    BY <1>1, <1>4, <1>5 DEF ListRecord
  <2>2. lists' = lists /\ removed' = NoElement
    BY <1>1, <1>2, <1>3, <1>5, <2>1 DEF Deinit
  <2>3. ListInv' /\ ListContents' = ListContents
    BY <1>3, <2>2, NothingChanges
  <2>4. QED
    BY <2>2, <2>3, UnchangedStep DEF Sound
<1>6. CASE a.data # NoData
  <2>1. UsableList(l)
    BY <1>1, <1>6 DEF UsableList
  <2>2. Represents(a, ContentsOf(l)) /\ ContentsOf(l) # NoContents
    BY <1>1, <2>1, Fate DEF Apart
  <2>3. a.capacity # 0
    BY <1>6, <2>2 DEF Represents, Allocates
  <2>4. GivenUp(WithoutData(a))
    BY <1>4, <2>3 DEF GivenUp, ListRecord
  <2>5. ListInv' /\ ListContents' = [ListContents EXCEPT ![l] = NoContents]
    BY <1>3, <2>4, OneGivenUp
  <2>6. removed' = NoContents
    BY <1>1, <1>6 DEF Deinit
  <2>7. L!Step(ListContents, ListContents', removed')
    BY <2>2, <2>5, <2>6, ContentsAre, StepIs
  <2>8. QED
    BY <2>5, <2>7 DEF Sound
<1>7. QED
  BY <1>5, <1>6

LEMMA UnmanagedDestroySound ==
  ASSUME Apart, ListInv, NEW l \in Lists, UnmanagedDestroy(l)  PROVE Sound
<1>1. lanes \in Nat
  BY Fate
<1>2. QED
  BY <1>1, EmptyRepresents, BecomesGiven DEF UnmanagedDestroy

LEMMA UnmanagedConstructSound ==
  ASSUME Apart, ListInv, NEW l \in Lists, UnmanagedConstruct(l)  PROVE Sound
<1>0. lanes \in Nat /\ NullIsNoBuffer
  BY Fate DEF Apart
<1>1. ASSUME NEW s \in Literals, NEW n \in Nat, Len(s) <= n, Obtains(l, n, Filled(s, n))  PROVE Sound
  <2>1. s \in Seq(Elements) /\ s \in Literals \cup {<<>>}
    BY LiteralsAssumption
  <2>2. Represents(Filled(s, n), s)
    BY <1>0, <1>1, <2>1, FilledRepresents DEF Obtains
  <2>3. QED
    BY <1>1, <2>1, <2>2, BecomesGiven, RefusesSound DEF Obtains
<1>2. \A s \in Literals : Len(s) \in Nat
  BY LiteralsAssumption
<1>3. \A s \in Literals, n \in Sizes : Larger(Len(s), n) \in Nat /\ Len(s) <= Larger(Len(s), n)
  BY <1>2, SizesAssumption DEF Larger
<1>4. ASSUME NEW s \in Literals, Obtains(l, Len(s), Filled(s, Len(s)))  PROVE Sound
  BY <1>1, <1>2, <1>4
<1>5. ASSUME NEW s \in Literals, NEW n \in Sizes, Obtains(l, Larger(Len(s), n), Filled(s, Larger(Len(s), n)))
      PROVE  Sound
  BY <1>1, <1>3, <1>5
<1>6. QED
  BY <1>4, <1>5 DEF UnmanagedConstruct

LEMMA CloneSound ==
  ASSUME Apart, ListInv, NEW l \in Lists, NEW k \in Lists, Clone(l, k)  PROVE Sound
<1>1. UsableList(k) /\ lanes \in Nat /\ Represents(lists[k], ContentsOf(k)) /\ lists[k].length = Len(ContentsOf(k))
  BY Fate, LengthIs DEF Clone
<1>2. Represents(CopyOf(lists[k]), ContentsOf(k))
  BY <1>1, CopyRepresents DEF Apart
<1>3. CASE lists[k].length = 0
  <2>1. Becomes(l, CopyOf(lists[k]))
    BY <1>3 DEF Clone, CopyOf
  <2>2. QED
    BY <1>1, <1>2, <2>1, BecomesCopy DEF Apart
<1>4. CASE lists[k].length # 0
  <2>1. Becomes(l, CopyOf(lists[k])) \/ Refuses
    BY <1>4 DEF Clone, Obtains
  <2>2. QED
    BY <1>1, <1>2, <2>1, BecomesCopy, RefusesSound DEF Apart
<1>5. QED
  BY <1>3, <1>4

LEMMA CloneWithCapacitySound ==
  ASSUME Apart, ListInv, NEW l \in Lists, NEW k \in Lists, NEW n \in Sizes, CloneWithCapacity(l, k, n)
  PROVE  Sound
<1> DEFINE m == Larger(lists[k].length, n)
           s == ContentsOf(k)
<1>1. UsableList(k) /\ lanes \in Nat /\ lists[k].length = Len(s) /\ ListItems(lists[k]) = s /\ s \in Seq(Elements)
  BY Fate, LengthIs DEF CloneWithCapacity
<1>2. Obtains(l, m, Filled(s, m))
  BY <1>1 DEF CloneWithCapacity
<1>3. m \in Nat /\ Len(s) <= m
  BY <1>1, SizesAssumption DEF Larger
<1> HIDE DEF m, s
<1>4. Represents(Filled(s, m), s)
  BY <1>1, <1>2, <1>3, FilledRepresents DEF Obtains, Apart
<1>5. CASE Becomes(l, Filled(s, m))
  BY <1>1, <1>4, <1>5, BecomesCopy DEF Apart, s
<1>6. QED
  BY <1>2, <1>5, RefusesSound DEF Obtains

LEMMA UnmanagedMoveSound ==
  ASSUME ListInv, NEW l \in Lists, NEW k \in Lists, UnmanagedMove(l, k)  PROVE Sound
<1>1. /\ lists' = [lists EXCEPT ![l] = lists[k], ![k] = WithoutData(@)]
      /\ lanes' = lanes /\ removed' = NoElement /\ lists[l].data = NoData
  BY DEF UnmanagedMove
<1>2. CASE l # k
  BY <1>1, <1>2, MovedSound
<1>3. CASE l = k
  <2>1. ListRecord(lists[l]) /\ lists = [m \in Lists |-> lists[m]]
    BY Fate DEF ListInv
  <2>2. WithoutData(lists[l]) = lists[l]
    BY <1>1, <2>1 DEF WithoutData, ListRecord
  <2>3. lists' = lists
    BY <1>1, <1>3, <2>1, <2>2
  <2>4. ListInv' /\ ListContents' = ListContents
    BY <1>1, <2>3, NothingChanges
  <2>5. QED
    BY <1>1, <2>4, UnchangedStep DEF Sound
<1>4. QED
  BY <1>2, <1>3

LEMMA UnmanagedNextSound ==
  ASSUME Apart, "ownElement" \notin ListLax, "emptyAlloc" \notin ListLax, ListInv, UnmanagedNext
  PROVE  Sound
<1>1. PICK l \in Lists :
        \/ Deinit(l) \/ UnmanagedDestroy(l) \/ UnmanagedConstruct(l)
        \/ \E k \in Lists : \/ Clone(l, k) \/ UnmanagedMove(l, k) \/ UnmanagedAppendCopy(l, k)
                            \/ \E n \in Sizes : CloneWithCapacity(l, k, n)
        \/ \E e \in Elements : UnmanagedPush(l, e)
        \/ \E i \in 0 .. MaxLength : ListPushOwn(l, i) \/ UnmanagedRemove(l, i)
        \/ \E i \in 0 .. MaxLength, e \in Elements : UnmanagedInsert(l, i, e)
        \/ \E n \in Sizes : UnmanagedReserve(l, n) \/ UnmanagedTruncate(l, n)
  BY DEF UnmanagedNext
<1>2. 0 .. MaxLength \subseteq Nat
  BY SizesAssumption
<1>3. CASE Deinit(l) \/ UnmanagedDestroy(l) \/ UnmanagedConstruct(l)
  BY <1>3, DeinitSound, UnmanagedDestroySound, UnmanagedConstructSound
<1>4. ASSUME NEW k \in Lists, Clone(l, k) \/ UnmanagedMove(l, k) \/ UnmanagedAppendCopy(l, k)  PROVE Sound
  BY <1>4, CloneSound, UnmanagedMoveSound, ListAppendCopySound, RefusesSound DEF UnmanagedAppendCopy
<1>5. ASSUME NEW k \in Lists, NEW n \in Sizes, CloneWithCapacity(l, k, n)  PROVE Sound
  BY <1>5, CloneWithCapacitySound
<1>6. ASSUME NEW e \in Elements, UnmanagedPush(l, e)  PROVE Sound
  BY <1>6, ListPushSound, RefusesSound DEF UnmanagedPush
<1>7. ASSUME NEW i \in 0 .. MaxLength, ListPushOwn(l, i) \/ UnmanagedRemove(l, i)  PROVE Sound
  BY <1>2, <1>7, ListPushOwnSound, ListRemoveSound DEF UnmanagedRemove
<1>8. ASSUME NEW i \in 0 .. MaxLength, NEW e \in Elements, UnmanagedInsert(l, i, e)  PROVE Sound
  <2>1. ListInsert(l, i, e) \/ Refuses
    BY <1>8 DEF UnmanagedInsert, ListInsert
  <2>2. QED
    BY <1>2, <2>1, ListInsertSound, RefusesSound
<1>9. ASSUME NEW n \in Sizes, UnmanagedReserve(l, n) \/ UnmanagedTruncate(l, n)  PROVE Sound
  <2>1. ListReserve(l, n) \/ Refuses \/ ListTruncate(l, n)
    BY <1>9 DEF UnmanagedReserve, UnmanagedTruncate, ListReserve
  <2>2. QED
    BY <2>1, ListReserveSound, ListTruncateSound, RefusesSound
<1>10. QED
  BY <1>1, <1>3, <1>4, <1>5, <1>6, <1>7, <1>8, <1>9

\* The invariant of ArrayList is one of ArrayListUnmanaged.
LEMMA UnmanagedStandForSequences ==
  ASSUME Apart, "ownElement" \notin ListLax, "emptyAlloc" \notin ListLax
  PROVE  UnmanagedSpec => []ListInv
<1>1. ListInit => ListInv
  BY ListInitSound
<1>2. ListInv /\ [UnmanagedNext]_listVars => ListInv'
  BY UnmanagedNextSound, StutterSound DEF Sound
<1>3. QED
  BY <1>1, <1>2, PTL DEF UnmanagedSpec

\* The same of ArrayListUnmanaged, whose allocations may be refused at any call: a refused call
\* leaves the list as it was.
THEOREM UnmanagedSlotsAreOwned ==
  ASSUME Apart, "ownElement" \notin ListLax, "emptyAlloc" \notin ListLax
  PROVE  UnmanagedSpec => [](SlotsOwned /\ ListLookups)
<1>1. ListInv => SlotsOwned /\ ListLookups
  BY InvSlots, InvLookups
<1>2. QED
  BY <1>1, UnmanagedStandForSequences, PTL

\* ArrayListUnmanaged implements Listing: each call does what it says or, when its allocation was
\* refused, nothing.
THEOREM UnmanagedListsAreSequences ==
  ASSUME Apart, "ownElement" \notin ListLax, "emptyAlloc" \notin ListLax
  PROVE  UnmanagedSpec => ListSequenceSpec
<1>1. ListInit => L!Init
  BY ListInitSound DEF L!Init, ListContents
<1>2. ListInv /\ [UnmanagedNext]_listVars => [L!Next]_(L!listingVars)
  <2>1. ASSUME ListInv, UnmanagedNext  PROVE [L!Next]_(L!listingVars)
    BY <2>1, UnmanagedNextSound, SoundIsNext
  <2>2. ASSUME ListInv, UNCHANGED listVars  PROVE [L!Next]_(L!listingVars)
    BY <2>2, StutterSound DEF L!listingVars, ListContents
  <2>3. QED
    BY <2>1, <2>2
<1>3. QED
  BY <1>1, <1>2, UnmanagedStandForSequences, PTL DEF UnmanagedSpec, ListSequenceSpec, L!Spec

-----------------------------------------------------------------------------
(* Allocator *)

AllocTypeOK ==
  /\ out \in SUBSET Addresses
  /\ allocTracker \in SUBSET Addresses
  /\ freeTracker \in SUBSET Addresses
  /\ allocCount \in Nat
  /\ owned \in SUBSET Addresses
  /\ refCount \in Int
  /\ refs \in [Refs -> {"none", "heap", "testing"}]
  /\ calls \in [Threads -> [step : {"idle", "record", "release", "increment"},
                            about : Addresses \cup Refs \cup {Nothing}]]
  /\ careful \in BOOLEAN
  /\ destroyed \in BOOLEAN

\* The address t is about is the heap's, and in no client's hand.
CallHolds(t) == calls[t].step \in {"record", "release"}

\* No two calls are about the same address or place.
CallInv ==
  /\ \A t \in Threads :
       /\ calls[t].step = "idle" => calls[t] = Idle
       /\ CallHolds(t) => calls[t].about \in Addresses
       /\ calls[t].step = "increment" => calls[t].about \in Refs
       /\ destroyed => calls[t] = Idle
  /\ \A t, u \in Threads :
       t # u /\ calls[t].step # "idle" => calls[u].about # calls[t].about

\* What the heap has handed out is tracked or on its way.
HeapInv ==
  /\ ~destroyed => allocTracker \subseteq out
  /\ \A t \in Threads : CallHolds(t) => calls[t].about \in out \ allocTracker
  /\ ~destroyed => \A x \in out \ allocTracker : \E t \in Threads : CallHolds(t) /\ calls[t].about = x

\* The references that were counted.
Counted == {r \in Refs : Tracked(r) /\ Settled(r)}

CountInv ==
  /\ refCount = Cardinality(Counted)
  /\ \A t \in Threads : calls[t].step = "increment" => Tracked(calls[t].about)

CarefulInv ==
  careful =>
    /\ allocTracker = owned
    /\ IsFiniteSet(owned) /\ allocCount = Cardinality(owned)
    /\ freeTracker \cap owned = {}
    /\ alarms \subseteq {"leak", "references"}
    /\ ~destroyed => alarms = {}
    /\ destroyed => /\ out = {}
                    /\ "leak" \in alarms <=> owned # {}
                    /\ "references" \in alarms <=> \E r \in Refs : Tracked(r)

AllocInv == AllocTypeOK /\ CallInv /\ HeapInv /\ CountInv /\ CarefulInv

-----------------------------------------------------------------------------
(* Counting *)

LEMMA CountedFinite == IsFiniteSet(Counted) /\ Cardinality(Counted) \in Nat
<1>1. Counted \in SUBSET Refs
  BY DEF Counted
<1>2. IsFiniteSet(Counted)
  BY <1>1, CountAssumption, FS_Subset
<1>. QED
  BY <1>2, FS_CardinalityType

\* One reference more.
LEMMA CountMore ==
  ASSUME NEW r, r \notin Counted, Counted' = Counted \cup {r}
  PROVE  Cardinality(Counted') = Cardinality(Counted) + 1
  BY CountedFinite, FS_AddElement

\* One reference less.
LEMMA CountLess ==
  ASSUME NEW r, r \in Counted, Counted' = Counted \ {r}
  PROVE  Cardinality(Counted') = Cardinality(Counted) - 1 /\ Cardinality(Counted) > 0
<1>1. Cardinality(Counted') = Cardinality(Counted) - 1
  BY CountedFinite, FS_RemoveElement
<1>2. Cardinality(Counted) # 0
  BY CountedFinite, FS_EmptySet
<1>. QED
  BY <1>1, <1>2, CountedFinite

\* A reference that changed its place.
LEMMA CountMoved ==
  ASSUME NEW r, NEW s, r \in Counted, s \notin Counted, Counted' = (Counted \ {r}) \cup {s}
  PROVE  Cardinality(Counted') = Cardinality(Counted)
<1> DEFINE C == Counted \ {r}
<1>1. IsFiniteSet(C) /\ Cardinality(C) = Cardinality(Counted) - 1
  BY CountedFinite, FS_RemoveElement
<1>2. s \notin C /\ Counted' = C \cup {s}
  OBVIOUS
<1>. HIDE DEF C
<1>3. Cardinality(Counted') = Cardinality(C) + 1
  BY <1>1, <1>2, FS_AddElement
<1>. QED
  BY <1>1, <1>3, CountedFinite

-----------------------------------------------------------------------------
(* The steps *)

LEMMA AllocInitSound == AllocInit => AllocInv
<1> SUFFICES ASSUME AllocInit  PROVE AllocInv
  OBVIOUS
<1>0. \A t \in Threads : calls[t] = Idle /\ calls[t].step = "idle"
  BY DEF AllocInit, Idle
<1>1. AllocTypeOK
  <2>1. careful \in BOOLEAN /\ destroyed \in BOOLEAN
    BY DEF AllocInit
  <2>2. calls \in [Threads -> [step : {"idle", "record", "release", "increment"},
                              about : Addresses \cup Refs \cup {Nothing}]]
    BY DEF AllocInit, Idle
  <2>. QED
    BY <2>1, <2>2 DEF AllocInit, AllocTypeOK
<1>1a. CallInv /\ HeapInv
  BY <1>0 DEF AllocInit, CallInv, HeapInv, CallHolds
<1>1b. CarefulInv
  BY FS_EmptySet DEF AllocInit, CarefulInv, Tracked
<1>2. Counted = {}
  BY DEF AllocInit, Counted, Tracked
<1>3. CountInv
  BY <1>0, <1>2, FS_EmptySet DEF AllocInit, CountInv
<1>. QED
  BY <1>1, <1>1a, <1>1b, <1>3 DEF AllocInv

\* A step that begins or ends a call about an address counts no reference.
LEMMA NoCount ==
  ASSUME AllocInv, NEW t \in Threads, NEW step, NEW x,
         calls' = [calls EXCEPT ![t] = [step |-> step, about |-> x]],
         calls[t].about \notin Refs, x \notin Refs, step # "increment",
         UNCHANGED <<refs, refCount>>
  PROVE  CountInv'
<1>1. Counted' = Counted
  BY DEF Counted, Tracked, Settled, AllocInv, AllocTypeOK
<1>2. \A u \in Threads : calls'[u].step = "increment" => refs'[calls'[u].about] = "testing"
  BY DEF Tracked, AllocInv, CountInv, AllocTypeOK
<1>. QED
  BY <1>1, <1>2 DEF AllocInv, CountInv, Tracked

LEMMA MallocFromHeapStep ==
  ASSUME AllocInv, NEW t \in Threads, MallocFromHeap(t)  PROVE AllocInv'
<1>1. PICK x \in Addresses \ out :
        out' = out \cup {x} /\ calls' = [calls EXCEPT ![t] = [step |-> "record", about |-> x]]
  BY DEF MallocFromHeap, HeapGives, Calling
<1>2. calls[t] = Idle /\ x \notin allocTracker /\ Nothing \notin Refs /\ x \notin Refs /\ ~destroyed
  BY PlacesAssumption DEF MallocFromHeap, Calls, AllocInv, HeapInv
<1>3. AllocTypeOK'
  BY <1>1 DEF MallocFromHeap, AllocInv, AllocTypeOK
<1>4. CallInv'
  BY <1>1, <1>2, PlacesAssumption DEF MallocFromHeap, AllocInv, AllocTypeOK, CallInv, HeapInv, CallHolds, Idle
<1>5. HeapInv'
  BY <1>1, <1>2 DEF MallocFromHeap, AllocInv, AllocTypeOK, HeapInv, CallHolds, Idle
<1>6. CountInv'
  <2>1. calls[t].about \notin Refs /\ UNCHANGED <<refs, refCount>>
    BY <1>2 DEF MallocFromHeap, Idle
  <2>. QED
    BY <1>1, <1>2, <2>1, NoCount
<1>7. CarefulInv'
  BY <1>2 DEF MallocFromHeap, AllocInv, CarefulInv, Tracked
<1>. QED
  BY <1>3, <1>4, <1>5, <1>6, <1>7 DEF AllocInv

LEMMA MallocRecordStep ==
  ASSUME AllocInv, NEW t \in Threads, MallocRecord(t)  PROVE AllocInv'
<1> DEFINE x == calls[t].about
<1>1. /\ calls[t].step = "record" /\ calls' = [calls EXCEPT ![t] = Idle]
      /\ Track(x) /\ allocTracker' = allocTracker \cup {x} /\ freeTracker' = freeTracker \ {x}
      /\ owned' = owned \cup {x}
      /\ UNCHANGED <<out, refCount, refs, careful, alarms, destroyed>>
  BY DEF MallocRecord, Given, Returns, Track
<1>2. x \in Addresses /\ x \in out /\ x \notin allocTracker /\ Nothing \notin Refs /\ x \notin Refs
      /\ ~destroyed
  BY <1>1, PlacesAssumption DEF AllocInv, CallInv, HeapInv, CallHolds, Idle
<1>2a. allocCount' = allocCount + 1
  BY <1>1, <1>2 DEF Track, Known
<1>3. AllocTypeOK'
  BY <1>1, <1>2, <1>2a DEF AllocInv, AllocTypeOK, Idle
<1>4. CallInv'
  BY <1>1, <1>2, PlacesAssumption DEF AllocInv, AllocTypeOK, CallInv, CallHolds, Idle
<1>5. HeapInv'
  BY <1>1, <1>2 DEF AllocInv, AllocTypeOK, CallInv, HeapInv, CallHolds, Idle
<1>6. CountInv'
  <2>1. calls' = [calls EXCEPT ![t] = [step |-> "idle", about |-> Nothing]]
    BY <1>1 DEF Idle
  <2>. QED
    BY <1>1, <1>2, <2>1, NoCount
<1>7. CarefulInv'
  <2>1. ASSUME careful
        PROVE  IsFiniteSet(owned') /\ Cardinality(owned') = Cardinality(owned) + 1
    BY <1>1, <1>2, <2>1, FS_AddElement DEF AllocInv, CarefulInv
  <2>. QED
    BY <1>1, <1>2, <1>2a, <2>1 DEF AllocInv, CarefulInv, Tracked
<1>. QED
  BY <1>3, <1>4, <1>5, <1>6, <1>7 DEF AllocInv

LEMMA FreeRecordStep ==
  ASSUME AllocInv, NEW t \in Threads, NEW x \in Addresses, FreeRecord(t, x)  PROVE AllocInv'
<1> DEFINE twice == x \in freeTracker
           foreign == ~twice /\ ~Known(x)
<1>0. IF twice \/ allocCount = 0 THEN UNCHANGED <<allocTracker, allocCount>>
      ELSE allocTracker' = allocTracker \ {x} /\ allocCount' = allocCount - 1
  BY Zenon DEF FreeRecord, Untrack
<1>1. /\ ~destroyed /\ calls[t] = Idle /\ (careful => x \in owned)
      /\ owned' = owned \ {x} /\ freeTracker' = freeTracker \cup {x}
      /\ twice \/ foreign => calls' = [calls EXCEPT ![t] = Idle]
      /\ ~(twice \/ foreign) => calls' = [calls EXCEPT ![t] = [step |-> "release", about |-> x]]
      /\ (~twice /\ ~foreign) => alarms' = alarms
      /\ UNCHANGED <<out, refCount, refs, careful, destroyed>>
  BY Zenon DEF FreeRecord, GivenBack, Calls, Calling, Returns, Check
<1>2. Nothing \notin Refs /\ x \notin Refs
  BY PlacesAssumption
<1>3. AllocTypeOK'
  BY <1>0, <1>1 DEF AllocInv, AllocTypeOK, Idle
<1>4. CallInv'
  BY <1>0, <1>1, <1>2, PlacesAssumption
     DEF AllocInv, AllocTypeOK, CallInv, HeapInv, CallHolds, Idle, Known
<1>5. HeapInv'
  BY <1>0, <1>1, <1>2 DEF AllocInv, AllocTypeOK, CallInv, HeapInv, CallHolds, Idle, Known
<1>6. CountInv'
  <2>1. calls[t].about \notin Refs
    BY <1>1, <1>2 DEF Idle
  <2>2. CASE twice \/ foreign
    <3>1. calls' = [calls EXCEPT ![t] = [step |-> "idle", about |-> Nothing]]
      BY <1>1, <2>2 DEF Idle
    <3>. QED
      BY <1>1, <1>2, <2>1, <3>1, NoCount
  <2>3. CASE ~(twice \/ foreign)
    BY <1>1, <1>2, <2>1, <2>3, NoCount
  <2>. QED
    BY <2>2, <2>3
<1>7. CarefulInv'
  <2>1. ASSUME careful
        PROVE  /\ x \in owned /\ ~twice /\ Known(x) /\ allocCount # 0
               /\ IsFiniteSet(owned') /\ Cardinality(owned') = Cardinality(owned) - 1
    <3>1. x \in owned /\ ~twice /\ x \in allocTracker /\ IsFiniteSet(owned)
          /\ allocCount = Cardinality(owned)
      BY <1>1, <2>1 DEF AllocInv, CarefulInv
    <3>2. Cardinality(owned) # 0
      BY <3>1, FS_EmptySet
    <3>3. IsFiniteSet(owned') /\ Cardinality(owned') = Cardinality(owned) - 1
      BY <1>1, <3>1, FS_RemoveElement
    <3>. QED
      BY <3>1, <3>2, <3>3 DEF Known
  <2>. QED
    BY <1>0, <1>1, <2>1 DEF AllocInv, CarefulInv, Tracked
<1>. QED
  BY <1>3, <1>4, <1>5, <1>6, <1>7 DEF AllocInv

LEMMA FreeToHeapStep ==
  ASSUME AllocInv, NEW t \in Threads, FreeToHeap(t)  PROVE AllocInv'
<1> DEFINE x == calls[t].about
<1>1. /\ calls[t].step = "release" /\ calls' = [calls EXCEPT ![t] = Idle]
      /\ out' = out \ {x}
      /\ UNCHANGED <<allocTracker, allocCount, freeTracker, refCount, refs, owned, careful, alarms, destroyed>>
  BY DEF FreeToHeap, HeapTakes, Returns
<1>2. x \in Addresses /\ x \in out /\ x \notin allocTracker /\ Nothing \notin Refs /\ x \notin Refs
      /\ ~destroyed
  BY <1>1, PlacesAssumption DEF AllocInv, CallInv, HeapInv, CallHolds, Idle
<1>3. AllocTypeOK'
  BY <1>1, <1>2 DEF AllocInv, AllocTypeOK, Idle
<1>4. CallInv'
  BY <1>1, <1>2, PlacesAssumption DEF AllocInv, AllocTypeOK, CallInv, CallHolds, Idle
<1>5. HeapInv'
  BY <1>1, <1>2 DEF AllocInv, AllocTypeOK, CallInv, HeapInv, CallHolds, Idle
<1>6. CountInv'
  <2>1. calls' = [calls EXCEPT ![t] = [step |-> "idle", about |-> Nothing]]
    BY <1>1 DEF Idle
  <2>. QED
    BY <1>1, <1>2, <2>1, NoCount
<1>7. CarefulInv'
  BY <1>1, <1>2 DEF AllocInv, CarefulInv, Tracked
<1>. QED
  BY <1>3, <1>4, <1>5, <1>6, <1>7 DEF AllocInv

\* A call that is about a reference leaves the heap and the trackers alone.
LEMMA HeapKept ==
  ASSUME AllocInv, ~destroyed, UNCHANGED <<out, allocTracker, destroyed>>,
         NEW t \in Threads, ~CallHolds(t), NEW c, calls' = [calls EXCEPT ![t] = c],
         c.step \notin {"record", "release"}
  PROVE  HeapInv'
<1>1. \A u \in Threads : /\ calls'[u].step \in {"record", "release"} <=> CallHolds(u)
                         /\ CallHolds(u) => calls'[u] = calls[u]
  BY DEF AllocInv, AllocTypeOK, CallHolds
<1>. QED
  BY <1>1 DEF AllocInv, HeapInv, CallHolds

LEMMA CarefulKept ==
  ASSUME AllocInv, ~destroyed,
         UNCHANGED <<out, allocTracker, allocCount, freeTracker, owned, careful, alarms, destroyed>>
  PROVE  CarefulInv'
  BY DEF AllocInv, CarefulInv

\* A reference that nobody is making is counted if there is one.
LEMMA Decrements ==
  ASSUME AllocInv, NEW r \in Refs, Settled(r), Decremented(r)
  PROVE  /\ alarms' = alarms
         /\ refCount' = IF Tracked(r) THEN refCount - 1 ELSE refCount
<1>1. Tracked(r) => Cardinality(Counted) # 0
  BY CountedFinite, FS_EmptySet DEF Counted
<1>2. Tracked(r) => refCount > 0
  BY <1>1, CountedFinite DEF AllocInv, CountInv
<1>. QED
  BY <1>2 DEF Decremented, Check

LEMMA RefIncrementStep ==
  ASSUME AllocInv, NEW t \in Threads, RefIncrement(t)  PROVE AllocInv'
<1> DEFINE r == calls[t].about
<1>1. /\ calls[t].step = "increment" /\ refCount' = refCount + 1
      /\ calls' = [calls EXCEPT ![t] = Idle]
      /\ UNCHANGED <<out, allocTracker, allocCount, freeTracker, refs, owned, careful, alarms, destroyed>>
  BY DEF RefIncrement, Returns
<1>2. /\ r \in Refs /\ Tracked(r) /\ ~destroyed /\ Nothing \notin Refs
      /\ \A u \in Threads \ {t} : calls[u].about # r
  BY <1>1, PlacesAssumption DEF AllocInv, CallInv, CountInv, Idle
<1>3. AllocTypeOK'
  BY <1>1 DEF AllocInv, AllocTypeOK, Idle
<1>4. CallInv'
  BY <1>1, <1>2, PlacesAssumption DEF AllocInv, AllocTypeOK, CallInv, CallHolds, Idle
<1>5. HeapInv'
  BY <1>1, <1>2, HeapKept DEF CallHolds, Idle
<1>6. CountInv'
  <2>1. r \notin Counted
    BY DEF Counted, Settled
  <2>2. Counted' = Counted \cup {r}
    BY <1>1, <1>2 DEF Counted, Tracked, Settled, AllocInv, AllocTypeOK, Idle
  <2>3. refCount' = Cardinality(Counted')
    BY <1>1, <2>1, <2>2, CountMore DEF AllocInv, CountInv
  <2>4. \A u \in Threads : calls'[u].step = "increment" => refs'[calls'[u].about] = "testing"
    BY <1>1 DEF Tracked, AllocInv, CountInv, AllocTypeOK, Idle
  <2>. QED
    BY <2>3, <2>4 DEF CountInv, Tracked
<1>7. CarefulInv'
  BY <1>1, <1>2, CarefulKept
<1>. QED
  BY <1>3, <1>4, <1>5, <1>6, <1>7 DEF AllocInv

\* A reference is made in a place; the one that was there has been counted down.
LEMMA RefersStep ==
  ASSUME AllocInv, NEW t \in Threads, NEW r \in Refs, NEW target \in {"none", "heap", "testing"},
         ~destroyed, calls[t] = Idle, Settled(r), Refers(t, r, target),
         refCount' = IF Tracked(r) THEN refCount - 1 ELSE refCount,
         UNCHANGED <<out, allocTracker, allocCount, freeTracker, owned, careful, alarms, destroyed>>
  PROVE  AllocInv'
<1> DEFINE c == IF target = "testing" THEN [step |-> "increment", about |-> r] ELSE Idle
<1>1. /\ refs' = [refs EXCEPT ![r] = target]
      /\ calls' = [calls EXCEPT ![t] = c]
  <2>1. calls = [calls EXCEPT ![t] = Idle]
    BY DEF AllocInv, AllocTypeOK
  <2>. QED
    BY <2>1 DEF Refers, Calling
<1>2. Nothing \notin Refs /\ r \notin Addresses
  BY PlacesAssumption
<1>3. AllocTypeOK'
  BY <1>1 DEF AllocInv, AllocTypeOK, Idle
<1>4. CallInv'
  BY <1>1, <1>2, PlacesAssumption DEF AllocInv, AllocTypeOK, CallInv, Settled, CallHolds, Idle
<1>5. HeapInv'
  <2>1. ~CallHolds(t) /\ c.step \notin {"record", "release"}
    BY DEF CallHolds, Idle
  <2>. QED
    BY <1>1, <2>1, HeapKept
<1>6. CountInv'
  <2>1. Counted' = Counted \ {r}
    <3>1. ASSUME NEW x \in Refs \ {r}
          PROVE  /\ refs'[x] = refs[x]
                 /\ (\A u \in Threads : calls'[u].about # x) <=> (\A u \in Threads : calls[u].about # x)
      BY <1>1, <1>2 DEF AllocInv, AllocTypeOK, Idle
    <3>2. ~(refs'[r] = "testing" /\ \A u \in Threads : calls'[u].about # r)
      BY <1>1 DEF AllocInv, AllocTypeOK
    <3>. QED
      BY <3>1, <3>2 DEF Counted, Tracked, Settled
  <2>2. refCount' = Cardinality(Counted')
    <3>1. CASE Tracked(r)
      <4>1. r \in Counted
        BY <3>1 DEF Counted
      <4>. QED
        BY <2>1, <3>1, <4>1, CountLess DEF AllocInv, CountInv
    <3>2. CASE ~Tracked(r)
      <4>1. Counted' = Counted
        BY <2>1, <3>2 DEF Counted
      <4>. QED
        BY <3>2, <4>1 DEF AllocInv, CountInv
    <3>. QED
      BY <3>1, <3>2
  <2>3. \A u \in Threads : calls'[u].step = "increment" => refs'[calls'[u].about] = "testing"
    BY <1>1 DEF Tracked, Settled, AllocInv, CallInv, CountInv, AllocTypeOK, Idle
  <2>. QED
    BY <2>2, <2>3 DEF CountInv, Tracked
<1>7. CarefulInv'
  BY CarefulKept
<1>. QED
  BY <1>3, <1>4, <1>5, <1>6, <1>7 DEF AllocInv

LEMMA RefConstructStep ==
  ASSUME AllocInv, NEW t \in Threads, NEW r \in Refs, NEW target \in {"testing", "heap"},
         RefConstruct(t, r, target)
  PROVE  AllocInv'
<1>1. Settled(r) /\ ~Tracked(r)
  BY PlacesAssumption
     DEF RefConstruct, Tracked, Settled, AllocInv, AllocTypeOK, CallInv, CountInv, CallHolds, Idle
<1>. QED
  BY <1>1, RefersStep DEF RefConstruct, Calls

LEMMA RefAssignCopyStep ==
  ASSUME AllocInv, NEW t \in Threads, NEW r \in Refs, NEW s \in Refs, RefAssignCopy(t, r, s)
  PROVE  AllocInv'
<1>1. refs[s] \in {"none", "heap", "testing"}
  BY DEF AllocInv, AllocTypeOK
<1>2. alarms' = alarms /\ refCount' = IF Tracked(r) THEN refCount - 1 ELSE refCount
  BY Decrements DEF RefAssignCopy
<1>. QED
  BY <1>1, <1>2, RefersStep DEF RefAssignCopy, Calls

\* Between calls, references are moved or dropped.
LEMMA RefsStep ==
  ASSUME AllocInv, ~destroyed, refs' \in [Refs -> {"none", "heap", "testing"}],
         refCount' = Cardinality(Counted'),
         \A u \in Threads : calls[u].step = "increment" => refs'[calls[u].about] = "testing",
         UNCHANGED <<out, allocTracker, allocCount, freeTracker, calls, owned, careful, alarms, destroyed>>
  PROVE  AllocInv'
<1>1. Counted' \in SUBSET Refs
  BY DEF Counted
<1>2. Cardinality(Counted') \in Nat
  BY <1>1, CountAssumption, FS_Subset, FS_CardinalityType
<1>3. AllocTypeOK'
  BY <1>2 DEF AllocInv, AllocTypeOK
<1>4. CallInv' /\ HeapInv'
  BY DEF AllocInv, CallInv, HeapInv, CallHolds
<1>5. CountInv'
  BY DEF CountInv, Tracked
<1>6. CarefulInv'
  BY CarefulKept
<1>. QED
  BY <1>3, <1>4, <1>5, <1>6 DEF AllocInv

LEMMA RefAssignMoveStep ==
  ASSUME AllocInv, NEW t \in Threads, NEW r \in Refs, NEW s \in Refs, RefAssignMove(t, r, s)
  PROVE  AllocInv'
<1>1. /\ ~destroyed /\ Settled(r) /\ Settled(s) /\ Decremented(r) /\ UNCHANGED calls
      /\ \A x \in Refs :
           refs'[x] = IF x = s THEN "none" ELSE IF x = r THEN refs[s] ELSE refs[x]
  BY DEF RefAssignMove, Calls, AllocInv, AllocTypeOK
<1>2. refs' \in [Refs -> {"none", "heap", "testing"}]
  BY DEF RefAssignMove, AllocInv, AllocTypeOK
<1>3. alarms' = alarms /\ refCount' = IF Tracked(r) THEN refCount - 1 ELSE refCount
  BY <1>1, Decrements
<1>4. \A u \in Threads : calls[u].step = "increment" => refs'[calls[u].about] = "testing"
  BY <1>1 DEF Tracked, Settled, AllocInv, CallInv, CountInv
<1>5. \A x \in Refs :
        x \in Counted' <=> IF x = s THEN FALSE ELSE IF x = r THEN s \in Counted ELSE x \in Counted
  BY <1>1 DEF Counted, Tracked, Settled
<1>6. (r \in Counted <=> Tracked(r)) /\ Counted \subseteq Refs /\ Counted' \subseteq Refs
  BY <1>1 DEF Counted
<1>7. refCount = Cardinality(Counted)
  BY DEF AllocInv, CountInv
<1>8. refCount' = Cardinality(Counted')
  <2>1. CASE r \in Counted /\ (r = s \/ s \notin Counted)
    <3>1. Counted' = Counted \ {r}
      BY <1>5, <1>6, <2>1
    <3>. QED
      BY <1>3, <1>6, <1>7, <2>1, <3>1, CountLess
  <2>2. CASE r \in Counted /\ r # s /\ s \in Counted
    <3>1. Counted' = Counted \ {s}
      BY <1>5, <1>6, <2>2
    <3>. QED
      BY <1>3, <1>6, <1>7, <2>2, <3>1, CountLess
  <2>3. CASE r \notin Counted /\ s \in Counted
    <3>1. Counted' = (Counted \ {s}) \cup {r}
      BY <1>5, <1>6, <2>3
    <3>. QED
      BY <1>3, <1>6, <1>7, <2>3, <3>1, CountMoved
  <2>4. CASE r \notin Counted /\ s \notin Counted
    <3>1. Counted' = Counted
      BY <1>5, <1>6, <2>4
    <3>. QED
      BY <1>3, <1>6, <1>7, <2>4, <3>1
  <2>. QED
    BY <2>1, <2>2, <2>3, <2>4
<1>. QED
  BY <1>1, <1>2, <1>3, <1>4, <1>8, RefsStep DEF RefAssignMove

LEMMA RefDestructStep ==
  ASSUME AllocInv, NEW t \in Threads, NEW r \in Refs, RefDestruct(t, r)
  PROVE  AllocInv'
<1>1. /\ ~destroyed /\ Settled(r) /\ Decremented(r) /\ UNCHANGED calls
      /\ \A x \in Refs : refs'[x] = IF x = r THEN "none" ELSE refs[x]
  BY DEF RefDestruct, Calls, AllocInv, AllocTypeOK
<1>2. refs' \in [Refs -> {"none", "heap", "testing"}]
  BY DEF RefDestruct, AllocInv, AllocTypeOK
<1>3. alarms' = alarms /\ refCount' = IF Tracked(r) THEN refCount - 1 ELSE refCount
  BY <1>1, Decrements
<1>4. \A u \in Threads : calls[u].step = "increment" => refs'[calls[u].about] = "testing"
  BY <1>1 DEF Tracked, Settled, AllocInv, CallInv, CountInv
<1>5. Counted' = Counted \ {r}
  BY <1>1 DEF Counted, Tracked, Settled
<1>6. r \in Counted <=> Tracked(r)
  BY <1>1 DEF Counted
<1>7. refCount' = Cardinality(Counted')
  <2>1. CASE r \in Counted
    BY <1>3, <1>5, <1>6, <2>1, CountLess DEF AllocInv, CountInv
  <2>2. CASE r \notin Counted
    <3>1. Counted' = Counted
      BY <1>5, <2>2
    <3>. QED
      BY <1>3, <1>6, <2>2, <3>1 DEF AllocInv, CountInv
  <2>. QED
    BY <2>1, <2>2
<1>. QED
  BY <1>1, <1>2, <1>3, <1>4, <1>7, RefsStep DEF RefDestruct

LEMMA AllocDestroyStep == ASSUME AllocInv, DestroyTestingAllocator  PROVE AllocInv'
<1>1. /\ ~destroyed /\ destroyed' = TRUE
      /\ out' = IF allocCount = 0 THEN out ELSE out \ allocTracker
      /\ \A t \in Threads : calls[t] = Idle /\ ~CallHolds(t) /\ calls[t].step # "increment"
      /\ alarms' = alarms \cup (IF refCount = 0 THEN {} ELSE {"references"})
                          \cup (IF allocCount = 0 THEN {} ELSE {"leak"})
      /\ UNCHANGED <<allocTracker, allocCount, freeTracker, refCount, refs, calls, owned, careful>>
  BY DEF DestroyTestingAllocator, Idle, CallHolds
<1>2. AllocTypeOK'
  BY <1>1 DEF AllocInv, AllocTypeOK
<1>3. CallInv' /\ HeapInv'
  BY <1>1 DEF AllocInv, CallInv, HeapInv, CallHolds
<1>4. CountInv'
  <2>1. Counted' = Counted
    BY <1>1 DEF Counted, Tracked, Settled
  <2>. QED
    BY <1>1, <2>1 DEF AllocInv, CountInv, Tracked
<1>5. ASSUME careful  PROVE out' = {} /\ (allocCount = 0 <=> owned = {})
  <2>1. out \ allocTracker = {}
    BY <1>1 DEF AllocInv, HeapInv
  <2>2. allocTracker = owned /\ (allocCount = 0 <=> owned = {})
    BY <1>5, FS_EmptySet DEF AllocInv, CarefulInv
  <2>. QED
    BY <1>1, <2>1, <2>2
<1>6. refCount = 0 <=> ~\E r \in Refs : Tracked(r)
  <2>1. Counted = {r \in Refs : Tracked(r)}
    BY <1>1, PlacesAssumption DEF Counted, Settled, Idle
  <2>2. refCount = 0 <=> Counted = {}
    BY CountedFinite, FS_EmptySet DEF AllocInv, CountInv
  <2>. QED
    BY <2>1, <2>2
<1>7. CarefulInv'
  BY <1>1, <1>5, <1>6 DEF AllocInv, CarefulInv, Tracked
<1>. QED
  BY <1>2, <1>3, <1>4, <1>7 DEF AllocInv

-----------------------------------------------------------------------------
(* The theorems *)

\* What every step keeps.
LEMMA AllocInvariance == AllocSpec => []AllocInv
<1>1. ASSUME AllocInv, AllocNext  PROVE AllocInv'
  <2>1. CASE DestroyTestingAllocator
    BY <1>1, <2>1, AllocDestroyStep
  <2>2. ASSUME NEW t \in Threads,
               \/ MallocFromHeap(t) \/ MallocRecord(t) \/ FreeToHeap(t) \/ RefIncrement(t)
               \/ \E x \in Addresses : FreeRecord(t, x)
               \/ \E r \in Refs :
                    \/ \E target \in {"testing", "heap"} : RefConstruct(t, r, target)
                    \/ \E s \in Refs : RefAssignCopy(t, r, s) \/ RefAssignMove(t, r, s)
                    \/ RefDestruct(t, r)
        PROVE  AllocInv'
    BY <1>1, <2>2, MallocFromHeapStep, MallocRecordStep, FreeToHeapStep, RefIncrementStep,
       FreeRecordStep, RefConstructStep, RefAssignCopyStep, RefAssignMoveStep, RefDestructStep
  <2>. QED
    BY <1>1, <2>1, <2>2 DEF AllocNext
<1>2. ASSUME AllocInv, UNCHANGED allocVars  PROVE AllocInv'
  BY <1>2 DEF allocVars, AllocInv, AllocTypeOK, CallInv, HeapInv, CountInv, CarefulInv,
       Counted, Tracked, Settled, CallHolds
<1>. QED
  BY <1>1, <1>2, AllocInitSound, PTL DEF AllocSpec

\* Whatever clients free, and in whatever order the heap and the trackers are
\* reached, the heap gets nothing back that it has not handed out.
THEOREM HeapGetsBackItsOwn == AllocSpec => []HeapSafe
<1>1. AllocInv => HeapSafe
  BY DEF AllocInv, CallInv, HeapInv, HeapSafe, CallHolds
<1>. QED
  BY <1>1, AllocInvariance, PTL

\* The threads that have yet to count a reference are as many as the
\* references that were not counted.
LEMMA AllCounted ==
  ASSUME AllocInv
  PROVE  refCount + Uncounted = Cardinality({r \in Refs : Tracked(r)})
<1> DEFINE Inc == {t \in Threads : calls[t].step = "increment"}
           New == {r \in Refs : Tracked(r) /\ ~Settled(r)}
           f == [t \in Inc |-> calls[t].about]
<1>1. \A t \in Threads : CallHolds(t) => calls[t].about \notin Refs
  BY PlacesAssumption DEF AllocInv, CallInv
<1>2. \A t \in Threads : calls[t].step = "idle" => calls[t].about \notin Refs
  BY PlacesAssumption DEF AllocInv, CallInv, Idle
<1>3. \A t \in Threads : calls[t].about \in Refs => t \in Inc
  BY <1>1, <1>2 DEF AllocInv, AllocTypeOK, CallHolds
<1>4. \A t \in Inc : calls[t].about \in New
  BY DEF AllocInv, CallInv, CountInv, Settled
<1>5. \A t, u \in Inc : calls[t].about = calls[u].about => t = u
  BY DEF AllocInv, CallInv
<1>6. \A r \in New : \E t \in Inc : calls[t].about = r
  BY <1>3 DEF Settled
<1>7. f \in Bijection(Inc, New)
  BY <1>4, <1>5, <1>6 DEF Bijection, Injection, Surjection, IsInjective
<1>8. IsFiniteSet(Inc)
  BY CountAssumption, FS_Subset
<1>9. IsFiniteSet(New) /\ Cardinality(New) = Uncounted
  <2>1. ExistsBijection(Inc, New)
    BY <1>7 DEF ExistsBijection
  <2>. QED
    BY <1>8, <2>1, FS_Bijection DEF Uncounted
<1>10. New \cap Counted = {} /\ New \cup Counted = {r \in Refs : Tracked(r)}
  BY DEF Counted
<1>. HIDE DEF New, Inc
<1>11. Cardinality(New \cup Counted) = Cardinality(New) + Cardinality(Counted)
  <2>1. Cardinality(New \cup Counted)
          = Cardinality(New) + Cardinality(Counted) - Cardinality(New \cap Counted)
    BY <1>9, CountedFinite, FS_Union
  <2>2. Cardinality(New \cap Counted) = 0
    BY <1>10, FS_EmptySet
  <2>3. Cardinality(New) \in Nat
    BY <1>9, FS_CardinalityType
  <2>. QED
    BY <2>1, <2>2, <2>3, CountedFinite
<1>. QED
  <2>1. Cardinality(New) \in Nat /\ refCount = Cardinality(Counted)
    BY <1>9, FS_CardinalityType DEF AllocInv, CountInv
  <2>2. Cardinality({r \in Refs : Tracked(r)}) = Cardinality(New) + Cardinality(Counted)
    BY <1>10, <1>11
  <2>3. Cardinality(Counted) \in Nat /\ Uncounted = Cardinality(New)
    BY <1>9, CountedFinite
  <2>. QED
    BY <2>1, <2>2, <2>3

\* For careful clients the trackers and the count are exact, no check fails,
\* and the destructor reports what is left and nothing else.
THEOREM TrackersAreExact == AllocSpec => []TrackersExact
<1>1. AllocInv => TrackersExact
  BY AllCounted DEF AllocInv, CarefulInv, TrackersExact
<1>. QED
  BY <1>1, AllocInvariance, PTL

-----------------------------------------------------------------------------
(* Holders *)

\* The tags of a type, and those of a holder that holds nothing.
TagsOf(k) ==
  CASE k = "UniquePtr" -> {"pointer"}
    [] k = "Option" -> {"some", "none"}
    [] k = "Result" -> {"Ok", "Error", "Invalid"}
    [] k = "JobContainer" -> {"inPlace", "unbound"}
    [] k = "JsonValue" -> {"json"}
    [] k = "Callback" -> {"callback"}
    [] k = "Fptr" -> {"fptr"}
    [] k = "Reference" -> {"reference"}

EmptyTags == {"gone", "none", "Invalid", "unbound"}

Holdings(k) == {c \in [tag : TagsOf(k) \cup {"gone"}, thing : Things \cup {NoThing}] :
                  /\ c.tag \in EmptyTags => c.thing = NoThing
                  /\ c.tag \in Variants => c.thing # NoThing}

HolderTypeInv ==
  /\ kind \in Kinds
  /\ held \in [Holders -> Holdings(kind)]
  /\ fate \in [Things -> {"unborn", "held", "client", "dead"}]
  /\ home \in [Things -> Heaps]
  /\ kind # "UniquePtr" => \A t \in Things : home[t] = "global"

\* What a holder has lives, and no other holder has it.
HeldOnce ==
  kind \notin SharedKinds =>
    /\ \A h \in Holders : Has(h) \subseteq {t \in Things : fate[t] = "held"}
    /\ \A g, h \in Holders : g # h => Has(g) \cap Has(h) = {}

HolderInv == HolderTypeInv /\ HeldOnce

Refined == [Holding!Next]_(Holding!holdingVars)

hasOf == [h \in Holders |-> Has(h)]

USE DEF SharedKinds

-----------------------------------------------------------------------------
\* An empty holder shows nothing, and nobody is told of a thing that is not there.
LEMMA ShownIsHas == HolderTypeInv => \A h \in Holders : Shown(h) = Has(h)
  BY DEF HolderTypeInv, Holdings, EmptyTags, Shown, Has

LEMMA GoneIs ==
  ASSUME HolderTypeInv, NEW h \in Holders
  PROVE  /\ held[h].tag = "gone" <=> IsGone(h)
         /\ IsGone(h) => Has(h) = {}
  BY DEF HolderTypeInv, Holdings, EmptyTags, Has, IsGone, Gone, Tagged

\* What is in the holders after one of them, or two, became something else.
LEMMA HasAfter ==
  ASSUME HolderTypeInv, NEW h \in Holders, NEW c \in Holdings(kind), HolderBecomes(h, c)
  PROVE  /\ held' \in [Holders -> Holdings(kind)]
         /\ hasOf' = [hasOf EXCEPT ![h] = {c.thing} \ {NoThing}]
  BY DEF HolderTypeInv, HolderBecomes, Has, hasOf

LEMMA HasAfterBoth ==
  ASSUME HolderTypeInv, NEW g \in Holders, NEW h \in Holders,
         NEW c \in Holdings(kind), NEW d \in Holdings(kind), BothBecome(h, c, g, d)
  PROVE  /\ held' \in [Holders -> Holdings(kind)]
         /\ hasOf' = [hasOf EXCEPT ![h] = {c.thing} \ {NoThing}, ![g] = {d.thing} \ {NoThing}]
  BY DEF HolderTypeInv, BothBecome, Has, hasOf

LEMMA HasSubset ==
  ASSUME HolderTypeInv PROVE hasOf \in [Holders -> SUBSET Things]
  BY DEF HolderTypeInv, Holdings, hasOf, Has

\* What is destroyed was held, on the right heap, and is dead.
LEMMA DestroyedDies ==
  ASSUME HolderInv, kind \notin SharedKinds, NEW h \in Holders, NEW S \in SUBSET Has(h), NEW heap \in Heaps,
         \A t \in S : home[t] = heap
  PROVE  Destroyed(S, heap) = [t \in Things |-> IF t \in S THEN "dead" ELSE fate[t]]
  BY DEF HolderInv, HolderTypeInv, HeldOnce, Destroyed

-----------------------------------------------------------------------------
(* The calls as the client sees them, over what the holders have *)

Come(S, f) == [t \in Things |-> IF t \in S THEN f ELSE fate[t]]

\* h has what it is given, or nothing; what it had dies.
Put(h, t) ==
  /\ CallPut(h, t) /\ fate[t] \in {"unborn", "client"}
  /\ hasOf' = [hasOf EXCEPT ![h] = {t}]
  /\ fate' = [Come(Has(h), "dead") EXCEPT ![t] = "held"]

Drop(h) ==
  CallDrop(h) /\ hasOf' = [hasOf EXCEPT ![h] = {}] /\ fate' = Come(Has(h), "dead")

Move(g, h) ==
  /\ CallMove(g, h)
  /\ hasOf' = [hasOf EXCEPT ![h] = Has(g), ![g] = {}]
  /\ fate' = Come(Has(h), "dead")

Swap(g, h) ==
  /\ CallSwap(g, h)
  /\ hasOf' = [hasOf EXCEPT ![h] = Has(g), ![g] = Has(h)]
  /\ fate' = fate

Take(h) ==
  /\ call' = <<"take", h>> /\ Has(h) # {}
  /\ hasOf' = [hasOf EXCEPT ![h] = {}] /\ fate' = Come(Has(h), "client")

OwnerStep ==
  \/ \E h \in Holders, t \in Things : Put(h, t)
  \/ \E h \in Holders : Drop(h) \/ Take(h)
  \/ \E g, h \in Holders : Move(g, h) \/ Swap(g, h)

Typed ==
  /\ held' \in [Holders -> Holdings(kind)]
  /\ home' \in [Things -> Heaps]
  /\ kind # "UniquePtr" => home' = home

\* Each of them keeps the invariant and is a step of Holding.
LEMMA OwnerKeeps ==
  ASSUME HolderInv, kind \notin SharedKinds, kind' = kind, Typed, OwnerStep
  PROVE  HolderInv'
<1>1. HolderTypeInv'
  BY HasSubset DEF HolderInv, HolderTypeInv, Typed, OwnerStep, Put, Drop, Move, Swap, Take, Come, hasOf
<1>. DEFINE Distinct(f) == \A i, j \in Holders : i # j => f[i] \cap f[j] = {}
            Live(f, u) == \A i \in Holders : f[i] \subseteq {t \in Things : u[t] = "held"}
<1>2. /\ Distinct(hasOf) /\ Live(hasOf, fate)
      /\ hasOf \in [Holders -> SUBSET Things]
      /\ \A i \in Holders : hasOf[i] = Has(i)
  BY HasSubset DEF HolderInv, HeldOnce, hasOf
<1>3. Distinct(hasOf') /\ Live(hasOf', fate')
  <2>1. ASSUME NEW h \in Holders, NEW t \in Things, Put(h, t)  PROVE Distinct(hasOf') /\ Live(hasOf', fate')
    BY <1>2, <2>1 DEF Put, Come, HolderInv, HolderTypeInv
  <2>2. ASSUME NEW h \in Holders, Drop(h) \/ Take(h)  PROVE Distinct(hasOf') /\ Live(hasOf', fate')
    BY <1>2, <2>2 DEF Drop, Take, Come, HolderInv, HolderTypeInv
  <2>3. ASSUME NEW g \in Holders, NEW h \in Holders, Move(g, h)  PROVE Distinct(hasOf') /\ Live(hasOf', fate')
    BY <1>2, <2>3 DEF Move, Come, HolderInv, HolderTypeInv
  <2>4. ASSUME NEW g \in Holders, NEW h \in Holders, Swap(g, h)  PROVE Distinct(hasOf') /\ Live(hasOf', fate')
    BY <1>2, <2>4 DEF Swap, HolderInv, HolderTypeInv
  <2>. QED
    BY <2>1, <2>2, <2>3, <2>4 DEF OwnerStep
<1>4. HeldOnce'
  BY <1>3 DEF HeldOnce, hasOf
<1>. QED
  BY <1>1, <1>4 DEF HolderInv

LEMMA OwnerRefines ==
  ASSUME HolderInv, HolderInv', kind \notin SharedKinds, kind' = kind, OwnerStep
  PROVE  Refined
<1>1. HolderTypeInv' => (\A h \in Holders : Shown(h) = Has(h))'
  BY ShownIsHas, PTL
<1>2. /\ [h \in Holders |-> Shown(h)] = hasOf
      /\ [h \in Holders |-> Shown(h)]' = hasOf'
  BY <1>1, ShownIsHas DEF HolderInv, hasOf
<1>3. hasOf \in [Holders -> SUBSET Things] /\ \A h \in Holders : hasOf[h] = Has(h)
  BY HasSubset DEF HolderInv, hasOf
<1>4. (kind \in SharedKinds)' = FALSE /\ (kind \in SharedKinds) = FALSE
  OBVIOUS
<1>. SUFFICES Holding!Next
  BY DEF Refined
<1>5. ASSUME NEW h \in Holders, NEW t \in Things, Put(h, t)  PROVE Holding!Put(h, t)
  BY <1>2, <1>3, <1>5 DEF Put, CallPut, Come, Holding!Put, Holding!Come
<1>6. ASSUME NEW h \in Holders, Drop(h)  PROVE Holding!Drop(h)
  BY <1>2, <1>3, <1>6 DEF Drop, CallDrop, Come, Holding!Drop, Holding!Come
<1>7. ASSUME NEW h \in Holders, Take(h)  PROVE Holding!Take(h)
  BY <1>2, <1>3, <1>7 DEF Take, Come, Holding!Take, Holding!Come
<1>8. ASSUME NEW g \in Holders, NEW h \in Holders, Move(g, h)  PROVE Holding!Move(g, h)
  BY <1>2, <1>3, <1>8 DEF Move, CallMove, Come, Holding!Move, Holding!Come
<1>9. ASSUME NEW g \in Holders, NEW h \in Holders, Swap(g, h)  PROVE Holding!Swap(g, h)
  BY <1>2, <1>3, <1>9 DEF Swap, CallSwap, Holding!Swap
<1>. QED
  BY <1>4, <1>5, <1>6, <1>7, <1>8, <1>9 DEF OwnerStep, Holding!Next

-----------------------------------------------------------------------------
(* The calls of each type are these *)

\* The parts of a step whose holders become c and d.
LEMMA BecomesTyped ==
  ASSUME HolderInv, NEW h \in Holders, NEW c \in Holdings(kind), HolderBecomes(h, c), home' = home
  PROVE  Typed /\ hasOf' = [hasOf EXCEPT ![h] = {c.thing} \ {NoThing}]
  BY HasAfter DEF HolderInv, HolderTypeInv, Typed

LEMMA BothTyped ==
  ASSUME HolderInv, NEW g \in Holders, NEW h \in Holders,
         NEW c \in Holdings(kind), NEW d \in Holdings(kind), BothBecome(h, c, g, d), home' = home
  PROVE  /\ Typed
         /\ hasOf' = [hasOf EXCEPT ![h] = {c.thing} \ {NoThing}, ![g] = {d.thing} \ {NoThing}]
  BY HasAfterBoth DEF HolderInv, HolderTypeInv, Typed

LEMMA HeldContent ==
  ASSUME HolderInv, NEW h \in Holders
  PROVE  /\ held[h] \in Holdings(kind)
         /\ {held[h].thing} \ {NoThing} = Has(h)
         /\ held[h].tag \in EmptyTags => Has(h) = {}
  BY DEF HolderInv, HolderTypeInv, Holdings, Has

\* h becomes what g was, and g is left empty.
LEMMA MovedTyped ==
  ASSUME HolderInv, NEW g \in Holders, NEW h \in Holders, NEW d \in Holdings(kind), d.thing = NoThing,
         BothBecome(h, held[g], g, d), home' = home
  PROVE  Typed /\ hasOf' = [hasOf EXCEPT ![h] = Has(g), ![g] = {}]
<1>1. held[g] \in Holdings(kind) /\ {held[g].thing} \ {NoThing} = Has(g)
  BY HeldContent
<1>2. {d.thing} \ {NoThing} = {}
  OBVIOUS
<1>3. /\ Typed
      /\ hasOf' = [hasOf EXCEPT ![h] = {held[g].thing} \ {NoThing}, ![g] = {d.thing} \ {NoThing}]
  BY <1>1, BothTyped
<1>. QED
  BY <1>1, <1>2, <1>3

LEMMA SwappedTyped ==
  ASSUME HolderInv, NEW g \in Holders, NEW h \in Holders, BothBecome(h, held[g], g, held[h]), home' = home
  PROVE  Typed /\ hasOf' = [hasOf EXCEPT ![h] = Has(g), ![g] = Has(h)]
<1>1. /\ held[g] \in Holdings(kind) /\ {held[g].thing} \ {NoThing} = Has(g)
      /\ held[h] \in Holdings(kind) /\ {held[h].thing} \ {NoThing} = Has(h)
  BY HeldContent
<1>2. /\ Typed
      /\ hasOf' = [hasOf EXCEPT ![h] = {held[g].thing} \ {NoThing}, ![g] = {held[h].thing} \ {NoThing}]
  BY <1>1, BothTyped
<1>. QED
  BY <1>1, <1>2

LEMMA DestroysDies ==
  ASSUME HolderInv, kind \notin SharedKinds, NEW h \in Holders, Destroys(Has(h)),
         \A t \in Has(h) : home[t] = "global"
  PROVE  fate' = Come(Has(h), "dead") /\ home' = home
  BY DestroyedDies DEF Destroys, Come, Heaps

LEMMA UniqueSteps ==
  ASSUME HolderLax = {}, HolderInv, kind = "UniquePtr", UniqueNext
  PROVE  Typed /\ OwnerStep
<1>0. /\ \A t \in Things \cup {NoThing} : Pointer(t) \in Holdings(kind) /\ Pointer(t).thing = t
      /\ \A t \in Things : {t} \ {NoThing} = {t}
  BY NoThingAssumption DEF Holdings, TagsOf, EmptyTags, Variants, Pointer, Tagged
<1>1. ASSUME NEW h \in Holders, NEW t \in Things, NEW heap \in Heaps, UniqueMake(h, t, heap), CallPut(h, t)
      PROVE  Typed /\ OwnerStep
  <2>1. held' \in [Holders -> Holdings(kind)] /\ hasOf' = [hasOf EXCEPT ![h] = {t}]
    BY <1>0, <1>1, HasAfter DEF UniqueMake, HolderInv
  <2>2. Has(h) = {}
    BY <1>1, GoneIs DEF UniqueMake, HolderInv
  <2>3. Put(h, t)
    BY <1>1, <2>1, <2>2 DEF UniqueMake, Put, Come, HolderInv, HolderTypeInv
  <2>. QED
    BY <1>1, <2>1, <2>3 DEF Typed, OwnerStep, UniqueMake, HolderInv, HolderTypeInv
<1>2. ASSUME NEW h \in Holders, NEW t \in Things, UniqueAdopt(h, t), CallPut(h, t)
      PROVE  Typed /\ OwnerStep
  <2>1. Typed /\ hasOf' = [hasOf EXCEPT ![h] = {t}]
    BY <1>0, <1>2, BecomesTyped DEF UniqueAdopt, Enters
  <2>2. Has(h) = {}
    BY <1>2, GoneIs DEF UniqueAdopt, HolderInv
  <2>3. Put(h, t)
    BY <1>2, <2>1, <2>2 DEF UniqueAdopt, Enters, Destroyed, Put, Come, HolderInv, HolderTypeInv
  <2>. QED
    BY <2>1, <2>3 DEF OwnerStep
<1>3. ASSUME NEW h \in Holders, UniqueNull(h), CallDrop(h)  PROVE Typed /\ OwnerStep
  <2>1. Typed /\ hasOf' = [hasOf EXCEPT ![h] = {}]
    BY <1>0, <1>3, BecomesTyped DEF UniqueNull, Nobody
  <2>2. Has(h) = {}
    BY <1>3, GoneIs DEF UniqueNull, HolderInv
  <2>3. Drop(h)
    BY <1>3, <2>1, <2>2 DEF UniqueNull, Nobody, Drop, Come, HolderInv, HolderTypeInv
  <2>. QED
    BY <2>1, <2>3 DEF OwnerStep
<1>4. ASSUME NEW h \in Holders, UniqueDestroy(h), CallDrop(h)  PROVE Typed /\ OwnerStep
  <2>1. fate' = Come(Has(h), "dead") /\ home' = home
    BY <1>4, DestroysDies DEF UniqueDestroy, FreeHeldPtr
  <2>2. Gone \in Holdings(kind) /\ Gone.thing = NoThing
    BY DEF Holdings, Gone, Tagged, EmptyTags, Variants
  <2>3. Typed /\ hasOf' = [hasOf EXCEPT ![h] = {}]
    BY <1>4, <2>1, <2>2, BecomesTyped DEF UniqueDestroy
  <2>. QED
    BY <1>4, <2>1, <2>3 DEF OwnerStep, Drop
<1>5. ASSUME NEW h \in Holders, NEW heap \in Heaps, UniqueDeinit(h, heap), CallDrop(h)
      PROVE  Typed /\ OwnerStep
  <2>1. fate' = Come(Has(h), "dead")
    BY <1>5, DestroyedDies DEF UniqueDeinit, Come
  <2>2. Typed /\ hasOf' = [hasOf EXCEPT ![h] = {}]
    BY <1>0, <1>5, BecomesTyped DEF UniqueDeinit
  <2>. QED
    BY <1>5, <2>1, <2>2 DEF OwnerStep, Drop
<1>6. ASSUME NEW h \in Holders, UniqueRelease(h), CallTake(h)  PROVE Typed /\ OwnerStep
  <2>1. Typed /\ hasOf' = [hasOf EXCEPT ![h] = {}]
    BY <1>0, <1>6, BecomesTyped DEF UniqueRelease, GoesToClient
  <2>2. fate' = Come(Has(h), "client")
    BY <1>6 DEF UniqueRelease, GoesToClient, Come
  <2>3. CASE Has(h) = {}
    <3>1. Drop(h)
      BY <1>6, <2>1, <2>2, <2>3 DEF Drop, Come, CallTake, CallDrop
    <3>. QED
      BY <2>1, <3>1 DEF OwnerStep
  <2>4. CASE Has(h) # {}
    <3>1. Take(h)
      BY <1>6, <2>1, <2>2, <2>4 DEF Take, CallTake
    <3>. QED
      BY <2>1, <3>1 DEF OwnerStep
  <2>. QED
    BY <2>3, <2>4
<1>7. ASSUME NEW g \in Holders, NEW h \in Holders, UniqueMoveConstruct(g, h), CallMove(g, h)
      PROVE  Typed /\ OwnerStep
  <2>1. Typed /\ hasOf' = [hasOf EXCEPT ![h] = Has(g), ![g] = {}]
    BY <1>0, <1>7, MovedTyped DEF UniqueMoveConstruct, Nobody
  <2>2. Has(h) = {}
    BY <1>7, GoneIs DEF UniqueMoveConstruct, HolderInv
  <2>3. Move(g, h)
    BY <1>7, <2>1, <2>2 DEF UniqueMoveConstruct, Nobody, Move, Come, HolderInv, HolderTypeInv
  <2>. QED
    BY <2>1, <2>3 DEF OwnerStep
<1>8. ASSUME NEW g \in Holders, NEW h \in Holders, UniqueMoveAssign(g, h), CallMove(g, h)
      PROVE  Typed /\ OwnerStep
  <2>1. fate' = Come(Has(h), "dead") /\ home' = home
    BY <1>8, DestroysDies DEF UniqueMoveAssign, FreeHeldPtr
  <2>2. Typed /\ hasOf' = [hasOf EXCEPT ![h] = Has(g), ![g] = {}]
    BY <1>0, <1>8, <2>1, MovedTyped DEF UniqueMoveAssign
  <2>. QED
    BY <1>8, <2>1, <2>2 DEF OwnerStep, Move
<1>9. ASSUME NEW g \in Holders, NEW h \in Holders, UniqueSwap(g, h), CallSwap(g, h)
      PROVE  Typed /\ OwnerStep
  <2>1. Typed /\ hasOf' = [hasOf EXCEPT ![h] = Has(g), ![g] = Has(h)]
    BY <1>9, SwappedTyped DEF UniqueSwap, Nobody
  <2>. QED
    BY <1>9, <2>1 DEF OwnerStep, Swap, UniqueSwap, Nobody
<1>. QED
  BY <1>1, <1>2, <1>3, <1>4, <1>5, <1>6, <1>7, <1>8, <1>9 DEF UniqueNext

\* What the other types do is one of these: something enters an empty or a full
\* holder, leaves it, is destroyed, or is moved.
LEMMA Entering ==
  ASSUME HolderInv, kind \notin SharedKinds, kind # "UniquePtr", NEW h \in Holders, NEW t \in Things,
         NEW c \in Holdings(kind), c.thing = t, HolderBecomes(h, c), Enters(t, Has(h)), CallPut(h, t)
  PROVE  Typed /\ OwnerStep
<1>1. {c.thing} \ {NoThing} = {t}
  BY NoThingAssumption
<1>2. Typed /\ hasOf' = [hasOf EXCEPT ![h] = {t}]
  BY <1>1, BecomesTyped DEF Enters
<1>3. \A u \in Has(h) : home[u] = "global"
  BY HeldContent DEF HolderInv, HolderTypeInv, Holdings, Has
<1>4. Destroyed(Has(h), "global") = Come(Has(h), "dead")
  BY <1>3, DestroyedDies DEF Come, Heaps
<1>5. Put(h, t)
  BY <1>2, <1>4 DEF Enters, Put
<1>. QED
  BY <1>2, <1>5 DEF OwnerStep

LEMMA Leaving ==
  ASSUME HolderInv, NEW h \in Holders, Has(h) # {}, NEW c \in Holdings(kind), c.thing = NoThing,
         HolderBecomes(h, c), GoesToClient(Has(h)), kind # "UniquePtr", CallTake(h)
  PROVE  Typed /\ OwnerStep
<1>1. {c.thing} \ {NoThing} = {}
  OBVIOUS
<1>2. Typed /\ hasOf' = [hasOf EXCEPT ![h] = {}]
  BY <1>1, BecomesTyped DEF GoesToClient
<1>3. Take(h)
  BY <1>2 DEF GoesToClient, Take, Come, CallTake
<1>. QED
  BY <1>2, <1>3 DEF OwnerStep

LEMMA Dying ==
  ASSUME HolderInv, kind \notin SharedKinds, kind # "UniquePtr", NEW h \in Holders,
         NEW c \in Holdings(kind), c.thing = NoThing,
         HolderBecomes(h, c), Destroys(Has(h)), CallDrop(h)
  PROVE  Typed /\ OwnerStep
<1>1. {c.thing} \ {NoThing} = {}
  OBVIOUS
<1>2. \A u \in Has(h) : home[u] = "global"
  BY HeldContent DEF HolderInv, HolderTypeInv, Holdings, Has
<1>3. fate' = Come(Has(h), "dead") /\ home' = home
  BY <1>2, DestroysDies
<1>4. Typed /\ hasOf' = [hasOf EXCEPT ![h] = {}]
  BY <1>1, <1>3, BecomesTyped
<1>. QED
  BY <1>3, <1>4 DEF OwnerStep, Drop

LEMMA Standing ==
  ASSUME HolderInv, NEW h \in Holders, IsGone(h), NEW c \in Holdings(kind), c.thing = NoThing,
         HolderBecomes(h, c), Nobody, CallDrop(h)
  PROVE  Typed /\ OwnerStep
<1>1. {c.thing} \ {NoThing} = {} /\ Has(h) = {}
  BY GoneIs DEF HolderInv
<1>2. Typed /\ hasOf' = [hasOf EXCEPT ![h] = {}]
  BY <1>1, BecomesTyped DEF Nobody
<1>3. fate' = Come(Has(h), "dead")
  BY <1>1 DEF Nobody, Come, HolderInv, HolderTypeInv
<1>. QED
  BY <1>2, <1>3 DEF OwnerStep, Drop

LEMMA MovingIn ==
  ASSUME HolderInv, NEW g \in Holders, NEW h \in Holders, IsGone(h),
         NEW d \in Holdings(kind), d.thing = NoThing,
         BothBecome(h, held[g], g, d), Nobody, CallMove(g, h)
  PROVE  Typed /\ OwnerStep
<1>1. Has(h) = {}
  BY GoneIs DEF HolderInv
<1>2. Typed /\ hasOf' = [hasOf EXCEPT ![h] = Has(g), ![g] = {}]
  BY MovedTyped DEF Nobody
<1>3. fate' = Come(Has(h), "dead")
  BY <1>1 DEF Nobody, Come, HolderInv, HolderTypeInv
<1>. QED
  BY <1>2, <1>3 DEF OwnerStep, Move

LEMMA MovingOnto ==
  ASSUME HolderInv, kind \notin SharedKinds, kind # "UniquePtr", NEW g \in Holders, NEW h \in Holders,
         NEW d \in Holdings(kind), d.thing = NoThing,
         BothBecome(h, held[g], g, d), Destroys(Has(h)), CallMove(g, h)
  PROVE  Typed /\ OwnerStep
<1>1. \A u \in Has(h) : home[u] = "global"
  BY HeldContent DEF HolderInv, HolderTypeInv, Holdings, Has
<1>2. fate' = Come(Has(h), "dead") /\ home' = home
  BY <1>1, DestroysDies
<1>3. Typed /\ hasOf' = [hasOf EXCEPT ![h] = Has(g), ![g] = {}]
  BY <1>2, MovedTyped
<1>. QED
  BY <1>2, <1>3 DEF OwnerStep, Move

-----------------------------------------------------------------------------
LEMMA OptionSteps ==
  ASSUME HolderLax = {}, HolderInv, kind = "Option", OptionNext
  PROVE  Typed /\ OwnerStep
<1>1. /\ \A t \in Things : Some(t) \in Holdings(kind) /\ Some(t).thing = t
      /\ None(NoThing) \in Holdings(kind) /\ None(NoThing).thing = NoThing
      /\ Gone \in Holdings(kind) /\ Gone.thing = NoThing
  BY NoThingAssumption DEF Holdings, TagsOf, EmptyTags, Variants, Some, None, Gone, Tagged
<1>2. ASSUME NEW h \in Holders, NEW t \in Things, OptionPut(h, t), CallPut(h, t)  PROVE Typed /\ OwnerStep
  BY <1>1, <1>2, Entering DEF OptionPut
<1>3. ASSUME NEW h \in Holders, OptionNone(h), CallDrop(h)  PROVE Typed /\ OwnerStep
  BY <1>1, <1>3, Standing DEF OptionNone
<1>4. ASSUME NEW h \in Holders, OptionDestroy(h), CallDrop(h)  PROVE Typed /\ OwnerStep
  BY <1>1, <1>4, Dying DEF OptionDestroy
<1>5. ASSUME NEW h \in Holders, OptionSome(h), CallTake(h)  PROVE Typed /\ OwnerStep
  <2>1. Has(h) # {}
    BY <1>5 DEF OptionSome, Has
  <2>. QED
    BY <1>1, <1>5, <2>1, Leaving DEF OptionSome
<1>6. ASSUME NEW g \in Holders, NEW h \in Holders, OptionMoveConstruct(g, h), CallMove(g, h)
      PROVE  Typed /\ OwnerStep
  <2>. DEFINE left == [held[g] EXCEPT !.thing = NoThing]
  <2>1. left \in Holdings(kind) /\ left.thing = NoThing
    BY HeldContent DEF Holdings, TagsOf, Variants
  <2>. QED
    BY <1>6, <2>1, MovingIn DEF OptionMoveConstruct
<1>7. ASSUME NEW g \in Holders, NEW h \in Holders, OptionMoveAssign(g, h), CallMove(g, h)
      PROVE  Typed /\ OwnerStep
  BY <1>1, <1>7, MovingOnto DEF OptionMoveAssign
<1>. QED
  BY <1>2, <1>3, <1>4, <1>5, <1>6, <1>7 DEF OptionNext

LEMMA ResultSteps ==
  ASSUME HolderLax = {}, HolderInv, kind = "Result", ResultNext
  PROVE  Typed /\ OwnerStep
<1>1. /\ \A t \in Things, v \in Variants : Tagged(v, t) \in Holdings(kind) /\ Tagged(v, t).thing = t
      /\ Invalid \in Holdings(kind) /\ Invalid.thing = NoThing
      /\ Gone \in Holdings(kind) /\ Gone.thing = NoThing
  BY NoThingAssumption DEF Holdings, TagsOf, EmptyTags, Variants, Invalid, Gone, Tagged
<1>2. ASSUME NEW h \in Holders, NEW v \in Variants, NEW t \in Things, ResultMake(h, t, v), CallPut(h, t)
      PROVE  Typed /\ OwnerStep
  <2>1. Has(h) = {}
    BY <1>2, GoneIs DEF ResultMake, HolderInv
  <2>. QED
    BY <1>1, <1>2, <2>1, Entering DEF ResultMake, OfVariant
<1>3. ASSUME NEW h \in Holders, NEW v \in Variants, ResultTake(h, v), CallTake(h)
      PROVE  Typed /\ OwnerStep
  <2>1. Has(h) # {}
    BY <1>3, HeldContent DEF ResultTake, Holdings, Has
  <2>. QED
    BY <1>1, <1>3, <2>1, Leaving DEF ResultTake
<1>4. ASSUME NEW h \in Holders, ResultDestroy(h), CallDrop(h)  PROVE Typed /\ OwnerStep
  <2>1. Destroys(Has(h))
    BY <1>4, HeldContent DEF ResultDestroy, Holdings, TagsOf, EmptyTags, Variants
  <2>. QED
    BY <1>1, <1>4, <2>1, Dying DEF ResultDestroy
<1>5. ASSUME NEW g \in Holders, NEW h \in Holders, ResultMoveConstruct(g, h), CallMove(g, h)
      PROVE  Typed /\ OwnerStep
  <2>1. Has(g) = {} /\ held[g].thing = NoThing /\ held[g] \in Holdings(kind)
    BY <1>5, HeldContent DEF ResultMoveConstruct, Has
  <2>2. BothBecome(h, held[g], g, held[g])
    BY <1>5, <2>1 DEF ResultMoveConstruct, HolderBecomes, BothBecome, HolderInv, HolderTypeInv, Holdings
  <2>. QED
    BY <1>5, <2>1, <2>2, MovingIn DEF ResultMoveConstruct
<1>. QED
  BY <1>2, <1>3, <1>4, <1>5 DEF ResultNext

LEMMA JobSteps ==
  ASSUME HolderLax = {}, HolderInv, kind = "JobContainer", JobContainerNext
  PROVE  Typed /\ OwnerStep
<1>1. /\ \A t \in Things : InPlace(t) \in Holdings(kind) /\ InPlace(t).thing = t
      /\ Unbound \in Holdings(kind) /\ Unbound.thing = NoThing
      /\ Gone \in Holdings(kind) /\ Gone.thing = NoThing
  BY DEF Holdings, TagsOf, EmptyTags, Variants, InPlace, Unbound, Gone, Tagged
\* With arguments in place, what is bound is destroyed.
<1>2. \A h \in Holders : Destruct(h) => Destroys(Has(h))
  BY HeldContent DEF Destruct, Holdings, TagsOf, EmptyTags
<1>3. ASSUME NEW h \in Holders, NEW t \in Things, NEW bound \in {InPlace(t), OnHeap(t)},
             JobBind(h, t, bound), CallPut(h, t)
      PROVE  Typed /\ OwnerStep
  <2>1. Has(h) = {} /\ bound = InPlace(t)
    BY <1>3, GoneIs DEF JobBind, HolderInv
  <2>. QED
    BY <1>1, <1>3, <2>1, Entering DEF JobBind
<1>4. ASSUME NEW h \in Holders, JobEmpty(h), CallDrop(h)  PROVE Typed /\ OwnerStep
  BY <1>1, <1>4, Standing DEF JobEmpty
<1>5. ASSUME NEW h \in Holders, JobDestroy(h), CallDrop(h)  PROVE Typed /\ OwnerStep
  BY <1>1, <1>2, <1>5, Dying DEF JobDestroy
<1>6. ASSUME NEW g \in Holders, NEW h \in Holders, JobMoveConstruct(g, h), CallMove(g, h)
      PROVE  Typed /\ OwnerStep
  BY <1>1, <1>6, MovingIn DEF JobMoveConstruct
<1>7. ASSUME NEW g \in Holders, NEW h \in Holders, JobMoveAssign(g, h), CallMove(g, h)
      PROVE  Typed /\ OwnerStep
  BY <1>1, <1>2, <1>7, MovingOnto DEF JobMoveAssign
<1>. QED
  BY <1>3, <1>4, <1>5, <1>6, <1>7 DEF JobContainerNext

\* A copy is a new thing that enters, or what was held dies and nothing is in its place.
LEMMA JsonSteps ==
  ASSUME HolderLax = {}, HolderInv, kind = "JsonValue", JsonNext
  PROVE  Typed /\ OwnerStep
<1>1. /\ \A t \in Things \cup {NoThing} : Json(t) \in Holdings(kind) /\ Json(t).thing = t
      /\ Gone \in Holdings(kind) /\ Gone.thing = NoThing
  BY DEF Holdings, TagsOf, EmptyTags, Variants, Json, Gone, Tagged
<1>2. ASSUME NEW h \in Holders, NEW t \in Things, JsonMake(h, t), CallPut(h, t)
      PROVE  Typed /\ OwnerStep
  <2>1. Has(h) = {}
    BY <1>2, GoneIs DEF JsonMake, HolderInv
  <2>. QED
    BY <1>1, <1>2, <2>1, Entering DEF JsonMake
<1>3. ASSUME NEW h \in Holders, JsonScalar(h), CallDrop(h)  PROVE Typed /\ OwnerStep
  BY <1>1, <1>3, Standing DEF JsonScalar
<1>4. ASSUME NEW h \in Holders, JsonDestroy(h), CallDrop(h)  PROVE Typed /\ OwnerStep
  BY <1>1, <1>4, Dying DEF JsonDestroy
<1>5. ASSUME NEW g \in Holders, NEW h \in Holders, NEW t \in Things,
             JsonCopyConstruct(g, h, t) \/ JsonCopyAssign(g, h, t)
      PROVE  Typed /\ OwnerStep
  <2>1. g # h /\ JsonCopies(g, h, t)
    BY <1>5 DEF JsonCopyConstruct, JsonCopyAssign, Stands
  <2>2. CASE Has(g) = {}
    BY <1>1, <2>1, <2>2, Dying DEF JsonCopies
  <2>3. CASE Has(g) # {}
    BY <1>1, <2>1, <2>3, Entering DEF JsonCopies
  <2>. QED
    BY <2>2, <2>3
<1>6. ASSUME NEW g \in Holders, NEW h \in Holders, JsonMoveConstruct(g, h), CallMove(g, h)
      PROVE  Typed /\ OwnerStep
  BY <1>1, <1>6, MovingIn DEF JsonMoveConstruct
<1>7. ASSUME NEW g \in Holders, NEW h \in Holders, JsonMoveAssign(g, h), CallMove(g, h)
      PROVE  Typed /\ OwnerStep
  BY <1>1, <1>7, MovingOnto DEF JsonMoveAssign
<1>. QED
  BY <1>2, <1>3, <1>4, <1>5, <1>6, <1>7 DEF JsonNext

-----------------------------------------------------------------------------
(* Callbacks, function pointers and references, which own nothing *)

SharedStep ==
  \/ \E h \in Holders, t \in Things : CallPut(h, t) /\ hasOf' = [hasOf EXCEPT ![h] = {t}]
  \/ \E h \in Holders : CallDrop(h) /\ hasOf' = [hasOf EXCEPT ![h] = {}]
  \/ \E h \in Holders :
       Has(h) # {} /\ call' = <<"take", h>> /\ hasOf' = [hasOf EXCEPT ![h] = {}]
  \/ \E g, h \in Holders :
       \/ CallMove(g, h) /\ hasOf' = [hasOf EXCEPT ![h] = Has(g), ![g] = {}]
       \/ CallCopy(g, h) /\ hasOf' = [hasOf EXCEPT ![h] = Has(g)]

LEMMA CallbackSteps ==
  ASSUME HolderLax = {}, HolderInv, kind = "Callback", CallbackNext
  PROVE  Typed /\ SharedStep /\ fate' = fate
<1>1. /\ \A t \in Things \cup {NoThing} : /\ Callback(t) \in Holdings(kind)
                                        /\ Callback(t).thing = t
      /\ \A t \in Things : {t} \ {NoThing} = {t}
      /\ Gone \in Holdings(kind) /\ Gone.thing = NoThing
  BY NoThingAssumption DEF Holdings, TagsOf, EmptyTags, Variants, Callback, Gone, Tagged
<1>2. ASSUME NEW h \in Holders, NEW t \in Things, CallbackBind(h, t), CallPut(h, t)
      PROVE  Typed /\ SharedStep /\ fate' = fate
  BY <1>1, <1>2, BecomesTyped DEF CallbackBind, Nobody, SharedStep
<1>3. ASSUME NEW h \in Holders, CallbackDefault(h) \/ CallbackDestroy(h), CallDrop(h)
      PROVE  Typed /\ SharedStep /\ fate' = fate
  <2>1. Typed /\ hasOf' = [hasOf EXCEPT ![h] = {}] /\ fate' = fate
    BY <1>1, <1>3, BecomesTyped DEF CallbackDefault, CallbackDestroy, Nobody
  <2>. QED
    BY <1>3, <2>1 DEF SharedStep
<1>4. ASSUME NEW g \in Holders, NEW h \in Holders,
             CallbackCopyConstruct(g, h) \/ CallbackCopyAssign(g, h), CallCopy(g, h)
      PROVE  Typed /\ SharedStep /\ fate' = fate
  <2>1. HolderBecomes(h, held[g]) /\ home' = home /\ fate' = fate
    BY <1>4 DEF CallbackCopyConstruct, CallbackCopyAssign, Nobody
  <2>2. held[g] \in Holdings(kind) /\ {held[g].thing} \ {NoThing} = Has(g)
    BY HeldContent
  <2>3. Typed /\ hasOf' = [hasOf EXCEPT ![h] = {held[g].thing} \ {NoThing}]
    BY <2>1, <2>2, BecomesTyped
  <2>. QED
    BY <1>4, <2>1, <2>2, <2>3 DEF SharedStep
<1>5. ASSUME NEW g \in Holders, NEW h \in Holders, CallbackMove(g, h), CallMove(g, h)
      PROVE  Typed /\ SharedStep /\ fate' = fate
  <2>1. Typed /\ hasOf' = [hasOf EXCEPT ![h] = Has(g), ![g] = {}]
    BY <1>1, <1>5, MovedTyped DEF CallbackMove, Nobody
  <2>. QED
    BY <1>5, <2>1 DEF SharedStep, CallbackMove, Nobody
<1>. QED
  BY <1>2, <1>3, <1>4, <1>5 DEF CallbackNext

LEMMA FptrSteps ==
  ASSUME HolderInv, kind = "Fptr", FptrNext
  PROVE  Typed /\ SharedStep /\ fate' = fate
<1>1. /\ \A t \in Things \cup {NoThing} : Fptr(t) \in Holdings(kind) /\ Fptr(t).thing = t
      /\ \A t \in Things : {t} \ {NoThing} = {t}
      /\ Gone \in Holdings(kind) /\ Gone.thing = NoThing
  BY NoThingAssumption DEF Holdings, TagsOf, EmptyTags, Variants, Fptr, Gone, Tagged
<1>2. ASSUME NEW h \in Holders, NEW t \in Things, FptrBind(h, t), CallPut(h, t)
      PROVE  Typed /\ SharedStep /\ fate' = fate
  BY <1>1, <1>2, BecomesTyped DEF FptrBind, Nobody, SharedStep
<1>3. ASSUME NEW h \in Holders, FptrDefault(h) \/ FptrDestroy(h), CallDrop(h)
      PROVE  Typed /\ SharedStep /\ fate' = fate
  <2>1. Typed /\ hasOf' = [hasOf EXCEPT ![h] = {}] /\ fate' = fate
    BY <1>1, <1>3, BecomesTyped DEF FptrDefault, FptrDestroy, Nobody
  <2>. QED
    BY <1>3, <2>1 DEF SharedStep
<1>4. ASSUME NEW g \in Holders, NEW h \in Holders, FptrCopy(g, h), CallCopy(g, h)
      PROVE  Typed /\ SharedStep /\ fate' = fate
  <2>1. held[g] \in Holdings(kind) /\ {held[g].thing} \ {NoThing} = Has(g)
    BY HeldContent
  <2>2. Typed /\ hasOf' = [hasOf EXCEPT ![h] = {held[g].thing} \ {NoThing}]
    BY <1>4, <2>1, BecomesTyped DEF FptrCopy, Nobody
  <2>. QED
    BY <1>4, <2>1, <2>2 DEF SharedStep, FptrCopy, Nobody
<1>5. ASSUME NEW g \in Holders, NEW h \in Holders, FptrMove(g, h), CallMove(g, h)
      PROVE  Typed /\ SharedStep /\ fate' = fate
  <2>1. Typed /\ hasOf' = [hasOf EXCEPT ![h] = Has(g), ![g] = {}]
    BY <1>1, <1>5, MovedTyped DEF FptrMove, Nobody
  <2>. QED
    BY <1>5, <2>1 DEF SharedStep, FptrMove, Nobody
<1>. QED
  BY <1>2, <1>3, <1>4, <1>5 DEF FptrNext

LEMMA ReferenceSteps ==
  ASSUME HolderInv, kind = "Reference", ReferenceNext
  PROVE  Typed /\ SharedStep /\ fate' = fate
<1>1. /\ \A t \in Things \cup {NoThing} : /\ Reference(t) \in Holdings(kind)
                                        /\ Reference(t).thing = t
      /\ \A t \in Things : {t} \ {NoThing} = {t}
      /\ Gone \in Holdings(kind) /\ Gone.thing = NoThing
  BY NoThingAssumption DEF Holdings, TagsOf, EmptyTags, Variants, Reference, Gone, Tagged
<1>2. ASSUME NEW h \in Holders, NEW t \in Things, ReferencePut(h, t), CallPut(h, t)
      PROVE  Typed /\ SharedStep /\ fate' = fate
  BY <1>1, <1>2, BecomesTyped DEF ReferencePut, Nobody, SharedStep
<1>3. ASSUME NEW h \in Holders, ReferenceNone(h) \/ ReferenceDestroy(h), CallDrop(h)
      PROVE  Typed /\ SharedStep /\ fate' = fate
  <2>1. Typed /\ hasOf' = [hasOf EXCEPT ![h] = {}] /\ fate' = fate
    BY <1>1, <1>3, BecomesTyped DEF ReferenceNone, ReferenceDestroy, Nobody
  <2>. QED
    BY <1>3, <2>1 DEF SharedStep
<1>4. ASSUME NEW h \in Holders, ReferenceSome(h), CallTake(h)
      PROVE  Typed /\ SharedStep /\ fate' = fate
  <2>1. Typed /\ hasOf' = [hasOf EXCEPT ![h] = {}] /\ fate' = fate
    BY <1>1, <1>4, BecomesTyped DEF ReferenceSome, Nobody
  <2>. QED
    BY <1>4, <2>1 DEF SharedStep, CallTake, ReferenceSome
<1>5. ASSUME NEW g \in Holders, NEW h \in Holders, ReferenceMove(g, h), CallMove(g, h)
      PROVE  Typed /\ SharedStep /\ fate' = fate
  <2>1. Typed /\ hasOf' = [hasOf EXCEPT ![h] = Has(g), ![g] = {}]
    BY <1>1, <1>5, MovedTyped DEF ReferenceMove, Nobody
  <2>. QED
    BY <1>5, <2>1 DEF SharedStep, ReferenceMove, Nobody
<1>. QED
  BY <1>2, <1>3, <1>4, <1>5 DEF ReferenceNext

LEMMA SharedRefines ==
  ASSUME HolderInv, HolderInv', kind \in SharedKinds, kind' = kind, SharedStep, fate' = fate
  PROVE  Refined
<1>1. HolderTypeInv' => (\A h \in Holders : Shown(h) = Has(h))'
  BY ShownIsHas, PTL
<1>2. /\ [h \in Holders |-> Shown(h)] = hasOf
      /\ [h \in Holders |-> Shown(h)]' = hasOf'
  BY <1>1, ShownIsHas DEF HolderInv, hasOf
<1>3. hasOf \in [Holders -> SUBSET Things] /\ \A h \in Holders : hasOf[h] = Has(h)
  BY HasSubset DEF HolderInv, hasOf
<1>4. \A S, f : Holding!Come(S, f) = fate
  BY DEF Holding!Come, HolderInv, HolderTypeInv
<1>. QED
  BY <1>2, <1>3, <1>4 DEF SharedStep, CallPut, CallDrop, CallMove, CallCopy, Refined,
     Holding!Next, Holding!Put, Holding!Drop, Holding!Take, Holding!Move, Holding!Copy

-----------------------------------------------------------------------------
LEMMA StepRefines ==
  ASSUME HolderLax = {}, HolderInv, [HolderNext]_holderVars
  PROVE  HolderInv' /\ Refined
<1>1. CASE UNCHANGED holderVars
  BY <1>1 DEF holderVars, HolderInv, HolderTypeInv, HeldOnce, Has, Shown, Refined, Holding!holdingVars
<1>2. CASE HolderNext /\ kind \notin SharedKinds
  <2>1. kind' = kind /\ Typed /\ OwnerStep
    BY <1>2, UniqueSteps, OptionSteps, ResultSteps, JobSteps, JsonSteps DEF HolderNext
  <2>. QED
    BY <1>2, <2>1, OwnerKeeps, OwnerRefines
<1>3. CASE HolderNext /\ kind \in SharedKinds
  <2>1. kind' = kind /\ Typed /\ SharedStep /\ fate' = fate
    BY <1>3, CallbackSteps, FptrSteps, ReferenceSteps DEF HolderNext
  <2>2. HolderInv'
    BY <1>3, <2>1 DEF HolderInv, HolderTypeInv, HeldOnce, Typed
  <2>. QED
    BY <1>3, <2>1, <2>2, SharedRefines
<1>. QED
  BY <1>1, <1>2, <1>3

\* Holders of all eight types implement Holding, for any places and any things,
\* when their clients make none of the calls in HolderLax.
THEOREM ImplementsHolding == ASSUME HolderLax = {} PROVE HolderSpec => HoldingSpec
<1>1. HolderInit => HolderInv /\ Holding!Init
  BY DEF HolderInit, HolderInv, HolderTypeInv, HeldOnce, Kinds, Heaps, Holdings, TagsOf, EmptyTags, Variants,
     Gone, Tagged, Has, Shown, Holding!Init
<1>2. HolderInv /\ [HolderNext]_holderVars => HolderInv' /\ [Holding!Next]_(Holding!holdingVars)
  BY StepRefines DEF Refined
<1>. QED
  BY <1>1, <1>2, PTL DEF HolderSpec, HoldingSpec, Holding!Spec

-----------------------------------------------------------------------------
(* Guards *)

GuardKinds == {"null", "read", "write"}

\* Where the guards s of a thread have one that is g, and no two.
Among(s, g) == \E i \in DOMAIN s : s[i] = g
Once(s, g) == \A i, j \in DOMAIN s : s[i] = g /\ s[j] = g => i = j

GuardsTypeInv ==
  /\ readers \in SUBSET Lockers
  /\ writer \in Lockers \cup {NoThread}
  /\ data \in Nat
  /\ primitive \in {"Mutex", "RwLock"}
  /\ guards \in [Lockers -> Seq(GuardKinds)]
  /\ loaded \in [Lockers -> Nat \cup {NoLoad}]

\* Who holds the lock is who has the one guard that points to it.
LockInv ==
  /\ writer # NoThread => readers = {}
  /\ \A t \in Lockers :
       /\ Among(guards[t], "read") <=> t \in readers
       /\ Among(guards[t], "write") <=> t = writer
       /\ Once(guards[t], "read") /\ Once(guards[t], "write")

\* What was read is still there, and its reader still holds the lock.
UseInv ==
  /\ data = increments
  /\ \A t \in Lockers : loaded[t] # NoLoad => loaded[t] = data /\ (t \in readers \/ t = writer)

GuardsInv == GuardsTypeInv /\ LockInv /\ UseInv

-----------------------------------------------------------------------------
(* Sequences of guards *)


LEMMA TakenAt ==
  ASSUME NEW S, NEW s \in Seq(S), NEW i \in 1 .. Len(s)
  PROVE  /\ Seqs!RemoveAt(s, i) \in Seq(S) /\ Len(Seqs!RemoveAt(s, i)) = Len(s) - 1
         /\ \A j \in 1 .. Len(s) - 1 : Seqs!RemoveAt(s, i)[j] = IF j < i THEN s[j] ELSE s[j + 1]
<1> DEFINE a == SubSeq(s, 1, i - 1)
           b == SubSeq(s, i + 1, Len(s))
<1>1. /\ a \in Seq(S) /\ Len(a) = i - 1
      /\ \A j \in 1 .. i - 1 : a[j] = s[j]
  BY SubSeqIs
<1>2. /\ b \in Seq(S) /\ Len(b) = Len(s) - i
      /\ \A j \in 1 .. Len(s) - i : b[j] = s[i + j]
  BY SubSeqIs
<1> HIDE DEF a, b
<1>3. /\ a \o b \in Seq(S) /\ Len(a \o b) = Len(a) + Len(b)
      /\ \A j \in 1 .. Len(a) + Len(b) : (a \o b)[j] = IF j <= Len(a) THEN a[j] ELSE b[j - Len(a)]
  BY <1>1, <1>2, ConcatIs
<1>4. \A j \in 1 .. Len(s) - 1 : (a \o b)[j] = IF j < i THEN s[j] ELSE s[j + 1]
  BY <1>1, <1>2, <1>3
<1>5. Seqs!RemoveAt(s, i) = a \o b
  BY DEF Seqs!RemoveAt, a, b
<1>6. Len(a \o b) = Len(s) - 1
  BY <1>1, <1>2, <1>3
<1>7. QED
  BY <1>3, <1>4, <1>5, <1>6, Zenon

LEMMA GuardAppended ==
  ASSUME NEW s \in Seq(GuardKinds), NEW g \in GuardKinds
  PROVE  /\ Append(s, g) \in Seq(GuardKinds)
         /\ \A h \in GuardKinds : Among(Append(s, g), h) <=> Among(s, h) \/ h = g
         /\ \A h \in GuardKinds : Once(s, h) /\ (h = g => ~Among(s, h)) => Once(Append(s, g), h)
<1> DEFINE u == Append(s, g)
<1>1. u \in Seq(GuardKinds) /\ Len(u) = Len(s) + 1 /\ DOMAIN u = 1 .. Len(s) + 1 /\ DOMAIN s = 1 .. Len(s)
      /\ (\A i \in DOMAIN s : u[i] = s[i]) /\ u[Len(s) + 1] = g /\ Len(s) \in Nat
  OBVIOUS
<1> HIDE DEF u
<1>2. ASSUME NEW h \in GuardKinds  PROVE Among(u, h) <=> Among(s, h) \/ h = g
  BY <1>1 DEF Among
<1>3. ASSUME NEW h \in GuardKinds, Once(s, h), h = g => ~Among(s, h)  PROVE Once(u, h)
  BY <1>1, <1>3 DEF Once, Among
<1>4. QED
  BY <1>1, <1>2, <1>3 DEF u

LEMMA GuardMoved ==
  ASSUME NEW s \in Seq(GuardKinds), NEW i \in DOMAIN s
  PROVE  LET u == Append([s EXCEPT ![i] = "null"], s[i]) IN
         /\ u \in Seq(GuardKinds)
         /\ \A h \in {"read", "write"} : (Among(u, h) <=> Among(s, h)) /\ (Once(s, h) => Once(u, h))
<1> DEFINE r == [s EXCEPT ![i] = "null"]
<1>1. r \in Seq(GuardKinds) /\ Len(r) = Len(s)
  BY DEF GuardKinds
<1>2. s[i] \in GuardKinds /\ DOMAIN r = DOMAIN s
  OBVIOUS
<1>3. \A j \in DOMAIN s : r[j] = IF j = i THEN "null" ELSE s[j]
  OBVIOUS
<1> HIDE DEF r
<1>4. ASSUME NEW h \in {"read", "write"}
      PROVE  (Among(Append(r, s[i]), h) <=> Among(s, h)) /\ (Once(s, h) => Once(Append(r, s[i]), h))
  <2>1. h \in GuardKinds /\ h # "null"
    BY DEF GuardKinds
  <2>2. Among(r, h) \/ h = s[i] <=> Among(s, h)
    BY <1>2, <1>3, <2>1 DEF Among
  <2>3. Once(s, h) => Once(r, h) /\ (h = s[i] => ~Among(r, h))
    BY <1>2, <1>3, <2>1 DEF Among, Once
  <2>4. QED
    BY <1>1, <1>2, <2>1, <2>2, <2>3, GuardAppended
<1>5. QED
  BY <1>1, <1>2, <1>4, GuardAppended DEF r

LEMMA GuardRemoved ==
  ASSUME NEW s \in Seq(GuardKinds), NEW i \in DOMAIN s
  PROVE  /\ Seqs!RemoveAt(s, i) \in Seq(GuardKinds)
         /\ \A h \in GuardKinds : h # s[i] => (Among(Seqs!RemoveAt(s, i), h) <=> Among(s, h))
         /\ \A h \in GuardKinds : Once(s, h) => Once(Seqs!RemoveAt(s, i), h)
         /\ Once(s, s[i]) => ~Among(Seqs!RemoveAt(s, i), s[i])
<1> DEFINE u == Seqs!RemoveAt(s, i)
<1>1. i \in 1 .. Len(s) /\ Len(s) \in Nat /\ DOMAIN s = 1 .. Len(s)
  OBVIOUS
<1>0. /\ u \in Seq(GuardKinds) /\ Len(u) = Len(s) - 1
      /\ \A j \in 1 .. Len(s) - 1 : u[j] = IF j < i THEN s[j] ELSE s[j + 1]
  BY <1>1, TakenAt, Zenon
<1> HIDE DEF u
<1>2. u \in Seq(GuardKinds) /\ Len(u) = Len(s) - 1
      /\ DOMAIN u = 1 .. Len(s) - 1 /\ \A j \in 1 .. Len(s) - 1 : u[j] = IF j < i THEN s[j] ELSE s[j + 1]
  BY <1>0
<1>3. \A j \in DOMAIN u : \E k \in DOMAIN s : k # i /\ u[j] = s[k] /\ k = IF j < i THEN j ELSE j + 1
  BY <1>1, <1>2
<1>4. \A k \in DOMAIN s : k # i => \E j \in DOMAIN u : u[j] = s[k]
  <2> TAKE k \in DOMAIN s
  <2> HAVE k # i
  <2>1. CASE k < i  BY <1>1, <1>2, <2>1
  <2>2. CASE k > i
    <3>1. k - 1 \in DOMAIN u /\ u[k - 1] = s[k]  BY <1>1, <1>2, <2>2
    <3>2. QED  BY <3>1
  <2>3. QED  BY <1>1, <2>1, <2>2
<1>5. ASSUME NEW h \in GuardKinds, h # s[i]  PROVE Among(u, h) <=> Among(s, h)
  BY <1>3, <1>4, <1>5 DEF Among
<1>6. ASSUME NEW h \in GuardKinds, Once(s, h)  PROVE Once(u, h)
  <2> SUFFICES ASSUME NEW j \in DOMAIN u, NEW k \in DOMAIN u, u[j] = h, u[k] = h  PROVE j = k
    BY DEF Once
  <2>1. PICK a \in DOMAIN s : a # i /\ u[j] = s[a] /\ a = IF j < i THEN j ELSE j + 1  BY <1>3
  <2>2. PICK b \in DOMAIN s : b # i /\ u[k] = s[b] /\ b = IF k < i THEN k ELSE k + 1  BY <1>3
  <2>3. a = b  BY <1>6, <2>1, <2>2 DEF Once
  <2>4. QED  BY <1>1, <1>2, <2>1, <2>2, <2>3
<1>7. Once(s, s[i]) => ~Among(u, s[i])
  BY <1>3 DEF Once, Among
<1>8. QED
  BY <1>2, <1>5, <1>6, <1>7 DEF u

-----------------------------------------------------------------------------
(* The actions *)

LEMMA GuardsInitSound == GuardsInit => GuardsInv
  BY NobodyAssumption DEF GuardsInit, GuardsInv, GuardsTypeInv, LockInv, UseInv, Among, Once, SRWLock!LockInit

\* A guard comes to t and, unless it is a null one, with it the lock.
LEMMA LockedStep ==
  ASSUME GuardsInv, NEW t \in Lockers, NEW g \in GuardKinds, Locked(t, g),
         g = "null" => UNCHANGED <<readers, writer>>,
         g = "read" => t \notin readers /\ SRWLock!ReadLock(t),
         g = "write" => SRWLock!WriteLock(t)
  PROVE  GuardsInv'
<1> DEFINE s == guards[t]
<1>1. s \in Seq(GuardKinds)
  BY DEF GuardsInv, GuardsTypeInv
<1>2. /\ guards' = [guards EXCEPT ![t] = Append(s, g)]
      /\ UNCHANGED <<data, primitive, loaded, increments>>
  BY DEF Locked
<1>3. Append(s, g) \in Seq(GuardKinds)
  BY <1>1
<1>4. readers' \in SUBSET Lockers /\ writer' \in Lockers \cup {NoThread}
  BY DEF GuardsInv, GuardsTypeInv, SRWLock!ReadLock, SRWLock!WriteLock, GuardKinds
<1>5. GuardsTypeInv'
  BY <1>2, <1>3, <1>4 DEF GuardsInv, GuardsTypeInv
<1>6. \A u \in Lockers : u # t => /\ guards'[u] = guards[u] /\ (u \in readers' <=> u \in readers)
                                  /\ (u = writer' <=> u = writer)
  BY <1>2, NobodyAssumption DEF GuardsInv, GuardsTypeInv, SRWLock!ReadLock, SRWLock!WriteLock, GuardKinds
<1>7. guards'[t] = Append(s, g)
  BY <1>2 DEF GuardsInv, GuardsTypeInv
<1>8. /\ t \in readers' <=> t \in readers \/ g = "read"
      /\ t = writer' <=> t = writer \/ g = "write"
      /\ g = "read" => t \notin readers
      /\ g = "write" => t # writer
      /\ writer' # NoThread => readers' = {}
  BY NobodyAssumption DEF GuardsInv, GuardsTypeInv, LockInv, SRWLock!ReadLock, SRWLock!WriteLock, GuardKinds
<1>9. LockInv'
  <2>1. ASSUME NEW u \in Lockers
        PROVE  /\ Among(guards'[u], "read") <=> u \in readers'
               /\ Among(guards'[u], "write") <=> u = writer'
               /\ Once(guards'[u], "read") /\ Once(guards'[u], "write")
    <3>1. CASE u # t
      BY <1>6, <3>1 DEF GuardsInv, LockInv
    <3>2. CASE u = t
      <4>1. /\ Among(s, "read") <=> t \in readers
            /\ Among(s, "write") <=> t = writer
            /\ Once(s, "read") /\ Once(s, "write")
        BY DEF GuardsInv, LockInv
      <4>2. /\ \A h \in GuardKinds : Among(guards'[t], h) <=> Among(s, h) \/ h = g
            /\ \A h \in GuardKinds : Once(s, h) /\ (h = g => ~Among(s, h)) => Once(guards'[t], h)
        BY <1>1, <1>7, GuardAppended
      <4>3. QED
        BY <1>8, <3>2, <4>1, <4>2 DEF GuardKinds
    <3>3. QED
      BY <3>1, <3>2
  <2>2. QED
    BY <1>8, <2>1 DEF LockInv
<1>10. UseInv'
  BY <1>2, <1>6, <1>8 DEF GuardsInv, UseInv
<1>11. QED
  BY <1>5, <1>9, <1>10 DEF GuardsInv

LEMMA MoveGuardStep ==
  ASSUME GuardsInv, NEW t \in Lockers, NEW i \in 1 .. MaxGuards, MoveGuard(t, i)
  PROVE  GuardsInv'
<1> DEFINE s == guards[t]
           u == Append([s EXCEPT ![i] = "null"], s[i])
<1>1. s \in Seq(GuardKinds) /\ i \in DOMAIN s
  BY DEF GuardsInv, GuardsTypeInv, MoveGuard
<1>2. /\ guards' = [guards EXCEPT ![t] = u]
      /\ UNCHANGED <<readers, writer, data, primitive, loaded, increments>>
  BY DEF MoveGuard, MovedFrom
<1>3. /\ u \in Seq(GuardKinds)
      /\ \A h \in {"read", "write"} : (Among(u, h) <=> Among(s, h)) /\ (Once(s, h) => Once(u, h))
  BY <1>1, GuardMoved
<1> HIDE DEF u
<1>4. \A x \in Lockers : guards'[x] = IF x = t THEN u ELSE guards[x]
  BY <1>2 DEF GuardsInv, GuardsTypeInv
<1>5. GuardsTypeInv'
  BY <1>2, <1>3 DEF GuardsInv, GuardsTypeInv
<1>6. LockInv'
  BY <1>2, <1>3, <1>4 DEF GuardsInv, LockInv
<1>7. UseInv'
  BY <1>2 DEF GuardsInv, UseInv
<1>8. QED
  BY <1>5, <1>6, <1>7 DEF GuardsInv

LEMMA DestroyGuardStep ==
  ASSUME GuardsInv, NEW t \in Lockers, NEW i \in 1 .. MaxGuards, DestroyGuard(t, i)
  PROVE  GuardsInv'
<1> DEFINE s == guards[t]
           u == Seqs!RemoveAt(s, i)
<1>1. s \in Seq(GuardKinds) /\ i \in DOMAIN s /\ s[i] \in GuardKinds
  <2>1. s \in Seq(GuardKinds) /\ i \in DOMAIN s
    BY DEF GuardsInv, GuardsTypeInv, DestroyGuard
  <2>2. QED
    BY <2>1
<1>2. /\ guards' = [guards EXCEPT ![t] = u]
      /\ UNCHANGED <<data, primitive, loaded, increments>>
  BY DEF DestroyGuard
<1>3. /\ u \in Seq(GuardKinds)
      /\ \A h \in GuardKinds : h # s[i] => (Among(u, h) <=> Among(s, h))
      /\ \A h \in GuardKinds : Once(s, h) => Once(u, h)
      /\ Once(s, s[i]) => ~Among(u, s[i])
  BY <1>1, GuardRemoved
<1>4. /\ s[i] = "null" => UNCHANGED <<readers, writer>>
      /\ s[i] = "read" => loaded[t] = NoLoad /\ SRWLock!ReadUnlock(t)
      /\ s[i] = "write" => loaded[t] = NoLoad /\ SRWLock!WriteUnlock(t)
  BY DEF DestroyGuard
<1> HIDE DEF u
<1>5. \A x \in Lockers : guards'[x] = IF x = t THEN u ELSE guards[x]
  BY <1>2 DEF GuardsInv, GuardsTypeInv
<1>6. readers' \in SUBSET Lockers /\ writer' \in Lockers \cup {NoThread}
  BY <1>1, <1>4 DEF GuardsInv, GuardsTypeInv, SRWLock!ReadUnlock, SRWLock!WriteUnlock, GuardKinds
<1>7. GuardsTypeInv'
  BY <1>2, <1>3, <1>6 DEF GuardsInv, GuardsTypeInv
<1>8. /\ \A x \in Lockers : x \in readers' <=> x \in readers /\ ~(x = t /\ s[i] = "read")
      /\ \A x \in Lockers : x = writer' <=> x = writer /\ ~(x = t /\ s[i] = "write")
      /\ writer' # NoThread => readers' = {}
  BY <1>1, <1>4, NobodyAssumption
     DEF GuardsInv, GuardsTypeInv, LockInv, SRWLock!ReadUnlock, SRWLock!WriteUnlock, GuardKinds
<1>9. LockInv'
  <2>1. ASSUME NEW x \in Lockers
        PROVE  /\ Among(guards'[x], "read") <=> x \in readers'
               /\ Among(guards'[x], "write") <=> x = writer'
               /\ Once(guards'[x], "read") /\ Once(guards'[x], "write")
    <3>1. CASE x # t
      BY <1>5, <1>8, <3>1 DEF GuardsInv, LockInv
    <3>2. CASE x = t
      <4>1. /\ Among(s, "read") <=> t \in readers
            /\ Among(s, "write") <=> t = writer
            /\ Once(s, "read") /\ Once(s, "write")
        BY DEF GuardsInv, LockInv
      <4>2. QED
        BY <1>1, <1>3, <1>5, <1>8, <3>2, <4>1 DEF GuardKinds
    <3>3. QED
      BY <3>1, <3>2
  <2>2. QED
    BY <1>8, <2>1 DEF LockInv
<1>10. UseInv'
  BY <1>1, <1>2, <1>4, <1>8 DEF GuardsInv, UseInv, GuardKinds
<1>11. QED
  BY <1>7, <1>9, <1>10 DEF GuardsInv

\* Reading through a guard, which is one that holds the lock.
LEMMA GetStep ==
  ASSUME GuardsInv, NEW t \in Lockers, NEW i \in 1 .. MaxGuards, Get(t, i)
  PROVE  GuardsInv'
<1>1. /\ loaded' = [loaded EXCEPT ![t] = data]
      /\ UNCHANGED <<readers, writer, data, primitive, guards, increments>>
      /\ i \in DOMAIN guards[t] /\ guards[t][i] # "null"
  BY DEF Get
<1>2. guards[t][i] \in {"read", "write"}
  <2>1. guards[t] \in Seq(GuardKinds)
    BY DEF GuardsInv, GuardsTypeInv
  <2>2. QED
    BY <1>1, <2>1 DEF GuardKinds
<1>3. t \in readers \/ t = writer
  BY <1>1, <1>2 DEF GuardsInv, LockInv, Among
<1>4. GuardsTypeInv'
  BY <1>1 DEF GuardsInv, GuardsTypeInv
<1>5. LockInv'
  BY <1>1 DEF GuardsInv, LockInv
<1>6. UseInv'
  BY <1>1, <1>3 DEF GuardsInv, GuardsTypeInv, UseInv
<1>7. QED
  BY <1>4, <1>5, <1>6 DEF GuardsInv

\* Only the writer changes the data, and nobody else has read it.
LEMMA IncrementStep ==
  ASSUME GuardsInv, NEW t \in Lockers, NEW i \in 1 .. MaxGuards, Increment(t, i)
  PROVE  GuardsInv'
<1>1. /\ loaded[t] # NoLoad
      /\ i \in DOMAIN guards[t] /\ guards[t][i] = "write"
      /\ data' = loaded[t] + 1 /\ increments' = increments + 1
      /\ loaded' = [loaded EXCEPT ![t] = NoLoad]
      /\ UNCHANGED <<readers, writer, primitive, guards>>
  BY DEF Increment
<1>2. loaded[t] = data /\ data = increments /\ data \in Nat
  BY <1>1 DEF GuardsInv, GuardsTypeInv, UseInv
<1>3. t = writer /\ readers = {}
  BY <1>1, NobodyAssumption DEF GuardsInv, LockInv, Among
<1>4. GuardsTypeInv'
  BY <1>1, <1>2 DEF GuardsInv, GuardsTypeInv
<1>5. LockInv'
  BY <1>1 DEF GuardsInv, LockInv
<1>6. UseInv'
  BY <1>1, <1>2, <1>3 DEF GuardsInv, GuardsTypeInv, UseInv
<1>7. QED
  BY <1>4, <1>5, <1>6 DEF GuardsInv

LEMMA UsedStep == ASSUME GuardsInv, NEW t \in Lockers, Used(t)  PROVE GuardsInv'
  BY DEF Used, GuardsInv, GuardsTypeInv, LockInv, UseInv

LEMMA GuardsStep == ASSUME GuardsInv, GuardsNext  PROVE GuardsInv'
<1> USE DEF GuardKinds
<1>1. PICK t \in Lockers :
        \/ Lock(t) \/ TryLock(t) \/ ReadData(t) \/ TryRead(t) \/ WriteData(t) \/ TryWrite(t)
        \/ Used(t)
        \/ \E i \in 1 .. MaxGuards : MoveGuard(t, i) \/ DestroyGuard(t, i) \/ Get(t, i) \/ Increment(t, i)
  BY DEF GuardsNext
<1>3. ASSUME ReadData(t)  PROVE t \notin readers
  \* A reader has a guard that is no null one.
  <2>1. t \in readers => Holds(t)
    BY DEF GuardsInv, LockInv, Among, Holds
  <2>2. QED
    BY <1>3, <2>1 DEF ReadData
<1>4. CASE Lock(t)       BY <1>4, LockedStep DEF Lock
<1>5. CASE TryLock(t)    BY <1>5, LockedStep DEF TryLock, NoneLocked
<1>6. CASE ReadData(t)   BY <1>3, <1>6, LockedStep DEF ReadData
<1>7. CASE TryRead(t)    BY <1>7, LockedStep DEF TryRead, NoneLocked
<1>8. CASE WriteData(t)  BY <1>8, LockedStep DEF WriteData
<1>9. CASE TryWrite(t)   BY <1>9, LockedStep DEF TryWrite, NoneLocked
<1>10. CASE Used(t)      BY <1>10, UsedStep
<1>11. ASSUME NEW i \in 1 .. MaxGuards, MoveGuard(t, i) \/ DestroyGuard(t, i) \/ Get(t, i) \/ Increment(t, i)
       PROVE  GuardsInv'
  BY <1>11, MoveGuardStep, DestroyGuardStep, GetStep, IncrementStep
<1>12. QED
  BY <1>1, <1>4, <1>5, <1>6, <1>7, <1>8, <1>9, <1>10, <1>11

-----------------------------------------------------------------------------
LEMMA OneLives ==
  ASSUME NEW s \in Seq(GuardKinds), NEW g \in GuardKinds, Once(s, g)
  PROVE  Cardinality({i \in DOMAIN s : s[i] = g}) = IF Among(s, g) THEN 1 ELSE 0
<1> DEFINE S == {i \in DOMAIN s : s[i] = g}
<1>1. CASE ~Among(s, g)
  <2>1. S = {}  BY <1>1 DEF Among
  <2>2. QED  BY <1>1, <2>1, FS_EmptySet
<1>2. CASE Among(s, g)
  <2>1. PICK i \in DOMAIN s : s[i] = g  BY <1>2 DEF Among
  <2>2. S = {i}  BY <2>1 DEF Once
  <2>3. QED  BY <1>2, <2>2, FS_Singleton
<1>3. QED
  BY <1>1, <1>2

\* A lock is held by exactly the guards that say so, however these were moved, returned and
\* destroyed; the data are used only under a guard that allows it, and no increment is lost.
THEOREM GuardsAreExact == GuardsSpec => []GuardsProtect
<1>1. GuardsInv /\ [GuardsNext]_guardVars => GuardsInv'
  <2>1. ASSUME GuardsInv, UNCHANGED guardVars  PROVE GuardsInv'
    BY <2>1 DEF guardVars, GuardsInv, GuardsTypeInv, LockInv, UseInv
  <2>2. QED
    BY <2>1, GuardsStep
<1>2. GuardsInv => GuardsProtect
  <2> SUFFICES ASSUME GuardsInv  PROVE GuardsProtect
    OBVIOUS
  <2>1. ASSUME NEW t \in Lockers
        PROVE  LET Live(g) == Cardinality({i \in DOMAIN guards[t] : guards[t][i] = g}) IN
               /\ Live("read") = IF t \in readers THEN 1 ELSE 0
               /\ Live("write") = IF t = writer THEN 1 ELSE 0
               /\ loaded[t] # NoLoad => loaded[t] = data
    <3>1. guards[t] \in Seq(GuardKinds)
      BY DEF GuardsInv, GuardsTypeInv
    <3>2. /\ Among(guards[t], "read") <=> t \in readers
          /\ Among(guards[t], "write") <=> t = writer
          /\ Once(guards[t], "read") /\ Once(guards[t], "write")
      BY DEF GuardsInv, LockInv
    <3>3. loaded[t] # NoLoad => loaded[t] = data
      BY DEF GuardsInv, UseInv
    <3>4. QED
      BY <3>1, <3>2, <3>3, OneLives DEF GuardKinds
  <2>2. data = increments
    BY DEF GuardsInv, UseInv
  <2>3. QED
    BY <2>1, <2>2 DEF GuardsProtect
<1>3. QED
  BY <1>1, <1>2, GuardsInitSound, PTL DEF GuardsSpec
=============================================================================

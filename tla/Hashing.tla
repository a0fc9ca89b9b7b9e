------------------------------ MODULE Hashing ------------------------------
(***************************************************************************)
(* What gk::HashMap and gk::JsonObject have in common: keys with a hash, of *)
(* which the upper bits select a group or bucket and the lower seven make   *)
(* the mask of a slot, and iterators that run over the slots in order.      *)
(***************************************************************************)
EXTENDS Integers, FiniteSets

CONSTANTS
  Keys, Values,
  Hash,            \* of each key
  Lax,             \* what clients do although a table does not survive it
  NoKey, NoValue, NoIter

ASSUME KeysAssumption == IsFiniteSet(Keys) /\ Hash \in [Keys -> Nat]
ASSUME AbsentAssumption == NoKey \notin Keys /\ NoValue \notin Values

GroupBits(h) == h \div 128
PairMask(h) == 128 + (h % 128)
GroupOf(k, n) == GroupBits(Hash[k]) % n

\* gk::hash of an i64 or u64, in words of so many bits: the key doubled, and
\* key >> 63, which sets all the bits for each negative key.
NumberHash(n, bits) ==
  IF n < 0 THEN 2 ^ bits - 1 ELSE ((2 * n) % 2 ^ bits) + (n \div 2 ^ (bits - 1))

PowersOfTwo == {2 ^ e : e \in 0 .. 30}
UpperPowerOfTwo(v) == CHOOSE p \in PowersOfTwo : p >= v /\ \A q \in PowersOfTwo : q >= v => p <= q

Least(S) == CHOOSE i \in S : \A j \in S : i <= j

\* A scan of w masks at once: the first of the set in the first vector that has one.
FirstInVectors(S, w) ==
  LET first == Least({i \div w : i \in S})
  IN  first * w + Least({i % w : i \in {j \in S : j \div w = first}})

-----------------------------------------------------------------------------
(* Slots, and the places of slots *)

\* A mask of 0 is a free slot.
Free == [mask |-> 0, key |-> NoKey, value |-> NoValue]
Pair(k, v) == [mask |-> PairMask(Hash[k]), key |-> k, value |-> v]

\* The slots with the mask of a key: the bits of a vector's comparison.
EqualMasks(slots, k) == {i \in DOMAIN slots : slots[i].mask = PairMask(Hash[k])}

At(groups, p) == groups[p[1]].slots[p[2]]
Before(p, q) == p[1] < q[1] \/ (p[1] = q[1] /\ p[2] < q[2])
Rank(S, p) == Cardinality({q \in S : Before(q, p)})

\* What a table with pairs at the places S says of each key.
ContentsOf(groups, S) == [k \in Keys |->
  IF \E p \in S : At(groups, p).key = k
  THEN At(groups, CHOOSE p \in S : At(groups, p).key = k).value ELSE NoValue]

\* An iterator over the table of o that stands at a place, and what its loop has seen.
Start(o) == [of |-> o, at |-> <<0, 0>>, seen |-> {}, steps |-> 0]

\* Forward over the places S to the next pair, or to the end behind n groups.
Forward(it, S, n) ==
  LET later == {p \in S : Before(it.at, p)}
  IN  [it EXCEPT !.at = IF later = {} THEN <<n, 0>>
                        ELSE CHOOSE p \in later : \A q \in later : ~Before(q, p)]
=============================================================================

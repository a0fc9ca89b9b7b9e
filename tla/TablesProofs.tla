---------------------------- MODULE TablesProofs ----------------------------
(***************************************************************************)
(* Proofs about HashMap and JsonObject, for any objects, keys, values and    *)
(* hashes, and groups and buckets of any size.  A HashMap that is not moved  *)
(* from is a partial function in its groups: each group has the pairs whose  *)
(* hash leads there, in slots whose masks fit, and counts them.  So is a     *)
(* JsonObject in its buckets, behind whose ends only names may be that are   *)
(* there or were erased.  Every call, growth included, keeps that and does   *)
(* to the function what a dictionary does; loops have each pair once.        *)
(***************************************************************************)
EXTENDS Tables, FiniteSetTheorems, TLAPS

-----------------------------------------------------------------------------
(* Sets and orders *)

LEMMA NatLeast ==
  ASSUME NEW T \in SUBSET Nat, T # {}
  PROVE  Least(T) \in T /\ \A y \in T : Least(T) <= y
<1> DEFINE R == {p \in Nat \X Nat : p[1] < p[2]}
<1>1. IsWellFoundedOn(R, Nat)
  BY NatLessThanWellFounded DEF OpToRel
<1>2. PICK x \in T : \A y \in T : ~(<<y, x>> \in R)
  BY <1>1, WFMin
<1>3. \A y \in T : x <= y
  <2> TAKE y \in T
  <2>1. <<y, x>> \notin R /\ y \in Nat /\ x \in Nat
    BY <1>2
  <2>2. QED
    BY <2>1
<1>4. \E x1 \in T : \A y \in T : x1 <= y
  BY <1>3
<1>5. QED
  BY <1>4 DEF Least

\* A scan in vectors finds one of the set.
LEMMA FirstIs ==
  ASSUME NEW S \in SUBSET Nat, S # {}, NEW w \in Nat \ {0}
  PROVE  FirstInVectors(S, w) \in S
<1>1. ASSUME NEW i \in Nat  PROVE i = w * (i \div w) + (i % w) /\ i % w \in Nat /\ i \div w \in Nat
  OBVIOUS
<1> DEFINE V == {i \div w : i \in S}
           first == Least(V)
           T == {i % w : i \in {j \in S : j \div w = first}}
<1>2. V \in SUBSET Nat /\ V # {}
  <2>1. PICK i \in S : i \in Nat
    OBVIOUS
  <2>2. i \div w \in V
    OBVIOUS
  <2>3. V \in SUBSET Nat
    BY <1>1
  <2>4. QED
    BY <2>2, <2>3
<1>3. first \in V
  BY <1>2, NatLeast
<1>4. first \in Nat
  BY <1>2, <1>3
<1> HIDE DEF first
<1>5. PICK j \in S : j \div w = first
  BY <1>3
<1>6. T \in SUBSET Nat
  BY <1>1
<1>7. j % w \in T
  BY <1>5
<1>8. Least(T) \in T
  BY <1>6, <1>7, NatLeast
<1>9. PICK i \in S : i \div w = first /\ Least(T) = i % w
  BY <1>8
<1>10. i = w * first + Least(T)
  BY <1>1, <1>9
<1>11. FirstInVectors(S, w) = first * w + Least(T)
  BY DEF FirstInVectors, first
<1>12. first * w + Least(T) = w * first + Least(T)
  <2>1. Least(T) \in Nat
    BY <1>1, <1>9
  <2>2. first * w = w * first
    BY <1>4
  <2>3. QED
    BY <2>2
<1>13. QED
  BY <1>10, <1>11, <1>12

LEMMA DoubledIs ==
  ASSUME NEW c \in Nat \ {0}, NEW n \in 0 .. MaxPairs
  PROVE  Doubled(c, n) \in Nat \ {0} /\ Doubled(c, n) >= n
<1>1. MaxPairs \in Nat
  BY KeysAssumption, FS_CardinalityType DEF MaxPairs
<1>2. \A e \in 0 .. MaxPairs : c * 2 ^ e \in Nat \ {0} /\ c * 2 ^ e > e
  <2> TAKE e \in 0 .. MaxPairs
  <2>1. PICK p \in Nat : p = 2 ^ e /\ p > e
    BY PowersAssumption
  <2>2. c * p \in Nat /\ c * p >= p
    OBVIOUS
  <2>3. e \in Nat
    BY <1>1
  <2>4. c * p \in Nat \ {0} /\ c * p > e
    BY <2>1, <2>2, <2>3
  <2>5. QED
    BY <2>1, <2>4
<1> DEFINE T == {d \in Doublings(c) : d >= n}
<1>3. Doublings(c) \subseteq Nat \ {0}
  BY <1>2 DEF Doublings
<1>4. c * 2 ^ MaxPairs \in T
  <2>1. MaxPairs \in 0 .. MaxPairs
    BY <1>1
  <2>2. c * 2 ^ MaxPairs > MaxPairs /\ c * 2 ^ MaxPairs \in Nat
    BY <1>2, <2>1
  <2>3. c * 2 ^ MaxPairs >= n
    BY <1>1, <2>2
  <2>4. c * 2 ^ MaxPairs \in Doublings(c)
    BY <2>1 DEF Doublings
  <2>5. QED
    BY <2>3, <2>4
<1>5. T \in SUBSET Nat /\ T # {}
  BY <1>3, <1>4
<1>6. Least(T) \in T /\ \A y \in T : Least(T) <= y
  BY <1>5, NatLeast
<1>7. \E d \in Doublings(c) : d >= n /\ \A e \in Doublings(c) : e >= n => d <= e
  BY <1>6
<1>8. Doubled(c, n) \in Doublings(c) /\ Doubled(c, n) >= n
  BY <1>7 DEF Doubled
<1>9. QED
  BY <1>3, <1>8

-----------------------------------------------------------------------------
(* Ranks *)

LEMMA BeforeIs ==
  ASSUME NEW p \in Nat \X Nat, NEW q \in Nat \X Nat
  PROVE  /\ ~Before(p, p)
         /\ p # q => Before(p, q) \/ Before(q, p)
         /\ ~(Before(p, q) /\ Before(q, p))
         /\ \A r \in Nat \X Nat : Before(p, q) /\ Before(q, r) => Before(p, r)
  BY DEF Before

LEMMA RankLess ==
  ASSUME NEW S \in SUBSET (Nat \X Nat), IsFiniteSet(S), NEW p \in S, NEW q \in S, Before(p, q)
  PROVE  Rank(S, p) \in Nat /\ Rank(S, q) \in Nat /\ Rank(S, p) < Rank(S, q)
<1> DEFINE P == {r \in S : Before(r, p)}
           Q == {r \in S : Before(r, q)}
<1>1. P \in SUBSET Q /\ P \in SUBSET S /\ Q \in SUBSET S /\ p \in Q /\ p \notin P
  BY BeforeIs
<1>2. IsFiniteSet(P) /\ IsFiniteSet(Q)
  BY <1>1, FS_Subset
<1>3. Cardinality(P) \in Nat /\ Cardinality(Q) \in Nat
  BY <1>2, FS_CardinalityType
<1>4. Cardinality(P) <= Cardinality(Q) /\ (Cardinality(Q) = Cardinality(P) => Q = P)
  BY <1>1, <1>2, FS_Subset
<1>5. Cardinality(P) # Cardinality(Q)
  BY <1>1, <1>4
<1>6. Rank(S, p) = Cardinality(P) /\ Rank(S, q) = Cardinality(Q)
  BY DEF Rank
<1>7. QED
  BY <1>3, <1>4, <1>5, <1>6

\* The ranks of n places are the numbers below n, one each.
LEMMA RankIs ==
  ASSUME NEW S \in SUBSET (Nat \X Nat), IsFiniteSet(S)
  PROVE  /\ \A p \in S : Rank(S, p) \in 0 .. Cardinality(S) - 1
         /\ \A p, q \in S : Rank(S, p) = Rank(S, q) => p = q
         /\ \A i \in 0 .. Cardinality(S) - 1 : \E p \in S : Rank(S, p) = i
<1> DEFINE n == Cardinality(S)
           T == 0 .. n - 1
           f == [p \in S |-> Rank(S, p)]
<1>1. n \in Nat
  BY FS_CardinalityType
<1>2. ASSUME NEW p \in S  PROVE Rank(S, p) \in T
  <2> DEFINE P == {r \in S : Before(r, p)}
  <2>1. P \in SUBSET S /\ p \notin P
    BY BeforeIs
  <2>2. IsFiniteSet(P) /\ Cardinality(P) <= n /\ (n = Cardinality(P) => S = P)
    BY <2>1, FS_Subset
  <2>3. Cardinality(P) \in Nat
    BY <2>2, FS_CardinalityType
  <2>4. Cardinality(P) # n
    BY <2>1, <2>2
  <2>5. Rank(S, p) = Cardinality(P)
    BY DEF Rank
  <2> HIDE DEF P, n
  <2>6. QED
    BY <1>1, <2>2, <2>3, <2>4, <2>5
<1>3. ASSUME NEW p \in S, NEW q \in S, Rank(S, p) = Rank(S, q)  PROVE p = q
  <2>1. SUFFICES ASSUME p # q  PROVE FALSE
    OBVIOUS
  <2>2. Before(p, q) \/ Before(q, p)
    BY <2>1, BeforeIs
  <2>3. QED
    BY <1>3, <2>2, RankLess
<1> HIDE DEF n
<1>4. IsFiniteSet(T) /\ Cardinality(T) = n
  <2>1. 0 \in Int /\ n - 1 \in Int /\ (0 > n - 1 => n = 0) /\ n - 1 - 0 + 1 = n
    BY <1>1
  <2>2. QED
    BY <2>1, FS_Interval
<1>5. f \in Injection(S, T)
  <2>1. f \in [S -> T]
    BY <1>2
  <2>2. \A a, b \in S : f[a] = f[b] => a = b
    BY <1>3
  <2>3. IsInjective(f)
    BY <2>1, <2>2 DEF IsInjective
  <2>4. QED
    BY <2>1, <2>3 DEF Injection
<1>6. f \in Surjection(S, T)
  BY <1>4, <1>5, FS_Injection DEF n
<1>7. \A i \in T : \E p \in S : Rank(S, p) = i
  BY <1>6 DEF Surjection
<1>8. QED
  BY <1>2, <1>3, <1>7 DEF n

-----------------------------------------------------------------------------
(* What groups stand for *)

Partial == [Keys -> Values \cup {NoValue}]

Given(f) == {k \in Keys : f[k] # NoValue}

LEMMA GivenFinite ==
  ASSUME NEW f
  PROVE  IsFiniteSet(Given(f)) /\ Cardinality(Given(f)) \in 0 .. MaxPairs
<1>1. Given(f) \in SUBSET Keys /\ IsFiniteSet(Keys)
  BY KeysAssumption DEF Given
<1>2. IsFiniteSet(Given(f)) /\ Cardinality(Given(f)) <= Cardinality(Keys)
  BY <1>1, FS_Subset
<1>3. Cardinality(Given(f)) \in Nat /\ Cardinality(Keys) \in Nat
  BY <1>1, <1>2, FS_CardinalityType
<1>4. QED
  BY <1>2, <1>3 DEF MaxPairs

LEMMA PairIs ==
  ASSUME NEW k \in Keys, NEW v
  PROVE  Pair(k, v).mask # 0 /\ Pair(k, v).key = k /\ Pair(k, v).value = v /\ Pair(k, v).mask = PairMask(Hash[k])
<1>1. Hash[k] \in Nat
  BY KeysAssumption
<1>2. Hash[k] % 128 \in 0 .. 127
  BY <1>1
<1>3. PairMask(Hash[k]) # 0
  BY <1>2 DEF PairMask
<1>4. QED
  BY <1>3 DEF Pair

\* The slots of groups at the places S hold the pairs of f, each once.
Carries(groups, S, f) ==
  /\ S \in SUBSET (Nat \X Nat)
  /\ f \in Partial
  /\ \A p \in S : \E k \in Given(f) : At(groups, p) = Pair(k, f[k])
  /\ \A k \in Given(f) : \E p \in S : At(groups, p) = Pair(k, f[k])
  /\ \A p, q \in S : At(groups, p).key = At(groups, q).key => p = q

LEMMA CarriesCount ==
  ASSUME NEW groups, NEW S, NEW f, Carries(groups, S, f)
  PROVE  IsFiniteSet(S) /\ Cardinality(S) = Cardinality(Given(f))
<1> DEFINE h == [p \in S |-> At(groups, p).key]
           T == Given(f)
<1>1. \A k \in T : k \in Keys
  BY DEF Given
<1>2. \A p \in S : \E k \in T : At(groups, p).key = k
  BY <1>1, PairIs DEF Carries
<1>3. h \in [S -> T]
  BY <1>2
<1>4. \A a, b \in S : h[a] = h[b] => a = b
  BY DEF Carries
<1>5. IsInjective(h)
  BY <1>3, <1>4 DEF IsInjective
<1>6. h \in Injection(S, T)
  BY <1>3, <1>5 DEF Injection
<1>7. \A k \in T : \E p \in S : h[p] = k
  BY <1>1, PairIs DEF Carries
<1>8. h \in Surjection(S, T)
  BY <1>3, <1>7 DEF Surjection
<1>9. IsFiniteSet(T)
  BY GivenFinite
<1>10. QED
  BY <1>6, <1>8, <1>9, FS_Injection

LEMMA CarriesContents ==
  ASSUME NEW groups, NEW S, NEW f, Carries(groups, S, f)
  PROVE  ContentsOf(groups, S) = f
<1>1. ASSUME NEW k \in Keys
      PROVE  (IF \E p \in S : At(groups, p).key = k
              THEN At(groups, CHOOSE p \in S : At(groups, p).key = k).value ELSE NoValue) = f[k]
  <2>1. CASE \E p \in S : At(groups, p).key = k
    <3> DEFINE p == CHOOSE p \in S : At(groups, p).key = k
    <3>1. p \in S /\ At(groups, p).key = k
      BY <2>1
    <3> HIDE DEF p
    <3>2. PICK j \in Given(f) : At(groups, p) = Pair(j, f[j])
      BY <3>1 DEF Carries
    <3>3. j \in Keys
      BY DEF Given
    <3>4. j = k /\ At(groups, p).value = f[k]
      BY <3>1, <3>2, <3>3, PairIs
    <3>5. QED
      BY <2>1, <3>4 DEF p
  <2>2. CASE ~ \E p \in S : At(groups, p).key = k
    <3>1. k \notin Given(f)
      BY <2>2, PairIs DEF Carries
    <3>2. f[k] = NoValue
      BY <3>1 DEF Given
    <3>3. QED
      BY <2>2, <3>2
  <2>3. QED
    BY <2>1, <2>2
<1>2. f = [k \in Keys |-> f[k]]
  BY DEF Carries, Partial
<1>3. ContentsOf(groups, S) = [k \in Keys |-> f[k]]
  BY <1>1 DEF ContentsOf
<1>4. QED
  BY <1>2, <1>3

LEMMA StoredIs ==
  ASSUME NEW groups, NEW p
  PROVE  p \in Stored(groups) <=> \E g \in DOMAIN groups : \E i \in DOMAIN groups[g].slots :
                                     groups[g].slots[i].mask # 0 /\ p = <<g, i>>
  BY DEF Stored

LEMMA AtIs == ASSUME NEW groups, NEW g, NEW i  PROVE At(groups, <<g, i>>) = groups[g].slots[i]
  BY DEF At

\* A group holds the pairs of f, each in a slot of its own.
GroupHolds(g, f) ==
  /\ g = [slots |-> g.slots, pairCount |-> g.pairCount, capacity |-> g.capacity]
  /\ g.capacity \in Nat \ {0}
  /\ g.slots = [i \in 0 .. g.capacity - 1 |-> g.slots[i]]
  /\ f \in Partial
  /\ \A i \in 0 .. g.capacity - 1 : g.slots[i] = Free \/ \E k \in Given(f) : g.slots[i] = Pair(k, f[k])
  /\ \A k \in Given(f) : \E i \in 0 .. g.capacity - 1 : g.slots[i] = Pair(k, f[k])
  /\ \A i, j \in 0 .. g.capacity - 1 : g.slots[i].mask # 0 /\ g.slots[i].key = g.slots[j].key => i = j
  /\ g.pairCount = Cardinality(Given(f))

\* What the slots of one of the groups carry.
LEMMA GroupCarries ==
  ASSUME NEW groups, NEW x \in Nat, x \in DOMAIN groups, NEW f, GroupHolds(groups[x], f),
         NEW S, S = {p \in Stored(groups) : p[1] = x}
  PROVE  Carries(groups, S, f)
<1> DEFINE g == groups[x]
<1>1. DOMAIN g.slots = 0 .. g.capacity - 1 /\ g.capacity \in Nat /\ f \in Partial
  BY DEF GroupHolds
<1>2. \A p : p \in S <=> \E i \in 0 .. g.capacity - 1 : g.slots[i].mask # 0 /\ p = <<x, i>>
  <2> TAKE p
  <2>1. p \in S => \E i \in 0 .. g.capacity - 1 : g.slots[i].mask # 0 /\ p = <<x, i>>
    <3>1. HAVE p \in S
    <3>2. PICK y \in DOMAIN groups : \E i \in DOMAIN groups[y].slots : groups[y].slots[i].mask # 0 /\ p = <<y, i>>
      BY <3>1, StoredIs
    <3>3. y = x
      BY <3>1, <3>2
    <3>4. QED
      BY <1>1, <3>2, <3>3
  <2>2. ASSUME NEW i \in 0 .. g.capacity - 1, g.slots[i].mask # 0, p = <<x, i>>  PROVE p \in S
    BY <1>1, <2>2, StoredIs
  <2>3. QED
    BY <2>1, <2>2
<1>3. \A i \in 0 .. g.capacity - 1 : i \in Nat /\ At(groups, <<x, i>>) = g.slots[i]
  BY <1>1, AtIs
<1>4. S \in SUBSET (Nat \X Nat)
  BY <1>2, <1>3
<1>5. Free.mask = 0
  BY DEF Free
<1>6. ASSUME NEW p \in S  PROVE \E k \in Given(f) : At(groups, p) = Pair(k, f[k])
  <2>1. PICK i \in 0 .. g.capacity - 1 : g.slots[i].mask # 0 /\ p = <<x, i>>
    BY <1>2
  <2>2. g.slots[i] # Free /\ At(groups, p) = g.slots[i]
    BY <1>3, <1>5, <2>1
  <2>3. g.slots[i] = Free \/ \E k \in Given(f) : g.slots[i] = Pair(k, f[k])
    BY DEF GroupHolds
  <2>4. QED
    BY <2>2, <2>3
<1>7. \A k \in Given(f) : \E p \in S : At(groups, p) = Pair(k, f[k])
  <2> TAKE k \in Given(f)
  <2>1. PICK i \in 0 .. g.capacity - 1 : g.slots[i] = Pair(k, f[k])
    BY DEF GroupHolds
  <2>2. k \in Keys
    BY DEF Given
  <2>3. g.slots[i].mask # 0
    BY <2>1, <2>2, PairIs
  <2>4. <<x, i>> \in S
    BY <1>2, <2>3
  <2>5. QED
    BY <1>3, <2>1, <2>4
<1>8. ASSUME NEW p \in S, NEW q \in S, At(groups, p).key = At(groups, q).key  PROVE p = q
  <2>1. PICK i \in 0 .. g.capacity - 1 : g.slots[i].mask # 0 /\ p = <<x, i>>
    BY <1>2
  <2>2. PICK j \in 0 .. g.capacity - 1 : g.slots[j].mask # 0 /\ q = <<x, j>>
    BY <1>2
  <2>3. g.slots[i].key = g.slots[j].key
    BY <1>3, <1>8, <2>1, <2>2
  <2>4. i = j
    BY <2>1, <2>3 DEF GroupHolds
  <2>5. QED
    BY <2>1, <2>2, <2>4
<1>9. QED
  BY <1>1, <1>4, <1>6, <1>7, <1>8 DEF Carries

LEMMA PackedHolds ==
  ASSUME NEW groups, NEW S, NEW f, Carries(groups, S, f), NEW c \in Nat \ {0}, Cardinality(Given(f)) <= c
  PROVE  GroupHolds(Packed(groups, S, c), f)
<1> DEFINE n == Cardinality(S)
           P(i) == CHOOSE p \in S : Rank(S, p) = i
           slots == [i \in 0 .. c - 1 |-> IF \E p \in S : Rank(S, p) = i THEN At(groups, P(i)) ELSE Free]
           g == Packed(groups, S, c)
<1>1. IsFiniteSet(S) /\ n = Cardinality(Given(f)) /\ S \in SUBSET (Nat \X Nat) /\ n \in Nat /\ f \in Partial
  <2>1. IsFiniteSet(S) /\ n = Cardinality(Given(f))
    BY CarriesCount
  <2>2. n \in Nat
    BY <2>1, FS_CardinalityType
  <2>3. S \in SUBSET (Nat \X Nat) /\ f \in Partial
    BY DEF Carries
  <2>4. QED
    BY <2>1, <2>2, <2>3
<1>2. /\ \A p \in S : Rank(S, p) \in 0 .. n - 1
      /\ \A p, q \in S : Rank(S, p) = Rank(S, q) => p = q
  BY <1>1, RankIs
<1>3. g = [slots |-> slots, pairCount |-> n, capacity |-> c]
  BY DEF Packed
<1>4. \A p \in S : Rank(S, p) \in 0 .. c - 1 /\ slots[Rank(S, p)] = At(groups, p)
  <2> TAKE p \in S
  <2>1. Rank(S, p) \in 0 .. c - 1
    BY <1>1, <1>2
  <2>2. P(Rank(S, p)) = p
    BY <1>2
  <2>3. QED
    BY <2>1, <2>2
<1>5. \A i \in 0 .. c - 1 : slots[i] = Free \/ \E p \in S : Rank(S, p) = i /\ slots[i] = At(groups, p)
  BY <1>4
<1> HIDE DEF slots, n, P
<1>6. \A i \in 0 .. c - 1 : slots[i] = Free \/ \E k \in Given(f) : slots[i] = Pair(k, f[k])
  BY <1>5 DEF Carries
<1>7. \A k \in Given(f) : \E i \in 0 .. c - 1 : slots[i] = Pair(k, f[k])
  BY <1>4 DEF Carries
<1>8. ASSUME NEW i \in 0 .. c - 1, NEW j \in 0 .. c - 1, slots[i].mask # 0, slots[i].key = slots[j].key
      PROVE  i = j
  <2>1. slots[i] # Free
    BY <1>8 DEF Free
  <2>2. PICK p \in S : Rank(S, p) = i /\ slots[i] = At(groups, p)
    BY <1>5, <2>1
  <2>3. PICK k \in Given(f) : At(groups, p) = Pair(k, f[k])
    BY DEF Carries
  <2>4. k \in Keys
    BY DEF Given
  <2>5. slots[j].key \in Keys
    BY <1>8, <2>2, <2>3, <2>4, PairIs
  <2>6. slots[j] # Free
    BY <2>5, AbsentAssumption DEF Free
  <2>7. PICK q \in S : Rank(S, q) = j /\ slots[j] = At(groups, q)
    BY <1>5, <2>6
  <2>8. p = q
    BY <1>8, <2>2, <2>7 DEF Carries
  <2>9. QED
    BY <2>2, <2>7, <2>8
<1>9. slots = [i \in 0 .. c - 1 |-> slots[i]]
  BY DEF slots
<1> HIDE DEF g
<1>10. QED
  BY <1>1, <1>3, <1>6, <1>7, <1>8, <1>9 DEF GroupHolds, g

-----------------------------------------------------------------------------
(* Operations on a group *)

LEMMA SlotsAre ==
  ASSUME NEW g, NEW f, GroupHolds(g, f)
  PROVE  /\ DOMAIN g.slots = 0 .. g.capacity - 1 /\ g.capacity \in Nat \ {0} /\ f \in Partial
         /\ \A i \in DOMAIN g.slots : g.slots[i].mask = 0 <=> g.slots[i] = Free
         /\ \A i \in DOMAIN g.slots : g.slots[i] # Free =>
              g.slots[i].key \in Given(f) /\ g.slots[i] = Pair(g.slots[i].key, f[g.slots[i].key])
<1>1. DOMAIN g.slots = 0 .. g.capacity - 1 /\ g.capacity \in Nat \ {0} /\ f \in Partial
  BY DEF GroupHolds
<1>2. ASSUME NEW i \in DOMAIN g.slots, g.slots[i] # Free
      PROVE  /\ g.slots[i].key \in Given(f) /\ g.slots[i] = Pair(g.slots[i].key, f[g.slots[i].key])
             /\ g.slots[i].mask # 0
  <2>1. PICK k \in Given(f) : g.slots[i] = Pair(k, f[k])
    BY <1>1, <1>2 DEF GroupHolds
  <2>2. k \in Keys
    BY DEF Given
  <2>3. QED
    BY <2>1, <2>2, PairIs
<1>3. Free.mask = 0
  BY DEF Free
<1>4. QED
  BY <1>1, <1>2, <1>3

LEMMA GroupReallocateHolds ==
  ASSUME NEW g, NEW f, GroupHolds(g, f), NEW c \in Nat \ {0}, Cardinality(Given(f)) <= c
  PROVE  GroupHolds(GroupReallocate(g, c), f) /\ GroupReallocate(g, c).capacity = c
<1> DEFINE one == [x \in {0} |-> g]
           S == {p \in Stored(one) : p[1] = 0}
<1>1. 0 \in DOMAIN one /\ one[0] = g /\ DOMAIN one = {0}
  OBVIOUS
<1> HIDE DEF one
<1>2. GroupHolds(one[0], f)
  BY <1>1
<1>3. Carries(one, S, f)
  BY <1>1, <1>2, GroupCarries
<1>4. \A p \in Stored(one) : p[1] = 0
  BY <1>1, StoredIs
<1>5. S = Stored(one)
  BY <1>4
<1>6. GroupReallocate(g, c) = Packed(one, S, c)
  BY <1>5 DEF GroupReallocate, one
<1> HIDE DEF S
<1>7. Packed(one, S, c).capacity = c
  BY DEF Packed
<1>8. QED
  BY <1>3, <1>6, <1>7, PackedHolds

LEMMA HitsAre ==
  ASSUME NEW g, NEW f, GroupHolds(g, f), NEW k \in Keys
  PROVE  /\ f[k] = NoValue => Hits(g, k) = {}
         /\ f[k] # NoValue => /\ Hits(g, k) # {} /\ Least(Hits(g, k)) \in DOMAIN g.slots
                              /\ g.slots[Least(Hits(g, k))] = Pair(k, f[k])
<1>1. DOMAIN g.slots = 0 .. g.capacity - 1 /\ g.capacity \in Nat
  BY SlotsAre
<1>2. \A i \in Hits(g, k) : i \in DOMAIN g.slots /\ g.slots[i].key = k
  BY DEF Hits, EqualMasks
<1>3. \A i \in Hits(g, k) : k \in Given(f) /\ g.slots[i] = Pair(k, f[k])
  <2> TAKE i \in Hits(g, k)
  <2>1. g.slots[i] # Free
    BY <1>2, AbsentAssumption DEF Free
  <2>2. QED
    BY <1>2, <2>1, SlotsAre
<1>4. CASE f[k] = NoValue
  BY <1>3, <1>4 DEF Given
<1>5. CASE f[k] # NoValue
  <2>1. k \in Given(f)
    BY <1>5 DEF Given
  <2>2. PICK i \in 0 .. g.capacity - 1 : g.slots[i] = Pair(k, f[k])
    BY <2>1 DEF GroupHolds
  <2>3. i \in Hits(g, k)
    BY <1>1, <2>2, PairIs DEF Hits, EqualMasks
  <2>4. Hits(g, k) \in SUBSET Nat
    BY <1>1, <1>2
  <2>5. Least(Hits(g, k)) \in Hits(g, k)
    BY <2>3, <2>4, NatLeast
  <2>6. QED
    BY <1>2, <1>3, <1>5, <2>5
<1>6. QED
  BY <1>4, <1>5

LEMMA ValueIs ==
  ASSUME NEW g, NEW f, GroupHolds(g, f), NEW k \in Keys  PROVE ValueIn(g, k) = f[k]
  BY HitsAre, PairIs DEF ValueIn

LEMMA RoomIs ==
  ASSUME NEW g, NEW f, GroupHolds(g, f), g.pairCount # g.capacity
  PROVE  FirstAvailable(g) \in DOMAIN g.slots /\ g.slots[FirstAvailable(g)] = Free
<1> DEFINE I == 0 .. g.capacity - 1
           T == Given(f)
           h == [i \in I |-> g.slots[i].key]
           F == {i \in DOMAIN g.slots : g.slots[i].mask = 0}
<1>1. DOMAIN g.slots = I /\ g.capacity \in Nat \ {0}
  BY SlotsAre
<1>2. F # {}
  <2> SUFFICES ASSUME F = {}  PROVE FALSE
    OBVIOUS
  <2>1. \A i \in I : g.slots[i].mask # 0 /\ g.slots[i] # Free
    BY <1>1, SlotsAre
  <2>2. h \in [I -> T]
    BY <1>1, <2>1, SlotsAre
  <2>3. \A i, j \in I : h[i] = h[j] => i = j
    BY <2>1 DEF GroupHolds
  <2>4. h \in Injection(I, T)
    BY <2>2, <2>3 DEF Injection, IsInjective
  <2>5. \A k \in T : \E i \in I : h[i] = k
    <3> TAKE k \in T
    <3>1. k \in Keys
      BY DEF Given
    <3>2. PICK i \in I : g.slots[i] = Pair(k, f[k])
      BY DEF GroupHolds
    <3>3. g.slots[i].key = k
      BY <3>1, <3>2, PairIs
    <3>4. QED
      BY <3>3
  <2>6. h \in Surjection(I, T)
    BY <2>2, <2>5 DEF Surjection
  <2> HIDE DEF h, I
  <2>7. IsFiniteSet(T)
    BY GivenFinite
  <2>8. Cardinality(I) = Cardinality(T)
    BY <2>4, <2>6, <2>7, FS_Injection
  <2>9. Cardinality(I) = g.capacity
    <3>1. 0 \in Int /\ g.capacity - 1 \in Int /\ ~(0 > g.capacity - 1) /\ g.capacity - 1 - 0 + 1 = g.capacity
      BY <1>1
    <3>2. QED
      BY <3>1, FS_Interval DEF I
  <2>10. QED
    BY <2>8, <2>9 DEF GroupHolds
<1>3. F \in SUBSET Nat
  BY <1>1
<1>4. FirstAvailable(g) \in F
  BY <1>2, <1>3, FirstIs, SizeAssumption DEF FirstAvailable
<1>5. QED
  BY <1>4, SlotsAre

\* A pair is put into a free slot.
LEMMA PutHolds ==
  ASSUME NEW g, NEW f, GroupHolds(g, f), NEW k \in Keys, f[k] = NoValue, NEW v \in Values,
         NEW x \in DOMAIN g.slots, g.slots[x] = Free
  PROVE  GroupHolds([g EXCEPT !.slots[x] = Pair(k, v), !.pairCount = @ + 1], [f EXCEPT ![k] = v])
<1> DEFINE f2 == [f EXCEPT ![k] = v]
           s2 == [g.slots EXCEPT ![x] = Pair(k, v)]
           g2 == [g EXCEPT !.slots[x] = Pair(k, v), !.pairCount = @ + 1]
           I == 0 .. g.capacity - 1
<1>1. DOMAIN g.slots = I /\ g.capacity \in Nat \ {0} /\ f \in Partial /\ x \in I
  BY SlotsAre
<1>2. g2 = [g EXCEPT !.slots[x] = Pair(k, v), !.pairCount = @ + 1]
  OBVIOUS
<1> HIDE DEF g2
<1>3. g2 = [slots |-> s2, pairCount |-> g.pairCount + 1, capacity |-> g.capacity]
  BY <1>2 DEF GroupHolds
<1>4. s2 = [i \in I |-> s2[i]] /\ s2[x] = Pair(k, v) /\ \A i \in I \ {x} : s2[i] = g.slots[i]
  BY <1>1
<1>5. f2 \in Partial /\ f2[k] = v /\ \A j \in Keys \ {k} : f2[j] = f[j]
  BY <1>1 DEF Partial
<1>6. v # NoValue
  BY AbsentAssumption
<1>7. Given(f2) = Given(f) \cup {k} /\ k \notin Given(f)
  BY <1>5, <1>6 DEF Given
<1>8. \A j \in Given(f) : j \in Keys /\ Pair(j, f[j]) = Pair(j, f2[j])
  BY <1>5, <1>7 DEF Given
<1>9. Cardinality(Given(f2)) = Cardinality(Given(f)) + 1
  BY <1>7, GivenFinite, FS_AddElement
<1> HIDE DEF f2, s2
<1>10. \A i \in I : s2[i] = Free \/ \E j \in Given(f2) : s2[i] = Pair(j, f2[j])
  <2> TAKE i \in I
  <2>1. CASE i = x
    BY <1>4, <1>5, <1>7, <2>1
  <2>2. CASE i # x
    <3>1. s2[i] = g.slots[i]
      BY <1>4, <2>2
    <3>2. g.slots[i] = Free \/ \E j \in Given(f) : g.slots[i] = Pair(j, f[j])
      BY DEF GroupHolds
    <3>3. QED
      BY <1>7, <1>8, <3>1, <3>2
  <2>3. QED
    BY <2>1, <2>2
<1>11. \A j \in Given(f2) : \E i \in I : s2[i] = Pair(j, f2[j])
  <2> TAKE j \in Given(f2)
  <2>1. CASE j = k
    BY <1>1, <1>4, <1>5, <2>1
  <2>2. CASE j # k
    <3>1. j \in Given(f) /\ j \in Keys
      BY <1>7, <1>8, <2>2
    <3>2. PICK i \in I : g.slots[i] = Pair(j, f[j])
      BY <3>1 DEF GroupHolds
    <3>3. i # x
      <4>1. g.slots[i].mask # 0
        BY <3>1, <3>2, PairIs
      <4>2. QED
        BY <4>1 DEF Free
    <3>4. QED
      BY <1>4, <1>8, <3>1, <3>2, <3>3
  <2>3. QED
    BY <2>1, <2>2
<1>12. ASSUME NEW i \in I, s2[i].mask # 0, i # x
       PROVE  s2[i].key # k /\ s2[i] = g.slots[i]
  <2>1. s2[i] = g.slots[i]
    BY <1>4, <1>12
  <2>2. g.slots[i] # Free
    BY <1>12, <2>1 DEF Free
  <2>3. g.slots[i].key \in Given(f)
    BY <1>1, <2>2, SlotsAre
  <2>4. QED
    BY <1>7, <2>1, <2>3
<1>13. ASSUME NEW i \in I, NEW j \in I, s2[i].mask # 0, s2[i].key = s2[j].key  PROVE i = j
  <2>1. s2[x].key = k /\ s2[x].mask # 0
    BY <1>4, PairIs
  <2>2. CASE i = x
    <3>1. ASSUME j # x  PROVE FALSE
      <4>1. s2[j] = g.slots[j] /\ s2[j].key = k
        BY <1>4, <1>13, <2>1, <2>2, <3>1
      <4>2. g.slots[j] # Free
        BY <4>1, AbsentAssumption DEF Free
      <4>3. s2[j].mask # 0
        BY <1>1, <4>1, <4>2, SlotsAre
      <4>4. QED
        BY <1>12, <3>1, <4>1, <4>3
    <3>2. QED
      BY <2>2, <3>1
  <2>3. CASE i # x /\ j = x
    BY <1>12, <1>13, <2>1, <2>3
  <2>4. CASE i # x /\ j # x
    BY <1>4, <1>13, <2>4 DEF GroupHolds
  <2>5. QED
    BY <2>2, <2>3, <2>4
<1>14. g.pairCount + 1 = Cardinality(Given(f2))
  BY <1>9 DEF GroupHolds
<1>15. GroupHolds(g2, f2)
  BY <1>1, <1>3, <1>4, <1>5, <1>10, <1>11, <1>13, <1>14 DEF GroupHolds
<1>16. QED
  BY <1>15 DEF g2, f2

LEMMA GroupInsertHolds ==
  ASSUME NEW g, NEW f, GroupHolds(g, f), NEW k \in Keys, NEW v \in Values
  PROVE  GroupHolds(GroupInsert(g, k, v), IF f[k] = NoValue THEN [f EXCEPT ![k] = v] ELSE f)
<1>1. CASE f[k] # NoValue
  BY <1>1, HitsAre DEF GroupInsert
<1>2. CASE f[k] = NoValue
  <2> DEFINE room == IF g.pairCount = g.capacity THEN GroupReallocate(g, 2 * g.capacity) ELSE g
             x == FirstAvailable(room)
  <2>1. GroupHolds(room, f) /\ room.pairCount # room.capacity
    <3>1. CASE g.pairCount = g.capacity
      <4>1. 2 * g.capacity \in Nat \ {0} /\ g.pairCount = Cardinality(Given(f)) /\ g.pairCount # 2 * g.capacity
            /\ Cardinality(Given(f)) <= 2 * g.capacity
        BY <3>1 DEF GroupHolds
      <4> DEFINE r == GroupReallocate(g, 2 * g.capacity)
      <4>2. GroupHolds(r, f) /\ r.capacity = 2 * g.capacity
        BY <4>1, GroupReallocateHolds
      <4> HIDE DEF r
      <4>3. r.pairCount = Cardinality(Given(f))
        BY <4>2 DEF GroupHolds
      <4>4. room = r
        BY <3>1 DEF r
      <4>5. QED
        BY <4>1, <4>2, <4>3, <4>4
    <3>2. CASE g.pairCount # g.capacity
      BY <3>2
    <3>3. QED
      BY <3>1, <3>2
  <2>2. GroupInsert(g, k, v) = [room EXCEPT !.slots[x] = Pair(k, v), !.pairCount = @ + 1]
    BY <1>2, HitsAre DEF GroupInsert
  <2> HIDE DEF room
  <2>3. x \in DOMAIN room.slots /\ room.slots[x] = Free
    BY <2>1, RoomIs
  <2> HIDE DEF x
  <2>4. GroupHolds([room EXCEPT !.slots[x] = Pair(k, v), !.pairCount = @ + 1], [f EXCEPT ![k] = v])
    BY <1>2, <2>1, <2>3, PutHolds
  <2>5. QED
    BY <1>2, <2>2, <2>4
<1>3. QED
  BY <1>1, <1>2

LEMMA GroupEraseHolds ==
  ASSUME NEW g, NEW f, GroupHolds(g, f), NEW k \in Keys
  PROVE  GroupHolds(GroupErase(g, k), [f EXCEPT ![k] = NoValue])
<1> DEFINE f2 == [f EXCEPT ![k] = NoValue]
           I == 0 .. g.capacity - 1
<1>1. DOMAIN g.slots = I /\ g.capacity \in Nat \ {0} /\ f \in Partial
  BY SlotsAre
<1>2. CASE f[k] = NoValue
  <2>1. f2 = f
    BY <1>1, <1>2 DEF Partial
  <2>2. QED
    BY <1>2, <2>1, HitsAre DEF GroupErase
<1>3. CASE f[k] # NoValue
  <2> DEFINE x == Least(Hits(g, k))
             s2 == [g.slots EXCEPT ![x] = Free]
             g2 == GroupErase(g, k)
  <2>1. x \in I /\ g.slots[x] = Pair(k, f[k])
    BY <1>1, <1>3, HitsAre
  <2>2. g2 = [g EXCEPT !.slots[x] = Free, !.pairCount = @ - 1]
    BY <1>3, HitsAre DEF GroupErase
  <2> HIDE DEF x, g2
  <2>3. g2 = [slots |-> s2, pairCount |-> g.pairCount - 1, capacity |-> g.capacity]
    BY <2>2 DEF GroupHolds
  <2>4. s2 = [i \in I |-> s2[i]] /\ s2[x] = Free /\ \A i \in I \ {x} : s2[i] = g.slots[i]
    BY <1>1, <2>1
  <2>5. f2 \in Partial /\ f2[k] = NoValue /\ \A j \in Keys \ {k} : f2[j] = f[j]
    BY <1>1 DEF Partial
  <2>6. Given(f2) = Given(f) \ {k} /\ k \in Given(f)
    BY <1>3, <2>5 DEF Given
  <2>7. \A j \in Given(f2) : j \in Keys /\ j # k /\ j \in Given(f) /\ Pair(j, f[j]) = Pair(j, f2[j])
    BY <2>5, <2>6 DEF Given
  <2>8. Cardinality(Given(f2)) = Cardinality(Given(f)) - 1
    BY <2>6, GivenFinite, FS_RemoveElement
  <2> HIDE DEF f2, s2
  <2>9. ASSUME NEW i \in I, s2[i] # Free
        PROVE  i # x /\ s2[i] = g.slots[i] /\ g.slots[i].key \in Given(f2)
    <3>1. i # x /\ s2[i] = g.slots[i]
      BY <2>4, <2>9
    <3>2. g.slots[i].key \in Given(f)
      BY <1>1, <2>9, <3>1, SlotsAre
    <3>3. g.slots[i].mask # 0
      BY <1>1, <2>9, <3>1, SlotsAre
    <3>4. g.slots[x].key = k
      BY <2>1, PairIs
    <3>5. g.slots[i].key # k
      BY <2>1, <3>1, <3>3, <3>4 DEF GroupHolds
    <3>6. QED
      BY <2>6, <3>1, <3>2, <3>5
  <2>10. \A i \in I : s2[i] = Free \/ \E j \in Given(f2) : s2[i] = Pair(j, f2[j])
    <3> TAKE i \in I
    <3>1. CASE s2[i] # Free
      <4>1. s2[i] = g.slots[i] /\ g.slots[i].key \in Given(f2)
        BY <2>9, <3>1
      <4>2. g.slots[i] = Pair(g.slots[i].key, f[g.slots[i].key])
        BY <1>1, <3>1, <4>1, SlotsAre
      <4>3. QED
        BY <2>7, <4>1, <4>2
    <3>2. QED
      BY <3>1
  <2>11. \A j \in Given(f2) : \E i \in I : s2[i] = Pair(j, f2[j])
    <3> TAKE j \in Given(f2)
    <3>1. j \in Keys /\ j # k /\ j \in Given(f) /\ Pair(j, f[j]) = Pair(j, f2[j])
      BY <2>7
    <3>2. PICK i \in I : g.slots[i] = Pair(j, f[j])
      BY <3>1 DEF GroupHolds
    <3>3. i # x
      BY <2>1, <3>1, <3>2, PairIs
    <3>4. QED
      BY <2>4, <3>1, <3>2, <3>3
  <2>12. ASSUME NEW i \in I, NEW j \in I, s2[i].mask # 0, s2[i].key = s2[j].key  PROVE i = j
    <3>1. s2[i] # Free
      BY <2>12 DEF Free
    <3>2. i # x /\ s2[i] = g.slots[i] /\ g.slots[i].key \in Given(f2)
      BY <2>9, <3>1
    <3>3. g.slots[i].key \in Keys
      BY <2>7, <3>2
    <3>4. s2[j] # Free
      BY <2>12, <3>2, <3>3, AbsentAssumption DEF Free
    <3>5. s2[j] = g.slots[j]
      BY <2>9, <3>4
    <3>6. QED
      BY <2>12, <3>2, <3>5 DEF GroupHolds
  <2>13. g.pairCount - 1 = Cardinality(Given(f2))
    BY <2>8 DEF GroupHolds
  <2>14. GroupHolds(g2, f2)
    BY <1>1, <2>3, <2>4, <2>5, <2>10, <2>11, <2>12, <2>13 DEF GroupHolds
  <2>15. QED
    BY <2>14 DEF g2, f2
<1>4. QED
  BY <1>2, <1>3

-----------------------------------------------------------------------------
(* Groups of a map *)

Nil == [k \in Keys |-> NoValue]

\* What the group g of n holds of the pairs of D.
Part(D, n, g) == [k \in Keys |-> IF GroupOf(k, n) = g THEN D[k] ELSE NoValue]

LEMMA PartIs ==
  ASSUME NEW D \in Partial, NEW n \in Nat \ {0}, NEW g
  PROVE  /\ Part(D, n, g) \in Partial
         /\ \A k \in Given(Part(D, n, g)) : k \in Given(D) /\ GroupOf(k, n) = g /\ Part(D, n, g)[k] = D[k]
         /\ \A k \in Given(D) : GroupOf(k, n) = g => k \in Given(Part(D, n, g)) /\ Part(D, n, g)[k] = D[k]
  BY DEF Partial, Part, Given

LEMMA GroupIs ==
  ASSUME NEW k \in Keys, NEW n \in Nat \ {0}  PROVE GroupOf(k, n) \in 0 .. n - 1
<1>1. Hash[k] \in Nat
  BY KeysAssumption
<1>2. PICK h \in Nat : h = Hash[k] \div 128
  BY <1>1
<1>3. h % n \in 0 .. n - 1
  OBVIOUS
<1>4. QED
  BY <1>2, <1>3 DEF GroupOf, GroupBits

LEMMA NilIs == Nil \in Partial /\ Given(Nil) = {} /\ Cardinality(Given(Nil)) = 0
<1>1. Nil \in Partial /\ Given(Nil) = {}
  BY DEF Nil, Partial, Given
<1>2. QED
  BY <1>1, FS_EmptySet

LEMMA NoneGiven ==
  ASSUME NEW D \in Partial  PROVE Cardinality(Given(D)) = 0 <=> D = Nil
<1>1. Given(D) = {} => D = Nil
  BY DEF Given, Partial, Nil
<1>2. Cardinality(Given(D)) = 0 <=> Given(D) = {}
  BY GivenFinite, FS_EmptySet
<1>3. QED
  BY <1>1, <1>2, NilIs

\* The groups of a map hold the pairs of D, each in the group of its hash.
GroupsHold(groups, n, D) ==
  /\ n \in Nat \ {0} /\ D \in Partial
  /\ groups = [g \in 0 .. n - 1 |-> groups[g]]
  /\ \A g \in 0 .. n - 1 : GroupHolds(groups[g], Part(D, n, g))

LEMMA GroupsCarry ==
  ASSUME NEW groups, NEW n, NEW D, GroupsHold(groups, n, D)
  PROVE  /\ Carries(groups, Stored(groups), D)
         /\ \A p \in Stored(groups) : p[1] = GroupOf(At(groups, p).key, n)
         /\ \A g \in 0 .. n - 1 : groups[g].pairCount = Cardinality({p \in Stored(groups) : p[1] = g})
<1> DEFINE I == 0 .. n - 1
           S == Stored(groups)
           R(g) == {p \in S : p[1] = g}
<1>1. DOMAIN groups = I /\ n \in Nat \ {0} /\ D \in Partial
  BY DEF GroupsHold
<1>2. ASSUME NEW g \in I  PROVE Carries(groups, R(g), Part(D, n, g))
  <2>1. GroupHolds(groups[g], Part(D, n, g)) /\ g \in Nat /\ g \in DOMAIN groups
    BY <1>1 DEF GroupsHold
  <2>2. QED
    BY <2>1, GroupCarries
<1>3. \A p \in S : p[1] \in I /\ p \in R(p[1])
  BY <1>1, StoredIs
<1> HIDE DEF R
<1>4. \A p \in S : p \in Nat \X Nat
  BY <1>2, <1>3 DEF Carries
<1>5. ASSUME NEW p \in S
      PROVE  \E k \in Given(D) : At(groups, p) = Pair(k, D[k]) /\ GroupOf(k, n) = p[1] /\ k \in Keys
  <2>1. PICK g \in I : p[1] = g /\ p \in R(g)
    BY <1>3
  <2>2. PICK k \in Given(Part(D, n, g)) : At(groups, p) = Pair(k, Part(D, n, g)[k])
    BY <1>2, <2>1 DEF Carries
  <2>3. k \in Given(D) /\ GroupOf(k, n) = g /\ Part(D, n, g)[k] = D[k]
    BY <1>1, PartIs
  <2>4. k \in Keys
    BY <2>3 DEF Given
  <2>5. QED
    BY <2>1, <2>2, <2>3, <2>4
<1>6. ASSUME NEW k \in Given(D)  PROVE \E p \in S : At(groups, p) = Pair(k, D[k])
  <2>1. k \in Keys
    BY DEF Given
  <2>2. PICK g \in I : GroupOf(k, n) = g
    BY <1>1, <2>1, GroupIs
  <2>3. k \in Given(Part(D, n, g)) /\ Part(D, n, g)[k] = D[k]
    BY <1>1, <2>2, PartIs
  <2>4. PICK p \in R(g) : At(groups, p) = Pair(k, Part(D, n, g)[k])
    BY <1>2, <2>3 DEF Carries
  <2>5. p \in S
    BY DEF R
  <2>6. QED
    BY <2>3, <2>4, <2>5
<1>7. \A p \in S : p[1] = GroupOf(At(groups, p).key, n)
  BY <1>5, PairIs
<1>8. ASSUME NEW p \in S, NEW q \in S, At(groups, p).key = At(groups, q).key  PROVE p = q
  <2>1. PICK g \in I : p[1] = g /\ p \in R(g)
    BY <1>3
  <2>2. q[1] = g
    BY <1>7, <1>8, <2>1
  <2>3. q \in R(g)
    BY <1>3, <2>2
  <2>4. QED
    BY <1>2, <1>8, <2>1, <2>3 DEF Carries
<1>9. Carries(groups, S, D)
  BY <1>1, <1>4, <1>5, <1>6, <1>8 DEF Carries
<1>10. ASSUME NEW g \in I  PROVE groups[g].pairCount = Cardinality(R(g))
  <2>1. Cardinality(R(g)) = Cardinality(Given(Part(D, n, g)))
    BY <1>2, CarriesCount
  <2>2. GroupHolds(groups[g], Part(D, n, g))
    BY DEF GroupsHold
  <2>3. QED
    BY <2>1, <2>2 DEF GroupHolds
<1>11. QED
  BY <1>7, <1>9, <1>10 DEF R

\* Pairs that are spread over empty groups are in the groups of their hashes.
LEMMA SpreadHolds ==
  ASSUME NEW groups, NEW n \in Nat \ {0}, DOMAIN groups = 0 .. n - 1,
         \A g \in 0 .. n - 1 : groups[g].capacity \in Nat \ {0},
         NEW from, NEW D, Carries(from, Stored(from), D)
  PROVE  GroupsHold(Spread(groups, from), n, D)
<1> DEFINE I == 0 .. n - 1
           S(x) == {p \in Stored(from) : GroupOf(At(from, p).key, n) = x}
           P(x) == Packed(from, S(x), Doubled(groups[x].capacity, Cardinality(S(x))))
<1>1. Cardinality(DOMAIN groups) = n
  <2>1. 0 \in Int /\ n - 1 \in Int /\ ~(0 > n - 1) /\ n - 1 - 0 + 1 = n
    OBVIOUS
  <2>2. QED
    BY <2>1, FS_Interval
<1>2. Spread(groups, from) = [x \in I |-> P(x)]
  BY <1>1 DEF Spread
<1>3. D \in Partial
  BY DEF Carries
<1>4. ASSUME NEW x \in I  PROVE GroupHolds(P(x), Part(D, n, x))
  <2> DEFINE f == Part(D, n, x)
             T == S(x)
  <2>1. f \in Partial
    BY <1>3, PartIs
  <2>2. ASSUME NEW p \in T
        PROVE  \E k \in Given(f) : At(from, p) = Pair(k, f[k])
    <3>1. PICK k \in Given(D) : At(from, p) = Pair(k, D[k])
      BY DEF Carries
    <3>2. k \in Keys
      BY DEF Given
    <3>3. GroupOf(k, n) = x
      BY <3>1, <3>2, PairIs
    <3>4. k \in Given(f) /\ f[k] = D[k]
      BY <1>3, <3>3, PartIs
    <3>5. QED
      BY <3>1, <3>4
  <2>3. ASSUME NEW k \in Given(f)
        PROVE  \E p \in T : At(from, p) = Pair(k, f[k])
    <3>1. k \in Given(D) /\ GroupOf(k, n) = x /\ f[k] = D[k]
      BY <1>3, PartIs
    <3>2. PICK p \in Stored(from) : At(from, p) = Pair(k, D[k])
      BY <3>1 DEF Carries
    <3>3. k \in Keys
      BY <3>1 DEF Given
    <3>4. At(from, p).key = k
      BY <3>2, <3>3, PairIs
    <3>5. p \in T
      BY <3>1, <3>4
    <3>6. QED
      BY <3>1, <3>2, <3>5
  <2>4. T \in SUBSET (Nat \X Nat) /\ \A p, q \in T : At(from, p).key = At(from, q).key => p = q
    BY DEF Carries
  <2> HIDE DEF T, f
  <2>5. Carries(from, T, f)
    BY <2>1, <2>2, <2>3, <2>4 DEF Carries
  <2>6. Cardinality(T) = Cardinality(Given(f)) /\ Cardinality(T) \in 0 .. MaxPairs
    BY <2>5, CarriesCount, GivenFinite
  <2> DEFINE c == groups[x].capacity
             d == Doubled(c, Cardinality(T))
  <2>7. c \in Nat \ {0}
    OBVIOUS
  <2> HIDE DEF c
  <2>8. d \in Nat \ {0} /\ d >= Cardinality(T)
    BY <2>6, <2>7, DoubledIs
  <2> HIDE DEF d
  <2>9. Cardinality(Given(f)) <= d
    <3>1. Cardinality(T) \in Nat
      BY <2>5, CarriesCount, FS_CardinalityType
    <3>2. QED
      BY <2>6, <2>8, <3>1
  <2>10. GroupHolds(Packed(from, T, d), f)
    BY <2>5, <2>8, <2>9, PackedHolds
  <2>11. QED
    BY <2>10 DEF d, c, T, f
<1> HIDE DEF P
<1>5. QED
  BY <1>2, <1>3, <1>4 DEF GroupsHold

LEMMA NoneStored == Stored(NoGroups) = {} /\ Carries(NoGroups, Stored(NoGroups), Nil) /\ DOMAIN NoGroups = {}
<1>1. DOMAIN NoGroups = {}
  BY DEF NoGroups
<1>2. Stored(NoGroups) = {}
  BY <1>1, StoredIs
<1>3. QED
  BY <1>1, <1>2, NilIs DEF Carries

-----------------------------------------------------------------------------
(* Maps *)

\* A map with groups, which hold the pairs of D.
MapHolds(x, D) ==
  /\ x = [groups |-> x.groups, groupCount |-> x.groupCount, elementCount |-> x.elementCount, allocator |-> TRUE]
  /\ GroupsHold(x.groups, x.groupCount, D)
  /\ x.elementCount = Cardinality(Given(D))

\* A map without groups: it is new, moved from, or was assigned nothing.
Bare(x) ==
  /\ x = [groups |-> NoGroups, groupCount |-> x.groupCount, elementCount |-> x.elementCount, allocator |-> x.allocator]
  /\ x.groupCount \in Nat
  /\ x.allocator /\ x.groupCount = 0 => x.elementCount = 0

StandsFor(x, D) == MapHolds(x, D) \/ (Bare(x) /\ D = Nil)

\* What Usable says of the HashMap itself.
Ready(x) == x.allocator /\ DOMAIN x.groups = 0 .. x.groupCount - 1

\* Records of the fields of a map.
IsMap(x) == x = [groups |-> x.groups, groupCount |-> x.groupCount, elementCount |-> x.elementCount, allocator |-> x.allocator]

LEMMA GroupsSet ==
  ASSUME NEW x, IsMap(x), NEW a
  PROVE  [x EXCEPT !.groups = a]
           = [groups |-> a, groupCount |-> x.groupCount, elementCount |-> x.elementCount, allocator |-> x.allocator]
  BY DEF IsMap

LEMMA CountSet ==
  ASSUME NEW x, IsMap(x), NEW c
  PROVE  [x EXCEPT !.elementCount = c]
           = [groups |-> x.groups, groupCount |-> x.groupCount, elementCount |-> c, allocator |-> x.allocator]
  BY DEF IsMap

LEMMA BothSet ==
  ASSUME NEW x, IsMap(x), NEW a, NEW c, NEW z, z = [x EXCEPT !.groups = a, !.elementCount = c]
  PROVE  z = [groups |-> a, groupCount |-> x.groupCount, elementCount |-> c, allocator |-> x.allocator]
<1> DEFINE y == [x EXCEPT !.groups = a]
<1>1. y = [groups |-> a, groupCount |-> x.groupCount, elementCount |-> x.elementCount, allocator |-> x.allocator]
  BY GroupsSet
<1>2. z = [y EXCEPT !.elementCount = c]
  OBVIOUS
<1> HIDE DEF y
<1>3. QED
  BY <1>1, <1>2

LEMMA SetBoth ==
  ASSUME NEW x, IsMap(x), NEW a, NEW c, NEW z, z = [x EXCEPT !.elementCount = c, !.groups = a]
  PROVE  z = [groups |-> a, groupCount |-> x.groupCount, elementCount |-> c, allocator |-> x.allocator]
<1> DEFINE w == [x EXCEPT !.elementCount = c]
<1>1. w = [groups |-> x.groups, groupCount |-> x.groupCount, elementCount |-> c, allocator |-> x.allocator]
  BY CountSet
<1>2. z = [w EXCEPT !.groups = a]
  OBVIOUS
<1> HIDE DEF w
<1>3. QED
  BY <1>1, <1>2

LEMMA LeftSet ==
  ASSUME NEW x, IsMap(x), NEW a, NEW d
  PROVE  [x EXCEPT !.groups = a, !.allocator = d]
           = [groups |-> a, groupCount |-> x.groupCount, elementCount |-> x.elementCount, allocator |-> d]
<1> DEFINE y == [x EXCEPT !.groups = a]
<1>1. y = [groups |-> a, groupCount |-> x.groupCount, elementCount |-> x.elementCount, allocator |-> x.allocator]
  BY GroupsSet
<1>2. [x EXCEPT !.groups = a, !.allocator = d] = [y EXCEPT !.allocator = d]
  OBVIOUS
<1> HIDE DEF y
<1>3. [y EXCEPT !.allocator = d]
        = [groups |-> a, groupCount |-> x.groupCount, elementCount |-> x.elementCount, allocator |-> d]
  BY <1>1
<1>4. QED
  BY <1>2, <1>3

LEMMA MapIs ==
  ASSUME NEW x, NEW D, StandsFor(x, D)  PROVE IsMap(x) /\ x.groupCount \in Nat
<1>1. CASE MapHolds(x, D)
  BY <1>1 DEF MapHolds, IsMap, GroupsHold
<1>2. CASE Bare(x)
  BY <1>2 DEF Bare, IsMap
<1>3. QED
  BY <1>1, <1>2 DEF StandsFor

LEMMA AllocatorIs == ASSUME NEW x, NEW D, MapHolds(x, D)  PROVE IsMap(x) /\ x.allocator = TRUE
  BY DEF MapHolds, IsMap

LEMMA StandsForIs ==
  ASSUME NEW x, NEW D, StandsFor(x, D)
  PROVE  /\ D \in Partial /\ ContentsOf(x.groups, Stored(x.groups)) = D
         /\ Carries(x.groups, Stored(x.groups), D)
         /\ Ready(x) => /\ x.groupCount \in Nat
                        /\ x.elementCount = Cardinality(Given(D)) /\ x.elementCount = Cardinality(Stored(x.groups))
                        /\ x.groupCount # 0 => MapHolds(x, D)
         /\ \A p \in Stored(x.groups) : p[1] = GroupOf(At(x.groups, p).key, x.groupCount)
<1>1. CASE MapHolds(x, D)
  <2>1. /\ Carries(x.groups, Stored(x.groups), D)
        /\ \A p \in Stored(x.groups) : p[1] = GroupOf(At(x.groups, p).key, x.groupCount)
    BY <1>1, GroupsCarry DEF MapHolds
  <2>2. D \in Partial /\ x.groupCount \in Nat
    BY <1>1 DEF MapHolds, GroupsHold
  <2>3. x.elementCount = Cardinality(Given(D)) /\ x.elementCount = Cardinality(Stored(x.groups))
    BY <1>1, <2>1, CarriesCount DEF MapHolds
  <2>4. ContentsOf(x.groups, Stored(x.groups)) = D
    BY <2>1, CarriesContents
  <2>5. QED
    BY <1>1, <2>1, <2>2, <2>3, <2>4
<1>2. CASE Bare(x) /\ D = Nil
  <2>1. x.groups = NoGroups /\ x.groupCount \in Nat
    BY <1>2 DEF Bare
  <2>2. D \in Partial /\ Carries(x.groups, Stored(x.groups), D) /\ Stored(x.groups) = {} /\ DOMAIN x.groups = {}
    BY <1>2, <2>1, NoneStored, NilIs
  <2>3. ContentsOf(x.groups, Stored(x.groups)) = D
    BY <2>2, CarriesContents
  <2>4. Ready(x) => x.groupCount = 0
    <3>1. x.groupCount # 0 => 0 \in 0 .. x.groupCount - 1
      BY <2>1
    <3>2. QED
      BY <2>1, <2>2, <3>1 DEF Ready
  <2>5. Cardinality(Given(D)) = 0 /\ Cardinality(Stored(x.groups)) = 0
    BY <1>2, <2>2, NilIs, FS_EmptySet
  <2>6. Ready(x) => x.elementCount = 0
    BY <1>2, <2>4 DEF Bare, Ready
  <2>7. QED
    BY <2>1, <2>2, <2>3, <2>4, <2>5, <2>6
<1>3. QED
  BY <1>1, <1>2 DEF StandsFor

LEMMA FreshIs == Bare(Fresh) /\ StandsFor(Fresh, Nil) /\ Ready(Fresh)
<1>1. Bare(Fresh)
  BY DEF Bare, Fresh
<1>2. Ready(Fresh)
  BY NoneStored DEF Ready, Fresh
<1>3. QED
  BY <1>1, <1>2 DEF StandsFor

LEMMA MapHoldsIs ==
  ASSUME NEW x, NEW D, MapHolds(x, D)
  PROVE  Ready(x) /\ StandsFor(x, D) /\ x.groupCount \in Nat \ {0} /\ x.groups # NoGroups
<1>1. x.groupCount \in Nat \ {0} /\ DOMAIN x.groups = 0 .. x.groupCount - 1 /\ x.allocator
  BY DEF MapHolds, GroupsHold
<1>2. 0 \in DOMAIN x.groups
  BY <1>1
<1>3. QED
  BY <1>1, <1>2, NoneStored DEF Ready, StandsFor

\* A number of pairs that a map may be asked to have room for.
Required(r) == \E n \in 0 .. MaxPairs + 1, a \in Reserves \cup {0} : r = n + a

LEMMA RequiredIs ==
  /\ \A n \in 0 .. MaxPairs + 1 : Required(n)
  /\ \A r : Required(r) => NewGroupCount(r) \in Nat \ {0} /\ r \in Nat
<1>1. MaxPairs \in Nat
  BY KeysAssumption, FS_CardinalityType DEF MaxPairs
<1>2. \A n \in 0 .. MaxPairs + 1 : n = n + 0
  BY <1>1
<1>3. \A n \in 0 .. MaxPairs + 1, a \in Reserves \cup {0} : n + a \in Nat
  BY <1>1, SizeAssumption
<1>4. QED
  BY <1>2, <1>3, GroupCountAssumption DEF Required

LEMMA ReallocateHolds ==
  ASSUME NEW x, NEW D, StandsFor(x, D), Ready(x), NEW r, Required(r)
  PROVE  MapHolds(Reallocate(x, r), D)
<1> DEFINE n == NewGroupCount(r)
           new == [g \in 0 .. n - 1 |-> EmptyGroup(GroupSize)]
           s == Spread(new, x.groups)
<1>1. n \in Nat \ {0}
  BY RequiredIs
<1>2. x.groupCount \in Nat
  BY StandsForIs
<1>3. CASE n <= x.groupCount
  <2>1. x.groupCount # 0
    BY <1>1, <1>2, <1>3
  <2>2. MapHolds(x, D)
    BY <2>1, StandsForIs
  <2>3. QED
    BY <1>3, <2>2 DEF Reallocate
<1>4. CASE ~(n <= x.groupCount)
  <2>1. DOMAIN new = 0 .. n - 1 /\ \A g \in 0 .. n - 1 : new[g].capacity \in Nat \ {0}
    BY SizeAssumption DEF EmptyGroup
  <2>2. Carries(x.groups, Stored(x.groups), D)
    BY StandsForIs
  <2>3. Reallocate(x, r) = [x EXCEPT !.groups = s, !.groupCount = n]
    BY <1>4 DEF Reallocate
  <2> HIDE DEF n
  <2>4. GroupsHold(s, n, D)
    <3> HIDE DEF new
    <3>1. QED
      BY <1>1, <2>1, <2>2, SpreadHolds
  <2> HIDE DEF s
  <2> DEFINE y == Reallocate(x, r)
  <2>5. y = [groups |-> s, groupCount |-> n, elementCount |-> x.elementCount, allocator |-> TRUE]
    <3>1. x.allocator = TRUE
      <4>1. MapHolds(x, D) => x.allocator = TRUE
        BY DEF MapHolds
      <4>2. QED
        BY <4>1 DEF Ready, StandsFor
    <3>2. x = [groups |-> x.groups, groupCount |-> x.groupCount, elementCount |-> x.elementCount, allocator |-> x.allocator]
      BY DEF StandsFor, MapHolds, Bare
    <3>3. QED
      BY <2>3, <3>1, <3>2
  <2>6. x.elementCount = Cardinality(Given(D))
    BY StandsForIs
  <2> HIDE DEF y
  <2>7. MapHolds(y, D)
    BY <2>4, <2>5, <2>6 DEF MapHolds
  <2>8. QED
    BY <2>7 DEF y
<1>5. QED
  BY <1>3, <1>4

LEMMA GrownHolds ==
  ASSUME NEW x, NEW D, StandsFor(x, D), Ready(x), NEW r, Required(r)
  PROVE  MapHolds(Grown(x, r), D)
<1>1. CASE ShouldReallocate(x, r)
  BY <1>1, ReallocateHolds DEF Grown
<1>2. CASE ~ShouldReallocate(x, r)
  <2>1. x.groupCount # 0
    BY <1>2 DEF ShouldReallocate
  <2>2. QED
    BY <1>2, <2>1, StandsForIs DEF Grown
<1>3. QED
  BY <1>1, <1>2

\* The pairs of a map are copied into one that has none.
LEMMA CopyPairsHolds ==
  ASSUME NEW x, MapHolds(x, Nil), NEW y, NEW D, StandsFor(y, D)
  PROVE  MapHolds(CopyPairs(x, y), D)
<1> DEFINE n == x.groupCount
           s == Spread(x.groups, y.groups)
           z == CopyPairs(x, y)
<1>1. n \in Nat \ {0} /\ DOMAIN x.groups = 0 .. n - 1
  BY DEF MapHolds, GroupsHold
<1>2. \A g \in 0 .. n - 1 : x.groups[g].capacity \in Nat \ {0}
  BY DEF MapHolds, GroupsHold, GroupHolds
<1>3. Carries(y.groups, Stored(y.groups), D)
  BY StandsForIs
<1>4. GroupsHold(s, n, D)
  BY <1>1, <1>2, <1>3, SpreadHolds
<1>5. Cardinality(Stored(y.groups)) = Cardinality(Given(D)) /\ Cardinality(Given(D)) \in Nat
  BY <1>3, CarriesCount, GivenFinite, FS_CardinalityType
<1>6. x.elementCount = 0
  BY NilIs DEF MapHolds
<1>7. x.elementCount + Cardinality(Stored(y.groups)) = Cardinality(Given(D))
  BY <1>5, <1>6
<1>8. z = [x EXCEPT !.groups = s, !.elementCount = x.elementCount + Cardinality(Stored(y.groups))]
  BY DEF CopyPairs
<1> HIDE DEF s, z
<1>9. z = [groups |-> s, groupCount |-> n, elementCount |-> Cardinality(Given(D)), allocator |-> TRUE]
  <2> DEFINE c == Cardinality(Given(D))
  <2>1. IsMap(x) /\ x.allocator = TRUE
    BY AllocatorIs
  <2>2. z = [x EXCEPT !.groups = s, !.elementCount = c]
    BY <1>7, <1>8
  <2> HIDE DEF c
  <2>3. z = [groups |-> s, groupCount |-> x.groupCount, elementCount |-> c, allocator |-> x.allocator]
    BY <2>1, <2>2, BothSet
  <2> HIDE DEF n
  <2>4. z = [groups |-> s, groupCount |-> n, elementCount |-> c, allocator |-> TRUE]
    BY <2>1, <2>2, <2>3 DEF n
  <2>5. QED
    BY <2>4 DEF c, n
<1>10. MapHolds(z, D)
  BY <1>4, <1>9 DEF MapHolds
<1>11. QED
  BY <1>10 DEF z

LEMMA CopiedHolds ==
  ASSUME NEW y, NEW D, StandsFor(y, D), Ready(y)  PROVE StandsFor(Copied(y), D)
<1>1. CASE y.groupCount = 0
  <2>1. ~MapHolds(y, D)
    BY <1>1, MapHoldsIs
  <2>2. D = Nil
    BY <2>1 DEF StandsFor
  <2>3. QED
    BY <1>1, <2>2, FreshIs DEF Copied
<1>2. CASE y.groupCount # 0
  <2> DEFINE x == Reallocate(Fresh, y.elementCount)
  <2>1. y.elementCount \in 0 .. MaxPairs
    BY StandsForIs, GivenFinite
  <2>2. Required(y.elementCount)
    BY <2>1, KeysAssumption, FS_CardinalityType, RequiredIs DEF MaxPairs
  <2>3. MapHolds(x, Nil)
    BY <2>2, FreshIs, ReallocateHolds
  <2> HIDE DEF x
  <2>4. MapHolds(CopyPairs(x, y), D)
    BY <2>3, CopyPairsHolds
  <2>5. QED
    BY <1>2, <2>4 DEF Copied, x, StandsFor
<1>3. QED
  BY <1>1, <1>2

LEMMA LookupIs ==
  ASSUME NEW x, NEW D, StandsFor(x, D), Ready(x), NEW k \in Keys
  PROVE  Lookup(x, k) = D[k]
<1>1. x.elementCount = Cardinality(Given(D)) /\ D \in Partial
  BY StandsForIs
<1>2. CASE x.elementCount = 0
  <2>1. D = Nil
    BY <1>1, <1>2, NoneGiven
  <2>2. QED
    BY <1>2, <2>1 DEF Lookup, Nil
<1>3. CASE x.elementCount # 0
  <2> DEFINE n == x.groupCount
             g == GroupOf(k, n)
  <2>1. D # Nil
    BY <1>1, <1>3, NilIs
  <2>2. GroupsHold(x.groups, n, D)
    BY <2>1 DEF StandsFor, MapHolds
  <2>3. n \in Nat \ {0} /\ g \in 0 .. n - 1
    BY <2>2, GroupIs DEF GroupsHold
  <2>4. GroupHolds(x.groups[g], Part(D, n, g))
    BY <2>2, <2>3 DEF GroupsHold
  <2>5. ValueIn(x.groups[g], k) = Part(D, n, g)[k]
    BY <2>4, ValueIs
  <2>6. Part(D, n, g)[k] = D[k]
    BY DEF Part
  <2>7. QED
    BY <1>3, <2>5, <2>6 DEF Lookup
<1>4. QED
  BY <1>2, <1>3

\* One group changes its pair of one key.
LEMMA GroupsChange ==
  ASSUME NEW groups, NEW n, NEW D, GroupsHold(groups, n, D), NEW k \in Keys,
         NEW g, g = GroupOf(k, n), NEW w \in Values \cup {NoValue},
         NEW h, GroupHolds(h, [Part(D, n, g) EXCEPT ![k] = w])
  PROVE  GroupsHold([groups EXCEPT ![g] = h], n, [D EXCEPT ![k] = w])
<1> DEFINE I == 0 .. n - 1
           D2 == [D EXCEPT ![k] = w]
           s == [groups EXCEPT ![g] = h]
<1>1. n \in Nat \ {0} /\ D \in Partial /\ DOMAIN groups = I
  BY DEF GroupsHold
<1>2. D2 \in Partial /\ D2[k] = w /\ \A j \in Keys \ {k} : D2[j] = D[j]
  BY <1>1 DEF Partial
<1>3. s = [y \in I |-> s[y]] /\ \A y \in I : s[y] = IF y = g THEN h ELSE groups[y]
  BY <1>1
<1> HIDE DEF D2, s
<1>4. ASSUME NEW y \in I  PROVE GroupHolds(s[y], Part(D2, n, y))
  <2>1. CASE y = g
    <3>1. [Part(D, n, g) EXCEPT ![k] = w] = Part(D2, n, g)
      BY <1>2 DEF Part
    <3>2. QED
      BY <1>3, <2>1, <3>1
  <2>2. CASE y # g
    <3>1. Part(D2, n, y) = Part(D, n, y)
      BY <1>2, <2>2 DEF Part
    <3>2. GroupHolds(groups[y], Part(D, n, y))
      BY DEF GroupsHold
    <3>3. QED
      BY <1>3, <2>2, <3>1, <3>2
  <2>3. QED
    BY <2>1, <2>2
<1>5. GroupsHold(s, n, D2)
  BY <1>1, <1>2, <1>3, <1>4 DEF GroupsHold
<1>6. QED
  BY <1>5 DEF s, D2

LEMMA InsertHolds ==
  ASSUME NEW y, NEW D, MapHolds(y, D), NEW k \in Keys, NEW v \in Values,
         NEW g, g = GroupOf(k, y.groupCount),
         NEW c, c = IF D[k] = NoValue THEN y.elementCount + 1 ELSE y.elementCount
  PROVE  MapHolds([y EXCEPT !.groups[g] = GroupInsert(y.groups[g], k, v), !.elementCount = c],
                  IF D[k] = NoValue THEN [D EXCEPT ![k] = v] ELSE D)
<1> DEFINE n == y.groupCount
           f == Part(D, n, g)
           w == IF D[k] = NoValue THEN v ELSE D[k]
           D2 == [D EXCEPT ![k] = w]
           h == GroupInsert(y.groups[g], k, v)
           s == [y.groups EXCEPT ![g] = h]
           z == [y EXCEPT !.groups[g] = h, !.elementCount = c]
<1>1. GroupsHold(y.groups, n, D) /\ y.elementCount = Cardinality(Given(D))
  BY DEF MapHolds
<1>2. n \in Nat \ {0} /\ D \in Partial /\ g \in 0 .. n - 1
  BY <1>1, GroupIs DEF GroupsHold
<1>3. GroupHolds(y.groups[g], f) /\ f[k] = D[k] /\ f \in Partial
  <2>1. GroupHolds(y.groups[g], f)
    BY <1>1, <1>2 DEF GroupsHold
  <2>2. f \in Partial
    BY <1>2, PartIs
  <2>3. f[k] = D[k]
    BY DEF Part
  <2>4. QED
    BY <2>1, <2>2, <2>3
<1>4. w \in Values \cup {NoValue}
  BY <1>2 DEF Partial
<1>5. GroupHolds(h, IF f[k] = NoValue THEN [f EXCEPT ![k] = v] ELSE f)
  BY <1>3, GroupInsertHolds
<1>6. (IF f[k] = NoValue THEN [f EXCEPT ![k] = v] ELSE f) = [f EXCEPT ![k] = w]
  BY <1>3 DEF Partial
<1>7. D2 = IF D[k] = NoValue THEN [D EXCEPT ![k] = v] ELSE D
  BY <1>2 DEF Partial
<1>8. z = [y EXCEPT !.groups[g] = h, !.elementCount = c]
  OBVIOUS
<1>9. GroupHolds(h, [f EXCEPT ![k] = w])
  BY <1>5, <1>6
<1> HIDE DEF h, z, w
<1>10. GroupsHold(s, n, D2)
  BY <1>1, <1>4, <1>9, GroupsChange
<1>11. c = Cardinality(Given(D2))
  <2>1. CASE D[k] = NoValue
    <3>1. Given(D2) = Given(D) \cup {k} /\ k \notin Given(D)
      <4>1. w = v /\ v # NoValue
        BY <2>1, AbsentAssumption DEF w
      <4>2. D2[k] = w /\ \A j \in Keys \ {k} : D2[j] = D[j]
        BY <1>2 DEF Partial
      <4>3. QED
        BY <2>1, <4>1, <4>2 DEF Given
    <3>2. QED
      BY <1>1, <2>1, <3>1, GivenFinite, FS_AddElement
  <2>2. CASE D[k] # NoValue
    BY <1>1, <1>7, <2>2
  <2>3. QED
    BY <2>1, <2>2
<1>12. z = [groups |-> s, groupCount |-> n, elementCount |-> c, allocator |-> TRUE]
  <2>1. IsMap(y) /\ y.allocator = TRUE
    BY AllocatorIs
  <2>2. [y EXCEPT !.groups[g] = h, !.elementCount = c] = [y EXCEPT !.groups = s, !.elementCount = c]
    BY <2>1 DEF IsMap
  <2> HIDE DEF s
  <2>3. z = [y EXCEPT !.groups = s, !.elementCount = c]
    BY <1>8, <2>2
  <2>4. z = [groups |-> s, groupCount |-> y.groupCount, elementCount |-> c, allocator |-> y.allocator]
    BY <2>1, <2>3, BothSet
  <2>5. QED
    BY <2>1, <2>4
<1> HIDE DEF s, D2
<1>13. MapHolds(z, D2)
  BY <1>10, <1>11, <1>12 DEF MapHolds
<1>14. QED
  BY <1>7, <1>13 DEF z, h

LEMMA EraseHolds ==
  ASSUME NEW y, NEW D, MapHolds(y, D), NEW k \in Keys, D[k] # NoValue,
         NEW g, g = GroupOf(k, y.groupCount)
  PROVE  MapHolds([y EXCEPT !.elementCount = @ - 1, !.groups[g] = GroupErase(@, k)], [D EXCEPT ![k] = NoValue])
<1> DEFINE n == y.groupCount
           f == Part(D, n, g)
           D2 == [D EXCEPT ![k] = NoValue]
           h == GroupErase(y.groups[g], k)
           s == [y.groups EXCEPT ![g] = h]
           c == y.elementCount - 1
           z == [y EXCEPT !.elementCount = @ - 1, !.groups[g] = GroupErase(@, k)]
<1>1. GroupsHold(y.groups, n, D) /\ y.elementCount = Cardinality(Given(D))
  BY DEF MapHolds
<1>2. n \in Nat \ {0} /\ D \in Partial /\ g \in 0 .. n - 1
  BY <1>1, GroupIs DEF GroupsHold
<1>3. GroupHolds(y.groups[g], f)
  BY <1>1, <1>2 DEF GroupsHold
<1>4. GroupHolds(h, [f EXCEPT ![k] = NoValue])
  BY <1>3, GroupEraseHolds
<1>5. z = [y EXCEPT !.elementCount = c, !.groups = s]
  <2>1. y = [groups |-> y.groups, groupCount |-> n, elementCount |-> y.elementCount, allocator |-> TRUE]
    BY DEF MapHolds
  <2>2. g \in DOMAIN y.groups
    BY <1>1, <1>2 DEF GroupsHold
  <2>3. QED
    BY <2>1, <2>2
<1> HIDE DEF h, z
<1>6. GroupsHold(s, n, D2)
  BY <1>1, <1>4, GroupsChange
<1>7. c = Cardinality(Given(D2))
  <2>1. Given(D2) = Given(D) \ {k} /\ k \in Given(D)
    <3>1. D2[k] = NoValue /\ \A j \in Keys \ {k} : D2[j] = D[j]
      BY <1>2 DEF Partial
    <3>2. QED
      BY <3>1 DEF Given
  <2>2. QED
    BY <1>1, <2>1, GivenFinite, FS_RemoveElement
<1>8. z = [groups |-> s, groupCount |-> n, elementCount |-> c, allocator |-> TRUE]
  <2>1. IsMap(y) /\ y.allocator = TRUE
    BY AllocatorIs
  <2> HIDE DEF c, s
  <2>2. z = [groups |-> s, groupCount |-> y.groupCount, elementCount |-> c, allocator |-> y.allocator]
    BY <1>5, <2>1, SetBoth
  <2>3. QED
    BY <2>1, <2>2
<1> HIDE DEF s, D2, c
<1>9. MapHolds(z, D2)
  BY <1>6, <1>7, <1>8 DEF MapHolds
<1>10. QED
  BY <1>9 DEF z, D2

\* A moved-from or emptied map is bare.
LEMMA LeftIs ==
  ASSUME NEW x, NEW D, StandsFor(x, D)
  PROVE  /\ StandsFor([x EXCEPT !.groups = NoGroups, !.allocator = FALSE], Nil)
         /\ x.groupCount # 0 => StandsFor(Emptied(x), Nil)
<1>1. IsMap(x) /\ x.groupCount \in Nat
  BY MapIs
<1> DEFINE y == [x EXCEPT !.groups = NoGroups, !.allocator = FALSE]
           z == Emptied(x)
<1>2. y = [groups |-> NoGroups, groupCount |-> x.groupCount, elementCount |-> x.elementCount, allocator |-> FALSE]
  BY <1>1, LeftSet, Zenon
<1>3. z = [groups |-> NoGroups, groupCount |-> x.groupCount, elementCount |-> x.elementCount, allocator |-> x.allocator]
  BY <1>1, GroupsSet DEF Emptied
<1> HIDE DEF y, z
<1>4. Bare(y)
  BY <1>1, <1>2 DEF Bare
<1>5. x.groupCount # 0 => Bare(z)
  BY <1>1, <1>3 DEF Bare
<1>6. QED
  BY <1>4, <1>5 DEF y, z, StandsFor

-----------------------------------------------------------------------------
(* Steps *)

\* The maps ms stand for the dictionaries C.
MapsStand(ms, C) ==
  /\ ms = [m \in Maps |-> ms[m]]
  /\ C \in [Maps -> Partial]
  /\ \A m \in Maps : StandsFor(ms[m], C[m])

Contents == [m \in Maps |-> ContentsOf(maps[m].groups, Stored(maps[m].groups))]

LEMMA ContentsAre == ASSUME NEW C, MapsStand(maps, C)  PROVE Contents = C
<1>1. \A m \in Maps : ContentsOf(maps[m].groups, Stored(maps[m].groups)) = C[m]
  BY StandsForIs DEF MapsStand
<1>2. C = [m \in Maps |-> C[m]]
  BY DEF MapsStand
<1>3. Contents = [m \in Maps |-> C[m]]
  BY <1>1 DEF Contents
<1>4. QED
  BY <1>2, <1>3

LEMMA MapPut ==
  ASSUME NEW ms, NEW C, MapsStand(ms, C), NEW m \in Maps, NEW x, NEW D, StandsFor(x, D)
  PROVE  MapsStand([ms EXCEPT ![m] = x], [C EXCEPT ![m] = D])
<1> DEFINE ns == [ms EXCEPT ![m] = x]
           E == [C EXCEPT ![m] = D]
<1>1. D \in Partial
  BY StandsForIs
<1>2. ns = [l \in Maps |-> ns[l]] /\ \A l \in Maps : ns[l] = IF l = m THEN x ELSE ms[l]
  BY DEF MapsStand
<1>3. E \in [Maps -> Partial] /\ \A l \in Maps : E[l] = IF l = m THEN D ELSE C[l]
  BY <1>1 DEF MapsStand
<1> HIDE DEF ns, E
<1>4. \A l \in Maps : StandsFor(ns[l], E[l])
  BY <1>2, <1>3 DEF MapsStand
<1>5. MapsStand(ns, E)
  BY <1>2, <1>3, <1>4 DEF MapsStand
<1>6. QED
  BY <1>5 DEF ns, E

LEMMA UsableIs == ASSUME NEW m, Usable(m)  PROVE Ready(maps[m]) /\ m \in built
  BY DEF Usable, Ready

\* What the last call did to the dictionaries C.
Did(C, e) == MapsStand(maps', e) /\ Dict!Step(C, e, found')

LEMMA ClearStep ==
  ASSUME NEW C, MapsStand(maps, C), NEW m \in Maps, Construct(m) \/ Destroy(m)
  PROVE  \E e : Did(C, e)
<1> DEFINE e == [C EXCEPT ![m] = Nil]
<1>1. maps' = [maps EXCEPT ![m] = Fresh] /\ found' = NoValue
  BY DEF Construct, Destroy
<1>2. MapsStand(maps', e)
  BY <1>1, FreshIs, MapPut
<1>3. Dict!Clear(C, e, found', m)
  BY <1>1 DEF Dict!Clear, Dict!Nothing, Nil
<1>4. QED
  BY <1>2, <1>3 DEF Did, Dict!Step

LEMMA OtherStep ==
  ASSUME NEW C, MapsStand(maps, C), NEW m \in Maps, (\E n \in Reserves : Reserve(m, n)) \/ IterBegin(m)
  PROVE  \E e : Did(C, e)
<1>1. CASE IterBegin(m)
  BY <1>1 DEF IterBegin, Did, Dict!Step, Dict!Other
<1>2. CASE \E n \in Reserves : Reserve(m, n)
  <2>1. PICK n \in Reserves : Reserve(m, n)
    BY <1>2
  <2> DEFINE x == maps[m]
             r == x.elementCount + n
  <2>2. StandsFor(x, C[m]) /\ Ready(x)
    BY <2>1, UsableIs DEF Reserve, MapsStand
  <2>3. Required(r)
    <3>1. x.elementCount \in 0 .. MaxPairs + 1
      <4>1. x.elementCount \in 0 .. MaxPairs /\ MaxPairs \in Nat
        BY <2>2, StandsForIs, GivenFinite, KeysAssumption, FS_CardinalityType DEF MaxPairs
      <4>2. QED
        BY <4>1
    <3>2. QED
      BY <3>1 DEF Required
  <2> HIDE DEF r
  <2>4. StandsFor(Grown(x, r), C[m])
    BY <2>2, <2>3, GrownHolds DEF StandsFor
  <2>5. maps' = [maps EXCEPT ![m] = Grown(x, r)] /\ found' = NoValue
    BY <2>1 DEF Reserve, r
  <2>6. MapsStand(maps', [C EXCEPT ![m] = C[m]])
    BY <2>4, <2>5, MapPut
  <2>7. [C EXCEPT ![m] = C[m]] = C
    BY DEF MapsStand
  <2>8. Dict!Other(C, C, found')
    BY <2>5 DEF Dict!Other
  <2>9. QED
    BY <2>6, <2>7, <2>8 DEF Did, Dict!Step
<1>3. QED
  BY <1>1, <1>2

LEMMA CopyStep ==
  ASSUME NEW C, MapsStand(maps, C), NEW m \in Maps, NEW p \in Maps, CopyConstruct(m, p) \/ CopyAssign(m, p)
  PROVE  \E e : Did(C, e)
<1> DEFINE x == maps[m]
           y == maps[p]
           D == C[p]
           e == [C EXCEPT ![m] = D]
<1>1. StandsFor(y, D) /\ Ready(y)
  BY UsableIs DEF CopyConstruct, CopyAssign, MapsStand
<1>2. SUFFICES \E z : StandsFor(z, D) /\ maps' = [maps EXCEPT ![m] = z]
  <2>1. PICK z : StandsFor(z, D) /\ maps' = [maps EXCEPT ![m] = z]
    BY <1>2
  <2>2. MapsStand(maps', e)
    BY <2>1, MapPut
  <2>3. found' = NoValue
    BY DEF CopyConstruct, CopyAssign
  <2>4. Dict!Copy(C, e, found', m, p)
    BY <2>3 DEF Dict!Copy
  <2>5. QED
    BY <2>2, <2>4 DEF Did, Dict!Step
<1>3. CASE CopyConstruct(m, p)
  BY <1>1, <1>3, CopiedHolds DEF CopyConstruct
<1>4. CASE CopyAssign(m, p)
  <2>1. StandsFor(x, C[m]) /\ Ready(x) /\ Stored(x.groups) = {} /\ C[m] \in Partial
    BY <1>4, UsableIs DEF CopyAssign, MapsStand
  <2>2. x.elementCount = Cardinality(Stored(x.groups)) /\ x.elementCount = Cardinality(Given(C[m]))
    BY <2>1, StandsForIs
  <2>3. Cardinality(Stored(x.groups)) = 0
    BY <2>1, FS_EmptySet
  <2>4. x.elementCount = 0 /\ C[m] = Nil
    BY <2>1, <2>2, <2>3, NoneGiven
  <2>5. D \in Partial /\ y.elementCount = Cardinality(Given(D))
    BY <1>1, StandsForIs
  <2> DEFINE z == [x EXCEPT !.elementCount = 0]
             w == Grown(x, y.elementCount)
  <2>6. z = x
    BY <2>1, <2>4, MapIs DEF IsMap
  <2>7. CASE x.groups # NoGroups /\ y.elementCount = 0
    <3>1. D = Nil
      BY <2>5, <2>7, NoneGiven
    <3>2. x.groupCount # 0
      <4>1. MapHolds(x, C[m])
        BY <2>1, <2>7 DEF StandsFor, Bare
      <4>2. QED
        BY <4>1, MapHoldsIs
    <3>3. StandsFor(Emptied(x), D)
      BY <2>1, <3>1, <3>2, LeftIs
    <3>4. maps' = [maps EXCEPT ![m] = Emptied(x)]
      BY <1>4, <2>7 DEF CopyAssign
    <3>5. QED
      BY <3>3, <3>4
  <2>8. CASE ~(x.groups # NoGroups /\ y.elementCount = 0)
    <3>1. Required(y.elementCount)
      <4>1. y.elementCount \in 0 .. MaxPairs /\ MaxPairs \in Nat
        BY <2>5, GivenFinite, KeysAssumption, FS_CardinalityType DEF MaxPairs
      <4>2. y.elementCount \in 0 .. MaxPairs + 1
        BY <4>1
      <4>3. QED
        BY <4>2, RequiredIs
    <3>2. MapHolds(w, Nil)
      BY <2>1, <2>4, <3>1, GrownHolds
    <3> HIDE DEF w
    <3>3. StandsFor(CopyPairs(w, y), D)
      BY <1>1, <3>2, CopyPairsHolds DEF StandsFor
    <3>4. maps' = [maps EXCEPT ![m] = CopyPairs(w, y)]
      BY <1>4, <2>6, <2>8 DEF CopyAssign, w
    <3>5. QED
      BY <3>3, <3>4
  <2>9. QED
    BY <2>7, <2>8
<1>5. QED
  BY <1>3, <1>4

LEMMA MoveStep ==
  ASSUME NEW C, MapsStand(maps, C), NEW m \in Maps, NEW p \in Maps, MoveConstruct(m, p) \/ MoveAssign(m, p)
  PROVE  \E e : Did(C, e)
<1> DEFINE y == maps[p]
           z == [y EXCEPT !.groups = NoGroups, !.allocator = FALSE]
           e == [C EXCEPT ![m] = C[p], ![p] = Nil]
<1>1. m # p /\ TakeFrom(m, p) /\ found' = NoValue
  BY UsableIs DEF MoveConstruct, MoveAssign, TakeFrom
<1>2. StandsFor(y, C[p])
  BY DEF MapsStand
<1>3. StandsFor(z, Nil)
  BY <1>2, LeftIs
<1> DEFINE ms == [maps EXCEPT ![m] = y]
           E == [C EXCEPT ![m] = C[p]]
<1>4. maps' = [maps EXCEPT ![m] = y, ![p] = z]
  BY <1>1 DEF TakeFrom
<1> HIDE DEF y, z
<1>5. maps' = [ms EXCEPT ![p] = z] /\ e = [E EXCEPT ![p] = Nil]
  BY <1>4
<1>6. MapsStand(ms, E)
  BY <1>2, MapPut
<1> HIDE DEF ms, E
<1>7. MapsStand(maps', [E EXCEPT ![p] = Nil])
  BY <1>3, <1>5, <1>6, MapPut
<1>8. Dict!Move(C, e, found', m, p)
  BY <1>1 DEF Dict!Move, Dict!Nothing, Nil
<1>9. QED
  BY <1>5, <1>7, <1>8 DEF Did, Dict!Step

LEMMA FindStep ==
  ASSUME NEW C, MapsStand(maps, C), NEW m \in Maps, NEW k \in Keys, Find(m, k)
  PROVE  \E e : Did(C, e)
<1>1. StandsFor(maps[m], C[m]) /\ Ready(maps[m])
  BY UsableIs DEF Find, MapsStand
<1>2. found' = C[m][k] /\ maps' = maps
  BY <1>1, LookupIs DEF Find
<1>3. Dict!Find(C, C, found', m, k)
  BY <1>2 DEF Dict!Find
<1>4. QED
  BY <1>2, <1>3 DEF Did, Dict!Step

LEMMA EraseStep ==
  ASSUME NEW C, MapsStand(maps, C), NEW m \in Maps, NEW k \in Keys, Erase(m, k), "eraseMissing" \notin Lax
  PROVE  \E e : Did(C, e)
<1> DEFINE x == maps[m]
           D == C[m]
           g == GroupOf(k, x.groupCount)
           F == [D EXCEPT ![k] = NoValue]
           e == [C EXCEPT ![m] = F]
           z == [x EXCEPT !.elementCount = @ - 1, !.groups[g] = GroupErase(@, k)]
<1>1. StandsFor(x, D) /\ Ready(x)
  BY UsableIs DEF Erase, MapsStand
<1>2. D \in Partial /\ x.elementCount = Cardinality(Given(D))
  BY <1>1, StandsForIs
<1>3. found' = D[k]
  BY <1>1, LookupIs DEF Erase
<1>4. Dict!Erase(C, e, found', m, k)
  BY <1>3 DEF Dict!Erase, MapsStand
<1>5. CASE x.elementCount = 0
  <2>1. D = Nil
    BY <1>2, <1>5, NoneGiven
  <2>2. F = D
    BY <1>2, <2>1 DEF Nil, Partial
  <2>3. e = C
    BY <2>2 DEF MapsStand
  <2>4. maps' = maps
    BY <1>5 DEF Erase
  <2>5. QED
    BY <1>4, <2>3, <2>4 DEF Did, Dict!Step
<1>6. CASE x.elementCount # 0
  <2>1. D # Nil
    BY <1>2, <1>6, NilIs
  <2>2. MapHolds(x, D)
    BY <1>1, <2>1 DEF StandsFor
  <2>3. D[k] # NoValue
    <3> DEFINE n == x.groupCount
    <3>1. Hits(x.groups[g], k) # {}
      BY <1>6 DEF Erase
    <3>2. g \in 0 .. n - 1 /\ GroupsHold(x.groups, n, D)
      BY <2>2, GroupIs, MapHoldsIs DEF MapHolds
    <3>3. GroupHolds(x.groups[g], Part(D, n, g))
      BY <3>2 DEF GroupsHold
    <3>4. Part(D, n, g)[k] # NoValue
      BY <3>1, <3>3, HitsAre
    <3>5. QED
      BY <3>4 DEF Part
  <2>4. StandsFor(z, F)
    BY <2>2, <2>3, EraseHolds DEF StandsFor
  <2>5. maps' = [maps EXCEPT ![m] = z]
    <3>1. maps' = [maps EXCEPT ![m].elementCount = @ - 1, ![m].groups[g] = GroupErase(@, k)]
      BY <1>6 DEF Erase
    <3>2. QED
      BY <3>1 DEF MapsStand
  <2> HIDE DEF z, F
  <2>6. MapsStand(maps', e)
    BY <2>4, <2>5, MapPut
  <2>7. QED
    BY <1>4, <2>6 DEF Did, Dict!Step
<1>7. QED
  BY <1>5, <1>6

LEMMA InsertStep ==
  ASSUME NEW C, MapsStand(maps, C), NEW m \in Maps, NEW k \in Keys, NEW v \in Values, Insert(m, k, v)
  PROVE  \E e : Did(C, e)
<1> DEFINE x == maps[m]
           D == C[m]
           y == IF x.elementCount # 0 THEN x ELSE Grown(x, x.elementCount + 1)
           g == GroupOf(k, y.groupCount)
           F == IF D[k] = NoValue THEN [D EXCEPT ![k] = v] ELSE D
           c == IF D[k] = NoValue THEN y.elementCount + 1 ELSE y.elementCount
           z == [y EXCEPT !.groups[g] = GroupInsert(y.groups[g], k, v), !.elementCount = c]
           e == [C EXCEPT ![m] = F]
<1>1. StandsFor(x, D) /\ Ready(x)
  BY UsableIs DEF Insert, MapsStand
<1>2. D \in Partial /\ x.elementCount = Cardinality(Given(D))
  BY <1>1, StandsForIs
<1>3. MapHolds(y, D)
  <2>1. CASE x.elementCount # 0
    <3>1. D # Nil
      BY <1>2, <2>1, NilIs
    <3>2. QED
      BY <1>1, <2>1, <3>1 DEF StandsFor
  <2>2. CASE x.elementCount = 0
    <3>1. MaxPairs \in Nat
      BY KeysAssumption, FS_CardinalityType DEF MaxPairs
    <3>2. x.elementCount + 1 \in 0 .. MaxPairs + 1
      BY <2>2, <3>1
    <3>3. Required(x.elementCount + 1)
      BY <3>2, RequiredIs
    <3>4. MapHolds(Grown(x, x.elementCount + 1), D)
      BY <1>1, <3>3, GrownHolds
    <3>5. QED
      BY <2>2, <3>4
  <2>3. QED
    BY <2>1, <2>2
<1>4. found' = D[k]
  <2>1. found' = Lookup(x, k)
    <3>1. CASE x.elementCount # 0
      BY <3>1 DEF Insert, Lookup
    <3>2. CASE x.elementCount = 0
      BY <3>2 DEF Insert, Lookup
    <3>3. QED
      BY <3>1, <3>2
  <2>2. QED
    BY <1>1, <2>1, LookupIs
<1>5. maps' = [maps EXCEPT ![m] = z]
  <2>1. maps' = [maps EXCEPT ![m] =
           [y EXCEPT !.groups[g] = GroupInsert(y.groups[g], k, v),
                     !.elementCount = IF found' = NoValue THEN @ + 1 ELSE @]]
    BY DEF Insert
  <2>2. IsMap(y)
    BY <1>3, AllocatorIs
  <2> HIDE DEF y
  <2>3. QED
    BY <1>4, <2>1, <2>2 DEF IsMap
<1> HIDE DEF y
<1>6. StandsFor(z, F)
  <2>1. MapHolds(z, F)
    <3> DEFINE h == GroupOf(k, y.groupCount)
    <3>1. QED
      BY <1>3, InsertHolds
  <2>2. QED
    BY <2>1 DEF StandsFor
<1>7. Dict!Insert(C, e, found', m, k, v)
  <2>1. e = IF D[k] = NoValue THEN [C EXCEPT ![m][k] = v] ELSE C
    BY DEF MapsStand
  <2>2. QED
    BY <1>4, <2>1 DEF Dict!Insert
<1> HIDE DEF z, F
<1>8. MapsStand(maps', e)
  BY <1>5, <1>6, MapPut
<1>9. QED
  BY <1>7, <1>8 DEF Did, Dict!Step

-----------------------------------------------------------------------------
(* Iteration *)

\* Of some places, there is one before all others.
LEMMA LeastPlace ==
  ASSUME NEW L \in SUBSET (Nat \X Nat), L # {}
  PROVE  \E p \in L : \A q \in L : ~Before(q, p)
<1> DEFINE A == {p[1] : p \in L}
           a == Least(A)
           B == {p[2] : p \in {q \in L : q[1] = a}}
           b == Least(B)
<1>1. A \in SUBSET Nat /\ A # {}
  OBVIOUS
<1>2. a \in A /\ \A y \in A : a <= y
  BY <1>1, NatLeast
<1> HIDE DEF a
<1>3. B \in SUBSET Nat /\ B # {}
  BY <1>2
<1>4. b \in B /\ \A y \in B : b <= y
  BY <1>3, NatLeast
<1> HIDE DEF b
<1>5. PICK p \in L : p[1] = a /\ p[2] = b
  BY <1>4
<1>6. \A q \in L : ~Before(q, p)
  <2> TAKE q \in L
  <2>1. q[1] \in Nat /\ q[2] \in Nat /\ a \in Nat /\ b \in Nat /\ a <= q[1]
    BY <1>1, <1>2, <1>3, <1>4
  <2>2. q[1] = a => b <= q[2]
    BY <1>4
  <2>3. QED
    BY <1>5, <2>1, <2>2 DEF Before
<1>7. QED
  BY <1>6

\* The place of the next pair among S behind a place.
NextPlace(S, n, at) ==
  LET L == {p \in S : Before(at, p)}
  IN  IF L = {} THEN <<n, 0>> ELSE CHOOSE p \in L : \A q \in L : ~Before(q, p)

\* An iterator over the table of o.
IsIterator(it, o, at, seen, steps) == it = [of |-> o, at |-> at, seen |-> seen, steps |-> steps]

LEMMA ForwardIs ==
  ASSUME NEW S, NEW n, NEW it, NEW o, NEW at, NEW seen, NEW steps, IsIterator(it, o, at, seen, steps),
         NEW jt, jt = Forward(it, S, n), NEW next, next = NextPlace(S, n, at)
  PROVE  IsIterator(jt, o, next, seen, steps)
<1>1. it = [of |-> o, at |-> at, seen |-> seen, steps |-> steps] /\ it.at = at
  BY DEF IsIterator
<1>2. jt = [it EXCEPT !.at = next]
  BY <1>1 DEF Forward, NextPlace
<1>3. QED
  BY <1>1, <1>2 DEF IsIterator

\* operator++ leaves behind it what was behind it, and the place it was at.
LEMMA NextIs ==
  ASSUME NEW S \in SUBSET (Nat \X Nat), NEW n \in Nat, \A p \in S : p[1] < n,
         NEW at \in Nat \X Nat, at[1] < n, NEW next, next = NextPlace(S, n, at)
  PROVE  /\ next \in S \/ next = <<n, 0>>
         /\ \A q \in S : Before(q, next) <=> q = at \/ Before(q, at)
<1> DEFINE L == {p \in S : Before(at, p)}
<1>1. L \in SUBSET (Nat \X Nat)
  OBVIOUS
<1>2. L # {} => next \in L /\ \A q \in L : ~Before(q, next)
  <2>1. SUFFICES ASSUME L # {}  PROVE next \in L /\ \A q \in L : ~Before(q, next)
    OBVIOUS
  <2>2. next = CHOOSE p \in L : \A q \in L : ~Before(q, p)
    BY <2>1 DEF NextPlace
  <2>3. \E p \in L : \A q \in L : ~Before(q, p)
    BY <1>1, <2>1, LeastPlace
  <2> HIDE DEF L
  <2>4. QED
    BY <2>2, <2>3
<1>3. L = {} => next = <<n, 0>>
  BY DEF NextPlace
<1>4. next \in Nat \X Nat /\ (next \in S \/ next = <<n, 0>>)
  BY <1>2, <1>3
<1>5. Before(at, next)
  <2>1. CASE L = {}
    BY <1>3, <2>1 DEF Before
  <2>2. CASE L # {}
    BY <1>2, <2>2
  <2>3. QED
    BY <2>1, <2>2
<1>6. ASSUME NEW q \in S  PROVE Before(q, next) <=> q = at \/ Before(q, at)
  <2>1. q \in Nat \X Nat
    OBVIOUS
  <2>2. q = at \/ Before(q, at) => Before(q, next)
    BY <1>4, <1>5, <2>1, BeforeIs
  <2>3. ASSUME Before(q, next), Before(at, q)  PROVE FALSE
    <3>1. q \in L
      BY <2>3
    <3>2. QED
      BY <1>2, <2>3, <3>1
  <2>4. q = at \/ Before(q, at) \/ Before(at, q)
    BY <2>1, BeforeIs
  <2>5. QED
    BY <2>2, <2>3, <2>4
<1>7. QED
  BY <1>4, <1>6

\* Places S of pairs, in groups gs of which there are n.
PlacesIn(gs, S, n) ==
  /\ S \in SUBSET (Nat \X Nat) /\ n \in Nat
  /\ \A p \in S : p[1] < n
  /\ \A p \in S : At(gs, p).key \in Keys
  /\ \A p, q \in S : At(gs, p).key = At(gs, q).key => p = q

\* The keys of the pairs before a place.
KeysBefore(gs, S, at) == {At(gs, p).key : p \in {q \in S : Before(q, at)}}

\* An iterator it over the pairs at S of o has seen what is before its place.
Visits(it, o, gs, S, n) ==
  /\ it = [of |-> o, at |-> it.at, seen |-> it.seen, steps |-> it.steps]
  /\ it.at \in S \/ it.at = <<n, 0>>
  /\ it.seen = KeysBefore(gs, S, it.at)
  /\ it.steps = Cardinality(it.seen)

\* An iterator that stands at the first pair, or at the end if there is none.
LEMMA Begins ==
  ASSUME NEW gs, NEW S, NEW n, PlacesIn(gs, S, n), NEW o, NEW jt,
         jt = IF <<0, 0>> \in S THEN Start(o) ELSE Forward(Start(o), S, n)
  PROVE  Visits(jt, o, gs, S, n)
<1> DEFINE origin == <<0, 0>>
<1>1. S \in SUBSET (Nat \X Nat) /\ n \in Nat /\ \A p \in S : p[1] < n
  BY DEF PlacesIn
<1>2. \A q \in S : q[1] \in Nat /\ q[2] \in Nat
  BY <1>1
<1>3. \A q \in S : ~Before(q, origin)
  <2> TAKE q \in S
  <2>1. q[1] \in Nat /\ q[2] \in Nat
    BY <1>2
  <2>2. QED
    BY <2>1 DEF Before
<1>4. \E at : /\ IsIterator(jt, o, at, {}, 0)
              /\ at \in S \/ at = <<n, 0>>
              /\ \A q \in S : ~Before(q, at)
  <2>1. CASE origin \in S
    <3>1. IsIterator(jt, o, origin, {}, 0)
      BY <2>1 DEF Start, IsIterator
    <3>2. QED
      BY <1>3, <2>1, <3>1
  <2>2. CASE origin \notin S
    <3> DEFINE it == Start(o)
               at == NextPlace(S, n, origin)
    <3>1. IsIterator(it, o, origin, {}, 0)
      BY DEF Start, IsIterator
    <3>2. jt = Forward(it, S, n) /\ at = NextPlace(S, n, origin)
      BY <2>2
    <3> HIDE DEF it, origin, at
    <3>3. IsIterator(jt, o, at, {}, 0)
      BY <3>1, <3>2, ForwardIs
    <3>4. (at \in S \/ at = <<n, 0>>) /\ \A q \in S : ~Before(q, at)
      <4>1. CASE n = 0
        <5>1. S = {}
          <6>1. \A p \in S : p[1] \in Nat /\ p[1] < 0
            BY <1>1, <1>2, <4>1
          <6>2. QED
            BY <6>1
        <5>2. {p \in S : Before(origin, p)} = {}
          BY <5>1
        <5>3. at = <<n, 0>>
          BY <5>2 DEF at, NextPlace
        <5>4. QED
          BY <5>1, <5>3
      <4>2. CASE n # 0
        <5>1. origin \in Nat \X Nat /\ origin[1] < n
          BY <1>1, <4>2 DEF origin
        <5>2. at = NextPlace(S, n, origin)
          BY DEF at
        <5>3. \A p \in S : p[1] < n
          BY <1>1
        <5>4. at \in S \/ at = <<n, 0>>
          BY <1>1, <5>1, <5>2, <5>3, NextIs
        <5>5. \A q \in S : Before(q, at) <=> q = origin \/ Before(q, origin)
          BY <1>1, <5>1, <5>2, <5>3, NextIs
        <5>6. QED
          BY <1>3, <2>2, <5>4, <5>5
      <4>3. QED
        BY <4>1, <4>2
    <3>5. QED
      BY <3>3, <3>4
  <2>3. QED
    BY <2>1, <2>2
<1>5. PICK at : /\ IsIterator(jt, o, at, {}, 0)
                /\ at \in S \/ at = <<n, 0>>
                /\ \A q \in S : ~Before(q, at)
  BY <1>4
<1>6. {} = KeysBefore(gs, S, at)
  BY <1>5 DEF KeysBefore
<1>7. Cardinality({}) = 0
  BY FS_EmptySet
<1>8. QED
  BY <1>5, <1>6, <1>7 DEF Visits, IsIterator

\* An iterator that has seen the pair it stands at goes on to the next.
LEMMA Advances ==
  ASSUME NEW gs, NEW S, NEW n, PlacesIn(gs, S, n), NEW it, NEW o, Visits(it, o, gs, S, n), it.at[1] # n,
         NEW k, k = At(gs, it.at).key, NEW mt, mt = [it EXCEPT !.seen = @ \cup {k}, !.steps = @ + 1],
         NEW jt, jt = Forward(mt, S, n)
  PROVE  Visits(jt, o, gs, S, n)
<1> DEFINE a == it.at
           K == KeysBefore(gs, S, a)
           seen == K \cup {k}
           steps == Cardinality(K) + 1
<1>1. /\ S \in SUBSET (Nat \X Nat) /\ n \in Nat
      /\ \A p \in S : p[1] < n
      /\ \A p, q \in S : At(gs, p).key = At(gs, q).key => p = q
  BY DEF PlacesIn
<1>2. a \in S
  BY DEF Visits
<1>3. it = [of |-> o, at |-> a, seen |-> K, steps |-> Cardinality(K)]
  BY DEF Visits
<1>4. k \notin K
  <2>1. SUFFICES ASSUME NEW p \in S, Before(p, a), At(gs, p).key = k  PROVE FALSE
    BY DEF KeysBefore
  <2>2. p = a
    BY <1>1, <1>2, <2>1
  <2>3. QED
    BY <1>1, <1>2, <2>1, <2>2, BeforeIs
<1>5. IsFiniteSet(K)
  <2>1. K \in SUBSET Keys
    BY DEF KeysBefore, PlacesIn
  <2>2. QED
    BY <2>1, KeysAssumption, FS_Subset
<1>6. Cardinality(seen) = steps
  BY <1>4, <1>5, FS_AddElement
<1>7. IsIterator(mt, o, a, seen, steps)
  <2> DEFINE lt == [it EXCEPT !.seen = seen]
  <2> HIDE DEF K, a
  <2>1. lt = [of |-> o, at |-> a, seen |-> seen, steps |-> Cardinality(K)]
    BY <1>3
  <2>2. mt = [lt EXCEPT !.steps = steps]
    BY <1>3
  <2> HIDE DEF lt, seen, steps
  <2>3. steps = steps
    OBVIOUS
  <2>4. QED
    BY <2>1, <2>2 DEF IsIterator
<1>8. a \in Nat \X Nat /\ a[1] < n
  BY <1>1, <1>2
<1> DEFINE at == NextPlace(S, n, a)
<1> HIDE DEF a, seen, steps
<1>9. at = NextPlace(S, n, a)
  OBVIOUS
<1> HIDE DEF at, K
<1>10. IsIterator(jt, o, at, seen, steps)
  BY <1>7, <1>9, ForwardIs
<1>11. \A p \in S : p[1] < n
  BY <1>1
<1>12. at \in S \/ at = <<n, 0>>
  BY <1>1, <1>8, <1>11, <1>9, NextIs
<1>13. \A q \in S : Before(q, at) <=> q = a \/ Before(q, a)
  BY <1>1, <1>8, <1>11, <1>9, NextIs
<1>14. seen = KeysBefore(gs, S, at)
  <2>1. {q \in S : Before(q, at)} = {q \in S : Before(q, a)} \cup {a}
    BY <1>2, <1>13
  <2>2. KeysBefore(gs, S, at) = {At(gs, p).key : p \in {q \in S : Before(q, a)} \cup {a}}
    BY <2>1 DEF KeysBefore
  <2>3. QED
    BY <2>2 DEF KeysBefore, seen, K, a
<1>15. QED
  BY <1>6, <1>10, <1>12, <1>14 DEF Visits, IsIterator, seen, steps

\* An iterator at the end has seen all the pairs.
LEMMA AllVisited ==
  ASSUME NEW gs, NEW S, NEW n, PlacesIn(gs, S, n), NEW it, NEW o, Visits(it, o, gs, S, n), it.at[1] = n
  PROVE  it.seen = {At(gs, p).key : p \in S}
<1>1. S \in SUBSET (Nat \X Nat) /\ n \in Nat /\ \A p \in S : p[1] < n
  BY DEF PlacesIn
<1>2. {q \in S : Before(q, it.at)} = S
  BY <1>1 DEF Before
<1>3. QED
  BY <1>2 DEF Visits, KeysBefore

\* An iteration over the map x.
Iterates(it, x) == Ready(x) /\ Visits(it, it.of, x.groups, Stored(x.groups), x.groupCount)

IterInv == iter # NoIter => iter.of \in Maps /\ Iterates(iter, maps[iter.of])

MapInv == MapsStand(maps, Contents) /\ IterInv

\* The places of the pairs of a map are those of its groups.
LEMMA PlacesAre ==
  ASSUME NEW x, NEW D, StandsFor(x, D), Ready(x)
  PROVE  PlacesIn(x.groups, Stored(x.groups), x.groupCount)
<1>1. Carries(x.groups, Stored(x.groups), D) /\ x.groupCount \in Nat
  BY StandsForIs
<1>2. \A p \in Stored(x.groups) : p[1] \in 0 .. x.groupCount - 1
  <2> TAKE p \in Stored(x.groups)
  <2>1. PICK g \in DOMAIN x.groups : \E i \in DOMAIN x.groups[g].slots : x.groups[g].slots[i].mask # 0 /\ p = <<g, i>>
    BY StoredIs
  <2>2. p[1] = g
    BY <2>1
  <2>3. QED
    BY <2>1, <2>2 DEF Ready
<1>3. \A p \in Stored(x.groups) : p[1] < x.groupCount
  <2> TAKE p \in Stored(x.groups)
  <2>1. p[1] \in 0 .. x.groupCount - 1
    BY <1>2
  <2>2. QED
    BY <1>1, <2>1
<1>4. \A p \in Stored(x.groups) : At(x.groups, p).key \in Keys
  <2> TAKE p \in Stored(x.groups)
  <2>1. PICK k \in Given(D) : At(x.groups, p) = Pair(k, D[k])
    BY <1>1 DEF Carries
  <2>2. k \in Keys
    BY DEF Given
  <2>3. QED
    BY <2>1, <2>2, PairIs
<1>5. QED
  BY <1>1, <1>3, <1>4 DEF Carries, PlacesIn

LEMMA BeginHolds ==
  ASSUME NEW C, MapsStand(maps, C), NEW m \in Maps, IterBegin(m)
  PROVE  IterInv'
<1> DEFINE x == maps[m]
           S == Stored(x.groups)
           n == x.groupCount
           origin == <<0, 0>>
           jt == iter'
<1>1. StandsFor(x, C[m]) /\ Ready(x) /\ maps' = maps
  BY UsableIs DEF IterBegin, MapsStand
<1>2. PlacesIn(x.groups, S, n)
  BY <1>1, PlacesAre
<1>3. x.groups # NoGroups => MapHolds(x, C[m])
  BY <1>1 DEF StandsFor, Bare
<1>4. jt = IF origin \in S THEN Start(m) ELSE Forward(Start(m), S, n)
  <2>1. CASE x.groups # NoGroups /\ x.groups[0].slots[0].mask = 0
    <3>1. jt = Forward(Start(m), S, n)
      BY <2>1 DEF IterBegin, Step
    <3>2. origin \notin S
      BY <2>1, StoredIs
    <3>3. QED
      BY <3>1, <3>2
  <2>2. CASE x.groups # NoGroups /\ x.groups[0].slots[0].mask # 0
    <3>1. jt = Start(m)
      BY <2>2 DEF IterBegin
    <3>2. GroupsHold(x.groups, n, C[m])
      BY <1>3, <2>2 DEF MapHolds
    <3>3. 0 \in DOMAIN x.groups /\ GroupHolds(x.groups[0], Part(C[m], n, 0))
      <4>1. n \in Nat \ {0}
        BY <3>2 DEF GroupsHold
      <4>2. 0 \in 0 .. n - 1
        BY <4>1
      <4>3. QED
        BY <3>2, <4>2 DEF GroupsHold
    <3>4. 0 \in DOMAIN x.groups[0].slots
      <4> DEFINE g == x.groups[0]
      <4>1. GroupHolds(g, Part(C[m], n, 0))
        BY <3>3
      <4> HIDE DEF g, x, n
      <4>2. g.capacity \in Nat \ {0} /\ g.slots = [i \in 0 .. g.capacity - 1 |-> g.slots[i]]
        BY <4>1 DEF GroupHolds
      <4>3. DOMAIN g.slots = 0 .. g.capacity - 1 /\ 0 \in 0 .. g.capacity - 1
        BY <4>2
      <4>4. QED
        BY <4>3 DEF g
    <3>5. origin \in S
      BY <2>2, <3>3, <3>4, StoredIs
    <3>6. QED
      BY <3>1, <3>5
  <2>3. CASE x.groups = NoGroups
    <3>1. jt = Start(m)
      BY <2>3 DEF IterBegin
    <3>2. n \in Nat /\ S = {}
      BY <1>2, <2>3, NoneStored DEF PlacesIn
    <3>3. n = 0
      <4>1. n # 0 => 0 \in 0 .. n - 1
        BY <3>2
      <4>2. QED
        BY <1>1, <2>3, <4>1, NoneStored DEF Ready
    <3> DEFINE it == Start(m)
    <3>4. IsIterator(it, m, origin, {}, 0)
      BY DEF Start, IsIterator
    <3>5. NextPlace(S, n, origin) = origin
      BY <3>2, <3>3 DEF NextPlace
    <3> HIDE DEF it, S, n, origin
    <3>6. Forward(it, S, n) = it
      <4>1. IsIterator(Forward(it, S, n), m, origin, {}, 0)
        BY <3>4, <3>5, ForwardIs
      <4>2. QED
        BY <3>4, <4>1 DEF IsIterator
    <3>7. QED
      BY <3>1, <3>6 DEF it
  <2>4. QED
    BY <2>1, <2>2, <2>3
<1> HIDE DEF jt, S, n, x
<1>5. Visits(jt, m, x.groups, S, n)
  BY <1>2, <1>4, Begins
<1>6. iter'.of \in Maps /\ Iterates(iter', maps'[iter'.of])
  BY <1>1, <1>5 DEF jt, Iterates, Visits, S, n, x
<1>7. QED
  BY <1>6 DEF IterInv, Iterates

LEMMA NextHolds ==
  ASSUME NEW C, MapsStand(maps, C), IterInv, IterNext
  PROVE  IterInv'
<1> DEFINE m == iter.of
           x == maps[m]
           S == Stored(x.groups)
           n == x.groupCount
           k == At(x.groups, iter.at).key
           mt == [iter EXCEPT !.seen = @ \cup {k}, !.steps = @ + 1]
           jt == iter'
<1>1. m \in Maps /\ Iterates(iter, x) /\ maps' = maps /\ jt = Forward(mt, S, n) /\ iter.at[1] # n
  BY DEF IterNext, IterInv, AtEnd, Step
<1>2. StandsFor(x, C[m]) /\ Ready(x) /\ Visits(iter, m, x.groups, S, n)
  BY <1>1 DEF MapsStand, Iterates
<1>3. PlacesIn(x.groups, S, n)
  BY <1>2, PlacesAre
<1>4. k = At(x.groups, iter.at).key /\ mt = [iter EXCEPT !.seen = @ \cup {k}, !.steps = @ + 1]
  OBVIOUS
<1> HIDE DEF jt, mt, k, S, n, x
<1>5. Visits(jt, m, x.groups, S, n)
  BY <1>1, <1>2, <1>3, <1>4, Advances
<1>6. jt.of = m
  BY <1>5 DEF Visits
<1>7. Iterates(jt, x)
  BY <1>2, <1>5, <1>6 DEF Iterates, S, n
<1>8. iter' = jt /\ x = maps[m]
  BY DEF jt, x
<1> HIDE DEF m
<1>9. QED
  BY <1>1, <1>6, <1>7, <1>8 DEF IterInv

-----------------------------------------------------------------------------
(* Theorems about HashMap *)

\* Each step is one of a dictionary, or leaves the maps alone.
LEMMA StepIs ==
  ASSUME "eraseMissing" \notin Lax, NEW C, MapsStand(maps, C), MapNext
  PROVE  (\E e : Did(C, e)) \/ (maps' = maps /\ found' = found)
<1>1. ASSUME NEW m \in Maps, Construct(m) \/ Destroy(m)  PROVE \E e : Did(C, e)
  BY <1>1, ClearStep
<1>2. ASSUME NEW m \in Maps, IterBegin(m)  PROVE \E e : Did(C, e)
  BY <1>2, OtherStep
<1>3. ASSUME NEW m \in Maps, NEW p \in Maps, CopyConstruct(m, p) \/ CopyAssign(m, p)  PROVE \E e : Did(C, e)
  BY <1>3, CopyStep
<1>4. ASSUME NEW m \in Maps, NEW p \in Maps, MoveConstruct(m, p) \/ MoveAssign(m, p)  PROVE \E e : Did(C, e)
  BY <1>4, MoveStep
<1>5. ASSUME NEW m \in Maps, NEW k \in Keys, Find(m, k)  PROVE \E e : Did(C, e)
  BY <1>5, FindStep
<1>6. ASSUME NEW m \in Maps, NEW k \in Keys, Erase(m, k)  PROVE \E e : Did(C, e)
  BY <1>6, EraseStep
<1>7. ASSUME NEW m \in Maps, NEW x \in Pairs, Insert(m, x[1], x[2])  PROVE \E e : Did(C, e)
  <2>1. x[1] \in Keys /\ x[2] \in Values
    BY PairsAssumption
  <2>2. QED
    BY <1>7, <2>1, InsertStep
<1>8. ASSUME NEW m \in Maps, NEW n \in Reserves, Reserve(m, n)  PROVE \E e : Did(C, e)
  BY <1>8, OtherStep
<1>9. ASSUME IterNext \/ IterEnd  PROVE maps' = maps /\ found' = found
  BY <1>9 DEF IterNext, IterEnd
<1>10. QED
  BY <1>1, <1>2, <1>3, <1>4, <1>5, <1>6, <1>7, <1>8, <1>9 DEF MapNext

LEMMA IterStep ==
  ASSUME MapsStand(maps, Contents), IterInv, MapNext  PROVE IterInv'
<1>1. CASE \E m \in Maps : IterBegin(m)
  BY <1>1, BeginHolds
<1>2. CASE IterNext
  BY <1>2, NextHolds
<1>3. CASE IterEnd
  BY <1>3 DEF IterEnd, IterInv
<1>4. CASE iter = NoIter /\ iter' = NoIter
  BY <1>4 DEF IterInv
<1>5. MapNext => \/ \E m \in Maps : IterBegin(m)
                 \/ IterNext \/ IterEnd
                 \/ iter = NoIter /\ iter' = NoIter
  BY DEF MapNext, Construct, Destroy, CopyConstruct, MoveConstruct, CopyAssign, MoveAssign, TakeFrom,
         Find, Erase, Insert, Reserve, Calm
<1>6. QED
  BY <1>1, <1>2, <1>3, <1>4, <1>5

\* The maps, and the iteration over one, are kept so by every step.
LEMMA MapInvariant == ASSUME "eraseMissing" \notin Lax  PROVE MapSpec => []MapInv
<1>1. InitMaps => MapInv
  <2> SUFFICES ASSUME InitMaps  PROVE MapInv
    OBVIOUS
  <2> DEFINE C == [m \in Maps |-> Nil]
  <2>1. MapsStand(maps, C)
    BY FreshIs, NilIs DEF InitMaps, MapsStand
  <2>2. Contents = C
    BY <2>1, ContentsAre
  <2>3. IterInv
    BY DEF InitMaps, IterInv
  <2>4. QED
    BY <2>1, <2>2, <2>3 DEF MapInv
<1>2. MapInv /\ [MapNext]_mapVars => MapInv'
  <2> SUFFICES ASSUME MapInv, [MapNext]_mapVars  PROVE MapInv'
    OBVIOUS
  <2>1. CASE MapNext
    <3>1. (\E e : Did(Contents, e)) \/ maps' = maps
      BY <2>1, StepIs DEF MapInv
    <3>2. \E e : MapsStand(maps', e)
      BY <3>1 DEF Did, MapInv
    <3>3. PICK e : MapsStand(maps', e)
      BY <3>2
    <3>4. \A m \in Maps : ContentsOf(maps'[m].groups, Stored(maps'[m].groups)) = e[m]
      BY <3>3, StandsForIs DEF MapsStand
    <3>5. Contents' = [m \in Maps |-> e[m]]
      BY <3>4 DEF Contents
    <3>6. Contents' = e
      BY <3>3, <3>5 DEF MapsStand
    <3>7. IterInv'
      BY <2>1, IterStep DEF MapInv
    <3>8. QED
      BY <3>3, <3>6, <3>7 DEF MapInv
  <2>2. CASE UNCHANGED mapVars
    <3>1. maps' = maps /\ iter' = iter
      BY <2>2 DEF mapVars
    <3>2. QED
      BY <3>1 DEF MapInv, Contents, IterInv
  <2>3. QED
    BY <2>1, <2>2
<1>3. QED
  BY <1>1, <1>2, PTL DEF MapSpec

\* The counts of a map and of its groups are the numbers of the pairs in them, whatever inserting,
\* erasing, growing, copying and moving came before.
THEOREM CountsAreExact == ASSUME "eraseMissing" \notin Lax  PROVE MapSpec => []CountsExact
<1>1. MapInv => CountsExact
  <2> SUFFICES ASSUME MapInv, NEW m \in Maps, Usable(m)
               PROVE  LET x == maps[m]  S == Stored(x.groups) IN
                        /\ x.elementCount = Cardinality(S)
                        /\ \A g \in DOMAIN x.groups : x.groups[g].pairCount = Cardinality({p \in S : p[1] = g})
    BY DEF CountsExact
  <2> DEFINE x == maps[m]
             D == Contents[m]
  <2>1. StandsFor(x, D) /\ Ready(x)
    BY UsableIs DEF MapInv, MapsStand
  <2>2. x.elementCount = Cardinality(Stored(x.groups))
    BY <2>1, StandsForIs
  <2>3. ASSUME NEW g \in DOMAIN x.groups
        PROVE  x.groups[g].pairCount = Cardinality({p \in Stored(x.groups) : p[1] = g})
    <3>1. MapHolds(x, D)
      BY <2>1, NoneStored DEF StandsFor, Bare
    <3>2. GroupsHold(x.groups, x.groupCount, D) /\ g \in 0 .. x.groupCount - 1
      BY <3>1 DEF MapHolds, GroupsHold
    <3>3. QED
      BY <3>2, GroupsCarry
  <2>4. QED
    BY <2>2, <2>3
<1>2. QED
  BY <1>1, MapInvariant, PTL

\* Each pair is in the group of its key's hash and no key is there twice, so that a lookup, which
\* looks into one group only and takes the first hit, is right.
THEOREM PairsAreInTheirGroups == ASSUME "eraseMissing" \notin Lax  PROVE MapSpec => []PlacedByHash
<1>1. MapInv => PlacedByHash
  <2> SUFFICES ASSUME MapInv, NEW m \in Maps,
                      NEW p \in Stored(maps[m].groups), NEW q \in Stored(maps[m].groups)
               PROVE  /\ p[1] = GroupOf(At(maps[m].groups, p).key, maps[m].groupCount)
                      /\ At(maps[m].groups, p).key = At(maps[m].groups, q).key => p = q
    BY DEF PlacedByHash
  <2>1. StandsFor(maps[m], Contents[m])
    BY DEF MapInv, MapsStand
  <2>2. /\ Carries(maps[m].groups, Stored(maps[m].groups), Contents[m])
        /\ p[1] = GroupOf(At(maps[m].groups, p).key, maps[m].groupCount)
    BY <2>1, StandsForIs
  <2>3. QED
    BY <2>2 DEF Carries
<1>2. QED
  BY <1>1, MapInvariant, PTL

\* A loop over a map has each of its pairs once, whatever slots and groups are free.
THEOREM IterationVisitsEachPair == ASSUME "eraseMissing" \notin Lax  PROVE MapSpec => []IterationVisitsAll
<1>1. MapInv => IterationVisitsAll
  <2> SUFFICES ASSUME MapInv, iter # NoIter
               PROVE  /\ iter.steps = Cardinality(iter.seen)
                      /\ AtEnd => iter.seen = {At(maps[iter.of].groups, p).key : p \in Stored(maps[iter.of].groups)}
    BY DEF IterationVisitsAll
  <2> DEFINE x == maps[iter.of]
             S == Stored(x.groups)
  <2>1. iter.of \in Maps /\ Iterates(iter, x)
    BY DEF MapInv, IterInv
  <2>2. StandsFor(x, Contents[iter.of]) /\ Ready(x)
    BY <2>1 DEF MapInv, MapsStand, Iterates
  <2>3. PlacesIn(x.groups, S, x.groupCount)
    BY <2>2, PlacesAre
  <2>4. Visits(iter, iter.of, x.groups, S, x.groupCount)
    BY <2>1 DEF Iterates
  <2>5. ASSUME AtEnd  PROVE iter.seen = {At(x.groups, p).key : p \in S}
    <3>1. iter.at[1] = x.groupCount
      BY <2>5 DEF AtEnd
    <3> HIDE DEF x, S
    <3>2. QED
      BY <2>3, <2>4, <3>1, AllVisited
  <2>6. QED
    BY <2>4, <2>5 DEF Visits
<1>2. QED
  BY <1>1, MapInvariant, PTL

\* To its clients a HashMap is a finite map from keys to values: find, insert and erase say what
\* the dictionary says, copies are independent and a moved-from map is empty.
THEOREM MapsAreDictionaries == ASSUME "eraseMissing" \notin Lax  PROVE MapSpec => MapDictionarySpec
<1>1. InitMaps /\ MapInv => Dict!Init
  <2> SUFFICES ASSUME InitMaps, MapInv  PROVE Dict!Init
    OBVIOUS
  <2> DEFINE C == [m \in Maps |-> Nil]
  <2>1. MapsStand(maps, C)
    BY FreshIs, NilIs DEF InitMaps, MapsStand
  <2>2. Contents = C
    BY <2>1, ContentsAre
  <2>3. QED
    BY <2>2 DEF InitMaps, Dict!Init, Dict!Nothing, Nil, Contents
<1>2. MapInv /\ MapInv' /\ [MapNext]_mapVars => [Dict!Next]_Dict!dictVars
  <2> SUFFICES ASSUME MapInv, MapInv', [MapNext]_mapVars  PROVE [Dict!Next]_Dict!dictVars
    OBVIOUS
  <2>1. CASE maps' = maps /\ found' = found
    BY <2>1 DEF Dict!dictVars
  <2>2. CASE \E e : Did(Contents, e)
    <3>1. PICK e : Did(Contents, e)
      BY <2>2
    <3>2. \A m \in Maps : ContentsOf(maps'[m].groups, Stored(maps'[m].groups)) = e[m]
      BY <3>1, StandsForIs DEF MapsStand, Did
    <3>3. e = [m \in Maps |-> e[m]]
      BY <3>1 DEF Did, MapsStand
    <3>4. Contents' = e
      BY <3>2, <3>3 DEF Contents
    <3>5. Dict!Step(Contents, Contents', found')
      BY <3>1, <3>4 DEF Did
    <3>6. QED
      BY <3>5 DEF Dict!Next, Contents
  <2>3. QED
    BY <2>1, <2>2, StepIs DEF MapInv, mapVars
<1>3. QED
  BY <1>1, <1>2, MapInvariant, PTL DEF MapSpec, MapDictionarySpec, Dict!Spec

-----------------------------------------------------------------------------
(* Buckets of an object *)

\* A bucket holds the fields of f, each once, in its first slots; what is behind them is free, or
\* is left of a field that moved up or whose name, one of E, was erased.
BucketHolds(b, f, E) ==
  /\ b = [slots |-> b.slots, length |-> b.length]
  /\ b.length \in Nat
  /\ f \in Partial
  /\ \E c \in Nat : b.slots = [i \in 0 .. c - 1 |-> b.slots[i]] /\ b.length <= c
  /\ \A i \in 0 .. b.length - 1 : \E k \in Given(f) : b.slots[i] = Pair(k, f[k])
  /\ \A k \in Given(f) : \E i \in 0 .. b.length - 1 : b.slots[i] = Pair(k, f[k])
  /\ \A i, j \in 0 .. b.length - 1 : b.slots[i].key = b.slots[j].key => i = j
  /\ \A i \in DOMAIN b.slots : i >= b.length => b.slots[i].key \in E \cup Given(f) \cup {NoKey}

\* What a bucket has that stands for f.
LEMMA BucketIs ==
  ASSUME NEW b, NEW f, NEW E, BucketHolds(b, f, E)
  PROVE  /\ b.length \in Nat /\ f \in Partial
         /\ \E c \in Nat : b.slots = [i \in 0 .. c - 1 |-> b.slots[i]] /\ b.length <= c
         /\ \A i \in 0 .. b.length - 1 : i \in DOMAIN b.slots /\ i \in Nat /\
              \E k \in Given(f) : k \in Keys /\ b.slots[i] = Pair(k, f[k]) /\ b.slots[i].key = k
         /\ \A k \in Given(f) : \E i \in 0 .. b.length - 1 : b.slots[i] = Pair(k, f[k]) /\ b.slots[i].key = k
         /\ \A i, j \in 0 .. b.length - 1 : b.slots[i].key = b.slots[j].key => i = j
         /\ \A i \in DOMAIN b.slots : i \in Nat /\ (i >= b.length => b.slots[i].key \in E \cup Given(f) \cup {NoKey})
<1>1. PICK c \in Nat : b.slots = [i \in 0 .. c - 1 |-> b.slots[i]] /\ b.length <= c
  BY DEF BucketHolds
<1>2. b.length \in Nat /\ f \in Partial
  BY DEF BucketHolds
<1>3. \A k \in Given(f) : k \in Keys
  BY DEF Given
<1>4. DOMAIN b.slots = 0 .. c - 1
  BY <1>1
<1>5. \A i \in 0 .. b.length - 1 : i \in DOMAIN b.slots /\ i \in Nat
  BY <1>1, <1>2, <1>4
<1>6. \A i \in 0 .. b.length - 1 : \E k \in Given(f) : k \in Keys /\ b.slots[i] = Pair(k, f[k]) /\ b.slots[i].key = k
  <2> TAKE i \in 0 .. b.length - 1
  <2>1. PICK k \in Given(f) : b.slots[i] = Pair(k, f[k])
    BY DEF BucketHolds
  <2>2. QED
    BY <1>3, <2>1, PairIs
<1>7. \A k \in Given(f) : \E i \in 0 .. b.length - 1 : b.slots[i] = Pair(k, f[k]) /\ b.slots[i].key = k
  <2> TAKE k \in Given(f)
  <2>1. PICK i \in 0 .. b.length - 1 : b.slots[i] = Pair(k, f[k])
    BY DEF BucketHolds
  <2>2. QED
    BY <1>3, <2>1, PairIs
<1>8. \A i, j \in 0 .. b.length - 1 : b.slots[i].key = b.slots[j].key => i = j
  BY DEF BucketHolds
<1>9. \A i \in DOMAIN b.slots : i \in Nat /\ (i >= b.length => b.slots[i].key \in E \cup Given(f) \cup {NoKey})
  <2>1. \A i \in DOMAIN b.slots : i \in Nat
    BY <1>4
  <2>2. QED
    BY <2>1 DEF BucketHolds
<1>10. QED
  BY <1>1, <1>2, <1>5, <1>6, <1>7, <1>8, <1>9

\* A search for a name that the bucket has not, and that was not erased from it, finds none,
\* however many fields there are.
LEMMA AbsentField ==
  ASSUME NEW b, NEW f, NEW E, BucketHolds(b, f, E), NEW k \in Keys, k \notin E, k \notin Given(f)
  PROVE  FieldHits(b, k) = {} /\ FieldValue(b, k) = f[k]
<1>1. ASSUME NEW i \in DOMAIN b.slots  PROVE b.slots[i].key # k
  <2>1. i \in Nat /\ b.length \in Nat
    BY BucketIs
  <2>2. CASE i < b.length
    <3>1. i \in 0 .. b.length - 1
      BY <2>1, <2>2
    <3>2. QED
      BY <3>1, BucketIs
  <2>3. CASE i >= b.length
    <3>1. b.slots[i].key \in E \cup Given(f) \cup {NoKey}
      BY <2>3, BucketIs
    <3>2. QED
      BY <3>1, AbsentAssumption
  <2>4. QED
    BY <2>1, <2>2, <2>3
<1>2. FieldHits(b, k) = {}
  BY <1>1 DEF FieldHits
<1>3. f[k] = NoValue
  BY DEF Given
<1>4. QED
  BY <1>2, <1>3 DEF FieldValue

\* In a bucket of a block at most a search finds the field of a name, first of all slots with it.
LEMMA PresentField ==
  ASSUME NEW b, NEW f, NEW E, BucketHolds(b, f, E), b.length <= Block, NEW k \in Given(f)
  PROVE  /\ FieldHits(b, k) # {} /\ Least(FieldHits(b, k)) \in 0 .. b.length - 1
         /\ b.slots[Least(FieldHits(b, k))].key = k
         /\ FieldValue(b, k) = f[k]
<1> DEFINE H == FieldHits(b, k)
           l == Least(H)
<1>1. k \in Keys /\ b.length \in Nat /\ Block \in Nat \ {0}
  BY BlockAssumption, BucketIs DEF Given
<1>2. PICK i \in 0 .. b.length - 1 : b.slots[i] = Pair(k, f[k]) /\ b.slots[i].key = k
  BY BucketIs
<1>3. i \in DOMAIN b.slots /\ i \in Nat
  BY BucketIs
<1>4. Blocks(b) * Block = Block
  <2>1. b.length + Block - 1 >= Block /\ b.length + Block - 1 < Block + Block
    BY <1>1, <1>2, <1>3
  <2>2. \A n, w \in Nat : w > 0 /\ n >= w /\ n < w + w => n \div w = 1
    OBVIOUS
  <2>3. (b.length + Block - 1) \div Block = 1
    BY <1>1, <2>1, <2>2
  <2>4. QED
    BY <1>1, <2>3 DEF Blocks
<1>5. i < Block
  BY <1>1, <1>2, <1>3
<1>6. i % Block = i
  BY <1>1, <1>3, <1>5
<1>7. b.slots[i].mask = PairMask(Hash[k])
  BY <1>1, <1>2, PairIs
<1>8. i \in H
  BY <1>2, <1>3, <1>4, <1>5, <1>6, <1>7 DEF FieldHits
<1>9. H \in SUBSET Nat
  <2>1. \A j \in DOMAIN b.slots : j \in Nat
    BY BucketIs
  <2>2. QED
    BY <2>1 DEF FieldHits
<1>10. l \in H /\ l <= i
  BY <1>8, <1>9, NatLeast
<1>11. b.slots[l].key = k /\ l \in Nat
  BY <1>9, <1>10 DEF FieldHits
<1> HIDE DEF l, H
<1>12. l \in 0 .. b.length - 1
  BY <1>1, <1>2, <1>3, <1>10, <1>11
<1>13. l = i
  <2>1. \A m, j \in 0 .. b.length - 1 : b.slots[m].key = b.slots[j].key => m = j
    BY BucketIs
  <2>2. QED
    BY <1>2, <1>11, <1>12, <2>1
<1>14. b.slots[l].value = f[k]
  BY <1>1, <1>2, <1>13, PairIs
<1>15. QED
  BY <1>8, <1>11, <1>12, <1>14 DEF FieldValue, H, l

\* A lookup in a bucket gives the field of a name, if it was not erased from it.
LEMMA BucketLookup ==
  ASSUME NEW b, NEW f, NEW E, BucketHolds(b, f, E), b.length <= Block, NEW k \in Keys, k \notin E
  PROVE  FieldValue(b, k) = f[k]
<1>1. CASE k \in Given(f)
  BY <1>1, PresentField
<1>2. CASE k \notin Given(f)
  BY <1>2, AbsentField
<1>3. QED
  BY <1>1, <1>2
LEMMA CountTo ==
  ASSUME NEW c \in Nat  PROVE IsFiniteSet(0 .. c - 1) /\ Cardinality(0 .. c - 1) = c
<1>1. 0 \in Int /\ c - 1 \in Int /\ (0 > c - 1 => c = 0) /\ c - 1 - 0 + 1 = c
  OBVIOUS
<1>2. QED
  BY <1>1, FS_Interval

LEMMA NoFields ==
  ASSUME NEW b, NEW c \in Nat, b = [slots |-> Slots(c), length |-> 0], NEW E
  PROVE  BucketHolds(b, Nil, E)
<1>1. Slots(c) = [i \in 0 .. c - 1 |-> Free]
  BY DEF Slots
<1>2. Nil \in Partial /\ Given(Nil) = {}
  BY NilIs
<1>3. b.slots = [i \in 0 .. c - 1 |-> b.slots[i]] /\ b.length = 0 /\ b = [slots |-> b.slots, length |-> b.length]
  BY <1>1
<1>4. \A i \in DOMAIN b.slots : b.slots[i].key = NoKey
  BY <1>1 DEF Free
<1>5. QED
  BY <1>2, <1>3, <1>4 DEF BucketHolds

\* The slots a bucket has room for a field in: the fields are where they were.
LEMMA RoomInBucket ==
  ASSUME NEW b, NEW f, NEW E, BucketHolds(b, f, E), NEW n, n = Cardinality(DOMAIN b.slots),
         NEW room, room = IF b.length < n THEN b.slots ELSE BucketReallocate(b, IF n = 0 THEN FirstCapacity ELSE 2 * n)
  PROVE  /\ \E d \in Nat : room = [i \in 0 .. d - 1 |-> room[i]] /\ b.length < d
         /\ \A i \in 0 .. b.length - 1 : room[i] = b.slots[i]
         /\ \A i \in DOMAIN room : i \in Nat /\ (i >= b.length => room[i].key \in E \cup Given(f) \cup {NoKey})
<1>1. PICK c \in Nat : b.slots = [i \in 0 .. c - 1 |-> b.slots[i]] /\ b.length <= c
  BY BucketIs
<1>2. b.length \in Nat /\ FirstCapacity \in Nat \ {0}
  BY BlockAssumption, BucketIs
<1>3. DOMAIN b.slots = 0 .. c - 1
  BY <1>1
<1>4. n = c
  BY <1>3, CountTo
<1>5. CASE b.length < n
  <2>1. room = b.slots
    BY <1>5
  <2>2. \A i \in DOMAIN b.slots : i \in Nat /\ (i >= b.length => b.slots[i].key \in E \cup Given(f) \cup {NoKey})
    BY BucketIs
  <2>3. QED
    BY <1>1, <1>4, <1>5, <2>1, <2>2
<1>6. CASE ~(b.length < n)
  <2> DEFINE d == IF n = 0 THEN FirstCapacity ELSE 2 * n
  <2>1. d \in Nat /\ b.length < d
    BY <1>1, <1>2, <1>4
  <2>2. room = BucketReallocate(b, d)
    BY <1>6
  <2> HIDE DEF d
  <2>3. room = [i \in 0 .. d - 1 |-> IF i < b.length THEN b.slots[i] ELSE Free]
    BY <2>2 DEF BucketReallocate
  <2>4. \A i \in 0 .. b.length - 1 : room[i] = b.slots[i]
    BY <1>2, <2>1, <2>3
  <2>5. \A i \in DOMAIN room : i \in Nat /\ (i >= b.length => room[i].key = NoKey)
    BY <1>2, <2>1, <2>3 DEF Free
  <2>6. room = [i \in 0 .. d - 1 |-> room[i]]
    BY <2>3
  <2>7. QED
    BY <2>1, <2>4, <2>5, <2>6
<1>7. QED
  BY <1>5, <1>6

\* A field that was not there is behind the others after it was inserted.
LEMMA InsertedInBucket ==
  ASSUME NEW b, NEW f, NEW E, BucketHolds(b, f, E), NEW k \in Keys, f[k] = NoValue, NEW v \in Values,
         NEW a, a = BucketInsert(b, Pair(k, v)), NEW g, g = [f EXCEPT ![k] = v]
  PROVE  BucketHolds(a, g, E)
<1> DEFINE n == Cardinality(DOMAIN b.slots)
           room == IF b.length < n THEN b.slots ELSE BucketReallocate(b, IF n = 0 THEN FirstCapacity ELSE 2 * n)
           l == b.length
           slots == [room EXCEPT ![l] = Pair(k, v)]
<1>1. a = [slots |-> slots, length |-> l + 1]
  BY DEF BucketInsert
<1>2. /\ n = Cardinality(DOMAIN b.slots)
      /\ room = IF b.length < n THEN b.slots ELSE BucketReallocate(b, IF n = 0 THEN FirstCapacity ELSE 2 * n)
  OBVIOUS
<1> HIDE DEF room, n
<1>3. \E d \in Nat : room = [i \in 0 .. d - 1 |-> room[i]] /\ b.length < d
  BY <1>2, RoomInBucket
<1>4. \A i \in 0 .. b.length - 1 : room[i] = b.slots[i]
  BY <1>2, RoomInBucket
<1>5. \A i \in DOMAIN room : i \in Nat /\ (i >= b.length => room[i].key \in E \cup Given(f) \cup {NoKey})
  BY <1>2, RoomInBucket
<1>6. /\ \E d \in Nat : room = [i \in 0 .. d - 1 |-> room[i]] /\ l < d
      /\ \A i \in 0 .. l - 1 : room[i] = b.slots[i]
      /\ \A i \in DOMAIN room : i \in Nat /\ (i >= l => room[i].key \in E \cup Given(f) \cup {NoKey})
  BY <1>3, <1>4, <1>5
<1>7. l \in Nat /\ f \in Partial
  BY BucketIs
<1>8. PICK d \in Nat : room = [i \in 0 .. d - 1 |-> room[i]] /\ l < d
  BY <1>6
<1>9. slots = [i \in 0 .. d - 1 |-> slots[i]]
  BY <1>8
<1>10. \A i \in 0 .. d - 1 : slots[i] = IF i = l THEN Pair(k, v) ELSE room[i]
  BY <1>8
<1> HIDE DEF slots
<1>11. g \in Partial /\ g[k] = v /\ v # NoValue /\ \A j \in Keys : j # k => g[j] = f[j]
  BY <1>7, AbsentAssumption DEF Partial
<1>12. k \in Given(g) /\ k \notin Given(f) /\ \A j : j \in Given(g) <=> j = k \/ j \in Given(f)
  BY <1>11 DEF Given
<1>13. \A j \in Given(f) : j \in Keys /\ j # k /\ g[j] = f[j]
  BY <1>11, <1>12 DEF Given
<1>14. \A i \in 0 .. l - 1 : slots[i] = b.slots[i]
  <2> TAKE i \in 0 .. l - 1
  <2>1. i \in 0 .. d - 1 /\ i # l
    BY <1>7, <1>8
  <2>2. slots[i] = room[i]
    BY <1>10, <2>1
  <2>3. QED
    BY <1>4, <2>2
<1>15. slots[l] = Pair(k, v) /\ Pair(k, v).key = k
  BY <1>7, <1>8, <1>10, PairIs
<1> DEFINE m == l + 1
<1>16. m = l + 1 /\ m \in Nat /\ m <= d
  BY <1>7, <1>8
<1> HIDE DEF m
<1>17. \A i \in 0 .. m - 1 : i = l \/ i \in 0 .. l - 1
  BY <1>7, <1>16
<1>18. ASSUME NEW i \in 0 .. m - 1  PROVE \E j \in Given(g) : slots[i] = Pair(j, g[j])
  <2>1. CASE i = l
    BY <1>11, <1>12, <1>15, <2>1
  <2>2. CASE i \in 0 .. l - 1
    <3>1. PICK j \in Given(f) : b.slots[i] = Pair(j, f[j])
      BY <2>2, BucketIs
    <3>2. QED
      BY <1>12, <1>13, <1>14, <2>2, <3>1
  <2>3. QED
    BY <1>17, <2>1, <2>2
<1>19. ASSUME NEW j \in Given(g)  PROVE \E i \in 0 .. m - 1 : slots[i] = Pair(j, g[j])
  <2>1. CASE j = k
    <3>1. l \in 0 .. m - 1
      BY <1>7, <1>16
    <3>2. QED
      BY <1>11, <1>15, <2>1, <3>1
  <2>2. CASE j \in Given(f)
    <3>1. PICK i \in 0 .. l - 1 : b.slots[i] = Pair(j, f[j])
      BY <2>2, BucketIs
    <3>2. i \in 0 .. m - 1
      BY <1>7, <1>16
    <3>3. QED
      BY <1>13, <1>14, <2>2, <3>1, <3>2
  <2>3. QED
    BY <1>12, <2>1, <2>2
<1>20. ASSUME NEW i \in 0 .. l - 1  PROVE slots[i].key # k
  <2>1. PICK j \in Given(f) : b.slots[i].key = j
    BY BucketIs
  <2>2. QED
    BY <1>12, <1>14, <2>1
<1>21. ASSUME NEW i \in 0 .. m - 1, NEW j \in 0 .. m - 1, slots[i].key = slots[j].key  PROVE i = j
  <2>1. CASE i = l \/ j = l
    BY <1>15, <1>17, <1>20, <1>21, <2>1
  <2>2. CASE i \in 0 .. l - 1 /\ j \in 0 .. l - 1
    <3>1. b.slots[i].key = b.slots[j].key
      BY <1>14, <1>21, <2>2
    <3>2. \A h, p \in 0 .. l - 1 : b.slots[h].key = b.slots[p].key => h = p
      BY BucketIs
    <3>3. QED
      BY <2>2, <3>1, <3>2
  <2>3. QED
    BY <1>17, <2>1, <2>2
<1>22. ASSUME NEW i \in DOMAIN slots, i >= m  PROVE slots[i].key \in E \cup Given(g) \cup {NoKey}
  <2>1. i \in 0 .. d - 1 /\ i \in DOMAIN room
    BY <1>8, <1>9
  <2>2. i # l /\ i >= l
    BY <1>7, <1>22, <1>16, <2>1
  <2>3. slots[i] = room[i]
    BY <1>10, <2>1, <2>2
  <2>4. slots[i].key \in E \cup Given(f) \cup {NoKey}
    BY <1>6, <2>1, <2>2, <2>3
  <2>5. QED
    BY <1>12, <2>4
<1>23. a = [slots |-> slots, length |-> m]
  BY <1>1, <1>16
<1> HIDE DEF l
<1>24. g \in Partial /\ m \in Nat /\ m <= d /\ d \in Nat
  BY <1>11, <1>16
<1>25. \A i \in 0 .. m - 1 : \E j \in Given(g) : slots[i] = Pair(j, g[j])
  BY <1>18
<1>26. \A j \in Given(g) : \E i \in 0 .. m - 1 : slots[i] = Pair(j, g[j])
  BY <1>19
<1>27. \A i, j \in 0 .. m - 1 : slots[i].key = slots[j].key => i = j
  BY <1>21
<1>28. \A i \in DOMAIN slots : i >= m => slots[i].key \in E \cup Given(g) \cup {NoKey}
  BY <1>22
<1> HIDE DEF n, room, slots, m
<1>29. a.slots = slots /\ a.length = m /\ a = [slots |-> a.slots, length |-> a.length]
  BY <1>23
<1>30. \E c \in Nat : a.slots = [i \in 0 .. c - 1 |-> a.slots[i]] /\ a.length <= c
  BY <1>9, <1>24, <1>29
<1>31. a.length \in Nat
  BY <1>24, <1>29
<1>32. \A i \in 0 .. a.length - 1 : \E j \in Given(g) : a.slots[i] = Pair(j, g[j])
  BY <1>25, <1>29
<1>33. \A j \in Given(g) : \E i \in 0 .. a.length - 1 : a.slots[i] = Pair(j, g[j])
  BY <1>26, <1>29
<1>34. \A i, j \in 0 .. a.length - 1 : a.slots[i].key = a.slots[j].key => i = j
  BY <1>27, <1>29
<1>35. \A i \in DOMAIN a.slots : i >= a.length => a.slots[i].key \in E \cup Given(g) \cup {NoKey}
  BY <1>28, <1>29
<1>36. QED
  BY <1>24, <1>29, <1>30, <1>31, <1>32, <1>33, <1>34, <1>35 DEF BucketHolds

LEMMA MoreErased ==
  ASSUME NEW b, NEW f, NEW E, BucketHolds(b, f, E), NEW F, E \subseteq F
  PROVE  BucketHolds(b, f, F)
  BY DEF BucketHolds

\* The field of a name is not in the bucket after it was erased, and what is left behind the end is
\* a field that is there, or that one.
LEMMA ErasedFromBucket ==
  ASSUME NEW b, NEW f, NEW E, BucketHolds(b, f, E), b.length <= Block, NEW k \in Keys, k \notin E,
         NEW a, a = BucketErase(b, k), NEW g, g = [f EXCEPT ![k] = NoValue], NEW F, F = E \cup {k}
  PROVE  BucketHolds(a, g, F) /\ a.length <= b.length
<1>1. b.length \in Nat /\ f \in Partial
  BY BucketIs
<1>2. CASE k \notin Given(f)
  <2>1. f[k] = NoValue
    BY <1>2 DEF Given
  <2>2. g = f
    BY <1>1, <2>1 DEF Partial
  <2>3. a = b
    BY <1>2, AbsentField DEF BucketErase
  <2>4. BucketHolds(b, f, F)
    BY MoreErased
  <2>5. QED
    BY <1>1, <2>2, <2>3, <2>4
<1>3. CASE k \in Given(f)
  <2> DEFINE x == Least(FieldHits(b, k))
             l == b.length
             m == l - 1
             s == [i \in DOMAIN b.slots |-> IF i >= x /\ i < l - 1 THEN b.slots[i + 1] ELSE b.slots[i]]
  <2>1. FieldHits(b, k) # {} /\ x \in 0 .. l - 1 /\ b.slots[x].key = k
    BY <1>3, PresentField
  <2>2. a = [slots |-> s, length |-> m]
    BY <2>1 DEF BucketErase
  <2> HIDE DEF x
  <2>3. PICK d \in Nat : b.slots = [i \in 0 .. d - 1 |-> b.slots[i]] /\ l <= d
    BY BucketIs
  <2>4. l \in Nat /\ m \in Nat /\ m <= d /\ m <= l /\ m = l - 1 /\ x \in Nat /\ x < l
    BY <1>1, <2>1, <2>3
  <2>5. DOMAIN b.slots = 0 .. d - 1
    BY <2>3
  <2>6. s = [i \in 0 .. d - 1 |-> s[i]]
    BY <2>5
  <2>7. \A i \in 0 .. d - 1 : s[i] = IF i >= x /\ i < m THEN b.slots[i + 1] ELSE b.slots[i]
    BY <2>5
  <2> HIDE DEF s, m, l
  <2>8. g \in Partial /\ g[k] = NoValue /\ \A j \in Keys : j # k => g[j] = f[j]
    BY <1>1 DEF Partial
  <2>9. \A j : j \in Given(g) <=> j \in Given(f) /\ j # k
    BY <2>8 DEF Given
  <2>10. \A j \in Given(g) : j \in Given(f) /\ g[j] = f[j]
    BY <2>8, <2>9 DEF Given
  <2>11. \A i, j \in 0 .. l - 1 : b.slots[i].key = b.slots[j].key => i = j
    BY BucketIs DEF l
  <2>12. \A i \in 0 .. l - 1 : \E j \in Given(f) : b.slots[i] = Pair(j, f[j]) /\ b.slots[i].key = j
    BY BucketIs DEF l
  <2>13. \A j \in Given(f) : \E i \in 0 .. l - 1 : b.slots[i] = Pair(j, f[j]) /\ b.slots[i].key = j
    BY BucketIs DEF l
  \* Where the field at i was before, which is not the place of the one erased.
  <2> DEFINE from(i) == IF i >= x THEN i + 1 ELSE i
  <2>14. \A i \in 0 .. m - 1 : from(i) \in 0 .. l - 1 /\ from(i) # x /\ s[i] = b.slots[from(i)]
    <3> TAKE i \in 0 .. m - 1
    <3>1. i \in 0 .. d - 1 /\ i < m
      BY <2>4
    <3>2. from(i) \in 0 .. l - 1 /\ from(i) # x
      BY <2>4
    <3>3. QED
      BY <2>7, <3>1, <3>2
  <2>15. \A i, j \in 0 .. m - 1 : from(i) = from(j) => i = j
    BY <2>4
  <2>16. \A i \in 0 .. l - 1 : i # x => \E j \in 0 .. m - 1 : from(j) = i
    <3> TAKE i \in 0 .. l - 1
    <3>1. CASE i < x
      <4>1. i \in 0 .. m - 1 /\ from(i) = i
        BY <2>4, <3>1
      <4>2. QED
        BY <4>1
    <3>2. CASE i > x
      <4>1. i - 1 \in 0 .. m - 1 /\ from(i - 1) = i
        BY <2>4, <3>2
      <4>2. QED
        BY <4>1
    <3>3. QED
      BY <2>4, <3>1, <3>2
  <2> HIDE DEF from
  <2>17. ASSUME NEW i \in 0 .. m - 1  PROVE \E j \in Given(g) : s[i] = Pair(j, g[j])
    <3>1. PICK j \in Given(f) : b.slots[from(i)] = Pair(j, f[j]) /\ b.slots[from(i)].key = j
      BY <2>12, <2>14
    <3>2. j # k
      BY <2>1, <2>11, <2>14, <3>1 DEF l
    <3>3. j \in Given(g) /\ g[j] = f[j]
      BY <2>9, <2>10, <3>2
    <3>4. QED
      BY <2>14, <3>1, <3>3
  <2>18. ASSUME NEW j \in Given(g)  PROVE \E i \in 0 .. m - 1 : s[i] = Pair(j, g[j])
    <3>1. j \in Given(f) /\ j # k /\ g[j] = f[j]
      BY <2>9, <2>10
    <3>2. PICK i \in 0 .. l - 1 : b.slots[i] = Pair(j, f[j]) /\ b.slots[i].key = j
      BY <2>13, <3>1
    <3>3. PICK h \in 0 .. m - 1 : from(h) = i
      BY <2>1, <2>16, <3>1, <3>2
    <3>4. QED
      BY <2>14, <3>1, <3>2, <3>3
  <2>19. ASSUME NEW i \in 0 .. m - 1, NEW j \in 0 .. m - 1, s[i].key = s[j].key  PROVE i = j
    <3>1. from(i) = from(j)
      BY <2>11, <2>14, <2>19
    <3>2. QED
      BY <2>15, <3>1
  <2>20. ASSUME NEW i \in DOMAIN s, i >= m  PROVE s[i].key \in F \cup Given(g) \cup {NoKey}
    <3>1. i \in 0 .. d - 1 /\ i \in Nat
      BY <2>6
    <3>2. s[i] = b.slots[i]
      BY <2>4, <2>7, <2>20, <3>1
    <3>3. b.slots[i].key \in E \cup Given(f) \cup {NoKey}
      <4>1. CASE i >= l
        BY <2>5, <3>1, <4>1, BucketIs DEF l
      <4>2. CASE i < l
        <5>1. i \in 0 .. l - 1
          BY <2>4, <3>1, <4>2
        <5>2. QED
          BY <2>12, <5>1
      <4>3. QED
        BY <2>4, <3>1, <4>1, <4>2
    <3>4. QED
      BY <2>9, <3>2, <3>3
  <2>21. a.slots = s /\ a.length = m /\ a = [slots |-> a.slots, length |-> a.length]
    BY <2>2
  <2>22. g \in Partial /\ m \in Nat
    BY <2>4, <2>8
  <2>23. \E c \in Nat : a.slots = [i \in 0 .. c - 1 |-> a.slots[i]] /\ a.length <= c
    BY <2>4, <2>6, <2>21
  <2>24. BucketHolds(a, g, F)
    <3>1. \A i \in 0 .. a.length - 1 : \E j \in Given(g) : a.slots[i] = Pair(j, g[j])
      BY <2>17, <2>21
    <3>2. \A j \in Given(g) : \E i \in 0 .. a.length - 1 : a.slots[i] = Pair(j, g[j])
      BY <2>18, <2>21
    <3>3. \A i, j \in 0 .. a.length - 1 : a.slots[i].key = a.slots[j].key => i = j
      BY <2>19, <2>21
    <3>4. \A i \in DOMAIN a.slots : i >= a.length => a.slots[i].key \in F \cup Given(g) \cup {NoKey}
      BY <2>20, <2>21
    <3>5. g \in Partial /\ a.length \in Nat /\ a = [slots |-> a.slots, length |-> a.length]
      BY <2>21, <2>22
    <3>6. QED
      BY <2>23, <3>1, <3>2, <3>3, <3>4, <3>5 DEF BucketHolds
  <2>25. QED
    BY <2>4, <2>21, <2>24 DEF l
<1>4. QED
  BY <1>2, <1>3

-----------------------------------------------------------------------------
(* Buckets that hold the fields of an object *)

BucketsHold(bs, n, D, E) ==
  /\ n \in Nat \ {0} /\ D \in Partial
  /\ bs = [b \in 0 .. n - 1 |-> bs[b]]
  /\ \A b \in 0 .. n - 1 : BucketHolds(bs[b], Part(D, n, b), E)

LEMMA NothingInBuckets ==
  ASSUME NEW bs, NEW n \in Nat \ {0}, NEW c \in Nat,
         bs = [b \in 0 .. n - 1 |-> [slots |-> Slots(c), length |-> 0]], NEW E
  PROVE  BucketsHold(bs, n, Nil, E)
<1>1. \A b : Part(Nil, n, b) = Nil
  BY DEF Part, Nil
<1>2. \A b \in 0 .. n - 1 : BucketHolds(bs[b], Nil, E)
  <2> TAKE b \in 0 .. n - 1
  <2>1. bs[b] = [slots |-> Slots(c), length |-> 0]
    OBVIOUS
  <2>2. QED
    BY <2>1, NoFields
<1>3. bs = [b \in 0 .. n - 1 |-> bs[b]]
  OBVIOUS
<1>4. QED
  BY <1>1, <1>2, <1>3, NilIs DEF BucketsHold

\* A change of what is said of a name changes the bucket of its hash and no other.
LEMMA BucketChange ==
  ASSUME NEW bs, NEW n, NEW D, NEW E, BucketsHold(bs, n, D, E), NEW k \in Keys,
         NEW g, g = GroupOf(k, n), NEW w \in Values \cup {NoValue}, NEW F, E \subseteq F,
         NEW h, BucketHolds(h, [Part(D, n, g) EXCEPT ![k] = w], F),
         NEW cs, cs = [bs EXCEPT ![g] = h], NEW C, C = [D EXCEPT ![k] = w]
  PROVE  BucketsHold(cs, n, C, F)
<1> DEFINE I == 0 .. n - 1
<1>1. n \in Nat \ {0} /\ D \in Partial /\ bs = [b \in I |-> bs[b]]
  BY DEF BucketsHold
<1>2. g \in I
  BY <1>1, GroupIs
<1>3. C \in Partial
  BY <1>1 DEF Partial
<1>4. cs = [b \in I |-> cs[b]] /\ \A b \in I : cs[b] = IF b = g THEN h ELSE bs[b]
  BY <1>1
<1>5. Part(C, n, g) = [Part(D, n, g) EXCEPT ![k] = w]
  BY <1>1 DEF Part, Partial
<1>6. \A b \in I : b # g => Part(C, n, b) = Part(D, n, b)
  BY <1>1 DEF Part, Partial
<1>7. ASSUME NEW b \in I  PROVE BucketHolds(cs[b], Part(C, n, b), F)
  <2>1. CASE b = g
    BY <1>4, <1>5, <2>1
  <2>2. CASE b # g
    <3>1. BucketHolds(bs[b], Part(D, n, b), E)
      BY DEF BucketsHold
    <3>2. BucketHolds(bs[b], Part(D, n, b), F)
      BY <3>1, MoreErased
    <3>3. QED
      BY <1>4, <1>6, <2>2, <3>2
  <2>3. QED
    BY <2>1, <2>2
<1>8. QED
  BY <1>1, <1>3, <1>4, <1>7 DEF BucketsHold

LEMMA BucketOf ==
  ASSUME NEW bs, NEW n, NEW D, NEW E, BucketsHold(bs, n, D, E), NEW k \in Keys
  PROVE  /\ GroupOf(k, n) \in 0 .. n - 1 /\ GroupOf(k, n) \in DOMAIN bs
         /\ BucketHolds(bs[GroupOf(k, n)], Part(D, n, GroupOf(k, n)), E)
         /\ Part(D, n, GroupOf(k, n))[k] = D[k]
         /\ n \in Nat \ {0} /\ D \in Partial /\ Cardinality(DOMAIN bs) = n
<1>1. n \in Nat \ {0} /\ D \in Partial /\ DOMAIN bs = 0 .. n - 1
  BY DEF BucketsHold
<1>2. GroupOf(k, n) \in 0 .. n - 1
  BY <1>1, GroupIs
<1>3. Part(D, n, GroupOf(k, n))[k] = D[k]
  BY DEF Part
<1>4. Cardinality(DOMAIN bs) = n
  BY <1>1, CountTo
<1>5. QED
  BY <1>1, <1>2, <1>3, <1>4 DEF BucketsHold

LEMMA InsertedInto ==
  ASSUME NEW bs, NEW n, NEW D, NEW E, BucketsHold(bs, n, D, E), NEW k \in Keys, D[k] = NoValue, NEW v \in Values,
         NEW cs, cs = InsertInto(bs, Pair(k, v)), NEW C, C = [D EXCEPT ![k] = v]
  PROVE  BucketsHold(cs, n, C, E)
<1> DEFINE g == GroupOf(k, n)
           h == BucketInsert(bs[g], Pair(k, v))
           f == Part(D, n, g)
<1>1. g \in DOMAIN bs /\ BucketHolds(bs[g], f, E) /\ f[k] = NoValue /\ Cardinality(DOMAIN bs) = n
  BY BucketOf
<1>2. Pair(k, v).key = k
  BY PairIs
<1>3. cs = [bs EXCEPT ![g] = h]
  BY <1>1, <1>2 DEF InsertInto
<1>4. BucketHolds(h, [f EXCEPT ![k] = v], E)
  <2> DEFINE a == bs[g]
             e == [f EXCEPT ![k] = v]
  <2> HIDE DEF f, g
  <2>1. BucketHolds(a, f, E) /\ f[k] = NoValue /\ h = BucketInsert(a, Pair(k, v)) /\ e = [f EXCEPT ![k] = v]
    BY <1>1
  <2> HIDE DEF a, h, e
  <2>2. BucketHolds(h, e, E)
    BY <2>1, InsertedInBucket
  <2>3. QED
    BY <2>2 DEF e
<1> HIDE DEF h
<1>5. QED
  BY <1>3, <1>4, BucketChange

\* The fields of buckets are in the slots below their lengths.
LEMMA BucketsCarry ==
  ASSUME NEW x, NEW n, NEW D, NEW E, BucketsHold(x.buckets, n, D, E)
  PROVE  /\ Carries(x.buckets, Live(x), D)
         /\ \A p \in Live(x) : p[1] \in 0 .. n - 1
<1> DEFINE bs == x.buckets
           I == 0 .. n - 1
           S == Live(x)
<1>1. DOMAIN bs = I /\ n \in Nat \ {0} /\ D \in Partial
  BY DEF BucketsHold
<1>2. \A p : p \in S <=> \E b \in I : \E i \in 0 .. bs[b].length - 1 : p = <<b, i>>
  BY <1>1 DEF Live
<1>3. \A b \in I : BucketHolds(bs[b], Part(D, n, b), E)
  BY DEF BucketsHold
<1> HIDE DEF S
<1>4. ASSUME NEW p \in S
      PROVE  /\ p \in Nat \X Nat /\ p[1] \in I
             /\ \E k \in Given(D) : At(bs, p) = Pair(k, D[k]) /\ GroupOf(k, n) = p[1] /\ At(bs, p).key = k
  <2>1. PICK b \in I : \E i \in 0 .. bs[b].length - 1 : p = <<b, i>>
    BY <1>2
  <2>2. PICK i \in 0 .. bs[b].length - 1 : p = <<b, i>>
    BY <2>1
  <2> DEFINE a == bs[b]
             f == Part(D, n, b)
  <2>3. BucketHolds(a, f, E) /\ i \in 0 .. a.length - 1
    BY <1>3
  <2>4. At(bs, p) = a.slots[i]
    BY <2>2 DEF At
  <2> HIDE DEF a, f
  <2>5. i \in Nat /\ \E k \in Given(f) : a.slots[i] = Pair(k, f[k]) /\ a.slots[i].key = k
    BY <2>3, BucketIs
  <2>6. PICK k \in Given(f) : a.slots[i] = Pair(k, f[k]) /\ a.slots[i].key = k
    BY <2>5
  <2>7. k \in Given(D) /\ GroupOf(k, n) = b /\ f[k] = D[k]
    BY <1>1, PartIs DEF f
  <2>8. b \in Nat
    BY <1>1
  <2>9. QED
    BY <2>2, <2>4, <2>5, <2>6, <2>7, <2>8
<1>5. ASSUME NEW k \in Given(D)  PROVE \E p \in S : At(bs, p) = Pair(k, D[k])
  <2>1. k \in Keys
    BY DEF Given
  <2>2. PICK b \in I : GroupOf(k, n) = b
    BY <1>1, <2>1, GroupIs
  <2> DEFINE a == bs[b]
             f == Part(D, n, b)
  <2>3. k \in Given(f) /\ f[k] = D[k]
    BY <1>1, <2>2, PartIs
  <2>4. BucketHolds(a, f, E)
    BY <1>3
  <2> HIDE DEF f
  <2>5. PICK i \in 0 .. a.length - 1 : a.slots[i] = Pair(k, f[k])
    BY <2>3, <2>4, BucketIs
  <2>6. <<b, i>> \in S /\ At(bs, <<b, i>>) = a.slots[i]
    BY <1>2, AtIs
  <2>7. QED
    BY <2>3, <2>5, <2>6
<1>6. ASSUME NEW p \in S, NEW q \in S, At(bs, p).key = At(bs, q).key  PROVE p = q
  <2>1. p[1] = q[1]
    BY <1>4, <1>6
  <2>2. PICK b \in I : \E i \in 0 .. bs[b].length - 1 : p = <<b, i>>
    BY <1>2
  <2>3. PICK i \in 0 .. bs[b].length - 1 : p = <<b, i>>
    BY <2>2
  <2>4. PICK c \in I : \E j \in 0 .. bs[c].length - 1 : q = <<c, j>>
    BY <1>2
  <2>5. PICK j \in 0 .. bs[c].length - 1 : q = <<c, j>>
    BY <2>4
  <2>6. b = c
    BY <2>1, <2>3, <2>5
  <2>7. bs[b].slots[i].key = bs[b].slots[j].key /\ i \in 0 .. bs[b].length - 1 /\ j \in 0 .. bs[b].length - 1
    BY <1>6, <2>3, <2>5, <2>6, AtIs
  <2>8. i = j
    <3> DEFINE a == bs[b]
    <3>1. BucketHolds(a, Part(D, n, b), E)
      BY <1>3
    <3>2. a.slots[i].key = a.slots[j].key /\ i \in 0 .. a.length - 1 /\ j \in 0 .. a.length - 1
      BY <2>7
    <3> HIDE DEF a
    <3>3. QED
      BY <3>1, <3>2, BucketIs
  <2>9. QED
    BY <2>3, <2>5, <2>6, <2>8
<1>7. QED
  BY <1>1, <1>4, <1>5, <1>6 DEF Carries, S

-----------------------------------------------------------------------------
(* The fields of an object one after the other *)

\* What is so of 0, and of each number up to N after the one before it.
LEMMA UpTo ==
  ASSUME NEW N \in Nat, NEW T, 0 \in T, \A i \in 1 .. N : i - 1 \in T => i \in T
  PROVE  \A i \in 0 .. N : i \in T
<1> DEFINE R == {i \in 0 .. N : i \notin T}
<1>1. SUFFICES ASSUME R # {}  PROVE FALSE
  OBVIOUS
<1>2. R \in SUBSET Nat
  OBVIOUS
<1>3. Least(R) \in R /\ \A y \in R : Least(R) <= y
  BY <1>1, <1>2, NatLeast
<1> DEFINE l == Least(R)
<1>4. l \in 0 .. N /\ l \notin T /\ l # 0
  BY <1>3
<1>5. l - 1 \in 0 .. N /\ l \in 1 .. N /\ ~(l <= l - 1)
  BY <1>4
<1>6. l - 1 \notin R
  BY <1>3, <1>5
<1>7. QED
  BY <1>4, <1>5, <1>6

LEMMA FieldsAre ==
  ASSUME NEW x, NEW D, Carries(x.buckets, Live(x), D), NEW N, N = Cardinality(Live(x))
  PROVE  /\ N \in Nat /\ N = Cardinality(Given(D))
         /\ \A i \in 1 .. N : \E k \in Given(D) : Field(x, i) = Pair(k, D[k]) /\ Field(x, i).key = k
         /\ \A i, j \in 1 .. N : Field(x, i).key = Field(x, j).key => i = j
         /\ \A k \in Given(D) : \E i \in 1 .. N : Field(x, i).key = k
<1> DEFINE S == Live(x)
           bs == x.buckets
<1>1. S \in SUBSET (Nat \X Nat) /\ IsFiniteSet(S) /\ N = Cardinality(Given(D))
  BY CarriesCount DEF Carries
<1>2. N \in Nat
  BY <1>1, FS_CardinalityType
<1>3. /\ \A p \in S : Rank(S, p) \in 0 .. N - 1
      /\ \A p, q \in S : Rank(S, p) = Rank(S, q) => p = q
      /\ \A i \in 0 .. N - 1 : \E p \in S : Rank(S, p) = i
  BY <1>1, RankIs
<1> DEFINE P(i) == CHOOSE p \in S : Rank(S, p) = i - 1
<1>4. \A i \in 1 .. N : P(i) \in S /\ Rank(S, P(i)) = i - 1 /\ Field(x, i) = At(bs, P(i))
  <2> TAKE i \in 1 .. N
  <2>1. i - 1 \in 0 .. N - 1
    BY <1>2
  <2>2. \E p \in S : Rank(S, p) = i - 1
    BY <1>3, <2>1
  <2>3. QED
    BY <2>2 DEF Field
<1>5. \A p \in S : \E k \in Given(D) : At(bs, p) = Pair(k, D[k]) /\ At(bs, p).key = k
  <2> TAKE p \in S
  <2>1. PICK k \in Given(D) : At(bs, p) = Pair(k, D[k])
    BY DEF Carries
  <2>2. k \in Keys
    BY DEF Given
  <2>3. QED
    BY <2>1, <2>2, PairIs
<1>6. \A k \in Given(D) : \E p \in S : At(bs, p).key = k
  <2> TAKE k \in Given(D)
  <2>1. PICK p \in S : At(bs, p) = Pair(k, D[k])
    BY DEF Carries
  <2>2. k \in Keys
    BY DEF Given
  <2>3. QED
    BY <2>1, <2>2, PairIs
<1>7. \A p, q \in S : At(bs, p).key = At(bs, q).key => p = q
  BY DEF Carries
<1> HIDE DEF P, S, bs
<1>8. \A i, j \in 1 .. N : Field(x, i).key = Field(x, j).key => i = j
  <2> SUFFICES ASSUME NEW i \in 1 .. N, NEW j \in 1 .. N, Field(x, i).key = Field(x, j).key  PROVE i = j
    OBVIOUS
  <2>1. P(i) = P(j)
    BY <1>4, <1>7
  <2>2. i - 1 = j - 1
    BY <1>4, <2>1
  <2>3. QED
    BY <1>2, <2>2
<1>9. \A k \in Given(D) : \E i \in 1 .. N : Field(x, i).key = k
  <2> TAKE k \in Given(D)
  <2>1. PICK p \in S : At(bs, p).key = k
    BY <1>6
  <2> DEFINE i == Rank(S, p) + 1
  <2>2. Rank(S, p) \in 0 .. N - 1
    BY <1>3
  <2>3. i \in 1 .. N /\ i - 1 = Rank(S, p)
    BY <1>2, <2>2
  <2>4. P(i) = p
    BY <1>3, <1>4, <2>3
  <2>5. Field(x, i).key = k
    BY <1>4, <2>1, <2>3, <2>4
  <2>6. QED
    BY <2>3, <2>5
<1>10. QED
  BY <1>1, <1>2, <1>4, <1>5, <1>8, <1>9

\* What the first i fields of x say of D.
FirstOf(D, x, i) == [k \in Keys |-> IF \E j \in 1 .. i : Field(x, j).key = k THEN D[k] ELSE NoValue]

LEMMA FirstNone == ASSUME NEW D, NEW x  PROVE FirstOf(D, x, 0) = Nil
<1>1. 1 .. 0 = {}
  OBVIOUS
<1>2. QED
  BY <1>1 DEF FirstOf, Nil

LEMMA FirstAll ==
  ASSUME NEW x, NEW D, Carries(x.buckets, Live(x), D), NEW N, N = Cardinality(Live(x))
  PROVE  FirstOf(D, x, N) = D
<1>1. \A k \in Given(D) : \E i \in 1 .. N : Field(x, i).key = k
  BY FieldsAre
<1>2. D = [k \in Keys |-> D[k]]
  BY DEF Carries, Partial
<1>3. \A k \in Keys : (IF \E j \in 1 .. N : Field(x, j).key = k THEN D[k] ELSE NoValue) = D[k]
  BY <1>1 DEF Given
<1>4. FirstOf(D, x, N) = [k \in Keys |-> D[k]]
  BY <1>3 DEF FirstOf
<1>5. QED
  BY <1>2, <1>4

LEMMA FirstMore ==
  ASSUME NEW x, NEW D, Carries(x.buckets, Live(x), D), NEW N, N = Cardinality(Live(x)), NEW i \in 1 .. N
  PROVE  \E k \in Keys : \E v \in Values :
           /\ Field(x, i) = Pair(k, v) /\ Field(x, i).key = k /\ Field(x, i).value = v
           /\ FirstOf(D, x, i - 1)[k] = NoValue
           /\ FirstOf(D, x, i) = [FirstOf(D, x, i - 1) EXCEPT ![k] = v]
<1>1. N \in Nat
  BY FieldsAre
<1>2. PICK k \in Given(D) : Field(x, i) = Pair(k, D[k]) /\ Field(x, i).key = k
  BY FieldsAre
<1>3. k \in Keys /\ D[k] \in Values /\ D \in Partial
  BY DEF Given, Carries, Partial
<1>4. Field(x, i).value = D[k]
  BY <1>2, <1>3, PairIs
<1>5. \A m, j \in 1 .. N : Field(x, m).key = Field(x, j).key => m = j
  BY FieldsAre
<1>6. \A j \in 1 .. i - 1 : j \in 1 .. N /\ j # i
  BY <1>1
<1>7. \A j \in 1 .. i - 1 : Field(x, j).key # k
  BY <1>2, <1>5, <1>6
<1>8. FirstOf(D, x, i - 1)[k] = NoValue
  BY <1>3, <1>7 DEF FirstOf
<1>9. \A j : j \in 1 .. i <=> j = i \/ j \in 1 .. i - 1
  BY <1>1
<1>10. \A h \in Keys : (\E j \in 1 .. i : Field(x, j).key = h) <=> h = k \/ \E j \in 1 .. i - 1 : Field(x, j).key = h
  BY <1>2, <1>9
<1>11. FirstOf(D, x, i) = [FirstOf(D, x, i - 1) EXCEPT ![k] = D[k]]
  BY <1>10 DEF FirstOf
<1>12. QED
  BY <1>2, <1>3, <1>4, <1>8, <1>11

\* The buckets B after each of N fields of x was put into them.
MovedFields(x, B, N) ==
  CHOOSE moved : moved = [i \in 0 .. N |-> IF i = 0 THEN B ELSE InsertInto(moved[i - 1], Field(x, i))]

\* Moving the fields of x into buckets one by one is a function.
LEMMA Moving ==
  ASSUME NEW x, NEW B, NEW N \in Nat, NEW m,
         m = MovedFields(x, B, N)
  PROVE  /\ m[0] = B
         /\ \A i \in 1 .. N : m[i] = InsertInto(m[i - 1], Field(x, i))
<1> DEFINE Folds(f, j) == f = [i \in 0 .. j |-> IF i = 0 THEN B ELSE InsertInto(f[i - 1], Field(x, i))]
           T == {j \in 0 .. N : \E f : Folds(f, j)}
<1>1. 0 \in T
  <2> DEFINE f == [i \in 0 .. 0 |-> B]
  <2>1. Folds(f, 0)
    OBVIOUS
  <2> HIDE DEF f
  <2>2. \E g : Folds(g, 0)
    BY <2>1
  <2>3. 0 \in 0 .. N
    OBVIOUS
  <2> HIDE DEF Folds
  <2>4. QED
    BY <2>2, <2>3
<1>2. ASSUME NEW j \in 1 .. N, j - 1 \in T  PROVE j \in T
  <2>1. PICK f : Folds(f, j - 1)
    BY <1>2
  <2> DEFINE h == [i \in 0 .. j |-> IF i = j THEN InsertInto(f[j - 1], Field(x, j)) ELSE f[i]]
  <2>2. \A i \in 0 .. j - 1 : f[i] = IF i = 0 THEN B ELSE InsertInto(f[i - 1], Field(x, i))
    BY <2>1
  <2>3. \A i \in 0 .. j : h[i] = IF i = 0 THEN B ELSE InsertInto(h[i - 1], Field(x, i))
    <3> TAKE i \in 0 .. j
    <3>1. CASE i = j
      <4>1. j - 1 \in 0 .. j /\ j - 1 # j /\ j # 0 /\ j \in 0 .. j
        OBVIOUS
      <4>2. h[j - 1] = f[j - 1] /\ h[j] = InsertInto(f[j - 1], Field(x, j))
        BY <4>1
      <4>3. QED
        BY <3>1, <4>1, <4>2
    <3>2. CASE i # j
      <4>1. i \in 0 .. j - 1
        BY <3>2
      <4>2. h[i] = f[i]
        BY <3>2
      <4>3. i # 0 => i - 1 \in 0 .. j /\ i - 1 # j
        BY <4>1
      <4>4. i # 0 => h[i - 1] = f[i - 1]
        BY <4>3
      <4> HIDE DEF h
      <4>5. QED
        BY <2>2, <4>1, <4>2, <4>4
    <3>3. QED
      BY <3>1, <3>2
  <2>4. h = [i \in 0 .. j |-> h[i]]
    OBVIOUS
  <2> HIDE DEF h
  <2>5. Folds(h, j)
    BY <2>3, <2>4
  <2>6. j \in 0 .. N
    OBVIOUS
  <2>7. QED
    BY <2>5, <2>6
<1>3. N \in 0 .. N
  OBVIOUS
<1>4. \A i \in 1 .. N : i - 1 \in T => i \in T
  BY <1>2
<1> HIDE DEF T
<1>5. N \in T
  BY <1>1, <1>3, <1>4, UpTo
<1>6. \E f : Folds(f, N)
  BY <1>5 DEF T
<1>7. Folds(m, N)
  BY <1>6 DEF MovedFields
<1>8. \A i \in 0 .. N : m[i] = IF i = 0 THEN B ELSE InsertInto(m[i - 1], Field(x, i))
  BY <1>7
<1>9. 0 \in 0 .. N /\ \A i \in 1 .. N : i \in 0 .. N /\ i # 0
  OBVIOUS
<1>10. QED
  BY <1>8, <1>9

-----------------------------------------------------------------------------
(* Objects *)

\* x is an object with the fields of D, in buckets that may have names of E behind their ends.
IsObject(x) == x = [buckets |-> x.buckets, bucketCount |-> x.bucketCount, elementCount |-> x.elementCount]

Represented(x, D, E) ==
  /\ IsObject(x)
  /\ x.elementCount \in Nat /\ Cardinality(Given(D)) <= x.elementCount
  /\ BucketsHold(x.buckets, x.bucketCount, D, E) \/ (x = Empty /\ D = Nil)

LEMMA NoneLive == Live(Empty) = {} /\ Empty.bucketCount = 0 /\ Empty.elementCount = 0 /\ IsObject(Empty) /\ DOMAIN Empty.buckets = {}
  BY DEF Live, Empty, NoBuckets, IsObject

LEMMA EmptyIs ==
  ASSUME NEW E
  PROVE  Represented(Empty, Nil, E)
  BY NoneLive, NilIs DEF Represented

LEMMA RepresentedIs ==
  ASSUME NEW x, NEW D, NEW E, Represented(x, D, E)
  PROVE  /\ x.bucketCount \in Nat /\ D \in Partial /\ IsObject(x) /\ x.elementCount \in Nat
         /\ Cardinality(Given(D)) <= x.elementCount
         /\ Carries(x.buckets, Live(x), D)
         /\ \A p \in Live(x) : p[1] \in 0 .. x.bucketCount - 1
         /\ x.bucketCount # 0 => BucketsHold(x.buckets, x.bucketCount, D, E)
         /\ x.bucketCount = 0 => x = Empty /\ D = Nil
<1>1. CASE BucketsHold(x.buckets, x.bucketCount, D, E)
  <2>1. x.bucketCount \in Nat \ {0} /\ D \in Partial
    BY <1>1 DEF BucketsHold
  <2>2. Carries(x.buckets, Live(x), D) /\ \A p \in Live(x) : p[1] \in 0 .. x.bucketCount - 1
    BY <1>1, BucketsCarry
  <2>3. QED
    BY <1>1, <2>1, <2>2 DEF Represented
<1>2. CASE x = Empty /\ D = Nil
  <2>1. Live(x) = {} /\ x.bucketCount = 0
    BY <1>2, NoneLive
  <2>2. Carries(x.buckets, Live(x), D)
    BY <1>2, <2>1, NilIs DEF Carries
  <2>3. QED
    BY <1>2, <2>1, <2>2, NilIs DEF Represented
<1>3. QED
  BY <1>1, <1>2 DEF Represented

LEMMA RebucketIs ==
  ASSUME NEW x, NEW r, NEW n, n = NewBucketCount(r), NEW B, B = [b \in 0 .. n - 1 |-> EmptyBucket]
  PROVE  LET N == Cardinality(Live(x))
         IN  Rebucket(x, r) = IF n <= x.bucketCount THEN x
                              ELSE [x EXCEPT !.buckets = MovedFields(x, B, N)[N], !.bucketCount = n]
  BY DEF Rebucket, MovedFields

\* The fields of an object are in its new buckets when it gets more of them.
LEMMA Rebucketed ==
  ASSUME NEW x, NEW D, NEW E, IsObject(x), Carries(x.buckets, Live(x), D), x.bucketCount \in Nat,
         x.bucketCount # 0 => BucketsHold(x.buckets, x.bucketCount, D, E),
         NEW r \in 0 .. 2 * MaxElements + 1, NEW y, y = Rebucket(x, r)
  PROVE  IsObject(y) /\ y.elementCount = x.elementCount /\ BucketsHold(y.buckets, y.bucketCount, D, E)
<1> DEFINE n == NewBucketCount(r)
           N == Cardinality(Live(x))
           B == [b \in 0 .. n - 1 |-> EmptyBucket]
<1>1. n \in Nat \ {0}
  BY BucketCountAssumption
<1>2. N \in Nat
  BY FieldsAre
<1> DEFINE m == MovedFields(x, B, N)
<1>3. y = IF n <= x.bucketCount THEN x ELSE [x EXCEPT !.buckets = m[N], !.bucketCount = n]
  BY RebucketIs
<1>4. B = [b \in 0 .. n - 1 |-> [slots |-> Slots(FirstCapacity), length |-> 0]] /\ FirstCapacity \in Nat
  BY BlockAssumption DEF EmptyBucket
<1> HIDE DEF n, N, B
<1>5. m[0] = B /\ \A i \in 1 .. N : m[i] = InsertInto(m[i - 1], Field(x, i))
  BY <1>2, Moving
<1> HIDE DEF m
<1> DEFINE T == {i \in 0 .. N : BucketsHold(m[i], n, FirstOf(D, x, i), E)}
<1>6. 0 \in T
  <2>1. BucketsHold(B, n, Nil, E)
    BY <1>1, <1>4, NothingInBuckets
  <2>2. 0 \in 0 .. N
    BY <1>2
  <2>3. QED
    BY <1>5, <2>1, <2>2, FirstNone
<1>7. ASSUME NEW i \in 1 .. N, i - 1 \in T  PROVE i \in T
  <2> DEFINE C == FirstOf(D, x, i - 1)
             F == FirstOf(D, x, i)
             bs == m[i - 1]
             cs == m[i]
  <2>1. PICK k \in Keys : \E v \in Values : /\ Field(x, i) = Pair(k, v)
                                            /\ C[k] = NoValue /\ F = [C EXCEPT ![k] = v]
    BY FirstMore DEF N
  <2>2. PICK v \in Values : Field(x, i) = Pair(k, v) /\ C[k] = NoValue /\ F = [C EXCEPT ![k] = v]
    BY <2>1
  <2>3. cs = InsertInto(bs, Pair(k, v))
    BY <1>5, <2>2
  <2>4. BucketsHold(bs, n, C, E)
    BY <1>7
  <2> HIDE DEF C, F, bs, cs
  <2>5. BucketsHold(cs, n, F, E)
    BY <2>2, <2>3, <2>4, InsertedInto
  <2>6. i \in 0 .. N
    BY <1>2
  <2>7. QED
    BY <2>5, <2>6 DEF cs, F
<1>8. \A i \in 1 .. N : i - 1 \in T => i \in T
  BY <1>7
<1> HIDE DEF T
<1>9. \A i \in 0 .. N : i \in T
  BY <1>2, <1>6, <1>8, UpTo
<1>10. N \in T
  BY <1>2, <1>9
<1>11. BucketsHold(m[N], n, D, E)
  <2>1. FirstOf(D, x, N) = D
    BY FirstAll DEF N
  <2>2. QED
    BY <1>10, <2>1 DEF T
<1>12. CASE n <= x.bucketCount
  <2>1. y = x /\ x.bucketCount # 0
    BY <1>1, <1>3, <1>12
  <2>2. QED
    BY <2>1
<1>13. CASE ~(n <= x.bucketCount)
  <2> DEFINE w == m[N]
             z == [x EXCEPT !.buckets = w]
  <2> HIDE DEF w
  <2>1. z = [buckets |-> w, bucketCount |-> x.bucketCount, elementCount |-> x.elementCount]
    BY DEF IsObject
  <2>2. y = [z EXCEPT !.bucketCount = n]
    BY <1>3, <1>13 DEF w
  <2> HIDE DEF z
  <2>3. y = [buckets |-> w, bucketCount |-> n, elementCount |-> x.elementCount]
    BY <2>1, <2>2
  <2>4. BucketsHold(w, n, D, E)
    BY <1>11 DEF w
  <2>5. QED
    BY <2>3, <2>4 DEF IsObject
<1>14. QED
  BY <1>12, <1>13

\* A name that an object has not, and that was not erased from it, is not found.
LEMMA AbsentLookup ==
  ASSUME NEW x, NEW D, NEW E, Represented(x, D, E), NEW k \in Keys, k \notin E, D[k] = NoValue
  PROVE  LookupField(x, k) = NoValue
<1>1. CASE x.elementCount = 0
  BY <1>1 DEF LookupField
<1>2. CASE x.elementCount # 0
  <2> DEFINE n == x.bucketCount
             g == GroupOf(k, n)
             b == x.buckets[g]
             f == Part(D, n, g)
  <2>1. x # Empty
    BY <1>2, NoneLive
  <2>2. BucketsHold(x.buckets, n, D, E)
    BY <2>1 DEF Represented
  <2>3. BucketHolds(b, f, E) /\ f[k] = NoValue
    BY <2>2, BucketOf
  <2> HIDE DEF f, b
  <2>4. k \notin Given(f)
    BY <2>3 DEF Given
  <2>5. FieldValue(b, k) = NoValue
    BY <2>3, <2>4, AbsentField
  <2>6. QED
    BY <1>2, <2>5 DEF LookupField, b
<1>3. QED
  BY <1>1, <1>2

\* Buckets that a search reads to their ends.
Searched(x) == \A b \in DOMAIN x.buckets : x.buckets[b].length <= Block

LEMMA FieldLookup ==
  ASSUME NEW x, NEW D, NEW E, Represented(x, D, E), Searched(x), NEW k \in Keys, k \notin E
  PROVE  LookupField(x, k) = D[k]
<1>1. CASE x.elementCount = 0
  <2>1. Cardinality(Given(D)) \in Nat
    BY GivenFinite
  <2>2. Cardinality(Given(D)) = 0 /\ D \in Partial
    BY <1>1, <2>1, RepresentedIs
  <2>3. D = Nil
    BY <2>2, NoneGiven
  <2>4. QED
    BY <1>1, <2>3 DEF LookupField, Nil
<1>2. CASE x.elementCount # 0
  <2> DEFINE n == x.bucketCount
             g == GroupOf(k, n)
             b == x.buckets[g]
             f == Part(D, n, g)
  <2>1. x # Empty
    BY <1>2, NoneLive
  <2>2. BucketsHold(x.buckets, n, D, E)
    BY <2>1 DEF Represented
  <2>3. BucketHolds(b, f, E) /\ f[k] = D[k] /\ g \in DOMAIN x.buckets
    BY <2>2, BucketOf
  <2>4. b.length <= Block
    BY <2>3 DEF Searched
  <2> HIDE DEF f, b
  <2>5. FieldValue(b, k) = D[k]
    BY <2>3, <2>4, BucketLookup
  <2>6. QED
    BY <1>2, <2>5 DEF LookupField, b
<1>3. QED
  BY <1>1, <1>2

\* Adding a field of which an object has no name adds it.
LEMMA AddedTo ==
  ASSUME NEW x, NEW D, NEW E, Represented(x, D, E), NEW k \in Keys, k \notin E, D[k] = NoValue, NEW v \in Values,
         NEW c \in 0 .. 2 * MaxElements, x.elementCount = c, NEW y, y = Added(x, k, v), NEW C, C = [D EXCEPT ![k] = v]
  PROVE  /\ Represented(y, C, E) /\ y.elementCount = c + 1
         /\ BucketsHold(y.buckets, y.bucketCount, C, E)
<1> DEFINE r == x.elementCount + 1
           z == IF ShouldRebucket(x, r) THEN Rebucket(x, r) ELSE x
           p == Pair(k, v)
<1>1. LookupField(x, k) = NoValue
  BY AbsentLookup
<1>2. y = [z EXCEPT !.buckets = InsertInto(@, p), !.elementCount = @ + 1]
  BY <1>1 DEF Added
<1>3. r \in 0 .. 2 * MaxElements + 1
  BY RepresentedIs, BoundAssumption
<1>4. IsObject(z) /\ z.elementCount = x.elementCount /\ BucketsHold(z.buckets, z.bucketCount, D, E)
  <2>1. /\ IsObject(x) /\ x.bucketCount \in Nat /\ Carries(x.buckets, Live(x), D)
        /\ x.bucketCount # 0 => BucketsHold(x.buckets, x.bucketCount, D, E)
    BY RepresentedIs
  <2>2. CASE ShouldRebucket(x, r)
    <3>1. z = Rebucket(x, r)
      BY <2>2
    <3> HIDE DEF z, r
    <3>2. QED
      BY <1>3, <2>1, <3>1, Rebucketed
  <2>3. CASE ~ShouldRebucket(x, r)
    BY <2>1, <2>3 DEF ShouldRebucket
  <2>4. QED
    BY <2>2, <2>3
<1> HIDE DEF z
<1> DEFINE bs == z.buckets
           cs == InsertInto(bs, p)
<1>5. y = [buckets |-> cs, bucketCount |-> z.bucketCount, elementCount |-> r]
  <2> DEFINE w == [z EXCEPT !.buckets = cs]
  <2>1. z = [buckets |-> bs, bucketCount |-> z.bucketCount, elementCount |-> x.elementCount]
    BY <1>4 DEF IsObject
  <2>2. y = [w EXCEPT !.elementCount = r]
    BY <1>2, <1>4, <2>1
  <2> HIDE DEF cs, bs, r
  <2>3. w = [buckets |-> cs, bucketCount |-> z.bucketCount, elementCount |-> x.elementCount]
    BY <2>1
  <2> HIDE DEF w
  <2>4. QED
    BY <2>3, <2>2
<1>6. BucketsHold(cs, z.bucketCount, C, E)
  <2>1. BucketsHold(bs, z.bucketCount, D, E) /\ cs = InsertInto(bs, Pair(k, v))
    BY <1>4
  <2> HIDE DEF cs, bs
  <2>2. QED
    BY <2>1, InsertedInto
<1>7. Cardinality(Given(C)) <= r
  <2>1. D \in Partial /\ Cardinality(Given(D)) <= x.elementCount /\ x.elementCount \in Nat
    BY RepresentedIs
  <2>2. Given(C) = Given(D) \cup {k} /\ k \notin Given(D)
    BY <2>1, AbsentAssumption DEF Given, Partial
  <2>3. IsFiniteSet(Given(D)) /\ Cardinality(Given(D)) \in Nat
    BY GivenFinite
  <2>4. Cardinality(Given(C)) = Cardinality(Given(D)) + 1
    BY <2>2, <2>3, FS_AddElement
  <2>5. QED
    BY <2>1, <2>3, <2>4
<1>8. r \in Nat
  BY <1>3, BoundAssumption
<1> HIDE DEF cs, r
<1>9. /\ y.buckets = cs /\ y.bucketCount = z.bucketCount /\ y.elementCount = r /\ IsObject(y)
  BY <1>5 DEF IsObject
<1>10. QED
  BY <1>6, <1>7, <1>8, <1>9 DEF Represented, r

\* A field of which the object has the name is not added.
LEMMA NotAdded ==
  ASSUME NEW x, NEW D, NEW E, Represented(x, D, E), Searched(x), NEW k \in Keys, k \notin E, D[k] # NoValue, NEW v
  PROVE  Added(x, k, v) = x
<1>1. LookupField(x, k) = D[k]
  BY FieldLookup
<1>2. QED
  BY <1>1 DEF Added

\* The object x after each of N fields of y was added to it.
AddedFields(x, y, N) ==
  CHOOSE with : with = [i \in 0 .. N |-> IF i = 0 THEN x ELSE Added(with[i - 1], Field(y, i).key, Field(y, i).value)]

\* Adding the fields of y to x one by one is a function.
LEMMA Adding ==
  ASSUME NEW x, NEW y, NEW N \in Nat, NEW m,
         m = AddedFields(x, y, N)
  PROVE  /\ m[0] = x
         /\ \A i \in 1 .. N : m[i] = Added(m[i - 1], Field(y, i).key, Field(y, i).value)
<1> DEFINE Folds(f, j) == f = [i \in 0 .. j |-> IF i = 0 THEN x ELSE Added(f[i - 1], Field(y, i).key, Field(y, i).value)]
           T == {j \in 0 .. N : \E f : Folds(f, j)}
<1>1. 0 \in T
  <2> DEFINE f == [i \in 0 .. 0 |-> x]
  <2>1. Folds(f, 0)
    OBVIOUS
  <2> HIDE DEF f
  <2>2. \E g : Folds(g, 0)
    BY <2>1
  <2>3. 0 \in 0 .. N
    OBVIOUS
  <2> HIDE DEF Folds
  <2>4. QED
    BY <2>2, <2>3
<1>2. ASSUME NEW j \in 1 .. N, j - 1 \in T  PROVE j \in T
  <2>1. PICK f : Folds(f, j - 1)
    BY <1>2
  <2> DEFINE h == [i \in 0 .. j |-> IF i = j THEN Added(f[j - 1], Field(y, j).key, Field(y, j).value) ELSE f[i]]
  <2>2. \A i \in 0 .. j - 1 : f[i] = IF i = 0 THEN x ELSE Added(f[i - 1], Field(y, i).key, Field(y, i).value)
    BY <2>1
  <2>3. \A i \in 0 .. j : h[i] = IF i = 0 THEN x ELSE Added(h[i - 1], Field(y, i).key, Field(y, i).value)
    <3> TAKE i \in 0 .. j
    <3>1. CASE i = j
      <4>1. j - 1 \in 0 .. j /\ j - 1 # j /\ j # 0 /\ j \in 0 .. j
        OBVIOUS
      <4>2. h[j - 1] = f[j - 1] /\ h[j] = Added(f[j - 1], Field(y, j).key, Field(y, j).value)
        BY <4>1
      <4>3. QED
        BY <3>1, <4>1, <4>2
    <3>2. CASE i # j
      <4>1. i \in 0 .. j - 1
        BY <3>2
      <4>2. h[i] = f[i]
        BY <3>2
      <4>3. i # 0 => i - 1 \in 0 .. j /\ i - 1 # j
        BY <4>1
      <4>4. i # 0 => h[i - 1] = f[i - 1]
        BY <4>3
      <4> HIDE DEF h
      <4>5. QED
        BY <2>2, <4>1, <4>2, <4>4
    <3>3. QED
      BY <3>1, <3>2
  <2>4. h = [i \in 0 .. j |-> h[i]]
    OBVIOUS
  <2> HIDE DEF h
  <2>5. Folds(h, j)
    BY <2>3, <2>4
  <2>6. j \in 0 .. N
    OBVIOUS
  <2>7. QED
    BY <2>5, <2>6
<1>3. N \in 0 .. N
  OBVIOUS
<1>4. \A i \in 1 .. N : i - 1 \in T => i \in T
  BY <1>2
<1> HIDE DEF T
<1>5. N \in T
  BY <1>1, <1>3, <1>4, UpTo
<1>6. \E f : Folds(f, N)
  BY <1>5 DEF T
<1>7. Folds(m, N)
  BY <1>6 DEF AddedFields
<1>8. \A i \in 0 .. N : m[i] = IF i = 0 THEN x ELSE Added(m[i - 1], Field(y, i).key, Field(y, i).value)
  BY <1>7
<1>9. 0 \in 0 .. N /\ \A i \in 1 .. N : i \in 0 .. N /\ i # 0
  OBVIOUS
<1>10. QED
  BY <1>8, <1>9

LEMMA WithAllIs ==
  ASSUME NEW x, NEW y
  PROVE  LET N == Cardinality(Live(y)) IN WithAll(x, y) = AddedFields(x, y, N)[N]
  BY DEF WithAll, AddedFields

\* An object without fields has those of another when all of them were added to it.
LEMMA AllAdded ==
  ASSUME NEW x, Represented(x, Nil, {}), x.elementCount <= MaxElements,
         NEW y, NEW D, Carries(y.buckets, Live(y), D), Cardinality(Live(y)) <= MaxElements,
         NEW z, z = WithAll(x, y)
  PROVE  Represented(z, D, {}) /\ z.elementCount = x.elementCount + Cardinality(Live(y))
<1> DEFINE N == Cardinality(Live(y))
           m == AddedFields(x, y, N)
<1>1. N \in Nat /\ x.elementCount \in Nat
  BY FieldsAre, RepresentedIs
<1>2. z = m[N]
  BY WithAllIs
<1> HIDE DEF N
<1>3. m[0] = x /\ \A i \in 1 .. N : m[i] = Added(m[i - 1], Field(y, i).key, Field(y, i).value)
  BY <1>1, Adding
<1> HIDE DEF m
<1> DEFINE T == {i \in 0 .. N : Represented(m[i], FirstOf(D, y, i), {}) /\ m[i].elementCount = x.elementCount + i}
<1>4. 0 \in T
  <2>1. 0 \in 0 .. N /\ x.elementCount = x.elementCount + 0
    BY <1>1
  <2>2. QED
    BY <1>3, <2>1, FirstNone
<1>5. ASSUME NEW i \in 1 .. N, i - 1 \in T  PROVE i \in T
  <2> DEFINE C == FirstOf(D, y, i - 1)
             F == FirstOf(D, y, i)
             v == m[i - 1]
             w == m[i]
  <2>1. PICK k \in Keys : \E u \in Values :
          /\ Field(y, i).key = k /\ Field(y, i).value = u
          /\ C[k] = NoValue /\ F = [C EXCEPT ![k] = u]
    BY FirstMore DEF N
  <2>2. PICK u \in Values : /\ Field(y, i).key = k /\ Field(y, i).value = u
                            /\ C[k] = NoValue /\ F = [C EXCEPT ![k] = u]
    BY <2>1
  <2>3. w = Added(v, k, u)
    BY <1>3, <2>2
  <2>4. Represented(v, C, {}) /\ v.elementCount = x.elementCount + (i - 1)
    BY <1>5
  <2> HIDE DEF C, F, v, w
  <2> DEFINE c == v.elementCount
  <2>5. c \in 0 .. 2 * MaxElements
    BY <1>1, <2>4, BoundAssumption DEF N
  <2>6. k \notin {}
    OBVIOUS
  <2>7. Represented(w, F, {}) /\ w.elementCount = v.elementCount + 1
    <3>1. Represented(v, C, {}) /\ v.elementCount = c
      BY <2>4
    <3>2. C[k] = NoValue
      BY <2>2
    <3>3. F = [C EXCEPT ![k] = u]
      BY <2>2
    <3>4. k \in Keys /\ u \in Values
      BY <2>1, <2>2
    <3> HIDE DEF T, c
    <3>5. Represented(w, F, {})
      BY <2>3, <2>5, <2>6, <3>1, <3>2, <3>3, <3>4, AddedTo
    <3>6. w.elementCount = c + 1
      BY <2>3, <2>5, <2>6, <3>1, <3>2, <3>3, <3>4, AddedTo
    <3>7. QED
      BY <3>5, <3>6 DEF c
  <2>8. i \in 0 .. N /\ v.elementCount + 1 = x.elementCount + i
    BY <1>1, <2>4
  <2>9. QED
    BY <2>7, <2>8 DEF w, F
<1>6. \A i \in 1 .. N : i - 1 \in T => i \in T
  BY <1>5
<1> HIDE DEF T
<1>7. \A i \in 0 .. N : i \in T
  BY <1>1, <1>4, <1>6, UpTo
<1>8. N \in T
  BY <1>1, <1>7
<1>9. FirstOf(D, y, N) = D
  BY FirstAll DEF N
<1>10. QED
  BY <1>2, <1>8, <1>9 DEF T, N

\* A copy has the fields of what it was copied from.
LEMMA CopiedFields ==
  ASSUME NEW y, NEW D, NEW E, Represented(y, D, E), y.elementCount <= MaxElements, NEW z, z = CopiedObject(y)
  PROVE  Represented(z, D, {}) /\ z.elementCount <= MaxElements /\ z.elementCount = Cardinality(Given(D))
<1>1. /\ Carries(y.buckets, Live(y), D) /\ y.elementCount \in Nat /\ D \in Partial
      /\ Cardinality(Given(D)) <= y.elementCount
  BY RepresentedIs
<1>2. Cardinality(Live(y)) \in Nat /\ Cardinality(Live(y)) = Cardinality(Given(D))
  BY <1>1, FieldsAre
<1>3. CASE y.elementCount = 0
  <2>1. Cardinality(Given(D)) = 0
    BY <1>1, <1>2, <1>3
  <2>2. D = Nil
    BY <1>1, <2>1, NoneGiven
  <2>3. z = Empty
    BY <1>3 DEF CopiedObject
  <2>4. QED
    BY <2>1, <2>2, <2>3, EmptyIs, NoneLive, BoundAssumption
<1>4. CASE y.elementCount # 0
  <2> DEFINE x == Rebucket(Empty, y.elementCount)
             r == y.elementCount
  <2>1. IsObject(Empty) /\ Empty.bucketCount = 0 /\ Empty.elementCount = 0 /\ Carries(Empty.buckets, Live(Empty), Nil)
    BY EmptyIs, RepresentedIs, NoneLive
  <2>2. r \in 0 .. 2 * MaxElements + 1 /\ Empty.bucketCount \in Nat
    BY <1>1, <2>1, BoundAssumption
  <2>3. Empty.bucketCount # 0 => BucketsHold(Empty.buckets, Empty.bucketCount, Nil, {})
    BY <2>1
  <2>4. x = Rebucket(Empty, r)
    OBVIOUS
  <2> HIDE DEF x, r
  <2>5. IsObject(x) /\ x.elementCount = Empty.elementCount /\ BucketsHold(x.buckets, x.bucketCount, Nil, {})
    BY <2>1, <2>2, <2>3, <2>4, Rebucketed
  <2>6. Represented(x, Nil, {}) /\ x.elementCount <= MaxElements
    <3>1. Cardinality(Given(Nil)) = 0
      BY NilIs, FS_EmptySet
    <3>2. QED
      BY <2>1, <2>5, <3>1, BoundAssumption DEF Represented
  <2>7. Cardinality(Live(y)) <= MaxElements
    BY <1>1, <1>2, BoundAssumption
  <2>8. z = WithAll(x, y)
    BY <1>4 DEF CopiedObject, x
  <2>9. Represented(z, D, {}) /\ z.elementCount = x.elementCount + Cardinality(Live(y))
    BY <1>1, <2>6, <2>7, <2>8, AllAdded
  <2>10. QED
    BY <1>2, <2>1, <2>5, <2>7, <2>9
<1>5. QED
  BY <1>3, <1>4

\* An object that another is assigned to has the fields of the other.
LEMMA AssignedFields ==
  ASSUME NEW x, NEW C, NEW F, Represented(x, C, F), x.elementCount <= MaxElements,
         NEW y, NEW D, NEW E, Represented(y, D, E), y.elementCount <= MaxElements, NEW z, z = Assigned(x, y)
  PROVE  /\ Represented(z, D, {})
         /\ y.elementCount = 0 => D = Nil /\ z.elementCount = 0
         /\ y.elementCount # 0 => z.elementCount = x.elementCount + Cardinality(Given(D))
<1>1. /\ Carries(y.buckets, Live(y), D) /\ y.elementCount \in Nat /\ D \in Partial
      /\ Cardinality(Given(D)) <= y.elementCount
  BY RepresentedIs
<1>2. Cardinality(Live(y)) \in Nat /\ Cardinality(Live(y)) = Cardinality(Given(D))
  BY <1>1, FieldsAre
<1>3. CASE y.elementCount = 0
  <2>1. Cardinality(Given(D)) = 0
    BY <1>1, <1>2, <1>3
  <2>2. D = Nil
    BY <1>1, <2>1, NoneGiven
  <2>3. z = Empty
    BY <1>3 DEF Assigned
  <2>4. QED
    BY <1>3, <2>2, <2>3, EmptyIs, NoneLive
<1>4. CASE y.elementCount # 0
  <2> DEFINE e == EmptiedBuckets(x)
             bs == [b \in DOMAIN x.buckets |-> FreedBucket]
             r == y.elementCount
             w == IF ShouldRebucket(e, r) THEN Rebucket(e, r) ELSE e
  <2>1. IsObject(x) /\ x.bucketCount \in Nat /\ x.elementCount \in Nat
    BY RepresentedIs
  <2>2. e = [buckets |-> bs, bucketCount |-> x.bucketCount, elementCount |-> x.elementCount]
    BY <2>1 DEF EmptiedBuckets, IsObject
  <2>3. x.bucketCount # 0 => BucketsHold(bs, x.bucketCount, Nil, {})
    <3> DEFINE n == x.bucketCount
    <3>1. SUFFICES ASSUME n # 0  PROVE BucketsHold(bs, n, Nil, {})
      OBVIOUS
    <3>2. BucketsHold(x.buckets, n, C, F)
      BY <3>1, RepresentedIs
    <3>3. n \in Nat \ {0} /\ DOMAIN x.buckets = 0 .. n - 1
      BY <3>2 DEF BucketsHold
    <3>4. bs = [b \in 0 .. n - 1 |-> [slots |-> Slots(0), length |-> 0]] /\ 0 \in Nat
      BY <3>3 DEF FreedBucket
    <3> HIDE DEF bs, n
    <3>5. QED
      BY <3>3, <3>4, NothingInBuckets
  <2>4. Live(e) = {}
    <3>1. \A b \in DOMAIN e.buckets : 0 .. e.buckets[b].length - 1 = {}
      BY <2>2 DEF FreedBucket
    <3>2. QED
      BY <3>1 DEF Live
  <2> HIDE DEF bs, e
  <2>5. IsObject(e) /\ e.buckets = bs /\ e.bucketCount = x.bucketCount /\ e.elementCount = x.elementCount
    BY <2>2 DEF IsObject
  <2>6. Carries(e.buckets, Live(e), Nil)
    BY <2>4, NilIs DEF Carries
  <2>7. IsObject(w) /\ w.elementCount = x.elementCount /\ BucketsHold(w.buckets, w.bucketCount, Nil, {})
    <3>1. CASE ShouldRebucket(e, r)
      <4>1. r \in 0 .. 2 * MaxElements + 1 /\ e.bucketCount \in Nat
        BY <1>1, <2>1, <2>5, BoundAssumption
      <4>2. w = Rebucket(e, r)
        BY <3>1
      <4>3. e.bucketCount # 0 => BucketsHold(e.buckets, e.bucketCount, Nil, {})
        BY <2>3, <2>5
      <4> HIDE DEF w, r
      <4>4. IsObject(w) /\ w.elementCount = e.elementCount /\ BucketsHold(w.buckets, w.bucketCount, Nil, {})
        BY <2>5, <2>6, <4>1, <4>2, <4>3, Rebucketed
      <4>5. QED
        BY <2>5, <4>4
    <3>2. CASE ~ShouldRebucket(e, r)
      BY <2>3, <2>5, <3>2 DEF ShouldRebucket
    <3>3. QED
      BY <3>1, <3>2
  <2>8. z = WithAll(w, y)
    BY <1>4 DEF Assigned, e
  <2> HIDE DEF w
  <2>9. Represented(w, Nil, {}) /\ w.elementCount <= MaxElements
    <3>1. Cardinality(Given(Nil)) = 0
      BY NilIs, FS_EmptySet
    <3>2. QED
      BY <2>1, <2>7, <3>1 DEF Represented
  <2>10. Cardinality(Live(y)) <= MaxElements
    BY <1>1, <1>2, BoundAssumption
  <2>11. Represented(z, D, {}) /\ z.elementCount = w.elementCount + Cardinality(Live(y))
    BY <1>1, <2>8, <2>9, <2>10, AllAdded
  <2>12. QED
    BY <1>2, <1>4, <2>7, <2>11
<1>5. QED
  BY <1>3, <1>4

-----------------------------------------------------------------------------
(* Steps of objects *)

\* An object that stands for D, lost l fields, and of which a search reads each bucket to its end.
Sound(x, D, E, l) ==
  /\ Represented(x, D, E) /\ Searched(x) /\ x.elementCount <= MaxElements
  /\ l \in Nat /\ x.elementCount = Cardinality(Given(D)) + l

\* The objects xs, behind whose ends the names es may be and which lost ls fields, stand for the
\* dictionaries C.
ObjectsStand(xs, es, ls, C) ==
  /\ xs = [o \in Objects |-> xs[o]]
  /\ es = [o \in Objects |-> es[o]]
  /\ ls = [o \in Objects |-> ls[o]]
  /\ C \in [Objects -> Partial]
  /\ \A o \in Objects : Sound(xs[o], C[o], es[o], ls[o])

FieldContents == [o \in Objects |-> ContentsOf(objects[o].buckets, Live(objects[o]))]

LEMMA SoundContents ==
  ASSUME NEW x, NEW D, NEW E, NEW l, Sound(x, D, E, l)  PROVE ContentsOf(x.buckets, Live(x)) = D
<1>1. Carries(x.buckets, Live(x), D)
  BY RepresentedIs DEF Sound
<1>2. QED
  BY <1>1, CarriesContents

LEMMA FieldContentsAre ==
  ASSUME NEW C, ObjectsStand(objects, erased, lost, C)  PROVE FieldContents = C
<1>1. \A o \in Objects : ContentsOf(objects[o].buckets, Live(objects[o])) = C[o]
  BY SoundContents DEF ObjectsStand
<1>2. C = [o \in Objects |-> C[o]]
  BY DEF ObjectsStand
<1>3. FieldContents = [o \in Objects |-> C[o]]
  BY <1>1 DEF FieldContents
<1>4. QED
  BY <1>2, <1>3

LEMMA EmptySound == ASSUME NEW E  PROVE Sound(Empty, Nil, E, 0)
<1>1. Searched(Empty) /\ Empty.elementCount <= MaxElements
  BY NoneLive, BoundAssumption DEF Searched
<1>1a. Empty.elementCount = Cardinality(Given(Nil)) + 0
  BY NoneLive, NilIs, FS_EmptySet
<1>2. QED
  BY <1>1, <1>1a, EmptyIs DEF Sound

LEMMA ObjectPut ==
  ASSUME NEW xs, NEW es, NEW ls, NEW C, ObjectsStand(xs, es, ls, C),
         NEW o \in Objects, NEW x, NEW D, NEW E, NEW l, Sound(x, D, E, l),
         NEW ys, ys = [xs EXCEPT ![o] = x], NEW fs, fs = [es EXCEPT ![o] = E],
         NEW ms, ms = [ls EXCEPT ![o] = l], NEW B, B = [C EXCEPT ![o] = D]
  PROVE  ObjectsStand(ys, fs, ms, B)
<1>1. D \in Partial
  BY RepresentedIs DEF Sound
<1>2. ys = [p \in Objects |-> ys[p]] /\ \A p \in Objects : ys[p] = IF p = o THEN x ELSE xs[p]
  BY DEF ObjectsStand
<1>3. fs = [p \in Objects |-> fs[p]] /\ \A p \in Objects : fs[p] = IF p = o THEN E ELSE es[p]
  BY DEF ObjectsStand
<1>3a. ms = [p \in Objects |-> ms[p]] /\ \A p \in Objects : ms[p] = IF p = o THEN l ELSE ls[p]
  BY DEF ObjectsStand
<1>4. B \in [Objects -> Partial] /\ \A p \in Objects : B[p] = IF p = o THEN D ELSE C[p]
  BY <1>1 DEF ObjectsStand
<1>5. \A p \in Objects : Sound(ys[p], B[p], fs[p], ms[p])
  <2> TAKE p \in Objects
  <2>1. CASE p = o
    BY <1>2, <1>3, <1>3a, <1>4, <2>1
  <2>2. CASE p # o
    BY <1>2, <1>3, <1>3a, <1>4, <2>2 DEF ObjectsStand
  <2>3. QED
    BY <2>1, <2>2
<1>6. QED
  BY <1>2, <1>3, <1>3a, <1>4, <1>5 DEF ObjectsStand

\* What the last call did to the dictionaries C.
DidFields(C, e) == ObjectsStand(objects', erased', lost', e) /\ FieldDict!Step(C, e, told')

\* A call that makes o the object x.
LEMMA BecomesStep ==
  ASSUME NEW C, ObjectsStand(objects, erased, lost, C), NEW o \in Objects, NEW x, NEW D, NEW l,
         Sound(x, D, {}, l), Becomes(o, x, l)
  PROVE  ObjectsStand(objects', erased', lost', [C EXCEPT ![o] = D]) /\ told' = NoValue
<1> DEFINE xs == objects
           es == erased
           ls == lost
           ys == objects'
           fs == erased'
           ms == lost'
           B == [C EXCEPT ![o] = D]
           E == {}
<1>1. told' = NoValue /\ ys = [xs EXCEPT ![o] = x] /\ fs = [es EXCEPT ![o] = E] /\ ms = [ls EXCEPT ![o] = l]
  BY DEF Becomes
<1>2. ObjectsStand(xs, es, ls, C) /\ B = [C EXCEPT ![o] = D] /\ Sound(x, D, E, l)
  OBVIOUS
<1> HIDE DEF xs, es, ls, ys, fs, ms, B, E
<1>3. ObjectsStand(ys, fs, ms, B)
  BY <1>1, <1>2, ObjectPut
<1>4. QED
  BY <1>1, <1>3 DEF ys, fs, ms, B

LEMMA ClearFields ==
  ASSUME NEW C, ObjectsStand(objects, erased, lost, C), NEW o \in Objects, ConstructObject(o) \/ DestroyObject(o)
  PROVE  \E e : DidFields(C, e)
<1> DEFINE e == [C EXCEPT ![o] = Nil]
<1>1. Becomes(o, Empty, 0)
  BY DEF ConstructObject, DestroyObject
<1>2. ObjectsStand(objects', erased', lost', e) /\ told' = NoValue
  BY <1>1, EmptySound, BecomesStep
<1>3. FieldDict!Clear(C, e, told', o)
  BY <1>2 DEF FieldDict!Clear, FieldDict!Nothing, Nil
<1>4. FieldDict!Step(C, e, told')
  BY <1>3 DEF FieldDict!Step
<1> HIDE DEF e
<1>5. QED
  BY <1>2, <1>4 DEF DidFields

LEMMA CopyFields ==
  ASSUME NEW C, ObjectsStand(objects, erased, lost, C), "overfull" \notin Lax, NEW o \in Objects, NEW p \in Objects,
         CopyConstructObject(o, p) \/ CopyAssignObject(o, p)
  PROVE  \E e : DidFields(C, e)
<1> DEFINE x == objects[o]
           y == objects[p]
           z == IF CopyConstructObject(o, p) THEN CopiedObject(y) ELSE Assigned(x, y)
           l == IF CopyConstructObject(o, p) \/ y.elementCount = 0 THEN 0 ELSE lost[o] + Cardinality(Live(x))
           D == C[p]
           e == [C EXCEPT ![o] = D]
<1>1. Sound(x, C[o], erased[o], lost[o]) /\ Sound(y, D, erased[p], lost[p])
  BY DEF ObjectsStand
<1>2. Becomes(o, z, l) /\ AllSearched(objects'[o])
  BY DEF CopyConstructObject, CopyAssignObject
<1>3. objects'[o] = z
  BY <1>2 DEF Becomes, ObjectsStand
<1>4. Searched(z)
  BY <1>2, <1>3 DEF AllSearched, Searched
<1>5. /\ Represented(z, D, {}) /\ z.elementCount <= MaxElements
      /\ l \in Nat /\ z.elementCount = Cardinality(Given(D)) + l
  <2>1. CASE CopyConstructObject(o, p)
    <3>1. z = CopiedObject(y)
      BY <2>1
    <3>2. Represented(y, D, erased[p]) /\ y.elementCount <= MaxElements
      BY <1>1 DEF Sound
    <3>3. l = 0
      BY <2>1
    <3> HIDE DEF z, y, l, D
    <3>4. Represented(z, D, {}) /\ z.elementCount <= MaxElements /\ z.elementCount = Cardinality(Given(D))
      BY <3>1, <3>2, CopiedFields
    <3>5. QED
      BY <3>3, <3>4, GivenFinite
  <2>2. CASE ~CopyConstructObject(o, p)
    <3>1. z = Assigned(x, y) /\ CopyAssignObject(o, p)
      BY <2>2
    <3>2. z.elementCount <= MaxElements
      BY <1>3, <3>1 DEF CopyAssignObject, Bounded
    <3>3. Represented(y, D, erased[p]) /\ y.elementCount <= MaxElements
      BY <1>1 DEF Sound
    <3>4. /\ Represented(x, C[o], erased[o]) /\ x.elementCount <= MaxElements
          /\ lost[o] \in Nat /\ x.elementCount = Cardinality(Given(C[o])) + lost[o]
      BY <1>1 DEF Sound
    <3>5. l = IF y.elementCount = 0 THEN 0 ELSE lost[o] + Cardinality(Live(x))
      BY <2>2
    <3> DEFINE B == C[o]
               q == lost[o]
    <3> HIDE DEF z, x, y, l, q, D, B
    <3>6. /\ Represented(z, D, {})
          /\ y.elementCount = 0 => D = Nil /\ z.elementCount = 0
          /\ y.elementCount # 0 => z.elementCount = x.elementCount + Cardinality(Given(D))
      BY <3>1, <3>3, <3>4, AssignedFields
    <3>7. Cardinality(Live(x)) \in Nat /\ Cardinality(Live(x)) = Cardinality(Given(B))
      <4>1. Carries(x.buckets, Live(x), B)
        BY <3>4, RepresentedIs DEF B
      <4>2. QED
        BY <4>1, FieldsAre
    <3>8. Cardinality(Given(Nil)) = 0 /\ Cardinality(Given(D)) \in Nat
      BY NilIs, FS_EmptySet, GivenFinite
    <3>9. q \in Nat /\ x.elementCount = Cardinality(Given(B)) + q
          /\ l = IF y.elementCount = 0 THEN 0 ELSE q + Cardinality(Live(x))
      BY <3>4, <3>5 DEF q, B
    <3>10. l \in Nat /\ z.elementCount = Cardinality(Given(D)) + l
      BY <3>6, <3>7, <3>8, <3>9
    <3>11. QED
      BY <3>2, <3>6, <3>10
  <2>3. QED
    BY <2>1, <2>2
<1>6. Sound(z, D, {}, l)
  BY <1>4, <1>5 DEF Sound
<1> HIDE DEF z, l
<1>7. ObjectsStand(objects', erased', lost', e) /\ told' = NoValue
  <2> HIDE DEF D
  <2>1. QED
    BY <1>2, <1>6, BecomesStep
<1>8. FieldDict!Copy(C, e, told', o, p)
  BY <1>7 DEF FieldDict!Copy
<1>9. FieldDict!Step(C, e, told')
  BY <1>8 DEF FieldDict!Step
<1> HIDE DEF e
<1>10. QED
  BY <1>7, <1>9 DEF DidFields

LEMMA MoveFields ==
  ASSUME NEW C, ObjectsStand(objects, erased, lost, C), NEW o \in Objects, NEW p \in Objects,
         MoveConstructObject(o, p) \/ MoveAssignObject(o, p)
  PROVE  \E e : DidFields(C, e)
<1> DEFINE x == objects[p]
           D == C[p]
           E == erased[p]
           l == lost[p]
           F == {}
           xs == [objects EXCEPT ![o] = x]
           es == [erased EXCEPT ![o] = E]
           ls == [lost EXCEPT ![o] = l]
           B == [C EXCEPT ![o] = D]
           e == [B EXCEPT ![p] = Nil]
           ys == objects'
           fs == erased'
           ms == lost'
<1>1. TakeBuckets(o, p)
  BY DEF MoveConstructObject, MoveAssignObject
<1>2. Sound(x, D, E, l) /\ Sound(Empty, Nil, F, 0)
  BY EmptySound DEF ObjectsStand
<1>3. ys = [xs EXCEPT ![p] = Empty] /\ fs = [es EXCEPT ![p] = F] /\ ms = [ls EXCEPT ![p] = 0] /\ told' = NoValue
  BY <1>1 DEF TakeBuckets
<1>4. e = [C EXCEPT ![o] = C[p], ![p] = Nil]
  OBVIOUS
<1>5. e = [B EXCEPT ![p] = Nil] /\ B = [C EXCEPT ![o] = D]
  OBVIOUS
<1>6. FieldDict!Move(C, e, told', o, p)
  <2> HIDE DEF e
  <2>1. QED
    BY <1>3, <1>4 DEF FieldDict!Move, FieldDict!Nothing, Nil
<1>7. xs = [objects EXCEPT ![o] = x] /\ es = [erased EXCEPT ![o] = E] /\ ls = [lost EXCEPT ![o] = l]
  OBVIOUS
<1> HIDE DEF x, D, E, l, F, xs, es, ls, B, e, ys, fs, ms
<1>8. ObjectsStand(xs, es, ls, B)
  BY <1>2, <1>5, <1>7, ObjectPut
<1>9. ObjectsStand(ys, fs, ms, e)
  BY <1>2, <1>3, <1>5, <1>8, ObjectPut
<1>10. FieldDict!Step(C, e, told')
  BY <1>6 DEF FieldDict!Step
<1>11. QED
  BY <1>9, <1>10 DEF DidFields, ys, fs, ms

LEMMA FindFields ==
  ASSUME NEW C, ObjectsStand(objects, erased, lost, C), "erasedName" \notin Lax, NEW o \in Objects, NEW k \in Keys, FindField(o, k)
  PROVE  \E e : DidFields(C, e)
<1>1. k \notin erased[o] /\ told' = LookupField(objects[o], k) /\ objects' = objects /\ erased' = erased /\ lost' = lost
  BY DEF FindField, MayAsk
<1>2. Represented(objects[o], C[o], erased[o]) /\ Searched(objects[o])
  BY DEF ObjectsStand, Sound
<1>3. told' = C[o][k]
  BY <1>1, <1>2, FieldLookup
<1>4. FieldDict!Find(C, C, told', o, k)
  BY <1>3 DEF FieldDict!Find
<1>5. FieldDict!Step(C, C, told')
  BY <1>4 DEF FieldDict!Step
<1>6. QED
  BY <1>1, <1>5 DEF DidFields

LEMMA AddFields ==
  ASSUME NEW C, ObjectsStand(objects, erased, lost, C), "erasedName" \notin Lax, "overfull" \notin Lax,
         NEW o \in Objects, NEW k \in Keys, NEW v \in Values, AddField(o, k, v)
  PROVE  \E e : DidFields(C, e)
<1> DEFINE x == objects[o]
           y == Added(x, k, v)
           D == C[o]
           E == erased[o]
           l == lost[o]
           G == [D EXCEPT ![k] = v]
           F == IF D[k] = NoValue THEN G ELSE D
           e == [C EXCEPT ![o] = F]
           c == x.elementCount
<1>1. /\ k \notin E /\ told' = LookupField(x, k)
      /\ objects' = [objects EXCEPT ![o] = y] /\ erased' = erased /\ lost' = lost
      /\ AllSearched(objects'[o]) /\ objects'[o].elementCount <= MaxElements
  BY DEF AddField, MayAsk, Bounded
<1>2. /\ Represented(x, D, E) /\ Searched(x) /\ x.elementCount <= MaxElements
      /\ l \in Nat /\ c = Cardinality(Given(D)) + l
  BY DEF ObjectsStand, Sound
<1>3. objects'[o] = y
  BY <1>1 DEF ObjectsStand
<1>4. Searched(y) /\ y.elementCount <= MaxElements
  BY <1>1, <1>3 DEF AllSearched, Searched
<1>5. told' = D[k]
  <2> HIDE DEF D, E, x
  <2>1. QED
    BY <1>1, <1>2, FieldLookup
<1>6. Represented(y, F, E) /\ y.elementCount = Cardinality(Given(F)) + l
  <2>1. CASE D[k] = NoValue
    <3>1. c \in 0 .. 2 * MaxElements
      BY <1>2, RepresentedIs, BoundAssumption
    <3>2. x.elementCount = c /\ y = Added(x, k, v) /\ G = [D EXCEPT ![k] = v]
      OBVIOUS
    <3>3. F = G
      BY <2>1
    <3>4. Cardinality(Given(G)) = Cardinality(Given(D)) + 1 /\ Cardinality(Given(D)) \in Nat
      <4>1. D \in Partial
        BY <1>2, RepresentedIs
      <4>2. G = [D EXCEPT ![k] = v]
        OBVIOUS
      <4> HIDE DEF D, G
      <4>3. Given(G) = Given(D) \cup {k} /\ k \notin Given(D)
        BY <2>1, <4>1, <4>2, AbsentAssumption DEF Given, Partial
      <4>4. IsFiniteSet(Given(D))
        BY GivenFinite
      <4>5. Cardinality(Given(D)) \in Nat
        BY <4>4, FS_CardinalityType
      <4>6. Cardinality(Given(D) \cup {k}) = Cardinality(Given(D)) + 1
        BY <4>3, <4>4, FS_AddElement
      <4>7. QED
        BY <4>3, <4>5, <4>6
    <3> HIDE DEF x, y, D, E, G, c, F, l
    <3>5. Represented(y, G, E)
      BY <1>1, <1>2, <2>1, <3>1, <3>2, AddedTo
    <3>6. y.elementCount = c + 1
      BY <1>1, <1>2, <2>1, <3>1, <3>2, AddedTo
    <3>7. QED
      BY <1>2, <3>3, <3>4, <3>5, <3>6
  <2>2. CASE D[k] # NoValue
    <3>1. F = D
      BY <2>2
    <3> HIDE DEF x, D, E, F
    <3>2. Added(x, k, v) = x
      BY <1>1, <1>2, <2>2, NotAdded
    <3>3. QED
      BY <1>2, <3>1, <3>2 DEF c
  <2>3. QED
    BY <2>1, <2>2
<1>7. Sound(y, F, E, l)
  BY <1>2, <1>4, <1>6 DEF Sound
<1>8. e = IF C[o][k] = NoValue THEN [C EXCEPT ![o][k] = v] ELSE C
  BY DEF ObjectsStand
<1>9. FieldDict!Insert(C, e, told', o, k, v)
  <2> HIDE DEF e
  <2>1. QED
    BY <1>5, <1>8 DEF FieldDict!Insert
<1>10. e = [C EXCEPT ![o] = F] /\ erased = [erased EXCEPT ![o] = E] /\ lost = [lost EXCEPT ![o] = l]
  BY DEF ObjectsStand
<1>11. ObjectsStand(objects', erased', lost', e)
  <2> DEFINE xs == objects
             es == erased
             ls == lost
             ys == objects'
             fs == erased'
             ms == lost'
  <2>1. ys = [xs EXCEPT ![o] = y] /\ fs = [es EXCEPT ![o] = E] /\ ms = [ls EXCEPT ![o] = l] /\ ObjectsStand(xs, es, ls, C)
    BY <1>1, <1>10
  <2> HIDE DEF xs, es, ls, ys, fs, ms, y, E, l, F, e
  <2>2. ObjectsStand(ys, fs, ms, e)
    BY <1>7, <1>10, <2>1, ObjectPut
  <2>3. QED
    BY <2>2 DEF ys, fs, ms
<1> HIDE DEF e
<1>12. FieldDict!Step(C, e, told')
  BY <1>9 DEF FieldDict!Step
<1>13. QED
  BY <1>11, <1>12 DEF DidFields

LEMMA EraseFields ==
  ASSUME NEW C, ObjectsStand(objects, erased, lost, C), "erasedName" \notin Lax,
         NEW o \in Objects, NEW k \in Keys, EraseField(o, k)
  PROVE  \E e : DidFields(C, e)
<1> DEFINE x == objects[o]
           D == C[o]
           E == erased[o]
           F == E \cup {k}
           l == IF told' = NoValue THEN lost[o] ELSE lost[o] + 1
           n == x.bucketCount
           g == GroupOf(k, n)
           b == x.buckets[g]
           h == BucketErase(b, k)
           cs == [x.buckets EXCEPT ![g] = h]
           y == [x EXCEPT !.buckets = cs]
           G == [D EXCEPT ![k] = NoValue]
           e == [C EXCEPT ![o] = G]
<1>1. /\ k \notin E /\ n # 0 /\ told' = FieldValue(b, k)
      /\ objects' = [objects EXCEPT ![o].buckets[g] = BucketErase(@, k)] /\ erased' = [erased EXCEPT ![o] = F]
      /\ lost' = [lost EXCEPT ![o] = l]
  BY DEF EraseField, MayAsk
<1>2. /\ Represented(x, D, E) /\ Searched(x) /\ x.elementCount <= MaxElements
      /\ lost[o] \in Nat /\ x.elementCount = Cardinality(Given(D)) + lost[o]
  BY DEF ObjectsStand, Sound
<1>3. BucketsHold(x.buckets, n, D, E) /\ IsObject(x) /\ D \in Partial
  BY <1>1, <1>2, RepresentedIs
<1>4. objects' = [objects EXCEPT ![o] = y]
  BY <1>1
<1>5. /\ g \in DOMAIN x.buckets
      /\ BucketHolds(b, Part(D, n, g), E)
      /\ Part(D, n, g)[k] = D[k]
  <2> HIDE DEF b, D, E, x
  <2>1. QED
    BY <1>3, BucketOf DEF b
<1>6. b.length <= Block
  BY <1>2, <1>5 DEF Searched
<1>7. told' = D[k]
  <2> DEFINE f == Part(D, n, g)
  <2>1. BucketHolds(b, f, E) /\ f[k] = D[k]
    BY <1>5
  <2> HIDE DEF f, b, D, E
  <2>2. QED
    BY <1>1, <1>6, <2>1, BucketLookup
<1>8. BucketHolds(h, [Part(D, n, g) EXCEPT ![k] = NoValue], F) /\ h.length <= b.length
  <2> DEFINE f == Part(D, n, g)
             d == [f EXCEPT ![k] = NoValue]
  <2>1. BucketHolds(b, f, E)
    BY <1>5
  <2>2. d = [f EXCEPT ![k] = NoValue] /\ h = BucketErase(b, k) /\ F = E \cup {k}
    OBVIOUS
  <2> HIDE DEF f, b, D, E, d, h, F
  <2>3. BucketHolds(h, d, F)
    BY <1>1, <1>6, <2>1, <2>2, ErasedFromBucket
  <2>4. h.length <= b.length
    BY <1>1, <1>6, <2>1, <2>2, ErasedFromBucket
  <2>5. QED
    BY <2>3, <2>4 DEF d, f
<1>9. BucketsHold(cs, n, G, F)
  <2> DEFINE bs == x.buckets
  <2>1. BucketsHold(bs, n, D, E) /\ cs = [bs EXCEPT ![g] = h] /\ G = [D EXCEPT ![k] = NoValue]
    BY <1>3
  <2>2. NoValue \in Values \cup {NoValue} /\ E \subseteq F /\ g = GroupOf(k, n)
    OBVIOUS
  <2> HIDE DEF bs, cs, D, E, F, G, h, n, g
  <2>3. QED
    BY <1>8, <2>1, <2>2, BucketChange
<1>10. y = [buckets |-> cs, bucketCount |-> n, elementCount |-> x.elementCount]
  BY <1>3 DEF IsObject
<1>11. /\ Cardinality(Given(G)) \in Nat /\ Cardinality(Given(D)) \in Nat
       /\ Cardinality(Given(G)) = IF D[k] = NoValue THEN Cardinality(Given(D)) ELSE Cardinality(Given(D)) - 1
  <2>1. Given(G) = Given(D) \ {k} /\ (k \in Given(D) <=> D[k] # NoValue)
    BY <1>3 DEF Given, Partial
  <2>2. IsFiniteSet(Given(D)) /\ Cardinality(Given(D)) \in Nat /\ Cardinality(Given(G)) \in Nat
    BY GivenFinite
  <2> HIDE DEF G, D
  <2>3. CASE D[k] = NoValue
    <3>1. Given(G) = Given(D)
      BY <2>1, <2>3
    <3>2. QED
      BY <2>2, <2>3, <3>1
  <2>4. CASE D[k] # NoValue
    BY <2>1, <2>2, <2>4, FS_RemoveElement
  <2>5. QED
    BY <2>3, <2>4
<1>12. Represented(y, G, F)
  <2>1. /\ x.elementCount \in Nat /\ Cardinality(Given(D)) <= x.elementCount
        /\ Cardinality(Given(D)) \in Nat /\ Cardinality(Given(G)) \in Nat
    BY <1>2, RepresentedIs, GivenFinite
  <2> HIDE DEF cs, G, D, F, y, n
  <2>2. QED
    BY <1>9, <1>10, <1>11, <2>1 DEF Represented, IsObject
<1>13. Searched(y) /\ y.elementCount <= MaxElements
  <2>1. ASSUME NEW a \in DOMAIN cs  PROVE cs[a].length <= Block
    <3>1. a \in DOMAIN x.buckets /\ cs[a] = IF a = g THEN h ELSE x.buckets[a]
      OBVIOUS
    <3>2. h.length \in Int /\ b.length \in Int /\ Block \in Int
      BY <1>5, <1>8, BucketIs, BlockAssumption
    <3>3. h.length <= Block
      BY <1>6, <1>8, <3>2
    <3>4. x.buckets[a].length <= Block
      BY <1>2, <3>1 DEF Searched
    <3> HIDE DEF cs, h
    <3>5. QED
      BY <3>1, <3>3, <3>4
  <2> HIDE DEF cs, y
  <2>2. QED
    BY <1>2, <1>10, <2>1 DEF Searched
<1>13a. l \in Nat /\ y.elementCount = Cardinality(Given(G)) + l
  <2>1. y.elementCount = x.elementCount
    BY <1>10
  <2> DEFINE q == lost[o]
             c == Cardinality(Given(D))
             d == Cardinality(Given(G))
  <2>2. /\ q \in Nat /\ c \in Nat /\ d \in Nat /\ x.elementCount = c + q
        /\ l = IF D[k] = NoValue THEN q ELSE q + 1
        /\ d = IF D[k] = NoValue THEN c ELSE c - 1
    BY <1>2, <1>7, <1>11
  <2> HIDE DEF l, q, c, y, x, d, D, G
  <2>3. l \in Nat /\ y.elementCount = d + l
    BY <2>1, <2>2
  <2>4. QED
    BY <2>3 DEF d
<1>14. Sound(y, G, F, l)
  BY <1>12, <1>13, <1>13a DEF Sound
<1>15. e = [C EXCEPT ![o][k] = NoValue]
  OBVIOUS
<1>16. FieldDict!Erase(C, e, told', o, k)
  <2> HIDE DEF e
  <2>1. QED
    BY <1>7, <1>15 DEF FieldDict!Erase
<1>17. ObjectsStand(objects', erased', lost', e)
  <2> DEFINE xs == objects
             es == erased
             ls == lost
             ys == objects'
             fs == erased'
             ms == lost'
  <2>1. ys = [xs EXCEPT ![o] = y] /\ fs = [es EXCEPT ![o] = F] /\ ms = [ls EXCEPT ![o] = l] /\ ObjectsStand(xs, es, ls, C) /\ e = [C EXCEPT ![o] = G]
    BY <1>1, <1>4
  <2> HIDE DEF xs, es, ls, ys, fs, ms, y, F, G, l, e
  <2>2. ObjectsStand(ys, fs, ms, e)
    BY <1>14, <2>1, ObjectPut
  <2>3. QED
    BY <2>2 DEF ys, fs, ms
<1> HIDE DEF e
<1>18. FieldDict!Step(C, e, told')
  BY <1>16 DEF FieldDict!Step
<1>19. QED
  BY <1>17, <1>18 DEF DidFields

-----------------------------------------------------------------------------
(* Loops over objects *)

CursorInv ==
  cursor # NoIter =>
    /\ cursor.of \in Objects
    /\ LET x == objects[cursor.of] IN Visits(cursor, cursor.of, x.buckets, Live(x), x.bucketCount)

ObjectInv == ObjectsStand(objects, erased, lost, FieldContents) /\ CursorInv

\* The places of the fields of an object are those of its buckets.
LEMMA FieldPlaces ==
  ASSUME NEW x, NEW D, NEW E, NEW l, Sound(x, D, E, l)  PROVE PlacesIn(x.buckets, Live(x), x.bucketCount)
<1>1. /\ Carries(x.buckets, Live(x), D) /\ x.bucketCount \in Nat
      /\ \A p \in Live(x) : p[1] \in 0 .. x.bucketCount - 1
  BY RepresentedIs DEF Sound
<1>2. \A p \in Live(x) : p[1] < x.bucketCount
  BY <1>1
<1>3. \A p \in Live(x) : At(x.buckets, p).key \in Keys
  <2> TAKE p \in Live(x)
  <2>1. PICK k \in Given(D) : At(x.buckets, p) = Pair(k, D[k])
    BY <1>1 DEF Carries
  <2>2. k \in Keys
    BY <2>1 DEF Given
  <2>3. QED
    BY <2>1, <2>2, PairIs
<1>4. QED
  BY <1>1, <1>2, <1>3 DEF Carries, PlacesIn

LEMMA FieldsBeginHolds ==
  ASSUME NEW C, ObjectsStand(objects, erased, lost, C), NEW o \in Objects, FieldsBegin(o)
  PROVE  CursorInv'
<1> DEFINE x == objects[o]
           gs == x.buckets
           S == Live(x)
           n == x.bucketCount
           jt == cursor'
<1>1. Sound(x, C[o], erased[o], lost[o]) /\ objects' = objects
  BY DEF ObjectsStand, FieldsBegin
<1>2. jt = IF <<0, 0>> \in S THEN Start(o) ELSE Forward(Start(o), S, n)
  BY DEF FieldsBegin, FirstField
<1>3. PlacesIn(gs, S, n)
  BY <1>1, FieldPlaces
<1> HIDE DEF jt, gs, S, n
<1>4. Visits(jt, o, gs, S, n)
  BY <1>2, <1>3, Begins
<1>5. jt.of = o
  BY <1>4 DEF Visits
<1>6. QED
  BY <1>1, <1>4, <1>5 DEF CursorInv, jt, gs, S, n

LEMMA FieldsNextHolds ==
  ASSUME NEW C, ObjectsStand(objects, erased, lost, C), CursorInv, FieldsNext
  PROVE  CursorInv'
<1> DEFINE o == cursor.of
           x == objects[o]
           gs == x.buckets
           S == Live(x)
           n == x.bucketCount
           k == At(gs, cursor.at).key
           mt == [cursor EXCEPT !.seen = @ \cup {k}, !.steps = @ + 1]
           jt == cursor'
<1>1. /\ o \in Objects /\ Visits(cursor, o, gs, S, n) /\ objects' = objects
      /\ jt = Forward(mt, S, n) /\ cursor.at[1] # n
  BY DEF FieldsNext, CursorInv, AtLastField
<1>2. Sound(x, C[o], erased[o], lost[o])
  BY <1>1 DEF ObjectsStand
<1>3. PlacesIn(gs, S, n)
  BY <1>2, FieldPlaces
<1>4. k = At(gs, cursor.at).key /\ mt = [cursor EXCEPT !.seen = @ \cup {k}, !.steps = @ + 1]
  OBVIOUS
<1> HIDE DEF jt, mt, k, gs, S, n, o
<1>5. Visits(jt, o, gs, S, n)
  BY <1>1, <1>3, <1>4, Advances
<1>6. jt.of = o
  BY <1>5 DEF Visits
<1>7. QED
  BY <1>1, <1>5, <1>6 DEF CursorInv, jt, gs, S, n

\* Each step is one of a dictionary, or leaves the objects alone.
LEMMA FieldStepIs ==
  ASSUME "erasedName" \notin Lax, "overfull" \notin Lax, NEW C, ObjectsStand(objects, erased, lost, C), ObjectNext
  PROVE  (\E e : DidFields(C, e)) \/ (objects' = objects /\ erased' = erased /\ lost' = lost /\ told' = told)
<1>1. ASSUME NEW o \in Objects, ConstructObject(o) \/ DestroyObject(o)  PROVE \E e : DidFields(C, e)
  BY <1>1, ClearFields
<1>2. ASSUME NEW o \in Objects, FieldsBegin(o)  PROVE \E e : DidFields(C, e)
  <2>1. objects' = objects /\ erased' = erased /\ lost' = lost /\ told' = NoValue
    BY <1>2 DEF FieldsBegin
  <2>2. FieldDict!Step(C, C, told')
    BY <2>1 DEF FieldDict!Step, FieldDict!Other
  <2>3. QED
    BY <2>1, <2>2 DEF DidFields
<1>3. ASSUME NEW o \in Objects, NEW p \in Objects, CopyConstructObject(o, p) \/ CopyAssignObject(o, p)
      PROVE  \E e : DidFields(C, e)
  BY <1>3, CopyFields
<1>4. ASSUME NEW o \in Objects, NEW p \in Objects, MoveConstructObject(o, p) \/ MoveAssignObject(o, p)
      PROVE  \E e : DidFields(C, e)
  BY <1>4, MoveFields
<1>5. ASSUME NEW o \in Objects, NEW k \in Keys, FindField(o, k)  PROVE \E e : DidFields(C, e)
  BY <1>5, FindFields
<1>6. ASSUME NEW o \in Objects, NEW k \in Keys, EraseField(o, k)  PROVE \E e : DidFields(C, e)
  BY <1>6, EraseFields
<1>7. ASSUME NEW o \in Objects, NEW f \in Fields, AddField(o, f[1], f[2])  PROVE \E e : DidFields(C, e)
  <2>1. f[1] \in Keys /\ f[2] \in Values
    BY FieldsAssumption
  <2>2. QED
    BY <1>7, <2>1, AddFields
<1>8. ASSUME FieldsNext \/ FieldsEnd  PROVE objects' = objects /\ erased' = erased /\ lost' = lost /\ told' = told
  BY <1>8 DEF FieldsNext, FieldsEnd
<1>9. QED
  BY <1>1, <1>2, <1>3, <1>4, <1>5, <1>6, <1>7, <1>8 DEF ObjectNext

LEMMA CursorStep ==
  ASSUME ObjectsStand(objects, erased, lost, FieldContents), CursorInv, ObjectNext  PROVE CursorInv'
<1>1. CASE \E o \in Objects : FieldsBegin(o)
  BY <1>1, FieldsBeginHolds
<1>2. CASE FieldsNext
  BY <1>2, FieldsNextHolds
<1>3. CASE FieldsEnd
  BY <1>3 DEF FieldsEnd, CursorInv
<1>4. CASE cursor = NoIter /\ cursor' = NoIter
  BY <1>4 DEF CursorInv
<1>5. ObjectNext => \/ \E o \in Objects : FieldsBegin(o)
                    \/ FieldsNext \/ FieldsEnd
                    \/ cursor = NoIter /\ cursor' = NoIter
  BY DEF ObjectNext, ConstructObject, DestroyObject, CopyConstructObject, MoveConstructObject, CopyAssignObject,
         MoveAssignObject, TakeBuckets, Becomes, FindField, EraseField, AddField, MayAsk, UsableObject, CalmObjects
<1>6. QED
  BY <1>1, <1>2, <1>3, <1>4, <1>5

LEMMA ObjectsInit ==
  ASSUME InitObjects  PROVE ObjectInv /\ FieldContents = [o \in Objects |-> Nil]
<1> DEFINE C == [o \in Objects |-> Nil]
<1>1. ObjectsStand(objects, erased, lost, C)
  BY EmptySound, NilIs DEF InitObjects, ObjectsStand
<1>2. FieldContents = C
  BY <1>1, FieldContentsAre
<1>3. CursorInv
  BY DEF InitObjects, CursorInv
<1>4. QED
  BY <1>1, <1>2, <1>3 DEF ObjectInv

\* Objects that stand for dictionaries in the next state stand for their contents.
LEMMA FieldContentsNext ==
  ASSUME NEW e, ObjectsStand(objects', erased', lost', e)  PROVE FieldContents' = e
<1>1. \A o \in Objects : ContentsOf(objects'[o].buckets, Live(objects'[o])) = e[o]
  BY SoundContents DEF ObjectsStand
<1>2. FieldContents' = [o \in Objects |-> e[o]]
  BY <1>1 DEF FieldContents
<1>3. QED
  BY <1>2 DEF ObjectsStand

-----------------------------------------------------------------------------
(* Theorems about JsonObject *)

\* The objects, and the loop over one, are kept so by every step.
LEMMA ObjectInvariant ==
  ASSUME "erasedName" \notin Lax, "overfull" \notin Lax  PROVE ObjectSpec => []ObjectInv
<1>1. InitObjects => ObjectInv
  BY ObjectsInit
<1>2. ObjectInv /\ [ObjectNext]_objectVars => ObjectInv'
  <2> SUFFICES ASSUME ObjectInv, [ObjectNext]_objectVars  PROVE ObjectInv'
    OBVIOUS
  <2>1. CASE ObjectNext
    <3>1. (\E e : DidFields(FieldContents, e)) \/ (objects' = objects /\ erased' = erased /\ lost' = lost)
      BY <2>1, FieldStepIs DEF ObjectInv
    <3>2. \E e : ObjectsStand(objects', erased', lost', e)
      BY <3>1 DEF DidFields, ObjectInv
    <3>3. PICK e : ObjectsStand(objects', erased', lost', e)
      BY <3>2
    <3>4. FieldContents' = e
      BY <3>3, FieldContentsNext
    <3>5. CursorInv'
      BY <2>1, CursorStep DEF ObjectInv
    <3>6. QED
      BY <3>3, <3>4, <3>5 DEF ObjectInv
  <2>2. CASE UNCHANGED objectVars
    <3>1. objects' = objects /\ erased' = erased /\ lost' = lost /\ cursor' = cursor
      BY <2>2 DEF objectVars
    <3>2. QED
      BY <3>1 DEF ObjectInv, FieldContents, CursorInv
  <2>3. QED
    BY <2>1, <2>2
<1>3. QED
  BY <1>1, <1>2, PTL DEF ObjectSpec

\* The number of elements of an object is that of its fields and of those that were erased or freed
\* by an assignment since it was built anew, neither of which counts down: no lookup stops at a
\* count of zero with fields there, and of an object that lost none the count is its fields.
THEOREM FieldsAreAccounted ==
  ASSUME "erasedName" \notin Lax, "overfull" \notin Lax  PROVE ObjectSpec => []FieldsAccounted
<1>1. ObjectInv => FieldsAccounted
  <2> SUFFICES ASSUME ObjectInv, NEW o \in Objects
               PROVE  objects[o].elementCount = Cardinality(Live(objects[o])) + lost[o]
    BY DEF FieldsAccounted
  <2> DEFINE x == objects[o]
             D == FieldContents[o]
  <2>1. Represented(x, D, erased[o]) /\ x.elementCount = Cardinality(Given(D)) + lost[o]
    BY DEF ObjectInv, ObjectsStand, Sound
  <2>2. Carries(x.buckets, Live(x), D)
    BY <2>1, RepresentedIs
  <2>3. Cardinality(Live(x)) = Cardinality(Given(D))
    BY <2>2, FieldsAre
  <2>4. QED
    BY <2>1, <2>3
<1>2. QED
  BY <1>1, ObjectInvariant, PTL

\* A loop over an object has each of its fields once, and none that was erased but is still
\* readable behind the end of its bucket.
THEOREM IterationVisitsEachField ==
  ASSUME "erasedName" \notin Lax, "overfull" \notin Lax  PROVE ObjectSpec => []IterationVisitsFields
<1>1. ObjectInv => IterationVisitsFields
  <2> SUFFICES ASSUME ObjectInv, cursor # NoIter
               PROVE  /\ cursor.steps = Cardinality(cursor.seen)
                      /\ AtLastField => cursor.seen = {At(objects[cursor.of].buckets, p).key : p \in Live(objects[cursor.of])}
    BY DEF IterationVisitsFields
  <2> DEFINE x == objects[cursor.of]
             gs == x.buckets
             S == Live(x)
             n == x.bucketCount
  <2>1. cursor.of \in Objects /\ Visits(cursor, cursor.of, gs, S, n)
    BY DEF ObjectInv, CursorInv
  <2>2. Sound(x, FieldContents[cursor.of], erased[cursor.of], lost[cursor.of])
    BY <2>1 DEF ObjectInv, ObjectsStand
  <2>3. PlacesIn(gs, S, n)
    BY <2>2, FieldPlaces
  <2>4. ASSUME AtLastField  PROVE cursor.seen = {At(gs, p).key : p \in S}
    <3>1. cursor.at[1] = n
      BY <2>4 DEF AtLastField
    <3> HIDE DEF gs, S, n
    <3>2. QED
      BY <2>1, <2>3, <3>1, AllVisited
  <2>5. QED
    BY <2>1, <2>4 DEF Visits
<1>2. QED
  BY <1>1, ObjectInvariant, PTL

\* To clients that do not ask for erased names, and of whose objects no bucket has more than a block
\* of fields, a JsonObject is a finite map from names to values.
THEOREM ObjectsAreDictionaries ==
  ASSUME "erasedName" \notin Lax, "overfull" \notin Lax  PROVE ObjectSpec => ObjectDictionarySpec
<1>1. InitObjects => FieldDict!Init
  <2> SUFFICES ASSUME InitObjects  PROVE FieldDict!Init
    OBVIOUS
  <2>1. FieldContents = [o \in Objects |-> Nil]
    BY ObjectsInit
  <2>2. QED
    BY <2>1 DEF InitObjects, FieldDict!Init, FieldDict!Nothing, Nil, FieldContents
<1>2. ObjectInv /\ [ObjectNext]_objectVars => [FieldDict!Next]_FieldDict!dictVars
  <2> SUFFICES ASSUME ObjectInv, [ObjectNext]_objectVars  PROVE [FieldDict!Next]_FieldDict!dictVars
    OBVIOUS
  <2>1. CASE objects' = objects /\ told' = told
    BY <2>1 DEF FieldDict!dictVars
  <2>2. CASE \E e : DidFields(FieldContents, e)
    <3>1. PICK e : DidFields(FieldContents, e)
      BY <2>2
    <3>2. FieldContents' = e
      BY <3>1, FieldContentsNext DEF DidFields
    <3>3. FieldDict!Step(FieldContents, FieldContents', told')
      BY <3>1, <3>2 DEF DidFields
    <3>4. QED
      BY <3>3 DEF FieldDict!Next, FieldContents
  <2>3. QED
    BY <2>1, <2>2, FieldStepIs DEF ObjectInv, objectVars
<1>3. QED
  BY <1>1, <1>2, ObjectInvariant, PTL DEF ObjectSpec, ObjectDictionarySpec, FieldDict!Spec

-----------------------------------------------------------------------------
(* Both tables *)

LEMMA TablesAreBoth == Spec => MapSpec /\ ObjectSpec
<1>1. Init => InitMaps /\ InitObjects
  BY DEF Init
<1>2. [Next]_tableVars => [MapNext]_mapVars /\ [ObjectNext]_objectVars
  BY DEF Next, tableVars
<1>3. QED
  BY <1>1, <1>2, PTL DEF Spec, MapSpec, ObjectSpec

\* What the clients of both tables are assumed to do.
Heedful == "eraseMissing" \notin Lax /\ "erasedName" \notin Lax /\ "overfull" \notin Lax

\* The count of a map is its number of pairs, that of an object its number of fields and of those it
\* lost: no call leaves a table with a count that would make a lookup overlook a pair.
THEOREM NothingIsUncounted == ASSUME Heedful  PROVE Spec => []NothingUncounted
<1>1. "eraseMissing" \notin Lax /\ "erasedName" \notin Lax /\ "overfull" \notin Lax
  BY DEF Heedful
<1>2. (MapSpec => []CountsExact) /\ (ObjectSpec => []FieldsAccounted)
  BY <1>1, CountsAreExact, FieldsAreAccounted
<1>3. CountsExact /\ FieldsAccounted => NothingUncounted
  BY DEF NothingUncounted
<1>4. QED
  BY <1>2, <1>3, TablesAreBoth, PTL

\* A loop over a map or an object has each pair once.
THEOREM IterationIsComplete == ASSUME Heedful  PROVE Spec => []IterationVisits
<1>1. "eraseMissing" \notin Lax /\ "erasedName" \notin Lax /\ "overfull" \notin Lax
  BY DEF Heedful
<1>2. (MapSpec => []IterationVisitsAll) /\ (ObjectSpec => []IterationVisitsFields)
  BY <1>1, IterationVisitsEachPair, IterationVisitsEachField
<1>3. IterationVisitsAll /\ IterationVisitsFields => IterationVisits
  BY DEF IterationVisits
<1>4. QED
  BY <1>2, <1>3, TablesAreBoth, PTL

\* Each pair of a map is where the hash of its key says, and no key is there twice.
THEOREM PairsArePlacedByHash == ASSUME Heedful  PROVE Spec => []PlacedByHash
<1>1. "eraseMissing" \notin Lax
  BY DEF Heedful
<1>2. MapSpec => []PlacedByHash
  BY <1>1, PairsAreInTheirGroups
<1>3. QED
  BY <1>2, TablesAreBoth, PTL

\* To their clients both tables are finite maps.
THEOREM TablesAreDictionaries == ASSUME Heedful  PROVE Spec => DictionarySpec
<1>1. "eraseMissing" \notin Lax /\ "erasedName" \notin Lax /\ "overfull" \notin Lax
  BY DEF Heedful
<1>2. (MapSpec => MapDictionarySpec) /\ (ObjectSpec => ObjectDictionarySpec)
  BY <1>1, MapsAreDictionaries, ObjectsAreDictionaries
<1>3. QED
  BY <1>2, TablesAreBoth, PTL DEF DictionarySpec
=============================================================================

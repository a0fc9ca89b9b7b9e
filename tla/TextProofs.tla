----------------------------- MODULE TextProofs -----------------------------
(***************************************************************************)
(* Proofs about String, Slice, Numerals and Utf8, for any texts, sizes of   *)
(* the object and of vectors, bases, bounds and numerals.  Every string is  *)
(* a text, with nothing but terminators behind it, and is found as that     *)
(* text; slices are searched as they read; numbers are parsed as what they  *)
(* mean and read back as they were printed; the counts of the code points   *)
(* agree.  What a recursive function computes is proved by induction over   *)
(* the natural numbers, from the well-foundedness of their order.           *)
(***************************************************************************)
EXTENDS String, Slice, Numerals, Utf8, Integers, SequenceTheorems, FiniteSetTheorems,
        WellFoundedInduction, TLAPS


-----------------------------------------------------------------------------
(* Sequences *)

LEMMA SubSeqIs ==
  ASSUME NEW S, NEW s \in Seq(S), NEW m \in 1 .. Len(s) + 1, NEW n \in m - 1 .. Len(s)
  PROVE  /\ SubSeq(s, m, n) \in Seq(S) /\ Len(SubSeq(s, m, n)) = n - m + 1
         /\ \A j \in 1 .. n - m + 1 : SubSeq(s, m, n)[j] = s[m + j - 1]
  OBVIOUS

LEMMA SameSeq ==
  ASSUME NEW S, NEW s \in Seq(S), NEW u \in Seq(S), Len(s) = Len(u), \A i \in 1 .. Len(s) : s[i] = u[i]
  PROVE  s = u
  OBVIOUS

-----------------------------------------------------------------------------
(* Strings *)

Buffer(chars, length, capacity) ==
  [sso |-> FALSE, chars |-> chars, length |-> length, capacity |-> capacity]

\* The string r has the text s: in the object, or in a buffer with room for a terminator.
InObject(r, s) == Len(s) <= MaxSso /\ r = Short(s)

InBuffer(r, s) ==
  /\ MaxSso < Len(s) /\ Len(s) < r.capacity
  /\ r.capacity \in Nat /\ r.capacity % Align = 0
  /\ r = Buffer(Padded(s, r.capacity), Len(s), r.capacity)

Spells(r, s) == s \in Seq(Chars) /\ (InObject(r, s) \/ InBuffer(r, s))

LEMMA PaddedIs ==
  ASSUME NEW s \in Seq(Chars), NEW n \in Nat
  PROVE  /\ DOMAIN Padded(s, n) = 0 .. n - 1
         /\ \A i \in 0 .. n - 1 : Padded(s, n)[i] = IF i < Len(s) THEN s[i + 1] ELSE Nul
  BY DEF Padded

LEMMA SpelledIs ==
  ASSUME NEW r, NEW s, Spells(r, s)
  PROVE  /\ s \in Seq(Chars) /\ Len(s) \in Nat
         /\ r.length = Len(s)
         /\ r.sso \in BOOLEAN
         /\ r.sso <=> Len(s) <= MaxSso
         /\ r.sso => r = Short(s)
         /\ ~r.sso => InBuffer(r, s)
         /\ \E n \in Nat : /\ DOMAIN r.chars = 0 .. n - 1 /\ Len(s) <= n
                           /\ n = IF r.sso THEN MaxSso ELSE r.capacity
                           /\ \A i \in 0 .. n - 1 : r.chars[i] = IF i < Len(s) THEN s[i + 1] ELSE Nul
<1>1. s \in Seq(Chars) /\ Len(s) \in Nat /\ MaxSso \in Nat
  BY SsoAssumption DEF Spells
<1>2. CASE InObject(r, s)
  <2>1. Len(s) <= MaxSso /\ r.length = Len(s) /\ r.sso = TRUE /\ r.chars = Padded(s, MaxSso) /\ r = Short(s)
    BY <1>2 DEF InObject, Short
  <2>2. /\ DOMAIN r.chars = 0 .. MaxSso - 1
        /\ \A i \in 0 .. MaxSso - 1 : r.chars[i] = IF i < Len(s) THEN s[i + 1] ELSE Nul
    BY <1>1, <2>1, PaddedIs
  <2>3. QED
    BY <1>1, <2>1, <2>2
<1>3. CASE InBuffer(r, s)
  <2> DEFINE n == r.capacity
  <2>1. MaxSso < Len(s) /\ Len(s) < n /\ n \in Nat
    BY <1>3 DEF InBuffer
  <2>2. r.length = Len(s) /\ r.sso = FALSE /\ r.chars = Padded(s, n)
    BY <1>3 DEF InBuffer, Buffer
  <2> HIDE DEF n
  <2>3. /\ DOMAIN r.chars = 0 .. n - 1
        /\ \A i \in 0 .. n - 1 : r.chars[i] = IF i < Len(s) THEN s[i + 1] ELSE Nul
    BY <1>1, <2>1, <2>2, PaddedIs
  <2>4. ~(Len(s) <= MaxSso) /\ Len(s) <= n
    BY <1>1, <2>1
  <2>5. QED
    BY <1>1, <1>3, <2>1, <2>2, <2>3, <2>4 DEF n
<1>4. QED
  BY <1>2, <1>3 DEF Spells

LEMMA SpelledText ==
  ASSUME NEW r, NEW s, Spells(r, s)
  PROVE  /\ TextOf(r) = s
         /\ \A i \in Nat : Char(r, i) = IF i < Len(s) THEN s[i + 1] ELSE Nul
         /\ r # Zeroed
<1>1. /\ s \in Seq(Chars) /\ Len(s) \in Nat /\ r.length = Len(s)
      /\ r.sso <=> Len(s) <= MaxSso
      /\ r.sso => r = Short(s)
  BY SpelledIs
<1>2. PICK n \in Nat : /\ DOMAIN r.chars = 0 .. n - 1 /\ Len(s) <= n
                       /\ n = IF r.sso THEN MaxSso ELSE r.capacity
                       /\ \A i \in 0 .. n - 1 : r.chars[i] = IF i < Len(s) THEN s[i + 1] ELSE Nul
  BY SpelledIs
<1>3. TextOf(r) = s
  <2>1. TextOf(r) = [i \in 1 .. Len(s) |-> r.chars[i - 1]]
    BY <1>1 DEF TextOf
  <2>2. \A i \in 1 .. Len(s) : r.chars[i - 1] = s[i]
    BY <1>1, <1>2
  <2>3. s = [i \in 1 .. Len(s) |-> s[i]]
    BY <1>1
  <2>4. QED
    BY <2>1, <2>2, <2>3
<1>4. ASSUME NEW i \in Nat  PROVE Char(r, i) = IF i < Len(s) THEN s[i + 1] ELSE Nul
  BY <1>1, <1>2 DEF Char
<1>5. r # Zeroed
  <2>1. SUFFICES ASSUME r = Zeroed  PROVE FALSE
    OBVIOUS
  <2>2. Zeroed.length = MaxSso /\ Zeroed.chars = Padded(<<>>, MaxSso)
    BY DEF Zeroed, Short
  <2>3. MaxSso \in Nat \ {0} /\ Len(s) = MaxSso
    BY <1>1, <2>1, <2>2, SsoAssumption
  <2>4. Padded(<<>>, MaxSso)[0] = Nul
    BY <2>3 DEF Padded
  <2>5. n = MaxSso /\ r.chars[0] = s[1] /\ s[1] \in Chars
    BY <1>1, <1>2, <2>3
  <2>6. QED
    BY <2>1, <2>2, <2>4, <2>5, CharsAssumption
<1>6. QED
  BY <1>3, <1>4, <1>5

-----------------------------------------------------------------------------
(* Buffers *)

LEMMA WholeVectorsIs ==
  ASSUME NEW n \in Nat, NEW w \in Nat \ {0}
  PROVE  /\ WholeVectors(n, w) \in Nat /\ WholeVectors(n, w) >= n /\ WholeVectors(n, w) < n + w
         /\ WholeVectors(n, w) % w = 0
<1>1. n % w \in 0 .. w - 1
  OBVIOUS
<1>2. CASE n % w = 0
  BY <1>2 DEF WholeVectors
<1>3. CASE n % w # 0
  <2>1. WholeVectors(n, w) = n + w - (n % w)
    BY <1>3 DEF WholeVectors
  <2>2. (n + w - (n % w)) % w = 0
    OBVIOUS
  <2>3. PICK k \in 1 .. w - 1 : k = n % w
    BY <1>1, <1>3
  <2>4. n + w - k \in Nat /\ n + w - k >= n /\ n + w - k < n + w
    OBVIOUS
  <2>5. QED
    BY <2>1, <2>2, <2>3, <2>4, Zenon
<1>4. QED
  BY <1>2, <1>3

LEMMA MultiplesApart ==
  ASSUME NEW w \in Nat \ {0}, NEW a \in Nat, NEW b \in Nat, a % w = 0, b % w = 0, a < b  PROVE a + w <= b
<1>1. a = w * (a \div w) /\ b = w * (b \div w) /\ a \div w \in Nat /\ b \div w \in Nat
  OBVIOUS
<1>2. PICK i \in Nat, j \in Nat : a = w * i /\ b = w * j
  BY <1>1
<1>3. i < j
  BY <1>2
<1>4. QED
  BY <1>2, <1>3

LEMMA WholeVectorsFit ==
  ASSUME NEW n \in Nat, NEW w \in Nat \ {0}, NEW c \in Nat, c % w = 0, n <= c
  PROVE  WholeVectors(n, w) <= c
<1>1. WholeVectors(n, w) \in Nat /\ WholeVectors(n, w) < n + w /\ WholeVectors(n, w) % w = 0
  BY WholeVectorsIs
<1>2. SUFFICES ASSUME c < WholeVectors(n, w)  PROVE FALSE
  BY <1>1
<1>3. c + w <= WholeVectors(n, w)
  BY <1>1, <1>2, MultiplesApart
<1>4. QED
  BY <1>1, <1>3

LEMMA VectorsAre ==
  ASSUME NEW w \in Vectors  PROVE w \in Nat \ {0} /\ \A c \in Nat : c % Align = 0 => c % w = 0
<1> DEFINE h == Align \div 2
<1>1. Align \in Nat \ {0} /\ Align % 2 = 0 /\ Align > 2
  BY SsoAssumption
<1>2. h \in Nat \ {0} /\ Align = 2 * h
  BY <1>1
<1> HIDE DEF h
<1>3. ASSUME NEW c \in Nat, c % Align = 0  PROVE c % h = 0
  <2>1. c = Align * (c \div Align) /\ c \div Align \in Nat
    BY <1>1, <1>3
  <2>2. PICK q \in Nat : c = Align * q
    BY <2>1
  <2>3. PICK k \in Nat : k = 2 * q
    OBVIOUS
  <2>4. c = h * k
    BY <1>2, <2>2, <2>3
  <2>5. QED
    BY <1>2, <2>4
<1>4. w = Align \/ w = h
  BY DEF Vectors, h
<1>5. QED
  BY <1>1, <1>2, <1>3, <1>4

-----------------------------------------------------------------------------
(* Constructors, assignments and appending *)

LEMMA ShortSpells ==
  ASSUME NEW s \in Seq(Chars), Len(s) <= MaxSso
  PROVE  Spells(Short(s), s)
  BY DEF Spells, InObject

LEMMA BufferSpells ==
  ASSUME NEW s \in Seq(Chars), MaxSso < Len(s), NEW c \in Nat, Len(s) < c, c % Align = 0
  PROVE  Spells(Buffer(Padded(s, c), Len(s), c), s)
<1> DEFINE r == Buffer(Padded(s, c), Len(s), c)
<1>1. r.capacity = c
  BY DEF Buffer
<1> HIDE DEF r
<1>2. InBuffer(r, s)
  BY <1>1 DEF InBuffer, r
<1>3. QED
  BY <1>2 DEF Spells, r

LEMMA LongSpells ==
  ASSUME NEW s \in Seq(Chars), MaxSso < Len(s), NEW n \in Nat, Len(s) < n
  PROVE  Spells(Long(s, n), s)
<1> DEFINE c == AlignedUp(n)
<1>1. Align \in Nat \ {0} /\ Len(s) \in Nat
  BY SsoAssumption
<1>2. c \in Nat /\ c >= n /\ c % Align = 0
  BY <1>1, WholeVectorsIs DEF AlignedUp
<1>3. Long(s, n) = Buffer(Padded(s, c), Len(s), c)
  BY DEF Long, Buffer
<1> HIDE DEF c
<1>4. Len(s) < c
  BY <1>1, <1>2
<1>5. QED
  BY <1>2, <1>3, <1>4, BufferSpells

\* A string with other characters.
WithText(r, x, y) == [r EXCEPT !.chars = x, !.length = y]

LEMMA TextSet ==
  ASSUME NEW r, NEW b, NEW c, NEW d, r = Buffer(b, c, d), NEW x, NEW y
  PROVE  WithText(r, x, y) = Buffer(x, y, d)
<1> DEFINE q == [r EXCEPT !.chars = x]
<1>1. PICK a : a = FALSE
  OBVIOUS
<1>2. r = [sso |-> a, chars |-> b, length |-> c, capacity |-> d]
  BY <1>1 DEF Buffer
<1>3. q = [sso |-> a, chars |-> x, length |-> c, capacity |-> d]
  BY <1>2
<1>4. WithText(r, x, y) = [q EXCEPT !.length = y]
  BY DEF WithText
<1> HIDE DEF q
<1>5. WithText(r, x, y) = [sso |-> a, chars |-> x, length |-> y, capacity |-> d]
  BY <1>3, <1>4
<1>6. QED
  BY <1>1, <1>5 DEF Buffer

LEMMA OverwrittenSpells ==
  ASSUME NEW r, NEW t, Spells(r, t), ~r.sso, NEW s \in Seq(Chars), MaxSso < Len(s), Len(s) < r.capacity
  PROVE  Spells(Overwritten(r, s), s)
<1>1. InBuffer(r, t)
  BY SpelledIs
<1>2. Overwritten(r, s)
        = Buffer(Padded(s, r.capacity), Len(s), r.capacity)
  <2>1. r = Buffer(Padded(t, r.capacity), Len(t), r.capacity)
    BY <1>1 DEF InBuffer
  <2>2. WithText(r, Padded(s, r.capacity), Len(s)) = Buffer(Padded(s, r.capacity), Len(s), r.capacity)
    BY <2>1, TextSet
  <2>3. QED
    BY <2>2 DEF Overwritten, WithText
<1>3. r.capacity \in Nat /\ r.capacity % Align = 0
  BY <1>1 DEF InBuffer
<1>4. QED
  BY <1>2, <1>3, BufferSpells

LEMMA OfStrSpells ==
  ASSUME NEW s \in Seq(Chars)
  PROVE  Spells(OfStr(s), s)
<1>1. Len(s) \in Nat /\ Len(s) + 1 \in Nat /\ Len(s) < Len(s) + 1 /\ MaxSso \in Nat
  BY SsoAssumption
<1>2. CASE Len(s) <= MaxSso
  BY <1>2, ShortSpells DEF OfStr
<1>3. CASE ~(Len(s) <= MaxSso)
  <2>1. MaxSso < Len(s)
    BY <1>1, <1>3
  <2>2. OfStr(s) = Long(s, Len(s) + 1)
    BY <1>3 DEF OfStr
  <2>3. Spells(Long(s, Len(s) + 1), s)
    BY <1>1, <2>1, LongSpells
  <2>4. QED
    BY <2>2, <2>3
<1>4. QED
  BY <1>2, <1>3

LEMMA OfCharSpells ==
  ASSUME NEW c \in Chars
  PROVE  /\ <<c>> \in Seq(Chars) /\ Len(<<c>>) = 1
         /\ Spells(OfChar(c), <<c>>) /\ (\A r : Spells(AssignChar(r, c), <<c>>))
<1>1. <<c>> \in Seq(Chars) /\ Len(<<c>>) = 1 /\ 1 <= MaxSso
  BY SsoAssumption
<1>2. Spells(Short(<<c>>), <<c>>)
  BY <1>1, ShortSpells
<1>3. QED
  BY <1>1, <1>2 DEF OfChar, AssignChar

LEMMA CopySpells ==
  ASSUME NEW r, NEW s, Spells(r, s)
  PROVE  Spells(CopyOfString(r), s)
<1>1. /\ s \in Seq(Chars) /\ Len(s) \in Nat /\ r.length = Len(s) /\ MaxSso \in Nat
      /\ r.sso <=> Len(s) <= MaxSso
      /\ TextOf(r) = s
  BY SpelledIs, SpelledText, SsoAssumption
<1>2. CASE r.sso
  BY <1>2 DEF CopyOfString
<1>3. CASE ~r.sso
  <2>1. MaxSso < Len(s) /\ Len(s) + 1 \in Nat /\ Len(s) < Len(s) + 1
    BY <1>1, <1>3
  <2>2. Spells(Long(s, Len(s) + 1), s)
    BY <1>1, <2>1, LongSpells
  <2>3. QED
    BY <1>1, <1>3, <2>2 DEF CopyOfString
<1>4. QED
  BY <1>2, <1>3

LEMMA AssignSpells ==
  ASSUME NEW r, NEW t, Spells(r, t) \/ r = Zeroed, NEW s \in Seq(Chars),
         ~r.sso /\ Len(s) > MaxSso => Len(s) # r.capacity
  PROVE  Spells(AssignStr(r, s), s)
<1>1. Len(s) \in Nat /\ Len(s) + 1 \in Nat /\ Len(s) < Len(s) + 1 /\ MaxSso \in Nat
  BY SsoAssumption
<1>2. CASE Len(s) <= MaxSso
  <2>1. AssignStr(r, s) = Short(s)
    BY <1>1, <1>2 DEF AssignStr
  <2>2. QED
    BY <1>2, <2>1, ShortSpells
<1>3. CASE Len(s) > MaxSso /\ ~r.sso /\ r.capacity >= Len(s)
  <2>1. Spells(r, t)
    BY <1>3 DEF Zeroed, Short
  <2>2. InBuffer(r, t)
    BY <1>3, <2>1, SpelledIs
  <2>3. r.capacity \in Nat
    BY <2>2 DEF InBuffer
  <2>4. Len(s) < r.capacity /\ MaxSso < Len(s)
    BY <1>1, <1>3, <2>3
  <2>5. Spells(Overwritten(r, s), s)
    BY <1>3, <2>1, <2>4, OverwrittenSpells
  <2>6. AssignStr(r, s) = Overwritten(r, s)
    BY <1>1, <1>3 DEF AssignStr
  <2>7. QED
    BY <2>5, <2>6
<1>4. CASE Len(s) > MaxSso /\ ~(~r.sso /\ r.capacity >= Len(s))
  <2>1. AssignStr(r, s) = Long(s, Len(s) + 1)
    BY <1>1, <1>4 DEF AssignStr
  <2>2. MaxSso < Len(s)
    BY <1>1, <1>4
  <2>3. Spells(Long(s, Len(s) + 1), s)
    BY <1>1, <2>2, LongSpells
  <2>4. QED
    BY <2>1, <2>3
<1>5. QED
  BY <1>1, <1>2, <1>3, <1>4

LEMMA AssignCopySpells ==
  ASSUME NEW r, NEW t, Spells(r, t) \/ r = Zeroed, NEW o, NEW s, Spells(o, s),
         ~o.sso /\ ~r.sso => Len(s) # r.capacity
  PROVE  Spells(AssignCopy(r, o), s)
<1>1. /\ s \in Seq(Chars) /\ Len(s) \in Nat /\ o.length = Len(s) /\ MaxSso \in Nat
      /\ o.sso <=> Len(s) <= MaxSso
      /\ TextOf(o) = s
  BY SpelledIs, SpelledText, SsoAssumption
<1>2. CASE o.sso
  BY <1>2 DEF AssignCopy
<1>3. CASE ~o.sso
  <2>1. MaxSso < Len(s) /\ ~(Len(s) <= MaxSso) /\ Len(s) > MaxSso
    BY <1>1, <1>3
  <2>2. AssignCopy(r, o) = AssignStr(r, s)
    BY <1>1, <1>3, <2>1 DEF AssignCopy, AssignStr
  <2>3. Spells(AssignStr(r, s), s)
    BY <1>1, <1>3, AssignSpells
  <2>4. QED
    BY <2>2, <2>3
<1>4. QED
  BY <1>2, <1>3

LEMMA AppendStrSpells ==
  ASSUME NEW r, NEW t, Spells(r, t), NEW v \in Seq(Chars)
  PROVE  t \o v \in Seq(Chars) /\ Spells(AppendStr(r, v), t \o v)
<1> DEFINE s == t \o v
<1>1. /\ t \in Seq(Chars) /\ Len(t) \in Nat /\ r.length = Len(t) /\ MaxSso \in Nat
      /\ r.sso \in BOOLEAN
      /\ r.sso <=> Len(t) <= MaxSso
      /\ TextOf(r) = t
  BY SpelledIs, SpelledText, SsoAssumption
<1>2. /\ s \in Seq(Chars) /\ Len(s) = Len(t) + Len(v)
      /\ \A j \in 1 .. Len(t) : s[j] = t[j]
  BY <1>1
<1>3. Len(v) \in Nat
  OBVIOUS
<1>4. TextOf(r) \o v = s
  BY <1>1
<1> HIDE DEF s
<1>5. Len(s) \in Nat /\ Len(t) <= Len(s) /\ Len(s) + 1 \in Nat /\ Len(s) < Len(s) + 1
  BY <1>1, <1>2, <1>3
<1>6. CASE Len(s) <= MaxSso
  <2>1. AppendStr(r, v) = Short(s)
    BY <1>1, <1>4, <1>5, <1>6 DEF AppendStr
  <2>2. Spells(Short(s), s)
    BY <1>2, <1>6, ShortSpells
  <2>3. QED
    BY <1>2, <2>1, <2>2 DEF s
<1>7. CASE Len(s) > MaxSso /\ (r.sso \/ Len(s) + 1 > r.capacity)
  <2>1. MaxSso < Len(s) /\ ~(Len(s) <= MaxSso)
    BY <1>1, <1>5, <1>7
  <2>2. AppendStr(r, v) = Long(s, Len(s) + 1)
    BY <1>4, <1>7, <2>1 DEF AppendStr
  <2>3. Spells(Long(s, Len(s) + 1), s)
    BY <1>2, <1>5, <2>1, LongSpells
  <2>4. QED
    BY <1>2, <2>2, <2>3 DEF s
<1>8. CASE Len(s) > MaxSso /\ ~(r.sso \/ Len(s) + 1 > r.capacity)
  <2> DEFINE chars == [i \in DOMAIN r.chars |-> IF r.length <= i /\ i < Len(s) THEN s[i + 1] ELSE r.chars[i]]
  <2>1. MaxSso < Len(s) /\ ~(Len(s) <= MaxSso) /\ ~r.sso
    BY <1>1, <1>5, <1>8
  <2>2. InBuffer(r, t)
    BY <2>1, SpelledIs
  <2>3. PICK n \in Nat : /\ DOMAIN r.chars = 0 .. n - 1 /\ n = r.capacity
                         /\ \A i \in 0 .. n - 1 : r.chars[i] = IF i < Len(t) THEN t[i + 1] ELSE Nul
    BY <2>1, SpelledIs
  <2>4. AppendStr(r, v) = WithText(r, chars, Len(s))
    BY <1>4, <1>8, <2>1 DEF AppendStr, WithText
  <2>5. r = Buffer(r.chars, r.length, n) /\ n % Align = 0
    BY <2>2, <2>3 DEF InBuffer, Buffer
  <2>6. chars = Padded(s, n)
    <3>1. DOMAIN r.chars = 0 .. n - 1
      BY <2>3
    <3>2. ASSUME NEW i \in 0 .. n - 1  PROVE chars[i] = IF i < Len(s) THEN s[i + 1] ELSE Nul
      <4>1. r.chars[i] = IF i < Len(t) THEN t[i + 1] ELSE Nul
        BY <2>3
      <4>2. chars[i] = IF Len(t) <= i /\ i < Len(s) THEN s[i + 1] ELSE r.chars[i]
        BY <1>1, <3>1
      <4> HIDE DEF chars
      <4>3. CASE i < Len(t)
        <5>1. s[i + 1] = t[i + 1] /\ i < Len(s) /\ ~(Len(t) <= i)
          BY <1>1, <1>2, <1>5, <4>3
        <5>2. QED
          BY <4>1, <4>2, <4>3, <5>1
      <4>4. CASE ~(i < Len(t))
        <5>1. Len(t) <= i
          BY <1>1, <4>4
        <5>2. QED
          BY <4>1, <4>2, <4>4, <5>1
      <4>5. QED
        BY <4>3, <4>4
    <3>3. QED
      BY <3>1, <3>2 DEF Padded
  <2> HIDE DEF chars
  <2>7. AppendStr(r, v) = Buffer(chars, Len(s), n)
    BY <2>4, <2>5, TextSet
  <2>8. Len(s) < n
    BY <1>5, <1>8, <2>3
  <2>9. Spells(AppendStr(r, v), s)
    BY <1>2, <2>1, <2>5, <2>6, <2>7, <2>8, BufferSpells
  <2>10. QED
    BY <1>2, <2>9 DEF s
<1>9. Len(s) <= MaxSso \/ Len(s) > MaxSso
  BY <1>1, <1>5
<1>10. QED
  BY <1>6, <1>7, <1>8, <1>9

\* Appending a character is appending a text of one, but for the size of the first buffer.
LEMMA AppendCharSpells ==
  ASSUME NEW r, NEW t, Spells(r, t), NEW c \in Chars
  PROVE  Spells(AppendChar(r, c), t \o <<c>>)
<1> DEFINE s == t \o <<c>>
<1>1. /\ t \in Seq(Chars) /\ Len(t) \in Nat /\ r.length = Len(t) /\ MaxSso \in Nat
      /\ r.sso \in BOOLEAN
      /\ r.sso <=> Len(t) <= MaxSso
      /\ TextOf(r) = t
  BY SpelledIs, SpelledText, SsoAssumption
<1>2. /\ s \in Seq(Chars) /\ Len(s) = Len(t) + 1 /\ s[Len(t) + 1] = c
      /\ \A j \in 1 .. Len(t) : s[j] = t[j]
  BY <1>1
<1>3. Append(TextOf(r), c) = s
  BY <1>1
<1> HIDE DEF s
<1>4. Len(s) \in Nat /\ Len(s) + 1 \in Nat /\ Len(s) < Len(s) + 1
  BY <1>1, <1>2
<1>5. CASE Len(s) <= MaxSso
  <2>1. AppendChar(r, c) = Short(s)
    BY <1>1, <1>3, <1>4, <1>5 DEF AppendChar
  <2>2. Spells(Short(s), s)
    BY <1>2, <1>5, ShortSpells
  <2>3. QED
    BY <2>1, <2>2 DEF s
<1>6. CASE Len(s) > MaxSso /\ r.sso
  <2>1. ~(Len(s) <= MaxSso) /\ MaxSso < Len(s) /\ Align \in Nat /\ Len(s) < Align
    BY <1>1, <1>2, <1>4, <1>6, SsoAssumption
  <2>2. AppendChar(r, c) = Long(s, Align)
    BY <1>3, <1>6, <2>1 DEF AppendChar
  <2>3. Spells(Long(s, Align), s)
    BY <1>2, <2>1, LongSpells
  <2>4. QED
    BY <2>2, <2>3 DEF s
<1>7. CASE Len(s) > MaxSso /\ ~r.sso /\ Len(s) + 1 > r.capacity
  <2>1. MaxSso < Len(s) /\ ~(Len(s) <= MaxSso)
    BY <1>1, <1>4, <1>7
  <2>2. AppendChar(r, c) = Long(s, Len(s) + 1)
    BY <1>3, <1>7, <2>1 DEF AppendChar
  <2>3. Spells(Long(s, Len(s) + 1), s)
    BY <1>2, <1>4, <2>1, LongSpells
  <2>4. QED
    BY <2>2, <2>3 DEF s
<1>8. CASE Len(s) > MaxSso /\ ~r.sso /\ ~(Len(s) + 1 > r.capacity)
  <2> DEFINE chars == [r.chars EXCEPT ![Len(t)] = c]
  <2>1. MaxSso < Len(s) /\ ~(Len(s) <= MaxSso)
    BY <1>1, <1>4, <1>8
  <2>2. InBuffer(r, t)
    BY <1>8, SpelledIs
  <2>3. PICK n \in Nat : /\ DOMAIN r.chars = 0 .. n - 1 /\ n = r.capacity
                         /\ \A i \in 0 .. n - 1 : r.chars[i] = IF i < Len(t) THEN t[i + 1] ELSE Nul
    BY <1>8, SpelledIs
  <2>4. r = Buffer(r.chars, Len(t), n) /\ n % Align = 0
    BY <2>2, <2>3 DEF InBuffer, Buffer
  <2>5. AppendChar(r, c) = [r EXCEPT !.chars[r.length] = c, !.length = @ + 1]
    BY <1>3, <1>8, <2>1 DEF AppendChar
  <2>6. DOMAIN r.chars = 0 .. n - 1 /\ Len(t) \in 0 .. n - 1
    <3>1. DOMAIN r.chars = 0 .. n - 1
      BY <2>3
    <3>2. Len(t) < n
      BY <1>1, <1>2, <1>8, <2>3
    <3>3. QED
      BY <1>1, <2>3, <3>1, <3>2
  <2>7. chars = Padded(s, n)
    <3>1. ASSUME NEW i \in 0 .. n - 1  PROVE chars[i] = IF i < Len(s) THEN s[i + 1] ELSE Nul
      <4>1. r.chars[i] = IF i < Len(t) THEN t[i + 1] ELSE Nul
        BY <2>3
      <4>2. chars[i] = IF i = Len(t) THEN c ELSE r.chars[i]
        BY <2>6
      <4> HIDE DEF chars
      <4>3. CASE i < Len(t)
        <5>1. s[i + 1] = t[i + 1] /\ i < Len(s) /\ i # Len(t)
          BY <1>1, <1>2, <1>4, <4>3
        <5>2. QED
          BY <4>1, <4>2, <4>3, <5>1
      <4>4. CASE i = Len(t)
        BY <1>1, <1>2, <4>2, <4>4
      <4>5. CASE i > Len(t)
        <5>1. ~(i < Len(s)) /\ ~(i < Len(t)) /\ i # Len(t)
          BY <1>1, <1>2, <4>5
        <5>2. QED
          BY <4>1, <4>2, <5>1
      <4>6. QED
        BY <1>1, <4>3, <4>4, <4>5
    <3>2. DOMAIN chars = 0 .. n - 1 /\ chars = [i \in DOMAIN chars |-> chars[i]]
      BY <2>6
    <3>3. QED
      BY <3>1, <3>2 DEF Padded
  <2>8. AppendChar(r, c) = Buffer(chars, Len(s), n)
    <3>1. r.length = Len(t)
      BY <1>1
    <3>2. [r EXCEPT !.chars[r.length] = c, !.length = @ + 1] = WithText(r, chars, Len(s))
      BY <1>2, <3>1 DEF WithText
    <3> HIDE DEF chars
    <3>3. QED
      BY <2>4, <2>5, <3>2, TextSet
  <2> HIDE DEF chars
  <2>9. Len(s) < n
    BY <1>4, <1>8, <2>3
  <2>10. Spells(AppendChar(r, c), s)
    BY <1>2, <2>1, <2>4, <2>7, <2>8, <2>9, BufferSpells
  <2>11. QED
    BY <2>10 DEF s
<1>9. Len(s) <= MaxSso \/ Len(s) > MaxSso
  BY <1>1, <1>4
<1>10. QED
  BY <1>1, <1>5, <1>6, <1>7, <1>8, <1>9

LEMMA ConcatenatedSpells ==
  ASSUME NEW s \in Seq(Chars)
  PROVE  Spells(Concatenated(s), s)
<1> DEFINE n == (3 * (Len(s) + 1)) \div 2
<1>1. Len(s) \in Nat /\ MaxSso \in Nat
  BY SsoAssumption
<1>2. n \in Nat /\ Len(s) < n
  BY <1>1
<1>3. CASE Len(s) <= MaxSso
  BY <1>3, ShortSpells DEF Concatenated
<1>4. CASE ~(Len(s) <= MaxSso)
  <2>1. Concatenated(s) = Long(s, n)
    BY <1>4 DEF Concatenated
  <2> HIDE DEF n
  <2>2. MaxSso < Len(s)
    BY <1>1, <1>4
  <2>3. Spells(Long(s, n), s)
    BY <1>2, <2>2, LongSpells
  <2>4. QED
    BY <2>1, <2>3
<1>5. QED
  BY <1>3, <1>4

LEMMA SubstringSpells ==
  ASSUME NEW r, NEW t, Spells(r, t), NEW j \in 1 .. Len(t), NEW i \in 0 .. j - 1, j - i # MaxSso
  PROVE  Spells(Substring(r, i, j), SubSeq(t, i + 1, j))
<1> DEFINE s == SubSeq(t, i + 1, j)
<1>1. t \in Seq(Chars) /\ Len(t) \in Nat /\ TextOf(r) = t /\ MaxSso \in Nat
  BY SpelledIs, SpelledText, SsoAssumption
<1>2. i + 1 \in 1 .. Len(t) + 1 /\ j \in (i + 1) - 1 .. Len(t)
  BY <1>1
<1>3. s \in Seq(Chars) /\ Len(s) = j - (i + 1) + 1
  BY <1>1, <1>2, SubSeqIs
<1>4. Substring(r, i, j) = IF Len(s) + 1 <= MaxSso THEN Short(s) ELSE Long(s, Len(s) + 1)
  BY <1>1 DEF Substring
<1> HIDE DEF s
<1>5. Len(s) \in Nat /\ Len(s) # MaxSso /\ Len(s) + 1 \in Nat /\ Len(s) < Len(s) + 1
  BY <1>3
<1>6. CASE Len(s) + 1 <= MaxSso
  <2>1. Len(s) <= MaxSso
    BY <1>1, <1>5, <1>6
  <2>2. Spells(Short(s), s)
    BY <1>3, <2>1, ShortSpells
  <2>3. QED
    BY <1>4, <1>6, <2>2 DEF s
<1>7. CASE ~(Len(s) + 1 <= MaxSso)
  <2>1. MaxSso < Len(s)
    BY <1>1, <1>5, <1>7
  <2>2. Spells(Long(s, Len(s) + 1), s)
    BY <1>3, <1>5, <2>1, LongSpells
  <2>3. QED
    BY <1>4, <1>7, <2>2 DEF s
<1>8. QED
  BY <1>6, <1>7

-----------------------------------------------------------------------------
(* The strings *)

StringInv ==
  /\ strings = [p \in Strings |-> strings[p]]
  /\ \A p \in Strings : strings[p] = Zeroed \/ Spells(strings[p], TextOf(strings[p]))

TextsShown == [p \in Strings |-> TextAt(p)]

LEMMA ShownIs ==
  ASSUME StringInv, NoText \notin Seq(Chars), NEW p \in Strings
  PROVE  /\ UsableString(p) <=> TextsShown[p] # NoText
         /\ UsableString(p) => Spells(strings[p], TextsShown[p]) /\ TextOf(strings[p]) = TextsShown[p]
                               /\ TextsShown[p] \in Seq(Chars)
         /\ ~UsableString(p) => strings[p] = Zeroed
<1>1. TextsShown[p] = TextAt(p)
  BY DEF TextsShown
<1>2. CASE UsableString(p)
  <2>1. TextsShown[p] = TextOf(strings[p]) /\ Spells(strings[p], TextOf(strings[p]))
    BY <1>1, <1>2 DEF StringInv, UsableString, TextAt
  <2>2. TextOf(strings[p]) \in Seq(Chars)
    BY <2>1 DEF Spells
  <2>3. QED
    BY <1>2, <2>1, <2>2
<1>3. CASE ~UsableString(p)
  BY <1>1, <1>3 DEF UsableString, TextAt
<1>4. QED
  BY <1>2, <1>3

\* What a call has to show: from the texts as they were it takes one of the steps of TextValues.
Reads == StringInv' /\ T!Step(TextsShown, TextsShown')

LEMMA Becoming ==
  ASSUME StringInv, NoText \notin Seq(Chars), NEW p \in Strings, NEW r, NEW s, Spells(r, s), StringBecomes(p, r)
  PROVE  StringInv' /\ T!Write(TextsShown, TextsShown', p, s)
<1>1. strings' = [strings EXCEPT ![p] = r] /\ strings = [q \in Strings |-> strings[q]]
  BY DEF StringInv, StringBecomes
<1>2. TextOf(r) = s /\ r # Zeroed
  BY SpelledText
<1>3. strings' = [q \in Strings |-> strings'[q]] /\ strings'[p] = r
  BY <1>1
<1>4. \A q \in Strings : q # p => strings'[q] = strings[q]
  BY <1>1
<1>5. StringInv'
  <2>1. \A q \in Strings : strings'[q] = Zeroed \/ Spells(strings'[q], TextOf(strings'[q]))
    BY <1>2, <1>3, <1>4 DEF StringInv
  <2>2. QED
    BY <1>3, <2>1 DEF StringInv
<1>6. TextsShown' = [TextsShown EXCEPT ![p] = s]
  <2>1. TextsShown'[p] = s
    BY <1>2, <1>3 DEF TextsShown, TextAt, UsableString
  <2>2. \A q \in Strings : q # p => TextsShown'[q] = TextsShown[q]
    BY <1>4 DEF TextsShown, TextAt, UsableString
  <2>3. TextsShown' = [q \in Strings |-> TextsShown'[q]] /\ TextsShown = [q \in Strings |-> TextsShown[q]]
    BY DEF TextsShown
  <2>4. QED
    BY <2>1, <2>2, <2>3
<1>7. QED
  BY <1>5, <1>6 DEF T!Write

\* A call after which p has a text that clients gave it.
LEMMA Given ==
  ASSUME StringInv, NoText \notin Seq(Chars), NEW p \in Strings, NEW r, NEW s \in Texts \cup {<<c>> : c \in Chars},
         Spells(r, s), StringBecomes(p, r)
  PROVE  Reads
  BY Becoming DEF Reads, T!Step

\* A call after which p has the text of o.
LEMMA Copied ==
  ASSUME StringInv, NoText \notin Seq(Chars), NEW p \in Strings, NEW o \in Strings, UsableString(o),
         NEW r, Spells(r, TextsShown[o]), StringBecomes(p, r)
  PROVE  Reads
<1>1. TextsShown[o] # NoText
  BY ShownIs
<1>2. StringInv' /\ T!Write(TextsShown, TextsShown', p, TextsShown[o])
  BY Becoming
<1>3. QED
  BY <1>1, <1>2 DEF Reads, T!Step

\* A call after which p has the text of o with one that clients gave it.
LEMMA JoinedWith ==
  ASSUME StringInv, NoText \notin Seq(Chars), NEW p \in Strings, NEW o \in Strings, UsableString(o),
         NEW v \in Texts \cup {<<c>> : c \in Chars}, NEW r, NEW s, Spells(r, s), StringBecomes(p, r),
         s = TextsShown[o] \o v \/ s = v \o TextsShown[o]
  PROVE  Reads
<1>1. TextsShown[o] # NoText
  BY ShownIs
<1>2. StringInv' /\ T!Write(TextsShown, TextsShown', p, s)
  BY Becoming
<1>3. T!Concatenate(TextsShown, TextsShown', p, o, v)
  BY <1>1, <1>2 DEF T!Concatenate
<1>4. QED
  BY <1>2, <1>3 DEF Reads, T!Step

LEMMA JoinedBoth ==
  ASSUME StringInv, NoText \notin Seq(Chars), NEW p \in Strings, NEW o \in Strings, NEW q \in Strings,
         UsableString(o), UsableString(q),
         NEW r, Spells(r, TextsShown[o] \o TextsShown[q]), StringBecomes(p, r)
  PROVE  Reads
<1>1. TextsShown[o] # NoText /\ TextsShown[q] # NoText
  BY ShownIs
<1>2. StringInv' /\ T!Write(TextsShown, TextsShown', p, TextsShown[o] \o TextsShown[q])
  BY Becoming
<1>3. T!ConcatenateBoth(TextsShown, TextsShown', p, o, q)
  BY <1>1, <1>2 DEF T!ConcatenateBoth
<1>4. QED
  BY <1>2, <1>3 DEF Reads, T!Step

LEMMA TextsAre ==
  ASSUME NEW s \in Texts \cup {<<c>> : c \in Chars}  PROVE s \in Seq(Chars)
<1>1. \A c \in Chars : <<c>> \in Seq(Chars)
  OBVIOUS
<1>2. QED
  BY <1>1, CharsAssumption

-----------------------------------------------------------------------------
(* Calls *)

LEMMA StringDestroySound ==
  ASSUME StringInv, NoText \notin Seq(Chars), NEW p \in Strings, StringDestroy(p)  PROVE Reads
<1>1. <<>> \in Texts /\ <<>> \in Seq(Chars) /\ Len(<<>>) <= MaxSso
  BY CharsAssumption, SsoAssumption
<1>2. Spells(Short(<<>>), <<>>)
  BY <1>1, ShortSpells
<1>3. QED
  BY <1>1, <1>2, Given DEF StringDestroy

LEMMA StringConstructSound ==
  ASSUME StringInv, NoText \notin Seq(Chars), NEW p \in Strings, StringConstruct(p)  PROVE Reads
<1>1. ASSUME NEW c \in Chars, StringBecomes(p, OfChar(c))  PROVE Reads
  <2>1. Spells(OfChar(c), <<c>>)
    BY OfCharSpells
  <2>2. QED
    BY <1>1, <2>1, Given
<1>2. ASSUME NEW s \in Texts, StringBecomes(p, OfStr(s))  PROVE Reads
  <2>1. Spells(OfStr(s), s)
    BY TextsAre, OfStrSpells
  <2>2. QED
    BY <1>2, <2>1, Given
<1>3. ASSUME NEW o \in Strings, UsableString(o), StringBecomes(p, CopyOfString(strings[o]))  PROVE Reads
  <2>1. Spells(strings[o], TextsShown[o])
    BY <1>3, ShownIs
  <2>2. Spells(CopyOfString(strings[o]), TextsShown[o])
    BY <2>1, CopySpells
  <2>3. QED
    BY <1>3, <2>2, Copied
<1>4. QED
  BY <1>1, <1>2, <1>3 DEF StringConstruct

LEMMA Assignable ==
  ASSUME StringInv, NEW p \in Strings  PROVE \E t : Spells(strings[p], t) \/ strings[p] = Zeroed
  BY DEF StringInv

LEMMA StringAssignSound ==
  ASSUME StringInv, NoText \notin Seq(Chars), NEW p \in Strings, StringLax = {}, StringAssign(p)  PROVE Reads
<1>1. ASSUME NEW c \in Chars, StringBecomes(p, AssignChar(strings[p], c))  PROVE Reads
  <2>1. Spells(AssignChar(strings[p], c), <<c>>)
    BY OfCharSpells
  <2>2. QED
    BY <1>1, <2>1, Given
<1>2. ASSUME NEW s \in Texts, Fits(p, Len(s)), StringBecomes(p, AssignStr(strings[p], s))  PROVE Reads
  <2>1. ~strings[p].sso /\ Len(s) > MaxSso => Len(s) # strings[p].capacity
    BY <1>2 DEF Fits
  <2>2. PICK t : Spells(strings[p], t) \/ strings[p] = Zeroed
    BY Assignable
  <2>3. Spells(AssignStr(strings[p], s), s)
    BY <2>1, <2>2, TextsAre, AssignSpells
  <2>4. QED
    BY <1>2, <2>3, Given
<1>3. QED
  BY <1>1, <1>2 DEF StringAssign

LEMMA StringCopyAssignSound ==
  ASSUME StringInv, NoText \notin Seq(Chars), NEW p \in Strings, NEW o \in Strings, StringLax = {}, StringCopyAssign(p, o)
  PROVE  Reads
<1>1. UsableString(o) /\ ~(p = o /\ strings[o].sso) /\ StringBecomes(p, AssignCopy(strings[p], strings[o]))
  BY DEF StringCopyAssign
<1>2. Spells(strings[o], TextsShown[o])
  BY <1>1, ShownIs
<1>3. ~strings[o].sso /\ ~strings[p].sso => Len(TextsShown[o]) # strings[p].capacity
  <2>1. SUFFICES ASSUME ~strings[o].sso, ~strings[p].sso  PROVE Len(TextsShown[o]) # strings[p].capacity
    OBVIOUS
  <2>2. strings[o].length = Len(TextsShown[o]) /\ InBuffer(strings[o], TextsShown[o])
    BY <1>2, <2>1, SpelledIs
  <2>3. Len(TextsShown[o]) \in Nat /\ MaxSso \in Nat
    BY <1>2, SsoAssumption DEF Spells
  <2>4. Len(TextsShown[o]) > MaxSso
    BY <2>2, <2>3 DEF InBuffer
  <2>5. Fits(p, strings[o].length)
    BY <2>1 DEF StringCopyAssign
  <2>6. QED
    BY <2>1, <2>2, <2>4, <2>5 DEF Fits
<1>4. PICK t : Spells(strings[p], t) \/ strings[p] = Zeroed
  BY Assignable
<1>5. Spells(AssignCopy(strings[p], strings[o]), TextsShown[o])
  BY <1>2, <1>3, <1>4, AssignCopySpells
<1>6. QED
  BY <1>1, <1>5, Copied

LEMMA StringMoveSound ==
  ASSUME StringInv, NoText \notin Seq(Chars), NEW p \in Strings, NEW o \in Strings, StringLax = {}, StringMove(p, o)
  PROVE  Reads
<1>1. p # o /\ strings' = [strings EXCEPT ![p] = strings[o], ![o] = Zeroed] /\ strings = [q \in Strings |-> strings[q]]
  BY DEF StringMove, StringInv
<1>2. strings' = [q \in Strings |-> strings'[q]] /\ strings'[p] = strings[o] /\ strings'[o] = Zeroed
  BY <1>1
<1>3. \A q \in Strings : q # p /\ q # o => strings'[q] = strings[q]
  BY <1>1
<1>4. StringInv'
  <2>1. \A q \in Strings : strings'[q] = Zeroed \/ Spells(strings'[q], TextOf(strings'[q]))
    BY <1>2, <1>3 DEF StringInv
  <2>2. QED
    BY <1>2, <2>1 DEF StringInv
<1>5. TextsShown' = [TextsShown EXCEPT ![p] = TextsShown[o], ![o] = NoText]
  <2>1. TextsShown'[p] = TextsShown[o]
    BY <1>2 DEF TextsShown, TextAt, UsableString
  <2>2. TextsShown'[o] = NoText
    BY <1>2 DEF TextsShown, TextAt, UsableString
  <2>3. \A q \in Strings : q # p /\ q # o => TextsShown'[q] = TextsShown[q]
    BY <1>3 DEF TextsShown, TextAt, UsableString
  <2>4. TextsShown' = [q \in Strings |-> TextsShown'[q]] /\ TextsShown = [q \in Strings |-> TextsShown[q]]
    BY DEF TextsShown
  <2>5. QED
    BY <1>1, <2>1, <2>2, <2>3, <2>4
<1>6. QED
  BY <1>1, <1>4, <1>5 DEF Reads, T!Step, T!Move

LEMMA StringAppendSound ==
  ASSUME StringInv, NoText \notin Seq(Chars), NEW p \in Strings, StringAppend(p)  PROVE Reads
<1>1. UsableString(p)
  BY DEF StringAppend
<1>2. Spells(strings[p], TextsShown[p])
  BY <1>1, ShownIs
<1>3. ASSUME NEW c \in Chars, StringBecomes(p, AppendChar(strings[p], c))  PROVE Reads
  <2>1. Spells(AppendChar(strings[p], c), TextsShown[p] \o <<c>>)
    BY <1>2, AppendCharSpells
  <2>2. QED
    BY <1>1, <1>3, <2>1, JoinedWith
<1>4. ASSUME NEW s \in Texts, StringBecomes(p, AppendStr(strings[p], s))  PROVE Reads
  <2>1. Spells(AppendStr(strings[p], s), TextsShown[p] \o s)
    BY <1>2, TextsAre, AppendStrSpells
  <2>2. QED
    BY <1>1, <1>4, <2>1, JoinedWith
<1>5. ASSUME NEW o \in Strings, UsableString(o), StringBecomes(p, AppendStr(strings[p], TextOf(strings[o])))  PROVE Reads
  <2>1. TextOf(strings[o]) = TextsShown[o] /\ TextsShown[o] \in Seq(Chars)
    BY <1>5, ShownIs
  <2>2. Spells(AppendStr(strings[p], TextOf(strings[o])), TextsShown[p] \o TextsShown[o])
    BY <1>2, <2>1, AppendStrSpells
  <2>3. QED
    BY <1>1, <1>5, <2>2, JoinedBoth
<1>6. QED
  BY <1>3, <1>4, <1>5 DEF StringAppend

LEMMA StringAppendOwnSound ==
  ASSUME StringInv, NoText \notin Seq(Chars), NEW p \in Strings, StringLax = {}, StringAppendOwn(p)  PROVE Reads
<1>1. UsableString(p) /\ StringBecomes(p, AppendStr(strings[p], TextOf(strings[p])))
  BY DEF StringAppendOwn
<1>2. Spells(strings[p], TextsShown[p]) /\ TextOf(strings[p]) = TextsShown[p] /\ TextsShown[p] \in Seq(Chars)
  BY <1>1, ShownIs
<1>3. Spells(AppendStr(strings[p], TextOf(strings[p])), TextsShown[p] \o TextsShown[p])
  BY <1>2, AppendStrSpells
<1>4. QED
  BY <1>1, <1>3, JoinedBoth

LEMMA StringConcatSound ==
  ASSUME StringInv, NoText \notin Seq(Chars), NEW p \in Strings, NEW o \in Strings, StringConcat(p, o)  PROVE Reads
<1>1. UsableString(o)
  BY DEF StringConcat
<1>2. TextOf(strings[o]) = TextsShown[o] /\ TextsShown[o] \in Seq(Chars)
  BY <1>1, ShownIs
<1> DEFINE t == TextsShown[o]
<1>3. ASSUME NEW v \in Texts \cup {<<c>> : c \in Chars}
      PROVE  Spells(Concatenated(t \o v), t \o v) /\ Spells(Concatenated(v \o t), v \o t)
  <2>1. v \in Seq(Chars) /\ t \in Seq(Chars)
    BY <1>2, TextsAre
  <2> HIDE DEF t
  <2>2. t \o v \in Seq(Chars) /\ v \o t \in Seq(Chars)
    BY <2>1
  <2>3. QED
    BY <2>2, ConcatenatedSpells
<1>4. ASSUME NEW v \in Texts \cup {<<c>> : c \in Chars}, NEW r,
             r = Concatenated(t \o v) \/ r = Concatenated(v \o t), StringBecomes(p, r)
      PROVE  Reads
  <2>1. PICK s : Spells(r, s) /\ (s = TextsShown[o] \o v \/ s = v \o TextsShown[o])
    BY <1>3, <1>4
  <2>2. QED
    BY <1>1, <1>4, <2>1, JoinedWith
<1>5. ASSUME NEW c \in Chars, StringBecomes(p, ConcatChar(strings[o], c)) \/ StringBecomes(p, CharConcat(c, strings[o]))
      PROVE  Reads
  <2>1. ConcatChar(strings[o], c) = Concatenated(t \o <<c>>)
    <3>1. Append(t, c) = t \o <<c>>
      BY <1>2
    <3>2. QED
      BY <1>2, <3>1 DEF ConcatChar
  <2>2. CharConcat(c, strings[o]) = Concatenated(<<c>> \o t)
    BY <1>2 DEF CharConcat
  <2> HIDE DEF t
  <2>3. QED
    BY <1>4, <1>5, <2>1, <2>2
<1>6. ASSUME NEW s \in Texts, StringBecomes(p, ConcatStr(strings[o], s)) \/ StringBecomes(p, StrConcat(s, strings[o]))
      PROVE  Reads
  <2>1. ConcatStr(strings[o], s) = Concatenated(t \o s) /\ StrConcat(s, strings[o]) = Concatenated(s \o t)
    BY <1>2 DEF ConcatStr, StrConcat
  <2> HIDE DEF t
  <2>2. QED
    BY <1>4, <1>6, <2>1
<1>7. QED
  BY <1>5, <1>6 DEF StringConcat

LEMMA StringSubstringSound ==
  ASSUME StringInv, NoText \notin Seq(Chars), NEW p \in Strings, NEW o \in Strings, StringLax = {}, StringSubstring(p, o)
  PROVE  Reads
<1>1. UsableString(o)
  BY DEF StringSubstring
<1>2. Spells(strings[o], TextsShown[o]) /\ TextsShown[o] # NoText
  BY <1>1, ShownIs
<1>3. strings[o].length = Len(TextsShown[o]) /\ Len(TextsShown[o]) \in Nat
  BY <1>2, SpelledIs
<1>4. PICK j \in 1 .. Len(TextsShown[o]) : \E i \in 0 .. j - 1 :
        j - i # MaxSso /\ StringBecomes(p, Substring(strings[o], i, j))
  BY <1>3 DEF StringSubstring
<1>5. PICK i \in 0 .. j - 1 : j - i # MaxSso /\ StringBecomes(p, Substring(strings[o], i, j))
  BY <1>4
<1>6. Spells(Substring(strings[o], i, j), SubSeq(TextsShown[o], i + 1, j))
  BY <1>2, <1>5, SubstringSpells
<1>7. StringInv' /\ T!Write(TextsShown, TextsShown', p, SubSeq(TextsShown[o], i + 1, j))
  BY <1>5, <1>6, Becoming
<1>8. i + 1 \in 1 .. Len(TextsShown[o])
  BY <1>3
<1>9. T!Cut(TextsShown, TextsShown', p, o)
  BY <1>2, <1>7, <1>8 DEF T!Cut
<1>10. QED
  BY <1>7, <1>9 DEF Reads, T!Step

LEMMA StringNextSound ==
  ASSUME StringInv, NoText \notin Seq(Chars), StringLax = {}, StringNext  PROVE Reads
<1>1. PICK p \in Strings :
        \/ StringDestroy(p) \/ StringConstruct(p) \/ StringAssign(p)
        \/ StringAppend(p) \/ StringAppendOwn(p)
        \/ \E o \in Strings : \/ StringCopyAssign(p, o) \/ StringMove(p, o)
                              \/ StringConcat(p, o) \/ StringSubstring(p, o)
  BY DEF StringNext
<1>2. CASE StringDestroy(p)  BY <1>2, StringDestroySound
<1>3. CASE StringConstruct(p)  BY <1>3, StringConstructSound
<1>4. CASE StringAssign(p)  BY <1>4, StringAssignSound
<1>5. CASE StringAppend(p)  BY <1>5, StringAppendSound
<1>6. CASE StringAppendOwn(p)  BY <1>6, StringAppendOwnSound
<1>7. ASSUME NEW o \in Strings, StringCopyAssign(p, o)  PROVE Reads
  BY <1>7, StringCopyAssignSound
<1>8. ASSUME NEW o \in Strings, StringMove(p, o)  PROVE Reads
  BY <1>8, StringMoveSound
<1>9. ASSUME NEW o \in Strings, StringConcat(p, o)  PROVE Reads
  BY <1>9, StringConcatSound
<1>10. ASSUME NEW o \in Strings, StringSubstring(p, o)  PROVE Reads
  BY <1>10, StringSubstringSound
<1>11. QED
  BY <1>1, <1>2, <1>3, <1>4, <1>5, <1>6, <1>7, <1>8, <1>9, <1>10

LEMMA StringInitSound ==
  ASSUME StringInit  PROVE StringInv /\ TextsShown = [p \in Strings |-> <<>>]
<1>1. strings = [p \in Strings |-> Short(<<>>)]
  BY DEF StringInit
<1>2. <<>> \in Seq(Chars) /\ Len(<<>>) <= MaxSso
  BY SsoAssumption
<1>3. Spells(Short(<<>>), <<>>)
  BY <1>2, ShortSpells
<1>4. TextOf(Short(<<>>)) = <<>> /\ Short(<<>>) # Zeroed
  BY <1>3, SpelledText
<1>5. \A p \in Strings : strings[p] = Short(<<>>)
  BY <1>1
<1>6. StringInv
  BY <1>1, <1>3, <1>4, <1>5 DEF StringInv
<1>7. QED
  BY <1>4, <1>5, <1>6 DEF TextsShown, TextAt, UsableString

\* Every string that was not moved from lies in the object if it fits, else in a buffer that has room
\* for a terminator, with nothing but terminators behind the text.
THEOREM StringsAreSpelled == ASSUME StringLax = {}, NoText \notin Seq(Chars)  PROVE StringSpec => []StringInv
<1>1. StringInit => StringInv
  BY StringInitSound
<1>2. StringInv /\ [StringNext]_strings => StringInv'
  <2>1. ASSUME StringInv, StringNext  PROVE StringInv'
    BY <2>1, StringNextSound DEF Reads
  <2>2. ASSUME StringInv, UNCHANGED strings  PROVE StringInv'
    BY <2>2 DEF StringInv
  <2>3. QED
    BY <2>1, <2>2
<1>3. QED
  BY <1>1, <1>2, PTL DEF StringSpec

\* String implements TextValues: whether a text lies in the object or in a buffer, old or new, every
\* call gives its string the text it says, and changes no other.
THEOREM StringsAreTexts == ASSUME StringLax = {}, NoText \notin Seq(Chars)  PROVE StringSpec => StringTextSpec
<1>1. StringInit => T!Init
  BY StringInitSound DEF T!Init, TextsShown
<1>2. StringInv /\ [StringNext]_strings => [T!Next]_([p \in Strings |-> TextAt(p)])
  <2>1. ASSUME StringInv, StringNext  PROVE T!Next
    <3>1. T!Step(TextsShown, TextsShown')
      BY <2>1, StringNextSound DEF Reads
    <3>2. QED
      BY <3>1 DEF T!Next, TextsShown
  <2>2. ASSUME UNCHANGED strings  PROVE UNCHANGED [p \in Strings |-> TextAt(p)]
    BY <2>2 DEF TextAt, UsableString
  <2>3. QED
    BY <2>1, <2>2
<1>3. QED
  BY <1>1, <1>2, StringsAreSpelled, PTL DEF StringSpec, StringTextSpec, T!Spec

-----------------------------------------------------------------------------
(* Comparisons and searches *)

\* The text t seen as characters that end: where each is, and Nul behind them.
CharAt(t, i) == IF i < Len(t) THEN t[i + 1] ELSE Nul

LEMMA SameText ==
  ASSUME NEW s \in Seq(Chars), NEW t \in Seq(Chars), Len(s) = Len(t), NEW n \in Nat, Len(s) <= n,
         \A i \in 0 .. n - 1 : CharAt(s, i) = CharAt(t, i)
  PROVE  s = t
<1>1. Len(s) \in Nat
  OBVIOUS
<1>2. ASSUME NEW j \in 1 .. Len(s)  PROVE s[j] = t[j]
  <2>1. PICK i \in 0 .. n - 1 : i + 1 = j /\ i < Len(s)
    BY <1>1
  <2>2. CharAt(s, i) = s[j] /\ CharAt(t, i) = t[j]
    BY <2>1 DEF CharAt
  <2>3. QED
    BY <2>2
<1>3. QED
  BY <1>2

LEMMA SpelledChars ==
  ASSUME NEW r, NEW s, Spells(r, s)
  PROVE  \E n \in Nat : /\ DOMAIN r.chars = 0 .. n - 1 /\ Len(s) <= n
                        /\ n = IF r.sso THEN MaxSso ELSE r.capacity
                        /\ \A i \in 0 .. n - 1 : r.chars[i] = CharAt(s, i)
  BY SpelledIs DEF CharAt

\* Where the vectors of a buffer with the text end.
LEMMA BufferVectors ==
  ASSUME NEW r, NEW s, Spells(r, s), ~r.sso, NEW w \in Vectors, NEW n \in Nat, n <= Len(s) + 1
  PROVE  /\ WholeVectors(n, w) \in Nat /\ n <= WholeVectors(n, w)
         /\ WholeVectors(n, w) <= r.capacity /\ r.capacity \in Nat
<1>1. Len(s) < r.capacity /\ r.capacity \in Nat /\ r.capacity % Align = 0 /\ Len(s) \in Nat
  BY SpelledIs DEF InBuffer
<1>2. w \in Nat \ {0} /\ r.capacity % w = 0
  BY <1>1, VectorsAre
<1>3. n <= r.capacity
  BY <1>1
<1>4. WholeVectors(n, w) <= r.capacity
  BY <1>1, <1>2, <1>3, WholeVectorsFit
<1>5. WholeVectors(n, w) \in Nat /\ n <= WholeVectors(n, w)
  BY <1>2, WholeVectorsIs
<1>6. QED
  BY <1>1, <1>4, <1>5

LEMMA TerminatedIs ==
  ASSUME NEW r, NEW s, Spells(r, s), ~r.sso
  PROVE  Char(r, r.length) = Nul /\ r.length < r.capacity
<1>1. r.length = Len(s) /\ Len(s) \in Nat /\ InBuffer(r, s)
  BY SpelledIs
<1>2. Char(r, Len(s)) = Nul
  BY <1>1, SpelledText
<1>3. QED
  BY <1>1, <1>2 DEF InBuffer

LEMMA BuffersEqual ==
  ASSUME NEW r, NEW s, Spells(r, s), ~r.sso, NEW o, NEW t, Spells(o, t), ~o.sso, NEW w \in Vectors, Len(s) = Len(t)
  PROVE  EqualBuffers(r, o, w) <=> s = t
<1> DEFINE m == WholeVectors(r.length + 1, w)
<1>1. /\ s \in Seq(Chars) /\ t \in Seq(Chars) /\ Len(s) \in Nat /\ r.length = Len(s)
  BY SpelledIs
<1>2. Len(s) + 1 \in Nat /\ Len(s) + 1 <= Len(s) + 1 /\ Len(s) + 1 <= Len(t) + 1
  BY <1>1
<1>3. m = WholeVectors(Len(s) + 1, w)
  BY <1>1
<1>4. m \in Nat /\ Len(s) + 1 <= m /\ m <= r.capacity /\ r.capacity \in Nat
  BY <1>2, <1>3, BufferVectors
<1>5. m <= o.capacity /\ o.capacity \in Nat
  BY <1>2, <1>3, BufferVectors
<1>6. EqualBuffers(r, o, w) <=>
        \A i \in 0 .. m - 1 : i \in DOMAIN r.chars /\ i \in DOMAIN o.chars /\ r.chars[i] = o.chars[i]
  BY DEF EqualBuffers
<1> HIDE DEF m
<1>7. DOMAIN r.chars = 0 .. r.capacity - 1 /\ \A i \in 0 .. r.capacity - 1 : r.chars[i] = CharAt(s, i)
  BY SpelledChars
<1>8. DOMAIN o.chars = 0 .. o.capacity - 1 /\ \A i \in 0 .. o.capacity - 1 : o.chars[i] = CharAt(t, i)
  BY SpelledChars
<1>9. \A i \in 0 .. m - 1 : i \in 0 .. r.capacity - 1 /\ i \in 0 .. o.capacity - 1
  BY <1>4, <1>5
<1>10. EqualBuffers(r, o, w) <=> \A i \in 0 .. m - 1 : CharAt(s, i) = CharAt(t, i)
  BY <1>6, <1>7, <1>8, <1>9
<1>11. Len(s) <= m
  BY <1>1, <1>4
<1>12. (\A i \in 0 .. m - 1 : CharAt(s, i) = CharAt(t, i)) => s = t
  BY <1>1, <1>4, <1>11, SameText
<1>13. QED
  BY <1>10, <1>12

LEMMA StringsEqual ==
  ASSUME NEW r, NEW s, Spells(r, s), NEW o, NEW t, Spells(o, t), NEW w \in Vectors
  PROVE  EqualStrings(r, o, w) <=> s = t
<1>1. r.length = Len(s) /\ Len(s) \in Nat /\ (r.sso <=> Len(s) <= MaxSso) /\ (r.sso => r = Short(s))
  BY SpelledIs
<1>2. o.length = Len(t) /\ Len(t) \in Nat /\ (o.sso <=> Len(t) <= MaxSso) /\ (o.sso => o = Short(t))
  BY SpelledIs
<1>3. TextOf(r) = s /\ TextOf(o) = t
  BY SpelledText
<1>4. CASE r.sso
  <2>1. EqualStrings(r, o, w) <=> r = o
    BY <1>4 DEF EqualStrings
  <2>2. ASSUME s = t  PROVE r = o
    BY <1>1, <1>2, <1>4, <2>2
  <2>3. QED
    BY <1>3, <2>1, <2>2
<1>5. CASE ~r.sso
  <2>1. EqualStrings(r, o, w) <=> (Len(s) = Len(t) /\ EqualBuffers(r, o, w))
    BY <1>1, <1>2, <1>5 DEF EqualStrings
  <2>2. CASE Len(s) = Len(t)
    <3>1. ~o.sso
      BY <1>1, <1>2, <1>5, <2>2
    <3>2. EqualBuffers(r, o, w) <=> s = t
      BY <1>5, <2>2, <3>1, BuffersEqual
    <3>3. QED
      BY <2>1, <2>2, <3>2
  <2>3. CASE Len(s) # Len(t)
    BY <2>1, <2>3
  <2>4. QED
    BY <2>2, <2>3
<1>6. QED
  BY <1>4, <1>5

LEMMA HashesAgree ==
  ASSUME NEW r, NEW o, NEW s, Spells(r, s), Spells(o, s)
  PROVE  StringHash(r) = StringHash(o)
<1>1. r.length = Len(s) /\ Len(s) \in Nat /\ (r.sso <=> Len(s) <= MaxSso) /\ r.sso \in BOOLEAN
  BY SpelledIs
<1>2. o.length = Len(s) /\ (o.sso <=> Len(s) <= MaxSso) /\ o.sso \in BOOLEAN
  BY SpelledIs
<1> DEFINE w == Align \div 2
           count == (Len(s) + w - 1) \div w
           Taken(i) == IF i < count - 1 THEN w ELSE count * i - Len(s)
<1>3. \A i \in Nat : Char(r, i) = Char(o, i)
  BY SpelledText
<1>4. w \in Nat
  BY SsoAssumption
<1>5. StringHash(r) = <<Len(s), IF r.sso THEN <<HashedVector(r, 0, Len(s))>>
                       ELSE [i \in 1 .. count |-> HashedVector(r, (i - 1) * w, Taken(i - 1))]>>
  BY <1>1 DEF StringHash
<1>6. StringHash(o) = <<Len(s), IF o.sso THEN <<HashedVector(o, 0, Len(s))>>
                       ELSE [i \in 1 .. count |-> HashedVector(o, (i - 1) * w, Taken(i - 1))]>>
  BY <1>2 DEF StringHash
<1>7. ASSUME NEW i \in Nat, NEW n  PROVE HashedVector(r, i, n) = HashedVector(o, i, n)
  <2>1. \A k \in 0 .. w - 1 : Char(r, i + k) = Char(o, i + k)
    <3> TAKE k \in 0 .. w - 1
    <3>1. i + k \in Nat
      BY <1>4
    <3>2. QED
      BY <1>3, <3>1
  <2>2. QED
    BY <2>1 DEF HashedVector
<1>8. \A i \in 1 .. count : (i - 1) * w \in Nat
  BY <1>4
<1>9. 0 \in Nat
  OBVIOUS
<1> HIDE DEF w, count, Taken
<1>10. [i \in 1 .. count |-> HashedVector(r, (i - 1) * w, Taken(i - 1))]
         = [i \in 1 .. count |-> HashedVector(o, (i - 1) * w, Taken(i - 1))]
  BY <1>7, <1>8
<1>11. HashedVector(r, 0, Len(s)) = HashedVector(o, 0, Len(s))
  BY <1>7, <1>9
<1>12. CASE r.sso
  <2>1. o.sso
    BY <1>1, <1>2, <1>12
  <2>2. StringHash(r) = <<Len(s), <<HashedVector(r, 0, Len(s))>>>> /\ StringHash(o) = <<Len(s), <<HashedVector(o, 0, Len(s))>>>>
    BY <1>5, <1>6, <1>12, <2>1
  <2>3. QED
    BY <1>11, <2>2
<1>13. CASE ~r.sso
  <2>1. ~o.sso
    BY <1>1, <1>2, <1>13
  <2>2. StringHash(r) = <<Len(s), [i \in 1 .. count |-> HashedVector(r, (i - 1) * w, Taken(i - 1))]>>
    BY <1>5, <1>13
  <2>3. StringHash(o) = <<Len(s), [i \in 1 .. count |-> HashedVector(o, (i - 1) * w, Taken(i - 1))]>>
    BY <1>6, <2>1
  <2>4. QED
    BY <1>10, <2>2, <2>3
<1>14. QED
  BY <1>12, <1>13

\* The places at which s occurs in t.
Occurring(t, s) == {i \in 0 .. Len(t) - Len(s) : s # <<>> /\ SubSeq(t, i + 1, i + Len(s)) = s}

LEMMA OccurrenceIs == ASSUME NEW t, NEW s  PROVE Occurrence(t, s) = FirstOf(Occurring(t, s), Len(t))
  BY DEF Occurrence, Occurring

LEMMA OccursAt ==
  ASSUME NEW t \in Seq(Chars), NEW s \in Seq(Chars), NEW i \in 0 .. Len(t) - Len(s)
  PROVE  SubSeq(t, i + 1, i + Len(s)) = s <=> \A k \in 1 .. Len(s) : t[i + k] = s[k]
<1> DEFINE u == SubSeq(t, i + 1, i + Len(s))
<1>1. Len(t) \in Nat /\ Len(s) \in Nat
  OBVIOUS
<1>2. i + 1 \in 1 .. Len(t) + 1 /\ i + Len(s) \in (i + 1) - 1 .. Len(t)
  BY <1>1
<1>3. /\ u \in Seq(Chars) /\ Len(u) = (i + Len(s)) - (i + 1) + 1
      /\ \A j \in 1 .. (i + Len(s)) - (i + 1) + 1 : u[j] = t[(i + 1) + j - 1]
  BY <1>2, SubSeqIs
<1> HIDE DEF u
<1>4. Len(u) = Len(s) /\ \A k \in 1 .. Len(s) : u[k] = t[i + k]
  BY <1>1, <1>3
<1>5. u = s <=> \A k \in 1 .. Len(s) : u[k] = s[k]
  BY <1>3, <1>4, SameSeq
<1>6. QED
  BY <1>4, <1>5 DEF u

LEMMA CharOccurs ==
  ASSUME NEW t \in Seq(Chars), NEW c \in Chars, NEW n \in Nat, Len(t) <= n
  PROVE  {i \in 0 .. n - 1 : CharAt(t, i) = c} = Occurring(t, <<c>>)
<1> DEFINE v == <<c>>
<1>1. v \in Seq(Chars) /\ Len(v) = 1 /\ v # <<>> /\ v[1] = c /\ c # Nul /\ Len(t) \in Nat
  BY CharsAssumption
<1> HIDE DEF v
<1>2. ASSUME NEW i \in 0 .. Len(t) - Len(v)  PROVE SubSeq(t, i + 1, i + Len(v)) = v <=> t[i + 1] = c
  <2>1. SubSeq(t, i + 1, i + Len(v)) = v <=> \A k \in 1 .. Len(v) : t[i + k] = v[k]
    BY <1>1, OccursAt
  <2>2. (\A k \in 1 .. Len(v) : t[i + k] = v[k]) <=> t[i + 1] = v[1]
    BY <1>1
  <2>3. QED
    BY <1>1, <2>1, <2>2
<1>3. ASSUME NEW i \in 0 .. n - 1, CharAt(t, i) = c  PROVE i \in Occurring(t, v)
  <2>1. i < Len(t) /\ t[i + 1] = c
    BY <1>1, <1>3 DEF CharAt
  <2>2. i \in 0 .. Len(t) - Len(v)
    BY <1>1, <2>1
  <2>3. QED
    BY <1>1, <1>2, <2>1, <2>2 DEF Occurring
<1>4. ASSUME NEW i \in Occurring(t, v)  PROVE i \in 0 .. n - 1 /\ CharAt(t, i) = c
  <2>1. i \in 0 .. Len(t) - Len(v) /\ SubSeq(t, i + 1, i + Len(v)) = v
    BY DEF Occurring
  <2>2. t[i + 1] = c
    BY <1>2, <2>1
  <2>3. i \in 0 .. n - 1 /\ i < Len(t)
    BY <1>1, <2>1
  <2>4. QED
    BY <2>2, <2>3 DEF CharAt
<1>5. QED
  BY <1>3, <1>4 DEF v

LEMMA CharFound ==
  ASSUME NEW r, NEW t, Spells(r, t), NEW c \in Chars, NEW w \in Vectors
  PROVE  FindChar(r, c, w) = Occurrence(t, <<c>>)
<1>1. r.length = Len(t) /\ Len(t) \in Nat /\ t \in Seq(Chars) /\ MaxSso \in Nat /\ (r.sso <=> Len(t) <= MaxSso)
  BY SpelledIs, SsoAssumption
<1>2. CASE r.sso
  <2>1. \A i \in 0 .. MaxSso - 1 : r.chars[i] = CharAt(t, i)
    BY <1>2, SpelledChars
  <2>2. {i \in 0 .. MaxSso - 1 : r.chars[i] = c} = {i \in 0 .. MaxSso - 1 : CharAt(t, i) = c}
    BY <2>1
  <2>3. {i \in 0 .. MaxSso - 1 : CharAt(t, i) = c} = Occurring(t, <<c>>)
    BY <1>1, <1>2, CharOccurs
  <2>4. FindChar(r, c, w) = FirstOf({i \in 0 .. MaxSso - 1 : r.chars[i] = c}, Len(t))
    BY <1>1, <1>2 DEF FindChar
  <2>5. QED
    BY <2>2, <2>3, <2>4, OccurrenceIs
<1>3. CASE ~r.sso
  <2> DEFINE m == WholeVectors(r.length, w)
  <2>1. Len(t) <= Len(t) + 1
    BY <1>1
  <2>2. m \in Nat /\ Len(t) <= m /\ m <= r.capacity /\ r.capacity \in Nat
    BY <1>1, <1>3, <2>1, BufferVectors
  <2>3. FindChar(r, c, w) = FirstOf({i \in 0 .. m - 1 : r.chars[i] = c}, Len(t))
    BY <1>1, <1>3 DEF FindChar, FindInBuffer
  <2> HIDE DEF m
  <2>4. \A i \in 0 .. r.capacity - 1 : r.chars[i] = CharAt(t, i)
    BY <1>3, SpelledChars
  <2>5. \A i \in 0 .. m - 1 : r.chars[i] = CharAt(t, i)
    BY <2>2, <2>4
  <2>6. {i \in 0 .. m - 1 : r.chars[i] = c} = {i \in 0 .. m - 1 : CharAt(t, i) = c}
    BY <2>5
  <2>7. {i \in 0 .. m - 1 : CharAt(t, i) = c} = Occurring(t, <<c>>)
    BY <1>1, <2>2, CharOccurs
  <2>8. QED
    BY <2>3, <2>6, <2>7, OccurrenceIs
<1>4. QED
  BY <1>2, <1>3

LEMMA CharEqual ==
  ASSUME NEW r, NEW t, Spells(r, t), NEW c \in Chars
  PROVE  EqualToChar(r, c) <=> t = <<c>>
<1>1. r.length = Len(t) /\ Len(t) \in Nat /\ t \in Seq(Chars) /\ (r.sso <=> Len(t) <= MaxSso)
  BY SpelledIs
<1>2. MaxSso \in Nat /\ MaxSso >= 1
  BY SsoAssumption
<1>3. r.sso => r.chars[0] = CharAt(t, 0)
  BY <1>2, SpelledChars
<1>4. t = <<c>> <=> Len(t) = 1 /\ t[1] = c
  BY <1>1
<1>5. Len(t) = 1 => r.sso /\ CharAt(t, 0) = t[1]
  BY <1>1, <1>2 DEF CharAt
<1>6. QED
  BY <1>1, <1>3, <1>4, <1>5 DEF EqualToChar

LEMMA StrEqual ==
  ASSUME NEW r, NEW t, Spells(r, t), NEW s \in Seq(Chars)
  PROVE  EqualToStr(r, s) <=> t = s
<1>1. r.length = Len(t) /\ Len(t) \in Nat /\ t \in Seq(Chars) /\ (r.sso <=> Len(t) <= MaxSso) /\ (r.sso => r = Short(t))
  BY SpelledIs
<1>2. TextOf(r) = t /\ MaxSso \in Nat
  BY SpelledText, SsoAssumption
<1>3. CASE r.sso
  <2>1. r.chars = Padded(t, MaxSso)
    BY <1>1, <1>3 DEF Short
  <2>2. ASSUME Len(t) = Len(s), Padded(t, MaxSso) = Padded(s, MaxSso)  PROVE t = s
    <3>1. \A i \in 0 .. MaxSso - 1 : CharAt(t, i) = CharAt(s, i)
      BY <1>1, <1>2, <2>2, PaddedIs DEF CharAt
    <3>2. Len(t) <= MaxSso
      BY <1>1, <1>3
    <3>3. QED
      BY <1>1, <1>2, <2>2, <3>1, <3>2, SameText
  <2>3. QED
    BY <1>1, <1>3, <2>1, <2>2 DEF EqualToStr
<1>4. CASE ~r.sso
  BY <1>1, <1>2, <1>4 DEF EqualToStr, EqualBufferToStr
<1>5. QED
  BY <1>3, <1>4

LEMMA MatchesOccur ==
  ASSUME NEW r, NEW t, Spells(r, t), NEW s \in Seq(Chars), s # <<>>
  PROVE  Matches(r, s) = Occurring(t, s)
<1>1. r.length = Len(t) /\ Len(t) \in Nat /\ t \in Seq(Chars) /\ Len(s) \in Nat \ {0} /\ Nul \notin Chars
  BY SpelledIs, CharsAssumption
<1>2. \A i \in Nat : Char(r, i) = CharAt(t, i)
  BY SpelledText DEF CharAt
<1>3. Matches(r, s) = {i \in 0 .. Len(t) - 1 : \A k \in 1 .. Len(s) : Char(r, i + k - 1) = s[k]}
  BY <1>1 DEF Matches
<1>4. ASSUME NEW i \in 0 .. Len(t) - 1, \A k \in 1 .. Len(s) : Char(r, i + k - 1) = s[k]
      PROVE  i \in Occurring(t, s)
  <2>1. ASSUME NEW k \in 1 .. Len(s)  PROVE i + k <= Len(t) /\ t[i + k] = s[k]
    <3>1. i + k - 1 \in Nat /\ s[k] \in Chars
      BY <1>1
    <3>2. CharAt(t, i + k - 1) = s[k]
      BY <1>2, <1>4, <3>1
    <3>3. i + k - 1 < Len(t)
      BY <1>1, <3>1, <3>2 DEF CharAt
    <3>4. CharAt(t, i + k - 1) = t[(i + k - 1) + 1]
      BY <3>3 DEF CharAt
    <3>5. (i + k - 1) + 1 = i + k
      BY <3>1
    <3>6. QED
      BY <1>1, <3>2, <3>3, <3>4, <3>5
  <2>2. Len(s) \in 1 .. Len(s)
    BY <1>1
  <2>3. i + Len(s) <= Len(t)
    BY <2>1, <2>2
  <2>4. i \in 0 .. Len(t) - Len(s)
    BY <1>1, <2>3
  <2>5. SubSeq(t, i + 1, i + Len(s)) = s
    BY <1>1, <2>1, <2>4, OccursAt
  <2>6. QED
    BY <2>4, <2>5 DEF Occurring
<1>5. ASSUME NEW i \in Occurring(t, s)
      PROVE  i \in 0 .. Len(t) - 1 /\ \A k \in 1 .. Len(s) : Char(r, i + k - 1) = s[k]
  <2>1. i \in 0 .. Len(t) - Len(s) /\ SubSeq(t, i + 1, i + Len(s)) = s
    BY DEF Occurring
  <2>2. \A k \in 1 .. Len(s) : t[i + k] = s[k]
    BY <1>1, <2>1, OccursAt
  <2>3. i \in 0 .. Len(t) - 1
    BY <1>1, <2>1
  <2>4. ASSUME NEW k \in 1 .. Len(s)  PROVE Char(r, i + k - 1) = s[k]
    <3>1. i + k - 1 \in Nat /\ i + k - 1 < Len(t) /\ (i + k - 1) + 1 = i + k
      BY <1>1, <2>1
    <3>2. CharAt(t, i + k - 1) = t[i + k]
      BY <3>1 DEF CharAt
    <3>3. QED
      BY <1>2, <2>2, <3>1, <3>2
  <2>5. QED
    BY <2>3, <2>4
<1>6. QED
  BY <1>3, <1>4, <1>5

LEMMA StrFound ==
  ASSUME NEW r, NEW t, Spells(r, t), NEW s \in Seq(Chars), NEW w \in Vectors,
         r.sso \/ w = Align \/ Len(s) \in {1, r.length}
  PROVE  FindStr(r, s, w) = Occurrence(t, s)
<1>1. r.length = Len(t) /\ Len(t) \in Nat /\ t \in Seq(Chars) /\ Len(s) \in Nat /\ (r.sso <=> Len(t) <= MaxSso)
  BY SpelledIs
<1>2. s = <<>> <=> Len(s) = 0
  OBVIOUS
<1>3. CASE Len(s) > r.length \/ s = <<>>
  <2>1. Occurring(t, s) = {}
    BY <1>1, <1>3 DEF Occurring
  <2>2. FindStr(r, s, w) = Len(t)
    BY <1>1, <1>3 DEF FindStr
  <2>3. Occurrence(t, s) = Len(t)
    BY <2>1, OccurrenceIs DEF FirstOf
  <2>4. QED
    BY <2>2, <2>3
<1>4. CASE Len(s) = r.length /\ s # <<>>
  <2>1. FindStr(r, s, w) = IF EqualToStr(r, s) THEN 0 ELSE Len(t)
    BY <1>1, <1>4 DEF FindStr
  <2>2. EqualToStr(r, s) <=> t = s
    BY StrEqual
  <2>3. \A i : i \in 0 .. Len(t) - Len(s) <=> i = 0
    BY <1>1, <1>4
  <2>4. SubSeq(t, 0 + 1, 0 + Len(s)) = t
    BY <1>1, <1>4
  <2>5. (t = s => Occurring(t, s) = {0}) /\ (t # s => Occurring(t, s) = {})
    <3>1. \A i : i \in Occurring(t, s) <=> (i = 0 /\ SubSeq(t, i + 1, i + Len(s)) = s)
      BY <1>4, <2>3 DEF Occurring
    <3>2. \A i : i \in Occurring(t, s) <=> (i = 0 /\ t = s)
      BY <2>4, <3>1
    <3>3. QED
      BY <3>2
  <2>6. FirstOf({0}, Len(t)) = 0 /\ FirstOf({}, Len(t)) = Len(t)
    BY DEF FirstOf
  <2>7. QED
    BY <2>1, <2>2, <2>5, <2>6, OccurrenceIs
<1>5. CASE Len(s) = 1 /\ r.length > 1
  <2>1. FindStr(r, s, w) = FindChar(r, s[1], w)
    BY <1>1, <1>2, <1>5 DEF FindStr
  <2>2. s[1] \in Chars /\ s = <<s[1]>>
    BY <1>5
  <2>3. FindChar(r, s[1], w) = Occurrence(t, <<s[1]>>)
    BY <2>2, CharFound
  <2>4. QED
    BY <2>1, <2>2, <2>3
<1>6. CASE s # <<>> /\ ~(Len(s) > r.length) /\ Len(s) # r.length /\ ~(Len(s) = 1 /\ r.length > 1)
  <2>1. FindStr(r, s, w) = FindSlice(r, s, w)
    BY <1>6 DEF FindStr
  <2>2. Len(s) # 1
    <3>1. SUFFICES ASSUME Len(s) = 1  PROVE FALSE
      OBVIOUS
    <3>2. Len(t) > 1
      BY <1>1, <1>6, <3>1
    <3>3. QED
      BY <1>1, <1>6, <3>1, <3>2
  <2>3. Len(s) \notin {1, r.length}
    BY <1>6, <2>2
  <2>4. r.sso \/ w = Align
    BY <2>3, Zenon
  <2>5. FindSlice(r, s, w) = FirstOf(Matches(r, s), Len(t))
    BY <1>1, <2>4 DEF FindSlice, FindSliceAvx512
  <2>6. Matches(r, s) = Occurring(t, s)
    BY <1>6, MatchesOccur
  <2>7. QED
    BY <2>1, <2>5, <2>6, OccurrenceIs
<1>7. QED
  BY <1>3, <1>4, <1>5, <1>6

\* Comparisons, searches and hashes answer for the texts, whatever vectors the processor has and
\* whichever operations made the strings; a buffer has a terminator behind its text.
THEOREM StringsAreFound == ASSUME StringLax = {}, NoText \notin Seq(Chars)  PROVE StringSpec => []StringLookups
<1>1. StringInv => StringLookups
  <2> SUFFICES ASSUME StringInv, NEW p \in Strings, UsableString(p)
               PROVE  LET r == strings[p]
                          t == TextOf(r) IN
                      /\ ~r.sso => Char(r, r.length) = Nul /\ r.length < r.capacity
                      /\ \A o \in Strings : UsableString(o) =>
                           /\ \A w \in Vectors : EqualStrings(r, strings[o], w) <=> t = TextOf(strings[o])
                           /\ t = TextOf(strings[o]) => StringHash(r) = StringHash(strings[o])
                      /\ \A c \in Chars : /\ EqualToChar(r, c) <=> t = <<c>>
                                          /\ \A w \in Vectors : FindChar(r, c, w) = Occurrence(t, <<c>>)
                      /\ \A s \in Texts : /\ EqualToStr(r, s) <=> t = s
                                          /\ \A w \in Vectors :
                                               Len(s) <= Align /\ (r.sso \/ w = Align \/ Len(s) \in {1, r.length}) =>
                                                 FindStr(r, s, w) = Occurrence(t, s)
    BY DEF StringLookups
  <2> DEFINE r == strings[p]
             t == TextOf(r)
  <2>1. \A o \in Strings : UsableString(o) => Spells(strings[o], TextOf(strings[o]))
    BY DEF StringInv, UsableString
  <2>2. Spells(r, t)
    BY <2>1
  <2> HIDE DEF r, t
  <2>3. ~r.sso => Char(r, r.length) = Nul /\ r.length < r.capacity
    BY <2>2, TerminatedIs
  <2>4. ASSUME NEW o \in Strings, UsableString(o), NEW w \in Vectors
        PROVE  EqualStrings(r, strings[o], w) <=> t = TextOf(strings[o])
    BY <2>1, <2>2, <2>4, StringsEqual
  <2>5. ASSUME NEW o \in Strings, UsableString(o), t = TextOf(strings[o])
        PROVE  StringHash(r) = StringHash(strings[o])
    BY <2>1, <2>2, <2>5, HashesAgree
  <2>6. ASSUME NEW c \in Chars
        PROVE  (EqualToChar(r, c) <=> t = <<c>>) /\ \A w \in Vectors : FindChar(r, c, w) = Occurrence(t, <<c>>)
    BY <2>2, CharEqual, CharFound
  <2>7. ASSUME NEW s \in Texts  PROVE EqualToStr(r, s) <=> t = s
    BY <2>2, CharsAssumption, StrEqual
  <2>8. ASSUME NEW s \in Texts, NEW w \in Vectors, r.sso \/ w = Align \/ Len(s) \in {1, r.length}
        PROVE  FindStr(r, s, w) = Occurrence(t, s)
    BY <2>2, <2>8, CharsAssumption, StrFound
  <2>9. QED
    BY <2>3, <2>4, <2>5, <2>6, <2>7, <2>8 DEF r, t
<1>2. QED
  BY <1>1, StringsAreSpelled, PTL

-----------------------------------------------------------------------------
(* Slices *)

\* A slice s that reads as t.
ReadsAs(s, t) ==
  /\ s.memory \in Seq(Letters) /\ s.len \in 0 .. Len(s.memory)
  /\ t = Seen(s)

LEMMA ReadIs ==
  ASSUME NEW s, NEW t, ReadsAs(s, t)
  PROVE  /\ t \in Seq(Letters) /\ Len(t) = s.len /\ s.len \in Nat
         /\ s.memory \in Seq(Letters) /\ Len(s.memory) \in Nat /\ s.len <= Len(s.memory)
         /\ \A i \in 0 .. s.len - 1 : Byte(s, i) = t[i + 1] /\ t[i + 1] \in Letters
         /\ \A i \in Nat : i >= Len(s.memory) => Byte(s, i) = Terminator
<1> DEFINE m == s.memory
           n == s.len
<1>1. m \in Seq(Letters) /\ n \in 0 .. Len(m) /\ Len(m) \in Nat /\ t = SubSeq(m, 1, n)
  BY DEF ReadsAs, Seen
<1>2. \A i : Byte(s, i) = IF i < Len(m) THEN m[i + 1] ELSE Terminator
  BY DEF Byte
<1> HIDE DEF m, n
<1>3. 1 \in 1 .. Len(m) + 1 /\ n \in 1 - 1 .. Len(m) /\ n \in Nat
  BY <1>1
<1>4. t \in Seq(Letters) /\ Len(t) = n - 1 + 1 /\ \A j \in 1 .. n - 1 + 1 : t[j] = m[1 + j - 1]
  BY <1>1, <1>3, SubSeqIs
<1>5. Len(t) = n /\ \A j \in 1 .. n : t[j] = m[j] /\ t[j] \in Letters
  BY <1>1, <1>3, <1>4
<1>6. \A i \in 0 .. n - 1 : Byte(s, i) = t[i + 1] /\ t[i + 1] \in Letters
  BY <1>1, <1>2, <1>5
<1>7. \A i \in Nat : i >= Len(m) => Byte(s, i) = Terminator
  BY <1>1, <1>2
<1>8. QED
  BY <1>1, <1>3, <1>4, <1>5, <1>6, <1>7 DEF m, n

LEMMA WholeIs ==
  ASSUME NEW p \in Patterns
  PROVE  ReadsAs(Whole(p), p) /\ Whole(p).len = Len(p) /\ Whole(p).memory = p /\ p \in Seq(Letters)
<1>1. p \in Seq(Letters) /\ Whole(p).len = Len(p) /\ Whole(p).memory = p
  BY LettersAssumption DEF Whole
<1>2. Seen(Whole(p)) = p
  BY <1>1 DEF Seen
<1>3. QED
  BY <1>1, <1>2 DEF ReadsAs

\* A slice that fits a vector of either width is loaded whole into the first.
LEMMA LoadedIs ==
  ASSUME NEW s, NEW t, ReadsAs(s, t), s.len < Width
  PROVE  /\ Width \in Nat \ {0} /\ Width <= Vector /\ Vector \in Nat
         /\ LoadedBytes(s, 0) = [k \in 0 .. Width - 1 |-> IF k < s.len THEN t[k + 1] ELSE Terminator]
<1>1. Width \in Nat /\ Width <= Vector /\ Vector \in Nat
  BY VectorAssumption DEF Width
<1>2. s.len \in Nat
  BY ReadIs
<1>3. Width \in Nat \ {0}
  BY <1>1, <1>2
<1>4. (s.len - 0 * Width) % Width = s.len /\ \A k \in Nat : 0 * Width + k = k
  <2>1. 0 * Width = 0
    BY <1>1
  <2>2. s.len % Width = s.len
    BY <1>2, <1>3
  <2>3. s.len - 0 = s.len /\ \A k \in Nat : 0 + k = k
    BY <1>2
  <2>4. QED
    BY <2>1, <2>2, <2>3
<1>5. ASSUME NEW k \in 0 .. Width - 1
      PROVE  (IF k < (s.len - 0 * Width) % Width THEN Byte(s, 0 * Width + k) ELSE Terminator)
               = IF k < s.len THEN t[k + 1] ELSE Terminator
  <2>1. k \in Nat
    BY <1>3
  <2>2. k < s.len => Byte(s, k) = t[k + 1]
    BY <1>2, <2>1, ReadIs
  <2>3. QED
    BY <1>4, <2>1, <2>2
<1>6. QED
  BY <1>1, <1>3, <1>5 DEF LoadedBytes

LEMMA VectorsEqual ==
  ASSUME NEW s, NEW t, ReadsAs(s, t), NEW p, NEW u, ReadsAs(p, u),
         s.len < Width, s.len # 0, s.len = p.len
  PROVE  EqualVectors(s, p) <=> t = u
<1>1. /\ s.len \in Nat /\ t \in Seq(Letters) /\ u \in Seq(Letters) /\ Len(t) = s.len /\ Len(u) = s.len
  BY ReadIs
<1>2. /\ Width \in Nat \ {0} /\ Width <= Vector /\ Vector \in Nat
      /\ LoadedBytes(s, 0) = [k \in 0 .. Width - 1 |-> IF k < s.len THEN t[k + 1] ELSE Terminator]
  BY LoadedIs
<1>3. LoadedBytes(p, 0) = [k \in 0 .. Width - 1 |-> IF k < s.len THEN u[k + 1] ELSE Terminator]
  BY LoadedIs
<1>4. Iterations(s.len, Vector) = 1
  <2>1. s.len + Vector - 1 \in Vector .. 2 * Vector - 1 /\ Vector > 0
    BY <1>1, <1>2
  <2>2. (s.len + Vector - 1) \div Vector = 1
    BY <1>2, <2>1
  <2>3. QED
    BY <2>2 DEF Iterations
<1>5. EqualVectors(s, p) <=> LoadedBytes(s, 0) = LoadedBytes(p, 0)
  BY <1>4 DEF EqualVectors
<1>6. ASSUME LoadedBytes(s, 0) = LoadedBytes(p, 0)  PROVE t = u
  <2>1. ASSUME NEW j \in 1 .. Len(t)  PROVE t[j] = u[j]
    <3>1. PICK k \in 0 .. Width - 1 : k < s.len /\ k + 1 = j
      BY <1>1, <1>2
    <3>2. LoadedBytes(s, 0)[k] = t[j] /\ LoadedBytes(p, 0)[k] = u[j]
      BY <1>2, <1>3, <3>1
    <3>3. QED
      BY <1>6, <3>2
  <2>2. QED
    BY <1>1, <2>1, SameSeq
<1>7. QED
  BY <1>2, <1>3, <1>5, <1>6

LEMMA SlicesEqual ==
  ASSUME NEW s, NEW t, ReadsAs(s, t), NEW p, NEW u, ReadsAs(p, u), simd = "none" \/ s.len < Width
  PROVE  SliceEqual(s, p) <=> t = u
<1>1. s.len = Len(t) /\ p.len = Len(u) /\ s.len \in Nat /\ p.len \in Nat
  BY ReadIs
<1>2. Seen(s) = t /\ Seen(p) = u
  BY DEF ReadsAs
<1>3. CASE ByCharacter(s)
  BY <1>1, <1>2, <1>3 DEF SliceEqual
<1>4. CASE ~ByCharacter(s)
  <2>1. s.len < Width /\ s.len # 0
    BY <1>1, <1>4, VectorAssumption DEF ByCharacter
  <2>2. SliceEqual(s, p) <=> s.len = p.len /\ EqualVectors(s, p)
    BY <1>4 DEF SliceEqual
  <2>3. s.len = p.len => (EqualVectors(s, p) <=> t = u)
    BY <2>1, VectorsEqual
  <2>4. t = u => s.len = p.len
    BY <1>1
  <2>5. QED
    BY <2>2, <2>3, <2>4
<1>5. QED
  BY <1>3, <1>4

-----------------------------------------------------------------------------
(* Searches *)

LEMMA ReadsAt ==
  ASSUME NEW t \in Seq(Letters), NEW p \in Seq(Letters), NEW i \in 0 .. Len(t) - Len(p)
  PROVE  SubSeq(t, i + 1, i + Len(p)) = p <=> \A k \in 0 .. Len(p) - 1 : t[i + k + 1] = p[k + 1]
<1> DEFINE u == SubSeq(t, i + 1, i + Len(p))
<1>1. Len(t) \in Nat /\ Len(p) \in Nat
  OBVIOUS
<1>2. i + 1 \in 1 .. Len(t) + 1 /\ i + Len(p) \in (i + 1) - 1 .. Len(t)
  BY <1>1
<1>3. /\ u \in Seq(Letters) /\ Len(u) = (i + Len(p)) - (i + 1) + 1
      /\ \A j \in 1 .. (i + Len(p)) - (i + 1) + 1 : u[j] = t[(i + 1) + j - 1]
  BY <1>2, SubSeqIs
<1> HIDE DEF u
<1> DEFINE n == Len(p)
<1>4. n \in Nat /\ i \in Nat
  BY <1>1
<1>10. (i + n) - (i + 1) + 1 = n
  BY <1>4
<1>11. Len(u) = n /\ \A j \in 1 .. n : u[j] = t[(i + 1) + j - 1]
  BY <1>3, <1>10
<1>12. ASSUME NEW k \in 0 .. n - 1  PROVE u[k + 1] = t[i + k + 1]
  <2>1. k + 1 \in 1 .. n /\ (i + 1) + (k + 1) - 1 = i + k + 1
    BY <1>4
  <2>2. QED
    BY <1>11, <2>1
<1>5. ASSUME \A k \in 0 .. Len(p) - 1 : t[i + k + 1] = p[k + 1]  PROVE u = p
  <2>1. \A k \in 0 .. Len(p) - 1 : u[k + 1] = p[k + 1]
    BY <1>5, <1>12
  <2>2. ASSUME NEW j \in 1 .. Len(u)  PROVE u[j] = p[j]
    <3>1. PICK k \in 0 .. Len(p) - 1 : k + 1 = j
      BY <1>1, <1>11
    <3>2. QED
      BY <2>1, <3>1
  <2>3. QED
    BY <1>3, <1>11, <2>2, SameSeq
<1>6. QED
  BY <1>5, <1>12 DEF u

LEMMA LetterOccurs ==
  ASSUME NEW t \in Seq(Letters), NEW c \in Letters
  PROVE  OccurrencesIn(t, <<c>>) = {i \in 0 .. Len(t) - 1 : t[i + 1] = c}
<1> DEFINE v == <<c>>
<1>1. v \in Seq(Letters) /\ Len(v) = 1 /\ v # <<>> /\ v[1] = c /\ Len(t) \in Nat
  OBVIOUS
<1> HIDE DEF v
<1>2. ASSUME NEW i \in 0 .. Len(t) - Len(v)  PROVE SubSeq(t, i + 1, i + Len(v)) = v <=> t[i + 1] = c
  <2>1. SubSeq(t, i + 1, i + Len(v)) = v <=> \A k \in 0 .. Len(v) - 1 : t[i + k + 1] = v[k + 1]
    BY <1>1, ReadsAt
  <2>2. (\A k \in 0 .. Len(v) - 1 : t[i + k + 1] = v[k + 1]) <=> t[i + 1] = v[1]
    BY <1>1
  <2>3. QED
    BY <1>1, <2>1, <2>2
<1>3. Len(t) - Len(v) = Len(t) - 1
  BY <1>1
<1>4. OccurrencesIn(t, v) = {i \in 0 .. Len(t) - 1 : t[i + 1] = c}
  BY <1>1, <1>2, <1>3 DEF OccurrencesIn
<1>5. QED
  BY <1>4 DEF v

LEMMA IndicesAre ==
  ASSUME NEW s, NEW t, ReadsAs(s, t), NEW c \in Letters, NEW offset \in Nat
  PROVE  IndicesOf(s, c, offset) = {j \in OccurrencesIn(t, <<c>>) : j >= offset}
<1>1. t \in Seq(Letters) /\ s.len = Len(t) /\ Len(t) \in Nat /\ \A i \in 0 .. s.len - 1 : Byte(s, i) = t[i + 1]
  BY ReadIs
<1>2. OccurrencesIn(t, <<c>>) = {i \in 0 .. Len(t) - 1 : t[i + 1] = c}
  BY <1>1, LetterOccurs
<1>3. IndicesOf(s, c, offset) = {i \in offset .. Len(t) - 1 : Byte(s, i) = c}
  BY <1>1 DEF IndicesOf
<1>4. \A i : i \in offset .. Len(t) - 1 <=> i \in 0 .. Len(t) - 1 /\ i >= offset
  BY <1>1
<1>5. QED
  BY <1>1, <1>2, <1>3, <1>4

LEMMA AllIndices ==
  ASSUME NEW s, NEW t, ReadsAs(s, t), NEW c \in Letters
  PROVE  IndicesOf(s, c, 0) = OccurrencesIn(t, <<c>>)
<1>1. t \in Seq(Letters) /\ Len(t) \in Nat
  BY ReadIs
<1>2. OccurrencesIn(t, <<c>>) = {i \in 0 .. Len(t) - 1 : t[i + 1] = c}
  BY <1>1, LetterOccurs
<1>3. \A j \in OccurrencesIn(t, <<c>>) : j >= 0
  BY <1>1, <1>2
<1>4. 0 \in Nat
  OBVIOUS
<1>5. IndicesOf(s, c, 0) = {j \in OccurrencesIn(t, <<c>>) : j >= 0}
  BY <1>4, IndicesAre
<1>6. QED
  BY <1>3, <1>5

LEMMA LanesAre ==
  ASSUME NEW s, NEW t, ReadsAs(s, t), NEW c \in Letters, s.len < Width, s.len # 0
  PROVE  LanesWith(s, c) = OccurrencesIn(t, <<c>>)
<1>1. t \in Seq(Letters) /\ s.len = Len(t) /\ Len(t) \in Nat /\ c # Terminator
  BY ReadIs, LettersAssumption
<1>2. /\ Width \in Nat \ {0}
      /\ LoadedBytes(s, 0) = [k \in 0 .. Width - 1 |-> IF k < s.len THEN t[k + 1] ELSE Terminator]
  BY LoadedIs
<1> DEFINE w == Width
<1>3. w \in Nat \ {0} /\ s.len < w
  BY <1>2
<1> HIDE DEF w
<1>4. Iterations(s.len, w) = 1
  <2>1. s.len + w - 1 \in w .. 2 * w - 1
    BY <1>1, <1>3
  <2>2. (s.len + w - 1) \div w = 1
    BY <1>3, <2>1
  <2>3. QED
    BY <2>2 DEF Iterations
<1>5. Iterations(s.len, w) * w - 1 = w - 1
  BY <1>3, <1>4
<1>6. \A i \in 0 .. w - 1 : i \div w = 0 /\ i % w = i
  BY <1>3
<1>7. LanesWith(s, c) = {i \in 0 .. w - 1 : LoadedBytes(s, 0)[i] = c}
  BY <1>5, <1>6 DEF LanesWith, w
<1>8. \A i \in 0 .. w - 1 : LoadedBytes(s, 0)[i] = c <=> i < Len(t) /\ t[i + 1] = c
  BY <1>1, <1>2 DEF w
<1>9. \A i : (i \in 0 .. w - 1 /\ i < Len(t)) <=> i \in 0 .. Len(t) - 1
  BY <1>1, <1>3
<1>10. LanesWith(s, c) = {i \in 0 .. Len(t) - 1 : t[i + 1] = c}
  BY <1>7, <1>8, <1>9
<1>11. QED
  BY <1>1, <1>10, LetterOccurs

LEMMA LetterFound ==
  ASSUME NEW s, NEW t, ReadsAs(s, t), NEW c \in Letters, simd = "none" \/ s.len < Width
  PROVE  SliceFindChar(s, c) = FirstIn(OccurrencesIn(t, <<c>>))
<1>1. CASE ByCharacter(s)
  BY <1>1, AllIndices DEF SliceFindChar
<1>2. CASE ~ByCharacter(s)
  <2>1. s.len < Width /\ s.len # 0
    BY <1>2, ReadIs, VectorAssumption DEF ByCharacter
  <2>2. QED
    BY <1>2, <2>1, LanesAre DEF SliceFindChar
<1>3. QED
  BY <1>1, <1>2

LEMMA MatchesAre ==
  ASSUME NEW s, NEW t, ReadsAs(s, t), s.len = Len(s.memory), NEW p, NEW u, ReadsAs(p, u), u # <<>>
  PROVE  MatchesOf(s, p) = OccurrencesIn(t, u)
<1>1. /\ t \in Seq(Letters) /\ s.len = Len(t) /\ Len(t) \in Nat
      /\ \A i \in 0 .. Len(t) - 1 : Byte(s, i) = t[i + 1]
      /\ \A i \in Nat : i >= Len(t) => Byte(s, i) = Terminator
  BY ReadIs
<1>2. /\ u \in Seq(Letters) /\ p.len = Len(u) /\ Len(u) \in Nat \ {0}
      /\ \A k \in 0 .. Len(u) - 1 : Byte(p, k) = u[k + 1] /\ u[k + 1] # Terminator
  BY ReadIs, LettersAssumption
<1>3. MatchesOf(s, p) = {i \in 0 .. Len(t) - 1 : \A k \in 0 .. Len(u) - 1 : Byte(s, i + k) = u[k + 1]}
  BY <1>1, <1>2 DEF MatchesOf
<1>4. ASSUME NEW i \in 0 .. Len(t) - 1, \A k \in 0 .. Len(u) - 1 : Byte(s, i + k) = u[k + 1]
      PROVE  i \in OccurrencesIn(t, u)
  <2>1. ASSUME NEW k \in 0 .. Len(u) - 1  PROVE i + k < Len(t) /\ t[i + k + 1] = u[k + 1]
    <3>0. i + k \in Nat
      BY <1>1, <1>2
    <3>9. Byte(s, i + k) = u[k + 1] /\ u[k + 1] # Terminator
      BY <1>2, <1>4
    <3>1. i + k \in Nat /\ Byte(s, i + k) # Terminator
      BY <3>0, <3>9
    <3>2. i + k < Len(t)
      BY <1>1, <3>1
    <3>3. i + k \in 0 .. Len(t) - 1
      BY <1>1, <3>1, <3>2
    <3>4. QED
      BY <1>1, <1>4, <3>2, <3>3
  <2>2. Len(u) - 1 \in 0 .. Len(u) - 1
    BY <1>2
  <2>3. i + (Len(u) - 1) < Len(t)
    BY <2>1, <2>2
  <2>4. i \in 0 .. Len(t) - Len(u)
    BY <1>1, <1>2, <2>3
  <2>5. SubSeq(t, i + 1, i + Len(u)) = u
    BY <1>1, <1>2, <2>1, <2>4, ReadsAt
  <2>6. QED
    BY <2>4, <2>5 DEF OccurrencesIn
<1>5. ASSUME NEW i \in OccurrencesIn(t, u)
      PROVE  i \in 0 .. Len(t) - 1 /\ \A k \in 0 .. Len(u) - 1 : Byte(s, i + k) = u[k + 1]
  <2>1. i \in 0 .. Len(t) - Len(u) /\ SubSeq(t, i + 1, i + Len(u)) = u
    BY DEF OccurrencesIn
  <2>2. \A k \in 0 .. Len(u) - 1 : t[i + k + 1] = u[k + 1]
    BY <1>1, <1>2, <2>1, ReadsAt
  <2>3. \A k \in 0 .. Len(u) - 1 : i + k \in 0 .. Len(t) - 1
    BY <1>1, <1>2, <2>1
  <2>4. i \in 0 .. Len(t) - 1
    BY <1>1, <1>2, <2>1
  <2>5. QED
    BY <1>1, <2>2, <2>3, <2>4
<1>6. QED
  BY <1>3, <1>4, <1>5

\* What find and findLast do with all texts but single characters.
LEMMA TextFound ==
  ASSUME NEW s, NEW t, ReadsAs(s, t), s.len = Len(s.memory), simd = "none" \/ s.len < Width,
         NEW p, NEW u, ReadsAs(p, u), Len(u) # 1
  PROVE  /\ SliceFind(s, p) = FirstIn(OccurrencesIn(t, u))
         /\ SliceFindLast(s, p) = LastIn(OccurrencesIn(t, u))
<1>1. t \in Seq(Letters) /\ s.len = Len(t) /\ Len(t) \in Nat
  BY ReadIs
<1>2. u \in Seq(Letters) /\ p.len = Len(u) /\ Len(u) \in Nat /\ (u = <<>> <=> Len(u) = 0)
  BY ReadIs
<1>3. FirstIn({}) = {} /\ LastIn({}) = {} /\ FirstIn({0}) = {0} /\ LastIn({0}) = {0}
  BY DEF FirstIn, LastIn
<1>4. CASE u = <<>>
  <2>1. p.len = 0
    BY <1>2, <1>4
  <2>2. SliceFind(s, p) = {} /\ SliceFindLast(s, p) = {}
    BY <2>1 DEF SliceFind, SliceFindLast, SearchedFor
  <2>3. OccurrencesIn(t, u) = {}
    BY <1>4 DEF OccurrencesIn
  <2>4. QED
    BY <1>3, <2>2, <2>3
<1>5. CASE u # <<>> /\ Len(u) >= Len(t)
  <2> DEFINE E == IF SliceEqual(s, p) THEN {0} ELSE {}
  <2>7. Len(u) # 0
    BY <1>2, <1>5
  <2>8. Len(u) \in Nat
    BY <1>2
  <2>9. \A m \in Nat : m # 0 /\ m # 1 => m > 1
    OBVIOUS
  <2>10. Len(u) # 1
    OBVIOUS
  <2>0. Len(u) > 1
    BY <2>7, <2>8, <2>9, <2>10
  <2>1. p.len # 0 /\ p.len # 1 /\ p.len > 1 /\ p.len >= s.len
    BY <1>1, <1>2, <1>5, <2>0, <2>7, <2>10
  <2>2. SliceFind(s, p) = E /\ SliceFindLast(s, p) = E
    BY <2>1 DEF SliceFind, SliceFindLast, SearchedFor
  <2>3. SliceEqual(s, p) <=> t = u
    BY SlicesEqual
  <2>4. (t = u => OccurrencesIn(t, u) = {0}) /\ (t # u => OccurrencesIn(t, u) = {})
    <3>1. CASE Len(u) = Len(t)
      <4>1. \A i : i \in 0 .. Len(t) - Len(u) <=> i = 0
        BY <1>1, <3>1
      <4>2. SubSeq(t, 0 + 1, 0 + Len(u)) = t
        BY <1>1, <3>1
      <4>3. \A i : i \in OccurrencesIn(t, u) <=> (i = 0 /\ t = u)
        BY <1>5, <4>1, <4>2 DEF OccurrencesIn
      <4>4. QED
        BY <4>3
    <3>2. CASE Len(u) > Len(t)
      <4>1. \A i : i \notin 0 .. Len(t) - Len(u)
        BY <1>1, <1>2, <3>2
      <4>2. OccurrencesIn(t, u) = {}
        BY <4>1 DEF OccurrencesIn
      <4>3. t # u
        BY <1>1, <3>2
      <4>4. QED
        BY <4>2, <4>3
    <3>3. QED
      BY <1>1, <1>2, <1>5, <3>1, <3>2
  <2>5. E = OccurrencesIn(t, u) /\ FirstIn(E) = E /\ LastIn(E) = E
    BY <1>3, <2>3, <2>4
  <2>6. QED
    BY <2>2, <2>5
<1>6. CASE u # <<>> /\ ~(Len(u) >= Len(t))
  <2>1. p.len # 0 /\ p.len # 1 /\ ~(p.len >= s.len)
    BY <1>1, <1>2, <1>6
  <2>2. SliceFind(s, p) = FirstIn(MatchesOf(s, p)) /\ SliceFindLast(s, p) = LastIn(MatchesOf(s, p))
    BY <2>1 DEF SliceFind, SliceFindLast, SearchedFor
  <2>3. MatchesOf(s, p) = OccurrencesIn(t, u)
    BY <1>6, MatchesAre
  <2>4. QED
    BY <2>2, <2>3
<1>7. QED
  BY <1>4, <1>5, <1>6

LEMMA SingleFound ==
  ASSUME NEW s, NEW t, ReadsAs(s, t), simd = "none" \/ s.len < Width,
         NEW p, NEW u, ReadsAs(p, u), Len(u) = 1
  PROVE  SliceFind(s, p) = FirstIn(OccurrencesIn(t, u))
<1>1. u \in Seq(Letters) /\ p.len = 1 /\ \A k \in 0 .. p.len - 1 : Byte(p, k) = u[k + 1]
  BY ReadIs
<1>2. u[1] \in Letters /\ u = <<u[1]>> /\ Byte(p, 0) = u[1]
  <2>1. u[1] \in Letters /\ u = <<u[1]>>
    BY <1>1
  <2>2. 0 \in 0 .. p.len - 1 /\ 0 + 1 = 1
    BY <1>1
  <2>3. Byte(p, 0) = u[0 + 1]
    BY <1>1, <2>2
  <2>4. QED
    BY <2>1, <2>2, <2>3
<1>3. SliceFind(s, p) = SliceFindChar(s, u[1])
  BY <1>1, <1>2 DEF SliceFind, SearchedFor
<1>4. SliceFindChar(s, u[1]) = FirstIn(OccurrencesIn(t, <<u[1]>>))
  BY <1>2, LetterFound
<1>5. QED
  BY <1>2, <1>3, <1>4

\* A slice that reads as its characters is searched as they are.
LEMMA ReadSearched ==
  ASSUME ReadsAs(slice, Seen(slice))
  PROVE  SliceLookups
<1> DEFINE t == Seen(slice)
<1>1. ReadsAs(slice, t)
  OBVIOUS
<1> HIDE DEF t
<1>3. SUFFICES ASSUME simd = "none" \/ slice.len < Width
               PROVE  /\ ComparedAsRead
                      /\ \A c \in Letters :
                           /\ SliceFindChar(slice, c) = FirstIn(OccurrencesIn(t, <<c>>))
                           /\ t # <<>> => SliceFindLastChar(slice, c) = LastIn(OccurrencesIn(t, <<c>>))
                           /\ \A k \in 0 .. slice.len + 1 :
                                SliceFindFrom(slice, c, k) = FirstIn({q \in OccurrencesIn(t, <<c>>) : q >= k})
                      /\ \A p \in Patterns : slice.len = Len(slice.memory) =>
                           /\ SliceFind(slice, Whole(p)) = FirstIn(OccurrencesIn(t, p))
                           /\ Len(p) # 1 => SliceFindLast(slice, Whole(p)) = LastIn(OccurrencesIn(t, p))
  BY DEF SliceLookups, t
<1>4. ComparedAsRead
  <2>1. ASSUME NEW p \in Patterns  PROVE SliceEqual(slice, Whole(p)) <=> t = p
    BY <1>1, <1>3, WholeIs, SlicesEqual
  <2>2. QED
    BY <2>1 DEF ComparedAsRead, t
<1>5. ASSUME NEW c \in Letters  PROVE SliceFindChar(slice, c) = FirstIn(OccurrencesIn(t, <<c>>))
  BY <1>1, <1>3, LetterFound
<1>6. ASSUME NEW c \in Letters  PROVE SliceFindLastChar(slice, c) = LastIn(OccurrencesIn(t, <<c>>))
  BY <1>1, AllIndices DEF SliceFindLastChar
<1>7. ASSUME NEW c \in Letters, NEW k \in 0 .. slice.len + 1
      PROVE  SliceFindFrom(slice, c, k) = FirstIn({q \in OccurrencesIn(t, <<c>>) : q >= k})
  <2>1. k \in Nat
    BY <1>1, ReadIs
  <2>2. QED
    BY <1>1, <2>1, IndicesAre DEF SliceFindFrom
<1>8. ASSUME NEW p \in Patterns, slice.len = Len(slice.memory)
      PROVE  SliceFind(slice, Whole(p)) = FirstIn(OccurrencesIn(t, p))
  <2>1. ReadsAs(Whole(p), p)
    BY WholeIs
  <2>2. CASE Len(p) = 1
    BY <1>1, <1>3, <2>1, <2>2, SingleFound
  <2>3. CASE Len(p) # 1
    BY <1>1, <1>3, <1>8, <2>1, <2>3, TextFound
  <2>4. QED
    BY <2>2, <2>3
<1>9. ASSUME NEW p \in Patterns, slice.len = Len(slice.memory), Len(p) # 1
      PROVE  SliceFindLast(slice, Whole(p)) = LastIn(OccurrencesIn(t, p))
  <2>1. ReadsAs(Whole(p), p)
    BY WholeIs
  <2>2. QED
    BY <1>1, <1>3, <1>9, <2>1, TextFound
<1>10. QED
  BY <1>4, <1>5, <1>6, <1>7, <1>8, <1>9

\* Every slice that the program can take lies in its text.
LEMMA TakenReads ==
  ASSUME SliceInit
  PROVE  ReadsAs(slice, Seen(slice))
<1> DEFINE t == Seen(slice)
<1>1. PICK text \in Memories : \E j \in 0 .. Len(text) : \E i \in 0 .. j :
        slice = SliceSubstring(Whole(text), i, j)
  BY DEF SliceInit
<1>2. ReadsAs(slice, t)
  <2>0. PICK j \in 0 .. Len(text) : \E i \in 0 .. j : slice = SliceSubstring(Whole(text), i, j)
    BY <1>1
  <2>9. PICK i \in 0 .. j : slice = SliceSubstring(Whole(text), i, j)
    BY <2>0
  <2>1. text \in Seq(Letters) /\ Len(text) \in Nat
    BY LettersAssumption
  <2>2. slice = [memory |-> SubSeq(text, i + 1, Len(text)), len |-> j - i]
    BY <2>9 DEF SliceSubstring, Whole
  <2>3. i + 1 \in 1 .. Len(text) + 1 /\ Len(text) \in (i + 1) - 1 .. Len(text)
    BY <2>1
  <2>4. SubSeq(text, i + 1, Len(text)) \in Seq(Letters) /\ Len(SubSeq(text, i + 1, Len(text))) = Len(text) - (i + 1) + 1
    BY <2>1, <2>3, SubSeqIs
  <2>5. j - i \in 0 .. Len(text) - (i + 1) + 1
    BY <2>1
  <2>6. QED
    BY <2>2, <2>4, <2>5 DEF ReadsAs
<1>3. QED
  BY <1>2

\* Of every slice of a text the comparisons and the searches say what its characters say, at compile
\* time, and at run time if it is shorter than a vector of the processor.
THEOREM SlicesAreSearched == SliceInit /\ [][FALSE]_sliceVars => []SliceLookups
<1>1. SliceInit => ReadsAs(slice, Seen(slice))
  BY TakenReads
<1>2. ReadsAs(slice, Seen(slice)) /\ [FALSE]_sliceVars => ReadsAs(slice, Seen(slice))'
  BY DEF sliceVars, ReadsAs, Seen
<1>3. ReadsAs(slice, Seen(slice)) => SliceLookups
  BY ReadSearched
<1>4. QED
  BY <1>1, <1>2, <1>3, PTL

-----------------------------------------------------------------------------
(* Induction and recursion on numbers *)

LEMMA SmallestOne ==
  ASSUME NEW W \in SUBSET Nat, W # {}
  PROVE  \E x \in W : \A y \in W : x <= y
<1> DEFINE R == {p \in Nat \X Nat : p[1] < p[2]}
<1>1. IsWellFoundedOn(R, Nat)
  BY NatLessThanWellFounded DEF OpToRel
<1>2. PICK x \in W : \A y \in W : ~(<<y, x>> \in R)
  BY <1>1, WFMin
<1>3. ASSUME NEW y \in W  PROVE x <= y
  <2>1. <<y, x>> \notin R /\ y \in Nat /\ x \in Nat
    BY <1>2
  <2>2. QED
    BY <2>1
<1>4. QED
  BY <1>3

\* What is so of a number if it is so of all below it.
LEMMA FromAllBelow ==
  ASSUME NEW W, \A n \in Nat : (\A m \in 0 .. n - 1 : m \in W) => n \in W
  PROVE  \A n \in Nat : n \in W
<1> DEFINE R == {n \in Nat : n \notin W}
<1>1. SUFFICES ASSUME R # {}  PROVE FALSE
  OBVIOUS
<1>2. PICK x \in R : \A y \in R : x <= y
  BY <1>1, SmallestOne
<1>3. x \in Nat /\ x \notin W
  OBVIOUS
<1>4. ASSUME NEW m \in 0 .. x - 1  PROVE m \in W
  <2>1. m \in Nat /\ ~(x <= m)
    BY <1>3
  <2>2. m \notin R
    BY <1>2, <2>1
  <2>3. QED
    BY <2>1, <2>2
<1>5. QED
  BY <1>3, <1>4

\* What is so of 0, and of each number after one of which it is so.
LEMMA FromOneBelow ==
  ASSUME NEW W, 0 \in W, \A n \in Nat : n \in W => n + 1 \in W
  PROVE  \A n \in Nat : n \in W
<1>1. ASSUME NEW n \in Nat, \A m \in 0 .. n - 1 : m \in W  PROVE n \in W
  <2>1. CASE n = 0
    BY <2>1
  <2>2. CASE n # 0
    <3>1. n - 1 \in Nat /\ n - 1 \in 0 .. n - 1 /\ (n - 1) + 1 = n
      BY <2>2
    <3>2. n - 1 \in W
      BY <1>1, <3>1
    <3>3. QED
      BY <3>1, <3>2
  <2>3. QED
    BY <2>1, <2>2
<1>2. \A n \in Nat : (\A m \in 0 .. n - 1 : m \in W) => n \in W
  BY <1>1
<1>3. QED
  BY <1>2, FromAllBelow

\* The same up to N.
LEMMA FromOneBelowTo ==
  ASSUME NEW N \in Nat, NEW W, 0 \in W, \A i \in 0 .. N - 1 : i \in W => i + 1 \in W
  PROVE  \A i \in 0 .. N : i \in W
<1> DEFINE U == {n \in Nat : n > N \/ n \in W}
<1>1. 0 \in U
  OBVIOUS
<1>2. ASSUME NEW n \in Nat, n \in U  PROVE n + 1 \in U
  <2>1. CASE n + 1 > N
    BY <2>1
  <2>2. CASE ~(n + 1 > N)
    <3>1. n \in 0 .. N - 1 /\ ~(n > N)
      BY <2>2
    <3>2. n \in W
      BY <1>2, <3>1
    <3>3. QED
      BY <3>1, <3>2
  <2>3. QED
    BY <2>1, <2>2
<1>3. \A n \in Nat : n \in U => n + 1 \in U
  BY <1>2
<1> HIDE DEF U
<1>4. \A n \in Nat : n \in U
  BY <1>1, <1>3, FromOneBelow
<1>5. ASSUME NEW i \in 0 .. N  PROVE i \in W
  <2>1. i \in Nat /\ ~(i > N)
    OBVIOUS
  <2>2. i \in U
    BY <1>4, <2>1
  <2>3. QED
    BY <2>1, <2>2 DEF U
<1>6. QED
  BY <1>5

\* f is computed up to n: from v at 0, each step from what is at a lower number.
Computes(f, n, v, J, S) ==
  /\ f[0] = v
  /\ \A i \in 1 .. n : f[i] = S[i][f[J[i]]]

LEMMA ComputedAlike ==
  ASSUME NEW v, NEW J \in [Nat -> Nat], NEW S, \A n \in Nat \ {0} : J[n] < n,
         NEW f, NEW n \in Nat, Computes(f, n, v, J, S),
         NEW g, NEW m \in Nat, Computes(g, m, v, J, S)
  PROVE  \A i \in Nat : i <= n /\ i <= m => f[i] = g[i]
<1> DEFINE W == {i \in Nat : i <= n /\ i <= m => f[i] = g[i]}
<1>1. ASSUME NEW i \in Nat, \A k \in 0 .. i - 1 : k \in W  PROVE i \in W
  <2>1. CASE i = 0
    BY <2>1 DEF Computes
  <2>2. CASE i # 0
    <3>1. SUFFICES ASSUME i <= n, i <= m  PROVE f[i] = g[i]
      OBVIOUS
    <3>2. J[i] \in Nat /\ J[i] < i
      BY <2>2
    <3>3. J[i] \in 0 .. i - 1 /\ J[i] <= n /\ J[i] <= m
      BY <3>1, <3>2
    <3>4. f[J[i]] = g[J[i]]
      BY <1>1, <3>3
    <3>5. i \in 1 .. n /\ i \in 1 .. m
      BY <2>2, <3>1
    <3>6. QED
      BY <3>4, <3>5 DEF Computes
  <2>3. QED
    BY <2>1, <2>2
<1>2. \A i \in Nat : (\A k \in 0 .. i - 1 : k \in W) => i \in W
  BY <1>1
<1> HIDE DEF W
<1>3. \A i \in Nat : i \in W
  BY <1>2, FromAllBelow
<1>4. QED
  BY <1>3 DEF W

LEMMA ComputedTo ==
  ASSUME NEW v, NEW J \in [Nat -> Nat], NEW S, \A n \in Nat \ {0} : J[n] < n
  PROVE  \A n \in Nat : \E f : Computes(f, n, v, J, S)
<1> DEFINE W == {n \in Nat : \E f : Computes(f, n, v, J, S)}
<1>1. 0 \in W
  <2> DEFINE f == [i \in Nat |-> v]
  <2>1. f[0] = v /\ \A i \in 1 .. 0 : FALSE
    OBVIOUS
  <2> HIDE DEF f
  <2>2. Computes(f, 0, v, J, S)
    BY <2>1 DEF Computes
  <2>3. QED
    BY <2>2
<1>2. ASSUME NEW n \in Nat, n \in W  PROVE n + 1 \in W
  <2>1. PICK f : Computes(f, n, v, J, S)
    BY <1>2
  <2> DEFINE g == [i \in Nat |-> IF i = n + 1 THEN S[n + 1][f[J[n + 1]]] ELSE f[i]]
  <2>2. \A i \in Nat : i # n + 1 => g[i] = f[i]
    OBVIOUS
  <2>3. g[n + 1] = S[n + 1][f[J[n + 1]]]
    OBVIOUS
  <2> HIDE DEF g
  <2>4. g[0] = v
    BY <2>1, <2>2 DEF Computes
  <2>5. ASSUME NEW i \in 1 .. n + 1  PROVE g[i] = S[i][g[J[i]]]
    <3>1. J[i] \in Nat /\ J[i] < i
      OBVIOUS
    <3>2. J[i] # n + 1
      BY <3>1
    <3>3. g[J[i]] = f[J[i]]
      BY <2>2, <3>1, <3>2
    <3>4. CASE i = n + 1
      BY <2>3, <3>3, <3>4
    <3>5. CASE i # n + 1
      <4>1. i \in 1 .. n /\ i \in Nat
        BY <3>5
      <4>2. g[i] = f[i] /\ f[i] = S[i][f[J[i]]]
        BY <2>1, <2>2, <3>5, <4>1 DEF Computes
      <4>3. QED
        BY <3>3, <4>2
    <3>6. QED
      BY <3>4, <3>5
  <2>6. Computes(g, n + 1, v, J, S)
    BY <2>4, <2>5 DEF Computes
  <2>7. QED
    BY <2>6
<1>3. \A n \in Nat : n \in W => n + 1 \in W
  BY <1>2
<1> HIDE DEF W
<1>4. \A n \in Nat : n \in W
  BY <1>1, <1>3, FromOneBelow
<1>5. QED
  BY <1>4 DEF W

\* The same for all numbers.
Solves(f, v, J, S) ==
  /\ f = [n \in Nat |-> f[n]]
  /\ f[0] = v
  /\ \A n \in Nat \ {0} : f[n] = S[n][f[J[n]]]

\* A function of numbers can be computed from those below its argument.
LEMMA Recursion ==
  ASSUME NEW v, NEW J \in [Nat -> Nat], NEW S, \A n \in Nat \ {0} : J[n] < n
  PROVE  \E f : Solves(f, v, J, S)
<1> DEFINE G(n) == CHOOSE f : Computes(f, n, v, J, S)
           f == [n \in Nat |-> G(n)[n]]
<1>1. \A n \in Nat : \E h : Computes(h, n, v, J, S)
  BY ComputedTo
<1>2. \A n \in Nat : Computes(G(n), n, v, J, S)
  BY <1>1
<1> HIDE DEF G
<1>3. f[0] = v
  BY <1>2 DEF Computes
<1>4. ASSUME NEW n \in Nat \ {0}  PROVE f[n] = S[n][f[J[n]]]
  <2>1. n \in Nat /\ J[n] \in Nat /\ J[n] < n /\ n \in 1 .. n
    OBVIOUS
  <2>2. f[n] = G(n)[n] /\ f[J[n]] = G(J[n])[J[n]]
    BY <2>1
  <2> HIDE DEF f
  <2>3. Computes(G(n), n, v, J, S) /\ Computes(G(J[n]), J[n], v, J, S)
    BY <1>2, <2>1
  <2> DEFINE g == G(n)
             h == G(J[n])
             k == J[n]
  <2> HIDE DEF g, h, k
  <2>4. Computes(g, n, v, J, S) /\ Computes(h, k, v, J, S) /\ k \in Nat /\ k <= n /\ k <= k
    BY <2>1, <2>3 DEF g, h, k
  <2>5. g[k] = h[k]
    BY <2>1, <2>4, ComputedAlike
  <2>6. g[n] = S[n][g[J[n]]]
    BY <2>1, <2>4 DEF Computes
  <2>7. QED
    BY <2>2, <2>5, <2>6 DEF g, h, k
<1>5. f = [n \in Nat |-> f[n]]
  OBVIOUS
<1> HIDE DEF f
<1>6. Solves(f, v, J, S)
  BY <1>3, <1>4, <1>5 DEF Solves
<1>7. QED
  BY <1>6

\* The same for the numbers up to N, each from the one before it.
Counts(f, N, v, S) ==
  /\ f = [i \in 0 .. N |-> f[i]]
  /\ f[0] = v
  /\ \A i \in 1 .. N : f[i] = S[i][f[i - 1]]

LEMMA Counting ==
  ASSUME NEW N \in Nat, NEW v, NEW S
  PROVE  \E f : Counts(f, N, v, S)
<1> DEFINE J == [n \in Nat |-> IF n = 0 THEN 0 ELSE n - 1]
<1>1. \A n \in Nat \ {0} : J[n] = n - 1
  OBVIOUS
<1>2. J \in [Nat -> Nat]
  OBVIOUS
<1>3. \A n \in Nat \ {0} : J[n] < n
  OBVIOUS
<1> HIDE DEF J
<1>4. PICK f : Solves(f, v, J, S)
  BY <1>2, <1>3, Recursion
<1>5. f[0] = v /\ \A n \in Nat \ {0} : f[n] = S[n][f[J[n]]]
  BY <1>4 DEF Solves
<1> DEFINE g == [i \in 0 .. N |-> f[i]]
<1>6. \A i \in 0 .. N : g[i] = f[i]
  OBVIOUS
<1>7. g = [i \in 0 .. N |-> g[i]]
  OBVIOUS
<1>8. g[0] = v
  BY <1>5
<1> HIDE DEF g
<1>9. \A i \in 1 .. N : g[i] = S[i][g[i - 1]]
  <2> TAKE i \in 1 .. N
  <2>1. i \in Nat \ {0} /\ i \in 0 .. N /\ i - 1 \in 0 .. N
    OBVIOUS
  <2>2. f[i] = S[i][f[i - 1]]
    BY <1>1, <1>5, <2>1
  <2>3. QED
    BY <1>6, <2>1, <2>2
<1>10. QED
  BY <1>7, <1>8, <1>9 DEF Counts

\* What is so of the last number up to M, and of each of which all behind are.
LEMMA FromAllAbove ==
  ASSUME NEW M \in Nat, NEW W, M \in W, \A i \in 1 .. M - 1 : (\A j \in i + 1 .. M : j \in W) => i \in W
  PROVE  \A i \in 1 .. M : i \in W
<1> DEFINE R == {n \in Nat : n > M - 1 \/ M - n \in W}
<1>1. ASSUME NEW n \in Nat, \A m \in 0 .. n - 1 : m \in R  PROVE n \in R
  <2>1. CASE n = 0 \/ n > M - 1
    BY <2>1
  <2>2. CASE n # 0 /\ ~(n > M - 1)
    <3>1. M - n \in 1 .. M - 1
      BY <2>2
    <3>2. ASSUME NEW j \in (M - n) + 1 .. M  PROVE j \in W
      <4>1. M - j \in 0 .. n - 1 /\ M - (M - j) = j /\ ~(M - j > M - 1)
        BY <2>2
      <4>2. M - j \in R
        BY <1>1, <4>1
      <4>3. QED
        BY <4>1, <4>2
    <3>3. M - n \in W
      BY <3>1, <3>2
    <3>4. QED
      BY <3>3
  <2>3. QED
    BY <2>1, <2>2
<1> HIDE DEF R
<1>2. \A n \in Nat : n \in R
  BY <1>1, FromAllBelow
<1>3. ASSUME NEW i \in 1 .. M  PROVE i \in W
  <2>1. M - i \in Nat /\ M - (M - i) = i /\ ~(M - i > M - 1)
    OBVIOUS
  <2>2. M - i \in R
    BY <1>2, <2>1
  <2>3. QED
    BY <2>1, <2>2 DEF R
<1>4. QED
  BY <1>3

\* f is computed down from v at M, each step from what is at a higher number.
Descends(f, M, v, J, S) ==
  /\ f = [i \in 1 .. M |-> f[i]]
  /\ f[M] = v
  /\ \A i \in 1 .. M - 1 : f[i] = S[i][f[J[i]]]

LEMMA Descending ==
  ASSUME NEW M \in Nat \ {0}, NEW v, NEW J, NEW S, \A i \in 1 .. M - 1 : J[i] \in i + 1 .. M
  PROVE  \E f : Descends(f, M, v, J, S)
<1> DEFINE K == [r \in Nat |-> IF r \in 1 .. M - 1 THEN M - J[M - r] ELSE 0]
           C == [r \in Nat |-> S[M - r]]
<1>1. ASSUME NEW r \in Nat  PROVE K[r] \in Nat /\ (r # 0 => K[r] < r)
  <2>1. CASE r \in 1 .. M - 1
    <3>1. M - r \in 1 .. M - 1
      BY <2>1
    <3>2. J[M - r] \in (M - r) + 1 .. M
      BY <3>1
    <3> DEFINE x == J[M - r]
    <3>3. K[r] = M - x
      BY <2>1
    <3>4. x \in (M - r) + 1 .. M
      BY <3>2
    <3> HIDE DEF x, K
    <3>5. QED
      BY <3>3, <3>4
  <2>2. CASE r \notin 1 .. M - 1
    BY <2>2
  <2>3. QED
    BY <2>1, <2>2
<1>2. K = [r \in Nat |-> K[r]]
  OBVIOUS
<1>3. \A r \in 1 .. M - 1 : K[r] = M - J[M - r]
  OBVIOUS
<1>4. \A r \in Nat : C[r] = S[M - r]
  OBVIOUS
<1> HIDE DEF K, C
<1>5. K \in [Nat -> Nat]
  BY <1>1, <1>2
<1>6. \A r \in Nat \ {0} : K[r] < r
  BY <1>1
<1>7. PICK g : Solves(g, v, K, C)
  BY <1>5, <1>6, Recursion
<1>8. g[0] = v /\ \A r \in Nat \ {0} : g[r] = C[r][g[K[r]]]
  BY <1>7 DEF Solves
<1> DEFINE f == [i \in 1 .. M |-> g[M - i]]
<1>9. \A i \in 1 .. M : f[i] = g[M - i]
  OBVIOUS
<1>10. f = [i \in 1 .. M |-> f[i]]
  OBVIOUS
<1> HIDE DEF f
<1>11. f[M] = v
  BY <1>8, <1>9
<1>12. ASSUME NEW i \in 1 .. M - 1  PROVE f[i] = S[i][f[J[i]]]
  <2> DEFINE r == M - i
             x == J[i]
  <2>1. r \in Nat \ {0} /\ r \in 1 .. M - 1 /\ M - r = i /\ i \in 1 .. M
    OBVIOUS
  <2>2. x \in 1 .. M
    OBVIOUS
  <2> HIDE DEF r, x
  <2>3. K[r] = M - x
    BY <1>3, <2>1 DEF x
  <2>4. g[r] = C[r][g[K[r]]]
    BY <1>8, <2>1
  <2>5. C[r] = S[i]
    BY <1>4, <2>1
  <2>6. f[x] = g[M - x]
    BY <1>9, <2>2
  <2>7. f[i] = g[r]
    BY <1>9, <2>1 DEF r
  <2>8. QED
    BY <2>3, <2>4, <2>5, <2>6, <2>7 DEF x
<1>13. QED
  BY <1>10, <1>11, <1>12 DEF Descends

-----------------------------------------------------------------------------
(* Products and quotients *)

LEMMA Products ==
  ASSUME NEW a \in Nat, NEW b \in Nat
  PROVE  a * b \in Nat /\ a * b = b * a
  OBVIOUS

LEMMA ProductPositive ==
  ASSUME NEW a \in Nat \ {0}, NEW b \in Nat \ {0}
  PROVE  a * b \in Nat \ {0}
  OBVIOUS

LEMMA ProductGrows ==
  ASSUME NEW a \in Nat, NEW b \in Nat, NEW c \in Nat, a <= b
  PROVE  a * c <= b * c
  OBVIOUS

LEMMA ProductStrict ==
  ASSUME NEW a \in Nat, NEW b \in Nat, NEW c \in Nat \ {0}
  PROVE  a < b <=> a * c < b * c
  OBVIOUS

LEMMA ProductSame ==
  ASSUME NEW a \in Nat, NEW b \in Nat, NEW c \in Nat \ {0}, a * c = b * c
  PROVE  a = b
  OBVIOUS

LEMMA Associative ==
  ASSUME NEW a \in Nat, NEW b \in Nat, NEW c \in Nat
  PROVE  (a * b) * c = a * (b * c)
  OBVIOUS

LEMMA Distributes ==
  ASSUME NEW a \in Nat, NEW b \in Nat, NEW c \in Nat
  PROVE  (a + b) * c = a * c + b * c
  OBVIOUS

LEMMA Divided ==
  ASSUME NEW a \in Nat, NEW b \in Nat \ {0}, NEW r \in 0 .. b - 1
  PROVE  (a * b + r) \div b = a /\ (a * b + r) % b = r
  OBVIOUS

LEMMA Division ==
  ASSUME NEW a \in Nat, NEW b \in Nat \ {0}
  PROVE  /\ a \div b \in Nat /\ a % b \in 0 .. b - 1
         /\ a = (a \div b) * b + (a % b)
  OBVIOUS

LEMMA DivisionShrinks ==
  ASSUME NEW a \in Nat \ {0}, NEW b \in Nat, b > 1
  PROVE  a \div b \in Nat /\ a \div b < a
  OBVIOUS

-----------------------------------------------------------------------------
(* Powers and the values of digits *)

LEMMA BaseIs == Base \in Nat \ {0} /\ Base > 1 /\ Digits = 0 .. Base - 1
  BY BaseAssumption DEF Digits

LEMMA PowerIs ==
  /\ Power[0] = 1
  /\ \A n \in Nat : Power[n] \in Nat \ {0} /\ Power[n + 1] = Power[n] * Base
<1> DEFINE J == [n \in Nat |-> IF n = 0 THEN 0 ELSE n - 1]
           S == [n \in Nat |-> [x \in Nat |-> x * Base]]
<1>1. \A n \in Nat \ {0} : J[n] = n - 1
  OBVIOUS
<1>91. J \in [Nat -> Nat]
  OBVIOUS
<1>92. \A n \in Nat \ {0} : J[n] < n
  OBVIOUS
<1>2. \A n \in Nat : \A x \in Nat : S[n][x] = x * Base
  OBVIOUS
<1> HIDE DEF J, S
<1>3. PICK f : /\ f = [n \in Nat |-> f[n]]
               /\ f[0] = 1
               /\ \A n \in Nat \ {0} : f[n] = S[n][f[J[n]]]
  <2>1. \E f : Solves(f, 1, J, S)
    BY <1>91, <1>92, Recursion
  <2>2. QED
    BY <2>1 DEF Solves
<1> DEFINE W == {n \in Nat : f[n] \in Nat \ {0}}
<1>4. 0 \in W
  BY <1>3
<1>5. ASSUME NEW n \in Nat, n \in W  PROVE n + 1 \in W
  <2>0. n + 1 \in Nat \ {0} /\ (n + 1) - 1 = n
    OBVIOUS
  <2>1. f[n + 1] = S[n + 1][f[n]]
    BY <1>1, <1>3, <2>0
  <2>2. f[n] \in Nat \ {0}
    BY <1>5
  <2>3. f[n + 1] = f[n] * Base
    BY <1>2, <2>1, <2>2
  <2>4. f[n] * Base \in Nat \ {0}
    BY <2>2, BaseIs, ProductPositive
  <2>5. QED
    BY <2>3, <2>4
<1>6. \A n \in Nat : n \in W => n + 1 \in W
  BY <1>5
<1> HIDE DEF W
<1>7. \A n \in Nat : n \in W
  BY <1>4, <1>6, FromOneBelow
<1>8. \A n \in Nat : f[n] \in Nat \ {0}
  BY <1>7 DEF W
<1>9. \A n \in Nat : f[n] = IF n = 0 THEN 1 ELSE f[n - 1] * Base
  <2> TAKE n \in Nat
  <2>1. CASE n = 0
    BY <1>3, <2>1
  <2>2. CASE n # 0
    <3>1. n - 1 \in Nat /\ f[n - 1] \in Nat
      BY <1>8, <2>2
    <3>2. QED
      BY <1>1, <1>2, <1>3, <2>2, <3>1
  <2>3. QED
    BY <2>1, <2>2
<1>10. f = [n \in Nat |-> IF n = 0 THEN 1 ELSE f[n - 1] * Base]
  BY <1>3, <1>9
<1>11. Power = [n \in Nat |-> IF n = 0 THEN 1 ELSE Power[n - 1] * Base]
  BY <1>10 DEF Power
<1> DEFINE U == {n \in Nat : Power[n] = f[n]}
<1>12. 0 \in U
  BY <1>3, <1>11
<1>13. ASSUME NEW n \in Nat, n \in U  PROVE n + 1 \in U
  <2>1. n + 1 # 0 /\ (n + 1) - 1 = n
    OBVIOUS
  <2>2. QED
    BY <1>9, <1>11, <1>13, <2>1
<1>14. \A n \in Nat : n \in U => n + 1 \in U
  BY <1>13
<1> HIDE DEF U
<1>15. \A n \in Nat : n \in U
  BY <1>12, <1>14, FromOneBelow
<1>16. \A n \in Nat : Power[n] = f[n]
  BY <1>15 DEF U
<1>17. \A n \in Nat : f[n + 1] = f[n] * Base
  <2> TAKE n \in Nat
  <2>1. n + 1 \in Nat /\ n + 1 # 0 /\ (n + 1) - 1 = n
    OBVIOUS
  <2>2. QED
    BY <1>9, <2>1
<1>18. QED
  BY <1>3, <1>8, <1>16, <1>17

\* The value of the first i digits of d, as Horner has them.
Value(d) ==
  CHOOSE Up : Up = [i \in 0 .. Len(d) |-> IF i = 0 THEN 0 ELSE Up[i - 1] * Base + d[i]]

LEMMA ValueIs ==
  ASSUME NEW d \in Seq(Digits)
  PROVE  /\ Horner(d) = Value(d)[Len(d)] /\ Horner(d) \in Nat
         /\ Value(d)[0] = 0
         /\ \A i \in 0 .. Len(d) : Value(d)[i] \in Nat
         /\ \A i \in 1 .. Len(d) : Value(d)[i] = Value(d)[i - 1] * Base + d[i]
<1> DEFINE N == Len(d)
           J == [n \in Nat |-> IF n = 0 THEN 0 ELSE n - 1]
           S == [n \in Nat |-> [x \in Nat |-> x * Base + d[n]]]
<1>1. \A n \in Nat \ {0} : J[n] = n - 1
  OBVIOUS
<1>91. J \in [Nat -> Nat]
  OBVIOUS
<1>92. \A n \in Nat \ {0} : J[n] < n
  OBVIOUS
<1>2. \A n \in Nat : \A x \in Nat : S[n][x] = x * Base + d[n]
  OBVIOUS
<1>3. N \in Nat /\ \A i \in 1 .. N : d[i] \in Nat
  BY BaseIs
<1> HIDE DEF J, S, N
<1>4. PICK f : /\ f = [n \in Nat |-> f[n]]
               /\ f[0] = 0
               /\ \A n \in Nat \ {0} : f[n] = S[n][f[J[n]]]
  <2>1. \E f : Solves(f, 0, J, S)
    BY <1>91, <1>92, Recursion
  <2>2. QED
    BY <2>1 DEF Solves
<1> DEFINE W == {n \in Nat : f[n] \in Nat}
<1>5. 0 \in W
  BY <1>4
<1>6. ASSUME NEW i \in 0 .. N - 1, i \in W  PROVE i + 1 \in W
  <2>1. i + 1 \in Nat \ {0} /\ (i + 1) - 1 = i /\ i + 1 \in 1 .. N
    BY <1>3
  <2>2. f[i + 1] = S[i + 1][f[i]]
    BY <1>1, <1>4, <2>1
  <2>3. f[i] \in Nat
    BY <1>6
  <2>4. f[i + 1] = f[i] * Base + d[i + 1]
    BY <1>2, <2>1, <2>2, <2>3
  <2>5. f[i] * Base \in Nat
    BY <2>3, BaseIs, Products
  <2>6. QED
    BY <1>3, <2>1, <2>4, <2>5
<1>7. \A i \in 0 .. N - 1 : i \in W => i + 1 \in W
  BY <1>6
<1> HIDE DEF W
<1>8. \A i \in 0 .. N : i \in W
  BY <1>3, <1>5, <1>7, FromOneBelowTo
<1>9. \A i \in 0 .. N : f[i] \in Nat
  BY <1>8 DEF W
<1>10. ASSUME NEW i \in 0 .. N, i # 0  PROVE f[i] = f[i - 1] * Base + d[i]
  <2>1. i \in Nat \ {0} /\ i - 1 \in 0 .. N
    BY <1>3, <1>10
  <2>2. f[i - 1] \in Nat
    BY <1>9, <2>1
  <2>3. QED
    BY <1>1, <1>2, <1>4, <2>1, <2>2
<1> DEFINE g == [i \in 0 .. N |-> f[i]]
<1>11. \A i \in 0 .. N : g[i] = IF i = 0 THEN 0 ELSE g[i - 1] * Base + d[i]
  <2> TAKE i \in 0 .. N
  <2>1. CASE i = 0
    BY <1>4, <2>1
  <2>2. CASE i # 0
    <3>1. i - 1 \in 0 .. N
      BY <1>3, <2>2
    <3>2. QED
      BY <1>10, <2>2, <3>1
  <2>3. QED
    BY <2>1, <2>2
<1>12. g = [i \in 0 .. N |-> g[i]]
  OBVIOUS
<1> HIDE DEF g
<1>13. g = [i \in 0 .. N |-> IF i = 0 THEN 0 ELSE g[i - 1] * Base + d[i]]
  BY <1>11, <1>12
<1> DEFINE h == Value(d)
<1>14. h = [i \in 0 .. N |-> IF i = 0 THEN 0 ELSE h[i - 1] * Base + d[i]]
  BY <1>13 DEF Value, N
<1>15. Horner(d) = h[N]
  BY DEF Horner, Value, N
<1> HIDE DEF h
<1>16. \A i \in 0 .. N : h[i] = IF i = 0 THEN 0 ELSE h[i - 1] * Base + d[i]
  BY <1>14
<1> DEFINE U == {i \in Nat : h[i] \in Nat}
<1>17. 0 \in U
  BY <1>3, <1>16
<1>18. ASSUME NEW i \in 0 .. N - 1, i \in U  PROVE i + 1 \in U
  <2>1. i + 1 \in 0 .. N /\ i + 1 # 0 /\ (i + 1) - 1 = i /\ i + 1 \in 1 .. N
    BY <1>3
  <2>2. h[i + 1] = h[i] * Base + d[i + 1]
    BY <1>16, <2>1
  <2>3. h[i] * Base \in Nat
    BY <1>18, BaseIs, Products
  <2>4. QED
    BY <1>3, <2>1, <2>2, <2>3
<1>19. \A i \in 0 .. N - 1 : i \in U => i + 1 \in U
  BY <1>18
<1> HIDE DEF U
<1>20. \A i \in 0 .. N : i \in U
  BY <1>3, <1>17, <1>19, FromOneBelowTo
<1>21. \A i \in 0 .. N : h[i] \in Nat
  BY <1>20 DEF U
<1>22. \A i \in 1 .. N : h[i] = h[i - 1] * Base + d[i]
  BY <1>3, <1>16
<1>23. h[0] = 0 /\ h[N] \in Nat
  BY <1>3, <1>16, <1>21
<1>24. QED
  BY <1>15, <1>21, <1>22, <1>23 DEF h, N

LEMMA DigitIs ==
  ASSUME NEW d \in Seq(Digits), NEW i \in 1 .. Len(d)
  PROVE  d[i] \in Nat /\ d[i] <= Base - 1 /\ d[i] \in Digits
  BY BaseIs

\* Values are below the power of as many digits.
LEMMA ValueBelow ==
  ASSUME NEW d \in Seq(Digits)
  PROVE  \A i \in 0 .. Len(d) : Value(d)[i] < Power[i]
<1> DEFINE N == Len(d)
           v == Value(d)
           W == {i \in 0 .. N : v[i] < Power[i]}
<1>1. N \in Nat /\ v[0] = 0 /\ \A i \in 0 .. N : v[i] \in Nat
  BY ValueIs
<1>2. \A i \in 1 .. N : v[i] = v[i - 1] * Base + d[i]
  BY ValueIs
<1> HIDE DEF v, N
<1>3. 0 \in W
  BY <1>1, PowerIs
<1>4. ASSUME NEW i \in 0 .. N - 1, i \in W  PROVE i + 1 \in W
  <2>1. i + 1 \in 1 .. N /\ i + 1 \in 0 .. N /\ (i + 1) - 1 = i /\ i \in 0 .. N /\ i \in Nat
    BY <1>1
  <2>2. d[i + 1] \in Nat /\ d[i + 1] <= Base - 1
    BY <2>1, DigitIs DEF N
  <2> DEFINE x == v[i]
             P == Power[i]
             z == d[i + 1]
  <2>3. x \in Nat /\ P \in Nat /\ x < P
    <3>1. x \in Nat
      BY <1>1, <2>1
    <3>2. P \in Nat
      BY <2>1, PowerIs
    <3>3. x < P
      BY <1>4
    <3>4. QED
      BY <3>1, <3>2, <3>3
  <2>7. v[i + 1] = x * Base + z
    BY <1>2, <2>1
  <2>8. Power[i + 1] = P * Base
    BY <2>1, PowerIs
  <2>10. z \in Nat /\ z <= Base - 1
    BY <2>2
  <2> HIDE DEF x, P, z
  <2>4. (x + 1) * Base <= P * Base
    <3>1. x + 1 \in Nat /\ x + 1 <= P
      BY <2>3
    <3>2. QED
      BY <2>3, <3>1, BaseIs, ProductGrows
  <2>5. (x + 1) * Base = x * Base + Base
    BY <2>3, BaseIs
  <2>6. x * Base \in Nat /\ P * Base \in Nat
    BY <2>3, BaseIs, Products
  <2>11. x * Base + z < P * Base
    BY <2>4, <2>5, <2>6, <2>10, BaseIs
  <2>9. v[i + 1] < Power[i + 1]
    BY <2>7, <2>8, <2>11
  <2>12. QED
    BY <2>1, <2>9
<1>5. \A i \in 0 .. N - 1 : i \in W => i + 1 \in W
  BY <1>4
<1> HIDE DEF W
<1>6. \A i \in 0 .. N : i \in W
  BY <1>1, <1>3, <1>5, FromOneBelowTo
<1>7. QED
  BY <1>6 DEF W, N, v

\* Equal digits in front have equal values, and none greater no greater one.
LEMMA ValueGrows ==
  ASSUME NEW d \in Seq(Digits), NEW e \in Seq(Digits), NEW n \in 0 .. Len(d), n <= Len(e),
         \A i \in 1 .. n : d[i] <= e[i]
  PROVE  \A i \in 0 .. n : Value(d)[i] <= Value(e)[i]
<1> DEFINE v == Value(d)
           u == Value(e)
           W == {i \in 0 .. n : v[i] <= u[i]}
<1>1. v[0] = 0 /\ u[0] = 0 /\ n \in Nat
  BY ValueIs
<1>2. \A i \in 0 .. n : v[i] \in Nat /\ u[i] \in Nat
  BY ValueIs
<1>3. \A i \in 1 .. n : v[i] = v[i - 1] * Base + d[i] /\ u[i] = u[i - 1] * Base + e[i]
  BY ValueIs
<1> HIDE DEF v, u
<1>4. 0 \in W
  BY <1>1
<1>5. ASSUME NEW i \in 0 .. n - 1, i \in W  PROVE i + 1 \in W
  <2>1. i + 1 \in 1 .. n /\ i + 1 \in 0 .. n /\ (i + 1) - 1 = i /\ i \in 0 .. n
    BY <1>1
  <2>9. i + 1 \in 1 .. Len(d) /\ i + 1 \in 1 .. Len(e)
    BY <2>1
  <2>2. d[i + 1] \in Nat /\ e[i + 1] \in Nat /\ d[i + 1] <= e[i + 1]
    BY <2>1, <2>9, DigitIs
  <2>3. v[i] \in Nat /\ u[i] \in Nat /\ v[i] <= u[i]
    BY <1>2, <1>5, <2>1
  <2>4. v[i] * Base <= u[i] * Base /\ v[i] * Base \in Nat /\ u[i] * Base \in Nat
    BY <2>3, BaseIs, ProductGrows, Products
  <2>5. v[i + 1] = v[i] * Base + d[i + 1] /\ u[i + 1] = u[i] * Base + e[i + 1]
    BY <1>3, <2>1
  <2>6. QED
    BY <2>1, <2>2, <2>4, <2>5
<1>6. \A i \in 0 .. n - 1 : i \in W => i + 1 \in W
  BY <1>5
<1> HIDE DEF W
<1>7. \A i \in 0 .. n : i \in W
  BY <1>1, <1>4, <1>6, FromOneBelowTo
<1>8. QED
  BY <1>7 DEF W, v, u

LEMMA ValueSame ==
  ASSUME NEW d \in Seq(Digits), NEW e \in Seq(Digits), NEW n \in 0 .. Len(d), n <= Len(e),
         \A i \in 1 .. n : d[i] = e[i]
  PROVE  \A i \in 0 .. n : Value(d)[i] = Value(e)[i]
<1>1. n \in 0 .. Len(e) /\ n <= Len(d)
  OBVIOUS
<1>2. \A i \in 1 .. n : d[i] <= e[i] /\ e[i] <= d[i]
  <2> TAKE i \in 1 .. n
  <2>1. i \in 1 .. Len(d)
    OBVIOUS
  <2>2. d[i] \in Nat
    BY <2>1, DigitIs
  <2>3. QED
    BY <2>2
<1>3. \A i \in 0 .. n : Value(d)[i] <= Value(e)[i]
  BY <1>2, ValueGrows
<1>4. \A i \in 0 .. n : Value(e)[i] <= Value(d)[i]
  BY <1>1, <1>2, ValueGrows
<1>5. \A i \in 0 .. n : Value(d)[i] \in Nat /\ Value(e)[i] \in Nat
  BY <1>1, ValueIs
<1>6. QED
  BY <1>3, <1>4, <1>5

\* The first digit decides between which multiples of its power a value lies.
LEMMA ValueLeads ==
  ASSUME NEW d \in Seq(Digits), d # <<>>
  PROVE  /\ Len(d) - 1 \in Nat /\ Power[Len(d) - 1] \in Nat \ {0}
         /\ d[1] * Power[Len(d) - 1] <= Horner(d)
         /\ Horner(d) < (d[1] + 1) * Power[Len(d) - 1]
<1> DEFINE N == Len(d) - 1
           v == Value(d)
           W == {i \in 0 .. N : d[1] * Power[i] <= v[i + 1] /\ v[i + 1] < (d[1] + 1) * Power[i]}
<1>1. N \in Nat /\ Len(d) = N + 1
  OBVIOUS
<1>2. v[0] = 0 /\ (\A i \in 0 .. N + 1 : v[i] \in Nat) /\ Horner(d) = v[N + 1]
  BY <1>1, ValueIs
<1>3. \A i \in 1 .. N + 1 : v[i] = v[i - 1] * Base + d[i]
  BY <1>1, ValueIs
<1>4. \A i \in 1 .. N + 1 : d[i] \in Nat /\ d[i] <= Base - 1
  BY <1>1, DigitIs
<1> HIDE DEF v, N
<1>5. 0 \in W
  <2>1. v[1] = v[0] * Base + d[1] /\ d[1] \in Nat
    BY <1>1, <1>3, <1>4
  <2>2. v[0] * Base = 0
    BY <1>2, BaseIs
  <2>3. v[1] = d[1]
    BY <2>1, <2>2
  <2>7. Power[0] = 1
    BY PowerIs
  <2>4. d[1] * Power[0] = d[1] /\ (d[1] + 1) * Power[0] = d[1] + 1
    BY <2>1, <2>7
  <2>5. 0 + 1 = 1 /\ 0 \in 0 .. N
    BY <1>1
  <2>6. QED
    BY <2>1, <2>3, <2>4, <2>5
<1>6. ASSUME NEW i \in 0 .. N - 1, i \in W  PROVE i + 1 \in W
  <2> DEFINE a == d[1]
             P == Power[i]
             x == v[i + 1]
             z == d[i + 2]
  <2>1. i + 1 \in 0 .. N /\ i + 1 \in 0 .. N + 1 /\ i + 2 \in 1 .. N + 1 /\ (i + 2) - 1 = i + 1 /\ i \in Nat
        /\ (i + 1) + 1 = i + 2 /\ 1 \in 1 .. N + 1
    BY <1>1
  <2>2. a \in Nat /\ P \in Nat \ {0} /\ x \in Nat /\ z \in Nat /\ z <= Base - 1
    BY <1>2, <1>4, <2>1, PowerIs
  <2>3. a * P <= x /\ x < (a + 1) * P
    BY <1>6
  <2>4. v[(i + 1) + 1] = x * Base + z
    BY <1>3, <2>1
  <2>5. Power[i + 1] = P * Base
    BY <2>1, PowerIs
  <2> HIDE DEF a, P, x, z
  <2>6. a * P \in Nat /\ (a + 1) * P \in Nat /\ a + 1 \in Nat
    BY <2>2
  <2>7. (a * P) * Base <= x * Base
    BY <2>2, <2>3, <2>6, BaseIs, ProductGrows
  <2>8. (a * P) * Base = a * (P * Base) /\ ((a + 1) * P) * Base = (a + 1) * (P * Base)
    BY <2>2, <2>6, BaseIs, Associative
  <2>9. x + 1 <= (a + 1) * P
    BY <2>2, <2>3, <2>6
  <2>10. (x + 1) * Base <= ((a + 1) * P) * Base
    BY <2>2, <2>6, <2>9, BaseIs, ProductGrows
  <2>11. (x + 1) * Base = x * Base + Base /\ x * Base \in Nat
    BY <2>2, BaseIs
  <2>12. (a * P) * Base \in Nat /\ ((a + 1) * P) * Base \in Nat
    BY <2>6, BaseIs, Products
  <2>13. a * (P * Base) <= x * Base + z
    BY <2>2, <2>7, <2>8, <2>11, <2>12
  <2>14. x * Base + z < (a + 1) * (P * Base)
    BY <2>2, <2>8, <2>10, <2>11, <2>12, BaseIs
  <2>15. a * Power[i + 1] <= v[(i + 1) + 1] /\ v[(i + 1) + 1] < (a + 1) * Power[i + 1]
    BY <2>4, <2>5, <2>13, <2>14
  <2>16. QED
    BY <2>1, <2>15 DEF a
<1>7. \A i \in 0 .. N - 1 : i \in W => i + 1 \in W
  BY <1>6
<1> HIDE DEF W
<1>8. \A i \in 0 .. N : i \in W
  BY <1>1, <1>5, <1>7, FromOneBelowTo
<1>9. N \in W
  BY <1>1, <1>8
<1>10. d[1] * Power[N] <= v[N + 1] /\ v[N + 1] < (d[1] + 1) * Power[N]
  BY <1>9 DEF W
<1>11. N \in Nat /\ Power[N] \in Nat \ {0} /\ d[1] * Power[N] <= Horner(d) /\ Horner(d) < (d[1] + 1) * Power[N]
  BY <1>1, <1>2, <1>10, PowerIs
<1>12. QED
  BY <1>11 DEF N

\* The digits of a text and those behind it.
LEMMA ValueJoins ==
  ASSUME NEW a \in Seq(Digits), NEW b \in Seq(Digits)
  PROVE  a \o b \in Seq(Digits) /\ Horner(a \o b) = Horner(a) * Power[Len(b)] + Horner(b)
<1> DEFINE c == a \o b
           m == Len(a)
           n == Len(b)
<1>1. c \in Seq(Digits) /\ Len(c) = m + n /\ m \in Nat /\ n \in Nat
  OBVIOUS
<1>2. (\A i \in 1 .. m : c[i] = a[i]) /\ (\A i \in 1 .. n : c[m + i] = b[i])
  OBVIOUS
<1> HIDE DEF c
<1> DEFINE u == Value(a)
           v == Value(b)
           w == Value(c)
           W == {i \in 0 .. n : w[m + i] = u[m] * Power[i] + v[i]}
<1>3. m \in 0 .. Len(c) /\ m <= Len(a) /\ m \in 0 .. m
  BY <1>1
<1>4. \A i \in 0 .. m : Value(c)[i] = Value(a)[i]
  BY <1>1, <1>2, <1>3, ValueSame
<1>5. w[m] = u[m]
  BY <1>3, <1>4
<1>6. u[m] \in Nat /\ v[0] = 0 /\ (\A i \in 0 .. n : v[i] \in Nat) /\ \A i \in 1 .. n : v[i] = v[i - 1] * Base + b[i]
  BY <1>1, ValueIs
<1>7. \A i \in 1 .. m + n : w[i] = w[i - 1] * Base + c[i]
  BY <1>1, ValueIs
<1>8. Horner(a) = u[m] /\ Horner(b) = v[n] /\ Horner(c) = w[m + n]
  BY <1>1, ValueIs
<1>9. \A i \in 1 .. n : b[i] \in Nat
  BY DigitIs
<1> HIDE DEF u, v, w, m, n
<1>10. 0 \in W
  <2>1. m + 0 = m /\ 0 \in 0 .. n
    BY <1>1
  <2>4. Power[0] = 1
    BY PowerIs
  <2>2. u[m] * Power[0] = u[m]
    BY <1>6, <2>4
  <2>3. QED
    BY <1>5, <1>6, <2>1, <2>2
<1>11. ASSUME NEW i \in 0 .. n - 1, i \in W  PROVE i + 1 \in W
  <2>1. i \in Nat /\ i \in 0 .. n /\ i + 1 \in 0 .. n /\ i + 1 \in 1 .. n /\ (i + 1) - 1 = i
        /\ m + (i + 1) \in 1 .. m + n /\ (m + (i + 1)) - 1 = m + i
    BY <1>1
  <2> DEFINE x == u[m]
             P == Power[i]
             y == v[i]
             z == b[i + 1]
  <2>2. x \in Nat /\ P \in Nat /\ y \in Nat /\ z \in Nat
    BY <1>6, <1>9, <2>1, PowerIs
  <2>3. w[m + i] = x * P + y
    BY <1>11
  <2>4. w[m + (i + 1)] = w[m + i] * Base + c[m + (i + 1)]
    BY <1>7, <2>1
  <2>5. c[m + (i + 1)] = z
    BY <1>2, <2>1 DEF m, n
  <2>6. v[i + 1] = y * Base + z
    BY <1>6, <2>1
  <2>7. Power[i + 1] = P * Base
    BY <2>1, PowerIs
  <2> HIDE DEF x, P, y, z
  <2>8. x * P \in Nat /\ Base \in Nat
    BY <2>2, BaseIs
  <2>9. (x * P + y) * Base = (x * P) * Base + y * Base
    BY <2>2, <2>8, Distributes
  <2>10. (x * P) * Base = x * (P * Base)
    BY <2>2, <2>8, Associative
  <2>11. x * (P * Base) \in Nat /\ y * Base \in Nat
    BY <2>2, <2>8
  <2>12. w[m + (i + 1)] = (x * (P * Base) + y * Base) + z
    BY <2>3, <2>4, <2>5, <2>9, <2>10
  <2>13. w[m + (i + 1)] = x * (P * Base) + (y * Base + z)
    BY <2>2, <2>11, <2>12
  <2>14. w[m + (i + 1)] = x * Power[i + 1] + v[i + 1]
    BY <2>6, <2>7, <2>13
  <2>15. QED
    BY <2>1, <2>14 DEF x
<1>12. \A i \in 0 .. n - 1 : i \in W => i + 1 \in W
  BY <1>11
<1> HIDE DEF W
<1>13. \A i \in 0 .. n : i \in W
  BY <1>1, <1>10, <1>12, FromOneBelowTo
<1>14. n \in W
  BY <1>1, <1>13
<1>15. w[m + n] = u[m] * Power[n] + v[n]
  BY <1>14 DEF W
<1>16. QED
  BY <1>1, <1>8, <1>15 DEF c, n

\* The sum of the last i digits of d, as Sum has them.
Summed(d) ==
  CHOOSE From : From = [i \in 0 .. Len(d) |->
    IF i = 0 THEN 0 ELSE From[i - 1] + d[Len(d) - i + 1] * Power[i - 1]]

LEMMA SummedIs ==
  ASSUME NEW d \in Seq(Digits)
  PROVE  /\ Sum(d) = Summed(d)[Len(d)]
         /\ Summed(d)[0] = 0
         /\ \A i \in 0 .. Len(d) : Summed(d)[i] \in Nat
         /\ \A i \in 1 .. Len(d) : Summed(d)[i] = Summed(d)[i - 1] + d[Len(d) - i + 1] * Power[i - 1]
<1> DEFINE N == Len(d)
           A == [i \in Nat |-> d[N - i + 1] * Power[i - 1]]
           S == [n \in Nat |-> [x \in Nat |-> x + A[n]]]
<1>1. N \in Nat /\ \A i \in 1 .. N : d[i] \in Nat
  BY BaseIs
<1>2. \A i \in 1 .. N : A[i] \in Nat
  <2> TAKE i \in 1 .. N
  <2>1. i \in Nat /\ i - 1 \in Nat /\ N - i + 1 \in 1 .. N
    BY <1>1
  <2>2. d[N - i + 1] \in Nat /\ Power[i - 1] \in Nat
    BY <1>1, <2>1, PowerIs
  <2> DEFINE x == d[N - i + 1]
             y == Power[i - 1]
  <2>3. A[i] = x * y
    BY <2>1
  <2>4. x \in Nat /\ y \in Nat
    BY <2>2
  <2> HIDE DEF x, y
  <2>5. QED
    BY <2>3, <2>4, Products
<1>3. \A i \in 1 .. N : A[i] = d[N - i + 1] * Power[i - 1]
  BY <1>1
<1> HIDE DEF A
<1>4. \A n \in Nat : \A x \in Nat : S[n][x] = x + A[n]
  OBVIOUS
<1> HIDE DEF S
<1>5. PICK f : Counts(f, N, 0, S)
  BY <1>1, Counting
<1>6. f = [i \in 0 .. N |-> f[i]] /\ f[0] = 0 /\ \A i \in 1 .. N : f[i] = S[i][f[i - 1]]
  BY <1>5 DEF Counts
<1> HIDE DEF N
<1> DEFINE W == {i \in Nat : f[i] \in Nat}
<1>7. 0 \in W
  BY <1>6
<1>8. ASSUME NEW i \in 0 .. N - 1, i \in W  PROVE i + 1 \in W
  <2>1. i + 1 \in 1 .. N /\ (i + 1) - 1 = i /\ i + 1 \in Nat
    BY <1>1
  <2>2. f[i] \in Nat
    BY <1>8
  <2>6. f[i + 1] = S[i + 1][f[i]]
    BY <1>6, <2>1
  <2>3. f[i + 1] = f[i] + A[i + 1]
    BY <1>4, <2>1, <2>2, <2>6
  <2>4. A[i + 1] \in Nat
    BY <1>2, <2>1
  <2>5. QED
    BY <2>1, <2>2, <2>3, <2>4
<1>9. \A i \in 0 .. N - 1 : i \in W => i + 1 \in W
  BY <1>8
<1> HIDE DEF W
<1>10. \A i \in 0 .. N : i \in W
  BY <1>1, <1>7, <1>9, FromOneBelowTo
<1>11. \A i \in 0 .. N : f[i] \in Nat
  BY <1>10 DEF W
<1>12. \A i \in 0 .. N : f[i] = IF i = 0 THEN 0 ELSE f[i - 1] + d[N - i + 1] * Power[i - 1]
  <2> TAKE i \in 0 .. N
  <2>1. CASE i = 0
    BY <1>6, <2>1
  <2>2. CASE i # 0
    <3>1. i \in 1 .. N /\ i - 1 \in 0 .. N /\ i \in Nat
      BY <1>1, <2>2
    <3>2. f[i - 1] \in Nat
      BY <1>11, <3>1
    <3>3. f[i] = f[i - 1] + A[i]
      BY <1>4, <1>6, <3>1, <3>2
    <3>4. QED
      BY <1>3, <2>2, <3>1, <3>3
  <2>3. QED
    BY <2>1, <2>2
<1>13. f = [i \in 0 .. N |-> IF i = 0 THEN 0 ELSE f[i - 1] + d[N - i + 1] * Power[i - 1]]
  BY <1>6, <1>12
<1> DEFINE h == Summed(d)
<1>14. h = [i \in 0 .. N |-> IF i = 0 THEN 0 ELSE h[i - 1] + d[N - i + 1] * Power[i - 1]]
  BY <1>13 DEF Summed, N
<1>15. Sum(d) = h[N]
  BY DEF Sum, Summed, N
<1> HIDE DEF h
<1>16. \A i \in 0 .. N : h[i] = IF i = 0 THEN 0 ELSE h[i - 1] + d[N - i + 1] * Power[i - 1]
  BY <1>14
<1> DEFINE U == {i \in Nat : h[i] \in Nat}
<1>17. 0 \in U
  BY <1>1, <1>16
<1>18. ASSUME NEW i \in 0 .. N - 1, i \in U  PROVE i + 1 \in U
  <2>1. i + 1 \in 0 .. N /\ i + 1 # 0 /\ (i + 1) - 1 = i /\ i + 1 \in 1 .. N /\ i + 1 \in Nat
    BY <1>1
  <2>2. h[i + 1] = h[i] + d[N - (i + 1) + 1] * Power[(i + 1) - 1]
    BY <1>16, <2>1
  <2>3. h[i + 1] = h[i] + A[i + 1]
    BY <1>3, <2>1, <2>2
  <2>4. h[i] \in Nat /\ A[i + 1] \in Nat
    BY <1>2, <1>18, <2>1
  <2>5. QED
    BY <2>1, <2>3, <2>4
<1>19. \A i \in 0 .. N - 1 : i \in U => i + 1 \in U
  BY <1>18
<1> HIDE DEF U
<1>20. \A i \in 0 .. N : i \in U
  BY <1>1, <1>17, <1>19, FromOneBelowTo
<1>21. \A i \in 0 .. N : h[i] \in Nat
  BY <1>20 DEF U
<1>22. \A i \in 1 .. N : h[i] = h[i - 1] + d[N - i + 1] * Power[i - 1]
  BY <1>1, <1>16
<1>23. h[0] = 0
  BY <1>1, <1>16
<1>24. QED
  BY <1>15, <1>21, <1>22, <1>23 DEF h, N

\* Adding up the digits times their powers is reading them digit by digit.
LEMMA SumIsHorner ==
  ASSUME NEW d \in Seq(Digits)
  PROVE  Sum(d) = Horner(d) /\ Horner(d) \in Nat
<1> DEFINE N == Len(d)
           v == Value(d)
           f == Summed(d)
           H == Horner(d)
           W == {i \in 0 .. N : f[i] + v[N - i] * Power[i] = H}
<1>1. N \in Nat /\ \A i \in 1 .. N : d[i] \in Nat
  BY BaseIs
<1>2. H = v[N] /\ H \in Nat /\ v[0] = 0
  BY ValueIs
<1>3. \A i \in 0 .. N : v[i] \in Nat
  BY ValueIs
<1>4. \A i \in 1 .. N : v[i] = v[i - 1] * Base + d[i]
  BY ValueIs
<1>5. Sum(d) = f[N] /\ f[0] = 0
  BY SummedIs
<1>6. \A i \in 0 .. N : f[i] \in Nat
  BY SummedIs
<1>7. \A i \in 1 .. N : f[i] = f[i - 1] + d[N - i + 1] * Power[i - 1]
  BY SummedIs
<1> HIDE DEF N, v, f, H
<1>8. 0 \in W
  <2>1. N - 0 = N /\ 0 \in 0 .. N
    BY <1>1
  <2>2. Power[0] = 1
    BY PowerIs
  <2>3. H * Power[0] = H
    BY <1>2, <2>2
  <2>4. QED
    BY <1>2, <1>5, <2>1, <2>3
<1>9. ASSUME NEW i \in 0 .. N - 1, i \in W  PROVE i + 1 \in W
  <2>1. i + 1 \in 0 .. N /\ i + 1 \in 1 .. N /\ N - i \in 1 .. N /\ (N - i) - 1 = N - (i + 1) /\ (i + 1) - 1 = i
        /\ N - (i + 1) + 1 = N - i /\ i \in Nat /\ i \in 0 .. N /\ N - (i + 1) \in 0 .. N
    BY <1>1
  <2> DEFINE x == f[i]
             z == d[N - i]
             P == Power[i]
             y == v[N - (i + 1)]
  <2>2. x \in Nat
    BY <1>6, <2>1
  <2>3. z \in Nat
    BY <1>1, <2>1
  <2>4. P \in Nat
    BY <2>1, PowerIs
  <2>5. y \in Nat
    BY <1>3, <2>1
  <2>6. f[i + 1] = x + z * P
    BY <1>7, <2>1
  <2>7. v[N - i] = y * Base + z
    BY <1>4, <2>1
  <2>8. Power[i + 1] = P * Base
    BY <2>1, PowerIs
  <2>9. x + v[N - i] * P = H
    BY <1>9
  <2> HIDE DEF x, z, P, y
  <2>10. x + (y * Base + z) * P = H
    BY <2>7, <2>9
  <2>11. y * Base \in Nat /\ Base \in Nat
    BY <2>5, BaseIs, Products
  <2>12. (y * Base + z) * P = (y * Base) * P + z * P
    BY <2>3, <2>4, <2>11, Distributes
  <2>13. (y * Base) * P = y * (Base * P)
    BY <2>4, <2>5, <2>11, Associative
  <2>14. Base * P = P * Base
    BY <2>4, <2>11, Products
  <2>15. z * P \in Nat /\ y * (P * Base) \in Nat
    BY <2>3, <2>4, <2>5, <2>11
  <2>16. x + (y * (P * Base) + z * P) = H
    BY <2>10, <2>12, <2>13, <2>14
  <2>17. (x + z * P) + y * (P * Base) = H
    BY <2>2, <2>15, <2>16
  <2>18. f[i + 1] + v[N - (i + 1)] * Power[i + 1] = H
    BY <2>6, <2>8, <2>17 DEF y
  <2>19. QED
    BY <2>1, <2>18
<1>10. \A i \in 0 .. N - 1 : i \in W => i + 1 \in W
  BY <1>9
<1> HIDE DEF W
<1>11. \A i \in 0 .. N : i \in W
  BY <1>1, <1>8, <1>10, FromOneBelowTo
<1>12. N \in W
  BY <1>1, <1>11
<1>13. f[N] + v[N - N] * Power[N] = H
  BY <1>12 DEF W
<1>18. N - N = 0 /\ N \in 0 .. N
  BY <1>1
<1>19. v[N - N] = 0 /\ f[N] \in Nat
  BY <1>2, <1>6, <1>18
<1>20. Power[N] \in Nat
  BY <1>1, PowerIs
<1>14. v[N - N] = 0 /\ Power[N] \in Nat /\ f[N] \in Nat
  BY <1>19, <1>20
<1>15. v[N - N] * Power[N] = 0
  BY <1>14
<1>16. f[N] = H
  BY <1>13, <1>14, <1>15
<1>17. QED
  BY <1>2, <1>5, <1>16 DEF H

-----------------------------------------------------------------------------
(* Printing *)

LEMMA DigitsOfIs ==
  /\ DigitsOf[0] = <<>>
  /\ \A n \in Nat : DigitsOf[n] \in Seq(Digits)
  /\ \A n \in Nat \ {0} : DigitsOf[n] = Append(DigitsOf[n \div Base], n % Base)
<1> DEFINE J == [n \in Nat |-> n \div Base]
           S == [n \in Nat |-> [x \in Seq(Digits) |-> Append(x, n % Base)]]
<1>1. J \in [Nat -> Nat]
  BY BaseIs
<1>2. \A n \in Nat \ {0} : J[n] < n
  BY BaseIs, DivisionShrinks
<1>3. \A n \in Nat : \A x \in Seq(Digits) : S[n][x] = Append(x, n % Base)
  OBVIOUS
<1>4. \A n \in Nat : J[n] = n \div Base
  OBVIOUS
<1> HIDE DEF J, S
<1>5. PICK f : Solves(f, <<>>, J, S)
  BY <1>1, <1>2, Recursion
<1>6. f = [n \in Nat |-> f[n]] /\ f[0] = <<>> /\ \A n \in Nat \ {0} : f[n] = S[n][f[J[n]]]
  BY <1>5 DEF Solves
<1>7. \A n \in Nat : n % Base \in Digits
  BY BaseIs
<1> DEFINE W == {n \in Nat : f[n] \in Seq(Digits)}
<1>8. ASSUME NEW n \in Nat, \A m \in 0 .. n - 1 : m \in W  PROVE n \in W
  <2>1. CASE n = 0
    <3>1. <<>> \in Seq(Digits)
      OBVIOUS
    <3>2. QED
      BY <1>6, <2>1, <3>1
  <2>2. CASE n # 0
    <3>1. J[n] \in 0 .. n - 1
      BY <1>1, <1>2, <2>2
    <3>2. f[J[n]] \in Seq(Digits)
      BY <1>8, <3>1
    <3>3. f[n] = Append(f[J[n]], n % Base)
      BY <1>3, <1>6, <2>2, <3>2
    <3>4. n % Base \in Digits
      BY <1>7
    <3>5. Append(f[J[n]], n % Base) \in Seq(Digits)
      BY <3>2, <3>4
    <3>6. QED
      BY <3>3, <3>5
  <2>3. QED
    BY <2>1, <2>2
<1> HIDE DEF W
<1>9. \A n \in Nat : n \in W
  BY <1>8, FromAllBelow
<1>10. \A n \in Nat : f[n] \in Seq(Digits)
  BY <1>9 DEF W
<1>11. \A n \in Nat : f[n] = IF n = 0 THEN <<>> ELSE Append(f[n \div Base], n % Base)
  <2> TAKE n \in Nat
  <2>1. CASE n = 0
    BY <1>6, <2>1
  <2>2. CASE n # 0
    <3>1. f[J[n]] \in Seq(Digits)
      BY <1>1, <1>10
    <3>2. QED
      BY <1>3, <1>4, <1>6, <2>2, <3>1
  <2>3. QED
    BY <2>1, <2>2
<1>12. f = [n \in Nat |-> IF n = 0 THEN <<>> ELSE Append(f[n \div Base], n % Base)]
  BY <1>6, <1>11
<1>13. DigitsOf = [n \in Nat |-> IF n = 0 THEN <<>> ELSE Append(DigitsOf[n \div Base], n % Base)]
  BY <1>12 DEF DigitsOf
<1> DEFINE U == {n \in Nat : DigitsOf[n] = f[n]}
<1>14. ASSUME NEW n \in Nat, \A m \in 0 .. n - 1 : m \in U  PROVE n \in U
  <2>1. CASE n = 0
    BY <1>11, <1>13, <2>1
  <2>2. CASE n # 0
    <3>1. n \div Base \in 0 .. n - 1
      BY <1>1, <1>2, <1>4, <2>2
    <3>2. DigitsOf[n \div Base] = f[n \div Base]
      BY <1>14, <3>1
    <3>3. QED
      BY <1>11, <1>13, <2>2, <3>2
  <2>3. QED
    BY <2>1, <2>2
<1> HIDE DEF U
<1>15. \A n \in Nat : n \in U
  BY <1>14, FromAllBelow
<1>16. \A n \in Nat : DigitsOf[n] = f[n]
  BY <1>15 DEF U
<1>17. \A n \in Nat \ {0} : DigitsOf[n] = Append(DigitsOf[n \div Base], n % Base)
  BY <1>13
<1>18. QED
  BY <1>6, <1>10, <1>16, <1>17

\* The value of one digit more.
LEMMA HornerAppend ==
  ASSUME NEW d \in Seq(Digits), NEW x \in Digits
  PROVE  Append(d, x) \in Seq(Digits) /\ Horner(Append(d, x)) = Horner(d) * Base + x
<1> DEFINE e == Append(d, x)
           N == Len(d)
<1>1. e \in Seq(Digits) /\ Len(e) = N + 1 /\ N \in Nat /\ e[N + 1] = x /\ \A i \in 1 .. N : e[i] = d[i]
  OBVIOUS
<1> HIDE DEF e
<1>2. N \in 0 .. Len(d) /\ N <= Len(e) /\ N \in 0 .. N
  BY <1>1
<1>3. \A i \in 1 .. N : d[i] = e[i]
  BY <1>1
<1>4. \A i \in 0 .. N : Value(d)[i] = Value(e)[i]
  BY <1>1, <1>2, <1>3, ValueSame
<1>5. Value(d)[N] = Value(e)[N]
  BY <1>2, <1>4
<1>6. Horner(d) = Value(d)[N]
  BY ValueIs
<1>7. Horner(e) = Value(e)[N + 1]
  BY <1>1, ValueIs
<1>8. N + 1 \in 1 .. Len(e) /\ (N + 1) - 1 = N
  BY <1>1
<1>9. Value(e)[N + 1] = Value(e)[N] * Base + e[N + 1]
  BY <1>1, <1>8, ValueIs
<1>10. QED
  BY <1>1, <1>5, <1>6, <1>7, <1>9 DEF e

LEMMA HornerEmpty == Horner(<<>>) = 0
<1>1. <<>> \in Seq(Digits) /\ Len(<<>>) = 0
  OBVIOUS
<1>2. QED
  BY <1>1, ValueIs

LEMMA HornerOne ==
  ASSUME NEW x \in Digits
  PROVE  <<x>> \in Seq(Digits) /\ Horner(<<x>>) = x
<1>1. <<>> \in Seq(Digits) /\ Append(<<>>, x) = <<x>>
  OBVIOUS
<1>2. <<x>> \in Seq(Digits) /\ Horner(<<x>>) = Horner(<<>>) * Base + x
  BY <1>1, HornerAppend
<1>3. 0 * Base = 0 /\ x \in Nat
  BY BaseIs
<1>4. QED
  BY <1>2, <1>3, HornerEmpty

\* The digits of a number have its value, and the first of them is not 0.
LEMMA DigitsOfValue ==
  \A n \in Nat : /\ DigitsOf[n] \in Seq(Digits) /\ Horner(DigitsOf[n]) = n
                 /\ n # 0 => DigitsOf[n] # <<>> /\ DigitsOf[n][1] # 0
<1> DEFINE W == {n \in Nat : Horner(DigitsOf[n]) = n
                             /\ (n # 0 => DigitsOf[n] # <<>> /\ DigitsOf[n][1] # 0)}
<1>1. ASSUME NEW n \in Nat, \A m \in 0 .. n - 1 : m \in W  PROVE n \in W
  <2>1. CASE n = 0
    BY <2>1, DigitsOfIs, HornerEmpty
  <2>2. CASE n # 0
    <3> DEFINE q == n \div Base
               r == n % Base
               e == DigitsOf[q]
    <3>1. q \in Nat /\ q < n
      BY <2>2, BaseIs, DivisionShrinks
    <3>2. r \in Digits /\ n = q * Base + r /\ r \in Nat
      BY BaseIs, Division
    <3>3. DigitsOf[n] = Append(e, r)
      BY <2>2, DigitsOfIs
    <3>4. e \in Seq(Digits)
      BY <3>1, DigitsOfIs
    <3>5. Horner(e) = q /\ (q # 0 => e # <<>> /\ e[1] # 0)
      BY <1>1, <3>1
    <3>6. q = 0 => e = <<>>
      BY DigitsOfIs
    <3> HIDE DEF q, r, e
    <3>7. Horner(Append(e, r)) = q * Base + r
      BY <3>2, <3>4, <3>5, HornerAppend
    <3>8. Append(e, r) # <<>>
      BY <3>2, <3>4
    <3>9. Append(e, r)[1] # 0
      <4>1. CASE q = 0
        <5>1. 0 * Base = 0
          BY BaseIs
        <5>2. n = r
          BY <3>2, <4>1, <5>1
        <5>3. QED
          BY <2>2, <3>6, <4>1, <5>2
      <4>2. CASE q # 0
        <5>1. e # <<>> /\ e[1] # 0
          BY <3>5, <4>2
        <5>2. Append(e, r)[1] = e[1]
          BY <3>4, <5>1
        <5>3. QED
          BY <5>1, <5>2
      <4>3. QED
        BY <4>1, <4>2
    <3>10. QED
      BY <3>2, <3>3, <3>7, <3>8, <3>9
  <2>3. QED
    BY <2>1, <2>2
<1> HIDE DEF W
<1>2. \A n \in Nat : n \in W
  BY <1>1, FromAllBelow
<1>3. QED
  BY <1>2, DigitsOfIs DEF W

\* A text without a leading zero is what its value is printed as.
LEMMA DigitsOfHorner ==
  \A n \in Nat : \A d \in Seq(Digits) : Len(d) = n /\ (n > 0 => d[1] # 0) => DigitsOf[Horner(d)] = d
<1> DEFINE W == {n \in Nat : \A d \in Seq(Digits) : Len(d) = n /\ (n > 0 => d[1] # 0) => DigitsOf[Horner(d)] = d}
<1>1. 0 \in W
  BY DigitsOfIs, HornerEmpty
<1>2. ASSUME NEW n \in Nat, n \in W  PROVE n + 1 \in W
  <2>1. ASSUME NEW d \in Seq(Digits), Len(d) = n + 1, d[1] # 0  PROVE DigitsOf[Horner(d)] = d
    <3> DEFINE e == SubSeq(d, 1, n)
               x == d[n + 1]
    <3>1. e \in Seq(Digits) /\ Len(e) = n /\ x \in Digits /\ d = Append(e, x)
      BY <2>1
    <3>2. n > 0 => e[1] = d[1]
      BY <2>1
    <3>3. n = 0 => d = <<x>> /\ x = d[1]
      BY <2>1
    <3> HIDE DEF e, x
    <3>4. DigitsOf[Horner(e)] = e
      BY <1>2, <2>1, <3>1, <3>2
    <3>5. Horner(d) = Horner(e) * Base + x
      BY <3>1, HornerAppend
    <3> DEFINE q == Horner(e)
    <3>6. q \in Nat /\ Horner(d) \in Nat
      BY <3>1, ValueIs
    <3>7. x \in 0 .. Base - 1
      BY <3>1, BaseIs
    <3> HIDE DEF q
    <3>8. (q * Base + x) \div Base = q /\ (q * Base + x) % Base = x
      BY <3>6, <3>7, BaseIs, Divided
    <3>9. Horner(d) # 0
      <4>1. d # <<>>
        BY <2>1
      <4> DEFINE P == Power[Len(d) - 1]
                 y == d[1]
      <4>2. P \in Nat \ {0} /\ y * P <= Horner(d)
        BY <4>1, ValueLeads
      <4>3. y \in Nat \ {0}
        BY <2>1, DigitIs
      <4> HIDE DEF P, y
      <4>4. y * P \in Nat \ {0}
        BY <4>2, <4>3, ProductPositive
      <4>5. QED
        BY <3>6, <4>2, <4>4
    <3>10. DigitsOf[Horner(d)] = Append(DigitsOf[Horner(d) \div Base], Horner(d) % Base)
      BY <3>6, <3>9, DigitsOfIs
    <3>11. Horner(d) \div Base = q /\ Horner(d) % Base = x
      BY <3>5, <3>8 DEF q
    <3>12. QED
      BY <3>1, <3>4, <3>10, <3>11 DEF q
  <2>2. QED
    BY <2>1
<1>3. \A n \in Nat : n \in W => n + 1 \in W
  BY <1>2
<1> HIDE DEF W
<1>4. \A n \in Nat : n \in W
  BY <1>1, <1>3, FromOneBelow
<1>5. QED
  BY <1>4 DEF W

\* The number of digits is told by the powers around the value.
LEMMA PowersGrow ==
  ASSUME NEW m \in Nat, NEW n \in Nat, m <= n
  PROVE  Power[m] <= Power[n]
<1> DEFINE W == {k \in Nat : Power[m] <= Power[m + k]}
<1>1. 0 \in W
  BY PowerIs
<1>2. ASSUME NEW k \in Nat, k \in W  PROVE k + 1 \in W
  <2> DEFINE P == Power[m + k]
             Q == Power[m]
  <2>1. P \in Nat /\ Q \in Nat /\ Power[(m + k) + 1] = P * Base
    BY PowerIs
  <2>2. (m + k) + 1 = m + (k + 1)
    OBVIOUS
  <2>3. Q <= P
    BY <1>2
  <2>5. Power[m + (k + 1)] = P * Base
    BY <2>1, <2>2
  <2> HIDE DEF P, Q
  <2>4. P <= P * Base
    BY <2>1, BaseIs
  <2>6. Q <= P * Base
    BY <2>1, <2>3, <2>4, BaseIs, Products
  <2>7. QED
    BY <2>5, <2>6 DEF Q
<1>3. \A k \in Nat : k \in W => k + 1 \in W
  BY <1>2
<1> HIDE DEF W
<1>4. \A k \in Nat : k \in W
  BY <1>1, <1>3, FromOneBelow
<1>5. n - m \in W /\ m + (n - m) = n
  BY <1>4
<1>6. QED
  BY <1>5 DEF W

LEMMA HornerBelow ==
  ASSUME NEW d \in Seq(Digits)
  PROVE  Horner(d) \in Nat /\ Horner(d) < Power[Len(d)]
<1>1. Len(d) \in 0 .. Len(d)
  OBVIOUS
<1>2. QED
  BY <1>1, ValueBelow, ValueIs

-----------------------------------------------------------------------------
(* Comparing with the bounds *)

\* A number of fewer digits is smaller than one without a leading zero.
LEMMA ShorterBelow ==
  ASSUME NEW d \in Seq(Digits), NEW e \in Seq(Digits), Len(d) < Len(e), e[1] # 0
  PROVE  Horner(d) < Horner(e)
<1> DEFINE P == Power[Len(d)]
           Q == Power[Len(e) - 1]
           x == e[1]
<1>1. Len(d) \in Nat /\ Len(e) - 1 \in Nat /\ Len(d) <= Len(e) - 1 /\ e # <<>> /\ 1 \in 1 .. Len(e)
  OBVIOUS
<1>2. Horner(d) \in Nat /\ Horner(d) < P
  BY HornerBelow
<1>3. P <= Q
  BY <1>1, PowersGrow
<1>4. x * Q <= Horner(e) /\ Horner(e) \in Nat
  BY <1>1, ValueLeads, HornerBelow
<1>5. x \in Nat \ {0}
  BY <1>1, DigitIs
<1>6. P \in Nat /\ Q \in Nat
  BY <1>1, PowerIs
<1> HIDE DEF P, Q, x
<1>7. Q <= x * Q /\ x * Q \in Nat
  BY <1>5, <1>6
<1>8. QED
  BY <1>2, <1>3, <1>4, <1>6, <1>7

LEMMA SmallerFirst ==
  ASSUME NEW d \in Seq(Digits), NEW e \in Seq(Digits), d # <<>>, Len(d) = Len(e), d[1] < e[1]
  PROVE  Horner(d) < Horner(e)
<1> DEFINE P == Power[Len(d) - 1]
           x == d[1]
           y == e[1]
<1>1. e # <<>> /\ 1 \in 1 .. Len(d) /\ 1 \in 1 .. Len(e)
  OBVIOUS
<1>2. Horner(d) < (x + 1) * P /\ P \in Nat
  BY ValueLeads
<1>3. y * P <= Horner(e)
  BY <1>1, ValueLeads
<1>4. x \in Nat /\ y \in Nat
  BY <1>1, DigitIs
<1>5. x < y
  OBVIOUS
<1>6. Horner(d) \in Nat /\ Horner(e) \in Nat
  BY HornerBelow
<1> HIDE DEF P, x, y
<1>7. x + 1 \in Nat /\ x + 1 <= y
  BY <1>4, <1>5
<1>8. (x + 1) * P <= y * P
  BY <1>2, <1>4, <1>7, ProductGrows
<1>9. (x + 1) * P \in Nat /\ y * P \in Nat
  BY <1>2, <1>4, <1>7, Products
<1>10. QED
  BY <1>2, <1>3, <1>6, <1>8, <1>9

LEMMA NoneGreater ==
  ASSUME NEW d \in Seq(Digits), NEW e \in Seq(Digits), Len(d) = Len(e), ~AnyGreater(d, e)
  PROVE  Horner(d) <= Horner(e)
<1> DEFINE N == Len(d)
<1>1. N \in Nat /\ N \in 0 .. Len(d) /\ N <= Len(e) /\ N \in 0 .. N
  OBVIOUS
<1>2. \A i \in 1 .. N : d[i] <= e[i]
  <2> TAKE i \in 1 .. N
  <2>1. i \in 1 .. Len(d) /\ i \in 1 .. Len(e) /\ i \in DOMAIN e
    OBVIOUS
  <2>2. d[i] \in Nat /\ e[i] \in Nat
    BY <2>1, DigitIs
  <2>3. ~(d[i] > e[i])
    BY <2>1 DEF AnyGreater
  <2>4. QED
    BY <2>2, <2>3
<1>3. \A i \in 0 .. N : Value(d)[i] <= Value(e)[i]
  BY <1>1, <1>2, ValueGrows
<1>4. Value(d)[N] <= Value(e)[N]
  BY <1>1, <1>3
<1>5. QED
  BY <1>4, ValueIs

LEMMA IntMaxIs ==
  /\ IntMax \in Seq(Digits) /\ Len(IntMax) \in Nat /\ Len(IntMax) > 1
  /\ Len(IntMax) - 1 \in Nat \ {0}
  /\ IntMax[1] = Base - 1 /\ IntMax # <<>> /\ IntMax[1] # 0
<1>1. IntMax # <<>>
  BY BaseAssumption
<1>2. IntMax[1] = Head(IntMax)
  BY <1>1, BaseAssumption
<1>3. QED
  BY <1>1, <1>2, BaseAssumption

LEMMA IntBoundIs ==
  ASSUME NEW negative \in BOOLEAN
  PROVE  /\ IntBound(negative) \in Seq(Digits) /\ Len(IntBound(negative)) = Len(IntMax)
         /\ IntBound(negative)[1] = Base - 1
         /\ Horner(IntBound(negative)) = IF negative THEN Horner(IntMax) + 1 ELSE Horner(IntMax)
<1>1. CASE ~negative
  BY <1>1, IntMaxIs DEF IntBound
<1>2. CASE negative
  <2> DEFINE n == Len(IntMax) - 1
             e == SubSeq(IntMax, 1, n)
             x == IntMax[n + 1]
             b == IntBound(negative)
  <2>1. n \in Nat /\ n >= 1 /\ Len(IntMax) = n + 1
    BY IntMaxIs
  <2>2. e \in Seq(Digits) /\ Len(e) = n /\ IntMax = Append(e, x)
    BY <2>1, IntMaxIs
  <2>3. x \in Digits /\ x + 1 \in Digits
    <3>1. x \in Nat
      BY <2>1, IntMaxIs, DigitIs
    <3>2. x < Base - 1
      BY <2>1, BaseAssumption
    <3>3. QED
      BY <3>1, <3>2, BaseIs
  <2>4. b = [IntMax EXCEPT ![n + 1] = x + 1]
    BY <1>2, <2>1 DEF IntBound
  <2>5. b = Append(e, x + 1)
    <3>1. DOMAIN b = 1 .. n + 1
      BY <2>1, <2>4, IntMaxIs
    <3>2. Append(e, x + 1) \in Seq(Digits) /\ Len(Append(e, x + 1)) = n + 1
      BY <2>2, <2>3
    <3>3. b \in Seq(Digits)
      BY <2>3, <2>4, IntMaxIs
    <3>4. Len(b) = n + 1
      BY <2>1, <2>4, IntMaxIs
    <3> HIDE DEF n, e, x, b
    <3>5. \A i \in 1 .. n + 1 : b[i] = Append(e, x + 1)[i]
      <4> TAKE i \in 1 .. n + 1
      <4>1. CASE i = n + 1
        BY <2>1, <2>2, <2>4, <4>1, IntMaxIs
      <4>2. CASE i # n + 1
        <5>1. i \in 1 .. n
          BY <2>1, <4>2
        <5>2. b[i] = IntMax[i]
          BY <2>1, <2>4, <4>2, IntMaxIs
        <5>5. Append(e, x + 1)[i] = e[i]
          BY <2>1, <2>2, <5>1
        <5>6. e[i] = IntMax[i]
          BY <2>1, <2>2, <5>1
        <5>3. Append(e, x + 1)[i] = e[i] /\ e[i] = IntMax[i]
          BY <5>5, <5>6
        <5>4. QED
          BY <5>2, <5>3
      <4>3. QED
        BY <4>1, <4>2
    <3>6. QED
      BY <3>2, <3>3, <3>4, <3>5
  <2>6. b[1] = IntMax[1]
    BY <2>1, <2>4, IntMaxIs
  <2> HIDE DEF b, e, x, n
  <2>7. Horner(IntMax) = Horner(e) * Base + x
    BY <2>2, <2>3, HornerAppend
  <2>8. b \in Seq(Digits) /\ Horner(b) = Horner(e) * Base + (x + 1)
    BY <2>2, <2>3, <2>5, HornerAppend
  <2> DEFINE q == Horner(e) * Base
  <2>9. Horner(e) \in Nat
    BY <2>2, HornerBelow
  <2>10. q \in Nat /\ x \in Nat
    BY <2>3, <2>9, BaseIs, Products
  <2> HIDE DEF q
  <2>11. Horner(b) = Horner(IntMax) + 1
    BY <2>7, <2>8, <2>10 DEF q
  <2>12. Len(b) = Len(IntMax)
    BY <2>1, <2>2, <2>3, <2>5
  <2>13. QED
    BY <1>2, <2>6, <2>8, <2>11, <2>12, IntMaxIs DEF b
<1>3. QED
  BY <1>1, <1>2

\* The digits of the farthest number of a sign are the bound of that sign.
LEMMA FarthestIs ==
  ASSUME NEW n \in Int
  PROVE  Farthest(n) = IntBound(n < 0)
<1> DEFINE b == IntBound(n < 0)
<1>1. (n < 0) \in BOOLEAN
  OBVIOUS
<1>2. b \in Seq(Digits) /\ Len(b) = Len(IntMax) /\ b[1] = Base - 1
      /\ Horner(b) = IF n < 0 THEN Horner(IntMax) + 1 ELSE Horner(IntMax)
  BY <1>1, IntBoundIs
<1> HIDE DEF b
<1>3. b[1] # 0 /\ Len(b) \in Nat
  BY <1>2, IntMaxIs, BaseIs
<1>4. DigitsOf[Horner(b)] = b
  BY <1>2, <1>3, DigitsOfHorner
<1>5. QED
  BY <1>2, <1>4 DEF Farthest, b

\* What the comparison lets pass is no greater than the bound.
LEMMA NotTooGreat ==
  ASSUME NEW d \in Seq(Digits), Len(d) <= Len(IntMax), NEW negative \in BOOLEAN,
         ~IntTooGreat(d, IntBound(negative))
  PROVE  Horner(d) <= Horner(IntBound(negative))
<1> DEFINE b == IntBound(negative)
<1>1. b \in Seq(Digits) /\ Len(b) = Len(IntMax) /\ b[1] = Base - 1 /\ Base - 1 # 0
  BY IntBoundIs, BaseIs
<1>2. ~IntTooGreat(d, b)
  OBVIOUS
<1> HIDE DEF b
<1>3. Horner(d) \in Nat /\ Horner(b) \in Nat
  BY <1>1, HornerBelow
<1>4. CASE Len(d) < Len(b)
  <2>1. Horner(d) < Horner(b)
    BY <1>1, <1>4, ShorterBelow
  <2>2. QED
    BY <1>3, <2>1 DEF b
<1>5. CASE Len(d) = Len(b)
  <2>1. d # <<>> /\ 1 \in 1 .. Len(d) /\ Head(d) = d[1] /\ Head(b) = b[1]
    BY <1>1, <1>5, IntMaxIs
  <2>2. d[1] \in Nat /\ d[1] <= b[1]
    BY <1>1, <2>1, DigitIs
  <2>3. CASE d[1] = b[1]
    <3>1. ~AnyGreater(d, b)
      BY <1>2, <1>5, <2>1, <2>3 DEF IntTooGreat
    <3>2. QED
      BY <1>1, <1>5, <3>1, NoneGreater DEF b
  <2>4. CASE d[1] # b[1]
    <3>1. d[1] < b[1]
      BY <1>1, <2>2, <2>4, BaseIs
    <3>2. Horner(d) < Horner(b)
      BY <1>1, <1>5, <2>1, <3>1, SmallerFirst
    <3>3. QED
      BY <1>3, <3>2 DEF b
  <2>5. QED
    BY <2>3, <2>4
<1>6. QED
  BY <1>1, <1>4, <1>5

-----------------------------------------------------------------------------
(* Parsing integers *)

Characters == Digits \cup {Minus, Point}

LEMMA CharactersAre ==
  /\ Minus \notin Digits /\ Point \notin Digits /\ Point # Minus
  /\ \A c \in Digits : c # Minus /\ c # Point
  BY BaseIs DEF Minus, Point

LEMMA AllDigitsAre ==
  ASSUME NEW d \in Seq(Characters)
  PROVE  AllDigits(d) <=> d \in Seq(Digits)
<1>1. ASSUME AllDigits(d)  PROVE d \in Seq(Digits)
  <2>1. Len(d) \in Nat /\ DOMAIN d = 1 .. Len(d) /\ d = [i \in 1 .. Len(d) |-> d[i]]
    OBVIOUS
  <2>2. \A i \in 1 .. Len(d) : d[i] \in Digits
    BY <1>1, <2>1 DEF AllDigits
  <2>3. QED
    BY <2>1, <2>2
<1>2. ASSUME d \in Seq(Digits)  PROVE AllDigits(d)
  BY <1>2 DEF AllDigits
<1>3. QED
  BY <1>1, <1>2

LEMMA UnsignedIs ==
  ASSUME NEW t \in Seq(Characters)
  PROVE  /\ Unsigned(t) \in Seq(Characters)
         /\ IsNegative(t) => t = <<Minus>> \o Unsigned(t) /\ t # <<>> /\ ~AllDigits(t)
         /\ ~IsNegative(t) => Unsigned(t) = t
         /\ AllDigits(t) => ~IsNegative(t)
<1>1. CASE IsNegative(t)
  <2>1. t # <<>> /\ Head(t) = Minus /\ Unsigned(t) = Tail(t)
    BY <1>1 DEF IsNegative, Unsigned
  <2>2. Tail(t) \in Seq(Characters) /\ t = <<Head(t)>> \o Tail(t) /\ Head(t) = t[1] /\ 1 \in DOMAIN t
    BY <2>1
  <2>3. ~AllDigits(t)
    BY <2>1, <2>2, CharactersAre DEF AllDigits
  <2>4. QED
    BY <1>1, <2>1, <2>2, <2>3
<1>2. CASE ~IsNegative(t)
  BY <1>2 DEF Unsigned
<1>3. QED
  BY <1>1, <1>2

\* An i64 is kept as it is, and the one behind the greatest is the least.
LEMMA WrappedIs ==
  /\ \A n \in -Horner(IntMax) .. Horner(IntMax) : Wrapped(n) = n
  /\ Wrapped(Horner(IntMax) + 1) = -(Horner(IntMax) + 1)
  /\ Wrapped(-(Horner(IntMax) + 1)) = -(Horner(IntMax) + 1)
<1> DEFINE half == Horner(IntMax) + 1
           whole == 2 * half
<1>1. Sum(IntMax) = Horner(IntMax) /\ Horner(IntMax) \in Nat
  BY IntMaxIs, SumIsHorner
<1>2. half \in Nat \ {0} /\ Horner(IntMax) = half - 1
  BY <1>1
<1>3. \A n \in Int : Wrapped(n) = ((n + half) % whole) - half
  BY <1>1 DEF Wrapped
<1> HIDE DEF half
<1>4. whole \in Nat \ {0} /\ whole = half + half
  BY <1>2
<1> HIDE DEF whole
<1>5. \A r \in 0 .. whole - 1 : r % whole = r
  BY <1>4
<1>6. whole % whole = 0
  BY <1>4
<1>7. ASSUME NEW n \in -(half - 1) .. half - 1  PROVE Wrapped(n) = n
  <2>1. n \in Int /\ n + half \in 0 .. whole - 1 /\ (n + half) - half = n
    BY <1>2, <1>4
  <2>2. QED
    BY <1>3, <1>5, <2>1
<1>8. Wrapped(half) = -half
  <2>1. half \in Int /\ half + half = whole /\ 0 - half = -half
    BY <1>2, <1>4
  <2>2. QED
    BY <1>3, <1>6, <2>1
<1>9. Wrapped(-half) = -half
  <2>1. -half \in Int /\ -half + half = 0 /\ 0 - half = -half /\ 0 \in 0 .. whole - 1
    BY <1>2, <1>4
  <2>2. QED
    BY <1>3, <1>5, <2>1
<1>10. QED
  BY <1>2, <1>7, <1>8, <1>9 DEF half

\* What parseInt returns is what the text means, and in the range of an i64.
LEMMA ParsedInt ==
  ASSUME NEW t \in Seq(Characters)
  PROVE  /\ ParseInt(t) # {} <=> /\ t # <<>> /\ Len(Unsigned(t)) <= Len(IntMax) /\ AllDigits(Unsigned(t))
                                 /\ ~IntTooGreat(Unsigned(t), IntBound(IsNegative(t)))
         /\ ParseInt(t) # {} => InInt(IntMeant(t)) /\ ParseInt(t) = {IntMeant(t)}
<1> DEFINE d == Unsigned(t)
           m == Horner(IntMax)
           H == Horner(d)
           passed == /\ t # <<>> /\ Len(d) <= Len(IntMax) /\ AllDigits(d)
                     /\ ~IntTooGreat(d, IntBound(IsNegative(t)))
<1>1. d \in Seq(Characters) /\ Len(d) \in Nat /\ Len(IntMax) \in Nat
  BY UnsignedIs, IntMaxIs
<1>2. ~passed => ParseInt(t) = {}
  BY <1>1 DEF ParseInt
<1>3. passed => ParseInt(t) = {Wrapped(Signed(t, Wrapped(Sum(d))))}
  BY <1>1 DEF ParseInt
<1>4. ASSUME passed  PROVE InInt(IntMeant(t)) /\ Wrapped(Signed(t, Wrapped(Sum(d)))) = IntMeant(t)
  <2>1. d \in Seq(Digits) /\ IsNegative(t) \in BOOLEAN
    BY <1>1, <1>4, AllDigitsAre DEF IsNegative
  <2>2. H <= IF IsNegative(t) THEN m + 1 ELSE m
    <3>1. H <= Horner(IntBound(IsNegative(t)))
      BY <1>4, <2>1, NotTooGreat
    <3>2. QED
      BY <2>1, <3>1, IntBoundIs
  <2>3. H \in Nat /\ m \in Nat /\ Sum(d) = H
    BY <2>1, IntMaxIs, SumIsHorner
  <2>4. IntMeant(t) = Signed(t, H)
    BY DEF IntMeant
  <2>5. InInt(Signed(t, H)) <=> Signed(t, H) <= m /\ Signed(t, H) >= -m - 1
    BY DEF InInt
  <2>6. \A n \in -m .. m : Wrapped(n) = n
    BY WrappedIs
  <2>7. Wrapped(m + 1) = -(m + 1) /\ Wrapped(-(m + 1)) = -(m + 1)
    BY WrappedIs
  <2> HIDE DEF d, m, H
  <2>8. CASE ~IsNegative(t)
    <3>1. \A n \in Int : Signed(t, n) = n
      BY <2>8 DEF Signed
    <3>2. Signed(t, H) = H /\ H \in -m .. m
      BY <2>2, <2>3, <2>8, <3>1
    <3>3. Wrapped(H) = H
      BY <2>6, <3>2
    <3>4. InInt(Signed(t, H))
      BY <2>3, <2>5, <3>2
    <3>5. QED
      BY <2>3, <2>4, <3>2, <3>3, <3>4
  <2>9. CASE IsNegative(t)
    <3>1. \A n \in Int : Signed(t, n) = -n
      BY <2>9 DEF Signed
    <3>2. Signed(t, H) = -H
      BY <2>3, <3>1
    <3>3. InInt(Signed(t, H))
      BY <2>2, <2>3, <2>5, <2>9, <3>2
    <3>4. CASE H <= m
      <4>1. H \in -m .. m /\ -H \in -m .. m
        BY <2>3, <3>4
      <4>2. Wrapped(H) = H /\ Wrapped(-H) = -H
        BY <2>6, <4>1
      <4>3. QED
        BY <2>3, <2>4, <3>2, <3>3, <4>2
    <3>5. CASE H = m + 1
      <4>1. Wrapped(H) = -H /\ Wrapped(-H) = -H /\ -H \in Int /\ -(-H) = H
        BY <2>3, <2>7, <3>5
      <4>2. Signed(t, -H) = H
        BY <3>1, <4>1
      <4>3. QED
        BY <2>3, <2>4, <3>2, <3>3, <4>1, <4>2
    <3>6. QED
      BY <2>2, <2>3, <2>9, <3>4, <3>5
  <2>10. QED
    BY <2>8, <2>9
<1>5. passed => ParseInt(t) = {IntMeant(t)} /\ InInt(IntMeant(t))
  BY <1>3, <1>4
<1>6. QED
  BY <1>2, <1>5

LEMMA UintMaxIs ==
  UintMax \in Seq(Digits) /\ UintMax # <<>> /\ UintMax[1] # 0 /\ Len(UintMax) \in Nat \ {0}
<1>1. UintMax \in Seq(Digits) /\ UintMax # <<>> /\ Head(UintMax) > 0
  BY BaseAssumption
<1>2. Head(UintMax) = UintMax[1] /\ 1 \in 1 .. Len(UintMax) /\ Len(UintMax) \in Nat \ {0}
  BY <1>1
<1>3. UintMax[1] \in Nat
  BY <1>1, <1>2, DigitIs
<1>4. QED
  BY <1>1, <1>2, <1>3

LEMMA ParsedUint ==
  ASSUME NEW t \in Seq(Characters)
  PROVE  /\ ParseUint(t) # {} <=> t # <<>> /\ Len(t) <= Len(UintMax) /\ AllDigits(t) /\ ~UintTooGreat(t)
         /\ ParseUint(t) # {} => /\ IsUintText(t) /\ IntMeant(t) <= Horner(UintMax)
                                 /\ ParseUint(t) = {IntMeant(t)}
<1> DEFINE passed == t # <<>> /\ Len(t) <= Len(UintMax) /\ AllDigits(t) /\ ~UintTooGreat(t)
<1>1. Len(t) \in Nat /\ Len(UintMax) \in Nat
  BY UintMaxIs
<1>2. ~passed => ParseUint(t) = {}
  BY <1>1 DEF ParseUint
<1>3. passed => ParseUint(t) = {Sum(t)}
  BY <1>1 DEF ParseUint
<1>4. ASSUME passed  PROVE IsUintText(t) /\ IntMeant(t) <= Horner(UintMax) /\ Sum(t) = IntMeant(t)
  <2>1. t \in Seq(Digits)
    BY <1>4, AllDigitsAre
  <2>2. ~IsNegative(t) /\ Unsigned(t) = t
    BY <1>4, UnsignedIs
  <2>3. IntMeant(t) = Horner(t)
    BY <2>2 DEF IntMeant, Signed
  <2>4. Sum(t) = Horner(t) /\ Horner(t) \in Nat /\ Horner(UintMax) \in Nat
    BY <2>1, UintMaxIs, SumIsHorner
  <2>5. Horner(t) <= Horner(UintMax)
    <3>1. CASE Len(t) < Len(UintMax)
      <4>1. Horner(t) < Horner(UintMax)
        BY <2>1, <3>1, UintMaxIs, ShorterBelow
      <4>2. QED
        BY <2>4, <4>1
    <3>2. CASE Len(t) = Len(UintMax)
      <4>1. ~AnyGreater(t, UintMax)
        BY <1>4, <3>2 DEF UintTooGreat
      <4>2. QED
        BY <2>1, <3>2, <4>1, UintMaxIs, NoneGreater
    <3>3. QED
      BY <1>1, <1>4, <3>1, <3>2
  <2>6. QED
    BY <1>4, <2>3, <2>4, <2>5 DEF IsUintText
<1>5. QED
  BY <1>2, <1>3, <1>4

\* Numbers below a power have no more digits than it has zeroes.
LEMMA FewDigits ==
  ASSUME NEW d \in Seq(Digits), d # <<>>, d[1] # 0, NEW n \in Nat, Horner(d) < Power[n]
  PROVE  Len(d) <= n
<1> DEFINE x == d[1]
           P == Power[Len(d) - 1]
<1>1. Len(d) - 1 \in Nat /\ P \in Nat /\ x * P <= Horner(d)
  BY ValueLeads
<1>2. 1 \in 1 .. Len(d)
  OBVIOUS
<1>3. x \in Nat \ {0}
  BY <1>2, DigitIs
<1>4. Horner(d) \in Nat /\ Power[n] \in Nat
  BY HornerBelow, PowerIs
<1> HIDE DEF x
<1>5. P <= Horner(d)
  <2> HIDE DEF P
  <2>1. P <= x * P /\ x * P \in Nat
    BY <1>1, <1>3
  <2>2. QED
    BY <1>1, <1>4, <2>1
<1>6. ASSUME n <= Len(d) - 1  PROVE FALSE
  <2>1. Power[n] <= P
    BY <1>1, <1>6, PowersGrow
  <2>2. QED
    BY <1>1, <1>4, <1>5, <2>1
<1>7. QED
  BY <1>1, <1>6

\* Texts of numbers as they are printed.
LEMMA CanonicalIs ==
  ASSUME NEW t \in Seq(Characters), Canonical(t)
  PROVE  /\ Unsigned(t) \in Seq(Digits) /\ Unsigned(t) # <<>> /\ t # <<>> /\ IntMeant(t) \in Int
         /\ IntMeant(t) < 0 <=> IsNegative(t)
         /\ \/ t = <<0>> /\ Unsigned(t) = t /\ IntMeant(t) = 0
            \/ /\ Unsigned(t)[1] # 0 /\ Horner(Unsigned(t)) \in Nat \ {0}
               /\ IntMeant(t) = Signed(t, Horner(Unsigned(t)))
               /\ DigitsOf[Horner(Unsigned(t))] = Unsigned(t)
<1> DEFINE d == Unsigned(t)
           H == Horner(d)
<1>1. d \in Seq(Characters) /\ AllDigits(d) /\ d # <<>> /\ (d[1] = 0 => t = <<0>>)
  <2>1. d # <<>> /\ AllDigits(d) /\ (Head(d) = 0 => t = <<0>>) /\ d \in Seq(Characters)
    BY UnsignedIs DEF Canonical, IsIntText, IsUintText
  <2>2. Head(d) = d[1]
    BY <2>1
  <2>3. QED
    BY <2>1, <2>2
<1>2. d \in Seq(Digits) /\ 1 \in 1 .. Len(d) /\ Len(d) \in Nat \ {0}
  BY <1>1, AllDigitsAre
<1>3. t # <<>> /\ (IsNegative(t) => t[1] = Minus) /\ (~IsNegative(t) => d = t)
  BY <1>1, UnsignedIs DEF IsNegative
<1>4. H \in Nat /\ IntMeant(t) = Signed(t, H)
  BY <1>2, HornerBelow DEF IntMeant
<1>5. IntMeant(t) = IF IsNegative(t) THEN -H ELSE H
  BY <1>4 DEF Signed
<1>6. CASE d[1] = 0
  <2>1. t = <<0>> /\ 0 \in Digits
    BY <1>1, <1>6, BaseIs
  <2>2. ~IsNegative(t)
    BY <1>3, <2>1, CharactersAre
  <2>3. d = t /\ H = 0
    BY <1>3, <2>1, <2>2, HornerOne
  <2>4. IntMeant(t) = 0
    BY <1>5, <2>2, <2>3
  <2>5. QED
    BY <1>1, <1>2, <1>3, <2>1, <2>2, <2>3, <2>4
<1>7. CASE d[1] # 0
  <2>1. DigitsOf[H] = d
    BY <1>2, <1>7, DigitsOfHorner
  <2>2. H # 0
    BY <1>1, <2>1, DigitsOfIs
  <2> HIDE DEF H
  <2>3. IntMeant(t) \in Int /\ (IntMeant(t) < 0 <=> IsNegative(t))
    BY <1>4, <1>5, <2>2
  <2>4. QED
    BY <1>1, <1>2, <1>3, <1>4, <1>7, <2>1, <2>2, <2>3 DEF H
<1>8. QED
  BY <1>6, <1>7

-----------------------------------------------------------------------------
(* Integers are read back *)

LEMMA IntsAreReadBack ==
  ASSUME NEW t \in Seq(Characters), Canonical(t), InInt(IntMeant(t))
  PROVE  /\ FromInt(IntMeant(t)) = t
         /\ Below(Unsigned(t), Farthest(IntMeant(t))) => ParseInt(t) = {IntMeant(t)}
         /\ IntMeant(t) \in -NarrowMax - 1 .. NarrowMax => ParseNarrow(t) = {IntMeant(t)}
<1> DEFINE d == Unsigned(t)
           n == IntMeant(t)
           H == Horner(d)
           b == IntBound(n < 0)
<1>1. d \in Seq(Digits) /\ d # <<>> /\ t # <<>> /\ n \in Int /\ (n < 0 <=> IsNegative(t)) /\ Len(d) \in Nat
  BY CanonicalIs
<1>2. \/ t = <<0>> /\ d = t /\ n = 0
      \/ d[1] # 0 /\ H \in Nat \ {0} /\ n = Signed(t, H) /\ DigitsOf[H] = d
  BY CanonicalIs
<1>3. AllDigits(d)
  BY <1>1 DEF AllDigits
<1>4. b \in Seq(Digits) /\ Len(b) = Len(IntMax) /\ Farthest(n) = b
  <2>1. (n < 0) \in BOOLEAN
    OBVIOUS
  <2>2. b \in Seq(Digits) /\ Len(b) = Len(IntMax)
    BY <2>1, IntBoundIs
  <2>3. Farthest(n) = b
    BY <1>1, FarthestIs
  <2>4. QED
    BY <2>2, <2>3
<1>5. ParseInt(t) # {} <=> Len(d) <= Len(IntMax) /\ ~IntTooGreat(d, b)
  <2>1. ParseInt(t) # {} <=> /\ t # <<>> /\ Len(d) <= Len(IntMax) /\ AllDigits(d)
                              /\ ~IntTooGreat(d, IntBound(IsNegative(t)))
    BY ParsedInt
  <2>2. IntBound(IsNegative(t)) = b
    <3>1. (n < 0) = IsNegative(t)
      BY <1>1 DEF IsNegative
    <3>2. QED
      BY <3>1
  <2>3. QED
    BY <1>1, <1>3, <2>1, <2>2
<1>6. ParseInt(t) # {} => ParseInt(t) = {n}
  BY ParsedInt
<1>7. FromInt(n) = t
  <2>1. CASE t = <<0>> /\ n = 0
    BY <2>1 DEF FromInt, FromUint
  <2>2. CASE d[1] # 0 /\ H \in Nat \ {0} /\ n = Signed(t, H) /\ DigitsOf[H] = d
    <3> HIDE DEF n, d, H
    <3>1. CASE IsNegative(t)
      <4>1. n = -H /\ n < 0 /\ -n = H
        BY <1>1, <2>2, <3>1 DEF Signed
      <4>2. t = <<Minus>> \o d
        BY <3>1, UnsignedIs DEF d
      <4>3. QED
        BY <2>2, <4>1, <4>2 DEF FromInt
    <3>2. CASE ~IsNegative(t)
      <4>1. n = H /\ n # 0 /\ ~(n < 0)
        BY <1>1, <2>2, <3>2 DEF Signed
      <4>2. t = d
        BY <3>2, UnsignedIs DEF d
      <4>3. QED
        BY <2>2, <4>1, <4>2 DEF FromInt, FromUint
    <3>3. QED
      BY <3>1, <3>2
  <2>3. QED
    BY <1>2, <2>1, <2>2
<1>8. Below(d, Farthest(n)) => ParseInt(t) = {n}
  <2>1. ASSUME Below(d, b)  PROVE Len(d) <= Len(IntMax) /\ ~IntTooGreat(d, b)
    <3> HIDE DEF b, d
    <3>1. QED
      BY <1>1, <1>4, <2>1, IntMaxIs DEF Below, IntTooGreat
  <2>2. QED
    BY <1>4, <1>5, <1>6, <2>1
<1>9. ASSUME n \in -NarrowMax - 1 .. NarrowMax  PROVE ParseNarrow(t) = {n}
  <2>7. Len(IntMax) - 1 \in Nat \ {0}
    BY IntMaxIs
  <2>8. NarrowMax \in Nat /\ NarrowMax + 1 < Power[Len(IntMax) - 1]
    BY NarrowAssumption
  <2>1. NarrowMax \in Nat /\ NarrowMax + 1 < Power[Len(IntMax) - 1] /\ Len(IntMax) - 1 \in Nat \ {0}
    BY <2>7, <2>8
  <2>2. Len(d) < Len(IntMax)
    <3>1. CASE t = <<0>> /\ d = t
      BY <2>1, <3>1, IntMaxIs
    <3>2. CASE d[1] # 0 /\ H \in Nat \ {0} /\ n = Signed(t, H)
      <4>1. H <= NarrowMax + 1
        <5> HIDE DEF n, d, H
        <5>1. n = H \/ n = -H
          BY <3>2 DEF Signed
        <5>2. QED
          BY <1>1, <1>9, <2>1, <3>2, <5>1
      <4>2. Power[Len(IntMax) - 1] \in Nat
        BY <2>1, PowerIs
      <4>3. H < Power[Len(IntMax) - 1]
        <5> HIDE DEF n, d, H
        <5>1. QED
          BY <2>1, <3>2, <4>1, <4>2
      <4>4. Len(d) <= Len(IntMax) - 1
        BY <1>1, <2>1, <3>2, <4>3, FewDigits
      <4>5. QED
        BY <1>1, <4>4, IntMaxIs
    <3>3. QED
      BY <1>2, <3>1, <3>2
  <2>3. Len(d) <= Len(IntMax) /\ ~IntTooGreat(d, b)
    <3> HIDE DEF b, d
    <3>1. QED
      BY <1>1, <1>4, <2>2, IntMaxIs DEF IntTooGreat
  <2>4. ParseInt(t) = {n}
    BY <1>5, <1>6, <2>3
  <2> HIDE DEF n
  <2>5. n <= NarrowMax /\ n >= -NarrowMax - 1
    BY <1>1, <1>9, <2>1
  <2>6. QED
    BY <2>4, <2>5 DEF ParseNarrow
<1>10. QED
  BY <1>7, <1>8, <1>9

LEMMA UintsAreReadBack ==
  ASSUME NEW t \in Seq(Characters), Canonical(t), IntMeant(t) >= 0
  PROVE  /\ FromUint(IntMeant(t)) = t
         /\ Below(t, UintMax) => ParseUint(t) = {IntMeant(t)}
         /\ IntMeant(t) <= NarrowUintMax => ParseNarrowUint(t) = {IntMeant(t)}
<1> DEFINE n == IntMeant(t)
           H == Horner(t)
<1>1. t # <<>> /\ n \in Int /\ ~IsNegative(t) /\ Unsigned(t) \in Seq(Digits)
  BY CanonicalIs
<1>2. Unsigned(t) = t
  BY <1>1, UnsignedIs
<1>3. t \in Seq(Digits) /\ Len(t) \in Nat \ {0}
  BY <1>1, <1>2
<1>4. AllDigits(t)
  BY <1>3 DEF AllDigits
<1>5. \/ t = <<0>> /\ n = 0
      \/ t[1] # 0 /\ H \in Nat \ {0} /\ n = H /\ DigitsOf[H] = t
  <2>1. Signed(t, H) = H
    BY <1>1 DEF Signed
  <2>2. QED
    BY <1>2, <2>1, CanonicalIs
<1>6. ParseUint(t) # {} <=> Len(t) <= Len(UintMax) /\ ~UintTooGreat(t)
  BY <1>1, <1>4, ParsedUint
<1>7. ParseUint(t) # {} => ParseUint(t) = {n}
  BY ParsedUint
<1>8. FromUint(n) = t
  BY <1>5 DEF FromUint
<1>9. Below(t, UintMax) => ParseUint(t) = {n}
  <2>1. ASSUME Below(t, UintMax)  PROVE Len(t) <= Len(UintMax) /\ ~UintTooGreat(t)
    BY <1>3, <2>1, UintMaxIs DEF Below, UintTooGreat
  <2>2. QED
    BY <1>6, <1>7, <2>1
<1>10. ASSUME n <= NarrowUintMax  PROVE ParseNarrowUint(t) = {n}
  <2>1. NarrowUintMax \in Nat /\ NarrowUintMax < Power[Len(UintMax) - 1] /\ Len(UintMax) - 1 \in Nat
    BY NarrowAssumption, UintMaxIs
  <2>2. Len(t) <= Len(UintMax) /\ ~UintTooGreat(t)
    <3>1. CASE t = <<0>>
      <4>1. Len(t) = 1 /\ t[1] = 0
        BY <3>1
      <4>2. ASSUME NEW i \in DOMAIN UintMax, Len(UintMax) = 1, t[i] > UintMax[i]  PROVE FALSE
        <5>1. i = 1 /\ i \in 1 .. Len(UintMax)
          BY <4>2, UintMaxIs
        <5>2. UintMax[i] \in Nat
          BY <5>1, UintMaxIs, DigitIs
        <5>3. QED
          BY <4>1, <4>2, <5>1, <5>2
      <4>3. ~UintTooGreat(t)
        BY <4>1, <4>2 DEF UintTooGreat, AnyGreater
      <4>4. QED
        BY <4>1, <4>3, UintMaxIs
    <3>2. CASE t[1] # 0 /\ H \in Nat \ {0} /\ n = H
      <4>1. Power[Len(UintMax) - 1] \in Nat
        BY <2>1, PowerIs
      <4>2. H < Power[Len(UintMax) - 1]
        <5> HIDE DEF n, H
        <5>1. QED
          BY <1>10, <2>1, <3>2, <4>1
      <4>3. Len(t) <= Len(UintMax) - 1
        BY <1>1, <1>3, <2>1, <3>2, <4>2, FewDigits
      <4>4. Len(t) < Len(UintMax)
        BY <1>3, <4>3, UintMaxIs
      <4>5. QED
        BY <1>3, <4>4, UintMaxIs DEF UintTooGreat
    <3>3. QED
      BY <1>5, <3>1, <3>2
  <2>3. ParseUint(t) = {n}
    BY <1>6, <1>7, <2>2
  <2>4. QED
    BY <1>10, <2>3 DEF ParseNarrowUint
<1>11. QED
  BY <1>8, <1>9, <1>10

-----------------------------------------------------------------------------
(* Bools, and what lies in a String *)

LEMMA BoolsAre ==
  ASSUME NEW t \in Seq(Characters)
  PROVE  /\ ParseBool(t) = {b \in BOOLEAN : t = FromBool(b)}
         /\ StringParseBool(t) = ParseBool(t)
<1>1. /\ TrueText \in Seq(Characters) /\ FalseText \in Seq(Characters)
      /\ MaxShort \in Nat /\ Word \in Nat /\ Word > Len(FalseText) /\ MaxShort >= Len(FalseText)
      /\ Len(FalseText) > Len(TrueText)
  BY TextAssumption DEF Characters
<1>2. Len(t) \in Nat /\ Len(TrueText) \in Nat /\ Len(FalseText) \in Nat
  BY <1>1
<1>3. FromBool(TRUE) = TrueText /\ FromBool(FALSE) = FalseText /\ TRUE # FALSE
  BY DEF FromBool
<1>4. ParseBool(t) = {b \in BOOLEAN : t = FromBool(b)}
  <2>1. CASE Len(t) = Len(TrueText)
    <3>1. ParseBool(t) = IF t = TrueText THEN {TRUE} ELSE {}
      BY <1>1, <1>2, <2>1 DEF ParseBool
    <3>2. t # FalseText
      BY <1>1, <1>2, <2>1
    <3>3. QED
      BY <1>3, <3>1, <3>2
  <2>2. CASE Len(t) = Len(FalseText)
    <3>1. ParseBool(t) = IF t = FalseText THEN {FALSE} ELSE {}
      BY <1>1, <1>2, <2>2 DEF ParseBool
    <3>2. t # TrueText
      BY <1>1, <1>2, <2>2
    <3>3. QED
      BY <1>3, <3>1, <3>2
  <2>3. CASE Len(t) # Len(TrueText) /\ Len(t) # Len(FalseText)
    <3>1. ParseBool(t) = {}
      BY <2>3 DEF ParseBool
    <3>2. t # TrueText /\ t # FalseText
      BY <2>3
    <3>3. QED
      BY <1>3, <3>1, <3>2
  <2>4. QED
    BY <2>1, <2>2, <2>3
<1>5. ASSUME NEW u \in Seq(Characters), Len(u) <= Len(FalseText), MachineWord(t) = MachineWord(u)
      PROVE  t = u
  <2>1. \A i \in 1 .. Word : (IF i <= Len(t) THEN {t[i]} ELSE {}) = (IF i <= Len(u) THEN {u[i]} ELSE {})
    BY <1>5 DEF MachineWord
  <2>2. Len(u) \in Nat /\ Len(u) + 1 \in 1 .. Word
    BY <1>1, <1>2, <1>5
  <2>3. ~(Len(u) + 1 <= Len(t))
    <3> DEFINE k == Len(u) + 1
    <3>1. k \in 1 .. Word /\ ~(k <= Len(u))
      BY <2>2
    <3> HIDE DEF k
    <3>2. (IF k <= Len(t) THEN {t[k]} ELSE {}) = {}
      BY <2>1, <3>1
    <3>3. ~(k <= Len(t))
      BY <3>2
    <3>4. QED
      BY <3>3 DEF k
  <2>4. \A i \in 1 .. Len(u) : i <= Len(t) /\ t[i] = u[i]
    <3> TAKE i \in 1 .. Len(u)
    <3>1. i \in 1 .. Word /\ i <= Len(u)
      BY <1>1, <2>2
    <3>2. (IF i <= Len(t) THEN {t[i]} ELSE {}) = {u[i]}
      BY <2>1, <3>1
    <3>3. QED
      BY <3>2
  <2>5. Len(t) = Len(u)
    <3>1. CASE Len(u) = 0
      BY <1>2, <2>2, <2>3, <3>1
    <3>2. CASE Len(u) # 0
      <4>1. Len(u) \in 1 .. Len(u)
        BY <2>2, <3>2
      <4>2. Len(u) <= Len(t)
        BY <2>4, <4>1
      <4>3. QED
        BY <1>2, <2>2, <2>3, <4>2
    <3>3. QED
      BY <3>1, <3>2
  <2>6. QED
    BY <2>4, <2>5
<1>6. \A b \in BOOLEAN : FromBool(b) \in Seq(Characters) /\ Len(FromBool(b)) <= Len(FalseText)
  <2> TAKE b \in BOOLEAN
  <2>1. CASE b
    <3>1. FromBool(b) = TrueText
      BY <2>1 DEF FromBool
    <3>2. QED
      BY <1>1, <1>2, <3>1
  <2>2. CASE ~b
    <3>1. FromBool(b) = FalseText
      BY <2>2 DEF FromBool
    <3>2. QED
      BY <1>1, <1>2, <3>1
  <2>3. QED
    BY <2>1, <2>2
<1>7. ASSUME NEW b \in BOOLEAN
      PROVE  IsShort(t) /\ MachineWord(t) = MachineWord(FromBool(b)) <=> t = FromBool(b)
  <2>1. ASSUME t = FromBool(b)  PROVE IsShort(t)
    BY <1>1, <1>2, <1>6, <2>1 DEF IsShort
  <2>2. QED
    BY <1>5, <1>6, <2>1
<1>8. StringParseBool(t) = {b \in BOOLEAN : t = FromBool(b)}
  BY <1>7 DEF StringParseBool
<1>9. QED
  BY <1>4, <1>8

\* Texts of numbers are short: a String and a slice of it are parsed alike.
LEMMA StringsAreParsedAlike ==
  ASSUME NEW t \in Seq(Characters)
  PROVE  /\ StringParseInt(t) = ParseInt(t) /\ StringParseUint(t) = ParseUint(t)
         /\ StringParseNarrow(t) = ParseNarrow(t) /\ StringParseNarrowUint(t) = ParseNarrowUint(t)
<1>1. MaxShort \in Nat /\ MaxShort > Len(IntMax) /\ MaxShort >= Len(UintMax) /\ Len(t) \in Nat
      /\ Len(IntMax) \in Nat /\ Len(UintMax) \in Nat /\ Len(Unsigned(t)) \in Nat
  <2>1. Len(Unsigned(t)) \in Nat
    BY UnsignedIs
  <2>2. QED
    BY <2>1, TextAssumption, IntMaxIs, UintMaxIs
<1>2. Len(t) <= Len(Unsigned(t)) + 1
  <2>1. CASE IsNegative(t)
    <3>1. t = <<Minus>> \o Unsigned(t) /\ Unsigned(t) \in Seq(Characters)
      BY <2>1, UnsignedIs
    <3> HIDE DEF Unsigned
    <3>2. Len(<<Minus>> \o Unsigned(t)) = 1 + Len(Unsigned(t))
      BY <3>1
    <3>3. QED
      BY <1>1, <3>1, <3>2
  <2>2. CASE ~IsNegative(t)
    BY <1>1, <2>2, UnsignedIs
  <2>3. QED
    BY <2>1, <2>2
<1>3. ~IsShort(t) => ParseInt(t) = {}
  <2>1. ParseInt(t) # {} => Len(Unsigned(t)) <= Len(IntMax)
    BY ParsedInt
  <2>2. QED
    BY <1>1, <1>2, <2>1 DEF IsShort
<1>4. ~IsShort(t) => ParseUint(t) = {}
  <2>1. ParseUint(t) # {} => Len(t) <= Len(UintMax)
    BY ParsedUint
  <2>2. QED
    BY <1>1, <2>1 DEF IsShort
<1>5. ~IsShort(t) => ParseNarrow(t) = {} /\ ParseNarrowUint(t) = {}
  BY <1>3, <1>4 DEF ParseNarrow, ParseNarrowUint
<1>6. QED
  BY <1>3, <1>4, <1>5 DEF StringParseInt, StringParseUint, StringParseNarrow, StringParseNarrowUint

-----------------------------------------------------------------------------
(* Parsing fractions *)

Fraction(over, under) == [over |-> over, under |-> under]

\* Digits in front of a point and behind it.
WithPoint(a, b) == a \o <<Point>> \o b

LEMMA WithPointIs ==
  ASSUME NEW a \in Seq(Digits), NEW b \in Seq(Digits)
  PROVE  /\ WithPoint(a, b) \in Seq(Characters) /\ Len(WithPoint(a, b)) = Len(a) + 1 + Len(b)
         /\ \A i \in 1 .. Len(a) : WithPoint(a, b)[i] = a[i]
         /\ WithPoint(a, b)[Len(a) + 1] = Point
         /\ \A i \in 1 .. Len(b) : WithPoint(a, b)[Len(a) + 1 + i] = b[i]
<1> DEFINE m == Len(a)
           n == Len(b)
           c == a \o <<Point>>
           e == c \o b
<1>1. m \in Nat /\ n \in Nat /\ Point \in Characters /\ a \in Seq(Characters) /\ b \in Seq(Characters)
  BY DEF Characters
<1>2. c \in Seq(Characters) /\ Len(c) = m + 1 /\ (\A i \in 1 .. m : c[i] = a[i]) /\ c[m + 1] = Point
  <2>1. <<Point>> \in Seq(Characters) /\ Len(<<Point>>) = 1 /\ <<Point>>[1] = Point
    BY <1>1
  <2>2. c \in Seq(Characters)
    BY <1>1, <2>1
  <2>3. QED
    BY <1>1, <2>1, <2>2
<1> HIDE DEF c
<1>3. e \in Seq(Characters) /\ Len(e) = m + 1 + n
  BY <1>1, <1>2
<1>4. \A i \in 1 .. m + 1 : e[i] = c[i]
  BY <1>1, <1>2
<1>5. \A i \in 1 .. n : e[m + 1 + i] = b[i]
  BY <1>1, <1>2
<1> HIDE DEF m, n
<1>6. (\A i \in 1 .. m : e[i] = a[i]) /\ e[m + 1] = Point
  <2> HIDE DEF e
  <2>1. m + 1 \in 1 .. m + 1 /\ \A i \in 1 .. m : i \in 1 .. m + 1
    BY <1>1
  <2>2. QED
    BY <1>2, <1>4, <2>1
<1>7. WithPoint(a, b) = e
  BY DEF WithPoint, c
<1> HIDE DEF e
<1>8. QED
  BY <1>3, <1>5, <1>6, <1>7 DEF m, n

LEMMA ParsedWhole ==
  ASSUME NEW t \in Seq(Characters), t # <<>>, Unsigned(t) \in Seq(Digits)
  PROVE  ParseFloat(t) = {Fraction(Signed(t, Horner(Unsigned(t))), 1)}
<1> DEFINE d == Unsigned(t)
           n == Len(d)
           points == {i \in DOMAIN d : d[i] = Point}
           point == IF points = {} THEN Len(d) + 1 ELSE CHOOSE i \in points : TRUE
           whole == SubSeq(d, 1, point - 1)
           decimals == SubSeq(d, point + 1, Len(d))
           H == Horner(d)
<1>1. n \in Nat /\ d \in Seq(Digits)
  OBVIOUS
<1>2. points = {}
  BY <1>1, CharactersAre
<1>3. point = n + 1
  BY <1>2
<1>10. ParseFloat(t) = IF t = <<>> \/ point = Len(d) \/ ~AllDigits(whole) \/ ~AllDigits(decimals) THEN {}
         ELSE {Fraction(Signed(t, Sum(whole) * Power[Len(decimals)] + Sum(decimals)), Power[Len(decimals)])}
  BY DEF ParseFloat, Fraction
<1> HIDE DEF point, d
<1>11. SubSeq(d, 1, n) = d
  BY <1>1
<1>12. SubSeq(d, n + 2, n) = <<>>
  BY <1>1
<1>13. point - 1 = n /\ point + 1 = n + 2 /\ point # n
  BY <1>1, <1>3
<1>4. whole = d /\ decimals = <<>> /\ point # n
  BY <1>11, <1>12, <1>13
<1>14. AllDigits(d) /\ AllDigits(<<>>)
  BY <1>1 DEF AllDigits
<1>5. AllDigits(whole) /\ AllDigits(decimals)
  BY <1>4, <1>14
<1>6. ParseFloat(t) = {Fraction(Signed(t, Sum(whole) * Power[Len(decimals)] + Sum(decimals)), Power[Len(decimals)])}
  BY <1>4, <1>5, <1>10
<1>7. Sum(whole) = H /\ Sum(decimals) = 0 /\ Power[Len(decimals)] = 1 /\ H \in Nat
  <2>1. <<>> \in Seq(Digits) /\ Len(<<>>) = 0
    OBVIOUS
  <2>2. QED
    BY <1>1, <1>4, <2>1, SumIsHorner, HornerEmpty, PowerIs
<1> HIDE DEF H, whole, decimals, d
<1>8. H * 1 + 0 = H
  BY <1>7
<1>9. QED
  BY <1>6, <1>7, <1>8 DEF H, d

LEMMA ParsedFraction ==
  ASSUME NEW t \in Seq(Characters), NEW a \in Seq(Digits), NEW b \in Seq(Digits), b # <<>>,
         Unsigned(t) = WithPoint(a, b)
  PROVE  ParseFloat(t) = {Fraction(Signed(t, Horner(a) * Power[Len(b)] + Horner(b)), Power[Len(b)])}
<1> DEFINE d == Unsigned(t)
           m == Len(a)
           n == Len(b)
           points == {i \in DOMAIN d : d[i] = Point}
           point == IF points = {} THEN Len(d) + 1 ELSE CHOOSE i \in points : TRUE
           whole == SubSeq(d, 1, point - 1)
           decimals == SubSeq(d, point + 1, Len(d))
<1>1. /\ m \in Nat /\ n \in Nat \ {0} /\ d \in Seq(Characters) /\ Len(d) = m + 1 + n
      /\ \A i \in 1 .. m : d[i] = a[i]
      /\ d[m + 1] = Point
      /\ \A i \in 1 .. n : d[m + 1 + i] = b[i]
  <2>1. /\ WithPoint(a, b) \in Seq(Characters) /\ Len(WithPoint(a, b)) = m + 1 + n
        /\ \A i \in 1 .. m : WithPoint(a, b)[i] = a[i]
        /\ WithPoint(a, b)[m + 1] = Point
        /\ \A i \in 1 .. n : WithPoint(a, b)[m + 1 + i] = b[i]
    BY WithPointIs
  <2>2. m \in Nat /\ n \in Nat /\ n # 0
    OBVIOUS
  <2>3. d = WithPoint(a, b)
    OBVIOUS
  <2> HIDE DEF d, m, n
  <2>4. QED
    BY <2>1, <2>2, <2>3
<1>2. t # <<>>
  <2>1. t = <<>> => Unsigned(t) = <<>>
    BY DEF Unsigned, IsNegative
  <2>2. d # <<>>
    BY <1>1
  <2>3. QED
    BY <2>1, <2>2
<1>10. ParseFloat(t) = IF t = <<>> \/ point = Len(d) \/ ~AllDigits(whole) \/ ~AllDigits(decimals) THEN {}
         ELSE {Fraction(Signed(t, Sum(whole) * Power[Len(decimals)] + Sum(decimals)), Power[Len(decimals)])}
  BY DEF ParseFloat, Fraction
<1> HIDE DEF d, m, n
<1>3. points = {m + 1}
  <2>1. DOMAIN d = 1 .. m + 1 + n
    BY <1>1
  <2>2. ASSUME NEW i \in 1 .. m + 1 + n, i # m + 1  PROVE d[i] # Point
    <3>1. CASE i \in 1 .. m
      <4>1. a[i] \in Digits
        BY <3>1 DEF m
      <4>2. QED
        BY <1>1, <3>1, <4>1, CharactersAre
    <3>2. CASE i - (m + 1) \in 1 .. n
      <4>1. b[i - (m + 1)] \in Digits
        BY <3>2 DEF n
      <4>2. d[m + 1 + (i - (m + 1))] = b[i - (m + 1)] /\ m + 1 + (i - (m + 1)) = i
        BY <1>1, <3>2
      <4>3. QED
        BY <4>1, <4>2, CharactersAre
    <3>3. QED
      BY <1>1, <2>2, <3>1, <3>2
  <2>3. m + 1 \in 1 .. m + 1 + n
    BY <1>1
  <2>4. QED
    BY <1>1, <2>1, <2>2, <2>3
<1>4. point = m + 1
  BY <1>3
<1> HIDE DEF point
<1>5. whole = a
  <2> DEFINE c == SubSeq(d, 1, m)
  <2>1. whole = c
    BY <1>1, <1>4
  <2>2. c \in Seq(Characters) /\ Len(c) = m /\ \A i \in 1 .. m : c[i] = d[i]
    BY <1>1
  <2> HIDE DEF c
  <2>3. Len(a) = m
    BY DEF m
  <2>4. \A i \in 1 .. m : c[i] = a[i]
    BY <1>1, <2>2
  <2>5. c = a
    BY <1>1, <2>2, <2>3, <2>4
  <2>6. QED
    BY <2>1, <2>5
<1>6. decimals = b
  <2>1. decimals = SubSeq(d, m + 2, m + 1 + n)
    BY <1>1, <1>4
  <2> DEFINE c == SubSeq(d, m + 2, m + 1 + n)
  <2>2. c \in Seq(Characters) /\ Len(c) = n
    BY <1>1
  <2>3. \A i \in 1 .. n : c[i] = d[m + 1 + i]
    BY <1>1
  <2> HIDE DEF c
  <2>4. Len(b) = n
    BY DEF n
  <2>5. \A i \in 1 .. n : c[i] = b[i]
    BY <1>1, <2>3
  <2>6. c = b
    BY <1>1, <2>2, <2>4, <2>5
  <2>7. QED
    BY <2>1, <2>6 DEF c
<1>7. point # Len(d) /\ AllDigits(whole) /\ AllDigits(decimals)
  BY <1>1, <1>4, <1>5, <1>6 DEF AllDigits
<1>8. Sum(whole) = Horner(a) /\ Sum(decimals) = Horner(b)
  BY <1>5, <1>6, SumIsHorner
<1>9. QED
  BY <1>2, <1>6, <1>7, <1>8, <1>10

LEMMA ParsedOnly ==
  ASSUME NEW t \in Seq(Characters), ParseFloat(t) # {}
  PROVE  /\ t # <<>>
         /\ \/ Unsigned(t) \in Seq(Digits)
            \/ \E a \in Seq(Digits) : \E b \in Seq(Digits) : b # <<>> /\ Unsigned(t) = WithPoint(a, b)
<1> DEFINE d == Unsigned(t)
           points == {i \in DOMAIN d : d[i] = Point}
           point == IF points = {} THEN Len(d) + 1 ELSE CHOOSE i \in points : TRUE
           whole == SubSeq(d, 1, point - 1)
           decimals == SubSeq(d, point + 1, Len(d))
<1>1. t # <<>> /\ point # Len(d) /\ AllDigits(whole) /\ AllDigits(decimals)
  BY DEF ParseFloat
<1>2. d \in Seq(Characters) /\ Len(d) \in Nat
  BY UnsignedIs
<1> HIDE DEF d
<1>3. CASE points = {}
  <2>1. point - 1 = Len(d)
    BY <1>2, <1>3
  <2>2. whole = d
    BY <1>2, <2>1
  <2>3. d \in Seq(Digits)
    BY <1>1, <1>2, <2>2, AllDigitsAre
  <2>4. QED
    BY <1>1, <2>3 DEF d
<1>4. CASE points # {}
  <2>1. point \in DOMAIN d /\ d[point] = Point
    BY <1>4
  <2> HIDE DEF point
  <2>2. point \in 1 .. Len(d) /\ point - 1 \in Nat /\ point + 1 <= Len(d)
    BY <1>1, <1>2, <2>1
  <2>3. whole \in Seq(Characters) /\ Len(whole) = point - 1
    BY <1>2, <2>2
  <2>4. decimals \in Seq(Characters) /\ Len(decimals) = Len(d) - point
    BY <1>2, <2>2
  <2>5. \A i \in 1 .. point - 1 : whole[i] = d[i]
    BY <1>2, <2>2
  <2>6. \A i \in 1 .. Len(d) - point : decimals[i] = d[point + i]
    BY <1>2, <2>2
  <2> HIDE DEF whole, decimals
  <2>7. whole \in Seq(Digits) /\ decimals \in Seq(Digits) /\ decimals # <<>>
    BY <1>1, <1>2, <2>2, <2>3, <2>4, AllDigitsAre
  <2> DEFINE e == WithPoint(whole, decimals)
  <2>8. e \in Seq(Characters) /\ Len(e) = Len(whole) + 1 + Len(decimals)
    BY <2>7, WithPointIs
  <2>9. \A i \in 1 .. Len(whole) : e[i] = whole[i]
    BY <2>7, WithPointIs
  <2>10. e[Len(whole) + 1] = Point
    BY <2>7, WithPointIs
  <2>11. \A i \in 1 .. Len(decimals) : e[Len(whole) + 1 + i] = decimals[i]
    BY <2>7, WithPointIs
  <2> HIDE DEF e
  <2>12. Len(e) = Len(d)
    BY <1>2, <2>2, <2>3, <2>4, <2>8
  <2>13. ASSUME NEW i \in 1 .. Len(d)  PROVE e[i] = d[i]
    <3>1. CASE i < point
      <4>1. i \in 1 .. point - 1
        BY <1>2, <2>2, <3>1
      <4>2. QED
        BY <2>3, <2>5, <2>9, <4>1
    <3>2. CASE i = point
      <4>1. Len(whole) + 1 = point
        BY <2>2, <2>3
      <4>2. QED
        BY <2>1, <2>10, <3>2, <4>1
    <3>3. CASE i > point
      <4>1. i - point \in 1 .. Len(d) - point /\ Len(whole) + 1 + (i - point) = i /\ point + (i - point) = i
        BY <1>2, <2>2, <2>3, <3>3
      <4>2. e[i] = decimals[i - point]
        BY <2>4, <2>11, <4>1
      <4>3. decimals[i - point] = d[i]
        BY <2>6, <4>1
      <4>4. QED
        BY <4>2, <4>3
    <3>4. QED
      BY <1>2, <2>2, <3>1, <3>2, <3>3
  <2>14. e = d
    BY <1>2, <2>8, <2>12, <2>13
  <2>15. QED
    BY <1>1, <2>7, <2>14 DEF e, d
<1>5. QED
  BY <1>3, <1>4

\* A text of digits with at most one point in it, and digits behind that.
IsFloatText(t) ==
  \E i \in 0 .. Len(Unsigned(t)) :
    LET decimals == SubSeq(Unsigned(t), i + 1, Len(Unsigned(t))) IN
    /\ AllDigits(SubSeq(Unsigned(t), 1, i))
    /\ decimals # <<>> => /\ Head(decimals) = Point /\ IsUintText(Tail(decimals))

\* What is parsed as a fraction, and what value it has, in terms of its parts.
LEMMA FloatsAreParsed ==
  ASSUME NEW t \in Seq(Characters)
  PROVE  ParseFloat(t) # {} <=> t # <<>> /\ IsFloatText(t)
<1> DEFINE d == Unsigned(t)
<1>1. d \in Seq(Characters) /\ Len(d) \in Nat
  BY UnsignedIs
<1>2. ASSUME ParseFloat(t) # {}  PROVE t # <<>> /\ IsFloatText(t)
  <2>1. t # <<>> /\ (d \in Seq(Digits) \/ \E a \in Seq(Digits) : \E b \in Seq(Digits) : b # <<>> /\ d = WithPoint(a, b))
    BY <1>2, ParsedOnly
  <2>2. CASE d \in Seq(Digits)
    <3> DEFINE n == Len(d)
    <3>1. n \in 0 .. n
      BY <1>1
    <3> HIDE DEF d
    <3>2. SubSeq(d, n + 1, n) = <<>> /\ SubSeq(d, 1, n) = d
      BY <1>1
    <3>3. AllDigits(SubSeq(d, 1, n))
      BY <2>2, <3>2 DEF AllDigits
    <3>4. QED
      BY <2>1, <3>1, <3>2, <3>3 DEF IsFloatText, d
  <2>3. ASSUME NEW a \in Seq(Digits), NEW b \in Seq(Digits), b # <<>>, d = WithPoint(a, b)  PROVE IsFloatText(t)
    <3> DEFINE m == Len(a)
               n == Len(b)
               i == m
               c == SubSeq(d, i + 1, Len(d))
               e == SubSeq(d, 1, i)
    <3>1. /\ m \in Nat /\ n \in Nat \ {0} /\ Len(d) = m + 1 + n
          /\ \A k \in 1 .. m : d[k] = a[k]
          /\ d[m + 1] = Point
          /\ \A k \in 1 .. n : d[m + 1 + k] = b[k]
      <4>1. /\ Len(WithPoint(a, b)) = m + 1 + n
            /\ \A k \in 1 .. m : WithPoint(a, b)[k] = a[k]
            /\ WithPoint(a, b)[m + 1] = Point
            /\ \A k \in 1 .. n : WithPoint(a, b)[m + 1 + k] = b[k]
        BY WithPointIs
      <4>2. m \in Nat /\ n \in Nat /\ n # 0
        BY <2>3
      <4>3. d = WithPoint(a, b)
        BY <2>3
      <4> HIDE DEF d, m, n
      <4>4. QED
        BY <4>1, <4>2, <4>3
    <3> HIDE DEF d, m, n
    <3>2. i \in 0 .. Len(d)
      BY <3>1
    <3>3. e \in Seq(Characters) /\ Len(e) = m /\ \A k \in 1 .. m : e[k] = d[k]
      BY <1>1, <3>1
    <3>4. c \in Seq(Characters) /\ Len(c) = n + 1 /\ \A k \in 1 .. n + 1 : c[k] = d[m + k]
      BY <1>1, <3>1
    <3> HIDE DEF c, e, i
    <3>5. AllDigits(e)
      <4> SUFFICES ASSUME NEW k \in DOMAIN e  PROVE e[k] \in Digits
        BY DEF AllDigits
      <4>1. k \in 1 .. m
        BY <3>1, <3>3
      <4>2. a[k] \in Digits
        BY <4>1 DEF m
      <4>3. QED
        BY <3>1, <3>3, <4>1, <4>2
    <3>6. c # <<>> /\ Head(c) = Point
      <4>1. c # <<>> /\ Head(c) = c[1] /\ 1 \in 1 .. n + 1
        BY <3>1, <3>4
      <4>2. QED
        BY <3>1, <3>4, <4>1
    <3> DEFINE u == Tail(c)
    <3>7. u \in Seq(Characters) /\ Len(u) = n /\ \A k \in 1 .. n : u[k] = c[k + 1]
      BY <3>1, <3>4, <3>6
    <3> HIDE DEF u
    <3>8. IsUintText(u)
      <4>1. u # <<>>
        BY <3>1, <3>7
      <4>2. ASSUME NEW k \in DOMAIN u  PROVE u[k] \in Digits
        <5>5. k \in 1 .. n
          BY <3>7
        <5>1. k \in 1 .. n /\ k + 1 \in 1 .. n + 1 /\ m + (k + 1) = m + 1 + k
          BY <3>1, <5>5
        <5>2. b[k] \in Digits
          BY <5>1 DEF n
        <5>3. u[k] = b[k]
          BY <3>1, <3>4, <3>7, <5>1
        <5>4. QED
          BY <5>2, <5>3
      <4>3. QED
        BY <4>1, <4>2 DEF IsUintText, AllDigits
    <3>9. QED
      BY <3>2, <3>5, <3>6, <3>8 DEF IsFloatText, d, c, e, u
  <2>4. QED
    BY <2>1, <2>2, <2>3
<1>3. ASSUME t # <<>>, IsFloatText(t)  PROVE ParseFloat(t) # {}
  <2>1. PICK i \in 0 .. Len(d) :
          /\ AllDigits(SubSeq(d, 1, i))
          /\ SubSeq(d, i + 1, Len(d)) # <<>> =>
               Head(SubSeq(d, i + 1, Len(d))) = Point /\ IsUintText(Tail(SubSeq(d, i + 1, Len(d))))
    BY <1>3 DEF IsFloatText
  <2> DEFINE n == Len(d)
             a == SubSeq(d, 1, i)
             c == SubSeq(d, i + 1, n)
  <2> HIDE DEF d
  <2>2. a \in Seq(Characters) /\ Len(a) = i /\ i \in Nat /\ \A k \in 1 .. i : a[k] = d[k]
    BY <1>1
  <2>3. c \in Seq(Characters) /\ Len(c) = n - i /\ \A k \in 1 .. n - i : c[k] = d[i + k]
    BY <1>1
  <2>4. AllDigits(a) /\ (c # <<>> => Head(c) = Point /\ IsUintText(Tail(c)))
    BY <2>1
  <2>11. i = n => a = d
    BY <1>1
  <2> HIDE DEF a, c
  <2>5. a \in Seq(Digits)
    BY <2>2, <2>4, AllDigitsAre
  <2>6. CASE i = n
    <3>1. d \in Seq(Digits)
      BY <2>5, <2>6, <2>11
    <3>2. QED
      BY <1>3, <3>1, ParsedWhole DEF d
  <2>7. CASE i # n
    <3>1. n - i \in Nat \ {0} /\ i < n
      BY <1>1, <2>7
    <3>2. c # <<>>
      BY <2>3, <3>1
    <3> DEFINE b == Tail(c)
    <3>3. b \in Seq(Characters) /\ Len(b) = n - i - 1 /\ \A k \in 1 .. n - i - 1 : b[k] = c[k + 1]
      BY <2>3, <3>1, <3>2
    <3>4. c[1] = Point
      BY <2>4, <3>2
    <3>5. b # <<>> /\ AllDigits(b)
      BY <2>4, <3>2 DEF IsUintText
    <3> HIDE DEF b
    <3>6. b \in Seq(Digits)
      BY <3>3, <3>5, AllDigitsAre
    <3> DEFINE e == WithPoint(a, b)
    <3>7. /\ e \in Seq(Characters) /\ Len(e) = i + 1 + Len(b)
          /\ \A k \in 1 .. i : e[k] = a[k]
          /\ e[i + 1] = Point
          /\ \A k \in 1 .. Len(b) : e[i + 1 + k] = b[k]
      BY <2>2, <2>5, <3>6, WithPointIs
    <3> HIDE DEF e
    <3>8. Len(e) = n
      BY <1>1, <2>2, <3>3, <3>7
    <3>9. ASSUME NEW k \in 1 .. n  PROVE e[k] = d[k]
      <4>1. CASE k \in 1 .. i
        BY <2>2, <3>7, <4>1
      <4>2. CASE k = i + 1
        <5>1. 1 \in 1 .. n - i
          BY <3>1
        <5>2. c[1] = d[i + 1]
          BY <2>3, <5>1
        <5>3. QED
          BY <3>4, <3>7, <4>2, <5>2
      <4>3. CASE k > i + 1
        <5>1. k - i - 1 \in 1 .. n - i - 1 /\ i + 1 + (k - i - 1) = k /\ (k - i - 1) + 1 = k - i
              /\ k - i \in 1 .. n - i /\ i + (k - i) = k
          BY <1>1, <2>2, <4>3
        <5>2. e[k] = b[k - i - 1]
          BY <3>3, <3>7, <5>1
        <5>3. b[k - i - 1] = c[k - i]
          BY <3>3, <5>1
        <5>4. c[k - i] = d[k]
          BY <2>3, <5>1
        <5>5. QED
          BY <5>2, <5>3, <5>4
      <4>4. QED
        BY <1>1, <2>2, <4>1, <4>2, <4>3
    <3>10. d = e
      BY <1>1, <3>7, <3>8, <3>9
    <3>11. ParseFloat(t) = {Fraction(Signed(t, Horner(a) * Power[Len(b)] + Horner(b)), Power[Len(b)])}
      BY <2>5, <3>5, <3>6, <3>10, ParsedFraction DEF d, e
    <3>12. QED
      BY <3>11
  <2>8. QED
    BY <2>6, <2>7
<1>4. QED
  BY <1>2, <1>3

\* The parts of a fraction that is parsed are a whole number and a power.
LEMMA ParsedParts ==
  ASSUME NEW t \in Seq(Characters), NEW q \in ParseFloat(t)
  PROVE  q.over \in Int /\ q.under \in Nat \ {0}
<1>1. \A o, u : Fraction(o, u).over = o /\ Fraction(o, u).under = u
  BY DEF Fraction
<1>2. \A n \in Nat : Signed(t, n) \in Int
  BY DEF Signed
<1>3. ParseFloat(t) # {}
  OBVIOUS
<1>4. t # <<>> /\ \/ Unsigned(t) \in Seq(Digits)
                  \/ \E a \in Seq(Digits) : \E b \in Seq(Digits) : b # <<>> /\ Unsigned(t) = WithPoint(a, b)
  BY <1>3, ParsedOnly
<1>5. CASE Unsigned(t) \in Seq(Digits)
  <2> DEFINE H == Horner(Unsigned(t))
  <2>1. H \in Nat
    BY <1>5, HornerBelow
  <2>2. ParseFloat(t) = {Fraction(Signed(t, H), 1)}
    BY <1>4, <1>5, ParsedWhole
  <2> HIDE DEF H
  <2>3. q = Fraction(Signed(t, H), 1)
    BY <2>2
  <2>4. QED
    BY <1>1, <1>2, <2>1, <2>3
<1>6. ASSUME NEW a \in Seq(Digits), NEW b \in Seq(Digits), b # <<>>, Unsigned(t) = WithPoint(a, b)
      PROVE  q.over \in Int /\ q.under \in Nat \ {0}
  <2> DEFINE A == Horner(a)
             B == Horner(b)
             P == Power[Len(b)]
  <2>1. ParseFloat(t) = {Fraction(Signed(t, A * P + B), P)}
    BY <1>6, ParsedFraction
  <2>2. A \in Nat /\ B \in Nat /\ P \in Nat \ {0}
    BY HornerBelow, PowerIs
  <2> HIDE DEF A, B, P
  <2>3. A * P + B \in Nat
    BY <2>2
  <2>4. q = Fraction(Signed(t, A * P + B), P)
    BY <2>1
  <2>5. QED
    BY <1>1, <1>2, <2>2, <2>3, <2>4
<1>7. QED
  BY <1>4, <1>5, <1>6

-----------------------------------------------------------------------------
(* Printing fractions *)

LEMMA PowersMultiply ==
  ASSUME NEW m \in Nat, NEW n \in Nat
  PROVE  Power[m + n] = Power[m] * Power[n]
<1> DEFINE H == {k \in Nat : Power[m + k] = Power[m] * Power[k]}
<1>1. 0 \in H
  <2> DEFINE Q == Power[m]
  <2>1. Q \in Nat /\ Power[0] = 1 /\ m + 0 = m
    BY PowerIs
  <2>2. Power[m + 0] = Q
    BY <2>1
  <2> HIDE DEF Q
  <2>3. Q * 1 = Q
    BY <2>1
  <2>4. QED
    BY <2>1, <2>2, <2>3 DEF Q
<1>2. ASSUME NEW k \in Nat, k \in H  PROVE k + 1 \in H
  <2> DEFINE Q == Power[m]
             P == Power[k]
  <2>1. Q \in Nat /\ P \in Nat /\ Power[k + 1] = P * Base
    BY PowerIs
  <2>2. Power[(m + k) + 1] = Power[m + k] * Base /\ (m + k) + 1 = m + (k + 1)
    BY PowerIs
  <2>3. Power[m + k] = Q * P
    BY <1>2
  <2> HIDE DEF Q, P
  <2>4. (Q * P) * Base = Q * (P * Base)
    BY <2>1, BaseIs, Associative
  <2>5. Power[m + (k + 1)] = Q * Power[k + 1]
    BY <2>1, <2>2, <2>3, <2>4
  <2>6. QED
    BY <2>5 DEF Q
<1>3. \A k \in Nat : k \in H => k + 1 \in H
  BY <1>2
<1> HIDE DEF H
<1>4. n \in H
  BY <1>1, <1>3, FromOneBelow
<1>5. QED
  BY <1>4 DEF H

LEMMA HornerZeroes ==
  ASSUME NEW d \in Seq(Digits), \A i \in 1 .. Len(d) : d[i] = 0
  PROVE  Horner(d) = 0
<1> DEFINE N == Len(d)
           v == Value(d)
           H == {i \in Nat : v[i] = 0}
<1>1. N \in Nat /\ v[0] = 0 /\ Horner(d) = v[N] /\ \A i \in 1 .. N : v[i] = v[i - 1] * Base + d[i]
  BY ValueIs
<1>2. \A i \in 1 .. N : d[i] = 0
  OBVIOUS
<1> HIDE DEF N, v
<1>3. 0 \in H
  BY <1>1
<1>4. ASSUME NEW i \in 0 .. N - 1, i \in H  PROVE i + 1 \in H
  <2>1. i + 1 \in 1 .. N /\ (i + 1) - 1 = i /\ i + 1 \in Nat
    BY <1>1
  <2>2. v[i + 1] = v[i] * Base + d[i + 1]
    BY <1>1, <2>1
  <2>3. v[i] = 0 /\ d[i + 1] = 0
    BY <1>2, <1>4, <2>1
  <2>4. 0 * Base + 0 = 0
    BY BaseIs
  <2>5. QED
    BY <2>1, <2>2, <2>3, <2>4
<1>5. \A i \in 0 .. N - 1 : i \in H => i + 1 \in H
  BY <1>4
<1> HIDE DEF H
<1>6. \A i \in 0 .. N : i \in H
  BY <1>1, <1>3, <1>5, FromOneBelowTo
<1>7. N \in H
  BY <1>1, <1>6
<1>8. QED
  BY <1>1, <1>7 DEF H

\* Without the zeroes at its end a text has a power less of its value.
LEMMA EndingZeroes ==
  ASSUME NEW d \in Seq(Digits), d # <<>>, NEW available \in Nat, Len(d) = available
  PROVE  \E k \in 1 .. Len(d) :
           /\ WithoutEndingZeroes(d, available) \in Seq(Digits)
           /\ Len(WithoutEndingZeroes(d, available)) = k
           /\ Horner(d) = Horner(WithoutEndingZeroes(d, available)) * Power[Len(d) - k]
<1> DEFINE n == Len(d)
           lastIndex == IF available < Len(d) - 1 THEN available ELSE Len(d) - 1
           nonzero == {i \in 1 .. lastIndex : d[i + 1] # 0}
           c == CHOOSE i \in nonzero \cup {0} : \A j \in nonzero : j <= i
           w == WithoutEndingZeroes(d, available)
<1>1. n \in Nat \ {0} /\ lastIndex = n - 1
  OBVIOUS
<1>5. w = IF lastIndex = 0 THEN d ELSE SubSeq(d, 1, 1 + c)
  BY DEF WithoutEndingZeroes
<1>2. CASE n = 1
  <2>1. w = d
    BY <1>1, <1>2, <1>5
  <2> HIDE DEF w
  <2>2. Power[n - n] = 1 /\ Horner(d) \in Nat
    BY <1>1, PowerIs, HornerBelow
  <2>3. Horner(d) * Power[n - n] = Horner(d)
    BY <2>2
  <2>4. n \in 1 .. n
    BY <1>1
  <2>5. QED
    BY <2>1, <2>3, <2>4 DEF w
<1>3. CASE n # 1
  <2>17. lastIndex # 0
    BY <1>1, <1>3
  <2>1. w = SubSeq(d, 1, 1 + c)
    <3> HIDE DEF lastIndex, w, c
    <3>1. QED
      BY <1>5, <2>17
  <2> HIDE DEF lastIndex, w
  <2>2. nonzero \in SUBSET (1 .. n - 1) /\ \A i \in 1 .. n - 1 : i \notin nonzero => d[i + 1] = 0
    BY <1>1
  <2> HIDE DEF nonzero
  <2>3. \E i \in nonzero \cup {0} : \A j \in nonzero : j <= i
    <3>1. CASE nonzero = {}
      BY <3>1
    <3>2. CASE nonzero # {}
      <4> DEFINE R == {x \in Nat : \E j \in nonzero : x = n - j}
      <4>6. PICK k \in nonzero : TRUE
        BY <3>2
      <4>7. n - k \in Nat
        BY <1>1, <2>2, <4>6
      <4>1. R \in SUBSET Nat /\ R # {}
        BY <4>6, <4>7
      <4>2. PICK x \in R : \A y \in R : x <= y
        BY <4>1, SmallestOne
      <4>3. PICK i \in nonzero : x = n - i
        BY <4>2
      <4>4. ASSUME NEW j \in nonzero  PROVE j <= i
        <5>1. n - j \in R /\ i \in Nat /\ j \in Nat
          BY <1>1, <2>2
        <5>2. n - i <= n - j
          BY <4>2, <4>3, <5>1
        <5>3. QED
          BY <1>1, <5>1, <5>2
      <4>5. QED
        BY <4>4
    <3>3. QED
      BY <3>1, <3>2
  <2>4. c \in nonzero \cup {0} /\ \A j \in nonzero : j <= c
    BY <2>3
  <2> HIDE DEF c
  <2>5. c \in 0 .. n - 1 /\ c + 1 \in 1 .. n /\ 1 + c = c + 1
    BY <1>1, <2>2, <2>4
  <2> DEFINE k == c + 1
             z == SubSeq(d, k + 1, n)
  <2> HIDE DEF n
  <2>6. w \in Seq(Digits) /\ Len(w) = k /\ \A i \in 1 .. k : w[i] = d[i]
    BY <1>1, <2>1, <2>5 DEF n
  <2>7. z \in Seq(Digits) /\ Len(z) = n - k /\ \A i \in 1 .. n - k : z[i] = d[k + i]
    BY <1>1, <2>5 DEF n
  <2> HIDE DEF z
  <2>8. \A i \in 1 .. Len(z) : z[i] = 0
    <3> TAKE i \in 1 .. Len(z)
    <3>1. i \in 1 .. n - k /\ c + i \in 1 .. n - 1 /\ (c + i) + 1 = k + i /\ ~(c + i <= c)
      BY <1>1, <2>5, <2>7
    <3>2. c + i \notin nonzero
      BY <2>4, <3>1
    <3>3. d[(c + i) + 1] = 0
      BY <2>2, <3>1, <3>2
    <3>4. QED
      BY <2>7, <3>1, <3>3
  <2>9. Horner(z) = 0
    BY <2>7, <2>8, HornerZeroes
  <2> HIDE DEF k
  <2>10. k \in 1 .. n
    BY <2>5 DEF k
  <2>11. d = w \o z
    <3>7. w \o z \in Seq(Digits) /\ Len(w \o z) = k + (n - k)
      BY <2>6, <2>7
    <3>8. k + (n - k) = n
      BY <1>1, <2>10
    <3>1. w \o z \in Seq(Digits) /\ Len(w \o z) = n
      BY <3>7, <3>8
    <3>2. ASSUME NEW i \in 1 .. n  PROVE (w \o z)[i] = d[i]
      <4>1. CASE i \in 1 .. k
        <5>1. (w \o z)[i] = w[i]
          BY <2>6, <2>7, <4>1
        <5>2. QED
          BY <2>6, <4>1, <5>1
      <4>2. CASE i \notin 1 .. k
        <5>1. i - k \in 1 .. n - k /\ k + (i - k) = i
          BY <1>1, <2>10, <4>2
        <5>4. i > k /\ i <= k + (n - k) /\ i \in Nat /\ k \in Nat /\ n - k \in Nat
          BY <1>1, <2>10, <4>2
        <5>2. (w \o z)[i] = z[i - k]
          <6>1. i \in 1 .. Len(w) + Len(z) /\ ~(i <= Len(w))
            BY <2>6, <2>7, <5>4
          <6>2. QED
            BY <2>6, <2>7, <6>1, ConcatProperties
        <5>3. QED
          BY <2>7, <5>1, <5>2
      <4>3. QED
        BY <4>1, <4>2
    <3>3. Len(d) = n
      BY DEF n
    <3> DEFINE e == w \o z
    <3> HIDE DEF e
    <3>4. e \in Seq(Digits) /\ Len(e) = n /\ \A i \in 1 .. n : e[i] = d[i]
      BY <3>1, <3>2 DEF e
    <3>5. e = d
      BY <3>3, <3>4
    <3>6. QED
      BY <3>5 DEF e
  <2>12. Horner(d) = Horner(w) * Power[Len(z)] + Horner(z)
    BY <2>6, <2>7, <2>11, ValueJoins
  <2>18. n - k \in Nat
    BY <1>1, <2>10
  <2>13. n - k \in Nat /\ Power[n - k] \in Nat /\ Horner(w) \in Nat
    BY <2>6, <2>18, PowerIs, HornerBelow
  <2> DEFINE P == Power[n - k]
             W == Horner(w)
  <2>14. Horner(d) = W * P + 0 /\ P \in Nat /\ W \in Nat
    BY <2>7, <2>9, <2>12, <2>13
  <2> HIDE DEF P, W
  <2>15. Horner(d) = W * P
    BY <2>14
  <2>16. QED
    BY <2>6, <2>10, <2>15 DEF P, W, w, n
<1>4. QED
  BY <1>2, <1>3

\* The number of digits lies between powers.
LEMMA DigitCount ==
  ASSUME NEW n \in Nat \ {0}, NEW m \in Nat, Power[m] <= n, n < Power[m + 1]
  PROVE  Len(DigitsOf[n]) = m + 1
<1> DEFINE d == DigitsOf[n]
<1>1. d \in Seq(Digits) /\ Horner(d) = n /\ d # <<>> /\ d[1] # 0
  BY DigitsOfValue
<1> HIDE DEF d
<1>2. Len(d) <= m + 1
  BY <1>1, FewDigits
<1>3. Horner(d) < Power[Len(d)] /\ Len(d) \in Nat
  BY <1>1, HornerBelow
<1>4. ASSUME Len(d) <= m  PROVE FALSE
  <2>1. Power[Len(d)] <= Power[m]
    BY <1>3, <1>4, PowersGrow
  <2>2. Power[Len(d)] \in Nat /\ Power[m] \in Nat
    BY <1>3, PowerIs
  <2>3. QED
    BY <1>1, <1>3, <2>1, <2>2
<1>5. Len(d) = m + 1
  BY <1>2, <1>3, <1>4
<1>6. QED
  BY <1>5 DEF d

\* As many decimals as are asked for are counted zeroes and digits of the rest.
LEMMA LeadingDecimals ==
  ASSUME NEW R \in Nat, NEW U \in Nat \ {0}, R < U, NEW p \in Nat, (R * Power[p]) \div U # 0
  PROVE  \E z \in 0 .. p - 1 :
           /\ Cardinality({i \in 1 .. p : R * Power[i] < U}) = z
           /\ Len(DigitsOf[(R * Power[p]) \div U]) = p - z
<1> DEFINE A(i) == R * Power[i]
           H == A(p) \div U
           X == {i \in Nat : i \in 1 .. p /\ ~(A(i) < U)}
           Y == {i \in 1 .. p : A(i) < U}
<1>1. \A i \in Nat : A(i) \in Nat
  <2> TAKE i \in Nat
  <2>1. Power[i] \in Nat
    BY PowerIs
  <2>2. QED
    BY <2>1, Products
<1>2. A(0) = R
  <2>1. Power[0] = 1
    BY PowerIs
  <2>2. QED
    BY <2>1
<1>3. H \in Nat /\ A(p) % U \in 0 .. U - 1 /\ A(p) = H * U + (A(p) % U) /\ H # 0
  <2> DEFINE B == A(p)
  <2>1. B \in Nat
    BY <1>1
  <2> HIDE DEF B
  <2>2. B \div U \in Nat /\ B % U \in 0 .. U - 1 /\ B = (B \div U) * U + (B % U)
    BY <2>1, Division
  <2>3. H = B \div U
    BY DEF B
  <2>4. QED
    BY <2>2, <2>3 DEF B
<1>4. U <= H * U /\ H * U \in Nat
  <2> HIDE DEF H
  <2>1. QED
    BY <1>3
<1>17. \A m, n \in Nat : Power[m + n] = Power[m] * Power[n]
  BY PowersMultiply
<1>18. \A m, n \in Nat : A(m + n) = A(m) * Power[n]
  <2> TAKE m, n \in Nat
  <2> DEFINE P == Power[m]
             Q == Power[n]
  <2>1. P \in Nat /\ Q \in Nat /\ Power[m + n] = P * Q
    BY <1>17, PowerIs
  <2> HIDE DEF P, Q
  <2>2. (R * P) * Q = R * (P * Q)
    BY <2>1, Associative
  <2>3. QED
    BY <2>1, <2>2 DEF P, Q
<1> HIDE DEF A, H
<1>5. ~(A(p) < U)
  <2>1. A(p) \in Nat /\ A(p) % U \in Nat
    BY <1>1, <1>3
  <2>2. QED
    BY <1>3, <1>4, <2>1
<1>6. p # 0
  BY <1>2, <1>5
<1>7. X \in SUBSET Nat /\ p \in X
  BY <1>5, <1>6
<1>8. PICK y \in X : \A x \in X : y <= x
  BY <1>7, SmallestOne
<1> DEFINE z == y - 1
<1>9. y \in 1 .. p /\ ~(A(y) < U) /\ z \in 0 .. p - 1 /\ z + 1 = y /\ z \in Nat
  BY <1>8
<1>10. A(z) < U
  <2>1. CASE z = 0
    BY <1>2, <2>1
  <2>2. CASE z # 0
    <3>1. z \in 1 .. p /\ ~(y <= z) /\ z \in Nat
      BY <1>9, <2>2
    <3>2. z \notin X
      BY <1>8, <3>1
    <3>3. QED
      BY <3>1, <3>2
  <2>3. QED
    BY <2>1, <2>2
<1>11. ASSUME NEW i \in 1 .. p, y <= i  PROVE ~(A(i) < U)
  <2> DEFINE k == i - y
             B == A(y)
             P == Power[k]
  <2>1. k \in Nat /\ y + k = i /\ y \in Nat
    BY <1>9, <1>11
  <2>2. A(i) = B * P
    BY <1>18, <2>1
  <2>3. B \in Nat /\ P \in Nat \ {0} /\ ~(B < U)
    BY <1>1, <1>9, <2>1, PowerIs
  <2> HIDE DEF B, P
  <2>4. B <= B * P /\ B * P \in Nat
    BY <2>3
  <2>5. QED
    BY <2>2, <2>3, <2>4
<1>12. Y = 1 .. z
  <2>1. ASSUME NEW i \in Y  PROVE i \in 1 .. z
    <3>1. i \in 1 .. p /\ ~(y <= i)
      BY <1>11
    <3>2. QED
      BY <1>9, <3>1
  <2>2. ASSUME NEW i \in 1 .. z  PROVE i \in Y
    <3>1. i \in 1 .. p /\ i \in Nat /\ ~(y <= i)
      BY <1>9
    <3>2. i \notin X
      BY <1>8, <3>1
    <3>3. QED
      BY <3>1, <3>2
  <2>3. QED
    BY <2>1, <2>2
<1> HIDE DEF X, z
<1>13. Cardinality(Y) = z
  <2>1. 1 \in Int /\ z \in Int
    BY <1>9
  <2>2. Cardinality(1 .. z) = IF 1 > z THEN 0 ELSE z - 1 + 1
    BY <2>1, FS_Interval
  <2>3. Cardinality(1 .. z) = z
    BY <1>9, <2>2
  <2>4. QED
    BY <1>12, <2>3
<1> HIDE DEF Y
<1> DEFINE e == p - z - 1
           Q == Power[e]
           S == Power[e + 1]
<1>14. e \in Nat /\ e + 1 = p - z /\ z + (e + 1) = p /\ y + e = p /\ y \in Nat
  BY <1>9
<1> HIDE DEF e
<1>15. Q \in Nat \ {0} /\ S \in Nat \ {0} /\ A(p) = A(z) * S /\ A(p) = A(y) * Q
  <2>1. Q \in Nat \ {0} /\ S \in Nat \ {0}
    BY <1>14, PowerIs
  <2> DEFINE f == e + 1
  <2>6. z \in Nat /\ f \in Nat
    BY <1>9, <1>14
  <2> HIDE DEF f
  <2>7. A(z + f) = A(z) * Power[f]
    BY <1>18, <2>6
  <2>4. A(z + (e + 1)) = A(z) * S
    BY <2>7 DEF f
  <2>5. A(y + e) = A(y) * Q
    BY <1>14, <1>18
  <2>2. A(z + (e + 1)) = A(z) * S /\ A(y + e) = A(y) * Q
    BY <2>4, <2>5
  <2>3. QED
    BY <1>14, <2>1, <2>2
<1> DEFINE a == A(z)
           b == A(y)
           c == A(p)
           r == c % U
<1>16. a \in Nat /\ b \in Nat /\ c \in Nat /\ a < U /\ U <= b /\ c = a * S /\ c = b * Q
       /\ r \in 0 .. U - 1 /\ c = H * U + r /\ H \in Nat \ {0}
  <2>1. a \in Nat /\ b \in Nat /\ c \in Nat
    BY <1>1, <1>9, <1>14
  <2>2. a < U /\ U <= b
    BY <1>9, <1>10, <2>1
  <2>3. QED
    <3>1. c = a * S /\ c = b * Q
      BY <1>15
    <3>2. r \in 0 .. U - 1 /\ c = H * U + r /\ H \in Nat \ {0}
      BY <1>3
    <3>3. QED
      BY <2>1, <2>2, <3>1, <3>2
<1> HIDE DEF a, b, c, r, Q, S
<1>19. H < S
  <2>1. a * S < U * S
    BY <1>15, <1>16, ProductStrict
  <2>2. U * S = S * U /\ S * U \in Nat /\ H * U \in Nat /\ a * S \in Nat
    BY <1>15, <1>16, Products
  <2>3. H * U < S * U
    BY <1>16, <2>1, <2>2
  <2>4. QED
    BY <1>15, <1>16, <2>3, ProductStrict
<1>20. Q <= H
  <2>1. U * Q <= b * Q
    BY <1>15, <1>16, ProductGrows
  <2>2. U * Q = Q * U /\ Q * U \in Nat /\ b * Q \in Nat /\ H * U \in Nat
    BY <1>15, <1>16, Products
  <2>3. (H + 1) * U = H * U + U
    BY <1>16
  <2>4. Q * U < (H + 1) * U
    BY <1>16, <2>1, <2>2, <2>3
  <2>5. H + 1 \in Nat /\ Q \in Nat
    BY <1>15, <1>16
  <2>6. Q < H + 1
    BY <2>4, <2>5, ProductStrict
  <2>7. QED
    BY <1>16, <2>5, <2>6
<1>21. Len(DigitsOf[H]) = e + 1
  BY <1>14, <1>16, <1>19, <1>20, DigitCount DEF Q, S
<1>22. Cardinality(Y) = z /\ Len(DigitsOf[H]) = p - z
  BY <1>13, <1>14, <1>21
<1>23. QED
  BY <1>9, <1>22 DEF H, A, Y

LEMMA FromUintIs ==
  ASSUME NEW n \in Nat
  PROVE  FromUint(n) \in Seq(Digits) /\ FromUint(n) # <<>> /\ Horner(FromUint(n)) = n
<1>1. CASE n = 0
  <2>1. FromUint(n) = <<0>> /\ 0 \in Digits
    BY <1>1, BaseIs DEF FromUint
  <2>2. <<0>> \in Seq(Digits) /\ Horner(<<0>>) = 0
    BY <2>1, HornerOne
  <2>3. <<0>> # <<>>
    OBVIOUS
  <2>4. QED
    BY <1>1, <2>1, <2>2, <2>3
<1>2. CASE n # 0
  <2>1. FromUint(n) = DigitsOf[n]
    BY <1>2 DEF FromUint
  <2>2. QED
    BY <1>2, <2>1, DigitsOfValue
<1>3. QED
  BY <1>1, <1>2

\* What is printed in front of the point.
WholeText(o, whole) ==
  IF o < 0 /\ whole = 0 THEN <<Minus, 0>> ELSE FromInt(IF o < 0 THEN -whole ELSE whole)

LEMMA WholeTextIs ==
  ASSUME NEW o \in Int, NEW whole \in Nat
  PROVE  WholeText(o, whole) = IF o < 0 THEN <<Minus>> \o FromUint(whole) ELSE FromUint(whole)
<1>1. CASE ~(o < 0)
  <2>1. WholeText(o, whole) = FromInt(whole) /\ ~(whole < 0)
    BY <1>1 DEF WholeText
  <2>2. QED
    BY <1>1, <2>1 DEF FromInt
<1>2. CASE o < 0 /\ whole = 0
  <2>1. WholeText(o, whole) = <<Minus, 0>> /\ FromUint(whole) = <<0>>
    BY <1>2 DEF WholeText, FromUint
  <2>2. <<Minus>> \o <<0>> = <<Minus, 0>>
    <3> DEFINE a == <<Minus>>
               b == <<0>>
               c == a \o b
               e == <<Minus, 0>>
    <3>1. Minus \in Nat /\ 0 \in Nat
      BY BaseIs DEF Minus
    <3>2. a \in Seq(Nat) /\ Len(a) = 1 /\ a[1] = Minus /\ b \in Seq(Nat) /\ Len(b) = 1 /\ b[1] = 0
      BY <3>1
    <3>3. e \in Seq(Nat) /\ Len(e) = 2 /\ e[1] = Minus /\ e[2] = 0
      BY <3>1
    <3> HIDE DEF a, b, e
    <3>8. c \in Seq(Nat) /\ Len(c) = 2
      BY <3>2
    <3>9. \A i \in 1 .. Len(a) + Len(b) : c[i] = IF i <= Len(a) THEN a[i] ELSE b[i - Len(a)]
      BY <3>2, ConcatProperties
    <3> HIDE DEF c
    <3>10. 1 \in 1 .. Len(a) + Len(b) /\ 2 \in 1 .. Len(a) + Len(b) /\ 1 <= Len(a) /\ ~(2 <= Len(a)) /\ 2 - Len(a) = 1
      BY <3>2
    <3>11. c[1] = a[1] /\ c[2] = b[1]
      BY <3>9, <3>10
    <3>4. c \in Seq(Nat) /\ Len(c) = 2 /\ c[1] = Minus /\ c[2] = 0
      BY <3>2, <3>8, <3>11
    <3>5. \A i \in 1 .. 2 : c[i] = e[i]
      BY <3>3, <3>4
    <3>6. c = e
      BY <3>3, <3>4, <3>5
    <3>7. QED
      BY <3>6 DEF c, e, a, b
  <2>3. QED
    BY <1>2, <2>1, <2>2
<1>3. CASE o < 0 /\ whole # 0
  <2>1. WholeText(o, whole) = FromInt(-whole) /\ -whole < 0 /\ -(-whole) = whole
    BY <1>3 DEF WholeText
  <2>2. FromInt(-whole) = <<Minus>> \o DigitsOf[whole]
    BY <2>1 DEF FromInt
  <2>3. FromUint(whole) = DigitsOf[whole]
    BY <1>3 DEF FromUint
  <2>4. QED
    BY <1>3, <2>1, <2>2, <2>3
<1>4. QED
  BY <1>1, <1>2, <1>3

\* What is printed behind it: of the rest R of a division by U, with the
\* precision p.
Decimals(R, U, p) ==
  IF (R * Power[p]) \div U = 0 THEN <<0>>
  ELSE [i \in 1 .. Cardinality({i \in 1 .. p : R * Power[i] < U}) |-> 0]
       \o WithoutEndingZeroes(FromUint((R * Power[p]) \div U), p - Cardinality({i \in 1 .. p : R * Power[i] < U}))

LEMMA DecimalsAre ==
  ASSUME NEW R \in Nat, NEW U \in Nat \ {0}, R < U, NEW p \in Nat
  PROVE  /\ Decimals(R, U, p) \in Seq(Digits) /\ Decimals(R, U, p) # <<>>
         /\ Horner(Decimals(R, U, p)) * Power[p] = ((R * Power[p]) \div U) * Power[Len(Decimals(R, U, p))]
<1> DEFINE H == (R * Power[p]) \div U
           b == Decimals(R, U, p)
<1>1. H \in Nat
  <2> DEFINE P == Power[p]
  <2>1. P \in Nat
    BY PowerIs
  <2> HIDE DEF P
  <2> DEFINE B == R * P
  <2>2. B \in Nat
    BY <2>1, Products
  <2> HIDE DEF B
  <2>3. B \div U \in Nat
    BY <2>2, Division
  <2>4. QED
    BY <2>3 DEF B, P
<1>2. CASE H = 0
  <2>1. b = <<0>> /\ 0 \in Digits
    BY <1>2, BaseIs DEF Decimals
  <2>2. b \in Seq(Digits) /\ b # <<>> /\ Horner(b) = 0
    BY <2>1, HornerOne
  <2>3. Len(b) \in Nat
    BY <2>2
  <2>4. Power[p] \in Nat /\ Power[Len(b)] \in Nat
    BY <2>3, PowerIs
  <2>5. 0 * Power[p] = 0 /\ 0 * Power[Len(b)] = 0
    BY <2>4
  <2>6. QED
    BY <1>2, <2>2, <2>5
<1>3. CASE H # 0
  <2>1. PICK z \in 0 .. p - 1 :
          /\ Cardinality({i \in 1 .. p : R * Power[i] < U}) = z
          /\ Len(DigitsOf[H]) = p - z
    BY <1>3, LeadingDecimals
  <2> DEFINE D == FromUint(H)
             w == WithoutEndingZeroes(D, p - z)
             y == [i \in 1 .. z |-> 0]
  <2>2. b = y \o w
    BY <1>3, <2>1 DEF Decimals
  <2>3. D \in Seq(Digits) /\ D # <<>> /\ Horner(D) = H /\ Len(D) = p - z
    <3>1. D = DigitsOf[H]
      BY <1>3 DEF FromUint
    <3>2. QED
      BY <1>1, <2>1, <3>1, FromUintIs
  <2>4. z \in Nat /\ p - z \in Nat
    BY <2>1
  <2> HIDE DEF H, D, b
  <2>5. PICK k \in 1 .. Len(D) : w \in Seq(Digits) /\ Len(w) = k /\ Horner(D) = Horner(w) * Power[Len(D) - k]
    BY <2>3, <2>4, EndingZeroes
  <2>6. y \in Seq(Digits) /\ Len(y) = z /\ \A i \in 1 .. z : y[i] = 0
    BY <2>4, BaseIs
  <2> HIDE DEF y, w
  <2>7. Horner(y) = 0
    BY <2>6, HornerZeroes
  <2>8. b \in Seq(Digits) /\ Horner(b) = Horner(y) * Power[Len(w)] + Horner(w)
    BY <2>2, <2>5, <2>6, ValueJoins
  <2>9. Len(b) = z + k
    BY <2>2, <2>5, <2>6, ConcatProperties
  <2>10. k \in Nat \ {0} /\ Len(D) - k \in Nat /\ (Len(D) - k) + (z + k) = p
    BY <2>3, <2>4, <2>5
  <2>11. b # <<>>
    BY <2>4, <2>8, <2>9, <2>10
  <2> DEFINE W == Horner(w)
             P == Power[Len(D) - k]
             Q == Power[z + k]
  <2>12. W \in Nat /\ P \in Nat /\ Q \in Nat /\ Power[p] = P * Q
    <3>1. z + k \in Nat
      BY <2>4, <2>10
    <3>2. Power[(Len(D) - k) + (z + k)] = P * Q
      BY <2>10, <3>1, PowersMultiply
    <3>3. P \in Nat /\ Q \in Nat
      BY <2>10, <3>1, PowerIs
    <3>4. W \in Nat
      BY <2>5, HornerBelow
    <3>5. QED
      BY <2>10, <3>2, <3>3, <3>4
  <2>13. H = W * P
    BY <2>3, <2>5
  <2>14. Horner(b) = W
    <3>1. Power[Len(w)] \in Nat
      BY <2>5, <2>10, PowerIs
    <3>2. 0 * Power[Len(w)] = 0
      BY <3>1
    <3> HIDE DEF P, Q
    <3>3. QED
      BY <2>7, <2>8, <2>12, <3>2
  <2>15. Power[Len(b)] = Q
    BY <2>9
  <2> HIDE DEF W, P, Q
  <2>16. W * (P * Q) = (W * P) * Q
    BY <2>12, Associative
  <2>17. Horner(b) * Power[p] = H * Power[Len(b)]
    BY <2>12, <2>13, <2>14, <2>15, <2>16
  <2>18. QED
    BY <2>8, <2>11, <2>17 DEF H, b
<1>4. QED
  BY <1>2, <1>3

\* A number that is cut has its whole part and as many of its decimals.
LEMMA CutIs ==
  ASSUME NEW n \in Nat, NEW U \in Nat \ {0}, NEW P \in Nat
  PROVE  /\ n \div U \in Nat /\ n % U \in Nat /\ n % U < U
         /\ ((n % U) * P) \div U \in Nat
         /\ (n * P) \div U = (n \div U) * P + ((n % U) * P) \div U
<1> DEFINE W == n \div U
           R == n % U
           B == R * P
           H == B \div U
           r == B % U
<1>1. W \in Nat /\ R \in 0 .. U - 1 /\ n = W * U + R
  BY Division
<1> HIDE DEF W, R
<1>2. R \in Nat /\ R < U /\ B \in Nat
  BY <1>1, Products
<1> HIDE DEF B
<1>3. H \in Nat /\ r \in 0 .. U - 1 /\ B = H * U + r
  BY <1>2, Division
<1> HIDE DEF H, r
<1>4. n * P = (W * P + H) * U + r
  <2>1. W * U \in Nat /\ W * P \in Nat /\ H * U \in Nat
    BY <1>1, <1>3, Products
  <2>2. n * P = (W * U) * P + R * P
    BY <1>1, <1>2, <2>1, Distributes
  <2>3. (W * U) * P = W * (U * P) /\ U * P = P * U
    BY <1>1, Associative, Products
  <2>4. (W * P) * U = W * (P * U)
    BY <1>1, Associative
  <2>5. (W * P + H) * U = (W * P) * U + H * U
    BY <1>3, <2>1, Distributes
  <2>6. n * P = (W * P) * U + B
    BY <2>2, <2>3, <2>4 DEF B
  <2>7. (W * P) * U \in Nat /\ r \in Nat
    BY <1>3, <2>1, Products
  <2>8. QED
    BY <1>3, <2>1, <2>5, <2>6, <2>7
<1>5. W * P + H \in Nat
  BY <1>1, <1>3, Products
<1> DEFINE c == W * P + H
<1>6. c \in Nat /\ n * P = c * U + r
  BY <1>4, <1>5
<1> HIDE DEF c
<1>7. (c * U + r) \div U = c
  BY <1>3, <1>6, Divided
<1>8. (n * P) \div U = W * P + H
  BY <1>6, <1>7 DEF c
<1>9. QED
  BY <1>1, <1>2, <1>3, <1>8 DEF W, R, H, B

\* A text with a point, with or without a sign in front of it.
LEMMA SignedText ==
  ASSUME NEW a \in Seq(Digits), a # <<>>, NEW b \in Seq(Digits), NEW negative \in BOOLEAN
  PROVE  LET s == (IF negative THEN <<Minus>> \o a ELSE a) \o <<Point>> \o b
         IN  s \in Seq(Characters) /\ Unsigned(s) = WithPoint(a, b) /\ (IsNegative(s) <=> negative)
<1> DEFINE e == WithPoint(a, b)
           s == (IF negative THEN <<Minus>> \o a ELSE a) \o <<Point>> \o b
<1>1. e \in Seq(Characters) /\ Len(e) = Len(a) + 1 + Len(b) /\ \A i \in 1 .. Len(a) : e[i] = a[i]
  BY WithPointIs
<1>2. e # <<>> /\ Head(e) = a[1] /\ a[1] \in Digits
  <2>1. 1 \in 1 .. Len(a) /\ Len(a) \in Nat /\ Len(b) \in Nat
    OBVIOUS
  <2> HIDE DEF e
  <2>2. e # <<>> /\ Head(e) = e[1]
    BY <1>1, <2>1
  <2>3. QED
    BY <1>1, <2>1, <2>2
<1>3. Minus \in Characters /\ Point \in Characters /\ Digits \subseteq Characters /\ a[1] # Minus
  BY <1>2, CharactersAre DEF Characters
<1>4. CASE ~negative
  <2>1. s = e
    BY <1>4 DEF WithPoint
  <2> HIDE DEF e, s
  <2>2. ~IsNegative(s)
    BY <1>2, <1>3, <2>1 DEF IsNegative
  <2>3. QED
    BY <1>1, <1>4, <2>1, <2>2 DEF Unsigned, e, s
<1>5. CASE negative
  <2>1. <<Minus>> \in Seq(Characters) /\ <<Point>> \in Seq(Characters) /\ a \in Seq(Characters) /\ b \in Seq(Characters)
    BY <1>3
  <2>2. a \o <<Point>> \in Seq(Characters)
    BY <2>1
  <2>3. (<<Minus>> \o a) \o <<Point>> = <<Minus>> \o (a \o <<Point>>)
    BY <2>1, ConcatAssociative
  <2>4. (<<Minus>> \o (a \o <<Point>>)) \o b = <<Minus>> \o ((a \o <<Point>>) \o b)
    BY <2>1, <2>2, ConcatAssociative
  <2>5. s = <<Minus>> \o e
    BY <1>5, <2>3, <2>4 DEF WithPoint
  <2> HIDE DEF e, s
  <2>6. s \in Seq(Characters) /\ Len(s) = 1 + Len(e) /\ s[1] = Minus /\ \A i \in 1 .. Len(e) : s[i + 1] = e[i]
    <3>1. Len(<<Minus>>) = 1 /\ <<Minus>>[1] = Minus
      OBVIOUS
    <3> DEFINE m == <<Minus>>
    <3>7. m \in Seq(Characters) /\ Len(m) = 1 /\ m[1] = Minus /\ s = m \o e
      BY <2>1, <2>5, <3>1
    <3> HIDE DEF m
    <3>12. m \in Seq(Characters) /\ e \in Seq(Characters)
      BY <1>1, <3>7
    <3>9. m \o e \in Seq(Characters)
      BY <3>12
    <3>10. Len(m \o e) = Len(m) + Len(e)
      BY <3>12
    <3>11. \A i \in 1 .. Len(m) + Len(e) : (m \o e)[i] = IF i <= Len(m) THEN m[i] ELSE e[i - Len(m)]
      BY <3>12, ConcatProperties
    <3>8. /\ m \o e \in Seq(Characters) /\ Len(m \o e) = Len(m) + Len(e)
          /\ \A i \in 1 .. Len(m) + Len(e) : (m \o e)[i] = IF i <= Len(m) THEN m[i] ELSE e[i - Len(m)]
      BY <3>9, <3>10, <3>11
    <3>2. /\ s \in Seq(Characters) /\ Len(s) = 1 + Len(e)
          /\ \A i \in 1 .. 1 + Len(e) : s[i] = IF i <= 1 THEN m[i] ELSE e[i - 1]
      BY <3>7, <3>8
    <3>3. Len(e) \in Nat
      BY <1>1
    <3>4. s[1] = Minus
      <4>1. 1 \in 1 .. 1 + Len(e)
        BY <3>3
      <4>2. QED
        BY <3>2, <3>7, <4>1
    <3>5. \A i \in 1 .. Len(e) : s[i + 1] = e[i]
      <4> TAKE i \in 1 .. Len(e)
      <4>1. i + 1 \in 1 .. 1 + Len(e) /\ ~(i + 1 <= 1) /\ (i + 1) - 1 = i
        BY <3>3
      <4>2. QED
        BY <3>2, <4>1
    <3>6. QED
      BY <3>2, <3>4, <3>5
  <2>7. s # <<>> /\ Head(s) = Minus
    BY <1>1, <2>6
  <2>8. IsNegative(s)
    BY <2>7 DEF IsNegative
  <2>9. Tail(s) \in Seq(Characters) /\ Len(Tail(s)) = Len(e) /\ \A i \in 1 .. Len(e) : Tail(s)[i] = s[i + 1]
    BY <1>1, <2>6, <2>7
  <2> DEFINE u == Tail(s)
  <2> HIDE DEF u
  <2>10. u \in Seq(Characters) /\ Len(u) = Len(e) /\ \A i \in 1 .. Len(e) : u[i] = e[i]
    BY <2>6, <2>9 DEF u
  <2>11. u = e
    BY <1>1, <2>10
  <2>12. Unsigned(s) = e
    BY <2>8, <2>11 DEF Unsigned, u
  <2>13. QED
    BY <1>5, <2>6, <2>8, <2>12 DEF e, s
<1>6. QED
  BY <1>4, <1>5

\* The digits in front of the point and behind it, times powers of the precision.
LEMMA Crossed ==
  ASSUME NEW W \in Nat, NEW H \in Nat, NEW B \in Nat, NEW P \in Nat, NEW Q \in Nat, B * P = H * Q
  PROVE  (W * Q + B) * P = (W * P + H) * Q
<1>1. W * Q \in Nat /\ W * P \in Nat
  BY Products
<1>2. (W * Q + B) * P = (W * Q) * P + B * P
  BY <1>1, Distributes
<1>3. (W * P + H) * Q = (W * P) * Q + H * Q
  BY <1>1, Distributes
<1>4. (W * Q) * P = W * (Q * P) /\ (W * P) * Q = W * (P * Q) /\ Q * P = P * Q
  BY Associative, Products
<1>5. QED
  BY <1>2, <1>3, <1>4

\* What is printed of a fraction is read back as it was cut.
LEMMA FloatsAreReadBack ==
  ASSUME NEW q, q.over \in Int, q.under \in Nat \ {0}, NEW precision \in Nat
  PROVE  \E p \in ParseFloat(FromFloat(q, precision)) : SameFraction(p, CutTo(q, precision))
<1> DEFINE o == q.over
           U == q.under
           n == IF o < 0 THEN -o ELSE o
           W == n \div U
           R == n % U
           P == Power[precision]
           H == (R * P) \div U
           a == FromUint(W)
           b == Decimals(R, U, precision)
           Q == Power[Len(b)]
           s == FromFloat(q, precision)
           cut == (n * P) \div U
           B == Horner(b)
<1>1. n \in Nat /\ o \in Int /\ U \in Nat \ {0} /\ P \in Nat
  BY PowerIs
<1>2. s = WholeText(o, W) \o <<Point>> \o b
  BY DEF FromFloat, WholeText, Decimals
<1>3. CutTo(q, precision) = Fraction(IF o < 0 THEN -cut ELSE cut, P)
  BY DEF CutTo, Fraction
<1> HIDE DEF o, U, n, P, s
<1>4. W \in Nat /\ R \in Nat /\ R < U /\ H \in Nat /\ cut = W * P + H
  BY <1>1, CutIs
<1> HIDE DEF W, R, cut
<1>5. b \in Seq(Digits) /\ b # <<>> /\ B * P = H * Q
  BY <1>1, <1>4, DecimalsAre DEF P
<1> HIDE DEF H, b
<1>6. a \in Seq(Digits) /\ a # <<>> /\ Horner(a) = W
  BY <1>4, FromUintIs
<1>7. s = (IF o < 0 THEN <<Minus>> \o a ELSE a) \o <<Point>> \o b
  BY <1>1, <1>2, <1>4, WholeTextIs
<1> HIDE DEF a
<1>8. s \in Seq(Characters) /\ Unsigned(s) = WithPoint(a, b) /\ (IsNegative(s) <=> o < 0)
  <2>1. (o < 0) \in BOOLEAN
    OBVIOUS
  <2>2. QED
    BY <1>5, <1>6, <1>7, <2>1, SignedText
<1>9. ParseFloat(s) = {Fraction(Signed(s, W * Q + B), Q)}
  BY <1>5, <1>6, <1>8, ParsedFraction
<1>10. Q \in Nat /\ B \in Nat
  <2>1. Len(b) \in Nat
    BY <1>5
  <2>2. QED
    BY <1>5, <2>1, PowerIs, HornerBelow
<1> HIDE DEF Q, B
<1>11. (W * Q + B) * P = cut * Q
  BY <1>1, <1>4, <1>5, <1>10, Crossed
<1> DEFINE x == W * Q + B
<1>12. x \in Nat /\ cut \in Nat
  BY <1>1, <1>4, <1>10, Products
<1>13. x * P = cut * Q
  BY <1>11
<1> HIDE DEF x
<1>14. Signed(s, x) = IF o < 0 THEN -x ELSE x
  BY <1>8 DEF Signed
<1>15. Signed(s, x) * P = (IF o < 0 THEN -cut ELSE cut) * Q
  <2>1. CASE o < 0
    <3>1. (-x) * P = -(x * P) /\ (-cut) * Q = -(cut * Q)
      BY <1>1, <1>10, <1>12
    <3>2. QED
      BY <1>13, <1>14, <2>1, <3>1
  <2>2. CASE ~(o < 0)
    BY <1>13, <1>14, <2>2
  <2>3. QED
    BY <2>1, <2>2
<1> DEFINE y == Signed(s, x)
           c == IF o < 0 THEN -cut ELSE cut
<1>16. y * P = c * Q
  BY <1>15
<1> HIDE DEF y, c
<1>17. SameFraction(Fraction(y, Q), Fraction(c, P))
  BY <1>16 DEF SameFraction, Fraction
<1>18. ParseFloat(s) = {Fraction(y, Q)} /\ CutTo(q, precision) = Fraction(c, P)
  BY <1>3, <1>9 DEF x, y, c
<1>19. \E p \in ParseFloat(s) : SameFraction(p, CutTo(q, precision))
  BY <1>17, <1>18
<1>20. QED
  BY <1>19 DEF s

-----------------------------------------------------------------------------

LEMMA TextIsReadBack ==
  ASSUME numeral \in Seq(Characters)
  PROVE  NumbersReadBack
<1> DEFINE t == numeral
           n == IntMeant(t)
<1>1. t \in Seq(Characters)
  OBVIOUS
<1> HIDE DEF t
<1>2. t # <<Minus>> /\ ParseInt(t) # {} => IsIntText(t) /\ InInt(n) /\ ParseInt(t) = {n}
  <2> SUFFICES ASSUME t # <<Minus>>, ParseInt(t) # {}
               PROVE  IsIntText(t) /\ InInt(n) /\ ParseInt(t) = {n}
    OBVIOUS
  <2>1. t # <<>> /\ AllDigits(Unsigned(t))
    BY <1>1, ParsedInt
  <2>2. Unsigned(t) # <<>>
    <3>1. CASE IsNegative(t)
      <4>1. t = <<Minus>> \o Unsigned(t)
        BY <1>1, <3>1, UnsignedIs
      <4>2. <<Minus>> \in Seq({Minus})
        OBVIOUS
      <4>3. <<Minus>> \o <<>> = <<Minus>>
        BY <4>2, ConcatEmptySeq
      <4>4. QED
        BY <4>1, <4>3
    <3>2. CASE ~IsNegative(t)
      BY <1>1, <2>1, <3>2, UnsignedIs
    <3>3. QED
      BY <3>1, <3>2
  <2>3. IsIntText(t)
    BY <2>1, <2>2 DEF IsIntText, IsUintText
  <2>4. QED
    BY <1>1, <2>3, ParsedInt
<1>3. ParseUint(t) # {} => IsUintText(t) /\ n <= Horner(UintMax) /\ ParseUint(t) = {n}
  BY <1>1, ParsedUint
<1>4. Canonical(t) /\ InInt(n) =>
        /\ FromInt(n) = t
        /\ Below(Unsigned(t), Farthest(n)) => ParseInt(t) = {n}
        /\ n \in -NarrowMax - 1 .. NarrowMax => ParseNarrow(t) = {n}
  BY <1>1, IntsAreReadBack
<1>5. Canonical(t) /\ n >= 0 /\ n <= Horner(UintMax) =>
        /\ FromUint(n) = t
        /\ Below(t, UintMax) => ParseUint(t) = {n}
        /\ n <= NarrowUintMax => ParseNarrowUint(t) = {n}
  BY <1>1, UintsAreReadBack
<1>6. ParseFloat(t) # {} <=> t # <<>> /\ IsFloatText(t)
  BY <1>1, FloatsAreParsed
<1>7. IsIntText(t) => ParseFloat(t) = {[over |-> n, under |-> 1]}
  <2> SUFFICES ASSUME IsIntText(t)  PROVE ParseFloat(t) = {[over |-> n, under |-> 1]}
    OBVIOUS
  <2>1. Unsigned(t) # <<>> /\ AllDigits(Unsigned(t)) /\ Unsigned(t) \in Seq(Characters)
    BY <1>1, UnsignedIs DEF IsIntText, IsUintText
  <2>2. Unsigned(t) \in Seq(Digits)
    BY <2>1, AllDigitsAre
  <2>3. t # <<>>
    <3>1. t = <<>> => Unsigned(t) = <<>>
      BY DEF Unsigned, IsNegative
    <3>2. QED
      BY <2>1, <3>1
  <2>4. ParseFloat(t) = {Fraction(Signed(t, Horner(Unsigned(t))), 1)}
    BY <1>1, <2>2, <2>3, ParsedWhole
  <2>5. QED
    BY <2>4 DEF Fraction, IntMeant
<1>8. \A q \in ParseFloat(t), precision \in 0 .. MaxPrecision :
        \E p \in ParseFloat(FromFloat(q, precision)) : SameFraction(p, CutTo(q, precision))
  <2> TAKE q \in ParseFloat(t), precision \in 0 .. MaxPrecision
  <2>1. q.over \in Int /\ q.under \in Nat \ {0}
    BY <1>1, ParsedParts
  <2>2. precision \in Nat
    BY TextAssumption
  <2>3. QED
    BY <2>1, <2>2, FloatsAreReadBack
<1>9. ParseBool(t) = {b \in BOOLEAN : t = FromBool(b)} /\ StringParseBool(t) = ParseBool(t)
  BY <1>1, BoolsAre
<1>10. /\ StringParseInt(t) = ParseInt(t) /\ StringParseUint(t) = ParseUint(t)
       /\ StringParseNarrow(t) = ParseNarrow(t) /\ StringParseNarrowUint(t) = ParseNarrowUint(t)
  BY <1>1, StringsAreParsedAlike
<1>11. StringParseFloat(t) = ParseFloat(t)
  BY DEF StringParseFloat
<1> HIDE DEF n
<1>12. t # <<Minus>> => (ParseFloat(t) # {} <=> t # <<>> /\ \E i \in 0 .. Len(Unsigned(t)) :
         LET decimals == SubSeq(Unsigned(t), i + 1, Len(Unsigned(t))) IN
         /\ AllDigits(SubSeq(Unsigned(t), 1, i))
         /\ decimals # <<>> => /\ Head(decimals) = Point /\ IsUintText(Tail(decimals)))
  BY <1>6 DEF IsFloatText
<1>13. QED
  BY <1>2, <1>3, <1>4, <1>5, <1>12, <1>7, <1>8, <1>9, <1>10, <1>11 DEF NumbersReadBack, t, n

\* Integers, fractions and bools are parsed as what they mean or not at all, and
\* read back as they were printed, whatever the base, the bounds and the texts.
THEOREM NumbersAreReadBack == NumeralInit /\ [][FALSE]_numeral => []NumbersReadBack
<1> DEFINE Text == numeral \in Seq(Characters)
<1>1. NumeralInit => Text
  BY TextAssumption DEF NumeralInit, Characters
<1>2. Text /\ [FALSE]_numeral => Text'
  OBVIOUS
<1>3. Text => NumbersReadBack
  BY TextIsReadBack
<1>4. QED
  BY <1>1, <1>2, <1>3, PTL

-----------------------------------------------------------------------------
(* Bytes and how far they lead *)

LEMMA BytesAre ==
  /\ Trail \notin Leads /\ Trail # Ascii
  /\ \A b \in Leads : CodePointSize[b] \in 1 .. 4
<1>1. Leads = {"ascii", "lead2", "lead3", "lead4"}
  BY DEF Leads, CodePointSize
<1>2. CodePointSize["ascii"] = 1 /\ CodePointSize["lead2"] = 2 /\ CodePointSize["lead3"] = 3 /\ CodePointSize["lead4"] = 4
  BY DEF CodePointSize
<1>3. \A b \in Leads : CodePointSize[b] \in 1 .. 4
  BY <1>1, <1>2
<1>4. QED
  BY <1>1, <1>3 DEF Trail, Ascii

\* Where the next code point starts when there is one at i.
Ahead(s, i) == IF s[i] \in Leads THEN i + CodePointSize[s[i]] ELSE i + 1

LEMMA AheadIs ==
  ASSUME NEW s, NEW i \in Nat
  PROVE  Ahead(s, i) \in i + 1 .. i + 4
<1>1. CASE s[i] \in Leads
  <2> DEFINE k == CodePointSize[s[i]]
  <2>1. k \in 1 .. 4 /\ Ahead(s, i) = i + k
    BY <1>1, BytesAre DEF Ahead
  <2> HIDE DEF k
  <2>2. QED
    BY <2>1
<1>2. CASE s[i] \notin Leads
  BY <1>2 DEF Ahead
<1>3. QED
  BY <1>1, <1>2

\* A leading byte with what it announces in front of the terminator.
Announced(s, i) == s[i] \in Leads /\ TrailingPass(s, i)

LEMMA AnnouncedIs ==
  ASSUME NEW s \in Seq(Bytes), NEW i \in 1 .. Len(s)
  PROVE  Announced(s, i) <=> /\ s[i] \in Leads /\ Ahead(s, i) <= Len(s) + 1
                             /\ \A j \in i + 1 .. Ahead(s, i) - 1 : HasUpperBit(s[j])
<1> DEFINE N == Len(s)
           a == Ahead(s, i)
<1>1. N \in Nat /\ DOMAIN s = 1 .. N /\ i \in Nat /\ a \in i + 1 .. i + 4
  BY AheadIs
<1>2. CASE s[i] \in Leads
  <2>1. a = i + CodePointSize[s[i]]
    BY <1>2 DEF Ahead
  <2>2. TrailingPass(s, i) <=> a <= N + 1 /\ \A j \in Rest(s, i) : HasUpperBit(s[j])
    BY <2>1 DEF TrailingPass
  <2>3. Rest(s, i) = {j \in 1 .. N : i < j /\ j < a}
    BY <1>1, <2>1 DEF Rest
  <2> HIDE DEF a, N
  <2>4. ASSUME a <= N + 1  PROVE Rest(s, i) = i + 1 .. a - 1
    BY <1>1, <2>3, <2>4
  <2>5. QED
    BY <1>2, <2>2, <2>4 DEF Announced, a, N
<1>3. CASE s[i] \notin Leads
  BY <1>3 DEF Announced
<1>4. QED
  BY <1>2, <1>3

\* The counts of StrlenConstant, from each byte on.
Counts8(s) ==
  CHOOSE from : from = [i \in 1 .. Len(s) + 1 |->
    CASE i = Len(s) + 1 -> Metadata(s, 0)
      [] i <= Len(s) /\ (s[i] \notin Leads \/ ~TrailingPass(s, i)) -> Invalid8
      [] OTHER -> LET next == from[i + CodePointSize[s[i]]] IN
                  IF next = Invalid8 THEN Invalid8 ELSE Metadata(s, next.length + 1)]

LEMMA Counts8Are ==
  ASSUME NEW s \in Seq(Bytes)
  PROVE  /\ StrlenConstant(s) = Counts8(s)[1]
         /\ Counts8(s)[Len(s) + 1] = Metadata(s, 0)
         /\ \A i \in 1 .. Len(s) : ~Announced(s, i) => Counts8(s)[i] = Invalid8
         /\ \A i \in 1 .. Len(s) : Announced(s, i) =>
              Counts8(s)[i] = IF Counts8(s)[Ahead(s, i)] = Invalid8 THEN Invalid8
                              ELSE Metadata(s, Counts8(s)[Ahead(s, i)].length + 1)
<1> DEFINE N == Len(s)
           M == N + 1
           J == [i \in 1 .. N |-> IF Announced(s, i) THEN Ahead(s, i) ELSE i + 1]
           G(i, next) == IF Announced(s, i) THEN IF next = Invalid8 THEN Invalid8 ELSE Metadata(s, next.length + 1)
                         ELSE Invalid8
           results == {Invalid8} \cup {Metadata(s, n) : n \in Nat}
           S == [i \in 1 .. N |-> [next \in results |-> G(i, next)]]
<1>1. N \in Nat /\ M \in Nat \ {0} /\ M - 1 = N
  OBVIOUS
<1>2. \A i \in 1 .. N : J[i] \in i + 1 .. M
  <2> TAKE i \in 1 .. N
  <2> DEFINE a == Ahead(s, i)
  <2>1. CASE Announced(s, i)
    <3>1. a \in i + 1 .. i + 4 /\ a <= N + 1 /\ i \in Nat
      BY <2>1, AheadIs, AnnouncedIs
    <3>2. J[i] = a
      BY <2>1
    <3> HIDE DEF a, J
    <3>3. QED
      BY <1>1, <3>1, <3>2
  <2>2. CASE ~Announced(s, i)
    <3>1. J[i] = i + 1
      BY <2>2
    <3> HIDE DEF J
    <3>2. QED
      BY <1>1, <3>1
  <2>3. QED
    BY <2>1, <2>2
<1>3. \A i \in 1 .. N : \A next \in results : S[i][next] = G(i, next)
  OBVIOUS
<1>4. \A i \in 1 .. N : \A next \in results : G(i, next) \in results
  <2> TAKE i \in 1 .. N
  <2> TAKE next \in results
  <2>1. CASE next = Invalid8 \/ ~Announced(s, i)
    BY <2>1
  <2>2. CASE next # Invalid8 /\ Announced(s, i)
    <3>1. PICK n \in Nat : next = Metadata(s, n)
      BY <2>2
    <3>2. next.length = n
      BY <3>1 DEF Metadata
    <3>3. G(i, next) = Metadata(s, n + 1) /\ n + 1 \in Nat
      BY <2>2, <3>2
    <3>4. QED
      BY <3>3
  <2>3. QED
    BY <2>1, <2>2
<1>5. Metadata(s, 0) \in results
  OBVIOUS
<1>6. \A i \in 1 .. N : J[i] = IF Announced(s, i) THEN Ahead(s, i) ELSE i + 1
  OBVIOUS
<1> HIDE DEF N, M, J, S, results
<1>7. PICK f : Descends(f, M, Metadata(s, 0), J, S)
  <2>1. \A i \in 1 .. M - 1 : J[i] \in i + 1 .. M
    BY <1>1, <1>2
  <2>2. QED
    BY <1>1, <2>1, Descending
<1>8. f = [i \in 1 .. M |-> f[i]] /\ f[M] = Metadata(s, 0) /\ \A i \in 1 .. N : f[i] = S[i][f[J[i]]]
  BY <1>1, <1>7 DEF Descends
<1> DEFINE W == {i \in 1 .. M : f[i] \in results}
<1>9. M \in W
  BY <1>1, <1>5, <1>8
<1>10. ASSUME NEW i \in 1 .. M - 1, \A j \in i + 1 .. M : j \in W  PROVE i \in W
  <2>1. i \in 1 .. N /\ i \in 1 .. M
    BY <1>1
  <2>2. J[i] \in i + 1 .. M
    BY <1>2, <2>1
  <2>3. f[J[i]] \in results
    BY <1>10, <2>2
  <2>4. f[i] = G(i, f[J[i]])
    BY <1>3, <1>8, <2>1, <2>3
  <2>5. QED
    BY <1>4, <2>1, <2>3, <2>4
<1> HIDE DEF W
<1>11. \A i \in 1 .. M : i \in W
  BY <1>1, <1>9, <1>10, FromAllAbove
<1>12. \A i \in 1 .. M : f[i] \in results
  BY <1>11 DEF W
<1>13. \A i \in 1 .. N : f[i] = G(i, f[J[i]])
  <2> TAKE i \in 1 .. N
  <2>1. J[i] \in 1 .. M
    BY <1>1, <1>2
  <2>2. f[J[i]] \in results
    BY <1>12, <2>1
  <2>3. QED
    BY <1>3, <1>8, <2>2
<1> DEFINE E(i, h) == CASE i = Len(s) + 1 -> Metadata(s, 0)
                        [] i <= Len(s) /\ (s[i] \notin Leads \/ ~TrailingPass(s, i)) -> Invalid8
                        [] OTHER -> LET next == h[i + CodePointSize[s[i]]] IN
                                    IF next = Invalid8 THEN Invalid8 ELSE Metadata(s, next.length + 1)
<1>14. \A h : E(M, h) = Metadata(s, 0)
  BY <1>1 DEF M, N
<1>15. \A i \in 1 .. N : \A h : ~Announced(s, i) => E(i, h) = Invalid8
  BY <1>1 DEF N, Announced
<1>16. \A i \in 1 .. N : \A h : Announced(s, i) => E(i, h) = G(i, h[Ahead(s, i)])
  BY <1>1 DEF N, Announced, Ahead
<1> HIDE DEF E
<1>17. \A i \in 1 .. M : f[i] = E(i, f)
  <2> TAKE i \in 1 .. M
  <2>1. CASE i = M
    BY <1>8, <1>14, <2>1
  <2>2. CASE i # M
    <3>1. i \in 1 .. N
      BY <1>1, <2>2
    <3>2. CASE Announced(s, i)
      <4>1. J[i] = Ahead(s, i)
        BY <1>6, <3>1, <3>2
      <4>2. QED
        BY <1>13, <1>16, <3>1, <3>2, <4>1
    <3>3. CASE ~Announced(s, i)
      BY <1>13, <1>15, <3>1, <3>3
    <3>4. QED
      BY <3>2, <3>3
  <2>3. QED
    BY <2>1, <2>2
<1>18. f = [i \in 1 .. M |-> E(i, f)]
  BY <1>8, <1>17
<1> DEFINE h == Counts8(s)
<1>19. h = CHOOSE from : from = [i \in 1 .. M |-> E(i, from)]
  BY DEF Counts8, E, M, N
<1>20. StrlenConstant(s) = h[1]
  BY DEF StrlenConstant, Counts8
<1> HIDE DEF h
<1>21. h = [i \in 1 .. M |-> E(i, h)]
  BY <1>18, <1>19
<1>22. \A i \in 1 .. M : h[i] = E(i, h)
  BY <1>21
<1>23. \A i \in 1 .. N : i \in 1 .. M
  BY <1>1
<1>24. \A i \in 1 .. N : ~Announced(s, i) => h[i] = Invalid8
  BY <1>15, <1>22, <1>23
<1>25. \A i \in 1 .. N : Announced(s, i) => h[i] = G(i, h[Ahead(s, i)])
  BY <1>16, <1>22, <1>23
<1>26. h[M] = Metadata(s, 0)
  <2>1. M \in 1 .. M
    BY <1>1
  <2>2. QED
    BY <1>14, <1>22, <2>1
<1>27. \A i \in 1 .. N : Announced(s, i) =>
         h[i] = IF h[Ahead(s, i)] = Invalid8 THEN Invalid8 ELSE Metadata(s, h[Ahead(s, i)].length + 1)
  BY <1>25
<1>28. QED
  BY <1>20, <1>24, <1>26, <1>27 DEF h, M, N

\* Those of Strlen.
Runs8(s) ==
  CHOOSE from : from = [i \in 1 .. Len(s) + 4 |->
    CASE i > Len(s) + 1 -> Astray
      [] i = Len(s) + 1 -> Metadata(s, 0)
      [] i <= Len(s) /\ s[i] \notin Leads -> Invalid8
      [] OTHER -> LET next == from[i + CodePointSize[s[i]]] IN
                  IF next \in {Invalid8, Astray} THEN next ELSE Metadata(s, next.length + 1)]

LEMMA Runs8Are ==
  ASSUME NEW s \in Seq(Bytes)
  PROVE  /\ Strlen(s) = Runs8(s)[1]
         /\ Runs8(s)[Len(s) + 1] = Metadata(s, 0)
         /\ \A i \in 1 .. Len(s) : s[i] \in Leads =>
              Runs8(s)[i] = IF Runs8(s)[Ahead(s, i)] \in {Invalid8, Astray} THEN Runs8(s)[Ahead(s, i)]
                            ELSE Metadata(s, Runs8(s)[Ahead(s, i)].length + 1)
<1> DEFINE N == Len(s)
           M == N + 4
           J == [i \in 1 .. N + 3 |-> IF i <= N THEN Ahead(s, i) ELSE i + 1]
           G(i, next) == IF i > N + 1 THEN Astray
                         ELSE IF i = N + 1 THEN Metadata(s, 0)
                         ELSE IF s[i] \notin Leads THEN Invalid8
                         ELSE IF next \in {Invalid8, Astray} THEN next ELSE Metadata(s, next.length + 1)
           results == {Invalid8, Astray} \cup {Metadata(s, n) : n \in Nat}
           S == [i \in 1 .. N + 3 |-> [next \in results |-> G(i, next)]]
<1>1. N \in Nat /\ M \in Nat \ {0} /\ M - 1 = N + 3
  OBVIOUS
<1>2. \A i \in 1 .. N + 3 : J[i] \in i + 1 .. M
  <2> TAKE i \in 1 .. N + 3
  <2> DEFINE a == Ahead(s, i)
  <2>1. CASE i <= N
    <3>1. i \in Nat
      OBVIOUS
    <3>2. a \in i + 1 .. i + 4
      BY <3>1, AheadIs
    <3>3. J[i] = a
      BY <2>1
    <3> HIDE DEF a, J
    <3>4. QED
      BY <1>1, <2>1, <3>2, <3>3
  <2>2. CASE ~(i <= N)
    <3>1. J[i] = i + 1
      BY <2>2
    <3> HIDE DEF J
    <3>2. QED
      BY <1>1, <3>1
  <2>3. QED
    BY <2>1, <2>2
<1>3. \A i \in 1 .. N + 3 : \A next \in results : S[i][next] = G(i, next)
  OBVIOUS
<1>4. \A i \in 1 .. N + 3 : \A next \in results : G(i, next) \in results
  <2> TAKE i \in 1 .. N + 3
  <2> TAKE next \in results
  <2>1. CASE next \in {Invalid8, Astray} \/ i > N \/ s[i] \notin Leads
    <3>1. G(i, next) \in {Invalid8, Astray, Metadata(s, 0)}
      BY <2>1, <1>1
    <3>2. QED
      BY <3>1
  <2>2. CASE next \notin {Invalid8, Astray} /\ ~(i > N) /\ s[i] \in Leads
    <3>1. PICK n \in Nat : next = Metadata(s, n)
      BY <2>2
    <3>2. next.length = n
      BY <3>1 DEF Metadata
    <3>3. ~(i > N + 1) /\ i # N + 1
      BY <1>1, <2>2
    <3>4. G(i, next) = Metadata(s, n + 1) /\ n + 1 \in Nat
      BY <2>2, <3>2, <3>3
    <3>5. QED
      BY <3>4
  <2>3. QED
    BY <2>1, <2>2
<1>5. Astray \in results
  OBVIOUS
<1>6. \A i \in 1 .. N + 3 : J[i] = IF i <= N THEN Ahead(s, i) ELSE i + 1
  OBVIOUS
<1> HIDE DEF N, M, J, S, results
<1>7. PICK f : Descends(f, M, Astray, J, S)
  <2>1. \A i \in 1 .. M - 1 : J[i] \in i + 1 .. M
    BY <1>1, <1>2
  <2>2. QED
    BY <1>1, <2>1, Descending
<1>8. f = [i \in 1 .. M |-> f[i]] /\ f[M] = Astray /\ \A i \in 1 .. N + 3 : f[i] = S[i][f[J[i]]]
  BY <1>1, <1>7 DEF Descends
<1> DEFINE W == {i \in 1 .. M : f[i] \in results}
<1>9. M \in W
  BY <1>1, <1>5, <1>8
<1>10. ASSUME NEW i \in 1 .. M - 1, \A j \in i + 1 .. M : j \in W  PROVE i \in W
  <2>1. i \in 1 .. N + 3 /\ i \in 1 .. M
    BY <1>1
  <2>2. J[i] \in i + 1 .. M
    BY <1>2, <2>1
  <2>3. f[J[i]] \in results
    BY <1>10, <2>2
  <2>4. f[i] = G(i, f[J[i]])
    BY <1>3, <1>8, <2>1, <2>3
  <2>5. QED
    BY <1>4, <2>1, <2>3, <2>4
<1> HIDE DEF W
<1>11. \A i \in 1 .. M : i \in W
  BY <1>1, <1>9, <1>10, FromAllAbove
<1>12. \A i \in 1 .. M : f[i] \in results
  BY <1>11 DEF W
<1>13. \A i \in 1 .. N + 3 : f[i] = G(i, f[J[i]])
  <2> TAKE i \in 1 .. N + 3
  <2>1. J[i] \in 1 .. M
    BY <1>1, <1>2
  <2>2. f[J[i]] \in results
    BY <1>12, <2>1
  <2>3. QED
    BY <1>3, <1>8, <2>2
<1> DEFINE E(i, h) == CASE i > Len(s) + 1 -> Astray
                        [] i = Len(s) + 1 -> Metadata(s, 0)
                        [] i <= Len(s) /\ s[i] \notin Leads -> Invalid8
                        [] OTHER -> LET next == h[i + CodePointSize[s[i]]] IN
                                    IF next \in {Invalid8, Astray} THEN next ELSE Metadata(s, next.length + 1)
<1>14. \A i \in 1 .. M : \A h : i > N + 1 => E(i, h) = Astray
  BY <1>1 DEF M, N
<1>15. \A h : E(N + 1, h) = Metadata(s, 0)
  BY <1>1 DEF N
<1>29. \A i \in 1 .. N : \A h : s[i] \notin Leads => E(i, h) = Invalid8
  BY <1>1 DEF N
<1>16. \A i \in 1 .. N : \A h : s[i] \in Leads => E(i, h) = G(i, h[Ahead(s, i)])
  <2> TAKE i \in 1 .. N
  <2> TAKE h
  <2> HAVE s[i] \in Leads
  <2>1. ~(i > N + 1) /\ i # N + 1 /\ i <= N
    BY <1>1
  <2>2. QED
    BY <2>1 DEF N, Ahead
<1>30. /\ \A i \in 1 .. M : \A next : i > N + 1 => G(i, next) = Astray
       /\ \A next : G(N + 1, next) = Metadata(s, 0)
       /\ \A i \in 1 .. N : \A next : s[i] \notin Leads => G(i, next) = Invalid8
  BY <1>1
<1>31. \A i \in 1 .. N : \A next : s[i] \in Leads =>
         G(i, next) = IF next \in {Invalid8, Astray} THEN next ELSE Metadata(s, next.length + 1)
  BY <1>1
<1> HIDE DEF E, G
<1>17. \A i \in 1 .. M : f[i] = E(i, f)
  <2> TAKE i \in 1 .. M
  <2>1. CASE i = M
    <3>1. M \in 1 .. M /\ M > N + 1
      BY <1>1 DEF M
    <3>2. QED
      BY <1>8, <1>14, <2>1, <3>1
  <2>2. CASE i # M
    <3>1. i \in 1 .. N + 3
      BY <1>1, <2>2
    <3>2. CASE i > N + 1
      BY <1>13, <1>14, <1>30, <3>1, <3>2
    <3>3. CASE i = N + 1
      BY <1>13, <1>15, <1>30, <3>1, <3>3
    <3>4. CASE i <= N
      <4>1. i \in 1 .. N
        BY <1>1, <3>1, <3>4
      <4>2. J[i] = Ahead(s, i)
        BY <1>6, <3>1, <3>4
      <4>3. CASE s[i] \in Leads
        BY <1>13, <1>16, <3>1, <4>1, <4>2, <4>3
      <4>4. CASE s[i] \notin Leads
        BY <1>13, <1>29, <1>30, <3>1, <4>1, <4>4
      <4>5. QED
        BY <4>3, <4>4
    <3>5. QED
      BY <1>1, <3>1, <3>2, <3>3, <3>4
  <2>3. QED
    BY <2>1, <2>2
<1>18. f = [i \in 1 .. M |-> E(i, f)]
  BY <1>8, <1>17
<1> DEFINE h == Runs8(s)
<1>19. h = CHOOSE from : from = [i \in 1 .. M |-> E(i, from)]
  BY DEF Runs8, E, M, N
<1>20. Strlen(s) = h[1]
  BY DEF Strlen, Runs8
<1> HIDE DEF h
<1>21. h = [i \in 1 .. M |-> E(i, h)]
  BY <1>18, <1>19
<1>22. \A i \in 1 .. M : h[i] = E(i, h)
  BY <1>21
<1>23. N + 1 \in 1 .. M /\ \A i \in 1 .. N : i \in 1 .. M
  BY <1>1 DEF M
<1>24. h[N + 1] = Metadata(s, 0)
  BY <1>15, <1>22, <1>23
<1>25. \A i \in 1 .. N : s[i] \in Leads => h[i] = G(i, h[Ahead(s, i)])
  BY <1>16, <1>22, <1>23
<1>26. \A i \in 1 .. N : s[i] \in Leads =>
         h[i] = IF h[Ahead(s, i)] \in {Invalid8, Astray} THEN h[Ahead(s, i)]
                ELSE Metadata(s, h[Ahead(s, i)].length + 1)
  BY <1>25, <1>31
<1>27. QED
  BY <1>20, <1>24, <1>26 DEF h, N

\* The bytes that the one at i announces pass the test, which those behind the
\* buffer do or not.
Followed(s, past, i) ==
  s[i] \in Leads /\ \A k \in 1 .. CodePointSize[s[i]] - 1 : IF i + k > Len(s) THEN past ELSE HasUpperBit(s[i + k])

\* What IsValidUtf8 has found of the bytes from each one on.
Valid8(s, past) ==
  CHOOSE from : from = [i \in 1 .. Len(s) + 4 |->
    \/ i > Len(s)
    \/ /\ s[i] \in Leads
       /\ \A k \in 1 .. CodePointSize[s[i]] - 1 : IF i + k > Len(s) THEN past ELSE HasUpperBit(s[i + k])
       /\ from[i + CodePointSize[s[i]]]]

LEMMA Valid8Is ==
  ASSUME NEW s \in Seq(Bytes), NEW past \in BOOLEAN
  PROVE  /\ IsValidUtf8(s, past) <=> Valid8(s, past)[1]
         /\ \A i \in 1 .. Len(s) + 4 : i > Len(s) => Valid8(s, past)[i]
         /\ \A i \in 1 .. Len(s) : Valid8(s, past)[i] <=> Followed(s, past, i) /\ Valid8(s, past)[Ahead(s, i)]
<1> DEFINE N == Len(s)
           M == N + 4
           J == [i \in 1 .. N + 3 |-> IF i <= N THEN Ahead(s, i) ELSE i + 1]
           G(i, next) == IF i > N THEN TRUE ELSE Followed(s, past, i) /\ next
           S == [i \in 1 .. N + 3 |-> [next \in BOOLEAN |-> G(i, next)]]
<1>1. N \in Nat /\ M \in Nat \ {0} /\ M - 1 = N + 3
  OBVIOUS
<1>2. \A i \in 1 .. N + 3 : J[i] \in i + 1 .. M
  <2> TAKE i \in 1 .. N + 3
  <2> DEFINE a == Ahead(s, i)
  <2>1. CASE i <= N
    <3>1. i \in Nat
      OBVIOUS
    <3>2. a \in i + 1 .. i + 4
      BY <3>1, AheadIs
    <3>3. J[i] = a
      BY <2>1
    <3> HIDE DEF a, J
    <3>4. QED
      BY <1>1, <2>1, <3>2, <3>3
  <2>2. CASE ~(i <= N)
    <3>1. J[i] = i + 1
      BY <2>2
    <3> HIDE DEF J
    <3>2. QED
      BY <1>1, <3>1
  <2>3. QED
    BY <2>1, <2>2
<1>3. \A i \in 1 .. N + 3 : \A next \in BOOLEAN : S[i][next] = G(i, next)
  BY Zenon
<1>4. \A i \in 1 .. N + 3 : \A next \in BOOLEAN : G(i, next) \in BOOLEAN
  BY DEF Followed
<1>6. \A i \in 1 .. N + 3 : J[i] = IF i <= N THEN Ahead(s, i) ELSE i + 1
  OBVIOUS
<1> HIDE DEF N, M, J, S, G
<1>7. PICK f : Descends(f, M, TRUE, J, S)
  <2>1. \A i \in 1 .. M - 1 : J[i] \in i + 1 .. M
    BY <1>1, <1>2
  <2>2. QED
    BY <1>1, <2>1, Descending
<1>8. f = [i \in 1 .. M |-> f[i]] /\ f[M] = TRUE /\ \A i \in 1 .. N + 3 : f[i] = S[i][f[J[i]]]
  BY <1>1, <1>7 DEF Descends
<1> DEFINE W == {i \in 1 .. M : f[i] \in BOOLEAN}
<1>9. M \in W
  <2>1. f[M] \in BOOLEAN
    BY <1>8
  <2>2. M \in 1 .. M
    BY <1>1
  <2>3. QED
    BY <2>1, <2>2
<1>10. ASSUME NEW i \in 1 .. M - 1, \A j \in i + 1 .. M : j \in W  PROVE i \in W
  <2>1. i \in 1 .. N + 3 /\ i \in 1 .. M
    BY <1>1
  <2>2. J[i] \in i + 1 .. M
    BY <1>2, <2>1
  <2>3. f[J[i]] \in BOOLEAN
    BY <1>10, <2>2
  <2>4. f[i] = G(i, f[J[i]])
    BY <1>3, <1>8, <2>1, <2>3
  <2>5. G(i, f[J[i]]) \in BOOLEAN
    BY <1>4, <2>1, <2>3
  <2>6. QED
    BY <2>1, <2>4, <2>5
<1> HIDE DEF W
<1>11. \A i \in 1 .. M : i \in W
  BY <1>1, <1>9, <1>10, FromAllAbove
<1>12. \A i \in 1 .. M : f[i] \in BOOLEAN
  BY <1>11 DEF W
<1>13. \A i \in 1 .. N + 3 : f[i] = G(i, f[J[i]])
  <2> TAKE i \in 1 .. N + 3
  <2>1. J[i] \in 1 .. M
    BY <1>1, <1>2
  <2>2. f[J[i]] \in BOOLEAN
    BY <1>12, <2>1
  <2>3. QED
    BY <1>3, <1>8, <2>2
<1> DEFINE E(i, h) == \/ i > Len(s)
                      \/ /\ s[i] \in Leads
                         /\ \A k \in 1 .. CodePointSize[s[i]] - 1 :
                              IF i + k > Len(s) THEN past ELSE HasUpperBit(s[i + k])
                         /\ h[i + CodePointSize[s[i]]]
<1>14. \A i \in 1 .. M : \A h : i > N => (E(i, h) <=> TRUE) /\ E(i, h) \in BOOLEAN
  BY DEF N
<1>15. ASSUME NEW i \in 1 .. N, NEW h  PROVE E(i, h) <=> Followed(s, past, i) /\ h[Ahead(s, i)]
  <2>1. ~(i > Len(s))
    BY <1>1 DEF N
  <2>2. CASE s[i] \in Leads
    <3>1. Ahead(s, i) = i + CodePointSize[s[i]]
      BY <2>2 DEF Ahead
    <3>2. QED
      BY <2>1, <2>2, <3>1, Zenon DEF Followed
  <2>3. CASE s[i] \notin Leads
    BY <2>1, <2>3 DEF Followed
  <2>4. QED
    BY <2>2, <2>3
<1>16. \A i \in 1 .. M : \A h : E(i, h) \in BOOLEAN
  OBVIOUS
<1>30. /\ \A i \in 1 .. M : \A next : i > N => G(i, next) = TRUE
       /\ \A i \in 1 .. N : \A next \in BOOLEAN : G(i, next) <=> Followed(s, past, i) /\ next
  BY <1>1 DEF G
<1> HIDE DEF E
<1>17. \A i \in 1 .. M : f[i] = E(i, f)
  <2> TAKE i \in 1 .. M
  <2>1. CASE i = M
    <3>1. M > N
      BY <1>1 DEF M
    <3>2. E(i, f) = TRUE
      BY <1>14, <2>1, <3>1
    <3>3. QED
      BY <1>8, <2>1, <3>2
  <2>2. CASE i # M
    <3>1. i \in 1 .. N + 3
      BY <1>1, <2>2
    <3>2. CASE i > N
      <4>1. E(i, f) = TRUE
        BY <1>14, <3>2
      <4>2. f[i] = TRUE
        BY <1>13, <1>30, <3>1, <3>2
      <4>3. QED
        BY <4>1, <4>2
    <3>3. CASE i <= N
      <4>1. i \in 1 .. N
        BY <1>1, <3>1, <3>3
      <4>2. J[i] = Ahead(s, i) /\ J[i] \in 1 .. M
        BY <1>1, <1>2, <1>6, <3>1, <3>3
      <4>3. f[i] = G(i, f[Ahead(s, i)]) /\ f[Ahead(s, i)] \in BOOLEAN
        BY <1>12, <1>13, <3>1, <4>2
      <4>4. G(i, f[Ahead(s, i)]) <=> Followed(s, past, i) /\ f[Ahead(s, i)]
        BY <1>30, <4>1, <4>3
      <4>5. f[i] <=> E(i, f)
        BY <1>15, <4>1, <4>3, <4>4
      <4>6. f[i] \in BOOLEAN /\ E(i, f) \in BOOLEAN
        BY <1>12, <1>16
      <4>7. QED
        BY <4>5, <4>6
    <3>4. QED
      BY <1>1, <3>1, <3>2, <3>3
  <2>3. QED
    BY <2>1, <2>2
<1>18. f = [i \in 1 .. M |-> E(i, f)]
  BY <1>8, <1>17
<1> DEFINE h == Valid8(s, past)
<1>19. h = CHOOSE from : from = [i \in 1 .. M |-> E(i, from)]
  BY DEF Valid8, E, M, N
<1>20. IsValidUtf8(s, past) <=> h[1]
  BY DEF IsValidUtf8, Valid8
<1> HIDE DEF h
<1>21. h = [i \in 1 .. M |-> E(i, h)]
  BY <1>18, <1>19
<1>22. \A i \in 1 .. M : h[i] = E(i, h)
  BY <1>21
<1>23. \A i \in 1 .. N : i \in 1 .. M
  BY <1>1 DEF M
<1>24. \A i \in 1 .. M : i > N => h[i]
  BY <1>14, <1>22
<1>25. \A i \in 1 .. N : h[i] <=> Followed(s, past, i) /\ h[Ahead(s, i)]
  BY <1>15, <1>22, <1>23
<1>26. QED
  BY <1>20, <1>24, <1>25 DEF h, M, N

-----------------------------------------------------------------------------
(* The counts agree *)

\* What is counted is a length with the whole size.
LEMMA Counts8Type ==
  ASSUME NEW s \in Seq(Bytes)
  PROVE  \A i \in 1 .. Len(s) + 1 : Counts8(s)[i] # Invalid8 => \E n \in Nat : Counts8(s)[i] = Metadata(s, n)
<1> DEFINE N == Len(s)
           M == N + 1
           C == Counts8(s)
           W == {i \in 1 .. M : C[i] # Invalid8 => \E n \in Nat : C[i] = Metadata(s, n)}
<1>1. N \in Nat /\ M \in Nat
  OBVIOUS
<1>2. C[N + 1] = Metadata(s, 0) /\ (\A i \in 1 .. N : ~Announced(s, i) => C[i] = Invalid8)
  BY Counts8Are
<1>3. \A i \in 1 .. N : Announced(s, i) =>
        C[i] = IF C[Ahead(s, i)] = Invalid8 THEN Invalid8 ELSE Metadata(s, C[Ahead(s, i)].length + 1)
  BY Counts8Are
<1>4. \A n : Metadata(s, n).length = n
  BY DEF Metadata
<1>5. \A i \in 1 .. N : Announced(s, i) => Ahead(s, i) \in i + 1 .. M
  <2> TAKE i \in 1 .. N
  <2> HAVE Announced(s, i)
  <2> DEFINE a == Ahead(s, i)
  <2>1. a \in i + 1 .. i + 4 /\ a <= N + 1
    BY AheadIs, AnnouncedIs
  <2> HIDE DEF a
  <2>2. QED
    BY <1>1, <2>1 DEF a
<1> HIDE DEF C, N
<1>6. M \in W
  BY <1>1, <1>2
<1>7. ASSUME NEW i \in 1 .. M - 1, \A j \in i + 1 .. M : j \in W  PROVE i \in W
  <2>1. i \in 1 .. N /\ i \in 1 .. M
    BY <1>1
  <2>2. CASE ~Announced(s, i)
    BY <1>2, <2>1, <2>2
  <2>3. CASE Announced(s, i)
    <3> DEFINE next == C[Ahead(s, i)]
    <3>1. next # Invalid8 => \E n \in Nat : next = Metadata(s, n)
      BY <1>5, <1>7, <2>1, <2>3
    <3>2. C[i] = IF next = Invalid8 THEN Invalid8 ELSE Metadata(s, next.length + 1)
      BY <1>3, <2>1, <2>3
    <3> HIDE DEF next
    <3>3. QED
      BY <1>4, <2>1, <3>1, <3>2
  <2>4. QED
    BY <2>2, <2>3
<1> HIDE DEF W
<1>8. \A i \in 1 .. M : i \in W
  BY <1>1, <1>6, <1>7, FromAllAbove
<1>9. QED
  BY <1>8 DEF W, C, N

\* Lengths with a size are not what stands for the errors.
LEMMA MetadataIs ==
  ASSUME NEW s \in Seq(Bytes), NEW n \in Nat
  PROVE  /\ Metadata(s, n) # Invalid8 /\ Metadata(s, n).length = n
         /\ s # <<>> => Metadata(s, n) # Astray
<1>1. Metadata(s, n).totalBytes = Len(s) + 1 /\ Metadata(s, n).length = n /\ Len(s) \in Nat
  BY DEF Metadata
<1>2. Invalid8.totalBytes = 0 /\ Astray.totalBytes = 1
  BY DEF Invalid8, Astray
<1>3. s # <<>> => Len(s) # 0
  OBVIOUS
<1>4. Len(s) + 1 # 0 /\ (Len(s) # 0 => Len(s) + 1 # 1)
  BY <1>1
<1>5. QED
  BY <1>1, <1>2, <1>3, <1>4

\* What is counted at compile time is counted alike at run time.
LEMMA CountedAlike ==
  ASSUME NEW s \in Seq(Bytes), StrlenConstant(s) # Invalid8
  PROVE  Strlen(s) = StrlenConstant(s)
<1> DEFINE N == Len(s)
           M == N + 1
           C == Counts8(s)
           R == Runs8(s)
           W == {i \in 1 .. M : C[i] # Invalid8 => R[i] = C[i]}
<1>1. N \in Nat /\ M \in Nat
  OBVIOUS
<1>2. C[N + 1] = Metadata(s, 0) /\ (\A i \in 1 .. N : ~Announced(s, i) => C[i] = Invalid8)
  BY Counts8Are
<1>3. \A i \in 1 .. N : Announced(s, i) =>
        C[i] = IF C[Ahead(s, i)] = Invalid8 THEN Invalid8 ELSE Metadata(s, C[Ahead(s, i)].length + 1)
  BY Counts8Are
<1>4. R[N + 1] = Metadata(s, 0)
  BY Runs8Are
<1>5. \A i \in 1 .. N : s[i] \in Leads =>
        R[i] = IF R[Ahead(s, i)] \in {Invalid8, Astray} THEN R[Ahead(s, i)]
               ELSE Metadata(s, R[Ahead(s, i)].length + 1)
  BY Runs8Are
<1>6. \A i \in 1 .. N : Announced(s, i) => Ahead(s, i) \in i + 1 .. M /\ Ahead(s, i) \in 1 .. M /\ s[i] \in Leads
  <2> TAKE i \in 1 .. N
  <2> HAVE Announced(s, i)
  <2> DEFINE a == Ahead(s, i)
  <2>1. a \in i + 1 .. i + 4 /\ a <= N + 1
    BY AheadIs, AnnouncedIs
  <2>3. s[i] \in Leads
    BY DEF Announced
  <2> HIDE DEF a
  <2>2. QED
    BY <1>1, <2>1, <2>3 DEF a
<1>7. \A i \in 1 .. M : C[i] # Invalid8 => \E n \in Nat : C[i] = Metadata(s, n)
  BY Counts8Type
<1>8. \A i \in 1 .. N : s # <<>>
  OBVIOUS
<1>9. StrlenConstant(s) = C[1] /\ Strlen(s) = R[1]
  BY Counts8Are, Runs8Are
<1> HIDE DEF C, R, N
<1>10. M \in W
  BY <1>1, <1>2, <1>4
<1>11. ASSUME NEW i \in 1 .. M - 1, \A j \in i + 1 .. M : j \in W  PROVE i \in W
  <2>1. i \in 1 .. N /\ i \in 1 .. M
    BY <1>1
  <2>2. CASE ~Announced(s, i)
    BY <1>2, <2>1, <2>2
  <2>3. CASE Announced(s, i)
    <3> DEFINE a == Ahead(s, i)
    <3>1. a \in i + 1 .. M /\ a \in 1 .. M /\ s[i] \in Leads
      BY <1>6, <2>1, <2>3
    <3>2. C[i] = IF C[a] = Invalid8 THEN Invalid8 ELSE Metadata(s, C[a].length + 1)
      BY <1>3, <2>1, <2>3
    <3>3. R[i] = IF R[a] \in {Invalid8, Astray} THEN R[a] ELSE Metadata(s, R[a].length + 1)
      BY <1>5, <2>1, <3>1
    <3> HIDE DEF a
    <3>4. CASE C[a] = Invalid8
      BY <2>1, <3>2, <3>4
    <3>5. CASE C[a] # Invalid8
      <4>1. R[a] = C[a]
        BY <1>11, <3>1, <3>5
      <4>2. PICK n \in Nat : C[a] = Metadata(s, n)
        BY <1>7, <3>1, <3>5
      <4>3. R[a] \notin {Invalid8, Astray}
        BY <1>8, <2>1, <4>1, <4>2, MetadataIs
      <4>4. QED
        BY <2>1, <3>2, <3>3, <3>5, <4>1, <4>3
    <3>6. QED
      BY <3>4, <3>5
  <2>4. QED
    BY <2>2, <2>3
<1> HIDE DEF W
<1>12. \A i \in 1 .. M : i \in W
  BY <1>1, <1>10, <1>11, FromAllAbove
<1>13. 1 \in W
  BY <1>1, <1>12
<1>14. C[1] # Invalid8 => R[1] = C[1]
  BY <1>13 DEF W
<1>15. QED
  BY <1>9, <1>14

\* In front of a terminator a byte is followed by what it announces, or not.
LEMMA FollowedIs ==
  ASSUME NEW s \in Seq(Bytes), NEW i \in 1 .. Len(s)
  PROVE  /\ Followed(s, FALSE, i) <=> Announced(s, i)
         /\ \A past \in BOOLEAN : Announced(s, i) => Followed(s, past, i)
<1> DEFINE N == Len(s)
           k == CodePointSize[s[i]]
           a == i + k
<1>1. N \in Nat /\ i \in 1 .. N
  OBVIOUS
<1>2. CASE s[i] \in Leads
  <2>1. k \in 1 .. 4 /\ Ahead(s, i) = a
    BY <1>2, BytesAre DEF Ahead
  <2>2. Announced(s, i) <=> a <= N + 1 /\ \A j \in i + 1 .. a - 1 : HasUpperBit(s[j])
    BY <1>2, <2>1, AnnouncedIs
  <2>3. \A past : Followed(s, past, i) <=> \A m \in 1 .. k - 1 : IF i + m > N THEN past ELSE HasUpperBit(s[i + m])
    BY <1>2 DEF Followed
  <2> HIDE DEF N, k
  <2>4. ASSUME a <= N + 1, \A j \in i + 1 .. a - 1 : HasUpperBit(s[j]), NEW past \in BOOLEAN
        PROVE  \A m \in 1 .. k - 1 : IF i + m > N THEN past ELSE HasUpperBit(s[i + m])
    <3> TAKE m \in 1 .. k - 1
    <3>1. ~(i + m > N) /\ i + m \in i + 1 .. a - 1
      BY <1>1, <2>1, <2>4
    <3>2. QED
      BY <2>4, <3>1
  <2>5. ASSUME \A m \in 1 .. k - 1 : IF i + m > N THEN FALSE ELSE HasUpperBit(s[i + m])
        PROVE  a <= N + 1 /\ \A j \in i + 1 .. a - 1 : HasUpperBit(s[j])
    <3>1. a <= N + 1
      <4>1. CASE k = 1
        BY <1>1, <4>1
      <4>2. CASE k # 1
        <5>1. k - 1 \in 1 .. k - 1
          BY <2>1, <4>2
        <5>2. ~(i + (k - 1) > N)
          BY <2>5, <5>1
        <5>3. QED
          BY <1>1, <2>1, <5>2
      <4>3. QED
        BY <4>1, <4>2
    <3>2. ASSUME NEW j \in i + 1 .. a - 1  PROVE HasUpperBit(s[j])
      <4>1. j - i \in 1 .. k - 1 /\ i + (j - i) = j /\ ~(j > N)
        BY <1>1, <2>1, <3>1
      <4>2. IF i + (j - i) > N THEN FALSE ELSE HasUpperBit(s[i + (j - i)])
        BY <2>5, <4>1
      <4>3. QED
        BY <4>1, <4>2
    <3>3. QED
      BY <3>1, <3>2
  <2>6. FALSE \in BOOLEAN
    OBVIOUS
  <2> HIDE DEF a
  <2>7. Announced(s, i) => \A past \in BOOLEAN : Followed(s, past, i)
    BY <2>2, <2>3, <2>4
  <2>8. Followed(s, FALSE, i) => Announced(s, i)
    BY <2>2, <2>3, <2>5
  <2>9. QED
    BY <2>6, <2>7, <2>8
<1>3. CASE s[i] \notin Leads
  BY <1>3 DEF Announced, Followed
<1>4. QED
  BY <1>2, <1>3

\* What is counted at compile time is what is valid in front of a terminator,
\* and that is valid whatever is behind it.
LEMMA CountedIsValid ==
  ASSUME NEW s \in Seq(Bytes)
  PROVE  /\ StrlenConstant(s) # Invalid8 <=> IsValidUtf8(s, FALSE)
         /\ \A past \in BOOLEAN : IsValidUtf8(s, FALSE) => IsValidUtf8(s, past)
<1> DEFINE N == Len(s)
           M == N + 1
           C == Counts8(s)
           V(past) == Valid8(s, past)
<1>1. N \in Nat /\ M \in Nat /\ FALSE \in BOOLEAN
  OBVIOUS
<1>2. C[N + 1] = Metadata(s, 0) /\ (\A i \in 1 .. N : ~Announced(s, i) => C[i] = Invalid8)
  BY Counts8Are
<1>3. \A i \in 1 .. N : Announced(s, i) =>
        C[i] = IF C[Ahead(s, i)] = Invalid8 THEN Invalid8 ELSE Metadata(s, C[Ahead(s, i)].length + 1)
  BY Counts8Are
<1>4. \A past \in BOOLEAN : V(past)[N + 1]
  <2> TAKE past \in BOOLEAN
  <2>1. N + 1 \in 1 .. Len(s) + 4 /\ N + 1 > Len(s)
    OBVIOUS
  <2>2. QED
    BY <2>1, Valid8Is
<1>5. \A past \in BOOLEAN : \A i \in 1 .. N : V(past)[i] <=> Followed(s, past, i) /\ V(past)[Ahead(s, i)]
  BY Valid8Is
<1>6. \A i \in 1 .. N : Announced(s, i) => Ahead(s, i) \in i + 1 .. M /\ Ahead(s, i) \in 1 .. M
  <2> TAKE i \in 1 .. N
  <2> HAVE Announced(s, i)
  <2> DEFINE a == Ahead(s, i)
  <2>1. a \in i + 1 .. i + 4 /\ a <= N + 1
    BY AheadIs, AnnouncedIs
  <2> HIDE DEF a
  <2>2. QED
    BY <1>1, <2>1 DEF a
<1>7. \A i \in 1 .. M : C[i] # Invalid8 => \E n \in Nat : C[i] = Metadata(s, n)
  BY Counts8Type
<1>8. \A i \in 1 .. N : (Followed(s, FALSE, i) <=> Announced(s, i))
                        /\ \A past \in BOOLEAN : Announced(s, i) => Followed(s, past, i)
  BY FollowedIs
<1>9. StrlenConstant(s) = C[1] /\ \A past \in BOOLEAN : IsValidUtf8(s, past) <=> V(past)[1]
  BY Counts8Are, Valid8Is
<1>10. \A n \in Nat : Metadata(s, n) # Invalid8 /\ Metadata(s, n).length = n /\ n + 1 \in Nat
  BY MetadataIs
<1> HIDE DEF C, V, N
<1>11. C[1] # Invalid8 <=> V(FALSE)[1]
  <2> DEFINE W == {i \in 1 .. M : C[i] # Invalid8 <=> V(FALSE)[i]}
  <2>1. M \in W
    <3>1. C[M] # Invalid8
      BY <1>1, <1>2, <1>10
    <3>2. V(FALSE)[M]
      BY <1>1, <1>4
    <3>3. M \in 1 .. M
      BY <1>1
    <3>4. QED
      BY <3>1, <3>2, <3>3
  <2>2. ASSUME NEW i \in 1 .. M - 1, \A j \in i + 1 .. M : j \in W  PROVE i \in W
    <3>1. i \in 1 .. N /\ i \in 1 .. M
      BY <1>1
    <3>2. V(FALSE)[i] <=> Announced(s, i) /\ V(FALSE)[Ahead(s, i)]
      BY <1>1, <1>5, <1>8, <3>1
    <3>3. CASE ~Announced(s, i)
      BY <1>2, <3>1, <3>2, <3>3
    <3>4. CASE Announced(s, i)
      <4> DEFINE next == C[Ahead(s, i)]
      <4>1. next # Invalid8 <=> V(FALSE)[Ahead(s, i)]
        BY <1>6, <2>2, <3>1, <3>4
      <4>2. C[i] = IF next = Invalid8 THEN Invalid8 ELSE Metadata(s, next.length + 1)
        BY <1>3, <3>1, <3>4
      <4>3. next # Invalid8 => \E n \in Nat : next = Metadata(s, n)
        BY <1>6, <1>7, <3>1, <3>4
      <4> HIDE DEF next
      <4>4. C[i] # Invalid8 <=> next # Invalid8
        BY <1>10, <4>2, <4>3
      <4>5. QED
        BY <3>1, <3>2, <3>4, <4>1, <4>4
    <3>5. QED
      BY <3>3, <3>4
  <2> HIDE DEF W
  <2>3. \A i \in 1 .. M : i \in W
    BY <1>1, <2>1, <2>2, FromAllAbove
  <2>4. 1 \in W
    BY <1>1, <2>3
  <2>5. QED
    BY <2>4 DEF W
<1>12. ASSUME NEW past \in BOOLEAN  PROVE V(FALSE)[1] => V(past)[1]
  <2> DEFINE W == {i \in 1 .. M : V(FALSE)[i] => V(past)[i]}
  <2>1. M \in W
    <3>1. V(past)[M] /\ M \in 1 .. M
      BY <1>1, <1>4
    <3>2. QED
      BY <3>1
  <2>2. ASSUME NEW i \in 1 .. M - 1, \A j \in i + 1 .. M : j \in W  PROVE i \in W
    <3>1. i \in 1 .. N /\ i \in 1 .. M
      BY <1>1
    <3>2. V(FALSE)[i] => Announced(s, i) /\ V(FALSE)[Ahead(s, i)]
      BY <1>1, <1>5, <1>8, <3>1
    <3>3. Announced(s, i) => (V(FALSE)[Ahead(s, i)] => V(past)[Ahead(s, i)])
      BY <1>6, <2>2, <3>1
    <3>4. Announced(s, i) /\ V(past)[Ahead(s, i)] => V(past)[i]
      BY <1>5, <1>8, <3>1
    <3>5. QED
      BY <3>1, <3>2, <3>3, <3>4
  <2> HIDE DEF W
  <2>3. \A i \in 1 .. M : i \in W
    BY <1>1, <2>1, <2>2, FromAllAbove
  <2>4. 1 \in W
    BY <1>1, <2>3
  <2>5. QED
    BY <2>4 DEF W
<1>13. StrlenConstant(s) # Invalid8 <=> IsValidUtf8(s, FALSE)
  BY <1>1, <1>9, <1>11
<1>14. \A past \in BOOLEAN : IsValidUtf8(s, FALSE) => IsValidUtf8(s, past)
  BY <1>1, <1>9, <1>12
<1>15. QED
  BY <1>13, <1>14

-----------------------------------------------------------------------------
(* Well formed texts *)

\* The leading bytes from i on.
LeadsFrom(s, i) == {j \in DOMAIN s : s[j] \in Leads /\ i <= j}

LEMMA LeadsFromAre ==
  ASSUME NEW s \in Seq(Bytes), NEW i \in 1 .. Len(s), NEW a \in i + 1 .. Len(s) + 1,
         s[i] \in Leads, \A j \in i + 1 .. a - 1 : s[j] \notin Leads
  PROVE  Cardinality(LeadsFrom(s, i)) = Cardinality(LeadsFrom(s, a)) + 1
<1> DEFINE N == Len(s)
<1>1. N \in Nat /\ DOMAIN s = 1 .. N
  OBVIOUS
<1>2. LeadsFrom(s, i) = {j \in 1 .. N : s[j] \in Leads /\ i <= j}
  BY DEF LeadsFrom
<1>3. LeadsFrom(s, a) = {j \in 1 .. N : s[j] \in Leads /\ a <= j}
  BY DEF LeadsFrom
<1> HIDE DEF N
<1>4. LeadsFrom(s, i) = LeadsFrom(s, a) \cup {i}
  <2>1. ASSUME NEW j \in LeadsFrom(s, i), j # i  PROVE j \in LeadsFrom(s, a)
    <3>1. j \in 1 .. N /\ s[j] \in Leads /\ i + 1 <= j
      BY <1>1, <1>2, <2>1
    <3>2. ~(j \in i + 1 .. a - 1)
      BY <3>1
    <3>3. a <= j
      BY <1>1, <3>1, <3>2
    <3>4. QED
      BY <1>3, <3>1, <3>3
  <2>2. ASSUME NEW j \in LeadsFrom(s, a)  PROVE j \in LeadsFrom(s, i)
    <3>1. j \in 1 .. N /\ s[j] \in Leads /\ a <= j
      BY <1>3
    <3>2. i <= j
      BY <1>1, <3>1
    <3>3. QED
      BY <1>2, <3>1, <3>2
  <2>3. i \in LeadsFrom(s, i)
    <3>1. i \in 1 .. N /\ i <= i
      BY DEF N
    <3>2. QED
      BY <1>2, <3>1
  <2>4. QED
    BY <2>1, <2>2, <2>3
<1>5. i \notin LeadsFrom(s, a)
  <2>1. ~(a <= i)
    BY <1>1 DEF N
  <2>2. QED
    BY <1>3, <2>1
<1>6. IsFiniteSet(1 .. N)
  BY <1>1, FS_Interval
<1>7. LeadsFrom(s, a) \subseteq 1 .. N
  BY <1>3
<1>8. IsFiniteSet(LeadsFrom(s, a))
  BY <1>6, <1>7, FS_Subset
<1>9. QED
  BY <1>4, <1>5, <1>8, FS_AddElement

\* Of a well formed text each leading byte has what it announces, no byte of
\* which is a leading one, and behind them comes a leading byte or the end.
LEMMA WellFormedIs ==
  ASSUME NEW s \in Seq(Bytes), WellFormed(s)
  PROVE  /\ s # <<>> => s[1] \in Leads
         /\ \A i \in 1 .. Len(s) : s[i] \in Leads =>
              /\ Announced(s, i)
              /\ \A j \in i + 1 .. Ahead(s, i) - 1 : s[j] \notin Leads
              /\ Ahead(s, i) = Len(s) + 1 \/ (Ahead(s, i) \in 1 .. Len(s) /\ s[Ahead(s, i)] \in Leads)
<1> DEFINE N == Len(s)
<1>1. N \in Nat /\ DOMAIN s = 1 .. N
  OBVIOUS
<1>2. \A i \in 1 .. N : s[i] \in Leads => Ahead(s, i) <= N + 1 /\ \A j \in Rest(s, i) : s[j] = Trail
  BY DEF WellFormed, Ahead
<1>3. \A j \in 1 .. N : s[j] \notin Leads => \E i \in 1 .. N : s[i] \in Leads /\ j \in Rest(s, i)
  BY DEF WellFormed
<1>4. \A i, j \in 1 .. N : s[i] \in Leads => (j \in Rest(s, i) <=> i < j /\ j < Ahead(s, i))
  BY DEF Rest, Ahead
<1>5. \A i \in 1 .. N : Ahead(s, i) \in i + 1 .. i + 4
  <2> TAKE i \in 1 .. N
  <2>1. i \in Nat
    OBVIOUS
  <2>2. QED
    BY <2>1, AheadIs
<1>6. ASSUME NEW i \in 1 .. N, s[i] \in Leads, NEW j \in i + 1 .. Ahead(s, i) - 1
      PROVE  j \in 1 .. N /\ s[j] = Trail
  <2> DEFINE a == Ahead(s, i)
  <2>1. a \in i + 1 .. i + 4 /\ a <= N + 1 /\ j \in i + 1 .. a - 1
    BY <1>2, <1>5, <1>6
  <2> HIDE DEF a
  <2>2. j \in 1 .. N /\ i < j /\ j < a
    BY <1>1, <2>1
  <2>3. j \in Rest(s, i)
    BY <1>4, <1>6, <2>2 DEF a
  <2>4. QED
    BY <1>2, <1>6, <2>2, <2>3
<1>7. Trail \notin Leads /\ Trail # Ascii
  BY BytesAre
<1>8. ASSUME NEW i \in 1 .. N, s[i] \in Leads  PROVE Announced(s, i)
  <2>1. \A j \in i + 1 .. Ahead(s, i) - 1 : HasUpperBit(s[j])
    BY <1>6, <1>7, <1>8 DEF HasUpperBit
  <2>2. QED
    BY <1>2, <1>8, <2>1, AnnouncedIs
<1>9. ASSUME NEW i \in 1 .. N, s[i] \in Leads, Ahead(s, i) # N + 1
      PROVE  Ahead(s, i) \in 1 .. N /\ s[Ahead(s, i)] \in Leads
  <2> DEFINE a == Ahead(s, i)
  <2>1. a \in i + 1 .. i + 4 /\ a <= N + 1 /\ a # N + 1
    BY <1>2, <1>5, <1>9
  <2> HIDE DEF a
  <2>2. a \in 1 .. N /\ i < a
    BY <1>1, <2>1
  <2>3. ASSUME s[a] \notin Leads  PROVE FALSE
    <3>1. PICK h \in 1 .. N : s[h] \in Leads /\ a \in Rest(s, h)
      BY <1>3, <2>2, <2>3
    <3>2. h < a /\ a < Ahead(s, h)
      BY <1>4, <2>2, <3>1
    <3> DEFINE b == Ahead(s, h)
    <3>3. b \in h + 1 .. h + 4 /\ a < b
      BY <1>5, <3>2
    <3>4. \A j \in h + 1 .. b - 1 : s[j] \notin Leads
      BY <1>6, <1>7, <3>1
    <3>5. \A j \in i + 1 .. a - 1 : s[j] \notin Leads
      BY <1>6, <1>7, <1>9 DEF a
    <3> HIDE DEF b
    <3>6. CASE h < i
      <4>1. i \in h + 1 .. b - 1
        BY <1>1, <2>2, <3>3, <3>6
      <4>2. QED
        BY <1>9, <3>4, <4>1
    <3>7. CASE h = i
      <4>1. b = a
        BY <3>7 DEF a, b
      <4>2. QED
        BY <2>2, <3>3, <4>1
    <3>8. CASE i < h
      <4>1. h \in i + 1 .. a - 1
        BY <1>1, <2>2, <3>2, <3>8
      <4>2. QED
        BY <3>1, <3>5, <4>1
    <3>9. QED
      BY <3>6, <3>7, <3>8
  <2>4. QED
    BY <2>2, <2>3 DEF a
<1>10. s # <<>> => s[1] \in Leads
  <2>1. ASSUME s # <<>>, s[1] \notin Leads  PROVE FALSE
    <3>1. 1 \in 1 .. N
      BY <1>1, <2>1
    <3>2. PICK h \in 1 .. N : s[h] \in Leads /\ 1 \in Rest(s, h)
      BY <1>3, <2>1, <3>1
    <3>3. h < 1
      BY <1>4, <3>1, <3>2
    <3>4. QED
      BY <3>3
  <2>2. QED
    BY <2>1
<1>11. \A i \in 1 .. N : s[i] \in Leads => \A j \in i + 1 .. Ahead(s, i) - 1 : s[j] \notin Leads
  BY <1>6, <1>7
<1>12. QED
  BY <1>8, <1>9, <1>10, <1>11

\* At compile time the leading bytes of a well formed text are counted.
LEMMA WellFormedCounted ==
  ASSUME NEW s \in Seq(Bytes), WellFormed(s)
  PROVE  StrlenConstant(s) = Metadata(s, Cardinality({i \in DOMAIN s : s[i] \in Leads}))
<1> DEFINE N == Len(s)
           M == N + 1
           C == Counts8(s)
           n(i) == Cardinality(LeadsFrom(s, i))
           starts(i) == i = M \/ (i \in 1 .. N /\ s[i] \in Leads)
           W == {i \in 1 .. M : starts(i) => C[i] = Metadata(s, n(i))}
<1>1. N \in Nat /\ M \in Nat /\ DOMAIN s = 1 .. N
  OBVIOUS
<1>2. C[N + 1] = Metadata(s, 0)
  BY Counts8Are
<1>3. \A i \in 1 .. N : Announced(s, i) =>
        C[i] = IF C[Ahead(s, i)] = Invalid8 THEN Invalid8 ELSE Metadata(s, C[Ahead(s, i)].length + 1)
  BY Counts8Are
<1>4. \A i \in 1 .. N : s[i] \in Leads =>
        /\ Announced(s, i)
        /\ \A j \in i + 1 .. Ahead(s, i) - 1 : s[j] \notin Leads
        /\ starts(Ahead(s, i))
  BY WellFormedIs
<1>5. \A i \in 1 .. N : s[i] \in Leads => Ahead(s, i) \in i + 1 .. M
  <2> TAKE i \in 1 .. N
  <2> HAVE s[i] \in Leads
  <2> DEFINE a == Ahead(s, i)
  <2>1. a \in i + 1 .. i + 4
    BY AheadIs
  <2>2. a <= N + 1
    BY <1>4, AnnouncedIs
  <2> HIDE DEF a
  <2>3. QED
    BY <1>1, <2>1, <2>2 DEF a
<1>6. \A i \in 1 .. N : s[i] \in Leads => n(i) = n(Ahead(s, i)) + 1
  BY <1>4, <1>5, LeadsFromAre
<1>7. IsFiniteSet(1 .. N)
  BY <1>1, FS_Interval
<1>8. \A i : n(i) \in Nat
  <2> TAKE i
  <2>1. LeadsFrom(s, i) \subseteq 1 .. N
    BY DEF LeadsFrom
  <2>2. QED
    BY <1>7, <2>1, FS_Subset, FS_CardinalityType
<1>9. n(M) = 0
  <2>1. LeadsFrom(s, M) = {}
    BY <1>1 DEF LeadsFrom
  <2>2. QED
    BY <2>1, FS_EmptySet
<1>10. \A m \in Nat : Metadata(s, m) # Invalid8 /\ Metadata(s, m).length = m
  BY MetadataIs
<1>11. StrlenConstant(s) = C[1]
  BY Counts8Are
<1>12. starts(1)
  <2>1. CASE s = <<>>
    BY <2>1
  <2>2. CASE s # <<>>
    <3>1. 1 \in 1 .. N
      BY <1>1, <2>2
    <3>2. QED
      BY <2>2, <3>1, WellFormedIs
  <2>3. QED
    BY <2>1, <2>2
<1>13. LeadsFrom(s, 1) = {i \in DOMAIN s : s[i] \in Leads}
  BY <1>1 DEF LeadsFrom
<1>14. \A i \in 1 .. N : starts(i) => i = M \/ s[i] \in Leads
  OBVIOUS
<1> HIDE DEF C, N, n
<1>15. M \in W
  BY <1>1, <1>2, <1>9
<1>16. ASSUME NEW i \in 1 .. M - 1, \A j \in i + 1 .. M : j \in W  PROVE i \in W
  <2>1. i \in 1 .. N /\ i \in 1 .. M /\ i # M
    BY <1>1
  <2>2. CASE s[i] \notin Leads
    BY <1>14, <2>1, <2>2
  <2>3. CASE s[i] \in Leads
    <3> DEFINE a == Ahead(s, i)
    <3>1. a \in i + 1 .. M /\ starts(a) /\ Announced(s, i) /\ n(i) = n(a) + 1
      BY <1>4, <1>5, <1>6, <2>1, <2>3
    <3>2. C[i] = IF C[a] = Invalid8 THEN Invalid8 ELSE Metadata(s, C[a].length + 1)
      BY <1>3, <2>1, <3>1
    <3> HIDE DEF a
    <3>3. C[a] = Metadata(s, n(a))
      BY <1>16, <3>1
    <3>4. C[i] = Metadata(s, n(a) + 1)
      BY <1>8, <1>10, <3>2, <3>3
    <3>5. QED
      BY <2>1, <3>1, <3>4
  <2>4. QED
    BY <2>2, <2>3
<1> HIDE DEF W
<1>17. \A i \in 1 .. M : i \in W
  BY <1>1, <1>15, <1>16, FromAllAbove
<1>18. 1 \in W
  BY <1>1, <1>17
<1>19. C[1] = Metadata(s, n(1))
  BY <1>12, <1>18 DEF W
<1>20. QED
  BY <1>11, <1>13, <1>19 DEF n

\* What is valid has no bytes but leading ones and those that they announce.
LEMMA ValidIsCovered ==
  ASSUME NEW s \in Seq(Bytes), NEW past \in BOOLEAN, IsValidUtf8(s, past),
         \A i \in 1 .. Len(s) : s[i] \in Leads => Ahead(s, i) <= Len(s) + 1
  PROVE  \A j \in 1 .. Len(s) : s[j] \notin Leads => \E i \in 1 .. Len(s) : s[i] \in Leads /\ j \in Rest(s, i)
<1> DEFINE N == Len(s)
           M == N + 1
           V == Valid8(s, past)
           covered(j) == s[j] \in Leads \/ \E i \in 1 .. N : s[i] \in Leads /\ j \in Rest(s, i)
           W == {i \in 1 .. M : V[i] => \A j \in i .. N : covered(j)}
<1>1. N \in Nat /\ M \in Nat /\ DOMAIN s = 1 .. N
  OBVIOUS
<1>2. V[1] /\ (\A i \in 1 .. N : V[i] <=> Followed(s, past, i) /\ V[Ahead(s, i)])
  BY Valid8Is
<1>3. \A i \in 1 .. N : Followed(s, past, i) => s[i] \in Leads
  BY DEF Followed
<1>4. \A i \in 1 .. N : s[i] \in Leads => Ahead(s, i) \in i + 1 .. M
  <2> TAKE i \in 1 .. N
  <2> HAVE s[i] \in Leads
  <2> DEFINE a == Ahead(s, i)
  <2>1. a \in i + 1 .. i + 4 /\ a <= N + 1
    BY AheadIs
  <2> HIDE DEF a
  <2>2. QED
    BY <1>1, <2>1 DEF a
<1>5. \A i, j \in 1 .. N : s[i] \in Leads /\ i < j /\ j < Ahead(s, i) => j \in Rest(s, i)
  BY DEF Rest, Ahead
<1> HIDE DEF V, N
<1>6. M \in W
  <2>1. \A j \in M .. N : covered(j)
    BY <1>1
  <2>2. M \in 1 .. M
    BY <1>1
  <2>3. QED
    BY <2>1, <2>2
<1>7. ASSUME NEW i \in 1 .. M - 1, \A j \in i + 1 .. M : j \in W  PROVE i \in W
  <2>1. i \in 1 .. N /\ i \in 1 .. M
    BY <1>1
  <2>2. ASSUME V[i], NEW j \in i .. N  PROVE covered(j)
    <3>1. s[i] \in Leads /\ V[Ahead(s, i)]
      BY <1>2, <1>3, <2>1, <2>2
    <3> DEFINE a == Ahead(s, i)
    <3>2. a \in i + 1 .. M
      BY <1>4, <2>1, <3>1
    <3>3. V[a] /\ a \in W
      BY <1>7, <3>1, <3>2
    <3>4. \A m \in a .. N : covered(m)
      BY <3>3
    <3> HIDE DEF a, W
    <3>5. j \in 1 .. N
      BY <1>1, <2>1
    <3>6. CASE j = i
      BY <3>1, <3>6
    <3>7. CASE j # i /\ j < a
      <4>1. i < j
        BY <2>1, <3>5, <3>7
      <4>2. j \in Rest(s, i)
        BY <1>5, <2>1, <3>1, <3>5, <3>7, <4>1 DEF a
      <4>3. QED
        BY <2>1, <3>1, <4>2
    <3>8. CASE ~(j < a)
      <4>1. j \in a .. N
        BY <1>1, <3>2, <3>5, <3>8
      <4> HIDE DEF covered
      <4>2. QED
        BY <3>4, <4>1
    <3>9. QED
      BY <3>6, <3>7, <3>8
  <2> HIDE DEF covered
  <2>3. QED
    BY <2>1, <2>2
<1> HIDE DEF W, covered
<1>8. \A i \in 1 .. M : i \in W
  BY <1>1, <1>6, <1>7, FromAllAbove
<1>9. 1 \in W
  BY <1>1, <1>8
<1>10. \A j \in 1 .. N : covered(j)
  BY <1>2, <1>9 DEF W
<1>11. QED
  BY <1>10 DEF covered, N

\* The counts and the tests of every text agree on what is in it.
LEMMA BytesAreCounted ==
  ASSUME bytes \in Seq(Bytes)
  PROVE  Utf8Counted
<1> DEFINE s == bytes
           c == StrlenConstant(s)
           n == Cardinality({i \in DOMAIN s : s[i] \in Leads})
<1>1. s \in Seq(Bytes) /\ DOMAIN s = 1 .. Len(s) /\ FALSE \in BOOLEAN
  OBVIOUS
<1>2. c # Invalid8 => Strlen(s) = c
  BY CountedAlike
<1>3. c # Invalid8 <=> IsValidUtf8(s, FALSE)
  BY CountedIsValid
<1>4. IsFiniteSet(1 .. Len(s)) /\ {i \in DOMAIN s : s[i] \in Leads} \subseteq 1 .. Len(s)
  BY <1>1, FS_Interval
<1>5. n \in Nat
  BY <1>4, FS_Subset, FS_CardinalityType
<1>6. ASSUME WellFormed(s)  PROVE c = [length |-> n, totalBytes |-> Len(s) + 1]
  <2>1. c = Metadata(s, n)
    BY <1>6, WellFormedCounted
  <2> HIDE DEF c, n
  <2>2. QED
    BY <2>1 DEF Metadata
<1>7. ASSUME WellFormed(s)  PROVE \A past \in BOOLEAN : IsValidUtf8(s, past)
  <2>1. c = Metadata(s, n)
    BY <1>7, WellFormedCounted
  <2> HIDE DEF c, n
  <2>2. c # Invalid8
    BY <1>1, <1>5, <2>1, MetadataIs
  <2>3. QED
    BY <1>3, <2>2, CountedIsValid
<1>8. ASSUME NEW past \in BOOLEAN, IsValidUtf8(s, past), ~WellFormed(s)
      PROVE  \E i \in DOMAIN s : s[i] \in Leads /\
               (i + CodePointSize[s[i]] > Len(s) + 1 \/ \E j \in Rest(s, i) : s[j] # Trail)
  <2> SUFFICES ASSUME \A i \in DOMAIN s : s[i] \in Leads =>
                        ~(i + CodePointSize[s[i]] > Len(s) + 1) /\ \A j \in Rest(s, i) : s[j] = Trail
               PROVE  FALSE
    OBVIOUS
  <2>1. \A i \in 1 .. Len(s) : s[i] \in Leads => i + CodePointSize[s[i]] <= Len(s) + 1
    <3> TAKE i \in 1 .. Len(s)
    <3> HAVE s[i] \in Leads
    <3> DEFINE k == CodePointSize[s[i]]
               N == Len(s)
    <3>1. k \in 1 .. 4 /\ ~(i + k > N + 1) /\ N \in Nat
      BY BytesAre
    <3> HIDE DEF k, N
    <3>2. i + k <= N + 1
      BY <3>1
    <3>3. QED
      BY <3>2 DEF k, N
  <2>2. \A i \in 1 .. Len(s) : s[i] \in Leads => Ahead(s, i) <= Len(s) + 1
    BY <2>1 DEF Ahead
  <2>3. \A j \in 1 .. Len(s) : s[j] \notin Leads => \E i \in 1 .. Len(s) : s[i] \in Leads /\ j \in Rest(s, i)
    BY <1>8, <2>2, ValidIsCovered
  <2>4. \A i \in DOMAIN s : s[i] \in Leads =>
          i + CodePointSize[s[i]] <= Len(s) + 1 /\ \A j \in Rest(s, i) : s[j] = Trail
    BY <2>1
  <2>5. \A j \in DOMAIN s : s[j] \notin Leads =>
          s[j] = Trail /\ \E i \in DOMAIN s : s[i] \in Leads /\ j \in Rest(s, i)
    BY <2>3
  <2>6. QED
    BY <1>8, <2>4, <2>5 DEF WellFormed
<1> HIDE DEF c, n
<1>9. WellFormed(s) => c = [length |-> n, totalBytes |-> Len(s) + 1]
  BY <1>6
<1>10. WellFormed(s) => \A past \in BOOLEAN : IsValidUtf8(s, past)
  BY <1>7
<1>11. \A past \in BOOLEAN : IsValidUtf8(s, past) /\ ~WellFormed(s) =>
         \E i \in DOMAIN s : s[i] \in Leads /\
           (i + CodePointSize[s[i]] > Len(s) + 1 \/ \E j \in Rest(s, i) : s[j] # Trail)
  BY <1>8
<1>12. QED
  BY <1>2, <1>3, <1>9, <1>10, <1>11, Zenon DEF Utf8Counted, c, n

\* The forms of the length of a text, in utf8.h, and the test of a buffer agree:
\* of every well formed text they give the leading bytes and the size, what one
\* counts the others count alike and find valid, and what is valid without being
\* well formed has a leading byte in the place of a trailing one, or ends early.
THEOREM Utf8IsCounted == Utf8Init /\ [][FALSE]_bytes => []Utf8Counted
<1>1. Utf8Init => bytes \in Seq(Bytes)
  BY ByteTextsAssumption DEF Utf8Init
<1>2. bytes \in Seq(Bytes) /\ [FALSE]_bytes => (bytes \in Seq(Bytes))'
  OBVIOUS
<1>3. bytes \in Seq(Bytes) => Utf8Counted
  BY BytesAreCounted
<1>4. QED
  BY <1>1, <1>2, <1>3, PTL
=============================================================================

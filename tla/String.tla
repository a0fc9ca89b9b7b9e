------------------------------- MODULE String -------------------------------
(***************************************************************************)
(* gk::String (string/string.h, string.cpp): up to MaxSso characters lie in *)
(* the object itself, longer texts in a buffer whose size is a multiple of  *)
(* Align.  Comparisons and searches go over whole vectors, of Align          *)
(* characters with AVX-512 and of half as many with AVX-2, so they rely on  *)
(* what is behind the end of a text.                                        *)
(*                                                                         *)
(* A place without a string is described as one with an empty string.       *)
(***************************************************************************)
EXTENDS Naturals, Sequences, FiniteSets

CONSTANTS
  Strings,         \* places that hold a String
  Chars,           \* the characters of texts; Nul is not one of them
  Texts,           \* the string slices that clients pass
  MaxSso,          \* MAX_SSO_LEN
  Align,           \* the size of a vector, and the unit of buffers
  MaxText,         \* clients make texts this long
  StringLax,       \* the preconditions of the library that clients break
  Nul, NoText

ASSUME CharsAssumption == Nul \notin Chars /\ Texts \subseteq Seq(Chars) /\ <<>> \in Texts
ASSUME SsoAssumption == MaxSso \in Nat \ {0} /\ Align \in Nat /\ Align % 2 = 0 /\ MaxSso + 1 < Align
ASSUME StringLaxAssumption ==
  StringLax \subseteq {"self", "ownSlice", "exactFit", "longestSubstring"}

VARIABLE strings         \* of each place: the representation of its string

-----------------------------------------------------------------------------
(* Representations *)

\* The characters of s, and Nul behind them.
Padded(s, n) == [i \in 0 .. n - 1 |-> IF i < Len(s) THEN s[i + 1] ELSE Nul]

Short(s) == [sso |-> TRUE, chars |-> Padded(s, MaxSso), length |-> Len(s), capacity |-> 0]

WholeVectors(n, w) == IF n % w = 0 THEN n ELSE n + w - (n % w)

AlignedUp(n) == WholeVectors(n, Align)

\* mallocCharBufferAligned fills the new buffer with Nul.
Long(s, n) ==
  [sso |-> FALSE, chars |-> Padded(s, AlignedUp(n)), length |-> Len(s), capacity |-> AlignedUp(n)]

TextOf(r) == [i \in 1 .. r.length |-> r.chars[i - 1]]

\* All bytes zero, which the flag makes a short string of the greatest length.
Zeroed == [Short(<<>>) EXCEPT !.length = MaxSso]

-----------------------------------------------------------------------------
(* Constructors and assignments *)

OfChar(c) == Short(<<c>>)

OfStr(s) == IF Len(s) <= MaxSso THEN Short(s) ELSE Long(s, Len(s) + 1)

CopyOfString(r) == IF r.sso THEN r ELSE Long(TextOf(r), r.length + 1)

\* Mutant of Overwritten: what was behind the new text stays.
OverwrittenTail(r, s) ==
  [r EXCEPT !.chars = [i \in DOMAIN r.chars |-> IF i < Len(s) THEN s[i + 1] ELSE r.chars[i]],
            !.length = Len(s)]

\* An allocation is used again, and the rest of it cleared.
Overwritten(r, s) == [r EXCEPT !.chars = Padded(s, r.capacity), !.length = Len(s)]

AssignChar(r, c) == Short(<<c>>)

AssignStr(r, s) ==
  CASE Len(s) <= MaxSso -> Short(s)
    [] Len(s) > MaxSso /\ ~r.sso /\ r.capacity >= Len(s) -> Overwritten(r, s)
    [] OTHER -> Long(s, Len(s) + 1)

AssignCopy(r, o) ==
  CASE o.sso -> o
    [] ~o.sso /\ ~r.sso /\ r.capacity >= o.length -> Overwritten(r, TextOf(o))
    [] OTHER -> Long(TextOf(o), o.length + 1)

-----------------------------------------------------------------------------
(* Appending, concatenation, substrings *)

AppendChar(r, c) ==
  LET s == Append(TextOf(r), c) IN
  CASE Len(s) <= MaxSso -> Short(s)
    [] Len(s) > MaxSso /\ r.sso -> Long(s, Align)
    [] Len(s) > MaxSso /\ ~r.sso /\ Len(s) + 1 > r.capacity -> Long(s, Len(s) + 1)
    [] OTHER -> [r EXCEPT !.chars[r.length] = c, !.length = @ + 1]

AppendStr(r, v) ==
  LET s == TextOf(r) \o v IN
  CASE Len(s) <= MaxSso -> Short(s)
    [] Len(s) > MaxSso /\ (r.sso \/ Len(s) + 1 > r.capacity) -> Long(s, Len(s) + 1)
    [] OTHER -> [r EXCEPT !.chars = [i \in DOMAIN r.chars |->
                                       IF r.length <= i /\ i < Len(s) THEN s[i + 1] ELSE r.chars[i]],
                          !.length = Len(s)]

\* What a concatenation makes: a buffer gets half as much again as it needs.
Concatenated(s) ==
  IF Len(s) <= MaxSso THEN Short(s) ELSE Long(s, (3 * (Len(s) + 1)) \div 2)

ConcatChar(r, c) == Concatenated(Append(TextOf(r), c))
ConcatStr(r, s) == Concatenated(TextOf(r) \o s)
CharConcat(c, r) == Concatenated(<<c>> \o TextOf(r))
StrConcat(s, r) == Concatenated(s \o TextOf(r))

\* Characters i to j - 1.  The longest text that fits the object gets a buffer.
Substring(r, i, j) ==
  LET s == SubSeq(TextOf(r), i + 1, j) IN
  IF Len(s) + 1 <= MaxSso THEN Short(s) ELSE Long(s, Len(s) + 1)

-----------------------------------------------------------------------------
(* Comparisons and searches, with vectors of w characters.  A search         *)
(* returns the length for "not there".                                      *)

Vectors == {Align, Align \div 2}

\* Two strings in buffers are compared up to the vector with the terminator.
EqualBuffers(r, o, w) ==
  \A i \in 0 .. WholeVectors(r.length + 1, w) - 1 :
    i \in DOMAIN r.chars /\ i \in DOMAIN o.chars /\ r.chars[i] = o.chars[i]

\* equalToStringSimd compares the bytes of a short string with those of the other object.
EqualStrings(r, o, w) == IF r.sso THEN r = o ELSE r.length = o.length /\ EqualBuffers(r, o, w)

\* Vector by vector, and the rest character by character.
EqualBufferToStr(r, s) == TextOf(r) = s

\* equalToStrSimd compares a short string with the slice padded.
EqualToStr(r, s) ==
  r.length = Len(s) /\ IF r.sso THEN r.chars = Padded(s, MaxSso) ELSE EqualBufferToStr(r, s)

EqualToChar(r, c) == r.sso /\ r.length = 1 /\ r.chars[0] = c

FirstOf(S, none) == IF S = {} THEN none ELSE CHOOSE i \in S : \A j \in S : i <= j

FindInBuffer(r, c, w) ==
  FirstOf({i \in 0 .. WholeVectors(r.length, w) - 1 : r.chars[i] = c}, r.length)

\* findCharInStringSimd goes over all characters of a short string.
FindChar(r, c, w) ==
  IF r.sso THEN FirstOf({i \in 0 .. MaxSso - 1 : r.chars[i] = c}, r.length) ELSE FindInBuffer(r, c, w)

Char(r, i) == IF i \in DOMAIN r.chars THEN r.chars[i] ELSE Nul

Matches(r, s) == {i \in 0 .. r.length - 1 : \A k \in 1 .. Len(s) : Char(r, i + k - 1) = s[k]}

\* At every place of the first character of the slice, whole vectors are compared.
FindSliceAvx512(r, s) == FirstOf(Matches(r, s), r.length)

\* The 32 bits of a comparison are compared with 64 ones: nothing is found.
FindSliceAvx2(r, s) == r.length

\* findStrInStringSimd compares the slice at every place of its first
\* character, where the end of the text does not stop it.
FindSlice(r, s, w) ==
  CASE r.sso -> FirstOf(Matches(r, s), r.length)
    [] ~r.sso /\ w = Align -> FindSliceAvx512(r, s)
    [] OTHER -> FindSliceAvx2(r, s)

\* The length stands for none, also where an empty slice is found in an empty
\* string, at 0.
FindStr(r, s, w) ==
  CASE Len(s) > r.length \/ s = <<>> -> r.length
    [] Len(s) = r.length /\ s # <<>> -> IF EqualToStr(r, s) THEN 0 ELSE r.length
    [] Len(s) = 1 /\ r.length > 1 -> FindChar(r, s[1], w)
    [] OTHER -> FindSlice(r, s, w)

\* What is hashed of a vector: the first n of its characters, and n itself.
HashedVector(r, i, n) ==
  <<n, [k \in 0 .. Align \div 2 - 1 |-> IF k < n THEN Char(r, i + k) ELSE Nul]>>

\* hash mixes the length and vectors of the smaller size.  Of the last vector
\* of a buffer it takes as many characters as the number of vectors times that
\* of the vectors before it is more than the length, for most lengths none.
StringHash(r) ==
  LET w == Align \div 2
      count == (r.length + w - 1) \div w
      Taken(i) == IF i < count - 1 THEN w ELSE count * i - r.length
  IN  <<r.length, IF r.sso THEN <<HashedVector(r, 0, r.length)>>
                  ELSE [i \in 1 .. count |-> HashedVector(r, (i - 1) * w, Taken(i - 1))]>>

-----------------------------------------------------------------------------
StringInit == strings = [p \in Strings |-> Short(<<>>)]

UsableString(p) == strings[p] # Zeroed

StringBecomes(p, r) == r.length <= MaxText /\ strings' = [strings EXCEPT ![p] = r]

StringDestroy(p) == StringBecomes(p, Short(<<>>))

StringConstruct(p) ==
  /\ strings[p] = Short(<<>>)
  /\ \/ \E c \in Chars : StringBecomes(p, OfChar(c))
     \/ \E s \in Texts : StringBecomes(p, OfStr(s))
     \/ \E o \in Strings : UsableString(o) /\ StringBecomes(p, CopyOfString(strings[o]))

\* A text that fills a buffer to the last byte leaves no room for the terminator.
Fits(p, n) == ~strings[p].sso /\ n > MaxSso /\ n = strings[p].capacity => "exactFit" \in StringLax

\* The slice is not one of p's own characters.
StringAssign(p) ==
  \/ \E c \in Chars : StringBecomes(p, AssignChar(strings[p], c))
  \/ \E s \in Texts : Fits(p, Len(s)) /\ StringBecomes(p, AssignStr(strings[p], s))

\* A short string assigned to itself is cleared before it is copied; its length stays.
StringCopyAssign(p, o) ==
  /\ UsableString(o)
  /\ p = o /\ strings[o].sso => "self" \in StringLax
  /\ ~strings[o].sso => Fits(p, strings[o].length)
  /\ StringBecomes(p, IF p = o /\ strings[o].sso
                      THEN [strings[o] EXCEPT !.chars = Zeroed.chars]
                      ELSE AssignCopy(strings[p], strings[o]))

\* Mutant of StringMove: the string that is moved from keeps its bytes.
StringMoveKeep(p, o) ==
  p # o /\ strings' = [strings EXCEPT ![p] = strings[o], ![o] = Short(TextOf(strings[p]))]

\* The move constructor and the move assignment, with p's own buffer freed.
StringMove(p, o) ==
  /\ p = o => "self" \in StringLax
  /\ strings' = [strings EXCEPT ![p] = strings[o], ![o] = Zeroed]

StringAppend(p) ==
  /\ UsableString(p)
  /\ \/ \E c \in Chars : StringBecomes(p, AppendChar(strings[p], c))
     \/ \E s \in Texts : StringBecomes(p, AppendStr(strings[p], s))
     \/ \E o \in Strings \ {p} :
          UsableString(o) /\ StringBecomes(p, AppendStr(strings[p], TextOf(strings[o])))

\* p.append(p): when a buffer is allocated, the slice is read from what is gone by then.
StringAppendOwn(p) ==
  LET r == strings[p]
      stays == 2 * r.length <= MaxSso \/ (~r.sso /\ 2 * r.length + 1 <= r.capacity)
  IN  /\ UsableString(p)
      /\ ~stays => "ownSlice" \in StringLax
      /\ StringBecomes(p, AppendStr(r, IF stays THEN TextOf(r) ELSE [i \in 1 .. r.length |-> Nul]))

StringConcat(p, o) ==
  /\ p # o /\ strings[p] = Short(<<>>) /\ UsableString(o)
  /\ \/ \E c \in Chars : \/ StringBecomes(p, ConcatChar(strings[o], c))
                         \/ StringBecomes(p, CharConcat(c, strings[o]))
     \/ \E s \in Texts : \/ StringBecomes(p, ConcatStr(strings[o], s))
                         \/ StringBecomes(p, StrConcat(s, strings[o]))

StringSubstring(p, o) ==
  /\ p # o /\ strings[p] = Short(<<>>) /\ UsableString(o)
  /\ \E j \in 1 .. strings[o].length : \E i \in 0 .. j - 1 :
       /\ j - i = MaxSso => "longestSubstring" \in StringLax
       /\ StringBecomes(p, Substring(strings[o], i, j))

StringNext ==
  \E p \in Strings :
    \/ StringDestroy(p) \/ StringConstruct(p) \/ StringAssign(p)
    \/ StringAppend(p) \/ StringAppendOwn(p)
    \/ \E o \in Strings : \/ StringCopyAssign(p, o) \/ StringMove(p, o)
                          \/ StringConcat(p, o) \/ StringSubstring(p, o)

StringSpec == StringInit /\ [][StringNext]_strings

-----------------------------------------------------------------------------
\* The first place at which s occurs in the text t, or the length of t.
Occurrence(t, s) ==
  FirstOf({i \in 0 .. Len(t) - Len(s) : s # <<>> /\ SubSeq(t, i + 1, i + Len(s)) = s}, Len(t))

\* What equalToStringSimd asserts: a string in a buffer is only compared with
\* one that lies in the object when their lengths differ.
ShortWeededOut ==
  \A p, o \in Strings :
    LET r == strings[p]
        other == strings[o] IN
    UsableString(p) /\ UsableString(o) /\ ~r.sso /\ r.length = other.length => ~other.sso

\* Comparisons and searches answer for the texts, and equal texts have equal
\* hashes, whichever operations made the strings and whatever vectors the
\* processor has: the same text is never short in one string and long in
\* another, and behind it there is nothing but Nul.  With AVX-2 a text of
\* several characters is not found in a longer one that has a buffer.
StringLookups ==
  \A p \in Strings : UsableString(p) =>
    LET r == strings[p]
        t == TextOf(r) IN
    /\ ~r.sso => Char(r, r.length) = Nul /\ r.length < r.capacity
    /\ \A o \in Strings : UsableString(o) =>
         /\ \A w \in Vectors : EqualStrings(r, strings[o], w) <=> t = TextOf(strings[o])
         /\ t = TextOf(strings[o]) => StringHash(r) = StringHash(strings[o])
    /\ \A c \in Chars : /\ EqualToChar(r, c) <=> t = <<c>>
                        /\ \A w \in Vectors : FindChar(r, c, w) = Occurrence(t, <<c>>)
    /\ \A s \in Texts : /\ EqualToStr(r, s) <=> t = s
                        /\ \A w \in Vectors :
                             Len(s) <= Align /\ (r.sso \/ w = Align \/ Len(s) \in {1, r.length}) =>
                               FindStr(r, s, w) = Occurrence(t, s)

TextAt(p) == IF UsableString(p) THEN TextOf(strings[p]) ELSE NoText

T == INSTANCE TextValues WITH text <- [p \in Strings |-> TextAt(p)],
       Texts <- Texts \cup {<<c>> : c \in Chars}

\* Whether a text lies in the object or in a buffer, old or new, each string
\* stays a text of its own.
StringTextSpec == T!Spec
=============================================================================

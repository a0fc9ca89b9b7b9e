-------------------------------- MODULE Utf8 --------------------------------
(***************************************************************************)
(* gk::utf8::strlen and gk::isValidUtf8 (string/utf8.h): the length of a     *)
(* text in code points, counted at compile time, at run time, and the test   *)
(* of a buffer.  A byte is what its upper bits make of it.                  *)
(***************************************************************************)
EXTENDS Naturals, Sequences, FiniteSets

CONSTANT ByteTexts       \* texts, without the terminator

Ascii == "ascii"
Trail == "trailing"
CodePointSize == [ascii |-> 1, lead2 |-> 2, lead3 |-> 3, lead4 |-> 4]
Leads == DOMAIN CodePointSize
Bytes == Leads \cup {Trail, "other"}

ASSUME ByteTextsAssumption == ByteTexts \subseteq Seq(Bytes)

VARIABLE bytes           \* the text that is counted

-----------------------------------------------------------------------------
\* Both kinds of test ask only for the upper bit, so a leading byte passes for
\* a trailing one.
HasUpperBit(b) == b # Ascii

\* Utf8Metadata, and what else may come of a count.
Metadata(s, n) == [length |-> n, totalBytes |-> Len(s) + 1]
Invalid8 == [length |-> 0, totalBytes |-> 0]
Astray == [length |-> 0, totalBytes |-> 1]

\* The bytes behind the leading one at i, as far as the terminator.
Rest(s, i) == {j \in DOMAIN s : i < j /\ j < i + CodePointSize[s[i]]}

\* The last of them is not the terminator, and each passes the test.
TrailingPass(s, i) ==
  /\ i + CodePointSize[s[i]] <= Len(s) + 1
  /\ \A j \in Rest(s, i) : HasUpperBit(s[j])

\* strlen at compile time throws for what is invalid.
StrlenConstant(s) ==
  LET from[i \in 1 .. Len(s) + 1] ==
        CASE i = Len(s) + 1 -> Metadata(s, 0)
          [] i <= Len(s) /\ (s[i] \notin Leads \/ ~TrailingPass(s, i)) -> Invalid8
          [] OTHER -> LET next == from[i + CodePointSize[s[i]]] IN
                      IF next = Invalid8 THEN Invalid8 ELSE Metadata(s, next.length + 1)
  IN  from[1]

\* At run time the number of the trailing byte is added to the leading one,
\* whose upper bit stays: no trailing byte is looked at, and with the last of a
\* text missing the count goes on behind the terminator.
Strlen(s) ==
  LET from[i \in 1 .. Len(s) + 4] ==
        CASE i > Len(s) + 1 -> Astray
          [] i = Len(s) + 1 -> Metadata(s, 0)
          [] i <= Len(s) /\ s[i] \notin Leads -> Invalid8
          [] OTHER -> LET next == from[i + CodePointSize[s[i]]] IN
                      IF next \in {Invalid8, Astray} THEN next ELSE Metadata(s, next.length + 1)
  IN  from[1]

\* Mutant of IsValidUtf8: a code point of three bytes is tested for one.
IsValidUtf8Twice(s, past) ==
  LET Passes(j) == IF j > Len(s) THEN past ELSE HasUpperBit(s[j])
      from[i \in 1 .. Len(s) + 4] ==
        \/ i > Len(s)
        \/ /\ s[i] \in Leads
           /\ \A k \in 1 .. CodePointSize[s[i]] - 1 : k = 1 => Passes(i + k)
           /\ from[i + CodePointSize[s[i]]]
  IN  from[1]

\* A buffer is tested for as many bytes as it is long, and the trailing ones of
\* its last code point even behind that: `past` is whether they pass.
IsValidUtf8(s, past) ==
  LET Passes(j) == IF j > Len(s) THEN past ELSE HasUpperBit(s[j])
      from[i \in 1 .. Len(s) + 4] ==
        \/ i > Len(s)
        \/ /\ s[i] \in Leads
           /\ \A k \in 1 .. CodePointSize[s[i]] - 1 : Passes(i + k)
           /\ from[i + CodePointSize[s[i]]]
  IN  from[1]

Utf8Init == bytes \in ByteTexts

-----------------------------------------------------------------------------
\* Each leading byte has the trailing bytes it announces, and they are all there are.
WellFormed(s) ==
  /\ \A i \in DOMAIN s : s[i] \in Leads =>
       i + CodePointSize[s[i]] <= Len(s) + 1 /\ \A j \in Rest(s, i) : s[j] = Trail
  /\ \A j \in DOMAIN s : s[j] \notin Leads => s[j] = Trail /\ \E i \in DOMAIN s : s[i] \in Leads /\ j \in Rest(s, i)

\* Of a well formed text every form gives the number of its leading bytes and
\* its size.  What is counted at compile time is counted alike at run time, and
\* is what is valid in front of a terminator; what is valid at all without being
\* well formed has a leading byte in the place of a trailing one, or ends early.
Utf8Counted ==
  LET s == bytes
      n == Cardinality({i \in DOMAIN s : s[i] \in Leads})
      constant8 == StrlenConstant(s)
  IN  /\ WellFormed(s) => /\ constant8 = [length |-> n, totalBytes |-> Len(s) + 1]
                          /\ \A past \in BOOLEAN : IsValidUtf8(s, past)
      /\ constant8 # Invalid8 => Strlen(s) = constant8
      /\ constant8 # Invalid8 <=> IsValidUtf8(s, FALSE)
      /\ \A past \in BOOLEAN : IsValidUtf8(s, past) /\ ~WellFormed(s) =>
           \E i \in DOMAIN s : s[i] \in Leads /\
             (i + CodePointSize[s[i]] > Len(s) + 1 \/ \E j \in Rest(s, i) : s[j] # Trail)
=============================================================================

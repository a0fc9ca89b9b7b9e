--------------------------- MODULE ComposedText ---------------------------
(***************************************************************************)
(* Texts that are composed of others: lists, which toString prints and      *)
(* parseStr reads (string/string_type_conversion.h), and String::format     *)
(* (string/string.h).  Characters are numbers: those of Numerals and those  *)
(* defined here.  A result that may be an error is a set of at most one.    *)
(***************************************************************************)
EXTENDS Numerals, FiniteSets
LOCAL INSTANCE SequencesExt
LOCAL INSTANCE FiniteSetsExt

CONSTANTS
  Compositions       \* lists, [of, items], and formats, [of, text, args]

VARIABLE composed    \* the list or format of this behaviour

Comma == Base + 2
Space == Base + 3
Opening == Base + 4          \* [
Closing == Base + 5          \* ]
Quote == Base + 6
Apostrophe == Base + 7
OpenBrace == Base + 8
CloseBrace == Base + 9
Junk == Base + 10            \* bytes of a pointer

-----------------------------------------------------------------------------
(* Lists of integers, of strings and of lists of integers *)

Listed(items, Shown(_)) ==
  <<Opening>> \o
  FlattenSeq([i \in DOMAIN items |->
                Shown(items[i]) \o IF i = Len(items) THEN <<>> ELSE <<Comma, Space>>]) \o
  <<Closing>>

InQuotes(t) == <<Quote>> \o t \o <<Quote>>

\* convertArrayListToString, by the type of the elements.
ToText(list) ==
  CASE list.of = "ints" -> Listed(list.items, FromInt)
    [] list.of = "strings" -> Listed(list.items, InQuotes)
    [] list.of = "lists" -> Listed(list.items, LAMBDA inner : Listed(inner, FromInt))

\* What is between commas, wherever they are: also those of a string or an inner list.
Pieces(t) ==
  LET commas == {i \in DOMAIN t : t[i] = Comma}
      cuts == <<0>> \o SetToSortSeq(commas, <) \o <<Len(t) + 1>>
  IN  [k \in 1 .. Len(cuts) - 1 |-> SubSeq(t, cuts[k] + 1, cuts[k + 1] - 1)]

\* Mutant of Stripped: spaces behind an element are a part of it.
StrippedBefore(t) ==
  LET black == {i \in DOMAIN t : t[i] # Space} IN
  IF black = {} THEN <<>> ELSE SubSeq(t, Min(black), Len(t))

\* From the first to the last character that is no space.
Stripped(t) ==
  LET black == {i \in DOMAIN t : t[i] # Space} IN
  IF black = {} THEN <<>> ELSE SubSeq(t, Min(black), Max(black))

ParseString(t) ==
  IF Len(t) > 1 /\ Head(t) \in {Quote, Apostrophe} /\ Last(t) \in {Quote, Apostrophe}
  THEN {SubSeq(t, 2, Len(t) - 1)} ELSE {}

\* A space between the brackets is an element that is missing.
ParseList(t, Parsed(_)) ==
  CASE Len(t) < 2 \/ Head(t) # Opening \/ Last(t) # Closing -> {}
    [] t = <<Opening, Closing>> -> {<<>>}
    [] OTHER ->
         LET pieces == Pieces(SubSeq(t, 2, Len(t) - 1))
             Element(k) == LET s == Stripped(pieces[k]) IN IF s = <<>> THEN {} ELSE Parsed(s)
         IN  IF \E k \in DOMAIN pieces : Element(k) = {} THEN {}
             ELSE {[k \in DOMAIN pieces |-> CHOOSE v \in Element(k) : TRUE]}

\* parseStr, by the type of the elements.
ParseStr(t, of) ==
  CASE of = "ints" -> ParseList(t, ParseNarrow)
    [] of = "strings" -> ParseList(t, ParseString)
    [] of = "lists" -> ParseList(t, LAMBDA inner : ParseList(inner, ParseNarrow))

-----------------------------------------------------------------------------
(* Formats: "{}" is where an argument goes *)

IsFormat(t) == \A i \in DOMAIN t : t[i] = OpenBrace => i < Len(t) /\ t[i + 1] = CloseBrace

\* What is before each slot, and what is behind the last: nothing when the
\* format ends in a brace.
FindOffsets(t) ==
  LET slots == SetToSortSeq({i \in DOMAIN t : t[i] = OpenBrace}, <)
      Start(k) == IF k = 1 THEN 1 ELSE slots[k - 1] + 2
      Before == [k \in DOMAIN slots |-> SubSeq(t, Start(k), slots[k] - 1)]
  IN  Append(Before, IF Last(t) = CloseBrace THEN <<>> ELSE SubSeq(t, Start(Len(slots) + 1), Len(t)))

Woven(offsets, args) ==
  FlattenSeq([k \in DOMAIN offsets |-> offsets[k] \o IF k \in DOMAIN args THEN args[k] ELSE <<>>])

\* A String in a text that needs no buffer is read as if it had none itself.
Format(t, args) ==
  LET whole == Woven(FindOffsets(t), [k \in DOMAIN args |-> args[k].text])
      ShortOf(a) == IF a.onHeap THEN [i \in DOMAIN a.text |-> Junk] ELSE a.text
  IN  IF args = <<>> THEN t
      ELSE IF Len(whole) > MaxShort THEN whole
      ELSE Woven(FindOffsets(t), [k \in DOMAIN args |-> ShortOf(args[k])])

-----------------------------------------------------------------------------
ComposedInit == composed \in Compositions

IsOneOfASlot(t, i) == t[i] = OpenBrace \/ (t[i] = CloseBrace /\ i > 1 /\ t[i - 1] = OpenBrace)

\* Character by character: a slot is its argument, all others are themselves.
Substituted(t, args) ==
  LET Slot(i) == Cardinality({j \in 1 .. i : t[j] = OpenBrace}) IN
  FlattenSeq([i \in DOMAIN t |-> IF ~IsOneOfASlot(t, i) THEN <<t[i]>>
                                 ELSE IF t[i] = OpenBrace THEN args[Slot(i)].text ELSE <<>>])

\* Elements without a comma in them.
Separable(list) ==
  CASE list.of = "ints" -> TRUE
    [] list.of = "strings" -> \A i \in DOMAIN list.items : Comma \notin Range(list.items[i])
    [] list.of = "lists" -> \A i \in DOMAIN list.items : Len(list.items[i]) < 2

\* A list is read back from its text, also with more spaces around elements,
\* when no element has a comma; a format has each argument in its slot, and
\* all that is around them, unless it ends in a brace that closes no slot or
\* a String with a buffer is to be part of a text that needs none.
PartsInPlace ==
  IF composed.of # "format"
  THEN Separable(composed) =>
         LET t == ToText(composed)
             Around == {i \in 1 .. Len(t) - 1 : i \in {1, Len(t) - 1} \/ Comma \in {t[i], t[i + 1]}}
         IN  /\ ParseStr(t, composed.of) = {composed.items}
             /\ composed.items # <<>> => \A i \in Around :
                  ParseStr(InsertAt(t, i + 1, Space), composed.of) = {composed.items}
  ELSE LET t == composed.text
           args == composed.args
           filled == Substituted(t, args)
           sound ==
             /\ Last(t) = CloseBrace => IsOneOfASlot(t, Len(t))
             /\ Len(filled) > MaxShort \/ \A k \in DOMAIN args : ~args[k].onHeap
       IN  IsFormat(t) /\ args # <<>> /\ sound => Format(t, args) = filled
=============================================================================

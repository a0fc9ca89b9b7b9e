------------------------------ MODULE JsonText ------------------------------
(***************************************************************************)
(* JsonObject::toString and JsonObject::parse (json/json_object.h): what is *)
(* printed is parsed to the same object again.                              *)
(*                                                                         *)
(* A text is a sequence of tokens: punctuation, one token for any run of    *)
(* white space that is printed, one for each of null, true and false, one   *)
(* for a number and one for each character of a string.  How a number is    *)
(* printed and parsed is left out.  Positions count from 0, as in the code. *)
(***************************************************************************)
EXTENDS Naturals, Sequences, FiniteSets, TLC
LOCAL INSTANCE SequencesExt

CONSTANTS
  Numbers,           \* the tokens that parseFloat accepts
  Documents          \* the objects that are printed and parsed

VARIABLE document    \* the object of this behaviour

-----------------------------------------------------------------------------
(* Values: the type, and for most types what is held *)

Null == <<"Null">>
Bool(b) == <<"Bool", b>>
Number(n) == <<"Number", n>>
Text(s) == <<"String", s>>
Array(vs) == <<"Array", vs>>
Object(fs) == <<"Object", fs>>       \* fs: of each name its value

\* addField keeps a field that is there.
AddField(fs, name, v) == IF name \in DOMAIN fs THEN fs ELSE fs @@ (name :> v)

-----------------------------------------------------------------------------
(* Printing *)

Quoted(s) == <<"\"">> \o s \o <<"\"">>

Joined(texts, separator) ==
  FlattenSeq([i \in DOMAIN texts |-> IF i = Len(texts) THEN texts[i] ELSE texts[i] \o separator])

RECURSIVE ValueToString(_)

\* Mutant of ObjectToString: the comma behind a field is forgotten.
ObjectToStringNoComma(fs) ==
  IF DOMAIN fs = {} THEN <<"{", "}">>
  ELSE LET Field(name) == <<" ">> \o Quoted(name) \o <<":", " ">> \o ValueToString(fs[name])
           names == SetToSeq(DOMAIN fs)
       IN  <<"{">> \o Joined([i \in DOMAIN names |-> Field(names[i])], <<" ">>) \o <<" ", "}">>

\* Fields come in the order of the iteration; white space depends on how deep the object lies.
\* A comma follows all but the last by elementCount: the objects are as they were built, with
\* no field lost, else a comma follows the last one too.
ObjectToString(fs) ==
  IF DOMAIN fs = {} THEN <<"{", "}">>
  ELSE LET Field(name) == <<" ">> \o Quoted(name) \o <<":", " ">> \o ValueToString(fs[name])
           names == SetToSeq(DOMAIN fs)
       IN  <<"{">> \o Joined([i \in DOMAIN names |-> Field(names[i])], <<",">>) \o <<" ", "}">>

\* A string is printed as it is, with nothing escaped.
ValueToString(v) ==
  CASE v[1] = "Null" -> <<"null">>
    [] v[1] \in {"Bool", "Number"} -> <<v[2]>>
    [] v[1] = "String" -> Quoted(v[2])
    [] v[1] = "Array" ->
         <<"[">> \o Joined([i \in DOMAIN v[2] |-> ValueToString(v[2][i])], <<",", " ">>) \o <<"]">>
    [] v[1] = "Object" -> ObjectToString(v[2])

-----------------------------------------------------------------------------
(* Parsing.  An outcome is a value and the position behind it, an error, or  *)
(* a loop that parses the same value for ever.                              *)

White == {" "}

Ok(v, end) == [status |-> "ok", value |-> v, end |-> end]
Error == [status |-> "error"]
Endless == [status |-> "endless"]

At(t, i) == t[i + 1]
Slice(t, i, j) == SubSeq(t, i + 1, j)       \* the tokens at i to j - 1

\* The first position from i on whose token is in S, or the length.
NextIn(t, i, S) ==
  LET P == {j \in i .. Len(t) - 1 : At(t, j) \in S} IN
  IF P = {} THEN Len(t) ELSE CHOOSE j \in P : \A k \in P : j <= k

NextBlack(t, i) ==
  LET P == {j \in i .. Len(t) - 1 : At(t, j) \notin White} IN
  IF P = {} THEN Len(t) ELSE CHOOSE j \in P : \A k \in P : j <= k

\* A word from s up to a token that may follow it.
ParseWord(t, s, stops, words, Make(_)) ==
  LET e == NextIn(t, s + 1, White \cup stops) IN
  IF e < Len(t) /\ e = s + 1 /\ At(t, s) \in words THEN Ok(Make(At(t, s)), e) ELSE Error

\* A ] does not end null.
ParseNullValue(t, s) == ParseWord(t, s, {",", "}"}, {"null"}, LAMBDA w : Null)
ParseBoolValue(t, s) == ParseWord(t, s, {",", "]", "}"}, {"true", "false"}, Bool)
ParseNumberValue(t, s) == ParseWord(t, s, {",", "]", "}"}, Numbers, Number)

\* The first quote from i on that no backslash precedes, or the length.
QuoteEnd(t, i) ==
  LET P == {j \in i .. Len(t) - 1 : At(t, j) = "\"" /\ At(t, j - 1) # "\\"} IN
  IF P = {} THEN Len(t) ELSE CHOOSE j \in P : \A k \in P : j <= k

ParseStringValue(t, s) ==
  LET e == QuoteEnd(t, s + 1) IN
  IF e < Len(t) THEN Ok(Text(Slice(t, s + 1, e)), e + 1) ELSE Error

RECURSIVE ParseElements(_, _, _)
RECURSIVE ParseFields(_, _, _)

ParseArrayValue(t, s) ==
  IF s + 1 < Len(t) /\ At(t, s + 1) = "]" THEN Ok(Array(<<>>), s + 2)
  ELSE ParseElements(t, s + 1, <<>>)

ParseObjectValue(t, s) ==
  IF s + 1 < Len(t) /\ At(t, s + 1) = "}" THEN Ok(Object(<<>>), s + 2)
  ELSE ParseFields(t, s + 1, <<>>)

\* The value that starts at s, of the type its first token tells.
ParseValue(t, s) ==
  CASE At(t, s) = "null" -> ParseNullValue(t, s)
    [] At(t, s) \in {"true", "false"} -> ParseBoolValue(t, s)
    [] At(t, s) \in Numbers -> ParseNumberValue(t, s)
    [] At(t, s) = "\"" -> ParseStringValue(t, s)
    [] At(t, s) = "[" -> ParseArrayValue(t, s)
    [] At(t, s) = "{" -> ParseObjectValue(t, s)
    [] OTHER -> Error

\* The elements from i on, behind those of vs.  An object is parsed and not
\* accepted.  When the text ends behind a value, the loop starts over with it.
ParseElements(t, i, vs) ==
  LET s == NextBlack(t, i) IN
  IF s = Len(t) THEN Error
  ELSE LET r == ParseValue(t, s) IN
       IF r.status # "ok" THEN r
       ELSE IF At(t, s) = "{" THEN Error
       ELSE LET n == NextBlack(t, r.end) IN
            CASE n = Len(t) -> Endless
              [] n < Len(t) /\ At(t, n) = "," -> ParseElements(t, n + 1, Append(vs, r.value))
              [] n < Len(t) /\ At(t, n) = "]" -> Ok(Array(Append(vs, r.value)), n + 1)
              [] OTHER -> Error

\* The fields from i on, to be added to fs.
ParseFields(t, i, fs) ==
  LET s == NextBlack(t, i) IN
  IF s = Len(t) THEN Error
  ELSE IF At(t, s) = "}" THEN Ok(Object(fs), s + 1)
  ELSE IF At(t, s) # "\"" THEN Error
  ELSE LET nameEnd == QuoteEnd(t, s + 1)
           colon == NextBlack(t, nameEnd + 1)
           start == NextBlack(t, colon + 1)
       IN  IF nameEnd = Len(t) \/ colon >= Len(t) \/ start >= Len(t) THEN Error
           ELSE IF At(t, colon) # ":" THEN Error
           ELSE LET r == ParseValue(t, start) IN
                IF r.status # "ok" THEN r
                ELSE LET n == NextBlack(t, r.end)
                         more == AddField(fs, Slice(t, s + 1, nameEnd), r.value)
                     IN  CASE n = Len(t) -> Endless
                           [] n < Len(t) /\ At(t, n) = "," -> ParseFields(t, n + 1, more)
                           [] n < Len(t) /\ At(t, n) = "}" -> Ok(Object(more), n + 1)
                           [] OTHER -> Error

\* White space around the object is cut off; what follows its end is not looked at.
Parse(t) ==
  LET last == IF Len(t) > 0 THEN At(t, Len(t) - 1) ELSE " "
      begin == NextBlack(t, 0)
      trailing == {j \in begin .. Len(t) - 1 : \A k \in j .. Len(t) - 1 : At(t, k) \in White}
      end == Len(t) - Cardinality(trailing)
  IN  CASE Len(t) < 2 \/ begin = Len(t) -> Error
        [] Len(t) >= 2 /\ 0 < begin /\ begin < Len(t) /\ At(t, begin) # "{" -> Error
        [] Len(t) >= 2 /\ begin < Len(t) /\ last \in White /\ At(t, end - 1) # "}" -> Error
        [] OTHER -> ParseObjectValue(Slice(t, begin, end), 0)

-----------------------------------------------------------------------------
JsonInit == document \in Documents

-----------------------------------------------------------------------------
(* What is promised to be read again *)

\* Characters that a reader finds to end where their printer ended them: each
\* quote among them has a backslash in front, and the last is no backslash.
Enclosed(s) ==
  /\ \A i \in DOMAIN s : s[i] = "\"" => i > 1 /\ s[i - 1] = "\\"
  /\ s # <<>> => Last(s) # "\\"

\* Left out are characters that are printed unescaped (json_object.h:822) and
\* end a string too early or too late (line 1493), and values that the format
\* json_object.h:9 refers to allows and the parser does not accept (lines 50 to
\* 60): an object in an array, and a null in front of the ] of one.
RECURSIVE Readable(_)
Readable(v) ==
  CASE v[1] = "String" -> Enclosed(v[2])
    [] v[1] = "Array" -> /\ \A i \in DOMAIN v[2] : v[2][i][1] # "Object" /\ Readable(v[2][i])
                         /\ v[2] # <<>> => Last(v[2]) # Null
    [] v[1] = "Object" -> \A name \in DOMAIN v[2] : Enclosed(name) /\ Readable(v[2][name])
    [] OTHER -> TRUE

\* The text of an object is parsed to an equal object, with all fields, elements
\* and strings, whatever white space surrounds it.  Nothing is said of objects
\* that are not Readable, which the parser cuts short or refuses.
JsonRoundTrip ==
  Readable(document) =>
    LET t == ValueToString(document) IN
    \A before, after \in {<<>>, <<" ">>, <<" ", " ">>} : Parse(before \o t \o after) = Ok(document, Len(t))
=============================================================================

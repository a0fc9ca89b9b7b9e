------------------------------ MODULE Numerals ------------------------------
(***************************************************************************)
(* The conversions between numbers or bools and text: fromInt, fromUint,     *)
(* fromFloat and fromBool of gk::String (string/string.h), and parseInt,     *)
(* parseUint, parseFloat, parseBool and parse for narrower types of gk::Str  *)
(* (string/str.h) and of gk::String, which calls them.                      *)
(*                                                                         *)
(* A text is a sequence of digits, Minus and Point, which stands for any    *)
(* other character as well where no point is expected.  A result that may   *)
(* be an error is a set of at most one value.                               *)
(***************************************************************************)
EXTENDS Integers, Sequences, FiniteSets

CONSTANTS
  Base,                        \* 10
  IntMax, UintMax,             \* the digits of the greatest i64 and u64
  NarrowMax, NarrowUintMax,    \* the greatest numbers of a narrower type
  Numerals,                    \* the texts that are parsed
  MaxShort,                    \* what lies in a String that has no buffer
  TrueText, FalseText,         \* what stands for "true" and "false"
  Word,                        \* characters that are compared at once: 8
  MaxPrecision                 \* bound on the decimals that are asked for

Digits == 0 .. Base - 1
Minus == Base
Point == Base + 1

\* The bounds tests rely on 9 being the first digit of the greatest i64, and
\* not the last: the least i64 has the same digits but for one more at the end.
ASSUME BaseAssumption ==
  /\ Base \in Nat /\ Base > 1
  /\ IntMax \in Seq(Digits) /\ UintMax \in Seq(Digits) /\ UintMax # <<>> /\ Head(UintMax) > 0
  /\ Len(IntMax) > 1 /\ Head(IntMax) = Base - 1 /\ IntMax[Len(IntMax)] < Base - 1

\* Powers of Base, which the loops of the parsers multiply up.
Power[n \in Nat] == IF n = 0 THEN 1 ELSE Power[n - 1] * Base

\* Narrower numbers have fewer digits than the greatest ones.
ASSUME NarrowAssumption ==
  /\ NarrowMax \in Nat /\ NarrowMax + 1 < Power[Len(IntMax) - 1]
  /\ NarrowUintMax \in Nat /\ NarrowUintMax < Power[Len(UintMax) - 1]

\* "All ints will fit within the 31 char SSO buffer", and a word has room for
\* a terminator behind "false".
ASSUME TextAssumption ==
  /\ MaxShort \in Nat /\ MaxShort > Len(IntMax) /\ MaxShort >= Len(UintMax)
  /\ Numerals \cup {TrueText, FalseText} \subseteq Seq(Digits \cup {Minus, Point})
  /\ Word \in Nat /\ Word > Len(FalseText) /\ MaxShort >= Len(FalseText)
  /\ Len(FalseText) > Len(TrueText) /\ MaxPrecision \in Nat

VARIABLE numeral               \* the text of this behaviour

NumeralInit == numeral \in Numerals

-----------------------------------------------------------------------------
(* Printing *)

\* The remainders of n, the last of them first in the text.
DigitsOf[n \in Nat] == IF n = 0 THEN <<>> ELSE Append(DigitsOf[n \div Base], n % Base)

FromUint(n) == IF n = 0 THEN <<0>> ELSE DigitsOf[n]

FromInt(n) == IF n < 0 THEN <<Minus>> \o DigitsOf[-n] ELSE FromUint(n)

\* The digits of a fraction, whose first is not 0, without the zeroes at their end.
WithoutEndingZeroes(d, available) ==
  LET lastIndex == IF available < Len(d) - 1 THEN available ELSE Len(d) - 1
      nonzero == {i \in 1 .. lastIndex : d[i + 1] # 0}
  IN  IF lastIndex = 0 THEN d
      ELSE SubSeq(d, 1, 1 + CHOOSE i \in nonzero \cup {0} : \A j \in nonzero : j <= i)

\* Of the fraction q, in front of the point and as many decimals behind it.
FromFloat(q, precision) ==
  LET abs == IF q.over < 0 THEN -q.over ELSE q.over
      whole == abs \div q.under
      Shifted(i) == (abs % q.under) * Power[i]
      fraction == Shifted(precision) \div q.under
      zeroes == Cardinality({i \in 1 .. precision : Shifted(i) < q.under})
      wholeString == IF q.over < 0 /\ whole = 0 THEN <<Minus, 0>>
                     ELSE FromInt(IF q.over < 0 THEN -whole ELSE whole)
  IN  wholeString \o <<Point>> \o
      IF fraction = 0 THEN <<0>>
      ELSE [i \in 1 .. zeroes |-> 0] \o WithoutEndingZeroes(FromUint(fraction), precision - zeroes)

FromBool(b) == IF b THEN TrueText ELSE FalseText

-----------------------------------------------------------------------------
(* Parsing *)

AllDigits(t) == \A i \in DOMAIN t : t[i] \in Digits

\* The digits of t, each times its power.
Sum(t) ==
  LET From[i \in 0 .. Len(t)] ==
        IF i = 0 THEN 0 ELSE From[i - 1] + t[Len(t) - i + 1] * Power[i - 1]
  IN  From[Len(t)]

IsNegative(t) == t # <<>> /\ Head(t) = Minus

Unsigned(t) == IF IsNegative(t) THEN Tail(t) ELSE t

\* Mutant of IntBound: the least number has the digits of the greatest.
IntBoundSame(negative) == IntMax

IntBound(negative) ==
  IF negative THEN [IntMax EXCEPT ![Len(IntMax)] = @ + 1] ELSE IntMax

\* Of the same length as the bound: each digit is compared on its own.
AnyGreater(t, bound) == \E i \in DOMAIN bound : t[i] > bound[i]

\* A first digit smaller than the bound's ends the comparison.
IntTooGreat(t, bound) ==
  Len(t) = Len(bound) /\ Head(t) = Head(bound) /\ AnyGreater(t, bound)

UintTooGreat(t) == Len(t) = Len(UintMax) /\ AnyGreater(t, UintMax)

Signed(t, n) == IF IsNegative(t) THEN -n ELSE n

\* An i64 of the build, where overflow wraps around.
Wrapped(n) == LET half == Sum(IntMax) + 1 IN ((n + half) % (2 * half)) - half

\* A sign without digits is 0.  The digits of the least number overflow when
\* they are added up, and again when the sum changes its sign.
ParseInt(t) ==
  LET d == Unsigned(t) IN
  IF t = <<>> \/ Len(d) > Len(IntMax) \/ ~AllDigits(d) \/ IntTooGreat(d, IntBound(IsNegative(t)))
  THEN {} ELSE {Wrapped(Signed(t, Wrapped(Sum(d))))}

ParseUint(t) ==
  IF t = <<>> \/ Len(t) > Len(UintMax) \/ ~AllDigits(t) \/ UintTooGreat(t)
  THEN {} ELSE {Sum(t)}

ParseNarrow(t) == {n \in ParseInt(t) : n <= NarrowMax /\ n >= -NarrowMax - 1}

ParseNarrowUint(t) == {n \in ParseUint(t) : n <= NarrowUintMax}

\* The value as a fraction [over, under], without the rounding of a double.
ParseFloat(t) ==
  LET d == Unsigned(t)
      points == {i \in DOMAIN d : d[i] = Point}
      point == IF points = {} THEN Len(d) + 1 ELSE CHOOSE i \in points : TRUE
      whole == SubSeq(d, 1, point - 1)
      decimals == SubSeq(d, point + 1, Len(d))
  IN  IF \/ t = <<>> \/ point = Len(d)
         \/ ~AllDigits(whole) \/ ~AllDigits(decimals)
      THEN {}
      ELSE {[over |-> Signed(t, Sum(whole) * Power[Len(decimals)] + Sum(decimals)),
             under |-> Power[Len(decimals)]]}

ParseBool(t) ==
  CASE Len(t) = Len(TrueText) -> IF t = TrueText THEN {TRUE} ELSE {}
    [] Len(t) = Len(FalseText) -> IF t = FalseText THEN {FALSE} ELSE {}
    [] OTHER -> {}

-----------------------------------------------------------------------------
(* The same of a String, whose numbers and bools lie in it when they are short *)

IsShort(t) == Len(t) <= MaxShort

StringParseInt(t) == IF IsShort(t) THEN ParseInt(t) ELSE {}

StringParseUint(t) == IF IsShort(t) THEN ParseUint(t) ELSE {}

StringParseNarrow(t) == IF IsShort(t) THEN ParseNarrow(t) ELSE {}

StringParseNarrowUint(t) == IF IsShort(t) THEN ParseNarrowUint(t) ELSE {}

StringParseFloat(t) == ParseFloat(t)

\* The first word of the String, which is filled up with terminators.
MachineWord(t) == [i \in 1 .. Word |-> IF i <= Len(t) THEN {t[i]} ELSE {}]

StringParseBool(t) ==
  {b \in BOOLEAN : IsShort(t) /\ MachineWord(t) = MachineWord(FromBool(b))}

-----------------------------------------------------------------------------
(* What the texts mean *)

\* Digit by digit from the first.
Horner(d) ==
  LET Up[i \in 0 .. Len(d)] == IF i = 0 THEN 0 ELSE Up[i - 1] * Base + d[i]
  IN  Up[Len(d)]

IsUintText(t) == t # <<>> /\ AllDigits(t)
IsIntText(t) == IsUintText(Unsigned(t))
IntMeant(t) == Signed(t, Horner(Unsigned(t)))

InInt(n) == n <= Horner(IntMax) /\ n >= -Horner(IntMax) - 1

\* The digits of the greatest and of the least number.
Farthest(n) == DigitsOf[IF n < 0 THEN Horner(IntMax) + 1 ELSE Horner(IntMax)]

\* The texts that numbers are printed as.
Canonical(t) == IsIntText(t) /\ (Head(Unsigned(t)) = 0 => t = <<0>>)

\* Fewer digits than the bound, or none that is greater.
Below(d, bound) == Len(d) < Len(bound) \/ (Len(d) = Len(bound) /\ ~AnyGreater(d, bound))

\* A fraction is cut to the decimals that are asked for.
CutTo(q, precision) ==
  LET abs == IF q.over < 0 THEN -q.over ELSE q.over
      cut == (abs * Power[precision]) \div q.under
  IN  [over |-> IF q.over < 0 THEN -cut ELSE cut, under |-> Power[precision]]

SameFraction(p, q) == p.over * q.under = q.over * p.under

\* An integer is never read as another one or out of its range, nor is a text
\* that is none; numbers are read back as they were printed unless they have as
\* many digits as the greatest and one of them is greater than its digit there;
\* a text is a fraction or not as its characters say, one is read in full, and
\* what is printed of it is read back as it was cut; a bool is read back, and
\* nothing else is a bool; a String and a slice of it are parsed alike.
\*
\* The code does less than str.h says, where nothing is claimed: a sign without
\* digits is accepted as 0, though it is not a number at all (str.h:177), and
\* the exception above refuses integers in range (str.h:149).
NumbersReadBack ==
  LET t == numeral
      n == IntMeant(t)
      isFloat == \E i \in 0 .. Len(Unsigned(t)) :
        LET decimals == SubSeq(Unsigned(t), i + 1, Len(Unsigned(t))) IN
        /\ AllDigits(SubSeq(Unsigned(t), 1, i))
        /\ decimals # <<>> => /\ Head(decimals) = Point /\ IsUintText(Tail(decimals))
  IN  /\ t # <<Minus>> /\ ParseInt(t) # {} => IsIntText(t) /\ InInt(n) /\ ParseInt(t) = {n}
      /\ ParseUint(t) # {} => IsUintText(t) /\ n <= Horner(UintMax) /\ ParseUint(t) = {n}
      /\ Canonical(t) /\ InInt(n) =>
           /\ FromInt(n) = t
           /\ Below(Unsigned(t), Farthest(n)) => ParseInt(t) = {n}
           /\ n \in -NarrowMax - 1 .. NarrowMax => ParseNarrow(t) = {n}
      /\ Canonical(t) /\ n >= 0 /\ n <= Horner(UintMax) =>
           /\ FromUint(n) = t
           /\ Below(t, UintMax) => ParseUint(t) = {n}
           /\ n <= NarrowUintMax => ParseNarrowUint(t) = {n}
      /\ t # <<Minus>> => (ParseFloat(t) # {} <=> t # <<>> /\ isFloat)
      /\ IsIntText(t) => ParseFloat(t) = {[over |-> n, under |-> 1]}
      /\ \A q \in ParseFloat(t), precision \in 0 .. MaxPrecision :
           \E p \in ParseFloat(FromFloat(q, precision)) : SameFraction(p, CutTo(q, precision))
      /\ ParseBool(t) = {b \in BOOLEAN : t = FromBool(b)}
      /\ StringParseInt(t) = ParseInt(t) /\ StringParseUint(t) = ParseUint(t)
      /\ StringParseNarrow(t) = ParseNarrow(t) /\ StringParseNarrowUint(t) = ParseNarrowUint(t)
      /\ StringParseFloat(t) = ParseFloat(t) /\ StringParseBool(t) = ParseBool(t)
=============================================================================

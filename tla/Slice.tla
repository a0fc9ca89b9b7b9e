------------------------------- MODULE Slice -------------------------------
(***************************************************************************)
(* gk::Str (string/str.h, str.cpp): a slice, a pointer into characters that *)
(* lie somewhere else and a length.  At compile time its comparisons and    *)
(* searches go character by character; at run time, on slices longer than   *)
(* Threshold, over vectors of Vector characters with AVX-512 and of half as *)
(* many with AVX-2.  An index that may be missing is a set of at most one.  *)
(***************************************************************************)
EXTENDS Naturals, Sequences

CONSTANTS
  Letters,         \* the characters of slices
  Terminator,      \* what is behind the text that a slice points into
  Memories,        \* the texts that slices point into
  Patterns,        \* the texts that slices are compared with and searched for
  Vector, Threshold

ASSUME LettersAssumption ==
  Terminator \notin Letters /\ Memories \cup Patterns \subseteq Seq(Letters)
ASSUME VectorAssumption ==
  Vector \in Nat /\ Vector % 2 = 0 /\ Threshold \in Nat /\ Threshold < Vector \div 2

VARIABLES
  slice,           \* [memory, len]: its characters with all that follow them, and its length
  simd             \* "none" at compile time, or what the processor has

sliceVars == <<slice, simd>>

-----------------------------------------------------------------------------
Whole(text) == [memory |-> text, len |-> Len(text)]

Seen(s) == SubSeq(s.memory, 1, s.len)

Byte(s, i) == IF i < Len(s.memory) THEN s.memory[i + 1] ELSE Terminator

SliceSubstring(s, i, j) == [memory |-> SubSeq(s.memory, i + 1, Len(s.memory)), len |-> j - i]

SliceInit ==
  /\ \E text \in Memories : \E j \in 0 .. Len(text) : \E i \in 0 .. j :
       slice = SliceSubstring(Whole(text), i, j)
  /\ simd \in {"none", "avx2", "avx512"}

-----------------------------------------------------------------------------
(* Vectors *)

Width == IF simd = "avx2" THEN Vector \div 2 ELSE Vector

Iterations(n, w) == (n + w - 1) \div w

\* What is copied into vector i: a whole number of vectors counts as nothing.
LoadedBytes(s, i) ==
  [k \in 0 .. Width - 1 |->
     IF k < (s.len - i * Width) % Width THEN Byte(s, i * Width + k) ELSE Terminator]

\* Also with AVX-2 as many vectors as AVX-512 needs.
EqualVectors(s, p) ==
  \A i \in 0 .. Iterations(s.len, Vector) - 1 : LoadedBytes(s, i) = LoadedBytes(p, i)

LanesWith(s, c) ==
  {i \in 0 .. Iterations(s.len, Width) * Width - 1 : LoadedBytes(s, i \div Width)[i % Width] = c}

ByCharacter(s) == simd = "none" \/ s.len <= Threshold

-----------------------------------------------------------------------------
(* Comparisons and searches *)

FirstIn(S) == {i \in S : \A j \in S : i <= j}
LastIn(S) == {i \in S : \A j \in S : i >= j}

SliceEqual(s, p) ==
  /\ s.len = p.len
  /\ IF ByCharacter(s) THEN Seen(s) = Seen(p) ELSE EqualVectors(s, p)

IndicesOf(s, c, offset) == {i \in offset .. s.len - 1 : Byte(s, i) = c}

SliceFindChar(s, c) == FirstIn(IF ByCharacter(s) THEN IndicesOf(s, c, 0) ELSE LanesWith(s, c))

SliceFindFrom(s, c, offset) == FirstIn(IndicesOf(s, c, offset))

\* Of a slice that is not empty.
SliceFindLastChar(s, c) == LastIn(IndicesOf(s, c, 0))

\* Mutant of MatchesOf: a match may not end where the slice does.
MatchesOfShort(s, p) ==
  {i \in 0 .. s.len - 1 : /\ i + p.len < s.len
                          /\ \A k \in 0 .. p.len - 1 : Byte(s, i + k) = Byte(p, k)}

\* The indices where p can be read, also on behind the end of the slice.
MatchesOf(s, p) ==
  {i \in 0 .. s.len - 1 : \A k \in 0 .. p.len - 1 : Byte(s, i + k) = Byte(p, k)}

\* The cases that find and findLast begin with: also findLast asks find for a
\* single character.
SearchedFor(s, p, Pick(_)) ==
  CASE p.len = 0 -> {}
    [] p.len = 1 -> SliceFindChar(s, Byte(p, 0))
    [] p.len > 1 /\ p.len >= s.len -> IF SliceEqual(s, p) THEN {0} ELSE {}
    [] OTHER -> Pick(MatchesOf(s, p))

SliceFind(s, p) == SearchedFor(s, p, FirstIn)
SliceFindLast(s, p) == SearchedFor(s, p, LastIn)

-----------------------------------------------------------------------------
OccurrencesIn(t, p) ==
  {i \in 0 .. Len(t) - Len(p) : p # <<>> /\ SubSeq(t, i + 1, i + Len(p)) = p}

\* A slice equals the texts it reads as, and only those.
ComparedAsRead == \A p \in Patterns : SliceEqual(slice, Whole(p)) <=> Seen(slice) = p

\* A slice shorter than a vector is compared with what it reads as.  A
\* character is found where it is first or last; so is a text, in a slice that
\* ends where its memory does: behind another one, the search reads on.
SliceLookups ==
  LET t == Seen(slice)
      ends == slice.len = Len(slice.memory) IN
  simd = "none" \/ slice.len < Width =>
    /\ ComparedAsRead
    /\ \A c \in Letters :
         /\ SliceFindChar(slice, c) = FirstIn(OccurrencesIn(t, <<c>>))
         /\ t # <<>> => SliceFindLastChar(slice, c) = LastIn(OccurrencesIn(t, <<c>>))
         /\ \A i \in 0 .. slice.len + 1 :
              SliceFindFrom(slice, c, i) = FirstIn({j \in OccurrencesIn(t, <<c>>) : j >= i})
    /\ \A p \in Patterns : ends =>
         /\ SliceFind(slice, Whole(p)) = FirstIn(OccurrencesIn(t, p))
         /\ Len(p) # 1 => SliceFindLast(slice, Whole(p)) = LastIn(OccurrencesIn(t, p))
=============================================================================

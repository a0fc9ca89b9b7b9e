------------------------------- MODULE Listing -------------------------------
(***************************************************************************)
(* What gk::ArrayList promises: each list is a sequence of elements of its  *)
(* own.  Nothing is said of a list that was moved from, or given up, until   *)
(* it is assigned.  A call that gets no memory changes nothing.             *)
(***************************************************************************)
EXTENDS Naturals, SequencesExt

CONSTANTS Lists, Elements, Literals, NoElement, NoContents, Refused

VARIABLES
  contents,      \* of each list: its sequence of elements, or NoContents
  answer         \* the element that the last call removed, Refused when it got no memory,
                 \* NoContents when it gave a list up

listingVars == <<contents, answer>>

Init == contents = [l \in Lists |-> <<>>] /\ answer = NoElement

-----------------------------------------------------------------------------
(* What a call makes of a list that was s. *)

Prefix(s, n) == SubSeq(s, 1, n)
Swapped(s, i) == IF i = Len(s) THEN Front(s) ELSE [Front(s) EXCEPT ![i] = Last(s)]
SwappedIn(s, i, e) == IF i > Len(s) THEN Append(s, e) ELSE Append([s EXCEPT ![i] = e], s[i])

\* Elements are put in or at the end, behind each other, or the end is cut off.
Changed(s, t) ==
  \/ Len(t) <= Len(s) /\ t = Prefix(s, Len(t))
  \/ /\ Len(t) = Len(s) + 1
     /\ \E i \in 1 .. Len(t) : t = InsertAt(s, i, t[i]) \/ t = SwappedIn(s, i, t[i])
  \/ \E u \in Literals : t = s \o u
  \/ Len(t) > Len(s) /\ t = s \o [i \in 1 .. Len(t) - Len(s) |-> Last(t)]

Removal(s, t, e) ==
  \E i \in 1 .. Len(s) : e = s[i] /\ (t = RemoveAt(s, i) \/ t = Swapped(s, i))

-----------------------------------------------------------------------------
\* Only l is changed.
Alone(c, d, l) == d = [c EXCEPT ![l] = d[l]]

Step(c, d, r) ==
  \/ r \in {NoElement, Refused} /\ d = c
  \/ \E l \in Lists :
       \/ /\ Alone(c, d, l)
          /\ \/ r = NoElement /\ d[l] \in Literals \cup {<<>>}
             \/ r = NoElement /\ NoContents \notin {c[l], d[l]} /\ Changed(c[l], d[l])
             \/ r = NoContents /\ c[l] # NoContents /\ d[l] = NoContents
             \/ c[l] # NoContents /\ Removal(c[l], d[l], r)
             \/ \E k \in Lists :
                  /\ r = NoElement /\ c[k] # NoContents
                  /\ d[l] = c[k] \/ (c[l] # NoContents /\ d[l] = c[l] \o c[k])
       \/ \E k \in Lists \ {l}, rest \in {<<>>, NoContents} :
            r = NoElement /\ d = [c EXCEPT ![l] = c[k], ![k] = rest]

Next == \E c \in {contents}, d \in {contents'} : Step(c, d, answer')

Spec == Init /\ [][Next]_listingVars
=============================================================================

----------------------------- MODULE TextValues -----------------------------
(***************************************************************************)
(* What gk::String promises: each string is a text of its own.  Nothing is  *)
(* said of a string that was moved from until it is assigned.               *)
(***************************************************************************)
EXTENDS Naturals, Sequences

CONSTANTS Strings, Texts, NoText

VARIABLE text          \* of each string: its text, or NoText

Init == text = [s \in Strings |-> <<>>]

-----------------------------------------------------------------------------
(* A call takes the texts t to u. *)

Write(t, u, s, v) == u = [t EXCEPT ![s] = v]

Move(t, u, s, o) == u = [t EXCEPT ![s] = t[o], ![o] = NoText]

Concatenate(t, u, s, o, v) ==
  t[o] # NoText /\ (Write(t, u, s, t[o] \o v) \/ Write(t, u, s, v \o t[o]))

ConcatenateBoth(t, u, s, o, p) ==
  t[o] # NoText /\ t[p] # NoText /\ Write(t, u, s, t[o] \o t[p])

Cut(t, u, s, o) ==
  t[o] # NoText /\ \E i, j \in 1 .. Len(t[o]) : Write(t, u, s, SubSeq(t[o], i, j))

Step(t, u) ==
  \E s, o \in Strings :
    \/ t[o] # NoText /\ Write(t, u, s, t[o])
    \/ \E v \in Texts : Write(t, u, s, v) \/ Concatenate(t, u, s, o, v)
    \/ s # o /\ Move(t, u, s, o)
    \/ \E p \in Strings : ConcatenateBoth(t, u, s, o, p)
    \/ Cut(t, u, s, o)

Next == \E t \in {text}, u \in {text'} : Step(t, u)

Spec == Init /\ [][Next]_text
=============================================================================

----------------------------- MODULE Dictionary -----------------------------
(***************************************************************************)
(* What gk::HashMap and gk::JsonObject promise: each object is a finite map *)
(* from keys to values, insert keeps the value of a key that is there, and  *)
(* a copy is independent of what it was copied from.                        *)
(***************************************************************************)
CONSTANTS
  Objects, Keys, Values,
  NoValue        \* "the key is not there"

VARIABLES
  dict,          \* of each object: the value of each key, or NoValue
  result         \* what the last lookup, insertion or erasure said of its key

dictVars == <<dict, result>>

Nothing == [k \in Keys |-> NoValue]

Init == dict = [o \in Objects |-> Nothing] /\ result = NoValue

-----------------------------------------------------------------------------
(* A call takes the contents d of the objects to e and says r. *)

Insert(d, e, r, o, k, v) ==
  /\ e = IF d[o][k] = NoValue THEN [d EXCEPT ![o][k] = v] ELSE d
  /\ r = d[o][k]

Find(d, e, r, o, k) == e = d /\ r = d[o][k]

Erase(d, e, r, o, k) == e = [d EXCEPT ![o][k] = NoValue] /\ r = d[o][k]

Copy(d, e, r, o, p) == e = [d EXCEPT ![o] = d[p]] /\ r = NoValue

Move(d, e, r, o, p) == e = [d EXCEPT ![o] = d[p], ![p] = Nothing] /\ r = NoValue

Clear(d, e, r, o) == e = [d EXCEPT ![o] = Nothing] /\ r = NoValue

\* A call that is about no key.
Other(d, e, r) == e = d /\ r = NoValue

Step(d, e, r) ==
  \/ Other(d, e, r)
  \/ \E o \in Objects :
       \/ Clear(d, e, r, o)
       \/ \E k \in Keys : Find(d, e, r, o, k) \/ Erase(d, e, r, o, k)
                          \/ \E v \in Values : Insert(d, e, r, o, k, v)
       \/ \E p \in Objects : Copy(d, e, r, o, p) \/ Move(d, e, r, o, p)

Next == \E d \in {dict}, e \in {dict'} : Step(d, e, result')

Spec == Init /\ [][Next]_dictVars
=============================================================================

------------------------------- MODULE Tables -------------------------------
(***************************************************************************)
(* The two hash tables of the library, of which a behaviour uses one: they  *)
(* share keys and hashes, not state.                                       *)
(***************************************************************************)
EXTENDS HashMap, JsonObject

VARIABLE subject     \* the table this behaviour is about

tableVars == <<mapVars, objectVars, subject>>

Init == InitMaps /\ InitObjects /\ subject \in {"HashMap", "JsonObject"}

Next ==
  \/ subject = "HashMap" /\ MapNext /\ UNCHANGED <<objectVars, subject>>
  \/ subject = "JsonObject" /\ ObjectNext /\ UNCHANGED <<mapVars, subject>>

Spec == Init /\ [][Next]_tableVars

\* A HashMap counts its pairs, and a JsonObject its fields and what eraseField and
\* assignments took from it, whatever is added, erased, copied and moved: a count
\* that is too low makes find and insert overlook what is there.
NothingUncounted == CountsExact /\ FieldsAccounted

\* A loop over a map or an object has each pair once, wherever the free slots,
\* the empty groups and the empty buckets are, and none that was erased.
IterationVisits == IterationVisitsAll /\ IterationVisitsFields

\* A HashMap is a finite map for its clients, and a JsonObject for those that do
\* not ask for erased names, however both grow, move and share their slots.
DictionarySpec == MapDictionarySpec /\ ObjectDictionarySpec
=============================================================================

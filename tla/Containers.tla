----------------------------- MODULE Containers -----------------------------
(***************************************************************************)
(* The ring queue, the array lists, the string, the testing allocator, the   *)
(* types that hold one thing, the text of JSON objects, what structs are    *)
(* serialized to, slices, the text of numbers, what is composed of text and  *)
(* what is counted as UTF-8, and the guards of locks, of which a behaviour is *)
(* about one: they have no state in common.                                *)
(***************************************************************************)
EXTENDS RingQueue, UnmanagedList, String, Allocator, Holders, Serialization, Slice, ComposedText,
        Utf8, Guards

VARIABLE subject     \* what this behaviour is about

\* What is printed, parsed, compared or searched, and does not change.
constant == <<document, struct, sliceVars, numeral, composed, bytes>>

containerVars == <<ringVars, listVars, strings, allocVars, holderVars, guardVars, constant, subject>>

ListSubjects == {"ArrayList", "ArrayListUnmanaged"}

Subjects ==
  ListSubjects \cup
  {"RingQueue", "String", "Allocator", "Holders", "JsonText", "Serialization", "Slice", "Numerals",
   "ComposedText", "Utf8", "Guards"}

Init ==
  /\ RingInit /\ StringInit /\ subject \in Subjects
  /\ ListInit /\ (subject \notin ListSubjects => lanes = 0)
  /\ AllocInit /\ (subject # "Allocator" => careful)
  /\ GuardsInit /\ (subject # "Guards" => primitive = "Mutex")
  /\ HolderInit /\ (subject # "Holders" => kind = "UniquePtr")
  /\ IF subject = "JsonText" THEN JsonInit ELSE document = Object(<<>>)
  /\ IF subject = "Serialization" THEN StructInit ELSE struct = [fields |-> <<>>, value |-> <<>>]
  /\ IF subject = "Slice" THEN SliceInit ELSE slice = Whole(<<>>) /\ simd = "none"
  /\ IF subject = "Numerals" THEN NumeralInit ELSE numeral = <<>>
  /\ IF subject = "ComposedText" THEN ComposedInit ELSE composed = [of |-> "ints", items |-> <<>>]
  /\ IF subject = "Utf8" THEN Utf8Init ELSE bytes = <<>>

Next ==
  \/ /\ subject = "RingQueue" /\ RingNextStep
     /\ UNCHANGED <<listVars, strings, allocVars, holderVars, guardVars, constant, subject>>
  \/ /\ \/ subject = "ArrayList" /\ ListNext
        \/ subject = "ArrayListUnmanaged" /\ UnmanagedNext
     /\ UNCHANGED <<ringVars, strings, allocVars, holderVars, guardVars, constant, subject>>
  \/ /\ subject = "String" /\ StringNext
     /\ UNCHANGED <<ringVars, listVars, allocVars, holderVars, guardVars, constant, subject>>
  \/ /\ subject = "Allocator" /\ AllocNext
     /\ UNCHANGED <<ringVars, listVars, strings, holderVars, guardVars, constant, subject>>
  \/ /\ subject = "Holders" /\ HolderNext
     /\ UNCHANGED <<ringVars, listVars, strings, allocVars, guardVars, constant, subject>>
  \/ /\ subject = "Guards" /\ GuardsNext
     /\ UNCHANGED <<ringVars, listVars, strings, allocVars, holderVars, constant, subject>>

Spec == Init /\ [][Next]_containerVars
=============================================================================

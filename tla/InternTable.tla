---------------------------- MODULE InternTable -----------------------------
(***************************************************************************)
(* What gk::GlobalString promises: one table of distinct strings that only  *)
(* grows, in which a string's id is its place for good; every call of every *)
(* thread is answered from the table at one instant.                        *)
(***************************************************************************)
EXTENDS Integers, Sequences

CONSTANTS Threads, Strings, Empty, Ids

VARIABLES
  table,      \* the strings, in the order of their ids
  asked,      \* of each thread: the call that waits for its answer
  gstr,       \* of each thread: the id it was answered last
  text,       \* of each thread: the text it was answered
  valid       \* of each thread: the test it was answered

internVars == <<table, asked, gstr, text, valid>>

\* A call has one argument: a string, or an id.
Requests ==
  [op : {"create", "find", "exists"}, str : Strings, id : {0}]
    \cup [op : {"text", "valid"}, str : {Empty}, id : Ids]

Nothing == [op |-> "nothing", str |-> Empty, id |-> 0]

Known(s) == \E i \in DOMAIN table : table[i] = s
IdOf(s) == (CHOOSE i \in DOMAIN table : table[i] = s) - 1

Init ==
  /\ table = <<Empty>>
  /\ asked = [t \in Threads |-> Nothing]
  /\ gstr = [t \in Threads |-> 0]
  /\ text = [t \in Threads |-> Empty]
  /\ valid = [t \in Threads |-> FALSE]

Ask(t, r) ==
  /\ asked[t] = Nothing
  /\ asked' = [asked EXCEPT ![t] = r]
  /\ UNCHANGED <<table, gstr, text, valid>>

Answered(t, op) == asked[t].op = op /\ asked' = [asked EXCEPT ![t] = Nothing]

\* The string's id; a string that is not in the table becomes its last one.
Create(t) == LET s == asked[t].str IN
  /\ Answered(t, "create")
  /\ table' = IF Known(s) THEN table ELSE Append(table, s)
  /\ gstr' = [gstr EXCEPT ![t] = IF Known(s) THEN IdOf(s) ELSE Len(table)]
  /\ UNCHANGED <<text, valid>>

\* The string's id, or that of the empty string.
Find(t) == LET s == asked[t].str IN
  /\ Answered(t, "find")
  /\ gstr' = [gstr EXCEPT ![t] = IF Known(s) THEN IdOf(s) ELSE 0]
  /\ UNCHANGED <<table, text, valid>>

Text(t) == LET i == asked[t].id IN
  /\ Answered(t, "text")
  /\ i < Len(table)
  /\ text' = [text EXCEPT ![t] = table[i + 1]]
  /\ UNCHANGED <<table, gstr, valid>>

Exists(t) ==
  /\ Answered(t, "exists")
  /\ valid' = [valid EXCEPT ![t] = Known(asked[t].str)]
  /\ UNCHANGED <<table, gstr, text>>

Valid(t) ==
  /\ Answered(t, "valid")
  /\ valid' = [valid EXCEPT ![t] = asked[t].id < Len(table)]
  /\ UNCHANGED <<table, gstr, text>>

\* The client is done with the text or the test.
Forget(t) ==
  /\ asked[t] = Nothing
  /\ text' = [text EXCEPT ![t] = Empty]
  /\ valid' = [valid EXCEPT ![t] = FALSE]
  /\ UNCHANGED <<table, asked, gstr>>

Next == \E t \in Threads :
  \/ \E r \in Requests : Ask(t, r)
  \/ Create(t) \/ Find(t) \/ Text(t) \/ Exists(t) \/ Valid(t)
  \/ Forget(t)

Spec == Init /\ [][Next]_internVars
=============================================================================

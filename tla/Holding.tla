------------------------------ MODULE Holding ------------------------------
(***************************************************************************)
(* What the types that hold one thing promise.  A thing that is owned is in *)
(* one holder at a time, goes from one to another, or to the client, and is *)
(* destroyed once, when its holder is emptied.  A binding to a function is  *)
(* shared: holders of it are copies, and nothing is destroyed.              *)
(***************************************************************************)
CONSTANTS Holders, Things

VARIABLES
  has,       \* of each holder: the thing in it, as a set
  fate,      \* of each thing: is it "unborn", "held", the "client"'s, or "dead"?
  call,      \* the last call, as who made it sees it
  shared     \* do the holders share what they hold?

holdingVars == <<has, fate, call, shared>>

Init ==
  /\ has = [h \in Holders |-> {}]
  /\ fate = [t \in Things |-> "unborn"]
  /\ call = <<"none">>
  /\ shared \in BOOLEAN

\* The things of S, which are owned, come to f.
Come(S, f) == [t \in Things |-> IF t \in S /\ ~shared THEN f ELSE fate[t]]

\* A new thing, or one of the client, replaces what is in h.
Put(h, t) ==
  /\ call' = <<"put", h, t>>
  /\ shared \/ fate[t] \in {"unborn", "client"}
  /\ has' = [has EXCEPT ![h] = {t}]
  /\ fate' = IF shared THEN fate ELSE [Come(has[h], "dead") EXCEPT ![t] = "held"]

Drop(h) ==
  /\ call' = <<"drop", h>>
  /\ has' = [has EXCEPT ![h] = {}]
  /\ fate' = Come(has[h], "dead")

\* A holder that is moved to itself loses what it holds.
Move(g, h) ==
  /\ call' = <<"move", g, h>>
  /\ has' = [has EXCEPT ![h] = has[g], ![g] = {}]
  /\ fate' = Come(has[h], "dead")

Copy(g, h) ==
  /\ call' = <<"copy", g, h>>
  /\ shared
  /\ has' = [has EXCEPT ![h] = has[g]]
  /\ UNCHANGED fate

Swap(g, h) ==
  /\ call' = <<"swap", g, h>>
  /\ has' = [has EXCEPT ![h] = has[g], ![g] = has[h]]
  /\ UNCHANGED fate

\* The client gets something.
Take(h) ==
  /\ call' = <<"take", h>>
  /\ has[h] # {}
  /\ has' = [has EXCEPT ![h] = {}]
  /\ fate' = Come(has[h], "client")

Next ==
  /\ \/ \E h \in Holders, t \in Things : Put(h, t)
     \/ \E h \in Holders : Drop(h) \/ Take(h)
     \/ \E g, h \in Holders : Move(g, h) \/ Copy(g, h) \/ Swap(g, h)
  /\ UNCHANGED shared

Spec == Init /\ [][Next]_holdingVars
=============================================================================

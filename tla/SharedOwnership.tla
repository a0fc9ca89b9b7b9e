-------------------------- MODULE SharedOwnership --------------------------
(***************************************************************************)
(* What a shared pointer promises: an object has a set of owners, it lives *)
(* while it has one, and once the last is gone it is destroyed and nobody  *)
(* can own it again.                                                       *)
(***************************************************************************)
CONSTANTS Handles, Objects

VARIABLES
  owners,   \* the handles that own each object
  alive     \* has the object been created and not destroyed?

ownVars == <<owners, alive>>

Init ==
  /\ owners = [o \in Objects |-> {}]
  /\ alive = [o \in Objects |-> FALSE]

Owns(h) == {o \in Objects : h \in owners[o]}

Create(o, h) ==
  /\ ~alive[o]
  /\ Owns(h) = {}
  /\ alive' = [alive EXCEPT ![o] = TRUE]
  /\ owners' = [owners EXCEPT ![o] = {h}]

\* Only an owned object can get another owner.
Share(o, h) ==
  /\ owners[o] # {}
  /\ Owns(h) = {}
  /\ owners' = [owners EXCEPT ![o] = @ \cup {h}]
  /\ UNCHANGED alive

Release(o, h) ==
  /\ h \in owners[o]
  /\ owners' = [owners EXCEPT ![o] = @ \ {h}]
  /\ UNCHANGED alive

\* Two handles exchange what they own, nothing included.
Exchange(g, h) ==
  /\ owners' = [o \in Objects |->
                  {x \in Handles : \/ x = g /\ h \in owners[o]
                                   \/ x = h /\ g \in owners[o]
                                   \/ x \notin {g, h} /\ x \in owners[o]}]
  /\ UNCHANGED alive

Destroy(o) ==
  /\ alive[o] /\ owners[o] = {}
  /\ alive' = [alive EXCEPT ![o] = FALSE]
  /\ UNCHANGED owners

Next ==
  \/ \E o \in Objects, h \in Handles : Create(o, h) \/ Share(o, h) \/ Release(o, h)
  \/ \E g, h \in Handles : Exchange(g, h)
  \/ \E o \in Objects : Destroy(o)

Spec == Init /\ [][Next]_ownVars
=============================================================================

-------------------------------- MODULE Fifo --------------------------------
(***************************************************************************)
(* What gk::RingQueue promises: a queue of bounded length that gives its    *)
(* elements back in the order they came.                                    *)
(***************************************************************************)
EXTENDS Naturals, Sequences

CONSTANTS Queues, Items, Bounds, NoItem

VARIABLES
  fifo,          \* of each place: its queue, [items, bound]
  answer         \* what the last call took out of a queue

fifoVars == <<fifo, answer>>

\* What is in a place without a queue: one with no room.
NoQueue == [items |-> <<>>, bound |-> 0]

Init == fifo = [q \in Queues |-> NoQueue] /\ answer = NoItem

Create(f, r, q, c) == f = [fifo EXCEPT ![q] = [items |-> <<>>, bound |-> c]] /\ r = NoItem

Put(f, r, q, e) ==
  /\ Len(fifo[q].items) < fifo[q].bound
  /\ f = [fifo EXCEPT ![q].items = Append(@, e)]
  /\ r = NoItem

Take(f, r, q) ==
  /\ fifo[q].items # <<>>
  /\ f = [fifo EXCEPT ![q].items = Tail(@)]
  /\ r = Head(fifo[q].items)

\* Of a queue that was moved nothing is left behind.
HandOver(f, r, q, p) ==
  f = [fifo EXCEPT ![q] = fifo[p], ![p] = NoQueue] /\ r = NoItem

Drop(f, r, q) == f = [fifo EXCEPT ![q] = NoQueue] /\ r = NoItem

\* A call that is about no element.
Other(f, r) == f = fifo /\ r = NoItem

Step(f, r) ==
  \/ Other(f, r)
  \/ \E q \in Queues :
       \/ \E c \in Bounds : Create(f, r, q, c)
       \/ \E e \in Items : Put(f, r, q, e)
       \/ Take(f, r, q)
       \/ \E p \in Queues \ {q} : HandOver(f, r, q, p)
       \/ Drop(f, r, q)

Next == Step(fifo', answer')

Spec == Init /\ [][Next]_fifoVars
=============================================================================

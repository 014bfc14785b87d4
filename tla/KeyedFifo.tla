------------------------------ MODULE KeyedFifo ------------------------------
(***************************************************************************)
(* What KeyArrayBlockingQueue promises: a bounded first-in first-out queue *)
(* that ignores an element it holds already.                               *)
(***************************************************************************)
EXTENDS Sequences, Naturals

CONSTANTS Elements, Bound, Contents

VARIABLE fifo  \* the elements, oldest first

Holds(e) == \E i \in DOMAIN fifo : fifo[i] = e

Init == fifo \in Contents

Insert(e) ==
  /\ ~Holds(e)
  /\ Len(fifo) < Bound
  /\ fifo' = Append(fifo, e)

Extract(n) ==
  /\ n <= Len(fifo)
  /\ fifo' = SubSeq(fifo, n + 1, Len(fifo))

Next == (\E e \in Elements : Insert(e)) \/ (\E n \in 1..Bound : Extract(n))

Spec == Init /\ [][Next]_fifo
=============================================================================

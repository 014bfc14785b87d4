---------------------- MODULE KeyArrayBlockingQueueItrs ----------------------
(***************************************************************************)
(* The iterators of KeyArrayBlockingQueue (classes Itrs and Itr): how the  *)
(* queue tells the iterators it tracks that slots moved under them, and    *)
(* how an iterator catches up.  Everything here runs under the queue's     *)
(* lock, so these are functions.                                           *)
(*                                                                         *)
(* The tracked iterators are a set: a sweep probes at least four of them,  *)
(* which finds every detached one as long as there are at most four.       *)
(* itrs = null is the empty set, whose count of cycles starts over.        *)
(***************************************************************************)
EXTENDS Integers

CONSTANTS
  Capacity,   \* items.length
  Iterators,  \* the Itr objects
  Null        \* no element

ASSUME CapacityAssumption == Capacity \in Nat \ {0}

NONE     == -1
REMOVED  == -2
DETACHED == -3

Slots == 0..(Capacity - 1)

\* Mutant of Inc: no way back to 0.
IncOn(i) == i + 1

\* ++i, back to 0 at the end of the array.
Inc(i) == IF i + 1 = Capacity THEN 0 ELSE i + 1

\* dec(i)
Dec(i) == (IF i = 0 THEN Capacity ELSE i) - 1

\* How far index lies behind a take index.
Distance(index, take) ==
  IF index < take THEN index - take + Capacity ELSE index - take

\* An iterator that is not in use.
NoItr ==
  [cursor |-> NONE, nextItem |-> Null, nextIndex |-> NONE, lastItem |-> Null,
   lastRet |-> NONE, prevTakeIndex |-> DETACHED, prevCycles |-> 0]

NoItrs == [cycles |-> 0, tracked |-> {}, it |-> [i \in Iterators |-> NoItr]]

IsDetached(it) == it.prevTakeIndex < 0

\* The iterators in T are tracked from now on.
Track(s, T) == [s EXCEPT !.tracked = T, !.cycles = IF T = {} THEN 0 ELSE @]

\* doSomeSweeping()
Sweep(s) == Track(s, {i \in s.tracked : ~IsDetached(s.it[i])})

\* Itr.shutdown(): only the element that hasNext() promised is still returned.
ShutdownItr(it) ==
  [it EXCEPT !.cursor = NONE,
             !.nextIndex = IF @ >= 0 THEN REMOVED ELSE @,
             !.lastItem = IF it.lastRet >= 0 THEN Null ELSE @,
             !.lastRet = IF @ >= 0 THEN REMOVED ELSE @,
             !.prevTakeIndex = DETACHED]

\* queueIsEmpty()
QueueIsEmpty(s) ==
  [NoItrs EXCEPT !.it = [i \in Iterators |->
     IF i \in s.tracked THEN ShutdownItr(s.it[i]) ELSE s.it[i]]]

\* Mutant of TakeIndexWrapped: the cycle is not counted.
NotWrapped(s) == s

\* Itr.takeIndexWrapped(): an iterator that is more than a cycle behind gives up.
ItrTakeIndexWrapped(it, cycles) ==
  IF ~IsDetached(it) /\ cycles - it.prevCycles > 1 THEN ShutdownItr(it) ELSE it

\* Itrs.takeIndexWrapped()
TakeIndexWrapped(s) ==
  LET cycles == s.cycles + 1
  IN  Sweep([s EXCEPT !.cycles = cycles,
                      !.it = [i \in Iterators |->
                        IF i \in s.tracked THEN ItrTakeIndexWrapped(s.it[i], cycles) ELSE s.it[i]]])

\* elementDequeued(), with the new take index and count.
ElementDequeued(s, take, count) ==
  IF count = 0 THEN QueueIsEmpty(s)
  ELSE IF take = 0 /\ s.tracked # {} THEN TakeIndexWrapped(s)
  ELSE s

\* Mutant of Follow: an index behind the removed slot stays.
Stay(index, take, gap, at) ==
  IF index >= 0 /\ Distance(index, take) = gap THEN at ELSE index

\* One index of an iterator when the slot at a distance of gap is removed; at is
\* what becomes of the index of that very slot.
Follow(index, take, gap, at) ==
  IF index < 0 \/ Distance(index, take) < gap THEN index
  ELSE IF Distance(index, take) = gap THEN at ELSE Dec(index)

\* Itr.removedAt(removed), with the queue's take index and new put index.
ItrRemovedAt(it, cycles, removed, take, put) ==
  LET gap == (cycles - it.prevCycles + IF removed < take THEN 1 ELSE 0) * Capacity
               + removed - it.prevTakeIndex
      new == [it EXCEPT
                !.cursor = Follow(@, it.prevTakeIndex, gap, IF @ = put THEN NONE ELSE @),
                !.lastRet = Follow(@, it.prevTakeIndex, gap, REMOVED),
                !.nextIndex = Follow(@, it.prevTakeIndex, gap, REMOVED)]
  IN  IF it.nextIndex < 0 /\ new.cursor < 0 /\ new.lastRet < 0
      THEN [new EXCEPT !.prevTakeIndex = DETACHED] ELSE new

\* Itrs.removedAt(removed)
RemovedAt(s, removed, take, put) ==
  Sweep([s EXCEPT !.it = [i \in Iterators |->
    IF i \in s.tracked /\ ~IsDetached(s.it[i])
    THEN ItrRemovedAt(s.it[i], s.cycles, removed, take, put) ELSE s.it[i]]])

\* detach()
Detach(s, i) ==
  IF IsDetached(s.it[i]) THEN s ELSE Sweep([s EXCEPT !.it[i].prevTakeIndex = DETACHED])

\* incorporateDequeues(), called when i is not detached: an index whose slot was
\* dequeued meanwhile is given up, and the cursor moves on to the take index.
IncorporateDequeues(s, i, take) ==
  LET it == s.it[i]
      dequeues == (s.cycles - it.prevCycles) * Capacity + take - it.prevTakeIndex
      Invalidated(index) == index >= 0 /\ dequeues > Distance(index, it.prevTakeIndex)
      new == [it EXCEPT !.lastRet = IF Invalidated(@) THEN REMOVED ELSE @,
                        !.nextIndex = IF Invalidated(@) THEN REMOVED ELSE @,
                        !.cursor = IF Invalidated(@) THEN take ELSE @]
      caught == [s EXCEPT !.it[i] = new]
  IN  IF dequeues = 0 THEN s
      ELSE IF new.cursor < 0 /\ new.nextIndex < 0 /\ new.lastRet < 0 THEN Detach(caught, i)
      ELSE [caught EXCEPT !.it[i].prevCycles = s.cycles, !.it[i].prevTakeIndex = take]

\* Mutant of CatchUp: dequeues are not incorporated.
CatchUpNot(s, i, take) == s

\* What next(), hasNext() and remove() do first.
CatchUp(s, i, take) ==
  IF IsDetached(s.it[i]) THEN s ELSE IncorporateDequeues(s, i, take)
=============================================================================

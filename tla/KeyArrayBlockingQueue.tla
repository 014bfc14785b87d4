------------------------ MODULE KeyArrayBlockingQueue ------------------------
(***************************************************************************)
(* The bounded blocking queue of dol-framework-core that holds an element  *)
(* at most once: a circular array, the set of its keys, one lock with two  *)
(* conditions, and iterators that survive concurrent changes.              *)
(*                                                                         *)
(* A step is a critical section.  A thread that waits on a condition is    *)
(* in notEmpty or notFull; once signalled it is awake, and goes on when it *)
(* gets the lock, for which any other thread may come first.  size, peek,  *)
(* contains, toArray and the like only read and are left out.              *)
(*                                                                         *)
(* An entry of the array carries, beside its element, the serial number of *)
(* its insertion: history, kept only when there are iterators.             *)
(***************************************************************************)
EXTENDS KeyArrayBlockingQueueItrs, Sequences, FiniteSets

CONSTANTS
  Elements,   \* what is queued
  Threads,    \* the callers that may wait, or be between two steps of a call
  Methods,    \* the methods the clients use
  Contents,   \* the collections given to the constructor
  MaxSerial,  \* bound: insertions, when there are iterators
  MaxRemoves  \* bound: calls of remove(e)

Entries == [elem : Elements, no : Nat]

ASSUME QueueAssumption ==
  /\ Null \notin Elements \cup Entries
  /\ Methods \subseteq {"put", "timedOffer", "offer", "take", "timedPoll", "poll",
                        "remove", "clear", "drainTo"}
  /\ Contents \subseteq Seq(Elements)
  /\ \A c \in Contents : Len(c) <= Capacity
  /\ MaxSerial \in Nat /\ MaxRemoves \in Nat

VARIABLES
  items, keys, takeIndex, putIndex, count,
  notEmpty, notFull,  \* the condition queues
  awake,              \* threads signalled, or timed out, that do not have the lock yet
  call,               \* per thread: the call it is in
  itrs,               \* the iterators
  serial,             \* the serial number of the next insertion
  removes,            \* how often remove(e) was called
  seen                \* per iterator: since when it is open, the entry it returned last

array == <<items, keys, takeIndex, putIndex, count, serial>>
waits == <<notEmpty, notFull, awake, call>>
vars == <<array, waits, itrs, removes, seen>>

NoCall == [op |-> "none", elem |-> Null, left |-> TRUE]
Calls == [op : {"none", "put", "timedOffer", "take", "timedPoll", "remove"},
          elem : Elements \cup {Null}, left : BOOLEAN]

\* No call, or the constructor that copies a collection.
Init ==
  \E c \in Contents :
    /\ items = [i \in Slots |-> IF i < Len(c) THEN [elem |-> c[i + 1], no |-> i + 1] ELSE Null]
    /\ keys = {c[i] : i \in DOMAIN c}
    /\ takeIndex = 0
    /\ putIndex = IF Len(c) = Capacity THEN 0 ELSE Len(c)
    /\ count = Len(c)
    /\ notEmpty = <<>> /\ notFull = <<>> /\ awake = {}
    /\ call = [t \in Threads |-> NoCall]
    /\ itrs = NoItrs
    /\ serial = Len(c) + 1 /\ removes = 0
    /\ seen = [i \in Iterators |-> [open |-> FALSE, since |-> 0, last |-> Null]]

-----------------------------------------------------------------------------
(* Conditions.                                                             *)

\* signal(), n times: the oldest waiting threads wake up.
Signalled(cond, n) == {cond[i] : i \in {j \in DOMAIN cond : j <= n}}
Unsignalled(cond, n) == SubSeq(cond, n + 1, Len(cond))

\* n signals of notFull: room was made.
SignalNotFull(n) ==
  /\ notFull' = Unsignalled(notFull, n)
  /\ UNCHANGED notEmpty

-----------------------------------------------------------------------------
(* The array.                                                              *)

Bounded == Iterators = {} \/ serial <= MaxSerial

\* Mutant of Signals: only an empty queue signals.
SignalsIfEmpty(e) == IF e \in keys \/ count > 0 THEN 0 ELSE 1

\* The signals of notEmpty that enqueue(e) sends.
Signals(e) == IF e \in keys THEN 0 ELSE 1

\* Whom it wakes.
Woken(e) == Signalled(notEmpty, Signals(e))

\* Mutant of Enqueue: no look at the keys.
EnqueueAgain(e) ==
  /\ items' = [items EXCEPT ![putIndex] = [elem |-> e, no |-> serial]]
  /\ keys' = keys \cup {e}
  /\ putIndex' = Inc(putIndex)
  /\ count' = count + 1
  /\ notEmpty' = Unsignalled(notEmpty, Signals(e))
  /\ UNCHANGED <<takeIndex, serial>>

\* enqueue(e): an element whose key is there is dropped, without a signal.
Enqueue(e) ==
  IF e \in keys
  THEN UNCHANGED <<array, notEmpty>>
  ELSE /\ items' = [items EXCEPT ![putIndex] = [elem |-> e, no |-> serial]]
       /\ keys' = keys \cup {e}
       /\ putIndex' = Inc(putIndex)
       /\ count' = count + 1
       /\ serial' = IF Iterators = {} THEN serial ELSE serial + 1
       /\ notEmpty' = Unsignalled(notEmpty, Signals(e))
       /\ UNCHANGED takeIndex

\* Mutant of RemoveFront: the key stays.
RemoveFrontKeepKey ==
  /\ items' = [items EXCEPT ![takeIndex] = Null]
  /\ takeIndex' = Inc(takeIndex)
  /\ count' = count - 1
  /\ UNCHANGED <<keys, putIndex, serial>>

\* The front slot is emptied, its key with it, and the iterators are told.
RemoveFront ==
  /\ items' = [items EXCEPT ![takeIndex] = Null]
  /\ keys' = keys \ {items[takeIndex].elem}
  /\ takeIndex' = Inc(takeIndex)
  /\ count' = count - 1
  /\ UNCHANGED <<putIndex, serial>>

\* dequeue()
Dequeue ==
  /\ RemoveFront
  /\ itrs' = ElementDequeued(itrs, Inc(takeIndex), count - 1)
  /\ SignalNotFull(1)

Last == Dec(putIndex)

\* Mutant of Closed: the slots behind do not move up.
Punched(r) == [items EXCEPT ![r] = Null]

\* The items after slot r has been closed up.
Closed(r) ==
  [j \in Slots |->
     IF j = Last THEN Null
     ELSE IF /\ Distance(j, takeIndex) >= Distance(r, takeIndex)
             /\ Distance(j, takeIndex) < Distance(Last, takeIndex)
     THEN items[Inc(j)]
     ELSE items[j]]

\* removeAt(r).  The key taken away is that of the last item, which is what the
\* last slot still holds when the others have moved up.
RemoveAt(r) ==
  /\ IF r = takeIndex THEN RemoveFront
     ELSE /\ items' = Closed(r)
          /\ keys' = keys \ {items[Last].elem}
          /\ putIndex' = Last
          /\ count' = count - 1
          /\ UNCHANGED <<takeIndex, serial>>
  /\ SignalNotFull(1)

\* What removeAt(r) tells the iterators s.
TellRemoved(s, r) ==
  IF r = takeIndex THEN ElementDequeued(s, Inc(takeIndex), count - 1)
  ELSE RemovedAt(s, r, takeIndex, Last)

Occupied == {i \in Slots : items[i] # Null}

-----------------------------------------------------------------------------
(* Calls that may wait.  c is the call of thread t; t is not awake any     *)
(* more once it has the lock.                                              *)

Return(t, woken) ==
  /\ call' = [call EXCEPT ![t] = NoCall]
  /\ awake' = (awake \ {t}) \cup woken

\* The end of an iteration that did not get what it waits for: a call whose
\* time is over returns.
WaitOrGiveUp(t, c) ==
  \/ /\ c.left
     /\ call' = [call EXCEPT ![t] = c]
     /\ awake' = awake \ {t}
     /\ IF c.op \in {"put", "timedOffer"}
        THEN notFull' = Append(notFull, t) /\ UNCHANGED notEmpty
        ELSE notEmpty' = Append(notEmpty, t) /\ UNCHANGED notFull
  \/ /\ c.op \in {"timedOffer", "timedPoll"}
     /\ Return(t, {})
     /\ UNCHANGED <<notEmpty, notFull>>

\* The loop of put(e) and offer(e, timeout, unit).
Insert(t, c) ==
  \/ /\ count < Capacity
     /\ Enqueue(c.elem)
     /\ Return(t, Woken(c.elem))
     /\ UNCHANGED <<notFull, itrs, seen, removes>>
  \/ /\ count = Capacity
     /\ WaitOrGiveUp(t, c)
     /\ UNCHANGED <<array, itrs, seen, removes>>

\* The loop of take() and poll(timeout, unit).
Extract(t, c) ==
  \/ /\ count > 0
     /\ Dequeue
     /\ Return(t, Signalled(notFull, 1))
     /\ UNCHANGED <<seen, removes>>
  \/ /\ count = 0
     /\ WaitOrGiveUp(t, c)
     /\ UNCHANGED <<array, itrs, seen, removes>>

Call(op, e) == [op |-> op, elem |-> e, left |-> TRUE]

Put(t, e) ==
  /\ call[t] = NoCall /\ Bounded
  /\ \E op \in Methods \cap {"put", "timedOffer"} : Insert(t, Call(op, e))

Take(t) ==
  /\ call[t] = NoCall
  /\ \E op \in Methods \cap {"take", "timedPoll"} : Extract(t, Call(op, Null))

\* A thread that was woken gets the lock.
Resume(t) ==
  /\ t \in awake
  /\ \/ call[t].op \in {"put", "timedOffer"} /\ Bounded /\ Insert(t, call[t])
     \/ call[t].op \in {"take", "timedPoll"} /\ Extract(t, call[t])

\* A thread is in a condition queue at most once.
Leave(cond, t) ==
  LET i == CHOOSE j \in DOMAIN cond : cond[j] = t
  IN  IF \E j \in DOMAIN cond : cond[j] = t
      THEN SubSeq(cond, 1, i - 1) \o SubSeq(cond, i + 1, Len(cond)) ELSE cond

Waiting(t) == \E i \in DOMAIN notEmpty : notEmpty[i] = t
              \/ \E j \in DOMAIN notFull : notFull[j] = t

\* awaitNanos() times out.
Timeout(t) ==
  /\ Waiting(t)
  /\ call[t].op \in {"timedOffer", "timedPoll"}
  /\ notEmpty' = Leave(notEmpty, t) /\ notFull' = Leave(notFull, t)
  /\ awake' = awake \cup {t}
  /\ call' = [call EXCEPT ![t].left = FALSE]
  /\ UNCHANGED <<array, itrs, seen, removes>>

\* A waiting thread is interrupted.
Interrupt(t) ==
  /\ Waiting(t)
  /\ notEmpty' = Leave(notEmpty, t) /\ notFull' = Leave(notFull, t)
  /\ call' = [call EXCEPT ![t] = NoCall]
  /\ UNCHANGED <<array, awake, itrs, seen, removes>>

-----------------------------------------------------------------------------
(* Calls that do not wait.                                                 *)

\* offer(e) and add(e)
Offer(e) ==
  /\ "offer" \in Methods /\ Bounded
  /\ count < Capacity
  /\ Enqueue(e)
  /\ awake' = awake \cup Woken(e)
  /\ UNCHANGED <<notFull, call, itrs, seen, removes>>

Poll ==
  /\ "poll" \in Methods
  /\ count > 0
  /\ Dequeue
  /\ awake' = awake \cup Signalled(notFull, 1)
  /\ UNCHANGED <<call, seen, removes>>

\* remove(e) takes the key away before it has the lock.
RemoveKey(t, e) ==
  /\ "remove" \in Methods
  /\ call[t] = NoCall
  /\ removes < MaxRemoves
  /\ removes' = removes + 1
  /\ keys' = keys \ {e}
  /\ call' = [call EXCEPT ![t] = Call("remove", e)]
  /\ UNCHANGED <<items, takeIndex, putIndex, count, serial, notEmpty, notFull, awake, itrs, seen>>

\* The rest of remove(e): the first slot that holds e, seen from the front.
Remove(t) ==
  LET holding == {i \in Occupied : items[i].elem = call[t].elem}
  IN
  /\ call[t].op = "remove"
  /\ \/ \E r \in holding :
          /\ \A i \in holding : Distance(r, takeIndex) <= Distance(i, takeIndex)
          /\ RemoveAt(r)
          /\ itrs' = TellRemoved(itrs, r)
          /\ Return(t, Signalled(notFull, 1))
     \/ /\ holding = {}
        /\ Return(t, {})
        /\ UNCHANGED <<array, notEmpty, notFull, itrs>>
  /\ UNCHANGED <<seen, removes>>

Clear ==
  /\ "clear" \in Methods
  /\ items' = [i \in Slots |-> Null]
  /\ keys' = {}
  /\ takeIndex' = putIndex
  /\ count' = 0
  /\ itrs' = IF count > 0 THEN QueueIsEmpty(itrs) ELSE itrs
  /\ SignalNotFull(count)
  /\ awake' = awake \cup Signalled(notFull, count)
  /\ UNCHANGED <<putIndex, serial, call, seen, removes>>

\* The slot n places behind the front.
SlotAt(n) == IF takeIndex + n >= Capacity THEN takeIndex + n - Capacity ELSE takeIndex + n

\* drainTo(c, maxElements), also when c.add throws: the first n items go.
DrainTo(n) ==
  LET gone == {SlotAt(j) : j \in 0..(n - 1)}
      take == SlotAt(n)
  IN
  /\ "drainTo" \in Methods
  /\ n <= count
  /\ items' = [i \in Slots |-> IF i \in gone THEN Null ELSE items[i]]
  /\ keys' = keys \ {items[i].elem : i \in gone}
  /\ takeIndex' = take
  /\ count' = count - n
  /\ itrs' = IF count = n THEN QueueIsEmpty(itrs)
             ELSE IF n > take /\ itrs.tracked # {} THEN TakeIndexWrapped(itrs)
             ELSE itrs
  /\ SignalNotFull(n)
  /\ awake' = awake \cup Signalled(notFull, n)
  /\ UNCHANGED <<putIndex, serial, call, seen, removes>>

-----------------------------------------------------------------------------
(* Iterators.                                                              *)

\* Mutant of IncCursor: no end at putIndex.
IncCursorOn(i) == Inc(i)

\* incCursor(i)
IncCursor(i) == IF Inc(i) = putIndex THEN NONE ELSE Inc(i)

\* new Itr()
OpenItr(i) ==
  /\ ~seen[i].open
  /\ seen' = [seen EXCEPT ![i].open = TRUE, ![i].since = serial]
  /\ IF count = 0 THEN UNCHANGED itrs
     ELSE LET it == [NoItr EXCEPT !.prevTakeIndex = takeIndex, !.nextIndex = takeIndex,
                                  !.nextItem = items[takeIndex],
                                  !.cursor = IncCursor(takeIndex),
                                  !.prevCycles = itrs.cycles]
          IN  itrs' = Sweep([itrs EXCEPT !.tracked = @ \cup {i}, !.it[i] = it])
  /\ UNCHANGED <<array, waits, removes>>

\* next()
NextItem(i) ==
  LET s == CatchUp(itrs, i, takeIndex)
      at == s.it[i].cursor
  IN
  /\ itrs.it[i].nextItem # Null
  /\ itrs' = [s EXCEPT !.it[i].lastRet = s.it[i].nextIndex,
                       !.it[i].nextIndex = IF at >= 0 THEN at ELSE NONE,
                       !.it[i].nextItem = IF at >= 0 THEN items[at] ELSE Null,
                       !.it[i].cursor = IF at >= 0 THEN IncCursor(at) ELSE @]
  /\ seen' = [seen EXCEPT ![i].last = itrs.it[i].nextItem]
  /\ UNCHANGED <<array, waits, removes>>

\* hasNext(), when it returns false: noNext().
HasNoNext(i) ==
  LET s == CatchUp(itrs, i, takeIndex)
      ret == s.it[i].lastRet
  IN
  /\ seen[i].open
  /\ itrs.it[i].nextItem = Null /\ ~IsDetached(itrs.it[i])
  /\ itrs' = IF ret >= 0 THEN Detach([s EXCEPT !.it[i].lastItem = items[ret]], i) ELSE s
  /\ UNCHANGED <<array, waits, seen, removes>>

\* Itr.remove().  Without an element to remove it throws, having caught up.
RemoveItr(i) ==
  LET s == CatchUp(itrs, i, takeIndex)
      ret == s.it[i].lastRet
      t == [s EXCEPT !.it[i].lastRet = NONE,
                     !.it[i].lastItem = IF ret >= 0 /\ IsDetached(s.it[i]) THEN Null ELSE @]
      Done(u) == IF u.it[i].cursor < 0 /\ u.it[i].nextIndex < 0 THEN Detach(u, i) ELSE u
      there == /\ ret >= 0
               /\ IsDetached(s.it[i]) =>
                    items[ret] # Null /\ items[ret].elem = s.it[i].lastItem.elem
  IN
  /\ seen[i].open
  /\ \/ /\ there
        /\ RemoveAt(ret)
        /\ itrs' = Done(TellRemoved(t, ret))
        /\ awake' = awake \cup Signalled(notFull, 1)
     \/ /\ ~there
        /\ itrs' = IF ret = NONE THEN s ELSE Done(t)
        /\ UNCHANGED <<array, notEmpty, notFull, awake>>
  /\ UNCHANGED <<call, seen, removes>>

-----------------------------------------------------------------------------
Next ==
  \/ \E t \in Threads :
       \/ \E e \in Elements : Put(t, e) \/ RemoveKey(t, e)
       \/ Take(t) \/ Resume(t) \/ Timeout(t) \/ Interrupt(t) \/ Remove(t)
  \/ \E e \in Elements : Offer(e)
  \/ Poll \/ Clear
  \/ \E n \in 1..Capacity : DrainTo(n)
  \/ \E i \in Iterators : OpenItr(i) \/ NextItem(i) \/ HasNoNext(i) \/ RemoveItr(i)

\* A thread that was woken gets the lock in the end.
Fairness == \A t \in Threads : WF_vars(Resume(t))

Safety == Init /\ [][Next]_vars

Spec == Safety /\ Fairness

-----------------------------------------------------------------------------
(* Properties.                                                             *)

\* The types of the fields, of the condition queues and of the calls under way.
TypeOK ==
  /\ items \in [Slots -> Entries \cup {Null}] /\ keys \in SUBSET Elements
  /\ takeIndex \in Slots /\ putIndex \in Slots /\ count \in 0..Capacity
  /\ notEmpty \in Seq(Threads) /\ notFull \in Seq(Threads)
  /\ awake \in SUBSET Threads /\ call \in [Threads -> Calls]
  /\ itrs.tracked \in SUBSET Iterators /\ itrs.cycles \in Nat

\* The shape of the ring, after interior removals too: the occupied slots are the
\* count ones from takeIndex on, and putIndex comes right after them (lines 174-257).
Ring ==
  /\ putIndex = SlotAt(count)
  /\ Occupied = {SlotAt(j) : j \in 0..(count - 1)}

\* contains(e), which asks the keys, is true if and only if e is in the queue,
\* and no element is in it twice (KeyArrayBlockingQueue.java:505-506).
KeysMatchItems ==
  /\ keys = {items[i].elem : i \in Occupied}
  /\ \A i, j \in Occupied : items[i].elem = items[j].elem => i = j

\* The same while no remove(e) is between its two steps.
ContainsIsExact ==
  \A e \in Elements :
    \/ \E t \in Threads : call[t] = Call("remove", e)
    \/ e \in keys <=> \E i \in Occupied : items[i].elem = e

AwakeFor(ops) == {t \in awake : call[t].op \in ops}

\* Threads wait for an element, and fewer are on their way than there are elements.
TakerForgotten ==
  notEmpty # <<>> /\ Cardinality(AwakeFor({"take", "timedPoll"})) < count

\* Threads wait for space, and fewer are on their way than there are free slots.
PutterForgotten ==
  notFull # <<>> /\ Cardinality(AwakeFor({"put", "timedOffer"})) < Capacity - count

\* A thread that was woken finds the key of its element there, and returns
\* without passing the signal on (line 175).
SwallowsSignal ==
  \E t \in AwakeFor({"put", "timedOffer"}) : call[t].elem \in keys /\ t \notin awake'

\* No signal is lost, whoever times out, is interrupted or barges in: takers
\* are never forgotten, and putters only when a duplicate swallows the signal.
NoThreadForgotten ==
  [][/\ ~TakerForgotten'
     /\ PutterForgotten' => PutterForgotten \/ SwallowsSignal]_vars

\* put(e) waits "for space to become available if the queue is full"
\* (KeyArrayBlockingQueue.java:302-303): it does not wait on for ever when
\* there is space.
PutWaitsForSpace ==
  \A t \in Threads :
    LET asleep == \E i \in DOMAIN notFull : notFull[i] = t
    IN  asleep /\ count < Capacity ~> ~asleep \/ count = Capacity

\* Without interior removals it is a first-in first-out queue of distinct
\* elements.
Fifo == INSTANCE KeyedFifo
          WITH Bound <- Capacity, fifo <- [j \in 1..count |-> items[SlotAt(j - 1)].elem]

FifoSpec == Fifo!Spec

\* Once an iterator has caught up, its indices designate the entries they
\* stand for, whatever was taken, removed, drained and queued meanwhile: the
\* entry read ahead, the one returned last, and the one to read next.
IteratorInStep ==
  \A i \in itrs.tracked :
    LET it == CatchUp(itrs, i, takeIndex).it[i]
    IN  /\ it.nextIndex >= 0 => items[it.nextIndex] = it.nextItem
        /\ it.lastRet >= 0 => items[it.lastRet] = seen[i].last
        /\ it.cursor >= 0 => items[it.cursor] # Null

\* Iterators return entries in the order of their insertion, none twice.
IterationInOrder ==
  [][\A i \in Iterators :
       seen[i].last # Null /\ seen'[i].last # seen[i].last =>
         seen'[i].last.no > seen[i].last.no]_vars

\* An iterator passes over no entry: one that is still in the queue, and lies
\* between the entry returned last and the next one (or, at the end of the
\* iteration, was there when it began), does not exist.
NothingSkipped ==
  \A i \in Iterators :
    LET last == IF seen[i].last = Null THEN 0 ELSE seen[i].last.no
        next == itrs.it[i].nextItem
    IN  \A o \in Occupied :
          ~(last < items[o].no /\ items[o].no < IF next = Null THEN seen[i].since ELSE next.no)

\* Itr.remove() removes the element returned last or nothing
\* (KeyArrayBlockingQueue.java:1001-1004).
RemovesWhatItReturned ==
  [][\A i \in Iterators :
       RemoveItr(i) =>
         \A o \in Occupied :
           (\A p \in Occupied' : items'[p] # items[o]) => items[o].elem = seen[i].last.elem]_vars
=============================================================================

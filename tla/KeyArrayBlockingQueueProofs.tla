--------------------- MODULE KeyArrayBlockingQueueProofs ---------------------
(***************************************************************************)
(* Proofs about KeyArrayBlockingQueue, for every capacity, set of elements *)
(* and set of threads.                                                     *)
(*                                                                         *)
(* Three things happen to the array: a slot behind the last is filled,     *)
(* slots at the front are emptied, and a slot further on is closed up.     *)
(* The first part shows that they keep the ring.                           *)
(*                                                                         *)
(* The second is about a queue from whose middle nobody removes, and that  *)
(* has no iterators: it implements KeyedFifo.                              *)
(*                                                                         *)
(* The third is about all of it.  What holds of an iterator is said        *)
(* relative to how many slots were dequeued since it last caught up, and   *)
(* is shown of everything that the queue tells the iterators.              *)
(*                                                                         *)
(* The fourth is about the threads that sleep on the two conditions: the   *)
(* woken ones on their way are counted against the elements, or the free   *)
(* slots, that there are for them.                                         *)
(***************************************************************************)
EXTENDS KeyArrayBlockingQueue, SequenceTheorems, FiniteSetTheorems, TLAPS

USE CapacityAssumption, QueueAssumption DEF CapacityAssumption, QueueAssumption, Slots

-----------------------------------------------------------------------------
(* The array.                                                              *)

\* The slot n places behind slot t.
At(t, n) == IF t + n >= Capacity THEN t + n - Capacity ELSE t + n

\* The three things that happen to the array.
Fill(e) ==
  /\ e \notin keys /\ count < Capacity
  /\ items' = [items EXCEPT ![putIndex] = [elem |-> e, no |-> serial]]
  /\ keys' = keys \cup {e}
  /\ putIndex' = Inc(putIndex)
  /\ count' = count + 1
  /\ serial' \in Nat /\ takeIndex' = takeIndex

Front(n) == {SlotAt(j) : j \in 0..(n - 1)}

\* The first n slots are emptied, whatever the keys.
Vacate(n) ==
  /\ items' = [i \in Slots |-> IF i \in Front(n) THEN Null ELSE items[i]]
  /\ keys' \in SUBSET Elements
  /\ takeIndex' = SlotAt(n)
  /\ count' = count - n
  /\ UNCHANGED <<putIndex, serial>>

Empty(n) == Vacate(n) /\ keys' = keys \ {items[i].elem : i \in Front(n)}

\* The slot q places behind the front, which is not the first, is closed up.
Close(q) ==
  /\ items' = Closed(At(takeIndex, q))
  /\ keys' \in SUBSET Elements
  /\ putIndex' = Last
  /\ count' = count - 1
  /\ UNCHANGED <<takeIndex, serial>>

\* The types of the array and what goes with it.
Array ==
  /\ items \in [Slots -> Entries \cup {Null}] /\ keys \in SUBSET Elements
  /\ takeIndex \in Slots /\ putIndex \in Slots /\ count \in 0..Capacity
  /\ serial \in Nat

-----------------------------------------------------------------------------
(* The slots of the ring.                                                  *)

LEMMA AtFacts ==
  ASSUME NEW t \in Slots
  PROVE  /\ \A n \in 0..Capacity : At(t, n) \in Slots
         /\ \A m, n \in 0..(Capacity - 1) : At(t, m) = At(t, n) => m = n
         /\ \A m, n \in 0..Capacity : m + n <= Capacity => At(At(t, m), n) = At(t, m + n)
         /\ \A n \in 0..(Capacity - 1) : Inc(At(t, n)) = At(t, n + 1)
         /\ At(t, 0) = t
BY DEF At, Inc

\* How far a slot is from another, and what stands that far away.
LEMMA DistanceFacts ==
  ASSUME NEW t \in Slots
  PROVE  /\ \A x \in Slots : Distance(x, t) \in Slots /\ At(t, Distance(x, t)) = x
         /\ \A n \in Slots : Distance(At(t, n), t) = n
         /\ \A x \in Slots : Distance(x, t) > 0 =>
              Dec(x) \in Slots /\ Distance(Dec(x), t) = Distance(x, t) - 1
         /\ Distance(t, t) = 0
BY DEF Distance, At, Dec

LEMMA SlotIsAt == \A n : SlotAt(n) = At(takeIndex, n) /\ SlotAt(n)' = At(takeIndex', n)
BY DEF SlotAt, At

\* What is in the queue, by places from the front.
LEMMA OccupiedFacts ==
  ASSUME Array, Ring
  PROVE  /\ \A j \in 0..(count - 1) : At(takeIndex, j) \in Occupied
         /\ \A i \in Occupied : \E j \in 0..(count - 1) : i = At(takeIndex, j)
         /\ \A i \in Occupied : i \in Slots /\ items[i] \in Entries /\ items[i].elem \in Elements
         /\ putIndex = At(takeIndex, count)
<1>1. Occupied = {At(takeIndex, j) : j \in 0..(count - 1)} /\ putIndex = At(takeIndex, count)
  BY SlotIsAt DEF Ring
<1>2. \A i \in Occupied : i \in Slots /\ items[i] \in Entries
  BY DEF Array, Occupied
<1> QED BY <1>1, <1>2 DEF Entries

\* Filling the slot behind the last keeps the ring.
LEMMA FillRing ==
  ASSUME Array, Ring, NEW e \in Elements, Fill(e)
  PROVE  /\ Array' /\ Ring'
         /\ Occupied' = Occupied \cup {putIndex} /\ putIndex \notin Occupied
         /\ items'[putIndex].elem = e /\ items'[putIndex].no = serial
         /\ \A i \in Occupied : items'[i] = items[i]
<1>1. PICK x : x = [elem |-> e, no |-> serial] OBVIOUS
<1>2. x \in Entries /\ x.elem = e /\ x.no = serial /\ x # Null
  BY <1>1 DEF Entries, Array
<1>3. items' = [items EXCEPT ![putIndex] = x] BY <1>1 DEF Fill
<1>4. putIndex \in Slots /\ count \in 0..(Capacity - 1) /\ takeIndex \in Slots
  BY DEF Fill, Array
<1>5. putIndex \notin Occupied
  BY <1>4, OccupiedFacts, AtFacts
<1>6. items'[putIndex] = x /\ \A i \in Slots : i # putIndex => items'[i] = items[i]
  BY <1>3, <1>4 DEF Array
<1>7. Occupied' = Occupied \cup {putIndex}
  BY <1>2, <1>4, <1>6 DEF Occupied
<1>8. Array'
  <2>1. items' \in [Slots -> Entries \cup {Null}] BY <1>2, <1>3, <1>4 DEF Array
  <2>2. putIndex' \in Slots BY <1>4 DEF Fill, Inc
  <2>3. count' \in 0..Capacity BY <1>4 DEF Fill
  <2> QED BY <2>1, <2>2, <2>3 DEF Fill, Array
<1>9. Ring'
  <2>1. putIndex' = At(takeIndex', count')
    BY <1>4, OccupiedFacts, AtFacts DEF Fill
  <2>2. \A i \in Occupied' : \E j \in 0..(count' - 1) : i = At(takeIndex', j)
    BY <1>4, <1>7, OccupiedFacts DEF Fill
  <2>3. \A j \in 0..(count' - 1) : At(takeIndex', j) \in Occupied'
    <3> TAKE j \in 0..(count' - 1)
    <3>1. j \in 0..(count - 1) \/ j = count BY <1>4 DEF Fill
    <3> QED BY <3>1, <1>7, OccupiedFacts DEF Fill
  <2>4. Occupied' = {At(takeIndex', j) : j \in 0..(count' - 1)} BY <2>2, <2>3
  <2> QED BY <2>1, <2>4, SlotIsAt DEF Ring
<1>10. \A i \in Occupied : items'[i] = items[i]
  BY <1>5, <1>6, OccupiedFacts
<1> QED BY <1>2, <1>5, <1>6, <1>7, <1>8, <1>9, <1>10

\* So does emptying slots at the front.
LEMMA VacateRing ==
  ASSUME Array, Ring, NEW n \in 0..count, Vacate(n)
  PROVE  /\ Array' /\ Ring'
         /\ takeIndex' = At(takeIndex, n) /\ count' = count - n
         /\ \A j \in n..(count - 1) : items'[At(takeIndex, j)] = items[At(takeIndex, j)]
         /\ Occupied' = Occupied \ Front(n) /\ Front(n) \subseteq Occupied
         /\ \A i \in Occupied' : items'[i] = items[i]
<1>0. takeIndex \in Slots /\ count \in 0..Capacity BY DEF Array
<1>1. /\ takeIndex \in Slots /\ count \in 0..Capacity /\ n \in 0..Capacity
      /\ count - n \in 0..Capacity /\ n + (count - n) = count
  BY <1>0
<1>2. takeIndex' = At(takeIndex, n) /\ count' = count - n
  BY SlotIsAt DEF Vacate
<1>3. Front(n) = {At(takeIndex, j) : j \in 0..(n - 1)}
  BY SlotIsAt DEF Front
<1>4. \A j \in n..(count - 1) : At(takeIndex, j) \notin Front(n)
  <2> SUFFICES ASSUME NEW j \in n..(count - 1), NEW k \in 0..(n - 1),
                      At(takeIndex, j) = At(takeIndex, k)
               PROVE  FALSE
    BY <1>3
  <2>1. j \in 0..(Capacity - 1) /\ k \in 0..(Capacity - 1) /\ j # k BY <1>1
  <2> QED BY <2>1, <1>1, AtFacts
<1>5. \A i \in Slots : items'[i] = IF i \in Front(n) THEN Null ELSE items[i]
  BY DEF Vacate
<1>6. Occupied' = Occupied \ Front(n)
  BY <1>5 DEF Occupied
<1>7. \A i \in Occupied' : items'[i] = items[i]
  BY <1>5, <1>6, OccupiedFacts
<1>8. Front(n) \subseteq Occupied
  BY <1>1, <1>3, OccupiedFacts
<1>9. \A k \in 0..(count' - 1) : At(takeIndex', k) = At(takeIndex, n + k)
  <2> TAKE k \in 0..(count' - 1)
  <2>1. k \in 0..Capacity /\ n + k <= Capacity BY <1>1, <1>2
  <2> QED BY <2>1, <1>1, <1>2, AtFacts
<1>10. Array'
  <2>1. items' \in [Slots -> Entries \cup {Null}]
    BY <1>5 DEF Vacate, Array
  <2>2. takeIndex' \in Slots BY <1>1, <1>2, AtFacts
  <2>3. count' \in 0..Capacity BY <1>1, <1>2
  <2> QED BY <2>1, <2>2, <2>3 DEF Vacate, Array
<1>11. Ring'
  <2>1. putIndex' = At(takeIndex', count')
    <3>1. putIndex' = At(takeIndex, count) BY OccupiedFacts DEF Vacate
    <3>2. At(At(takeIndex, n), count - n) = At(takeIndex, count)
      BY <1>1, AtFacts
    <3> QED BY <3>1, <3>2, <1>2
  <2>2. ASSUME NEW i \in Occupied' PROVE \E k \in 0..(count' - 1) : i = At(takeIndex', k)
    <3>1. PICK j \in 0..(count - 1) : i = At(takeIndex, j) BY <1>6, OccupiedFacts
    <3>2. j >= n BY <3>1, <1>1, <1>3, <1>6
    <3>3. j - n \in 0..(count' - 1) /\ n + (j - n) = j BY <3>1, <3>2, <1>1, <1>2
    <3> QED BY <3>1, <3>3, <1>9
  <2>3. ASSUME NEW k \in 0..(count' - 1) PROVE At(takeIndex', k) \in Occupied'
    <3>1. n + k \in n..(count - 1) /\ n + k \in 0..(count - 1) BY <1>1, <1>2
    <3> QED BY <3>1, <1>4, <1>6, <1>9, OccupiedFacts
  <2>4. Occupied' = {At(takeIndex', k) : k \in 0..(count' - 1)} BY <2>2, <2>3
  <2> QED BY <2>1, <2>4, SlotIsAt DEF Ring
<1>13. \A j \in n..(count - 1) : items'[At(takeIndex, j)] = items[At(takeIndex, j)]
  <2> TAKE j \in n..(count - 1)
  <2>1. j \in 0..Capacity BY <1>1
  <2>2. At(takeIndex, j) \in Slots BY <2>1, <1>1, AtFacts
  <2> QED BY <2>2, <1>4, <1>5
<1> QED BY <1>2, <1>6, <1>7, <1>8, <1>10, <1>11, <1>13

\* And closing up a slot.
LEMMA CloseRing ==
  ASSUME Array, Ring, NEW q \in 1..(count - 1), Close(q)
  PROVE  /\ Array' /\ Ring'
         /\ Last = At(takeIndex, count - 1)
         /\ \A k \in 0..((count - 1) - 1) :
              items'[At(takeIndex, k)] = items[IF k < q THEN At(takeIndex, k) ELSE At(takeIndex, k + 1)]
<1>1. takeIndex \in Slots /\ count \in 1..Capacity /\ q \in Slots BY DEF Array
<1>2. Last = At(takeIndex, count - 1)
  <2>1. putIndex = At(takeIndex, count) BY OccupiedFacts
  <2> QED BY <2>1, <1>1 DEF Last, Dec, At
<1>3. At(takeIndex, q) \in Slots /\ Last \in Slots BY <1>1, <1>2, AtFacts
<1>4. Distance(At(takeIndex, q), takeIndex) = q /\ Distance(Last, takeIndex) = count - 1
  BY <1>1, <1>2, DistanceFacts
<1>5. \A k \in Slots :
        /\ At(takeIndex, k) \in Slots /\ Distance(At(takeIndex, k), takeIndex) = k
        /\ At(takeIndex, k) = Last <=> k = count - 1
        /\ Inc(At(takeIndex, k)) = At(takeIndex, k + 1)
  <2> TAKE k \in Slots
  <2>0. k \in 0..Capacity /\ k \in 0..(Capacity - 1) OBVIOUS
  <2>1. At(takeIndex, k) \in Slots /\ Distance(At(takeIndex, k), takeIndex) = k
    <3>1. At(takeIndex, k) \in Slots BY <2>0, <1>1, AtFacts
    <3>2. Distance(At(takeIndex, k), takeIndex) = k BY <1>1, DistanceFacts
    <3> QED BY <3>1, <3>2
  <2>2. Inc(At(takeIndex, k)) = At(takeIndex, k + 1) BY <2>0, <1>1, AtFacts
  <2>3. At(takeIndex, k) = Last <=> k = count - 1 BY <2>1, <1>2, <1>4
  <2> QED BY <2>1, <2>2, <2>3
<1>6. \A k \in Slots :
        items'[At(takeIndex, k)] = IF k = count - 1 THEN Null
                                   ELSE IF k >= q /\ k < count - 1 THEN items[At(takeIndex, k + 1)]
                                   ELSE items[At(takeIndex, k)]
  <2> TAKE k \in Slots
  <2>1. PICK j \in Slots : j = At(takeIndex, k) BY <1>5
  <2>2. items'[j] = IF j = Last THEN Null
                    ELSE IF /\ Distance(j, takeIndex) >= Distance(At(takeIndex, q), takeIndex)
                            /\ Distance(j, takeIndex) < Distance(Last, takeIndex)
                    THEN items[Inc(j)] ELSE items[j]
    BY <2>1 DEF Close, Closed
  <2>3. /\ Distance(j, takeIndex) = k /\ (j = Last <=> k = count - 1) /\ Inc(j) = At(takeIndex, k + 1)
    BY <2>1, <1>5
  <2> QED BY <2>1, <2>2, <2>3, <1>4
<1>7. \A k \in 0..((count - 1) - 1) :
        items'[At(takeIndex, k)] = items[IF k < q THEN At(takeIndex, k) ELSE At(takeIndex, k + 1)]
  <2> TAKE k \in 0..((count - 1) - 1)
  <2>1. k \in Slots /\ k # count - 1 /\ k < count - 1 BY <1>1
  <2> QED BY <2>1, <1>6
<1>8. Array'
  <2>1. items' \in [Slots -> Entries \cup {Null}]
    <3>1. \A j \in Slots : Inc(j) \in Slots BY DEF Inc
    <3>2. \A j \in Slots : items[j] \in Entries \cup {Null} BY DEF Array
    <3> QED BY <3>1, <3>2 DEF Close, Closed
  <2>2. count' \in 0..Capacity BY <1>1 DEF Close
  <2> QED BY <2>1, <2>2, <1>3 DEF Close, Array
<1>9. Ring'
  <2>1. takeIndex' = takeIndex /\ count' = count - 1 /\ putIndex' = At(takeIndex', count')
    BY <1>2 DEF Close
  <2>2. \A k \in 0..(count - 1) : items[At(takeIndex, k)] # Null
    BY OccupiedFacts DEF Occupied
  <2>3. ASSUME NEW k \in 0..(count' - 1) PROVE At(takeIndex', k) \in Occupied'
    <3>1. k \in 0..((count - 1) - 1) /\ k \in Slots /\ k \in 0..(count - 1) /\ k + 1 \in 0..(count - 1)
      BY <2>1, <1>1
    <3>2. items'[At(takeIndex, k)] # Null BY <3>1, <2>2, <1>7
    <3> QED BY <3>1, <3>2, <2>1, <1>5 DEF Occupied
  <2>4. ASSUME NEW i \in Occupied' PROVE \E k \in 0..(count' - 1) : i = At(takeIndex', k)
    <3>1. i \in Slots /\ items'[i] # Null BY DEF Occupied
    <3>2. PICK k \in Slots : i = At(takeIndex, k) BY <3>1, <1>1, DistanceFacts
    <3>3. k # count - 1 BY <3>1, <3>2, <1>6
    <3>4. ~(k >= count)
      <4> SUFFICES ASSUME k >= count PROVE FALSE OBVIOUS
      <4>1. items[i] # Null BY <3>1, <3>2, <3>3, <1>1, <1>6
      <4>2. PICK j \in 0..(count - 1) : i = At(takeIndex, j)
        BY <3>1, <4>1, OccupiedFacts DEF Occupied
      <4>3. j \in Slots BY <1>1
      <4>4. j = k BY <3>2, <4>2, <4>3, <1>5
      <4> QED BY <4>4, <1>1
    <3>5. k \in 0..(count' - 1) BY <3>3, <3>4, <2>1, <1>1
    <3> QED BY <3>2, <3>5, <2>1
  <2>5. Occupied' = {At(takeIndex', k) : k \in 0..(count' - 1)} BY <2>3, <2>4
  <2> QED BY <2>1, <2>5, SlotIsAt DEF Ring
<1> QED BY <1>2, <1>7, <1>8, <1>9

\* The front is removed.
LEMMA RemoveFrontVacates ==
  ASSUME Array, count > 0, RemoveFront
  PROVE  Vacate(1) /\ Front(1) = {takeIndex} /\ 1 \in 1..count /\ serial' = serial
<1>1. takeIndex \in Slots /\ count \in 0..Capacity BY DEF Array
<1>2. SlotAt(0) = takeIndex /\ SlotAt(1) = Inc(takeIndex)
  BY <1>1 DEF SlotAt, Inc
<1>3. Front(1) = {takeIndex} BY <1>2 DEF Front
<1>4. items' = [i \in Slots |-> IF i \in Front(1) THEN Null ELSE items[i]]
  BY <1>1, <1>3 DEF RemoveFront, Array
<1>5. keys' \in SUBSET Elements BY DEF RemoveFront, Array
<1> QED BY <1>1, <1>2, <1>3, <1>4, <1>5 DEF RemoveFront, Vacate

\* clear() empties every slot of the ring.
LEMMA ClearVacates == ASSUME Array, Ring, Clear PROVE Vacate(count) /\ Front(count) = Occupied
<1>1. count \in 0..Capacity BY DEF Array
<1>2. Front(count) = Occupied BY DEF Front, Ring
<1>3. items' = [i \in Slots |-> IF i \in Front(count) THEN Null ELSE items[i]]
  BY <1>2 DEF Clear, Occupied
<1>4. takeIndex' = SlotAt(count) BY DEF Clear, Ring
<1>5. count' = count - count BY <1>1 DEF Clear
<1> QED BY <1>2, <1>3, <1>4, <1>5 DEF Clear, Vacate

\* drainTo() empties the n slots at its front.
LEMMA DrainToVacates == ASSUME Array, NEW n \in 1..Capacity, DrainTo(n) PROVE Vacate(n) /\ n \in 1..count
<1>1. n \in 1..count BY DEF DrainTo, Array
<1>2. keys' \in SUBSET Elements BY DEF DrainTo, Array
<1> QED BY <1>1, <1>2 DEF DrainTo, Vacate, Front

\* The slot p places behind the front is removed.
LEMMA RemoveAtRing ==
  ASSUME Array, Ring, NEW p \in 0..(count - 1), RemoveAt(At(takeIndex, p))
  PROVE  /\ Array' /\ Ring' /\ serial' = serial
         /\ p = 0 => At(takeIndex, p) = takeIndex /\ RemoveFront /\ Vacate(1) /\ 1 \in 1..count
         /\ p # 0 => At(takeIndex, p) # takeIndex /\ p \in 1..(count - 1) /\ Close(p)
<1>1. takeIndex \in Slots /\ count \in 0..Capacity /\ At(takeIndex, 0) = takeIndex
  BY AtFacts DEF Array
<1>2. CASE p = 0
  <2>1. RemoveFront BY <1>1, <1>2 DEF RemoveAt
  <2>2. count > 0 BY <1>1
  <2>3. Vacate(1) /\ 1 \in 1..count /\ serial' = serial BY <2>1, <2>2, RemoveFrontVacates
  <2>4. 1 \in 0..count BY <2>2, <1>1
  <2> QED BY <1>1, <1>2, <2>1, <2>3, <2>4, VacateRing
<1>3. CASE p # 0
  <2>1. p \in 0..(Capacity - 1) /\ 0 \in 0..(Capacity - 1) BY <1>1
  <2>2. At(takeIndex, p) # takeIndex BY <2>1, <1>1, <1>3, AtFacts
  <2>3. keys' \in SUBSET Elements BY <2>2 DEF RemoveAt, Array
  <2>4. Close(p) /\ p \in 1..(count - 1) BY <2>2, <2>3, <1>3 DEF RemoveAt, Close
  <2>5. serial' = serial BY <2>2 DEF RemoveAt
  <2> QED BY <1>3, <2>2, <2>4, <2>5, CloseRing
<1> QED BY <1>2, <1>3

\* Of what was in the queue, removeAt(r) takes the entry of slot r only.
LEMMA RemovesOne ==
  ASSUME Array, Ring, NEW p \in 0..(count - 1), RemoveAt(At(takeIndex, p)),
         NEW o \in Occupied, o # At(takeIndex, p)
  PROVE  \E x \in Occupied' : items'[x] = items[o]
<1>1. takeIndex \in Slots /\ count \in 0..Capacity BY DEF Array
<1>2. items[o] # Null /\ o \in Slots BY DEF Occupied
<1>3. ASSUME NEW x \in Slots, items'[x] = items[o] PROVE x \in Occupied'
  BY <1>2, <1>3 DEF Occupied
<1>4. CASE p = 0
  <2>1. At(takeIndex, p) = takeIndex /\ RemoveFront BY <1>4, RemoveAtRing
  <2>2. items'[o] = items[o] BY <2>1, <1>2 DEF RemoveFront, Array
  <2> QED BY <2>2, <1>2, <1>3
<1>5. CASE p # 0
  <2>1. p \in 1..(count - 1) /\ Close(p) BY <1>5, RemoveAtRing
  <2>2. PICK k \in 0..(count - 1) : o = At(takeIndex, k) BY OccupiedFacts
  <2>3. \A j \in 0..((count - 1) - 1) :
          items'[At(takeIndex, j)] = items[IF j < p THEN At(takeIndex, j) ELSE At(takeIndex, j + 1)]
    BY <2>1, CloseRing
  <2>4. k < p \/ k > p BY <2>2
  <2>5. CASE k < p
    <3>1. k \in 0..((count - 1) - 1) BY <1>1, <2>1, <2>5
    <3>2. items'[o] = items[o] BY <3>1, <2>2, <2>3, <2>5
    <3> QED BY <3>2, <1>2, <1>3
  <2>6. CASE k > p
    <3>1. PICK j \in 0..((count - 1) - 1) : k = j + 1 /\ ~(j < p)
      <4>1. k - 1 \in 0..((count - 1) - 1) /\ k = (k - 1) + 1 /\ ~(k - 1 < p)
        BY <1>1, <2>1, <2>6
      <4> QED BY <4>1
    <3>2. items'[At(takeIndex, j)] = items[o] BY <3>1, <2>2, <2>3
    <3>3. At(takeIndex, j) \in Slots
      <4>1. j \in 0..Capacity BY <1>1
      <4> QED BY <4>1, <1>1, AtFacts
    <3> QED BY <3>2, <3>3, <1>3
  <2> QED BY <2>4, <2>5, <2>6
<1> QED BY <1>4, <1>5

\* The constructor that copies collection c.
Copied(c) ==
  /\ items = [i \in Slots |-> IF i < Len(c) THEN [elem |-> c[i + 1], no |-> i + 1] ELSE Null]
  /\ keys = {c[i] : i \in DOMAIN c}
  /\ takeIndex = 0 /\ putIndex = (IF Len(c) = Capacity THEN 0 ELSE Len(c))
  /\ count = Len(c) /\ serial = Len(c) + 1

\* The constructor leaves a ring.
LEMMA InitRing ==
  ASSUME NEW c \in Contents, Copied(c)
  PROVE  /\ Array /\ Ring /\ Occupied = 0..(Len(c) - 1)
         /\ Len(c) \in 0..Capacity /\ DOMAIN c = 1..Len(c)
         /\ \A i \in 0..(Len(c) - 1) :
              i \in Slots /\ items[i] \in Entries /\ items[i].elem = c[i + 1] /\ items[i].no = i + 1
<1>1. /\ items = [i \in Slots |-> IF i < Len(c) THEN [elem |-> c[i + 1], no |-> i + 1] ELSE Null]
      /\ keys = {c[i] : i \in DOMAIN c}
      /\ takeIndex = 0 /\ putIndex = (IF Len(c) = Capacity THEN 0 ELSE Len(c))
      /\ count = Len(c) /\ serial = Len(c) + 1
  BY DEF Copied
<1>2. c \in Seq(Elements) /\ Len(c) \in 0..Capacity /\ DOMAIN c = 1..Len(c)
      /\ \A i \in 1..Len(c) : c[i] \in Elements
  BY LenProperties
<1>3. \A i \in 0..(Len(c) - 1) : i \in Slots /\ items[i] \in Entries /\ items[i].elem = c[i + 1]
                                 /\ items[i].no = i + 1
  BY <1>1, <1>2 DEF Entries
<1>4. Occupied = 0..(Len(c) - 1)
  <2>1. \A i \in 0..(Len(c) - 1) : items[i] # Null BY <1>3
  <2>2. \A i \in Slots : i \notin 0..(Len(c) - 1) => items[i] = Null BY <1>1, <1>2
  <2>3. 0..(Len(c) - 1) \subseteq Slots BY <1>3
  <2> QED BY <2>1, <2>2, <2>3 DEF Occupied
<1>5. Array
  <2>1. items \in [Slots -> Entries \cup {Null}]
    <3>1. \A i \in Slots : items[i] \in Entries \cup {Null}
      <4> TAKE i \in Slots
      <4>1. CASE i < Len(c) BY <4>1, <1>2, <1>3
      <4>2. CASE ~(i < Len(c)) BY <4>2, <1>1
      <4> QED BY <4>1, <4>2
    <3> QED BY <3>1, <1>1
  <2> QED BY <2>1, <1>1, <1>2 DEF Array
<1>6. Ring
  <2>1. \A j \in 0..(Capacity - 1) : SlotAt(j) = j BY <1>1 DEF SlotAt
  <2>2. SlotAt(Capacity) = 0 BY <1>1 DEF SlotAt
  <2>3. putIndex = SlotAt(count) BY <1>1, <1>2, <2>1, <2>2
  <2>4. {SlotAt(j) : j \in 0..(count - 1)} = 0..(Len(c) - 1) BY <1>1, <1>2, <2>1
  <2> QED BY <2>3, <2>4, <1>4 DEF Ring
<1> QED BY <1>2, <1>3, <1>4, <1>5, <1>6

-----------------------------------------------------------------------------
(* The queue without removals from the middle and without iterators.       *)

\* No remove(e) and no iterator, and the constructor got no duplicates (if it
\* did, the key set would be smaller than the queue from the start).
Plain ==
  /\ Iterators = {} /\ "remove" \notin Methods
  /\ \A c \in Contents : \A i, j \in DOMAIN c : c[i] = c[j] => i = j

\* The calls under way; a putter knows its element.
CallsTyped ==
  /\ call \in [Threads -> Calls]
  /\ \A t \in Threads :
       /\ call[t].op # "remove"
       /\ call[t].op \in {"put", "timedOffer"} => call[t].elem \in Elements

\* The invariant of such a queue.
FifoInv == Array /\ Ring /\ KeysMatchItems /\ CallsTyped

\* Filling the slot behind the last keeps ring and keys.
LEMMA FillInv ==
  ASSUME FifoInv, NEW e \in Elements, Fill(e)
  PROVE  /\ Array' /\ Ring' /\ KeysMatchItems'
         /\ items'[putIndex].elem = e
         /\ \A i \in Occupied : items'[i] = items[i]
<1>1. /\ Array' /\ Ring' /\ Occupied' = Occupied \cup {putIndex}
      /\ items'[putIndex].elem = e /\ \A i \in Occupied : items'[i] = items[i]
  BY FillRing DEF FifoInv
<1>2. keys' = keys \cup {e} /\ e \notin keys BY DEF Fill
<1>3. keys = {items[i].elem : i \in Occupied} BY DEF FifoInv, KeysMatchItems
<1>4. keys' = {items'[i].elem : i \in Occupied'} BY <1>1, <1>2, <1>3
<1>5. ASSUME NEW i \in Occupied', NEW j \in Occupied', items'[i].elem = items'[j].elem
      PROVE  i = j
  BY <1>1, <1>2, <1>3, <1>5 DEF FifoInv, KeysMatchItems
<1> QED BY <1>1, <1>4, <1>5 DEF KeysMatchItems

\* So does emptying slots at the front.
LEMMA EmptyInv ==
  ASSUME FifoInv, NEW n \in 0..count, Empty(n)
  PROVE  /\ Array' /\ Ring' /\ KeysMatchItems'
         /\ takeIndex' = At(takeIndex, n) /\ count' = count - n
         /\ \A j \in n..(count - 1) : items'[At(takeIndex, j)] = items[At(takeIndex, j)]
<1>1. /\ Array' /\ Ring' /\ takeIndex' = At(takeIndex, n) /\ count' = count - n
      /\ \A j \in n..(count - 1) : items'[At(takeIndex, j)] = items[At(takeIndex, j)]
      /\ Occupied' = Occupied \ Front(n) /\ Front(n) \subseteq Occupied
      /\ \A i \in Occupied' : items'[i] = items[i]
  BY VacateRing DEF FifoInv, Empty
<1>2. keys' = keys \ {items[i].elem : i \in Front(n)} BY DEF Empty
<1>3. keys = {items[i].elem : i \in Occupied}
      /\ \A i, j \in Occupied : items[i].elem = items[j].elem => i = j
  BY DEF FifoInv, KeysMatchItems
<1>4. keys' = {items[i].elem : i \in Occupied'} BY <1>1, <1>2, <1>3
<1>5. keys' = {items'[i].elem : i \in Occupied'} BY <1>1, <1>4
<1>6. \A i, j \in Occupied' : items'[i].elem = items'[j].elem => i = j
  BY <1>1, <1>3
<1> QED BY <1>1, <1>5, <1>6 DEF KeysMatchItems

-----------------------------------------------------------------------------
(* The actions.                                                            *)

Changed ==
  \/ \E e \in Elements : Fill(e)
  \/ \E n \in 0..count : Empty(n)
  \/ UNCHANGED array

LEMMA EnqueueFills ==
  ASSUME FifoInv, NEW e \in Elements, count < Capacity, Enqueue(e)
  PROVE  Changed
<1>1. CASE e \in keys BY <1>1 DEF Enqueue, Changed
<1>2. CASE e \notin keys
  <2>1. serial' \in Nat BY <1>2 DEF Enqueue, FifoInv, Array
  <2>2. Fill(e) BY <1>2, <2>1 DEF Enqueue, Fill
  <2> QED BY <2>2 DEF Changed
<1> QED BY <1>1, <1>2

LEMMA RemoveFrontEmpties ==
  ASSUME FifoInv, count > 0, RemoveFront
  PROVE  Changed
<1>1. Vacate(1) /\ Front(1) = {takeIndex} BY RemoveFrontVacates DEF FifoInv
<1>2. Empty(1) BY <1>1 DEF RemoveFront, Empty
<1>3. 1 \in 0..count BY DEF FifoInv, Array
<1> QED BY <1>2, <1>3 DEF Changed

LEMMA ClearEmpties == ASSUME FifoInv, Clear PROVE Changed
<1>1. Vacate(count) /\ Front(count) = Occupied BY ClearVacates DEF FifoInv
<1>2. Empty(count) BY <1>1 DEF Clear, Empty, FifoInv, KeysMatchItems
<1>3. count \in 0..count BY DEF FifoInv, Array
<1> QED BY <1>2, <1>3 DEF Changed

LEMMA DrainToEmpties == ASSUME FifoInv, NEW n \in 1..Capacity, DrainTo(n) PROVE Changed
<1>1. Vacate(n) /\ n \in 1..count BY DrainToVacates DEF FifoInv
<1>2. Empty(n) BY <1>1 DEF DrainTo, Empty, Front
<1>3. n \in 0..count BY <1>1 DEF FifoInv, Array
<1> QED BY <1>2, <1>3 DEF Changed

\* A call that ends, or waits on, leaves the calls typed.
LEMMA ReturnTyped ==
  ASSUME CallsTyped, NEW t \in Threads, call' = [call EXCEPT ![t] = NoCall]
  PROVE  CallsTyped'
<1>1. NoCall \in Calls /\ NoCall.op = "none" BY DEF NoCall, Calls
<1> QED BY <1>1 DEF CallsTyped

LEMMA WaitTyped ==
  ASSUME CallsTyped, NEW t \in Threads, NEW c \in Calls, c.op # "remove",
         c.op \in {"put", "timedOffer"} => c.elem \in Elements,
         call' = [call EXCEPT ![t] = c]
  PROVE  CallsTyped'
BY DEF CallsTyped

LEMMA InsertCase ==
  ASSUME FifoInv, NEW t \in Threads, NEW c \in Calls, c.op \in {"put", "timedOffer"},
         c.elem \in Elements, Insert(t, c)
  PROVE  Changed /\ CallsTyped'
<1>1. CASE count < Capacity /\ Enqueue(c.elem) /\ Return(t, Woken(c.elem))
  <2>1. Changed BY <1>1, EnqueueFills
  <2>2. CallsTyped' BY <1>1, ReturnTyped DEF Return, FifoInv
  <2> QED BY <2>1, <2>2
<1>2. CASE WaitOrGiveUp(t, c) /\ UNCHANGED array
  <2>1. call' = [call EXCEPT ![t] = c] \/ call' = [call EXCEPT ![t] = NoCall]
    BY <1>2 DEF WaitOrGiveUp, Return
  <2>2. CallsTyped' BY <2>1, ReturnTyped, WaitTyped DEF FifoInv
  <2> QED BY <1>2, <2>2 DEF Changed
<1> QED BY <1>1, <1>2 DEF Insert

LEMMA ExtractCase ==
  ASSUME FifoInv, NEW t \in Threads, NEW c \in Calls, c.op \in {"take", "timedPoll"},
         Extract(t, c)
  PROVE  Changed /\ CallsTyped'
<1>1. CASE count > 0 /\ Dequeue /\ Return(t, Signalled(notFull, 1))
  <2>1. Changed BY <1>1, RemoveFrontEmpties DEF Dequeue
  <2>2. CallsTyped' BY <1>1, ReturnTyped DEF Return, FifoInv
  <2> QED BY <2>1, <2>2
<1>2. CASE WaitOrGiveUp(t, c) /\ UNCHANGED array
  <2>1. call' = [call EXCEPT ![t] = c] \/ call' = [call EXCEPT ![t] = NoCall]
    BY <1>2 DEF WaitOrGiveUp, Return
  <2>2. CallsTyped' BY <2>1, ReturnTyped, WaitTyped DEF FifoInv
  <2> QED BY <1>2, <2>2 DEF Changed
<1> QED BY <1>1, <1>2 DEF Extract

\* What a step does to the array and to the calls.
LEMMA NextCases == ASSUME Plain, FifoInv, Next PROVE Changed /\ CallsTyped'
<1>1. ASSUME NEW t \in Threads, NEW e \in Elements, Put(t, e) PROVE Changed /\ CallsTyped'
  <2>1. PICK op \in {"put", "timedOffer"} : Insert(t, Call(op, e)) BY <1>1 DEF Put
  <2>2. PICK c : c = Call(op, e) OBVIOUS
  <2>3. c \in Calls /\ c.op = op /\ c.elem = e BY <2>2 DEF Call, Calls
  <2> QED BY <2>1, <2>2, <2>3, InsertCase
<1>2. ASSUME NEW t \in Threads, Take(t) PROVE Changed /\ CallsTyped'
  <2>1. PICK op \in {"take", "timedPoll"} : Extract(t, Call(op, Null)) BY <1>2 DEF Take
  <2>2. PICK c : c = Call(op, Null) OBVIOUS
  <2>3. c \in Calls /\ c.op = op BY <2>2 DEF Call, Calls
  <2> QED BY <2>1, <2>2, <2>3, ExtractCase
<1>3. ASSUME NEW t \in Threads, Resume(t) PROVE Changed /\ CallsTyped'
  <2>1. call[t] \in Calls
        /\ (call[t].op \in {"put", "timedOffer"} => call[t].elem \in Elements)
    BY DEF FifoInv, CallsTyped
  <2> QED BY <1>3, <2>1, InsertCase, ExtractCase DEF Resume
<1>4. ASSUME NEW t \in Threads, Timeout(t) \/ Interrupt(t) PROVE Changed /\ CallsTyped'
  <2>1. UNCHANGED array BY <1>4 DEF Timeout, Interrupt
  <2>2. CASE Interrupt(t)
    <3>1. call' = [call EXCEPT ![t] = NoCall] BY <2>2 DEF Interrupt
    <3>2. CallsTyped BY DEF FifoInv
    <3>3. CallsTyped' BY <3>1, <3>2, ReturnTyped
    <3> QED BY <2>1, <3>3 DEF Changed
  <2>3. CASE Timeout(t)
    <3>1. call' = [call EXCEPT ![t].left = FALSE] BY <2>3 DEF Timeout
    <3>2. call \in [Threads -> Calls] BY DEF FifoInv, CallsTyped
    <3>3. PICK c : c = [call[t] EXCEPT !.left = FALSE] OBVIOUS
    <3>4. c \in Calls /\ c.op = call[t].op /\ c.elem = call[t].elem
      BY <3>2, <3>3 DEF Calls
    <3>5. call' = [call EXCEPT ![t] = c] BY <3>1, <3>3
    <3>6. c.op # "remove" /\ (c.op \in {"put", "timedOffer"} => c.elem \in Elements)
      BY <3>4 DEF FifoInv, CallsTyped
    <3>7. CallsTyped BY DEF FifoInv
    <3>8. CallsTyped' BY <3>4, <3>5, <3>6, <3>7, WaitTyped
    <3> QED BY <2>1, <3>8 DEF Changed
  <2> QED BY <1>4, <2>2, <2>3
<1>5. ASSUME NEW t \in Threads, NEW e \in Elements, RemoveKey(t, e) PROVE FALSE
  BY <1>5 DEF RemoveKey, Plain
<1>6. ASSUME NEW t \in Threads, Remove(t) PROVE FALSE
  BY <1>6 DEF Remove, FifoInv, CallsTyped
<1>7. ASSUME NEW e \in Elements, Offer(e) PROVE Changed /\ CallsTyped'
  BY <1>7, EnqueueFills DEF Offer, FifoInv, CallsTyped
<1>8. CASE Poll
  BY <1>8, RemoveFrontEmpties DEF Poll, Dequeue, FifoInv, CallsTyped
<1>9. CASE Clear
  BY <1>9, ClearEmpties DEF Clear, FifoInv, CallsTyped
<1>10. ASSUME NEW n \in 1..Capacity, DrainTo(n) PROVE Changed /\ CallsTyped'
  BY <1>10, DrainToEmpties DEF DrainTo, FifoInv, CallsTyped
<1> QED BY <1>1, <1>2, <1>3, <1>4, <1>5, <1>6, <1>7, <1>8, <1>9, <1>10 DEF Next, Plain

\* Nothing changes.
LEMMA SameInv ==
  ASSUME FifoInv, UNCHANGED <<items, keys, takeIndex, putIndex, count, serial>>
  PROVE  Array' /\ Ring' /\ KeysMatchItems'
BY SlotIsAt DEF FifoInv, Array, Ring, KeysMatchItems, Occupied

-----------------------------------------------------------------------------
(* Theorems.                                                               *)

LEMMA InitFifoInv == ASSUME Plain, Init PROVE FifoInv
<1>1. PICK c \in Contents : Copied(c) /\ call = [t \in Threads |-> NoCall] BY DEF Init, Copied
<1>2. /\ Array /\ Ring /\ Occupied = 0..(Len(c) - 1)
      /\ Len(c) \in 0..Capacity /\ DOMAIN c = 1..Len(c)
      /\ \A i \in 0..(Len(c) - 1) : items[i].elem = c[i + 1]
  BY <1>1, InitRing
<1>3. KeysMatchItems
  <2>1. keys = {items[i].elem : i \in Occupied}
    <3>1. ASSUME NEW i \in DOMAIN c PROVE c[i] \in {items[k].elem : k \in Occupied}
      <4>1. i - 1 \in Occupied /\ items[i - 1].elem = c[i] BY <1>2
      <4> QED BY <4>1
    <3>2. ASSUME NEW k \in Occupied PROVE items[k].elem \in {c[i] : i \in DOMAIN c}
      <4>1. k + 1 \in DOMAIN c /\ items[k].elem = c[k + 1] BY <1>2
      <4> QED BY <4>1
    <3> QED BY <3>1, <3>2, <1>1 DEF Copied
  <2>2. ASSUME NEW i \in Occupied, NEW j \in Occupied, items[i].elem = items[j].elem
        PROVE  i = j
    <3>1. i + 1 \in DOMAIN c /\ j + 1 \in DOMAIN c /\ c[i + 1] = c[j + 1]
      BY <2>2, <1>2
    <3>2. i + 1 = j + 1 BY <3>1 DEF Plain
    <3> QED BY <3>2, <1>2
  <2> QED BY <2>1, <2>2 DEF KeysMatchItems
<1>4. CallsTyped
  BY <1>1 DEF CallsTyped, NoCall, Calls
<1> QED BY <1>2, <1>3, <1>4 DEF FifoInv

LEMMA NextFifoInv == ASSUME Plain, FifoInv, [Next]_vars PROVE FifoInv'
<1>1. CASE Next
  <2>1. Changed /\ CallsTyped' BY <1>1, NextCases
  <2>2. CASE \E e \in Elements : Fill(e) BY <2>1, <2>2, FillInv DEF FifoInv
  <2>3. CASE \E n \in 0..count : Empty(n) BY <2>1, <2>3, EmptyInv DEF FifoInv
  <2>4. CASE UNCHANGED array BY <2>1, <2>4, SameInv DEF FifoInv, array
  <2> QED BY <2>1, <2>2, <2>3, <2>4 DEF Changed
<1>2. CASE UNCHANGED vars
  BY <1>2, SameInv DEF vars, array, waits, FifoInv, CallsTyped
<1> QED BY <1>1, <1>2

\* The invariant of the queue without removals from the middle is inductive
\* (enqueue, dequeue, clear and drainTo, KeyArrayBlockingQueue.java:174-204).
THEOREM FifoInvariance == ASSUME Plain PROVE Spec => []FifoInv
<1>1. Init => FifoInv BY InitFifoInv
<1>2. FifoInv /\ [Next]_vars => FifoInv' BY NextFifoInv
<1> QED BY <1>1, <1>2, PTL DEF Spec, Safety

\* contains(e) is right, and no element is in the queue twice
\* (KeyArrayBlockingQueue.java:174-194, 505-506).
THEOREM KeysMatchItemsHolds == ASSUME Plain PROVE Spec => []KeysMatchItems
<1>1. FifoInv => KeysMatchItems BY DEF FifoInv
<1> QED BY <1>1, FifoInvariance, PTL

-----------------------------------------------------------------------------
(* The refinement.                                                         *)

\* The elements of an array, from slot t on.
Listing(a, t, n) == [j \in 1..n |-> a[At(t, j - 1)].elem]

LEMMA ListingFacts ==
  ASSUME NEW a, NEW t, NEW n \in Nat, \A j \in 0..(n - 1) : a[At(t, j)].elem \in Elements
  PROVE  /\ Listing(a, t, n) \in Seq(Elements) /\ Len(Listing(a, t, n)) = n
         /\ \A j \in 1..n : Listing(a, t, n)[j] = a[At(t, j - 1)].elem
<1>1. \A j \in 1..n : Listing(a, t, n)[j] = a[At(t, j - 1)].elem
  BY DEF Listing
<1>2. \A j \in 1..n : a[At(t, j - 1)].elem \in Elements OBVIOUS
<1>3. Listing(a, t, n) \in [1..n -> Elements] BY <1>2 DEF Listing
<1> QED BY <1>1, <1>3

\* The queue as a sequence.
Q == Listing(items, takeIndex, count)

LEMMA QFacts ==
  ASSUME FifoInv
  PROVE  /\ Q \in Seq(Elements) /\ Len(Q) = count /\ count \in 0..Capacity
         /\ \A j \in 1..count : Q[j] = items[At(takeIndex, j - 1)].elem /\ Q[j] \in keys
         /\ \A j \in 0..(count - 1) : At(takeIndex, j) \in Occupied
                                     /\ items[At(takeIndex, j)].elem \in Elements
<1>1. count \in 0..Capacity BY DEF FifoInv, Array
<1>2. \A j \in 0..(count - 1) : At(takeIndex, j) \in Occupied
                               /\ items[At(takeIndex, j)].elem \in Elements
  BY OccupiedFacts DEF FifoInv
<1>3. /\ Q \in Seq(Elements) /\ Len(Q) = count
      /\ \A j \in 1..count : Q[j] = items[At(takeIndex, j - 1)].elem
  BY <1>1, <1>2, ListingFacts DEF Q
<1>4. \A j \in 1..count : Q[j] \in keys
  BY <1>1, <1>2, <1>3 DEF FifoInv, KeysMatchItems
<1> QED BY <1>1, <1>2, <1>3, <1>4

\* The queue of the abstract specification.
LEMMA QIsFifo == Q = [j \in 1..count |-> items[SlotAt(j - 1)].elem]
BY SlotIsAt DEF Q, Listing

\* Filling a slot appends its element, and emptying slots takes elements away.
LEMMA FillInserts == ASSUME FifoInv, NEW e \in Elements, Fill(e) PROVE Q' = Append(Q, e) /\ e \notin keys
<1>1. count \in Nat /\ count' = count + 1 /\ takeIndex' = takeIndex /\ e \notin keys
  BY DEF Fill, FifoInv, Array
<1>2. /\ items'[putIndex].elem = e /\ \A i \in Occupied : items'[i] = items[i]
      /\ putIndex = At(takeIndex, count)
  BY FillInv, OccupiedFacts DEF FifoInv
<1>3. \A j \in 0..(count - 1) : items'[At(takeIndex, j)] = items[At(takeIndex, j)]
  BY <1>2, QFacts
<1>4. items'[At(takeIndex, count)].elem = e BY <1>2
<1>5. \A j \in 0..((count + 1) - 1) : items'[At(takeIndex, j)].elem \in Elements
  <2> TAKE j \in 0..((count + 1) - 1)
  <2>1. j \in 0..(count - 1) \/ j = count BY <1>1
  <2> QED BY <2>1, <1>3, <1>4, QFacts
<1>6. Q' = Listing(items', takeIndex, count + 1) BY <1>1 DEF Q
<1>7. /\ Q' \in Seq(Elements) /\ Len(Q') = count + 1
      /\ \A j \in 1..(count + 1) : Q'[j] = items'[At(takeIndex, j - 1)].elem
  BY <1>1, <1>5, <1>6, ListingFacts
<1>8. \A j \in 1..count : Q'[j] = Q[j]
  <2> TAKE j \in 1..count
  <2>1. j - 1 \in 0..(count - 1) /\ j \in 1..(count + 1) BY <1>1
  <2> QED BY <2>1, <1>3, <1>7, QFacts
<1>9. Q'[count + 1] = e
  <2>1. count + 1 \in 1..(count + 1) /\ (count + 1) - 1 = count BY <1>1
  <2> QED BY <2>1, <1>4, <1>7
<1>10. /\ Append(Q, e) \in Seq(Elements) /\ Len(Append(Q, e)) = count + 1
       /\ \A j \in 1..(count + 1) : Append(Q, e)[j] = IF j <= count THEN Q[j] ELSE e
  BY QFacts, AppendProperties
<1>11. \A j \in 1..(count + 1) : Q'[j] = Append(Q, e)[j]
  BY <1>1, <1>8, <1>9, <1>10
<1> QED BY <1>1, <1>7, <1>10, <1>11, SeqEqual

LEMMA EmptyExtracts ==
  ASSUME FifoInv, NEW n \in 0..count, Empty(n) PROVE Q' = SubSeq(Q, n + 1, count)
<1>1. /\ takeIndex' = At(takeIndex, n) /\ count' = count - n
      /\ \A j \in n..(count - 1) : items'[At(takeIndex, j)] = items[At(takeIndex, j)]
  BY EmptyInv
<1>2. takeIndex \in Slots /\ count \in 0..Capacity /\ count - n \in Nat
  BY DEF FifoInv, Array
<1>3. \A j \in 0..((count - n) - 1) :
        items'[At(takeIndex', j)] = items[At(takeIndex, n + j)]
  <2> TAKE j \in 0..((count - n) - 1)
  <2>1. j \in 0..Capacity /\ n \in 0..Capacity /\ n + j <= Capacity /\ n + j \in n..(count - 1)
    BY <1>2
  <2>2. At(takeIndex', j) = At(takeIndex, n + j) BY <2>1, <1>1, <1>2, AtFacts
  <2> QED BY <2>1, <2>2, <1>1
<1>4. \A j \in 0..((count - n) - 1) : items'[At(takeIndex', j)].elem \in Elements
  <2> TAKE j \in 0..((count - n) - 1)
  <2>1. n + j \in 0..(count - 1) BY <1>2
  <2> QED BY <2>1, <1>3, QFacts
<1>5. /\ Q' \in Seq(Elements) /\ Len(Q') = count - n
      /\ \A j \in 1..(count - n) : Q'[j] = items'[At(takeIndex', j - 1)].elem
  <2>1. Q' = Listing(items', takeIndex', count - n) BY <1>1 DEF Q
  <2> QED BY <2>1, <1>2, <1>4, ListingFacts
<1>6. /\ SubSeq(Q, n + 1, count) \in Seq(Elements) /\ Len(SubSeq(Q, n + 1, count)) = count - n
      /\ \A j \in 1..(count - n) : SubSeq(Q, n + 1, count)[j] = Q[n + j]
  <2>1. n + 1 \in Int /\ count \in Int /\ count - (n + 1) + 1 = count - n BY <1>2
  <2>2. \A i \in (n + 1)..count : Q[i] \in Elements
    BY QFacts
  <2>3. /\ SubSeq(Q, n + 1, count) \in Seq(Elements)
        /\ Len(SubSeq(Q, n + 1, count)) = IF n + 1 <= count THEN count - (n + 1) + 1 ELSE 0
        /\ \A i \in 1..(count - (n + 1) + 1) :
             SubSeq(Q, n + 1, count)[i] = Q[(n + 1) + i - 1]
    BY <2>1, <2>2, SubSeqProperties
  <2>4. \A i \in 1..(count - n) : (n + 1) + i - 1 = n + i BY <2>1
  <2> QED BY <1>2, <2>1, <2>3, <2>4
<1>7. \A j \in 1..(count - n) : Q'[j] = SubSeq(Q, n + 1, count)[j]
  <2> TAKE j \in 1..(count - n)
  <2>1. j - 1 \in 0..((count - n) - 1) /\ n + j \in 1..count /\ n + (j - 1) = (n + j) - 1
    BY <1>2
  <2>2. Q'[j] = items[At(takeIndex, (n + j) - 1)].elem BY <2>1, <1>3, <1>5
  <2>3. Q[n + j] = items[At(takeIndex, (n + j) - 1)].elem BY <2>1, QFacts
  <2> QED BY <2>2, <2>3, <1>6
<1> QED BY <1>5, <1>6, <1>7, SeqEqual

\* The copied collection is the first content of the queue.
LEMMA InitFifo == ASSUME Plain, Init PROVE Q \in Contents
<1>1. PICK c \in Contents :
        /\ items = [i \in Slots |-> IF i < Len(c) THEN [elem |-> c[i + 1], no |-> i + 1] ELSE Null]
        /\ takeIndex = 0 /\ count = Len(c)
  BY DEF Init
<1>2. c \in Seq(Elements) /\ Len(c) \in 0..Capacity
  BY LenProperties
<1>3. Q \in Seq(Elements) /\ Len(Q) = Len(c)
      /\ \A j \in 1..Len(c) : Q[j] = items[At(0, j - 1)].elem
  BY <1>1, InitFifoInv, QFacts
<1>4. \A j \in 1..Len(c) : Q[j] = c[j]
  <2> TAKE j \in 1..Len(c)
  <2>1. At(0, j - 1) = j - 1 /\ j - 1 \in Slots /\ j - 1 < Len(c) /\ (j - 1) + 1 = j
    BY <1>2 DEF At
  <2>2. items[j - 1] = [elem |-> c[j], no |-> j] BY <2>1, <1>1
  <2> QED BY <2>1, <2>2, <1>3
<1>5. Q = c BY <1>2, <1>3, <1>4, SeqEqual
<1> QED BY <1>5

\* The queue implements a bounded first-in first-out queue without duplicates
\* (enqueue, dequeue, clear and drainTo, KeyArrayBlockingQueue.java:174-204).
THEOREM Implements == ASSUME Plain PROVE Spec => FifoSpec
<1>1. Init => Fifo!Init
  <2>1. Q = [j \in 1..count |-> items[SlotAt(j - 1)].elem] BY QIsFifo
  <2> QED BY <2>1, InitFifo DEF Fifo!Init
<1>2. ASSUME FifoInv, [Next]_vars
      PROVE  [Fifo!Next]_([j \in 1..count |-> items[SlotAt(j - 1)].elem])
  <2> DEFINE q == [j \in 1..count |-> items[SlotAt(j - 1)].elem]
  <2>1. Q = q /\ Q' = q'
    <3>1. Q = q BY QIsFifo
    <3>2. Q' = q' BY SlotIsAt DEF Q, Listing
    <3> QED BY <3>1, <3>2
  <2> SUFFICES Fifo!Next \/ Q' = Q BY <2>1
  <2>2. (\E e \in Elements : Fill(e)) \/ (\E n \in 0..count : Empty(n)) \/ UNCHANGED array
    BY <1>2, NextCases DEF Changed, vars
  <2>3. ASSUME NEW e \in Elements, Fill(e) PROVE Fifo!Next
    <3>1. Q' = Append(Q, e) /\ e \notin keys BY <1>2, <2>3, FillInserts
    <3>2. Len(Q) < Capacity /\ \A j \in DOMAIN Q : Q[j] # e
      BY <1>2, <2>3, <3>1, QFacts DEF Fill
    <3>3. Fifo!Insert(e) BY <2>1, <3>1, <3>2 DEF Fifo!Insert, Fifo!Holds
    <3> QED BY <3>3 DEF Fifo!Next
  <2>4. ASSUME NEW n \in 0..count, Empty(n) PROVE Fifo!Next \/ Q' = Q
    <3>1. Q' = SubSeq(Q, n + 1, count) /\ Len(Q) = count /\ count \in 0..Capacity
      BY <1>2, <2>4, EmptyExtracts, QFacts
    <3>2. CASE n = 0
      <4>1. Q \in Seq(Elements) BY <1>2, QFacts
      <4> QED BY <3>1, <3>2, <4>1
    <3>3. CASE n # 0
      <4>1. n \in 1..Capacity /\ n <= Len(Q) BY <3>1, <3>3
      <4>2. Fifo!Extract(n) BY <2>1, <3>1, <4>1 DEF Fifo!Extract
      <4> QED BY <4>1, <4>2 DEF Fifo!Next
    <3> QED BY <3>2, <3>3
  <2>5. CASE UNCHANGED array
    BY <2>5 DEF array, Q, Listing, At
  <2> QED BY <2>2, <2>3, <2>4, <2>5
<1> QED BY <1>1, <1>2, FifoInvariance, PTL DEF Spec, Safety, FifoSpec, Fifo!Spec

-----------------------------------------------------------------------------
(* The iterators.                                                          *)

USE DEF NONE, REMOVED, DETACHED

\* The entries of the queue, by places from the front.
View == [k \in 0..(count - 1) |-> items[At(takeIndex, k)]]

\* The types of an iterator, of all of them, and of what they have seen.
ItrType ==
  [cursor : Slots \cup {NONE}, nextItem : Entries \cup {Null},
   nextIndex : Slots \cup {NONE, REMOVED}, lastItem : Entries \cup {Null},
   lastRet : Slots \cup {NONE, REMOVED},
   prevTakeIndex : Slots \cup {DETACHED}, prevCycles : Nat]

ItrsType == [cycles : Nat, tracked : SUBSET Iterators, it : [Iterators -> ItrType]]

SeenType == [open : BOOLEAN, since : Nat, last : Entries \cup {Null}]

\* How many slots were dequeued since iterator it last caught up.
Lag(s, it, take) == (s.cycles - it.prevCycles) * Capacity + take - it.prevTakeIndex

\* Entries are in the order of their insertion.
Sorted(v, n, ser) ==
  \A k \in 0..(n - 1) : v[k].no < ser /\ \A j \in 0..(k - 1) : v[j].no < v[k].no

\* An index x stands for a place in a queue v of n entries, lag dequeues after t
\* was the take index, or for a slot dequeued meanwhile.
Within(x, t, lag, n) == x >= 0 => Distance(x, t) < lag + n

\* The entry in that place is e.
Means(x, t, lag, v, e) == x >= 0 /\ Distance(x, t) >= lag => v[Distance(x, t) - lag] = e

\* From place p on stand exactly the entries that are younger than number b.
Splits(v, n, b, lag, p) == \A k \in 0..(n - 1) : lag + k >= p <=> b < v[k].no

\* The cursor stands before exactly the entries that are younger than the next.
Before(it, lag, v, n) ==
  it.cursor >= 0 => Splits(v, n, it.nextItem.no, lag, Distance(it.cursor, it.prevTakeIndex))

\* v2 is v without the entry at place q.
ClosedUp(v, v2, n, q) == \A k \in 0..((n - 1) - 1) : v2[k] = IF k < q THEN v[k] ELSE v[k + 1]

\* An iterator that is still told of changes; w is what it has seen.
Live(it, lag, v, n, w) ==
  /\ lag >= 0
  /\ Within(it.cursor, it.prevTakeIndex, lag, n) /\ Within(it.nextIndex, it.prevTakeIndex, lag, n)
  /\ Within(it.lastRet, it.prevTakeIndex, lag, n)
  /\ Means(it.nextIndex, it.prevTakeIndex, lag, v, it.nextItem) /\ Means(it.lastRet, it.prevTakeIndex, lag, v, w.last)
  /\ Before(it, lag, v, n)
  /\ \A k \in 0..(n - 1) : lag + k >= Capacity => w.since <= v[k].no

\* What is true of every iterator, whatever the queue holds.
Own(it, w, ser) ==
  /\ w.since <= ser
  /\ ~w.open => w.last = Null /\ it.nextItem = Null
  /\ it.nextItem # Null => it.nextItem.no < ser
  /\ it.nextItem # Null /\ w.last # Null => w.last.no < it.nextItem.no
  /\ it.nextItem = Null => it.cursor < 0 /\ it.nextIndex < 0
  /\ IsDetached(it) =>
       it.cursor < 0 /\ it.nextIndex < 0 /\ (it.lastRet >= 0 => it.lastItem = w.last)

\* Entry e is not passed over.
Noticed(it, e, w) ==
  /\ ~(/\ (IF w.last = Null THEN 0 ELSE w.last.no) < e.no
       /\ e.no < IF it.nextItem = Null THEN w.since ELSE it.nextItem.no)
  /\ it.cursor < 0 /\ it.nextItem # Null /\ it.nextItem.no < e.no => w.since <= e.no

\* No entry of the queue is passed over.
Complete(it, v, n, w) == \A k \in 0..(n - 1) : Noticed(it, v[k], w)

\* The iterators s, some of which a sweep will find detached.
Loose(s, take, v, n, sn, ser) ==
  /\ s \in ItrsType
  /\ \A i \in Iterators :
       /\ Own(s.it[i], sn[i], ser) /\ Complete(s.it[i], v, n, sn[i])
       /\ ~IsDetached(s.it[i]) =>
            i \in s.tracked /\ n > 0 /\ Live(s.it[i], Lag(s, s.it[i], take), v, n, sn[i])

\* The iterators s when no method of theirs or of the queue is under way.
Good(s, take, v, n, sn, ser) ==
  Loose(s, take, v, n, sn, ser) /\ \A i \in s.tracked : ~IsDetached(s.it[i])

-----------------------------------------------------------------------------
(* Arithmetic.                                                             *)

\* Cycles times the length of the array: what the solver cannot see by itself.
LEMMA Cycles ==
  ASSUME NEW m \in Int
  PROVE  /\ (m + 1) * Capacity = m * Capacity + Capacity /\ (m + 0) * Capacity = m * Capacity
         /\ m = 0 => m * Capacity = 0
         /\ m = 1 => m * Capacity = Capacity
         /\ m >= 2 => m * Capacity >= 2 * Capacity
         /\ m < 0 => m * Capacity <= 0 - Capacity
         /\ m * Capacity \in Int
<1>1. \A a, b \in Int : (a + b) * Capacity = a * Capacity + b * Capacity /\ a * Capacity \in Int
  OBVIOUS
<1>2. \A a \in Nat : a * Capacity \in Nat OBVIOUS
<1>3. (m + 1) * Capacity = m * Capacity + Capacity BY <1>1
<1>4. ASSUME m >= 2 PROVE m * Capacity >= 2 * Capacity
  <2>1. m - 2 \in Nat /\ m = (m - 2) + 2 BY <1>4
  <2>2. m * Capacity = (m - 2) * Capacity + 2 * Capacity BY <2>1, <1>1
  <2>3. (m - 2) * Capacity \in Nat BY <2>1, <1>2
  <2> QED BY <2>2, <2>3
<1>5. ASSUME m < 0 PROVE m * Capacity <= 0 - Capacity
  <2>1. (0 - 1) - m \in Nat /\ ((0 - 1) - m) + m = 0 - 1 BY <1>5
  <2>2. (0 - 1) * Capacity = ((0 - 1) - m) * Capacity + m * Capacity BY <2>1, <1>1
  <2>3. ((0 - 1) - m) * Capacity \in Nat BY <2>1, <1>2
  <2>4. (0 - 1) * Capacity = 0 - Capacity OBVIOUS
  <2> QED BY <2>2, <2>3, <2>4, <1>1
<1> QED BY <1>1, <1>3, <1>4, <1>5

\* m cycles and take - t further on, lag slots have been dequeued.
Behind(lag, m, take, t) == lag = m * Capacity + take - t

\* A place that was not dequeued meanwhile is lag places nearer to the front.
LEMMA PlaceNow ==
  ASSUME NEW m \in Int, NEW take \in Slots, NEW prev \in Slots, NEW p \in Slots,
         NEW lag \in Int, Behind(lag, m, take, prev), lag >= 0, p >= lag
  PROVE  p - lag \in Slots /\ At(take, p - lag) = At(prev, p)
<1> DEFINE c == m * Capacity
<1>1. /\ c \in Int /\ (m = 0 => c = 0) /\ (m = 1 => c = Capacity)
      /\ (m >= 2 => c >= 2 * Capacity) /\ (m < 0 => c <= 0 - Capacity)
  BY Cycles
<1>2. lag = c + take - prev BY DEF Behind
<1> HIDE DEF c
<1>3. c = 0 \/ c = Capacity BY <1>1, <1>2
<1>4. p - lag \in Slots OBVIOUS
<1>5. CASE c = 0 BY <1>2, <1>4, <1>5 DEF At
<1>6. CASE c = Capacity BY <1>2, <1>4, <1>6 DEF At
<1> QED BY <1>3, <1>4, <1>5, <1>6

\* An iterator without lag stands at the take index, in the current cycle.
LEMMA NoLag ==
  ASSUME NEW m \in Int, NEW take \in Slots, NEW prev \in Slots, m * Capacity + take - prev = 0
  PROVE  m = 0 /\ prev = take
<1> DEFINE c == m * Capacity
<1>1. /\ c \in Int /\ (m = 0 => c = 0) /\ (m = 1 => c = Capacity)
      /\ (m >= 2 => c >= 2 * Capacity) /\ (m < 0 => c <= 0 - Capacity)
  BY Cycles
<1>2. c + take - prev = 0 OBVIOUS
<1> HIDE DEF c
<1> QED BY <1>1, <1>2

LEMMA IndexFacts ==
  \A x \in Slots \cup {NONE, REMOVED} :
    x \in Int /\ (x >= 0 => x \in Slots) /\ (x < 0 => x \in {NONE, REMOVED})
OBVIOUS

\* The ranges of the fields of an iterator, and of an entry.
LEMMA ItrFacts ==
  ASSUME NEW it \in ItrType
  PROVE  /\ it.cursor \in Slots \cup {NONE} /\ it.nextItem \in Entries \cup {Null}
         /\ it.nextIndex \in Slots \cup {NONE, REMOVED} /\ it.lastItem \in Entries \cup {Null}
         /\ it.lastRet \in Slots \cup {NONE, REMOVED}
         /\ it.prevTakeIndex \in Slots \cup {DETACHED} /\ it.prevCycles \in Nat
         /\ ~IsDetached(it) => it.prevTakeIndex \in Slots
         /\ IsDetached(it) => it.prevTakeIndex = DETACHED
         /\ \A x \in Slots : ~IsDetached(it) => Distance(x, it.prevTakeIndex) \in Slots
         /\ \A x \in {it.cursor, it.nextIndex, it.lastRet} :
              x \in Int /\ (x >= 0 => x \in Slots) /\ (x < 0 => x \in {NONE, REMOVED})
<1>1. /\ it.cursor \in Slots \cup {NONE} /\ it.nextItem \in Entries \cup {Null}
      /\ it.nextIndex \in Slots \cup {NONE, REMOVED} /\ it.lastItem \in Entries \cup {Null}
      /\ it.lastRet \in Slots \cup {NONE, REMOVED}
      /\ it.prevTakeIndex \in Slots \cup {DETACHED} /\ it.prevCycles \in Nat
  BY DEF ItrType
<1>2. /\ ~IsDetached(it) => it.prevTakeIndex \in Slots
      /\ IsDetached(it) => it.prevTakeIndex = DETACHED
  BY <1>1 DEF IsDetached
<1>3. \A x \in Slots : ~IsDetached(it) => Distance(x, it.prevTakeIndex) \in Slots
  BY <1>2, DistanceFacts
<1>4. it.cursor \in Slots \cup {NONE, REMOVED} BY <1>1
<1> QED BY <1>1, <1>2, <1>3, <1>4, IndexFacts

LEMMA EntryFacts == \A e \in Entries : e.no \in Nat /\ e # Null /\ e.elem \in Elements
BY DEF Entries

LEMMA LagIsInt ==
  ASSUME NEW s \in ItrsType, NEW it \in ItrType, NEW take \in Slots, ~IsDetached(it)
  PROVE  Lag(s, it, take) \in Int
<1>1. s.cycles - it.prevCycles \in Int BY ItrFacts DEF ItrsType
<1>2. (s.cycles - it.prevCycles) * Capacity \in Int BY <1>1, Cycles
<1> QED BY <1>2, ItrFacts DEF Lag

-----------------------------------------------------------------------------
(* What the queue does to one iterator.                                    *)

\* What follows if the entries left are some of the earlier ones.
LEMMA CompleteOf ==
  ASSUME NEW it, NEW w, NEW n \in Nat, NEW v, NEW n2 \in Nat, NEW v2, Complete(it, v, n, w),
         \A k \in 0..(n2 - 1) : \E j \in 0..(n - 1) : v2[k] = v[j]
  PROVE  Complete(it, v2, n2, w)
BY DEF Complete

\* An entry that is queued is younger than all that was seen.
LEMMA CompleteMore ==
  ASSUME NEW it \in ItrType, NEW w \in SeenType, NEW n \in Nat, NEW v, NEW v2, NEW ser \in Nat,
         Own(it, w, ser), Complete(it, v, n, w), v2[n].no = ser,
         \A k \in 0..(n - 1) : v2[k] = v[k]
  PROVE  Own(it, w, ser + 1) /\ Complete(it, v2, n + 1, w)
<1>1. /\ w.since \in Nat /\ (w.last # Null => w.last.no \in Nat)
      /\ (it.nextItem # Null => it.nextItem.no \in Nat)
  BY ItrFacts, EntryFacts DEF SeenType
<1>2. Own(it, w, ser + 1) BY <1>1 DEF Own
<1>3. Noticed(it, v2[n], w)
  BY <1>1 DEF Own, Noticed
<1>4. ASSUME NEW k \in 0..((n + 1) - 1) PROVE Noticed(it, v2[k], w)
  <2>1. CASE k = n BY <2>1, <1>3
  <2>2. CASE k \in 0..(n - 1) BY <2>2 DEF Complete
  <2> QED BY <2>1, <2>2
<1> QED BY <1>2, <1>4 DEF Complete

\* m entries are dequeued.
LEMMA LiveDequeued ==
  ASSUME NEW it \in ItrType, NEW w \in SeenType, NEW n \in Nat, NEW m \in 0..n, NEW v, NEW v2,
         NEW lag \in Int, ~IsDetached(it), Live(it, lag, v, n, w),
         \A k \in 0..((n - m) - 1) : v2[k] = v[k + m]
  PROVE  Live(it, lag + m, v2, n - m, w)
<1>1. \A x \in {it.cursor, it.nextIndex, it.lastRet} :
        x \in Int /\ (x >= 0 => Distance(x, it.prevTakeIndex) \in Slots)
  BY ItrFacts
<1>2. ASSUME NEW x \in Int, x >= 0 => Distance(x, it.prevTakeIndex) \in Slots, NEW e, Within(x, it.prevTakeIndex, lag, n), Means(x, it.prevTakeIndex, lag, v, e)
      PROVE  Within(x, it.prevTakeIndex, lag + m, n - m) /\ Means(x, it.prevTakeIndex, lag + m, v2, e)
  <2>1. Within(x, it.prevTakeIndex, lag + m, n - m) BY <1>2 DEF Within
  <2>2. ASSUME x >= 0, Distance(x, it.prevTakeIndex) >= lag + m PROVE v2[Distance(x, it.prevTakeIndex) - (lag + m)] = e
    <3>1. PICK p \in Slots : p = Distance(x, it.prevTakeIndex) BY <1>2, <2>2
    <3>2. p < lag + n /\ v[p - lag] = e BY <3>1, <1>2, <2>2 DEF Within, Means
    <3>3. p - (lag + m) \in 0..((n - m) - 1) /\ (p - (lag + m)) + m = p - lag
      BY <3>1, <3>2, <2>2
    <3> QED BY <3>1, <3>2, <3>3
  <2> QED BY <2>1, <2>2 DEF Means
<1>3. /\ Within(it.nextIndex, it.prevTakeIndex, lag + m, n - m) /\ Means(it.nextIndex, it.prevTakeIndex, lag + m, v2, it.nextItem)
      /\ Within(it.lastRet, it.prevTakeIndex, lag + m, n - m) /\ Means(it.lastRet, it.prevTakeIndex, lag + m, v2, w.last)
  BY <1>1, <1>2 DEF Live
<1>4. Within(it.cursor, it.prevTakeIndex, lag + m, n - m) BY <1>1 DEF Live, Within
<1>5. ASSUME NEW k \in 0..((n - m) - 1)
      PROVE  k + m \in 0..(n - 1) /\ v2[k] = v[k + m] /\ lag + (k + m) = (lag + m) + k
  OBVIOUS
<1>6. Before(it, lag + m, v2, n - m)
  BY <1>5 DEF Live, Before, Splits
<1>7. \A k \in 0..((n - m) - 1) : (lag + m) + k >= Capacity => w.since <= v2[k].no
  BY <1>5 DEF Live
<1> QED BY <1>3, <1>4, <1>6, <1>7 DEF Live

\* An entry is queued.
LEMMA LiveEnqueued ==
  ASSUME NEW it \in ItrType, NEW w \in SeenType, NEW n \in Nat, NEW v, NEW v2, NEW ser \in Nat,
         NEW lag \in Int, ~IsDetached(it), Live(it, lag, v, n, w), Own(it, w, ser),
         v2[n].no = ser, \A k \in 0..(n - 1) : v2[k] = v[k]
  PROVE  Live(it, lag, v2, n + 1, w)
<1>1. \A x \in {it.cursor, it.nextIndex, it.lastRet} :
        x \in Int /\ (x >= 0 => Distance(x, it.prevTakeIndex) \in Slots)
  BY ItrFacts
<1>2. ASSUME NEW x \in Int, x >= 0 => Distance(x, it.prevTakeIndex) \in Slots, NEW e, Within(x, it.prevTakeIndex, lag, n), Means(x, it.prevTakeIndex, lag, v, e)
      PROVE  Within(x, it.prevTakeIndex, lag, n + 1) /\ Means(x, it.prevTakeIndex, lag, v2, e)
  <2>1. Within(x, it.prevTakeIndex, lag, n + 1) BY <1>2 DEF Within
  <2>2. ASSUME x >= 0, Distance(x, it.prevTakeIndex) >= lag PROVE v2[Distance(x, it.prevTakeIndex) - lag] = e
    <3>1. PICK p \in Slots : p = Distance(x, it.prevTakeIndex) BY <1>2, <2>2
    <3>2. p < lag + n /\ v[p - lag] = e BY <3>1, <1>2, <2>2 DEF Within, Means
    <3>3. p - lag \in 0..(n - 1) BY <3>1, <3>2, <2>2
    <3> QED BY <3>1, <3>2, <3>3
  <2> QED BY <2>1, <2>2 DEF Means
<1>3. /\ Within(it.nextIndex, it.prevTakeIndex, lag, n + 1) /\ Means(it.nextIndex, it.prevTakeIndex, lag, v2, it.nextItem)
      /\ Within(it.lastRet, it.prevTakeIndex, lag, n + 1) /\ Means(it.lastRet, it.prevTakeIndex, lag, v2, w.last)
  BY <1>1, <1>2 DEF Live
<1>4. Within(it.cursor, it.prevTakeIndex, lag, n + 1) BY <1>1 DEF Live, Within
<1>5. \A k \in 0..((n + 1) - 1) : k = n \/ (k \in 0..(n - 1) /\ v2[k] = v[k])
  OBVIOUS
<1>6. Before(it, lag, v2, n + 1)
  <2> SUFFICES ASSUME it.cursor >= 0, NEW k \in 0..((n + 1) - 1)
               PROVE  lag + k >= Distance(it.cursor, it.prevTakeIndex) <=> it.nextItem.no < v2[k].no
    BY DEF Before, Splits
  <2>1. CASE k = n
    <3>1. lag + n >= Distance(it.cursor, it.prevTakeIndex) BY <1>1 DEF Live, Within
    <3>2. it.nextItem # Null /\ it.nextItem.no < ser BY <1>1 DEF Own
    <3> QED BY <2>1, <3>1, <3>2
  <2>2. CASE k \in 0..(n - 1) /\ v2[k] = v[k] BY <2>2 DEF Live, Before, Splits
  <2> QED BY <2>1, <2>2, <1>5
<1>7. \A k \in 0..((n + 1) - 1) : lag + k >= Capacity => w.since <= v2[k].no
  BY <1>5 DEF Live, Own
<1> QED BY <1>3, <1>4, <1>6, <1>7 DEF Live

\* Its shutdown.
LEMMA ShutdownFacts ==
  ASSUME NEW it \in ItrType, NEW w \in SeenType, NEW ser \in Nat, Own(it, w, ser)
  PROVE  /\ ShutdownItr(it) \in ItrType /\ IsDetached(ShutdownItr(it))
         /\ Own(ShutdownItr(it), w, ser)
         /\ ShutdownItr(it).lastRet < 0 /\ ShutdownItr(it).nextItem = it.nextItem
<1>1. PICK r : r = ShutdownItr(it) OBVIOUS
<1>2. /\ r.cursor = NONE /\ r.nextItem = it.nextItem
      /\ r.nextIndex = (IF it.nextIndex >= 0 THEN REMOVED ELSE it.nextIndex)
      /\ r.lastItem = (IF it.lastRet >= 0 THEN Null ELSE it.lastItem)
      /\ r.lastRet = (IF it.lastRet >= 0 THEN REMOVED ELSE it.lastRet)
      /\ r.prevTakeIndex = DETACHED /\ r.prevCycles = it.prevCycles
  BY <1>1 DEF ShutdownItr, ItrType
<1>3. r.nextIndex \in {NONE, REMOVED} /\ r.lastRet \in {NONE, REMOVED}
      /\ r.lastItem \in Entries \cup {Null}
  BY <1>2, ItrFacts
<1>4. r \in ItrType
  BY <1>1, <1>2, <1>3, ItrFacts DEF ShutdownItr, ItrType
<1>5. IsDetached(r) BY <1>2 DEF IsDetached
<1>6. Own(r, w, ser) BY <1>2, <1>3 DEF Own
<1> QED BY <1>1, <1>2, <1>3, <1>4, <1>5, <1>6

\* An index that follows a removal.
LEMMA FollowFacts ==
  ASSUME NEW t \in Slots, NEW x \in Slots \cup {NONE, REMOVED}, NEW gap \in Nat, NEW at
  PROVE  /\ x < 0 => Follow(x, t, gap, at) = x
         /\ x >= 0 /\ Distance(x, t) < gap => Follow(x, t, gap, at) = x
         /\ x >= 0 /\ Distance(x, t) = gap => Follow(x, t, gap, at) = at
         /\ x >= 0 /\ Distance(x, t) > gap =>
              /\ Follow(x, t, gap, at) = Dec(x) /\ Dec(x) \in Slots
              /\ Distance(Dec(x), t) = Distance(x, t) - 1
<1>1. x \in Int /\ (x >= 0 => x \in Slots) BY IndexFacts
<1>2. x >= 0 => Distance(x, t) \in Slots BY <1>1, DistanceFacts
<1>3. ASSUME x >= 0, Distance(x, t) > gap
      PROVE  Dec(x) \in Slots /\ Distance(Dec(x), t) = Distance(x, t) - 1
  <2>1. x \in Slots /\ Distance(x, t) > 0 BY <1>1, <1>2, <1>3
  <2> QED BY <2>1, DistanceFacts
<1> QED BY <1>1, <1>2, <1>3 DEF Follow

LEMMA FollowTyped ==
  ASSUME NEW t \in Slots, NEW gap \in Nat
  PROVE  /\ \A x \in Slots \cup {NONE, REMOVED} :
              Follow(x, t, gap, REMOVED) \in Slots \cup {NONE, REMOVED}
         /\ \A x \in Slots \cup {NONE}, put \in Slots :
              Follow(x, t, gap, IF x = put THEN NONE ELSE x) \in Slots \cup {NONE}
<1>1. ASSUME NEW x \in Slots \cup {NONE, REMOVED}, NEW at
      PROVE  Follow(x, t, gap, at) \in Slots \cup {x, at}
  <2>1. x \in Int /\ (x >= 0 => Distance(x, t) \in Slots) BY IndexFacts, DistanceFacts
  <2>2. x < 0 \/ (x >= 0 /\ Distance(x, t) < gap) \/ (x >= 0 /\ Distance(x, t) = gap)
        \/ (x >= 0 /\ Distance(x, t) > gap)
    BY <2>1
  <2> QED BY <2>2, FollowFacts
<1> QED BY <1>1

\* What becomes of the indices of it when the slot at a distance of gap is removed.
Moved(it, gap, put) ==
  [it EXCEPT !.cursor = Follow(@, it.prevTakeIndex, gap, IF @ = put THEN NONE ELSE @),
             !.lastRet = Follow(@, it.prevTakeIndex, gap, REMOVED),
             !.nextIndex = Follow(@, it.prevTakeIndex, gap, REMOVED)]

\* The fields of an iterator that was told of a removal.
LEMMA MovedFields ==
  ASSUME NEW it \in ItrType, NEW gap \in Nat, NEW put \in Slots, ~IsDetached(it)
  PROVE  /\ Moved(it, gap, put) \in ItrType
         /\ Moved(it, gap, put).cursor =
              Follow(it.cursor, it.prevTakeIndex, gap, IF it.cursor = put THEN NONE ELSE it.cursor)
         /\ Moved(it, gap, put).lastRet = Follow(it.lastRet, it.prevTakeIndex, gap, REMOVED)
         /\ Moved(it, gap, put).nextIndex = Follow(it.nextIndex, it.prevTakeIndex, gap, REMOVED)
         /\ Moved(it, gap, put).nextItem = it.nextItem /\ Moved(it, gap, put).lastItem = it.lastItem
         /\ Moved(it, gap, put).prevTakeIndex = it.prevTakeIndex
         /\ Moved(it, gap, put).prevCycles = it.prevCycles
<1>1. PICK c : c = Follow(it.cursor, it.prevTakeIndex, gap, IF it.cursor = put THEN NONE ELSE it.cursor)
  OBVIOUS
<1>2. PICK l : l = Follow(it.lastRet, it.prevTakeIndex, gap, REMOVED) OBVIOUS
<1>3. PICK x : x = Follow(it.nextIndex, it.prevTakeIndex, gap, REMOVED) OBVIOUS
<1>4. Moved(it, gap, put) = [it EXCEPT !.cursor = c, !.lastRet = l, !.nextIndex = x]
  BY <1>1, <1>2, <1>3 DEF Moved
<1>5. it.prevTakeIndex \in Slots BY ItrFacts
<1>6. c \in Slots \cup {NONE}
  <2>1. it.cursor \in Slots \cup {NONE} BY ItrFacts
  <2> QED BY <2>1, <1>1, <1>5, FollowTyped
<1>7. l \in Slots \cup {NONE, REMOVED}
  BY <1>2, <1>5, FollowTyped, ItrFacts
<1>8. x \in Slots \cup {NONE, REMOVED}
  BY <1>3, <1>5, FollowTyped, ItrFacts
<1>9. PICK r : r = [it EXCEPT !.cursor = c, !.lastRet = l, !.nextIndex = x] OBVIOUS
<1>10. /\ r.cursor = c /\ r.lastRet = l /\ r.nextIndex = x /\ r.nextItem = it.nextItem
       /\ r.lastItem = it.lastItem /\ r.prevTakeIndex = it.prevTakeIndex /\ r.prevCycles = it.prevCycles
  BY <1>9 DEF ItrType
<1>11. r \in ItrType BY <1>6, <1>7, <1>8, <1>9, ItrFacts DEF ItrType
<1> QED BY <1>1, <1>2, <1>3, <1>4, <1>9, <1>10, <1>11

\* The entry at place q, which is not the first, is removed.  An index behind it
\* moves up with its entry.
LEMMA IndexMoved ==
  ASSUME NEW t \in Slots, NEW x \in Slots \cup {NONE, REMOVED}, NEW lag \in Nat, NEW n \in Nat,
         NEW q \in 0..(n - 1), NEW gap \in Nat, gap = lag + q, NEW v, NEW v2, NEW e,
         ClosedUp(v, v2, n, q),
         Within(x, t, lag, n), Means(x, t, lag, v, e),
         NEW y, y = Follow(x, t, gap, REMOVED)
  PROVE  Within(y, t, lag, n - 1) /\ Means(y, t, lag, v2, e)
<1>0. /\ x >= 0 => Distance(x, t) < lag + n
      /\ x >= 0 /\ Distance(x, t) >= lag => v[Distance(x, t) - lag] = e
  BY DEF Within, Means
<1>1. x \in Int /\ (x >= 0 => Distance(x, t) \in Slots) BY IndexFacts, DistanceFacts
<1> SUFFICES /\ y >= 0 => Distance(y, t) < lag + (n - 1)
             /\ y >= 0 /\ Distance(y, t) >= lag => v2[Distance(y, t) - lag] = e
  BY DEF Within, Means
<1>2. CASE x < 0 BY <1>2, <1>1, FollowFacts
<1>3. CASE x >= 0 /\ Distance(x, t) < gap
  <2>1. y = x BY <1>3, FollowFacts
  <2>2. PICK p \in Slots : p = Distance(x, t) BY <1>1, <1>3
  <2>3. p < lag + (n - 1) BY <2>2, <1>3
  <2>4. ASSUME p >= lag PROVE v2[p - lag] = e
    <3>1. p - lag \in 0..((n - 1) - 1) /\ p - lag < q BY <2>2, <2>4, <1>3
    <3> QED BY <3>1, <2>2, <2>4, <1>0, <1>3 DEF ClosedUp
  <2> QED BY <2>1, <2>2, <2>3, <2>4
<1>4. CASE x >= 0 /\ Distance(x, t) = gap
  <2>1. y = REMOVED BY <1>4, FollowFacts
  <2> QED BY <2>1
<1>5. CASE x >= 0 /\ Distance(x, t) > gap
  <2>1. y = Dec(x) /\ Distance(y, t) = Distance(x, t) - 1 BY <1>5, FollowFacts
  <2>2. PICK p \in Slots : p = Distance(x, t) BY <1>1, <1>5
  <2>3. p - 1 < lag + (n - 1) BY <2>2, <1>0, <1>5
  <2>3a. p > lag + q BY <2>2, <1>5
  <2>4. (p - 1) - lag \in 0..((n - 1) - 1) /\ (p - 1) - lag >= q /\ ((p - 1) - lag) + 1 = p - lag
    BY <2>3, <2>3a
  <2>5. v2[(p - 1) - lag] = v[p - lag] BY <2>4 DEF ClosedUp
  <2>6. v[p - lag] = e BY <2>2, <1>0, <1>5
  <2> QED BY <2>1, <2>2, <2>3, <2>5, <2>6
<1> QED BY <1>1, <1>2, <1>3, <1>4, <1>5

\* Cursor x, between the entries numbered up to b and those after b; it is the
\* put index if it is behind the entry that is removed, and that is the last.
Aim(x, t, lag, n, v, b) ==
  Within(x, t, lag, n) /\ (x >= 0 => Splits(v, n, b, lag, Distance(x, t)))
AtPut(x, t, gap, put, q, n) ==
  x >= 0 /\ Distance(x, t) = gap => (x = put <=> q = n - 1)

\* The cursor, when the entry at place q is removed.
LEMMA CursorMoved ==
  ASSUME NEW t \in Slots, NEW x \in Slots \cup {NONE}, NEW lag \in Nat, NEW n \in Nat,
         NEW q \in 0..(n - 1), NEW gap \in Nat, gap = lag + q, NEW put \in Slots, NEW v, NEW v2, NEW b \in Nat,
         ClosedUp(v, v2, n, q),
         Aim(x, t, lag, n, v, b), AtPut(x, t, gap, put, q, n),
         NEW at, at = (IF x = put THEN NONE ELSE x), NEW y, y = Follow(x, t, gap, at)
  PROVE  /\ Aim(y, t, lag, n - 1, v2, b)
         /\ x < 0 => y < 0
         /\ x >= 0 /\ y < 0 => \A k \in 0..((n - 1) - 1) : ~(b < v2[k].no)
<1> SUFFICES ASSUME Within(x, t, lag, n),
                    x >= 0 => Splits(v, n, b, lag, Distance(x, t)),
                    x >= 0 /\ Distance(x, t) = gap => (x = put <=> q = n - 1)
             PROVE  /\ Within(y, t, lag, n - 1)
                    /\ y >= 0 => Splits(v2, n - 1, b, lag, Distance(y, t))
                    /\ x < 0 => y < 0
                    /\ x >= 0 /\ y < 0 => \A k \in 0..((n - 1) - 1) : ~(b < v2[k].no)
  BY DEF Aim, AtPut
<1>1. x \in Slots \cup {NONE, REMOVED} /\ x \in Int /\ (x >= 0 => Distance(x, t) \in Slots)
  BY IndexFacts, DistanceFacts
<1>2. CASE x < 0
  <2>1. y = x BY <1>2, <1>1, FollowFacts
  <2> QED BY <2>1, <1>2, <1>1 DEF Within
<1>3. CASE x >= 0
  <2>1. PICK p \in Slots : p = Distance(x, t) BY <1>1, <1>3
  <2>2. \A k \in 0..(n - 1) : lag + k >= p <=> b < v[k].no BY <2>1, <1>3 DEF Splits
  <2>3. ASSUME NEW k \in 0..((n - 1) - 1)
        PROVE  /\ k < q => (lag + k >= p <=> b < v2[k].no)
               /\ k >= q => (lag + (k + 1) >= p <=> b < v2[k].no)
    <3>1. k \in 0..(n - 1) /\ k + 1 \in 0..(n - 1) OBVIOUS
    <3>2. CASE k < q
      <4>1. v2[k] = v[k] BY <3>2 DEF ClosedUp
      <4>2. lag + k >= p <=> b < v[k].no BY <3>1, <2>2
      <4> QED BY <4>1, <4>2, <3>2
    <3>3. CASE k >= q
      <4>1. v2[k] = v[k + 1] BY <3>3 DEF ClosedUp
      <4>2. lag + (k + 1) >= p <=> b < v[k + 1].no BY <3>1, <2>2
      <4> QED BY <4>1, <4>2, <3>3
    <3> QED BY <3>2, <3>3
  <2>4. p < lag + n BY <2>1, <1>3 DEF Within
  <2>5. CASE p < gap
    <3>1. y = x BY <2>1, <2>5, <1>3, FollowFacts
    <3>2. p < lag + (n - 1) BY <2>5
    <3>3. ASSUME NEW k \in 0..((n - 1) - 1) PROVE lag + k >= p <=> b < v2[k].no
      <4>1. CASE k < q BY <4>1, <2>3
      <4>2. CASE k >= q
        <5>1. lag + k >= p /\ lag + (k + 1) >= p BY <4>2, <2>5
        <5> QED BY <5>1, <4>2, <2>3
      <4> QED BY <4>1, <4>2
    <3>4. Splits(v2, n - 1, b, lag, p) BY <3>3 DEF Splits
    <3> QED BY <3>1, <3>2, <3>4, <2>1, <1>3, <1>1 DEF Within
  <2>6. CASE p = gap
    <3>1. y = IF x = put THEN NONE ELSE x
      <4>1. x >= 0 /\ Distance(x, t) = gap BY <2>1, <2>6, <1>3
      <4>2. Follow(x, t, gap, at) = at BY <4>1, <1>1, FollowFacts
      <4> QED BY <4>2
    <3>2. ASSUME NEW k \in 0..((n - 1) - 1) PROVE lag + k >= p <=> b < v2[k].no
      <4>1. k < q \/ (k >= q /\ lag + k >= p /\ lag + (k + 1) >= p) BY <2>6
      <4> QED BY <4>1, <2>3
    <3>3. x = put <=> q = n - 1 BY <2>1, <2>6, <1>3
    <3>4. CASE x = put
      <4>1. y = NONE /\ q = n - 1 BY <3>1, <3>3, <3>4
      <4>2. \A k \in 0..((n - 1) - 1) : ~(b < v2[k].no) BY <4>1, <3>2, <2>6
      <4> QED BY <4>1, <4>2, <1>3 DEF Within
    <3>5. CASE x # put
      <4>1. y = x /\ q # n - 1 BY <3>1, <3>3, <3>5
      <4>2. p < lag + (n - 1) BY <4>1, <2>6
      <4>3. Splits(v2, n - 1, b, lag, p) BY <3>2, <2>6 DEF Splits
      <4> QED BY <4>1, <4>2, <4>3, <2>1, <1>3, <1>1 DEF Within
    <3> QED BY <3>4, <3>5
  <2>7. CASE p > gap
    <3>1. y \in Slots /\ Distance(y, t) = p - 1 BY <2>1, <2>7, <1>3, FollowFacts
    <3>2. p - 1 < lag + (n - 1) BY <2>4
    <3>3. ASSUME NEW k \in 0..((n - 1) - 1) PROVE lag + k >= p - 1 <=> b < v2[k].no
      <4>1. \/ k < q /\ ~(lag + k >= p) /\ ~(lag + k >= p - 1)
            \/ k >= q /\ (lag + k >= p - 1 <=> lag + (k + 1) >= p)
        BY <2>7
      <4> QED BY <4>1, <2>3
    <3>4. Splits(v2, n - 1, b, lag, p - 1) BY <3>3 DEF Splits
    <3> QED BY <3>1, <3>2, <3>4, <1>3 DEF Within
  <2> QED BY <2>5, <2>6, <2>7
<1> QED BY <1>1, <1>2, <1>3

\* An iterator is told that the entry at place q was removed.
LEMMA LiveRemoved ==
  ASSUME NEW it \in ItrType, NEW w \in SeenType, NEW n \in Nat, NEW q \in 0..(n - 1), NEW gap \in Nat,
         NEW v \in [0..(n - 1) -> Entries], NEW v2, NEW ser \in Nat, NEW lag \in Nat, NEW put \in Slots,
         gap = lag + q,
         ~IsDetached(it), Live(it, lag, v, n, w), Own(it, w, ser), Complete(it, v, n, w),
         ClosedUp(v, v2, n, q),
         it.cursor >= 0 /\ Distance(it.cursor, it.prevTakeIndex) = gap => (it.cursor = put <=> q = n - 1),
         NEW r, r = Moved(it, gap, put)
  PROVE  /\ r \in ItrType /\ Own(r, w, ser) /\ Complete(r, v2, n - 1, w)
         /\ Live(r, lag, v2, n - 1, w)
         /\ it.nextIndex < 0 => r.nextIndex < 0
         /\ it.lastRet < 0 => r.lastRet < 0
<1>1. gap \in Nat OBVIOUS
<1>2. /\ r \in ItrType
      /\ r.cursor = Follow(it.cursor, it.prevTakeIndex, gap, IF it.cursor = put THEN NONE ELSE it.cursor)
      /\ r.lastRet = Follow(it.lastRet, it.prevTakeIndex, gap, REMOVED)
      /\ r.nextIndex = Follow(it.nextIndex, it.prevTakeIndex, gap, REMOVED)
      /\ r.nextItem = it.nextItem /\ r.lastItem = it.lastItem
      /\ r.prevTakeIndex = it.prevTakeIndex /\ r.prevCycles = it.prevCycles
  BY <1>1, MovedFields
<1>3. it.prevTakeIndex \in Slots /\ ~IsDetached(r) BY <1>2, ItrFacts DEF IsDetached
<1>5. ASSUME NEW x \in Slots \cup {NONE, REMOVED}, NEW e, Within(x, it.prevTakeIndex, lag, n), Means(x, it.prevTakeIndex, lag, v, e),
             NEW y, y = Follow(x, it.prevTakeIndex, gap, REMOVED)
      PROVE  Within(y, r.prevTakeIndex, lag, n - 1) /\ Means(y, r.prevTakeIndex, lag, v2, e) /\ (x < 0 => y < 0)
  <2>1. PICK t \in Slots : t = it.prevTakeIndex BY <1>3
  <2>2. Within(x, t, lag, n) /\ Means(x, t, lag, v, e) /\ y = Follow(x, t, gap, REMOVED)
    BY <2>1, <1>5
  <2>3. Within(y, t, lag, n - 1) /\ Means(y, t, lag, v2, e) BY <2>2, IndexMoved
  <2>4. x < 0 => y < 0 BY <2>2, FollowFacts
  <2> QED BY <2>1, <2>3, <2>4, <1>2
<1>6. it.nextIndex \in Slots \cup {NONE, REMOVED} /\ it.lastRet \in Slots \cup {NONE, REMOVED}
  BY ItrFacts
<1>7. /\ Within(r.nextIndex, r.prevTakeIndex, lag, n - 1) /\ Means(r.nextIndex, r.prevTakeIndex, lag, v2, r.nextItem)
      /\ Within(r.lastRet, r.prevTakeIndex, lag, n - 1) /\ Means(r.lastRet, r.prevTakeIndex, lag, v2, w.last)
      /\ it.nextIndex < 0 => r.nextIndex < 0
      /\ it.lastRet < 0 => r.lastRet < 0
  BY <1>2, <1>5, <1>6 DEF Live
<1>8. /\ Within(r.cursor, r.prevTakeIndex, lag, n - 1) /\ Before(r, lag, v2, n - 1)
      /\ it.cursor < 0 => r.cursor < 0
      /\ it.cursor >= 0 /\ r.cursor < 0 => \A k \in 0..((n - 1) - 1) : ~(it.nextItem.no < v2[k].no)
  <2>2. it.cursor \in Slots \cup {NONE} BY ItrFacts
  <2>3. CASE it.nextItem = Null
    <3>1. it.cursor = NONE BY <2>2, <2>3 DEF Own
    <3>2. r.cursor = NONE BY <3>1, <1>1, <1>2, <1>3, FollowFacts
    <3> QED BY <3>1, <3>2 DEF Within, Before
  <2>4. CASE it.nextItem # Null
    <3>1. PICK b \in Nat : b = it.nextItem.no BY <2>4, ItrFacts, EntryFacts
    <3>2. /\ Within(it.cursor, it.prevTakeIndex, lag, n)
          /\ it.cursor >= 0 => Splits(v, n, b, lag, Distance(it.cursor, it.prevTakeIndex))
          /\ it.cursor >= 0 /\ Distance(it.cursor, it.prevTakeIndex) = gap =>
               (it.cursor = put <=> q = n - 1)
      BY <3>1 DEF Live, Before
    <3>3. /\ Within(r.cursor, it.prevTakeIndex, lag, n - 1)
          /\ r.cursor >= 0 => Splits(v2, n - 1, b, lag, Distance(r.cursor, it.prevTakeIndex))
          /\ it.cursor < 0 => r.cursor < 0
          /\ it.cursor >= 0 /\ r.cursor < 0 => \A k \in 0..((n - 1) - 1) : ~(b < v2[k].no)
      <4>1. PICK t \in Slots : t = it.prevTakeIndex BY <1>3
      <4>2. PICK x \in Slots \cup {NONE} : x = it.cursor BY <2>2
      <4>3. PICK y : y = r.cursor OBVIOUS
      <4> PICK at : at = IF x = put THEN NONE ELSE x OBVIOUS
      <4>4. y = Follow(x, t, gap, at) BY <4>1, <4>2, <4>3, <1>2
      <4>5. Aim(x, t, lag, n, v, b) /\ AtPut(x, t, gap, put, q, n)
        BY <4>1, <4>2, <3>2 DEF Aim, AtPut
      <4>6. /\ Aim(y, t, lag, n - 1, v2, b)
            /\ x < 0 => y < 0
            /\ x >= 0 /\ y < 0 => \A k \in 0..((n - 1) - 1) : ~(b < v2[k].no)
        BY <4>4, <4>5, CursorMoved
      <4> QED BY <4>1, <4>2, <4>3, <4>6 DEF Aim
    <3> QED BY <3>1, <3>3, <1>2 DEF Before, Splits
  <2> QED BY <2>3, <2>4
<1>9. \A k \in 0..((n - 1) - 1) : \E j \in 0..(n - 1) : v2[k] = v[j] /\ j >= k
  <2> TAKE k \in 0..((n - 1) - 1)
  <2>1. k \in 0..(n - 1) /\ k + 1 \in 0..(n - 1) OBVIOUS
  <2> QED BY <2>1 DEF ClosedUp
<1>10. \A k \in 0..((n - 1) - 1) : lag + k >= Capacity => w.since <= v2[k].no
  <2> TAKE k \in 0..((n - 1) - 1)
  <2>1. k \in 0..(n - 1) /\ k + 1 \in 0..(n - 1) OBVIOUS
  <2>2. (v2[k] = v[k] \/ v2[k] = v[k + 1]) BY <2>1 DEF ClosedUp
  <2> QED BY <2>1, <2>2 DEF Live
<1>11. Complete(r, v2, n - 1, w)
  <2> SUFFICES ASSUME NEW k \in 0..((n - 1) - 1) PROVE Noticed(r, v2[k], w) BY DEF Complete
  <2>1. PICK j \in 0..(n - 1) : v2[k] = v[j] BY <1>9
  <2>2. Noticed(it, v2[k], w) BY <2>1 DEF Complete
  <2>0. it.cursor \in Int BY ItrFacts
  <2>3. it.cursor >= 0 \/ it.cursor < 0 BY <2>0
  <2> QED BY <2>2, <2>3, <1>2, <1>8 DEF Noticed
<1>12. Own(r, w, ser)
  <2>1. it.nextItem = Null => r.cursor < 0 /\ r.nextIndex < 0 BY <1>7, <1>8 DEF Own
  <2> QED BY <2>1, <1>2, <1>3 DEF Own
<1>13. Live(r, lag, v2, n - 1, w)
  BY <1>2, <1>7, <1>8, <1>10 DEF Live
<1> QED BY <1>2, <1>7, <1>11, <1>12, <1>13

\* An index that was not dequeued stands, seen from the front, lag places nearer.
LEMMA IndexCaughtUp ==
  ASSUME NEW t \in Slots, NEW take \in Slots, NEW x \in Slots \cup {NONE, REMOVED},
         NEW m \in Int, NEW lag \in Nat, Behind(lag, m, take, t), NEW n \in Nat, NEW v, NEW e,
         Within(x, t, lag, n), Means(x, t, lag, v, e)
  PROVE  /\ x >= 0 /\ ~(lag > Distance(x, t)) =>
              Distance(x, t) \in Slots /\ Distance(x, take) = Distance(x, t) - lag
         /\ ~(x >= 0 /\ lag > Distance(x, t)) => Within(x, take, 0, n) /\ Means(x, take, 0, v, e)
<1>1. x \in Int /\ (x >= 0 => x \in Slots /\ Distance(x, t) \in Slots)
  BY IndexFacts, DistanceFacts
<1>2. ASSUME x >= 0, ~(lag > Distance(x, t))
      PROVE  Distance(x, t) \in Slots /\ Distance(x, take) = Distance(x, t) - lag
  <2>1. PICK p \in Slots : p = Distance(x, t) BY <1>1, <1>2
  <2>2. lag \in Int /\ lag >= 0 /\ p >= lag BY <2>1, <1>2
  <2>3. p - lag \in Slots /\ At(take, p - lag) = At(t, p) BY <2>2, PlaceNow
  <2>4. At(t, p) = x BY <2>1, <1>1, <1>2, DistanceFacts
  <2>5. PICK k \in Slots : k = p - lag BY <2>3
  <2>6. Distance(At(take, k), take) = k BY DistanceFacts
  <2> QED BY <2>1, <2>3, <2>4, <2>5, <2>6
<1>3. CASE x < 0
  BY <1>1, <1>2, <1>3 DEF Within, Means
<1>4. CASE x >= 0 /\ lag > Distance(x, t)
  BY <1>1, <1>4
<1>5. CASE x >= 0 /\ ~(lag > Distance(x, t))
  <2>1. PICK p \in Slots : p = Distance(x, t) BY <1>1, <1>5
  <2>2. Distance(x, take) = p - lag BY <2>1, <1>2, <1>5
  <2>3. p < lag + n /\ v[p - lag] = e BY <2>1, <1>5 DEF Within, Means
  <2>4. p - lag < 0 + n /\ (p - lag) - 0 = p - lag BY <2>3
  <2> QED BY <2>1, <2>2, <2>3, <2>4, <1>2, <1>5 DEF Within, Means
<1> QED BY <1>1, <1>3, <1>4, <1>5

\* Iterator it stands now where the queue does.
Placed(it, cycles, take) == [it EXCEPT !.prevCycles = cycles, !.prevTakeIndex = take]

\* The fields of an iterator that is put at the take index.
LEMMA ItrPlaced ==
  ASSUME NEW it \in ItrType, NEW cycles \in Nat, NEW t \in Slots,
         NEW r, r = Placed(it, cycles, t)
  PROVE  /\ r \in ItrType /\ r.prevTakeIndex = t /\ r.prevCycles = cycles
         /\ r.cursor = it.cursor /\ r.nextItem = it.nextItem /\ r.nextIndex = it.nextIndex
         /\ r.lastRet = it.lastRet /\ r.lastItem = it.lastItem
<1>1. t \in Slots \cup {DETACHED} OBVIOUS
<1>2. r \in ItrType BY <1>1 DEF ItrType, Placed
<1> QED BY <1>2 DEF ItrType, Placed

\* The indices of it when lag slots were dequeued.
Updated(it, lag, take) ==
  [it EXCEPT !.lastRet = IF @ >= 0 /\ lag > Distance(@, it.prevTakeIndex) THEN REMOVED ELSE @,
             !.nextIndex = IF @ >= 0 /\ lag > Distance(@, it.prevTakeIndex) THEN REMOVED ELSE @,
             !.cursor = IF @ >= 0 /\ lag > Distance(@, it.prevTakeIndex) THEN take ELSE @]

\* Iterator it has caught up: r is what became of its indices, and r2 is placed.
CaughtUp(it, r, r2, take, cycles, v, n, w, ser) ==
  /\ r \in ItrType /\ r2 \in ItrType /\ ~IsDetached(r2) /\ ~IsDetached(r)
  /\ Own(r, w, ser) /\ Own(r2, w, ser) /\ Complete(r, v, n, w) /\ Complete(r2, v, n, w)
  /\ Live(r2, 0, v, n, w)
  /\ r2.prevTakeIndex = take /\ r2.prevCycles = cycles /\ r2.nextItem = it.nextItem
  /\ r2.lastRet = r.lastRet /\ r2.lastItem = it.lastItem
  /\ r2.cursor = r.cursor /\ r2.nextIndex = r.nextIndex

LEMMA LiveCaughtUp ==
  ASSUME NEW it \in ItrType, NEW w \in SeenType, NEW n \in 1..Capacity, NEW v, NEW ser \in Nat,
         NEW take \in Slots, NEW m \in Int, NEW cycles \in Nat, NEW lag \in Nat,
         Behind(lag, m, take, it.prevTakeIndex),
         ~IsDetached(it), Live(it, lag, v, n, w), Own(it, w, ser), Complete(it, v, n, w),
         NEW r, r = Updated(it, lag, take), NEW r2, r2 = Placed(r, cycles, take)
  PROVE  CaughtUp(it, r, r2, take, cycles, v, n, w, ser)
<1>1. PICK t \in Slots : t = it.prevTakeIndex BY ItrFacts
<1> DEFINE Gone(x) == x >= 0 /\ lag > Distance(x, t)
<1>2. PICK l : l = IF Gone(it.lastRet) THEN REMOVED ELSE it.lastRet OBVIOUS
<1>3. PICK x : x = IF Gone(it.nextIndex) THEN REMOVED ELSE it.nextIndex OBVIOUS
<1>4. PICK c : c = IF Gone(it.cursor) THEN take ELSE it.cursor OBVIOUS
<1>5. r = [it EXCEPT !.lastRet = l, !.nextIndex = x, !.cursor = c]
  BY <1>1, <1>2, <1>3, <1>4 DEF Updated
<1>6. /\ l \in Slots \cup {NONE, REMOVED} /\ x \in Slots \cup {NONE, REMOVED}
      /\ c \in Slots \cup {NONE}
  BY <1>2, <1>3, <1>4, ItrFacts
<1>7. r \in ItrType /\ r2 \in ItrType
  <2>1. r \in ItrType BY <1>5, <1>6 DEF ItrType
  <2>3. r2 \in ItrType BY <2>1, ItrPlaced
  <2> QED BY <2>1, <2>3
<1>8. /\ r.cursor = c /\ r.lastRet = l /\ r.nextIndex = x /\ r.nextItem = it.nextItem
      /\ r.lastItem = it.lastItem /\ r.prevTakeIndex = t
  BY <1>1, <1>5 DEF ItrType
<1>9. /\ r2.cursor = c /\ r2.lastRet = l /\ r2.nextIndex = x /\ r2.nextItem = it.nextItem
      /\ r2.lastItem = it.lastItem /\ r2.prevTakeIndex = take /\ r2.prevCycles = cycles
  BY <1>7, <1>8 DEF ItrType, Placed
<1>10. ~IsDetached(r) /\ ~IsDetached(r2) BY <1>8, <1>9 DEF IsDetached
<1>11. Behind(lag, m, take, t) BY <1>1
<1>12. /\ it.lastRet \in Slots \cup {NONE, REMOVED} /\ it.nextIndex \in Slots \cup {NONE, REMOVED}
       /\ it.cursor \in Slots \cup {NONE, REMOVED} /\ it.cursor \in Slots \cup {NONE}
       /\ it.cursor \in Int /\ it.nextIndex \in Int
  BY ItrFacts
<1>13. /\ Within(it.lastRet, t, lag, n) /\ Means(it.lastRet, t, lag, v, w.last)
       /\ Within(it.nextIndex, t, lag, n) /\ Means(it.nextIndex, t, lag, v, it.nextItem)
       /\ Within(it.cursor, t, lag, n)
       /\ it.cursor >= 0 => Splits(v, n, it.nextItem.no, lag, Distance(it.cursor, t))
  BY <1>1 DEF Live, Before
<1>21. ASSUME NEW y \in Slots \cup {NONE, REMOVED}, NEW e, Within(y, t, lag, n), Means(y, t, lag, v, e), ~Gone(y)
       PROVE  Within(y, take, 0, n) /\ Means(y, take, 0, v, e)
  <2>1. ~(y >= 0 /\ lag > Distance(y, t)) BY <1>21
  <2>2. n \in Nat OBVIOUS
  <2>3. Within(y, t, lag, n) /\ Means(y, t, lag, v, e) BY <1>21
  <2> HIDE DEF Gone
  <2> QED BY <2>1, <2>2, <2>3, <1>11, IndexCaughtUp
<1>14. Within(l, take, 0, n) /\ Means(l, take, 0, v, w.last)
  <2>1. CASE Gone(it.lastRet) BY <2>1, <1>2 DEF Within, Means
  <2>2. CASE ~Gone(it.lastRet)
    <3>1. l = it.lastRet BY <2>2, <1>2
    <3> QED BY <2>2, <3>1, <1>12, <1>13, <1>21
  <2> QED BY <2>1, <2>2
<1>15. Within(x, take, 0, n) /\ Means(x, take, 0, v, it.nextItem)
  <2>1. CASE Gone(it.nextIndex) BY <2>1, <1>3 DEF Within, Means
  <2>2. CASE ~Gone(it.nextIndex)
    <3>1. x = it.nextIndex BY <2>2, <1>3
    <3> QED BY <2>2, <3>1, <1>12, <1>13, <1>21
  <2> QED BY <2>1, <2>2
<1>16. /\ Within(c, take, 0, n)
       /\ c >= 0 => Splits(v, n, it.nextItem.no, 0, Distance(c, take))
       /\ it.cursor < 0 <=> c < 0
  <2>1. CASE Gone(it.cursor)
    <3>1. c = take /\ Distance(c, take) = 0 BY <2>1, <1>4, DistanceFacts
    <3>2. PICK p \in Slots : p = Distance(it.cursor, t) BY <2>1, <1>12, IndexFacts, DistanceFacts
    <3>3. \A k \in 0..(n - 1) : lag + k >= p /\ 0 + k >= 0 BY <2>1, <3>2
    <3>4. Splits(v, n, it.nextItem.no, lag, p) BY <2>1, <3>2, <1>13
    <3>5. Splits(v, n, it.nextItem.no, 0, 0) BY <3>3, <3>4 DEF Splits
    <3>6. 0 < 0 + n /\ c >= 0 BY <3>1
    <3>7. Distance(c, take) < 0 + n BY <3>1, <3>6
    <3>8. ~(it.cursor < 0) /\ ~(c < 0) BY <2>1, <3>6, <1>6, <1>12
    <3> QED BY <3>1, <3>5, <3>7, <3>8 DEF Within
  <2>2. CASE ~Gone(it.cursor) /\ it.cursor >= 0
    <3>1. c = it.cursor BY <2>2, <1>4
    <3>2. Means(it.cursor, t, lag, v, v[Distance(it.cursor, t) - lag]) BY DEF Means
    <3>3. PICK e : e = v[Distance(it.cursor, t) - lag] OBVIOUS
    <3>4. Means(it.cursor, t, lag, v, e) BY <3>2, <3>3
    <3>5. /\ Within(c, take, 0, n)
          /\ Distance(it.cursor, t) \in Slots /\ Distance(c, take) = Distance(it.cursor, t) - lag
      <4>1. n \in Nat OBVIOUS
      <4>2. PICK y \in Slots \cup {NONE, REMOVED} : y = it.cursor BY <1>12
      <4>3. /\ y >= 0 /\ ~(lag > Distance(y, t))
            /\ Within(y, t, lag, n) /\ Means(y, t, lag, v, e)
        BY <4>2, <2>2, <3>4, <1>13
      <4>4. /\ Within(y, take, 0, n)
            /\ Distance(y, t) \in Slots /\ Distance(y, take) = Distance(y, t) - lag
        <5>1. Within(y, t, lag, n) /\ Means(y, t, lag, v, e) BY <4>3
        <5>2. /\ y >= 0 /\ ~(lag > Distance(y, t)) =>
                   Distance(y, t) \in Slots /\ Distance(y, take) = Distance(y, t) - lag
              /\ ~(y >= 0 /\ lag > Distance(y, t)) => Within(y, take, 0, n) /\ Means(y, take, 0, v, e)
          BY <4>1, <5>1, <1>11, IndexCaughtUp
        <5> QED BY <4>3, <5>2
      <4> QED BY <4>2, <4>4, <3>1
    <3>6. PICK p \in Slots : p = Distance(it.cursor, t) BY <3>5
    <3>7. Splits(v, n, it.nextItem.no, lag, p) BY <2>2, <3>6, <1>13
    <3>8. \A k \in 0..(n - 1) : lag + k >= p <=> 0 + k >= p - lag BY <3>6
    <3>9. Splits(v, n, it.nextItem.no, 0, p - lag) BY <3>7, <3>8 DEF Splits
    <3> QED BY <2>2, <3>1, <3>5, <3>6, <3>9
  <2>3. CASE it.cursor < 0
    <3>1. c = NONE BY <2>3, <1>4, <1>12
    <3> QED BY <2>3, <3>1 DEF Within
  <2> QED BY <2>1, <2>2, <2>3, <1>12
<1>17. Live(r2, 0, v, n, w)
  <2>1. \A k \in 0..(n - 1) : ~(0 + k >= Capacity) OBVIOUS
  <2> QED BY <2>1, <1>9, <1>14, <1>15, <1>16 DEF Live, Before
<1>18. it.nextIndex < 0 => x < 0 BY <1>3
<1>19. Own(r, w, ser) /\ Own(r2, w, ser)
  BY <1>8, <1>9, <1>10, <1>16, <1>18 DEF Own
<1>20. Complete(r, v, n, w) /\ Complete(r2, v, n, w)
  BY <1>8, <1>9, <1>16 DEF Complete, Noticed
<1> QED BY <1>7, <1>8, <1>9, <1>10, <1>17, <1>19, <1>20 DEF CaughtUp

-----------------------------------------------------------------------------
(* What it does to all of them.                                            *)

\* The fields of all iterators.
LEMMA ItrsFacts ==
  ASSUME NEW s \in ItrsType
  PROVE  /\ s.cycles \in Nat /\ s.tracked \subseteq Iterators /\ s.it \in [Iterators -> ItrType]
         /\ \A i \in Iterators : s.it[i] \in ItrType
BY DEF ItrsType

Itr(s, i) == s.it[i]

\* Iterator i is r now.
WithItr(s, i, r) == [s EXCEPT !.it[i] = r]

\* One iterator is changed, and the others are not.
LEMMA SetFacts ==
  ASSUME NEW s \in ItrsType, NEW i \in Iterators, NEW r \in ItrType,
         NEW q, q = WithItr(s, i, r)
  PROVE  /\ q \in ItrsType /\ q.cycles = s.cycles /\ q.tracked = s.tracked
         /\ q.it[i] = r /\ \A j \in Iterators : j # i => q.it[j] = s.it[j]
<1>1. PICK f : f = [s.it EXCEPT ![i] = r] OBVIOUS
<1>2. f \in [Iterators -> ItrType] /\ f[i] = r /\ \A j \in Iterators : j # i => f[j] = s.it[j]
  BY <1>1, ItrsFacts
<1>3. q = [s EXCEPT !.it = f] BY <1>1 DEF WithItr
<1>4. q \in ItrsType BY <1>2, <1>3 DEF ItrsType
<1>5. q.cycles = s.cycles /\ q.tracked = s.tracked /\ q.it = f BY <1>3 DEF ItrsType
<1> QED BY <1>2, <1>4, <1>5

LEMMA LooseSet ==
  ASSUME NEW s, NEW take, NEW v, NEW n, NEW sn, NEW ser, Loose(s, take, v, n, sn, ser),
         NEW i \in Iterators, NEW r \in ItrType, NEW sn2, \A j \in Iterators : j # i => sn2[j] = sn[j],
         Own(r, sn2[i], ser), Complete(r, v, n, sn2[i]),
         ~IsDetached(r) => i \in s.tracked /\ n > 0 /\ Live(r, Lag(s, r, take), v, n, sn2[i]),
         NEW q, q = WithItr(s, i, r)
  PROVE  /\ Loose(q, take, v, n, sn2, ser) /\ q \in ItrsType
         /\ q.it[i] = r /\ \A j \in Iterators : j # i => q.it[j] = s.it[j]
         /\ q.tracked = s.tracked
<1>1. s \in ItrsType BY DEF Loose
<1>2. /\ q \in ItrsType /\ q.cycles = s.cycles /\ q.tracked = s.tracked
      /\ q.it[i] = r /\ \A j \in Iterators : j # i => q.it[j] = s.it[j]
  BY <1>1, SetFacts
<1>3. \A it : Lag(q, it, take) = Lag(s, it, take) BY <1>2 DEF Lag
<1>4. ASSUME NEW j \in Iterators
      PROVE  /\ Own(q.it[j], sn2[j], ser) /\ Complete(q.it[j], v, n, sn2[j])
             /\ ~IsDetached(q.it[j]) =>
                  j \in q.tracked /\ n > 0 /\ Live(q.it[j], Lag(q, q.it[j], take), v, n, sn2[j])
  <2>1. CASE j = i BY <2>1, <1>2, <1>3
  <2>2. CASE j # i
    <3>1. q.it[j] = s.it[j] /\ sn2[j] = sn[j] BY <2>2, <1>2
    <3> QED BY <3>1, <1>2, <1>3 DEF Loose
  <2> QED BY <2>1, <2>2
<1> QED BY <1>2, <1>4 DEF Loose

\* A sweep drops the iterators that are detached.
LEMMA SweepGood ==
  ASSUME NEW s, NEW take, NEW v, NEW n, NEW sn, NEW ser, Loose(s, take, v, n, sn, ser)
  PROVE  Good(Sweep(s), take, v, n, sn, ser) /\ Sweep(s).it = s.it
<1>1. s \in ItrsType BY DEF Loose
<1>2. PICK T : T = {i \in s.tracked : ~IsDetached(s.it[i])} OBVIOUS
<1>3. T \subseteq Iterators BY <1>1, <1>2, ItrsFacts
<1>4. PICK c \in Nat : c = IF T = {} THEN 0 ELSE s.cycles BY <1>1, ItrsFacts
<1>5. PICK q : q = Sweep(s) OBVIOUS
<1>6. q = [s EXCEPT !.tracked = T, !.cycles = c]
  BY <1>2, <1>4, <1>5 DEF Sweep, Track
<1>7. q \in ItrsType BY <1>1, <1>3, <1>4, <1>6 DEF ItrsType
<1>8. q.tracked = T /\ q.cycles = c /\ q.it = s.it BY <1>1, <1>6 DEF ItrsType
<1>9. ASSUME NEW j \in Iterators
      PROVE  /\ Own(q.it[j], sn[j], ser) /\ Complete(q.it[j], v, n, sn[j])
             /\ ~IsDetached(q.it[j]) =>
                  j \in q.tracked /\ n > 0 /\ Live(q.it[j], Lag(q, q.it[j], take), v, n, sn[j])
  <2>1. ASSUME ~IsDetached(s.it[j])
        PROVE  j \in q.tracked /\ n > 0 /\ Live(s.it[j], Lag(q, s.it[j], take), v, n, sn[j])
    <3>1. /\ j \in s.tracked /\ n > 0 /\ Live(s.it[j], Lag(s, s.it[j], take), v, n, sn[j])
      BY <2>1 DEF Loose
    <3>2. j \in T /\ q.cycles = s.cycles BY <2>1, <3>1, <1>2, <1>4, <1>8
    <3>3. Lag(q, s.it[j], take) = Lag(s, s.it[j], take) BY <3>2 DEF Lag
    <3> QED BY <3>1, <3>2, <3>3, <1>8
  <2> QED BY <2>1, <1>8 DEF Loose
<1>10. \A j \in q.tracked : ~IsDetached(q.it[j]) BY <1>2, <1>8
<1> QED BY <1>5, <1>7, <1>8, <1>9, <1>10 DEF Good, Loose

\* Iterator i is detached when it is r.
LEMMA DetachGood ==
  ASSUME NEW s, NEW take, NEW v, NEW n, NEW sn, NEW ser, Loose(s, take, v, n, sn, ser),
         NEW i \in Iterators, NEW r \in ItrType, ~IsDetached(r),
         Own(r, sn[i], ser), Complete(r, v, n, sn[i]),
         r.cursor < 0, r.nextIndex < 0, r.lastRet >= 0 => r.lastItem = sn[i].last,
         NEW q, q = WithItr(s, i, r)
  PROVE  /\ Good(Detach(q, i), take, v, n, sn, ser) /\ IsDetached(Detach(q, i).it[i])
         /\ Detach(q, i).it[i].lastRet = r.lastRet
         /\ Detach(q, i).it[i].nextIndex = r.nextIndex /\ Detach(q, i).it[i].cursor = r.cursor
         /\ Detach(q, i).it[i].lastItem = r.lastItem /\ Detach(q, i).it[i].nextItem = r.nextItem
<1>1. s \in ItrsType BY DEF Loose
<1>2. /\ q \in ItrsType /\ q.it[i] = r /\ q.tracked = s.tracked BY <1>1, SetFacts
<1>3. PICK d : d = [r EXCEPT !.prevTakeIndex = DETACHED] OBVIOUS
<1>4. d \in ItrType BY <1>3 DEF ItrType
<1>5. /\ d.prevTakeIndex = DETACHED /\ d.cursor = r.cursor /\ d.nextItem = r.nextItem
      /\ d.nextIndex = r.nextIndex /\ d.lastRet = r.lastRet /\ d.lastItem = r.lastItem
  BY <1>3 DEF ItrType
<1>6. IsDetached(d) BY <1>5 DEF IsDetached
<1>7. Own(d, sn[i], ser) /\ Complete(d, v, n, sn[i])
  BY <1>5, <1>6 DEF Own, Complete, Noticed
<1>8. PICK u : u = WithItr(s, i, d) OBVIOUS
<1>9. Loose(u, take, v, n, sn, ser) /\ u.it[i] = d BY <1>4, <1>6, <1>7, <1>8, LooseSet
<1>10. Detach(q, i) = Sweep(u)
  <2>1. [q EXCEPT !.it[i].prevTakeIndex = DETACHED] = [q EXCEPT !.it[i] = d]
    BY <1>2, <1>3
  <2>2. [q EXCEPT !.it[i] = d] = u
    BY <1>1, <1>8 DEF ItrsType, WithItr
  <2> QED BY <1>2, <2>1, <2>2 DEF Detach
<1>11. Good(Sweep(u), take, v, n, sn, ser) /\ Sweep(u).it = u.it BY <1>9, SweepGood
<1> QED BY <1>5, <1>6, <1>9, <1>10, <1>11

\* The queue becomes empty.
LEMMA EmptyGood ==
  ASSUME NEW s, NEW take, NEW v, NEW n, NEW sn, NEW ser \in Nat, Good(s, take, v, n, sn, ser),
         sn \in [Iterators -> SeenType], NEW take2, NEW v2
  PROVE  /\ Good(QueueIsEmpty(s), take2, v2, 0, sn, ser)
         /\ \A i \in Iterators : s.it[i].lastRet < 0 => QueueIsEmpty(s).it[i].lastRet < 0
<1>1. s \in ItrsType BY DEF Good, Loose
<1>2. PICK f : f = [i \in Iterators |-> IF i \in s.tracked THEN ShutdownItr(s.it[i]) ELSE s.it[i]]
  OBVIOUS
<1>3. \A i \in Iterators : f[i] = IF i \in s.tracked THEN ShutdownItr(s.it[i]) ELSE s.it[i]
  BY <1>2
<1>4. PICK q : q = QueueIsEmpty(s) OBVIOUS
<1>5. q = [cycles |-> 0, tracked |-> {}, it |-> f]
  BY <1>2, <1>4 DEF QueueIsEmpty, NoItrs
<1>6. ASSUME NEW i \in Iterators
      PROVE  /\ f[i] \in ItrType /\ IsDetached(f[i]) /\ Own(f[i], sn[i], ser)
             /\ s.it[i].lastRet < 0 => f[i].lastRet < 0
  <2>1. s.it[i] \in ItrType /\ Own(s.it[i], sn[i], ser) /\ sn[i] \in SeenType
    BY <1>1, ItrsFacts DEF Good, Loose
  <2>2. CASE i \in s.tracked BY <2>1, <2>2, <1>3, ShutdownFacts
  <2>3. CASE i \notin s.tracked BY <2>1, <2>3, <1>3 DEF Good, Loose
  <2> QED BY <2>2, <2>3
<1>7. f \in [Iterators -> ItrType] BY <1>2, <1>6
<1>8. q \in ItrsType BY <1>5, <1>7 DEF ItrsType
<1>9. q.it = f /\ q.tracked = {} BY <1>5
<1>10. \A i \in Iterators : Complete(q.it[i], v2, 0, sn[i]) BY DEF Complete
<1> QED BY <1>4, <1>6, <1>8, <1>9, <1>10 DEF Good, Loose

\* What is known of a single iterator.
LEMMA GoodItr ==
  ASSUME NEW s, NEW take \in Slots, NEW v, NEW n, NEW sn \in [Iterators -> SeenType], NEW ser,
         Loose(s, take, v, n, sn, ser), NEW i \in Iterators
  PROVE  /\ s \in ItrsType /\ s.it[i] \in ItrType /\ sn[i] \in SeenType
         /\ Own(s.it[i], sn[i], ser) /\ Complete(s.it[i], v, n, sn[i])
         /\ ~IsDetached(s.it[i]) =>
              /\ i \in s.tracked /\ n > 0
              /\ Lag(s, s.it[i], take) \in Nat /\ s.it[i].prevTakeIndex \in Slots
              /\ Live(s.it[i], Lag(s, s.it[i], take), v, n, sn[i])
<1>1. s \in ItrsType /\ s.it[i] \in ItrType BY ItrsFacts DEF Loose
<1>2. ASSUME ~IsDetached(s.it[i])
      PROVE  Lag(s, s.it[i], take) \in Nat
  <2>1. Lag(s, s.it[i], take) \in Int BY <1>1, <1>2, LagIsInt
  <2>2. Lag(s, s.it[i], take) >= 0 BY <1>2 DEF Loose, Live
  <2> QED BY <2>1, <2>2
<1> QED BY <1>1, <1>2, ItrFacts DEF Loose

\* An entry is enqueued.
LEMMA EnqueuedGood ==
  ASSUME NEW s, NEW take \in Slots, NEW v, NEW n \in Nat, NEW sn \in [Iterators -> SeenType],
         NEW ser \in Nat, Good(s, take, v, n, sn, ser),
         NEW v2, v2[n].no = ser, \A k \in 0..(n - 1) : v2[k] = v[k]
  PROVE  Good(s, take, v2, n + 1, sn, ser + 1)
<1>1. Loose(s, take, v, n, sn, ser) BY DEF Good
<1>2. ASSUME NEW i \in Iterators
      PROVE  /\ Own(s.it[i], sn[i], ser + 1) /\ Complete(s.it[i], v2, n + 1, sn[i])
             /\ ~IsDetached(s.it[i]) =>
                  /\ i \in s.tracked /\ n + 1 > 0
                  /\ Live(s.it[i], Lag(s, s.it[i], take), v2, n + 1, sn[i])
  <2>1. PICK it \in ItrType : it = s.it[i] BY <1>1, GoodItr
  <2>2. PICK w \in SeenType : w = sn[i] OBVIOUS
  <2>3. Own(it, w, ser) /\ Complete(it, v, n, w) BY <2>1, <2>2, <1>1, GoodItr
  <2>4. Own(it, w, ser + 1) /\ Complete(it, v2, n + 1, w) BY <2>3, CompleteMore
  <2>5. ASSUME ~IsDetached(it)
        PROVE  i \in s.tracked /\ n + 1 > 0 /\ Live(it, Lag(s, it, take), v2, n + 1, w)
    <3>1. PICK lag \in Nat : lag = Lag(s, it, take) BY <2>1, <2>5, <1>1, GoodItr
    <3>2. i \in s.tracked /\ Live(it, lag, v, n, w) BY <2>1, <2>2, <2>5, <3>1, <1>1, GoodItr
    <3>3. lag \in Int OBVIOUS
    <3>4. Live(it, lag, v2, n + 1, w) BY <2>3, <2>5, <3>2, <3>3, LiveEnqueued
    <3> QED BY <3>1, <3>2, <3>4
  <2> QED BY <2>1, <2>2, <2>4, <2>5
<1> QED BY <1>1, <1>2 DEF Good, Loose

\* An iterator that falls a cycle behind.
LEMMA WrappedLag ==
  ASSUME NEW c \in Nat, NEW p \in Nat, NEW take \in Slots, NEW t \in Slots, NEW m \in Nat,
         take + m >= Capacity
  PROVE  /\ ((c + 1) - p) * Capacity + (take + m - Capacity) - t = ((c - p) * Capacity + take - t) + m
         /\ (c + 1) - p > 1 => ((c - p) * Capacity + take - t) + m >= Capacity
<1>1. c - p \in Int /\ (c + 1) - p = (c - p) + 1 OBVIOUS
<1>2. PICK d \in Int : d = c - p BY <1>1
<1>3. PICK x \in Int : x = d * Capacity BY Cycles
<1>4. (d + 1) * Capacity = x + Capacity BY <1>3, Cycles
<1>5. (d + 1) * Capacity + (take + m - Capacity) - t = (x + take - t) + m BY <1>4
<1>6. ASSUME d + 1 > 1 PROVE (x + take - t) + m >= Capacity
  <2>1. d = 1 \/ d >= 2 BY <1>6
  <2>2. x >= Capacity BY <2>1, <1>3, Cycles
  <2> QED BY <2>2
<1> QED BY <1>1, <1>2, <1>3, <1>5, <1>6

\* An iterator is told that the take index wrapped around.
LEMMA WrappedItr ==
  ASSUME NEW it \in ItrType, NEW w \in SeenType, NEW v, NEW n \in Nat, NEW ser \in Nat,
         NEW c \in Nat, NEW lag \in Int, ~IsDetached(it), Own(it, w, ser), Complete(it, v, n, w),
         Live(it, lag, v, n, w), c - it.prevCycles > 1 => lag >= Capacity,
         NEW r, r = ItrTakeIndexWrapped(it, c)
  PROVE  /\ r \in ItrType /\ Own(r, w, ser) /\ Complete(r, v, n, w)
         /\ ~IsDetached(r) => r = it
<1>1. CASE c - it.prevCycles > 1
  <2>1. r = ShutdownItr(it) BY <1>1 DEF ItrTakeIndexWrapped
  <2>2. r \in ItrType /\ IsDetached(r) /\ Own(r, w, ser) /\ r.nextItem = it.nextItem
    BY <2>1, ShutdownFacts
  <2>3. \A k \in 0..(n - 1) : w.since <= v[k].no BY <1>1 DEF Live
  <2>4. Complete(r, v, n, w) BY <2>2, <2>3 DEF Complete, Noticed
  <2> QED BY <2>2, <2>4
<1>2. CASE ~(c - it.prevCycles > 1)
  BY <1>2 DEF ItrTakeIndexWrapped
<1> QED BY <1>1, <1>2

\* What the iterators s are told when m entries, not all, are dequeued.
Told(s, take, m) ==
  IF take + m >= Capacity /\ s.tracked # {} THEN TakeIndexWrapped(s) ELSE s

\* m entries are dequeued, and some are left.
LEMMA DequeuedGood ==
  ASSUME NEW s, NEW take \in Slots, NEW v, NEW n \in 1..Capacity, NEW sn \in [Iterators -> SeenType],
         NEW ser \in Nat, Good(s, take, v, n, sn, ser),
         NEW m \in 1..n, m # n, NEW take2, take2 = At(take, m),
         NEW v2, \A k \in 0..((n - m) - 1) : v2[k] = v[k + m],
         NEW q, q = Told(s, take, m)
  PROVE  Good(q, take2, v2, n - m, sn, ser)
<1>1. Loose(s, take, v, n, sn, ser) /\ s \in ItrsType BY DEF Good, Loose
<1>2. n - m > 0 /\ n - m \in Nat /\ n \in Nat /\ m \in Nat /\ m \in 0..n OBVIOUS
<1>3. ASSUME NEW i \in Iterators
      PROVE  /\ s.it[i] \in ItrType /\ sn[i] \in SeenType
             /\ Own(s.it[i], sn[i], ser) /\ Complete(s.it[i], v2, n - m, sn[i])
             /\ ~IsDetached(s.it[i]) =>
                  /\ i \in s.tracked /\ Lag(s, s.it[i], take) + m \in Nat
                  /\ Live(s.it[i], Lag(s, s.it[i], take) + m, v2, n - m, sn[i])
  <2>1. PICK it \in ItrType : it = s.it[i] BY <1>1, GoodItr
  <2>2. PICK w \in SeenType : w = sn[i] OBVIOUS
  <2>3. Own(it, w, ser) /\ Complete(it, v, n, w) BY <2>1, <2>2, <1>1, GoodItr
  <2>4. Complete(it, v2, n - m, w)
    <3>1. \A k \in 0..((n - m) - 1) : \E j \in 0..(n - 1) : v2[k] = v[j]
      <4> TAKE k \in 0..((n - m) - 1)
      <4>1. k + m \in 0..(n - 1) OBVIOUS
      <4> QED BY <4>1
    <3> QED BY <3>1, <2>3, <1>2, CompleteOf
  <2>5. ASSUME ~IsDetached(it)
        PROVE  i \in s.tracked /\ Lag(s, it, take) + m \in Nat /\ Live(it, Lag(s, it, take) + m, v2, n - m, w)
    <3>1. PICK lag \in Nat : lag = Lag(s, it, take) BY <2>1, <2>5, <1>1, GoodItr
    <3>2. i \in s.tracked /\ Live(it, lag, v, n, w) BY <2>1, <2>2, <2>5, <3>1, <1>1, GoodItr
    <3>3. lag \in Int OBVIOUS
    <3>4. Live(it, lag + m, v2, n - m, w) BY <2>5, <3>2, <3>3, <1>2, LiveDequeued
    <3> QED BY <3>1, <3>2, <3>4
  <2> QED BY <2>1, <2>2, <2>3, <2>4, <2>5
<1>4. CASE s.tracked = {}
  <2>1. q = s BY <1>4 DEF Told
  <2>2. \A i \in Iterators : IsDetached(s.it[i]) BY <1>3, <1>4
  <2> QED BY <2>1, <2>2, <1>1, <1>3, <1>4 DEF Good, Loose
<1>5. CASE ~(take + m >= Capacity)
  <2>1. q = s /\ take2 = take + m BY <1>5 DEF At, Told
  <2>2. ASSUME NEW i \in Iterators, ~IsDetached(s.it[i])
        PROVE  Lag(s, s.it[i], take2) = Lag(s, s.it[i], take) + m
    <3>1. s.cycles - s.it[i].prevCycles \in Int /\ s.it[i].prevTakeIndex \in Int
      BY <1>1, <1>3, ItrFacts, ItrsFacts
    <3>2. PICK x \in Int : x = (s.cycles - s.it[i].prevCycles) * Capacity BY <3>1, Cycles
    <3> QED BY <2>1, <3>1, <3>2, SMTT(30) DEF Lag
  <2> QED BY <2>1, <2>2, <1>1, <1>2, <1>3 DEF Good, Loose
<1>6. CASE take + m >= Capacity /\ s.tracked # {}
  <2>1. q = TakeIndexWrapped(s) /\ take2 = take + m - Capacity BY <1>6 DEF At, Told
  <2>2. PICK c \in Nat : c = s.cycles + 1 BY <1>1, ItrsFacts
  <2>3. PICK f : f = [i \in Iterators |->
                        IF i \in s.tracked THEN ItrTakeIndexWrapped(s.it[i], c) ELSE s.it[i]]
    OBVIOUS
  <2>4. PICK u : u = [s EXCEPT !.cycles = c, !.it = f] OBVIOUS
  <2>5. q = Sweep(u) BY <2>1, <2>2, <2>3, <2>4 DEF TakeIndexWrapped
  <2>6. ASSUME NEW i \in Iterators
        PROVE  /\ f[i] \in ItrType /\ Own(f[i], sn[i], ser) /\ Complete(f[i], v2, n - m, sn[i])
               /\ ~IsDetached(f[i]) =>
                    /\ i \in s.tracked
                    /\ Live(f[i], (c - f[i].prevCycles) * Capacity + take2 - f[i].prevTakeIndex,
                            v2, n - m, sn[i])
    <3>1. PICK it \in ItrType : it = s.it[i] BY <1>3
    <3>2. PICK w \in SeenType : w = sn[i] BY <1>3
    <3>3. CASE i \notin s.tracked
      <4>1. f[i] = it /\ IsDetached(it) BY <3>1, <3>3, <2>3, <1>3
      <4> QED BY <4>1, <3>1, <1>3
    <3>4. CASE i \in s.tracked
      <4>1. f[i] = ItrTakeIndexWrapped(it, c) BY <3>1, <3>4, <2>3
      <4>2. ~IsDetached(it) BY <3>1, <3>4 DEF Good
      <4>3. it.prevTakeIndex \in Slots /\ it.prevCycles \in Nat /\ s.cycles \in Nat
        BY <4>2, <1>1, ItrFacts, ItrsFacts
      <4>4. PICK lag \in Nat : lag = Lag(s, it, take) + m BY <3>1, <4>2, <1>3
      <4>5. lag = ((s.cycles - it.prevCycles) * Capacity + take - it.prevTakeIndex) + m
        BY <4>4 DEF Lag
      <4>6. /\ (c - it.prevCycles) * Capacity + take2 - it.prevTakeIndex = lag
            /\ c - it.prevCycles > 1 => lag >= Capacity
        <5>1. PICK b \in Nat : b = s.cycles BY <4>3
        <5>2. PICK p \in Nat : p = it.prevCycles BY <4>3
        <5>3. PICK t \in Slots : t = it.prevTakeIndex BY <4>3
        <5>4. /\ ((b + 1) - p) * Capacity + (take + m - Capacity) - t = ((b - p) * Capacity + take - t) + m
              /\ (b + 1) - p > 1 => ((b - p) * Capacity + take - t) + m >= Capacity
          BY <1>2, <1>6, WrappedLag
        <5>5. lag = ((b - p) * Capacity + take - t) + m BY <4>5, <5>1, <5>2, <5>3
        <5> QED BY <5>1, <5>2, <5>3, <5>4, <5>5, <2>1, <2>2
      <4>7. /\ Own(it, w, ser) /\ Complete(it, v2, n - m, w) /\ Live(it, lag, v2, n - m, w)
            /\ lag \in Int
        BY <3>1, <3>2, <4>2, <4>4, <1>3
      <4>8. /\ f[i] \in ItrType /\ Own(f[i], w, ser) /\ Complete(f[i], v2, n - m, w)
            /\ ~IsDetached(f[i]) => f[i] = it
        BY <4>1, <4>2, <4>6, <4>7, <1>2, WrappedItr
      <4> QED BY <3>1, <3>2, <3>4, <4>6, <4>7, <4>8
    <3> QED BY <3>3, <3>4
  <2>7. f \in [Iterators -> ItrType] BY <2>3, <2>6
  <2>8. u \in ItrsType BY <2>2, <2>4, <2>7, <1>1 DEF ItrsType
  <2>9. u.tracked = s.tracked /\ u.cycles = c /\ u.it = f BY <2>4, <1>1 DEF ItrsType
  <2>10. Loose(u, take2, v2, n - m, sn, ser)
    BY <2>6, <2>8, <2>9, <1>2 DEF Loose, Lag
  <2>11. Good(q, take2, v2, n - m, sn, ser) /\ q.it = f BY <2>5, <2>9, <2>10, SweepGood
  <2> QED BY <2>6, <2>11
<1> QED BY <1>4, <1>5, <1>6

\* An iterator is told that slot r, the one of place q, was removed.
LEMMA RemovedItr ==
  ASSUME NEW it \in ItrType, NEW w \in SeenType, NEW n \in 1..Capacity, NEW q \in 1..(n - 1),
         NEW v \in [0..(n - 1) -> Entries], NEW v2, NEW ser \in Nat, NEW take \in Slots,
         NEW cycles \in Nat, NEW lag \in Nat,
         lag = (cycles - it.prevCycles) * Capacity + take - it.prevTakeIndex,
         ~IsDetached(it), Live(it, lag, v, n, w), Own(it, w, ser), Complete(it, v, n, w),
         ClosedUp(v, v2, n, q),
         NEW x, x = ItrRemovedAt(it, cycles, At(take, q), take, At(take, n - 1))
  PROVE  /\ x \in ItrType /\ Own(x, w, ser) /\ Complete(x, v2, n - 1, w)
         /\ ~IsDetached(x) => Live(x, lag, v2, n - 1, w)
         /\ x.prevCycles = it.prevCycles
         /\ ~IsDetached(x) => x.prevTakeIndex = it.prevTakeIndex
         /\ it.lastRet < 0 => x.lastRet < 0
<1>1. PICK t \in Slots : t = it.prevTakeIndex BY ItrFacts
<1>2. PICK p \in Nat : p = it.prevCycles BY ItrFacts
<1>3. PICK m \in Int : m = cycles - p OBVIOUS
<1>16. PICK l \in 0..(Capacity - 1) : l = n - 1 OBVIOUS
<1>17. q \in 0..(Capacity - 1) /\ q \in 0..Capacity /\ l \in 0..Capacity OBVIOUS
<1>4. PICK r \in Slots : r = At(take, q) BY <1>17, AtFacts
<1>5. PICK put \in Slots : put = At(take, n - 1) BY <1>16, <1>17, AtFacts
<1>6. PICK gap \in Nat : gap = lag + q OBVIOUS
<1>7. (m + IF r < take THEN 1 ELSE 0) * Capacity + r - t = gap
  <2>1. PICK y \in Int : y = m * Capacity /\ (m + 1) * Capacity = y + Capacity /\ (m + 0) * Capacity = y
    BY Cycles
  <2>2. lag = y + take - t BY <2>1, <1>1, <1>2, <1>3
  <2>3. CASE r < take
    <3>1. r = take + q - Capacity BY <2>3, <1>4 DEF At
    <3>2. (m + IF r < take THEN 1 ELSE 0) = m + 1 BY <2>3
    <3> QED BY <2>1, <2>2, <3>1, <3>2, <1>6
  <2>4. CASE ~(r < take)
    <3>1. r = take + q BY <2>4, <1>4 DEF At
    <3>2. (m + IF r < take THEN 1 ELSE 0) = m + 0 BY <2>4
    <3> QED BY <2>1, <2>2, <3>1, <3>2, <1>6
  <2> QED BY <2>3, <2>4
<1>8. PICK z : z = Moved(it, gap, put) OBVIOUS
<1>9. x = IF it.nextIndex < 0 /\ z.cursor < 0 /\ z.lastRet < 0
          THEN [z EXCEPT !.prevTakeIndex = DETACHED] ELSE z
  BY <1>1, <1>2, <1>3, <1>4, <1>5, <1>7, <1>8, ZenonT(30) DEF ItrRemovedAt, Moved
<1>10. ASSUME it.cursor >= 0, Distance(it.cursor, it.prevTakeIndex) = gap PROVE it.cursor = put <=> q = n - 1
  <2>1. it.cursor \in Slots BY <1>10, ItrFacts
  <2>2. gap \in Slots BY <2>1, <1>1, <1>10, DistanceFacts
  <2>3. it.cursor = At(t, gap) BY <2>1, <1>1, <1>10, DistanceFacts
  <2>4. Behind(lag, m, take, t) BY <1>1, <1>2, <1>3 DEF Behind
  <2>5. lag \in Int /\ lag >= 0 /\ gap >= lag /\ gap - lag = q BY <1>6
  <2>6. At(take, gap - lag) = At(t, gap) BY <2>2, <2>4, <2>5, PlaceNow
  <2>7. At(take, q) = At(take, l) => q = l BY <1>17, AtFacts
  <2>8. it.cursor = At(take, q) BY <2>3, <2>5, <2>6
  <2>9. it.cursor = put <=> q = l BY <2>7, <2>8, <1>5, <1>16
  <2> QED BY <2>9, <1>16
<1>11. n \in Nat /\ q \in 0..(n - 1) OBVIOUS
<1>12. /\ z \in ItrType /\ Own(z, w, ser) /\ Complete(z, v2, n - 1, w)
       /\ Live(z, lag, v2, n - 1, w)
       /\ it.nextIndex < 0 => z.nextIndex < 0
       /\ it.lastRet < 0 => z.lastRet < 0
  BY <1>6, <1>8, <1>10, <1>11, LiveRemoved, SMTT(30)
<1>13. z.prevCycles = it.prevCycles /\ z.prevTakeIndex = it.prevTakeIndex
  BY <1>8, MovedFields, SMTT(30)
<1>14. CASE ~(it.nextIndex < 0 /\ z.cursor < 0 /\ z.lastRet < 0)
  BY <1>9, <1>12, <1>13, <1>14
<1>15. CASE it.nextIndex < 0 /\ z.cursor < 0 /\ z.lastRet < 0
  <2>1. x = [z EXCEPT !.prevTakeIndex = DETACHED] BY <1>9, <1>15
  <2>2. x \in ItrType BY <2>1, <1>12 DEF ItrType
  <2>3. /\ x.prevTakeIndex = DETACHED /\ x.cursor = z.cursor /\ x.nextItem = z.nextItem
        /\ x.nextIndex = z.nextIndex /\ x.lastRet = z.lastRet /\ x.lastItem = z.lastItem
        /\ x.prevCycles = z.prevCycles
    BY <2>1, <1>12 DEF ItrType
  <2>4. IsDetached(x) BY <2>3 DEF IsDetached
  <2>5. z.lastRet \in Int BY <1>12, ItrFacts
  <2>6. Own(x, w, ser)
    <3>1. ~(x.lastRet >= 0) /\ x.cursor < 0 /\ x.nextIndex < 0 BY <2>3, <2>5, <1>12, <1>15
    <3> QED BY <2>3, <3>1, <1>12 DEF Own
  <2>7. Complete(x, v2, n - 1, w)
    BY <2>3, <1>12 DEF Complete, Noticed
  <2> QED BY <2>2, <2>3, <2>4, <2>6, <2>7, <1>12, <1>13
<1> QED BY <1>14, <1>15

\* Slot r in the middle, the one of place p, was removed.
LEMMA RemovedGood ==
  ASSUME NEW s, NEW take \in Slots, NEW n \in 1..Capacity, NEW sn \in [Iterators -> SeenType],
         NEW v \in [0..(n - 1) -> Entries], NEW ser \in Nat, Good(s, take, v, n, sn, ser),
         NEW p \in 1..(n - 1), NEW v2, ClosedUp(v, v2, n, p),
         NEW q, q = RemovedAt(s, At(take, p), take, At(take, n - 1))
  PROVE  /\ Good(q, take, v2, n - 1, sn, ser)
         /\ \A i \in Iterators : s.it[i].lastRet < 0 => q.it[i].lastRet < 0
<1>1. Loose(s, take, v, n, sn, ser) /\ s \in ItrsType BY DEF Good, Loose
<1>14. PICK l \in 0..Capacity : l = n - 1 OBVIOUS
<1>15. p \in 0..Capacity OBVIOUS
<1>2. PICK r \in Slots : r = At(take, p) BY <1>15, AtFacts
<1>3. PICK put \in Slots : put = At(take, n - 1) BY <1>14, AtFacts
<1>4. PICK f : f = [i \in Iterators |->
                      IF i \in s.tracked /\ ~IsDetached(s.it[i])
                      THEN ItrRemovedAt(s.it[i], s.cycles, r, take, put) ELSE s.it[i]]
  OBVIOUS
<1>5. PICK u : u = [s EXCEPT !.it = f] OBVIOUS
<1>6. q = Sweep(u) BY <1>2, <1>3, <1>4, <1>5 DEF RemovedAt
<1>7. n - 1 > 0 /\ n - 1 \in Nat /\ n \in Nat /\ s.cycles \in Nat BY <1>1, ItrsFacts
<1>8. ASSUME NEW i \in Iterators
      PROVE  /\ f[i] \in ItrType /\ Own(f[i], sn[i], ser) /\ Complete(f[i], v2, n - 1, sn[i])
             /\ ~IsDetached(f[i]) =>
                  i \in s.tracked /\ Live(f[i], Lag(s, f[i], take), v2, n - 1, sn[i])
             /\ s.it[i].lastRet < 0 => f[i].lastRet < 0
  <2>1. PICK it \in ItrType : it = s.it[i] BY <1>1, GoodItr
  <2>2. PICK w \in SeenType : w = sn[i] OBVIOUS
  <2>3. Own(it, w, ser) /\ Complete(it, v, n, w) BY <2>1, <2>2, <1>1, GoodItr
  <2>4. CASE IsDetached(it)
    <3>1. f[i] = it BY <2>1, <2>4, <1>4
    <3>2. \A k \in 0..((n - 1) - 1) : \E j \in 0..(n - 1) : v2[k] = v[j]
      <4> TAKE k \in 0..((n - 1) - 1)
      <4>1. k \in 0..(n - 1) /\ k + 1 \in 0..(n - 1) OBVIOUS
      <4> QED BY <4>1 DEF ClosedUp
    <3>3. Complete(it, v2, n - 1, w) BY <3>2, <2>3, <1>7, CompleteOf
    <3> QED BY <3>1, <3>3, <2>1, <2>2, <2>3, <2>4
  <2>5. CASE ~IsDetached(it)
    <3>1. PICK lag \in Nat : lag = Lag(s, it, take) BY <2>1, <2>5, <1>1, GoodItr
    <3>2. i \in s.tracked /\ Live(it, lag, v, n, w) BY <2>1, <2>2, <2>5, <3>1, <1>1, GoodItr
    <3>3. f[i] = ItrRemovedAt(it, s.cycles, At(take, p), take, At(take, n - 1))
      BY <2>1, <2>5, <3>2, <1>2, <1>3, <1>4
    <3>4. PICK c \in Nat : c = s.cycles BY <1>7
    <3>5. lag = (c - it.prevCycles) * Capacity + take - it.prevTakeIndex BY <3>1, <3>4 DEF Lag
    <3>6. PICK x : x = f[i] OBVIOUS
    <3>7. x = ItrRemovedAt(it, c, At(take, p), take, At(take, n - 1)) BY <3>3, <3>4, <3>6
    <3>8. /\ x \in ItrType /\ Own(x, w, ser) /\ Complete(x, v2, n - 1, w)
          /\ ~IsDetached(x) => Live(x, lag, v2, n - 1, w)
          /\ x.prevCycles = it.prevCycles
          /\ ~IsDetached(x) => x.prevTakeIndex = it.prevTakeIndex
          /\ it.lastRet < 0 => x.lastRet < 0
      BY <2>3, <2>5, <3>2, <3>5, <3>7, RemovedItr, SMTT(30)
    <3>9. ~IsDetached(x) => Lag(s, x, take) = lag BY <3>8, <3>1 DEF Lag
    <3> QED BY <2>1, <2>2, <3>2, <3>6, <3>8, <3>9
  <2> QED BY <2>4, <2>5
<1>9. f \in [Iterators -> ItrType] BY <1>4, <1>8
<1>10. u \in ItrsType BY <1>1, <1>5, <1>9 DEF ItrsType
<1>11. u.tracked = s.tracked /\ u.cycles = s.cycles /\ u.it = f BY <1>1, <1>5 DEF ItrsType
<1>12. Loose(u, take, v2, n - 1, sn, ser)
  BY <1>7, <1>8, <1>10, <1>11 DEF Loose, Lag
<1>13. Good(q, take, v2, n - 1, sn, ser) /\ q.it = f BY <1>6, <1>11, <1>12, SweepGood
<1> QED BY <1>8, <1>13

\* Catching up, in terms of Lag and Updated.
PlacedIn(s, i, cycles, take) ==
  [s EXCEPT !.it[i].prevCycles = cycles, !.it[i].prevTakeIndex = take]

LEMMA IncorporateIs ==
  ASSUME NEW s, NEW i, NEW take, NEW it, it = s.it[i], NEW lag, lag = Lag(s, it, take),
         NEW r, r = Updated(it, lag, take), NEW caught, caught = WithItr(s, i, r)
  PROVE  IncorporateDequeues(s, i, take) =
           IF lag = 0 THEN s
           ELSE IF r.cursor < 0 /\ r.nextIndex < 0 /\ r.lastRet < 0 THEN Detach(caught, i)
           ELSE PlacedIn(caught, i, s.cycles, take)
<1> DEFINE l == Lag(s, s.it[i], take)
           u == Updated(s.it[i], l, take)
<1>1. IncorporateDequeues(s, i, take) =
        IF l = 0 THEN s
        ELSE IF u.cursor < 0 /\ u.nextIndex < 0 /\ u.lastRet < 0 THEN Detach(WithItr(s, i, u), i)
        ELSE PlacedIn(WithItr(s, i, u), i, s.cycles, take)
  BY DEF IncorporateDequeues, Lag, Updated, WithItr, PlacedIn
<1>2. l = lag /\ u = r /\ WithItr(s, i, u) = caught OBVIOUS
<1> HIDE DEF l, u
<1> QED BY <1>1, <1>2

\* Iterator i catches up.
LEMMA CatchUpGood ==
  ASSUME NEW s, NEW take \in Slots, NEW v, NEW n \in 0..Capacity, NEW sn \in [Iterators -> SeenType],
         NEW ser \in Nat, Good(s, take, v, n, sn, ser), NEW i \in Iterators,
         NEW q, q = CatchUp(s, i, take)
  PROVE  /\ Good(q, take, v, n, sn, ser) /\ Itr(q, i) \in ItrType
         /\ Itr(q, i).nextItem = Itr(s, i).nextItem /\ Itr(q, i).lastItem = Itr(s, i).lastItem
         /\ IsDetached(Itr(s, i)) => q = s
         /\ ~IsDetached(Itr(q, i)) =>
              /\ ~IsDetached(Itr(s, i)) /\ Itr(q, i).prevTakeIndex = take
              /\ Itr(q, i).prevCycles = q.cycles
         /\ IsDetached(Itr(q, i)) /\ ~IsDetached(Itr(s, i)) => Itr(q, i).lastRet < 0
<1>1. Loose(s, take, v, n, sn, ser) /\ s \in ItrsType BY DEF Good, Loose
<1>2. PICK it \in ItrType : it = s.it[i] BY <1>1, GoodItr
<1>6. Itr(s, i) = it BY <1>2 DEF Itr
<1>3. PICK w \in SeenType : w = sn[i] OBVIOUS
<1>4. CASE IsDetached(it)
  <2>1. q = s BY <1>2, <1>4 DEF CatchUp
  <2>2. Itr(q, i) = it BY <2>1, <1>6
  <2> QED BY <2>1, <2>2, <1>4, <1>6
<1>5. CASE ~IsDetached(it)
  <2>1. PICK lag \in Nat : lag = Lag(s, it, take) BY <1>1, <1>2, <1>5, GoodItr
  <2>2. /\ Own(it, w, ser) /\ Complete(it, v, n, w) /\ i \in s.tracked /\ n > 0
        /\ Live(it, lag, v, n, w)
    BY <2>1, <1>1, <1>2, <1>3, <1>5, GoodItr
  <2>3. PICK t \in Slots : t = it.prevTakeIndex BY <1>5, ItrFacts
  <2>4. s.cycles \in Nat /\ it.prevCycles \in Nat BY <1>1, ItrFacts, ItrsFacts
  <2>5. PICK m \in Int : m = s.cycles - it.prevCycles BY <2>4
  <2>6. Behind(lag, m, take, it.prevTakeIndex) /\ Behind(lag, m, take, t)
    BY <2>1, <2>3, <2>5 DEF Behind, Lag
  <2>7. CASE lag = 0
    <3>1. q = s
      <4>1. q = IncorporateDequeues(s, i, take) BY <1>2, <1>5 DEF CatchUp
      <4>2. PICK r : r = Updated(it, lag, take) OBVIOUS
      <4>3. PICK caught : caught = WithItr(s, i, r) OBVIOUS
      <4> QED BY <4>1, <4>2, <4>3, <2>1, <2>7, <1>2, IncorporateIs
    <3>2. m * Capacity + take - t = 0 BY <2>6, <2>7 DEF Behind
    <3>3. m = 0 /\ t = take BY <3>2, NoLag
    <3>4. Itr(q, i) = it BY <3>1, <1>6
    <3>5. it.prevTakeIndex = take /\ it.prevCycles = q.cycles BY <3>1, <3>3, <2>3, <2>4, <2>5
    <3> QED BY <3>1, <3>4, <3>5, <1>5, <1>6
  <2>8. CASE lag # 0
    <3>1. PICK r : r = Updated(it, lag, take) OBVIOUS
    <3>0. PICK c \in Nat : c = s.cycles BY <2>4
    <3>2. PICK r2 : r2 = Placed(r, c, take) OBVIOUS
    <3>3. /\ r \in ItrType /\ r2 \in ItrType /\ ~IsDetached(r2) /\ ~IsDetached(r)
          /\ Own(r, w, ser) /\ Own(r2, w, ser) /\ Complete(r, v, n, w) /\ Complete(r2, v, n, w)
          /\ Live(r2, 0, v, n, w)
          /\ r2.prevTakeIndex = take /\ r2.prevCycles = c /\ r2.nextItem = it.nextItem
          /\ r2.lastRet = r.lastRet /\ r2.lastItem = it.lastItem
          /\ r2.cursor = r.cursor /\ r2.nextIndex = r.nextIndex
      <4>1. n \in 1..Capacity BY <2>2
      <4>2. CaughtUp(it, r, r2, take, c, v, n, w, ser)
        BY <4>1, <2>2, <2>6, <3>1, <3>2, <1>5, LiveCaughtUp
      <4> QED BY <4>2 DEF CaughtUp
    <3>4. r.nextItem = it.nextItem /\ r.lastItem = it.lastItem BY <3>1 DEF ItrType, Updated
    <3>5. PICK caught : caught = WithItr(s, i, r) OBVIOUS
    <3>6. caught.it[i] = r /\ caught \in ItrsType BY <3>3, <3>5, <1>1, SetFacts
    <3>7. q = IF r.cursor < 0 /\ r.nextIndex < 0 /\ r.lastRet < 0 THEN Detach(caught, i)
              ELSE [caught EXCEPT !.it[i].prevCycles = s.cycles, !.it[i].prevTakeIndex = take]
      <4>1. q = IncorporateDequeues(s, i, take) BY <1>2, <1>5 DEF CatchUp
      <4>2. q = IF r.cursor < 0 /\ r.nextIndex < 0 /\ r.lastRet < 0 THEN Detach(caught, i)
                ELSE PlacedIn(caught, i, s.cycles, take)
        BY <4>1, <3>1, <3>5, <2>1, <2>8, <1>2, IncorporateIs
      <4> QED BY <4>2 DEF PlacedIn
    <3>8. CASE r.cursor < 0 /\ r.nextIndex < 0 /\ r.lastRet < 0
      <4>1. q = Detach(caught, i) BY <3>7, <3>8
      <4>6. r.lastRet \in Int BY <3>3, ItrFacts
      <4>2. ~(r.lastRet >= 0) BY <4>6, <3>8
      <4>3. Own(r, sn[i], ser) /\ Complete(r, v, n, sn[i]) BY <3>3, <1>3
      <4>4. /\ Good(q, take, v, n, sn, ser) /\ IsDetached(q.it[i])
            /\ q.it[i].lastRet = r.lastRet
            /\ q.it[i].lastItem = r.lastItem /\ q.it[i].nextItem = r.nextItem
        BY <4>1, <4>2, <4>3, <3>3, <3>5, <3>8, <1>1, DetachGood
      <4>7. PICK x : x = q.it[i] /\ x = Itr(q, i) BY DEF Itr
      <4>8. x \in ItrType BY <4>4, <4>7, GoodItr DEF Good
      <4>9. IsDetached(x) /\ x.lastRet < 0 /\ x.lastItem = it.lastItem /\ x.nextItem = it.nextItem
        BY <4>4, <4>7, <3>4, <3>8
      <4> QED BY <4>4, <4>7, <4>8, <4>9, <1>5, <1>6
    <3>9. CASE ~(r.cursor < 0 /\ r.nextIndex < 0 /\ r.lastRet < 0)
      <4>8. PICK r1 : r1 = [r EXCEPT !.prevCycles = c] OBVIOUS
      <4>9. r2 = [r1 EXCEPT !.prevTakeIndex = take] BY <4>8, <3>2 DEF Placed
      <4>10. PICK c1 : c1 = [caught EXCEPT !.it[i].prevCycles = c] OBVIOUS
      <4>11. c1 = [caught EXCEPT !.it[i] = r1] BY <4>8, <4>10, <3>6
      <4>12. c1.it[i] = r1 BY <4>11, <3>6 DEF ItrsType
      <4>13. q = [c1 EXCEPT !.it[i].prevTakeIndex = take] BY <4>10, <3>0, <3>7, <3>9
      <4>14. q = [c1 EXCEPT !.it[i] = r2] BY <4>9, <4>12, <4>13
      <4>1. q = [caught EXCEPT !.it[i] = r2] BY <4>11, <4>14, <3>6 DEF ItrsType
      <4>2. q = WithItr(s, i, r2)
        BY <4>1, <3>5, <1>1 DEF WithItr, ItrsType
      <4>3. Lag(s, r2, take) = 0
        <5>1. s.cycles - r2.prevCycles = 0 BY <3>0, <3>3
        <5>2. 0 * Capacity = 0 OBVIOUS
        <5> QED BY <5>1, <5>2, <3>3 DEF Lag
      <4>4. Own(r2, sn[i], ser) /\ Complete(r2, v, n, sn[i]) /\ Live(r2, Lag(s, r2, take), v, n, sn[i])
        BY <4>3, <3>3, <1>3
      <4>5. /\ Loose(q, take, v, n, sn, ser) /\ q \in ItrsType
            /\ q.it[i] = r2 /\ \A j \in Iterators : j # i => q.it[j] = s.it[j]
            /\ q.tracked = s.tracked
        BY <4>2, <4>4, <3>3, <2>2, <1>1, LooseSet
      <4>6. Good(q, take, v, n, sn, ser)
        BY <4>5, <3>3, <1>1, ItrsFacts DEF Good
      <4>7. q.cycles = s.cycles BY <4>2, <3>3, <1>1, SetFacts
      <4>15. Itr(q, i) = r2 BY <4>5 DEF Itr
      <4>16. /\ r2.lastItem = it.lastItem /\ r2.nextItem = it.nextItem /\ r2.prevTakeIndex = take
             /\ r2.prevCycles = q.cycles
        BY <4>7, <3>0, <3>3
      <4> QED BY <4>6, <4>15, <4>16, <3>3, <1>5, <1>6
    <3> QED BY <3>8, <3>9
  <2> QED BY <2>7, <2>8
<1> QED BY <1>4, <1>5

\* An iterator that has caught up and is still told of changes.
LEMMA CaughtUpLive ==
  ASSUME NEW q, NEW take \in Slots, NEW v, NEW n \in 0..Capacity, NEW sn \in [Iterators -> SeenType],
         NEW ser \in Nat, Good(q, take, v, n, sn, ser), NEW i \in Iterators,
         NEW r, r = Itr(q, i), ~IsDetached(r), r.prevTakeIndex = take, r.prevCycles = q.cycles
  PROVE  /\ i \in q.tracked /\ n > 0 /\ r \in ItrType /\ Lag(q, r, take) = 0
         /\ Live(r, 0, v, n, sn[i])
<1>1. Loose(q, take, v, n, sn, ser) /\ q \in ItrsType BY DEF Good, Loose
<1>2. r = q.it[i] BY DEF Itr
<1>3. Lag(q, r, take) = 0
  <2>1. q.cycles - r.prevCycles = 0 BY <1>1, ItrsFacts
  <2>2. 0 * Capacity = 0 OBVIOUS
  <2> QED BY <2>1, <2>2 DEF Lag
<1>4. r \in ItrType BY <1>1, <1>2, GoodItr
<1>5. ~IsDetached(q.it[i]) BY <1>2
<1>6. i \in q.tracked /\ n > 0 /\ Live(q.it[i], Lag(q, q.it[i], take), v, n, sn[i])
  BY <1>1, <1>5, GoodItr
<1> QED BY <1>2, <1>3, <1>4, <1>6

-----------------------------------------------------------------------------
(* The iterators' own steps.                                               *)

\* v are the entries of n slots of array a, from slot t on.
Entered(v, a, t, n) == \A k \in 0..(n - 1) : v[k] = a[At(t, k)]

LEMMA EnteredFacts ==
  ASSUME NEW a, NEW t \in Slots, NEW n \in 0..Capacity, NEW v, Entered(v, a, t, n)
  PROVE  \A x \in Slots : Distance(x, t) < n => Distance(x, t) \in 0..(n - 1) /\ v[Distance(x, t)] = a[x]
<1>1. \A k \in 0..(n - 1) : v[k] = a[At(t, k)] BY DEF Entered
<1>2. ASSUME NEW x \in Slots, Distance(x, t) < n
      PROVE  Distance(x, t) \in 0..(n - 1) /\ v[Distance(x, t)] = a[x]
  <2>1. PICK d \in Slots : d = Distance(x, t) BY DistanceFacts
  <2>2. d \in 0..(n - 1) BY <2>1, <1>2
  <2>3. At(t, d) = x BY <2>1, DistanceFacts
  <2> QED BY <2>1, <2>2, <2>3, <1>1
<1> QED BY <1>2

\* What the indices of an iterator that has caught up designate.
LEMMA LiveMeans ==
  ASSUME NEW it \in ItrType, NEW w \in SeenType, NEW a, NEW take \in Slots, NEW n \in 0..Capacity,
         NEW v, Entered(v, a, take, n), it.prevTakeIndex = take, Live(it, 0, v, n, w)
  PROVE  /\ it.nextIndex >= 0 => Distance(it.nextIndex, take) < n /\ a[it.nextIndex] = it.nextItem
         /\ it.lastRet >= 0 => Distance(it.lastRet, take) < n /\ a[it.lastRet] = w.last
         /\ it.cursor >= 0 => Distance(it.cursor, take) < n
<1>1. /\ Within(it.cursor, take, 0, n) /\ Within(it.nextIndex, take, 0, n)
      /\ Within(it.lastRet, take, 0, n)
      /\ Means(it.nextIndex, take, 0, v, it.nextItem) /\ Means(it.lastRet, take, 0, v, w.last)
  BY DEF Live
<1>2. ASSUME NEW x \in Slots \cup {NONE, REMOVED}, NEW e, Within(x, take, 0, n), Means(x, take, 0, v, e), x >= 0
      PROVE  Distance(x, take) < n /\ a[x] = e
  <2>1. x \in Slots BY <1>2, IndexFacts
  <2>2. PICK d \in Slots : d = Distance(x, take) BY <2>1, DistanceFacts
  <2>3. d < 0 + n /\ d >= 0 BY <2>2, <1>2 DEF Within
  <2>4. v[d - 0] = e /\ d - 0 = d BY <2>2, <2>3, <1>2 DEF Means
  <2>5. d < n BY <2>3
  <2>7. Distance(x, take) < n BY <2>2, <2>5
  <2>8. v[Distance(x, take)] = a[x] BY <2>1, <2>7, EnteredFacts
  <2>6. v[d] = a[x] BY <2>2, <2>8
  <2> QED BY <2>2, <2>4, <2>5, <2>6
<1>3. it.cursor >= 0 => Distance(it.cursor, take) < n
  BY <1>1 DEF Within
<1> QED BY <1>1, <1>2, <1>3, ItrFacts

\* After it caught up, an iterator that is still told of changes and its indices.
LEMMA CaughtUpMeans ==
  ASSUME NEW s, NEW take \in Slots, NEW a, NEW n \in 0..Capacity, NEW v, Entered(v, a, take, n),
         NEW sn \in [Iterators -> SeenType],
         NEW ser \in Nat, Good(s, take, v, n, sn, ser), NEW i \in Iterators,
         NEW q, q = CatchUp(s, i, take), NEW it, it = Itr(q, i), ~IsDetached(it)
  PROVE  /\ Good(q, take, v, n, sn, ser) /\ it \in ItrType
         /\ i \in q.tracked /\ n > 0 /\ Live(it, 0, v, n, sn[i]) /\ it.prevTakeIndex = take
         /\ Lag(q, it, take) = 0
         /\ it.nextIndex >= 0 => Distance(it.nextIndex, take) < n /\ a[it.nextIndex] = it.nextItem
         /\ it.lastRet >= 0 => Distance(it.lastRet, take) < n /\ a[it.lastRet] = sn[i].last
         /\ it.cursor >= 0 => Distance(it.cursor, take) < n
<1>0. Good(q, take, v, n, sn, ser) BY CatchUpGood
<1>1. it \in ItrType /\ it.prevTakeIndex = take /\ it.prevCycles = q.cycles
  BY <1>0, CatchUpGood
<1>2. /\ i \in q.tracked /\ n > 0 /\ Lag(q, it, take) = 0
      /\ Live(it, 0, v, n, sn[i])
  BY <1>0, <1>1, CaughtUpLive
<1>4. PICK w \in SeenType : w = sn[i] OBVIOUS
<1>5. Live(it, 0, v, n, w) BY <1>2, <1>4
<1>6. /\ it.nextIndex >= 0 => Distance(it.nextIndex, take) < n /\ a[it.nextIndex] = it.nextItem
      /\ it.lastRet >= 0 => Distance(it.lastRet, take) < n /\ a[it.lastRet] = w.last
      /\ it.cursor >= 0 => Distance(it.cursor, take) < n
  BY <1>1, <1>5, LiveMeans
<1> QED BY <1>0, <1>1, <1>2, <1>4, <1>6

\* Iterator i changes to r, which is detached exactly if the iterator was.
LEMMA GoodSet ==
  ASSUME NEW s, NEW take, NEW v, NEW n, NEW sn, NEW ser, Good(s, take, v, n, sn, ser),
         NEW i \in Iterators, NEW r \in ItrType, NEW sn2, \A j \in Iterators : j # i => sn2[j] = sn[j],
         Own(r, sn2[i], ser), Complete(r, v, n, sn2[i]),
         IsDetached(r) <=> IsDetached(s.it[i]),
         ~IsDetached(r) => Live(r, Lag(s, r, take), v, n, sn2[i]),
         NEW q, q = WithItr(s, i, r)
  PROVE  Good(q, take, v, n, sn2, ser) /\ q.it[i] = r /\ q.tracked = s.tracked
<1>1. Loose(s, take, v, n, sn, ser) /\ s \in ItrsType BY DEF Good, Loose
<1>2. ~IsDetached(r) => i \in s.tracked /\ n > 0 /\ Live(r, Lag(s, r, take), v, n, sn2[i])
  BY <1>1 DEF Loose
<1>3. /\ Loose(q, take, v, n, sn2, ser)
      /\ q.it[i] = r /\ \A j \in Iterators : j # i => q.it[j] = s.it[j]
      /\ q.tracked = s.tracked
  BY <1>1, <1>2, LooseSet
<1>4. s.tracked \subseteq Iterators BY <1>1, ItrsFacts
<1> QED BY <1>3, <1>4 DEF Good

\* hasNext() at the end of the iteration.
LEMMA HasNoNextGood ==
  ASSUME NEW s, NEW take \in Slots, NEW a, NEW n \in 0..Capacity, NEW v, Entered(v, a, take, n),
         NEW sn \in [Iterators -> SeenType],
         NEW ser \in Nat, Good(s, take, v, n, sn, ser), NEW i \in Iterators,
         Itr(s, i).nextItem = Null, ~IsDetached(Itr(s, i)),
         NEW q, q = CatchUp(s, i, take), Itr(q, i).lastRet >= 0
  PROVE  Good(Detach([q EXCEPT !.it[i].lastItem = a[Itr(q, i).lastRet]], i), take, v, n, sn, ser)
<1>0. Good(q, take, v, n, sn, ser) BY CatchUpGood
<1>1. PICK it \in ItrType : it = Itr(q, i) BY <1>0, CatchUpGood
<1>2. it.nextItem = Null /\ (IsDetached(it) => it.lastRet < 0)
  BY <1>0, <1>1, CatchUpGood
<1>3. PICK w \in SeenType : w = sn[i] OBVIOUS
<1>4. it = q.it[i] BY <1>1 DEF Itr
<1>5. Own(it, w, ser) /\ Complete(it, v, n, w) /\ q \in ItrsType BY <1>0, <1>3, <1>4, GoodItr DEF Good
<1>6. it.lastRet \in Int /\ it.lastRet >= 0 BY <1>1, ItrFacts
<1>7. ~IsDetached(it) BY <1>2, <1>6
<1>8. a[it.lastRet] = w.last
  <2>1. Live(it, 0, v, n, sn[i]) /\ it.prevTakeIndex = take BY <1>0, <1>1, <1>7, CaughtUpMeans
  <2>2. Live(it, 0, v, n, w) BY <2>1, <1>3
  <2> QED BY <2>1, <2>2, <1>6, LiveMeans
<1>9. PICK r : r = [it EXCEPT !.lastItem = w.last] OBVIOUS
<1>10. w.last \in Entries \cup {Null} BY DEF SeenType
<1>11. /\ r \in ItrType /\ r.lastItem = w.last /\ r.cursor = it.cursor /\ r.nextIndex = it.nextIndex
       /\ r.nextItem = it.nextItem /\ r.prevTakeIndex = it.prevTakeIndex
  BY <1>9, <1>10 DEF ItrType
<1>12. ~IsDetached(r) BY <1>7, <1>11 DEF IsDetached
<1>13. r.cursor < 0 /\ r.nextIndex < 0 BY <1>2, <1>5, <1>11 DEF Own
<1>14. Own(r, w, ser) BY <1>5, <1>11, <1>12 DEF Own
<1>15. Complete(r, v, n, w) BY <1>5, <1>11 DEF Complete, Noticed
<1>16. PICK u : u = WithItr(q, i, r) OBVIOUS
<1>17. [q EXCEPT !.it[i].lastItem = a[Itr(q, i).lastRet]] = u
  <2>1. a[Itr(q, i).lastRet] = w.last BY <1>1, <1>8
  <2> QED BY <2>1, <1>4, <1>9, <1>16 DEF WithItr
<1>18. Loose(q, take, v, n, sn, ser) BY <1>0 DEF Good
<1>19. Good(Detach(u, i), take, v, n, sn, ser)
  <2>1. Own(r, sn[i], ser) /\ Complete(r, v, n, sn[i]) /\ (r.lastRet >= 0 => r.lastItem = sn[i].last)
    BY <1>3, <1>11, <1>14, <1>15
  <2> QED BY <2>1, <1>11, <1>12, <1>13, <1>16, <1>18, DetachGood
<1> QED BY <1>17, <1>19

\* Where the cursor goes from slot x.
Onward(x, put) == IF Inc(x) = put THEN NONE ELSE Inc(x)

\* The entry in slot x.
EntryAt(a, x) == a[x]

\* The cursor moves on from slot x: to the next entry, if there is one.
LEMMA CursorNext ==
  ASSUME NEW take \in Slots, NEW n \in 1..Capacity, NEW x \in Slots, NEW d \in Slots,
         d = Distance(x, take), d < n,
         NEW put, put = At(take, n), NEW c, c = Onward(x, put)
  PROVE  /\ c \in Slots \cup {NONE}
         /\ c >= 0 => Distance(c, take) = d + 1 /\ d + 1 < n
         /\ c < 0 => d = n - 1
<1>1. x = At(take, d) /\ Inc(At(take, d)) = At(take, d + 1)
  <2>1. d \in 0..(Capacity - 1) OBVIOUS
  <2> QED BY <2>1, AtFacts, DistanceFacts
<1>2. PICK y \in Slots : y = Inc(x) BY DEF Inc
<1>3. y = At(take, d + 1) BY <1>1, <1>2
<1>4. CASE d = n - 1
  BY <1>2, <1>3, <1>4 DEF Onward
<1>5. CASE d # n - 1
  <2>1. d + 1 \in 0..(Capacity - 1) /\ d + 1 < n /\ d + 1 > 0 BY <1>5
  <2>2. PICK e \in Slots : e = d + 1 BY <2>1
  <2>3. Distance(y, take) = e BY <2>2, <1>3, DistanceFacts
  <2>4. y # put
    <3>1. CASE n = Capacity
      <4>1. put = take BY <3>1 DEF At
      <4> QED BY <4>1, <2>1, <2>2, <2>3, DistanceFacts
    <3>2. CASE n # Capacity
      <4>1. PICK m \in Slots : m = n BY <3>2
      <4>2. Distance(put, take) = m BY <4>1, DistanceFacts
      <4> QED BY <4>1, <4>2, <2>1, <2>2, <2>3
    <3> QED BY <3>1, <3>2
  <2> QED BY <2>1, <2>2, <2>3, <2>4, <1>2 DEF Onward
<1> QED BY <1>4, <1>5

Advanced(it, x, e, c) ==
  [it EXCEPT !.lastRet = it.nextIndex, !.nextIndex = x, !.nextItem = e, !.cursor = c]

\* The fields of an iterator that advanced.
AdvancedTo(r, it, x, e, c) ==
  /\ r.lastRet = it.nextIndex /\ r.nextIndex = x /\ r.nextItem = e /\ r.cursor = c
  /\ r.lastItem = it.lastItem /\ r.prevTakeIndex = it.prevTakeIndex
  /\ r.prevCycles = it.prevCycles /\ (IsDetached(r) <=> IsDetached(it))

LEMMA AdvancedFields ==
  ASSUME NEW it \in ItrType, NEW x \in Slots \cup {NONE}, NEW e \in Entries \cup {Null},
         NEW c \in Slots \cup {NONE}, NEW r, r = Advanced(it, x, e, c)
  PROVE  r \in ItrType /\ AdvancedTo(r, it, x, e, c)
<1>1. r = [it EXCEPT !.lastRet = it.nextIndex, !.nextIndex = x, !.nextItem = e, !.cursor = c]
  BY DEF Advanced
<1>2. r \in ItrType
  <2>1. it.nextIndex \in Slots \cup {NONE, REMOVED} /\ x \in Slots \cup {NONE, REMOVED} BY ItrFacts
  <2> QED BY <1>1, <2>1 DEF ItrType
<1>3. /\ r.lastRet = it.nextIndex /\ r.nextIndex = x /\ r.nextItem = e
      /\ r.cursor = c /\ r.lastItem = it.lastItem /\ r.prevTakeIndex = it.prevTakeIndex
      /\ r.prevCycles = it.prevCycles
  BY <1>1 DEF ItrType
<1> QED BY <1>2, <1>3 DEF AdvancedTo, IsDetached

\* An iterator that has seen w returns entry e.
Saw(w, e) == [w EXCEPT !.last = e]

LEMMA SeenFields ==
  ASSUME NEW w \in SeenType, NEW e \in Entries \cup {Null}, NEW w2, w2 = Saw(w, e)
  PROVE  w2 \in SeenType /\ w2.last = e /\ w2.since = w.since /\ w2.open = w.open
BY DEF SeenType, Saw

\* What is known of the serial numbers of sorted entries.
LEMMA SortedFacts ==
  ASSUME NEW n \in Nat, NEW v \in [0..(n - 1) -> Entries], NEW ser \in Nat, Sorted(v, n, ser)
  PROVE  /\ \A k \in 0..(n - 1) : v[k] \in Entries /\ v[k] # Null /\ v[k].no \in Nat /\ v[k].no < ser
         /\ \A j, k \in 0..(n - 1) : j < k => v[j].no < v[k].no
         /\ \A j, k \in 0..(n - 1) : v[j].no < v[k].no => j < k
<1>1. \A k \in 0..(n - 1) : v[k] \in Entries /\ v[k] # Null /\ v[k].no \in Nat /\ v[k].no < ser
  BY EntryFacts DEF Sorted
<1>2. \A j, k \in 0..(n - 1) : j < k => v[j].no < v[k].no
  <2> TAKE j, k \in 0..(n - 1)
  <2> HAVE j < k
  <2>1. j \in 0..(k - 1) OBVIOUS
  <2> QED BY <2>1 DEF Sorted
<1>3. \A j, k \in 0..(n - 1) : v[j].no < v[k].no => j < k
  <2> TAKE j, k \in 0..(n - 1)
  <2> HAVE v[j].no < v[k].no
  <2>1. v[j].no \in Nat /\ v[k].no \in Nat BY <1>1
  <2>2. CASE k < j BY <2>1, <2>2, <1>2
  <2>3. CASE k = j BY <2>1, <2>3
  <2>4. j < k \/ k < j \/ k = j OBVIOUS
  <2> QED BY <2>2, <2>3, <2>4
<1> QED BY <1>1, <1>2, <1>3

\* What holds of an iterator that has caught up.
Ready(it, take, v, n, w, ser) ==
  /\ Own(it, w, ser) /\ Complete(it, v, n, w)
  /\ ~IsDetached(it) => it.prevTakeIndex = take /\ Live(it, 0, v, n, w)

\* next(), with an entry to read ahead.
LEMMA NextRead ==
  ASSUME NEW it \in ItrType, NEW w \in SeenType, NEW ser \in Nat, NEW n \in 1..Capacity,
         NEW v \in [0..(n - 1) -> Entries], NEW a, NEW take \in Slots, Entered(v, a, take, n),
         Sorted(v, n, ser), Ready(it, take, v, n, w, ser), ~IsDetached(it), it.nextItem # Null,
         NEW x \in Slots, x = it.cursor, NEW put, put = At(take, n),
         NEW c, c = Onward(x, put),
         NEW e, e = EntryAt(a, x), NEW r, r = Advanced(it, x, e, c),
         NEW w2, w2 = Saw(w, it.nextItem)
  PROVE  r \in ItrType /\ w2 \in SeenType /\ Ready(r, take, v, n, w2, ser) /\ ~IsDetached(r)
<1> SUFFICES ASSUME Own(it, w, ser), Complete(it, v, n, w),
                    it.prevTakeIndex = take, Live(it, 0, v, n, w)
             PROVE  r \in ItrType /\ w2 \in SeenType /\ Ready(r, take, v, n, w2, ser) /\ ~IsDetached(r)
  BY DEF Ready
<1>1. PICK d \in Slots : d = Distance(x, take) BY DistanceFacts
<1>2. d < n
  <2>1. it.cursor >= 0 /\ Within(it.cursor, take, 0, n) BY DEF Live
  <2> QED BY <2>1, <1>1 DEF Within
<1>3. d \in 0..(n - 1) /\ v[d] = e
  <2>1. Distance(x, take) < n BY <1>1, <1>2
  <2>2. v[Distance(x, take)] = a[x] /\ n \in 0..Capacity BY <2>1, EnteredFacts
  <2> QED BY <2>2, <1>1, <1>2 DEF EntryAt
<1>4. n \in Nat OBVIOUS
<1>5. /\ \A k \in 0..(n - 1) : v[k] \in Entries /\ v[k] # Null /\ v[k].no \in Nat /\ v[k].no < ser
      /\ \A j, k \in 0..(n - 1) : j < k => v[j].no < v[k].no
      /\ \A j, k \in 0..(n - 1) : v[j].no < v[k].no => j < k
  BY <1>4, SortedFacts
<1>6. e \in Entries /\ e # Null /\ e.no \in Nat /\ e.no < ser BY <1>3, <1>5
<1>7. /\ c \in Slots \cup {NONE}
      /\ c >= 0 => Distance(c, take) = d + 1 /\ d + 1 < n
      /\ c < 0 => d = n - 1
  BY <1>1, <1>2, CursorNext
<1>8. /\ r \in ItrType /\ r.lastRet = it.nextIndex /\ r.nextIndex = x /\ r.nextItem = e
      /\ r.cursor = c /\ r.lastItem = it.lastItem /\ r.prevTakeIndex = take
      /\ ~IsDetached(r)
  <2>1. x \in Slots \cup {NONE} /\ e \in Entries \cup {Null} BY <1>6
  <2>2. /\ r \in ItrType /\ r.lastRet = it.nextIndex /\ r.nextIndex = x /\ r.nextItem = e
        /\ r.cursor = c /\ r.lastItem = it.lastItem /\ r.prevTakeIndex = it.prevTakeIndex
        /\ (IsDetached(r) <=> IsDetached(it))
    <3>1. c \in Slots \cup {NONE} BY <1>7
    <3>2. r \in ItrType /\ AdvancedTo(r, it, x, e, c) BY <2>1, <3>1, AdvancedFields
    <3> QED BY <3>2 DEF AdvancedTo
  <2> QED BY <2>2
<1>9. PICK b \in Entries : b = it.nextItem /\ b.no \in Nat BY ItrFacts, EntryFacts
<1>10. w2 \in SeenType /\ w2.last = b /\ w2.since = w.since /\ w2.open = w.open
  <2>1. it.nextItem \in Entries \cup {Null} BY ItrFacts
  <2> QED BY <2>1, <1>9, SeenFields, ZenonT(30)
<1>11. \A k \in 0..(n - 1) : 0 + k >= d <=> b.no < v[k].no
  <2>1. it.cursor >= 0 OBVIOUS
  <2>2. Splits(v, n, b.no, 0, d) BY <2>1, <1>1, <1>9 DEF Live, Before
  <2> QED BY <2>2 DEF Splits
<1>12. b.no < e.no BY <1>3, <1>11
<1>13. Own(r, w2, ser)
  <2>1. w.since <= ser /\ w.open BY DEF Own
  <2>2. b # Null BY <1>9
  <2> QED BY <2>1, <1>6, <1>8, <1>10, <1>12 DEF Own
<1>14. Complete(r, v, n, w2)
  <2> SUFFICES ASSUME NEW k \in 0..(n - 1) PROVE Noticed(r, v[k], w2) BY DEF Complete
  <2>1. ~(b.no < v[k].no /\ v[k].no < e.no)
    <3>1. b.no < v[k].no => k >= d BY <1>11
    <3>2. v[k].no < e.no => k < d BY <1>3, <1>5
    <3> QED BY <3>1, <3>2
  <2>2. c < 0 => ~(e.no < v[k].no)
    <3>1. e.no < v[k].no => d < k BY <1>3, <1>5
    <3> QED BY <3>1, <1>7
  <2>3. w2.last # Null /\ r.nextItem # Null BY <1>6, <1>8, <1>9, <1>10
  <2> QED BY <2>1, <2>2, <2>3, <1>8, <1>10 DEF Noticed
<1>15. Live(r, 0, v, n, w2)
  <2>1. Within(c, take, 0, n) BY <1>7 DEF Within
  <2>2. Within(x, take, 0, n) /\ Means(x, take, 0, v, e) BY <1>1, <1>2, <1>3 DEF Within, Means
  <2>3. Within(it.nextIndex, take, 0, n) /\ Means(it.nextIndex, take, 0, v, b)
    BY <1>9 DEF Live
  <2>4. c >= 0 => Splits(v, n, e.no, 0, Distance(c, take))
    <3> HAVE c >= 0
    <3>1. \A k \in 0..(n - 1) : 0 + k >= d + 1 <=> e.no < v[k].no
      <4> TAKE k \in 0..(n - 1)
      <4>1. d < k <=> e.no < v[k].no BY <1>3, <1>5
      <4> QED BY <4>1
    <3>2. Splits(v, n, e.no, 0, d + 1) BY <3>1 DEF Splits
    <3> QED BY <3>2, <1>7
  <2>5. \A k \in 0..(n - 1) : ~(0 + k >= Capacity) OBVIOUS
  <2> QED BY <2>1, <2>2, <2>3, <2>4, <2>5, <1>8, <1>10 DEF Live, Before
<1> QED BY <1>8, <1>10, <1>13, <1>14, <1>15 DEF Ready

\* next(), with nothing left to read ahead.
LEMMA NextEnds ==
  ASSUME NEW it \in ItrType, NEW w \in SeenType, NEW ser \in Nat, NEW n \in 0..Capacity,
         NEW v \in [0..(n - 1) -> Entries], NEW take \in Slots, Ready(it, take, v, n, w, ser), it.nextItem # Null,
         NEW x, x = NONE, NEW e, e = Null, NEW c, c = it.cursor, c < 0, NEW r, r = Advanced(it, x, e, c),
         NEW w2, w2 = Saw(w, it.nextItem)
  PROVE  /\ r \in ItrType /\ w2 \in SeenType /\ Ready(r, take, v, n, w2, ser)
         /\ IsDetached(r) <=> IsDetached(it)
<1> SUFFICES ASSUME Own(it, w, ser), Complete(it, v, n, w),
                    ~IsDetached(it) => it.prevTakeIndex = take /\ Live(it, 0, v, n, w)
             PROVE  /\ r \in ItrType /\ w2 \in SeenType /\ Ready(r, take, v, n, w2, ser)
                    /\ IsDetached(r) <=> IsDetached(it)
  BY DEF Ready
<1>1. /\ r \in ItrType /\ r.lastRet = it.nextIndex /\ r.nextIndex = NONE /\ r.nextItem = Null
      /\ r.cursor = c /\ r.lastItem = it.lastItem /\ r.prevTakeIndex = it.prevTakeIndex
      /\ IsDetached(r) <=> IsDetached(it)
  <2>1. x \in Slots \cup {NONE} /\ e \in Entries \cup {Null} /\ c \in Slots \cup {NONE}
    BY ItrFacts
  <2>2. r \in ItrType /\ AdvancedTo(r, it, x, e, c) BY <2>1, AdvancedFields
  <2> QED BY <2>2 DEF AdvancedTo
<1>2. PICK b \in Entries : b = it.nextItem BY ItrFacts
<1>3. w2 \in SeenType /\ w2.last = b /\ w2.since = w.since /\ w2.open = w.open /\ b # Null
  <2>1. it.nextItem \in Entries \cup {Null} BY ItrFacts
  <2> QED BY <2>1, <1>2, SeenFields
<1>4. it.nextIndex \in Int BY ItrFacts
<1>5. Own(r, w2, ser)
  <2>1. w.since <= ser /\ w.open BY DEF Own
  <2>2. IsDetached(r) => ~(r.lastRet >= 0) BY <1>1, <1>4 DEF Own
  <2> QED BY <2>1, <2>2, <1>1, <1>3 DEF Own
<1>6. Complete(r, v, n, w2)
  <2> SUFFICES ASSUME NEW k \in 0..(n - 1) PROVE Noticed(r, v[k], w2) BY DEF Complete
  <2>1. Noticed(it, v[k], w) BY DEF Complete
  <2>2. PICK y : y = v[k] OBVIOUS
  <2>3. b.no < y.no => w.since <= y.no BY <2>1, <2>2, <1>2, <1>3 DEF Noticed
  <2>4. w.since \in Nat /\ y.no \in Nat BY <2>2, EntryFacts DEF SeenType
  <2>5. ~(b.no < y.no /\ y.no < w.since) BY <2>3, <2>4
  <2> QED BY <2>2, <2>5, <1>1, <1>3 DEF Noticed
<1>7. ASSUME ~IsDetached(r) PROVE Live(r, 0, v, n, w2)
  <2>1. it.prevTakeIndex = take /\ Live(it, 0, v, n, w) BY <1>1, <1>7
  <2>2. Within(it.nextIndex, take, 0, n) /\ Means(it.nextIndex, take, 0, v, b)
    BY <2>1, <1>2 DEF Live
  <2>3. Within(c, take, 0, n) BY <2>1 DEF Live
  <2>4. \A k \in 0..(n - 1) : 0 + k >= Capacity => w.since <= v[k].no BY <2>1 DEF Live
  <2>5. Within(NONE, take, 0, n) /\ Means(NONE, take, 0, v, Null) BY DEF Within, Means
  <2>6. /\ Within(r.cursor, r.prevTakeIndex, 0, n) /\ Within(r.nextIndex, r.prevTakeIndex, 0, n)
        /\ Within(r.lastRet, r.prevTakeIndex, 0, n)
    BY <2>1, <2>2, <2>3, <2>5, <1>1
  <2>7. Means(r.nextIndex, r.prevTakeIndex, 0, v, r.nextItem) /\ Means(r.lastRet, r.prevTakeIndex, 0, v, w2.last)
    BY <2>1, <2>2, <2>5, <1>1, <1>3
  <2>8. Before(r, 0, v, n)
    <3>1. c \in Int BY ItrFacts
    <3> QED BY <3>1, <1>1 DEF Before
  <2> QED BY <2>4, <2>6, <2>7, <2>8, <1>3 DEF Live
<1> QED BY <1>1, <1>3, <1>5, <1>6, <1>7 DEF Ready

\* One step of changes to the fields of an iterator, and then another.
LEMMA WithItrTwice ==
  ASSUME NEW s \in ItrsType, NEW i \in Iterators, NEW x \in ItrType
  PROVE  /\ WithItr(s, i, x).it[i] = x /\ WithItr(s, i, x) \in ItrsType
         /\ \A y : WithItr(WithItr(s, i, x), i, y) = WithItr(s, i, y)
<1>1. PICK q : q = WithItr(s, i, x) OBVIOUS
<1>2. q \in ItrsType /\ q.it[i] = x BY <1>1, SetFacts
<1>3. \A y : WithItr(q, i, y) = WithItr(s, i, y)
  BY <1>1 DEF WithItr, ItrsType
<1> QED BY <1>1, <1>2, <1>3

\* As next() writes it.
AdvancedBy(s, i, x, e, c) ==
  [s EXCEPT !.it[i].lastRet = s.it[i].nextIndex, !.it[i].nextIndex = x,
            !.it[i].nextItem = e, !.it[i].cursor = c]

\* What next() does to the iterators.
LEMMA AdvancedItrs ==
  ASSUME NEW s \in ItrsType, NEW i \in Iterators, NEW it \in ItrType, it = s.it[i],
         NEW x \in Slots \cup {NONE}, NEW e \in Entries \cup {Null}, NEW c \in Slots \cup {NONE}
  PROVE  AdvancedBy(s, i, x, e, c) = WithItr(s, i, Advanced(it, x, e, c))
<1>1. PICK l : l = it.nextIndex OBVIOUS
<1>2. PICK r1 : r1 = [it EXCEPT !.lastRet = l] OBVIOUS
<1>3. PICK r2 : r2 = [r1 EXCEPT !.nextIndex = x] OBVIOUS
<1>4. PICK r3 : r3 = [r2 EXCEPT !.nextItem = e] OBVIOUS
<1>5. PICK r4 : r4 = [r3 EXCEPT !.cursor = c] OBVIOUS
<1>6. /\ l \in Slots \cup {NONE, REMOVED} /\ x \in Slots \cup {NONE, REMOVED}
  BY <1>1, ItrFacts
<1>7. r1 \in ItrType BY <1>2, <1>6 DEF ItrType
<1>8. r2 \in ItrType BY <1>3, <1>6, <1>7 DEF ItrType
<1>9. r3 \in ItrType BY <1>4, <1>8 DEF ItrType
<1>10. r4 = Advanced(it, x, e, c) BY <1>1, <1>2, <1>3, <1>4, <1>5 DEF Advanced
<1>11. PICK s1 : s1 = WithItr(s, i, r1) OBVIOUS
<1>12. PICK s2 : s2 = WithItr(s, i, r2) OBVIOUS
<1>13. PICK s3 : s3 = WithItr(s, i, r3) OBVIOUS
<1>14. s1.it[i] = r1 /\ s2.it[i] = r2 /\ s3.it[i] = r3
  BY <1>7, <1>8, <1>9, <1>11, <1>12, <1>13, WithItrTwice
<1>15. [s EXCEPT !.it[i].lastRet = l] = s1 BY <1>2, <1>11 DEF WithItr
<1>16. [s1 EXCEPT !.it[i].nextIndex = x] = s2
  <2>1. [s1 EXCEPT !.it[i].nextIndex = x] = WithItr(s1, i, r2) BY <1>3, <1>14 DEF WithItr
  <2> QED BY <2>1, <1>7, <1>11, <1>12, WithItrTwice
<1>17. [s2 EXCEPT !.it[i].nextItem = e] = s3
  <2>1. [s2 EXCEPT !.it[i].nextItem = e] = WithItr(s2, i, r3) BY <1>4, <1>14 DEF WithItr
  <2> QED BY <2>1, <1>8, <1>12, <1>13, WithItrTwice
<1>18. [s3 EXCEPT !.it[i].cursor = c] = WithItr(s, i, r4)
  <2>1. [s3 EXCEPT !.it[i].cursor = c] = WithItr(s3, i, r4) BY <1>5, <1>14 DEF WithItr
  <2> QED BY <2>1, <1>9, <1>13, WithItrTwice
<1>19. [s EXCEPT !.it[i].lastRet = l, !.it[i].nextIndex = x, !.it[i].nextItem = e, !.it[i].cursor = c]
         = WithItr(s, i, r4)
  BY <1>15, <1>16, <1>17, <1>18
<1> QED BY <1>1, <1>10, <1>19 DEF AdvancedBy

\* What next() reads ahead, and where the cursor goes.
NextAt(it) == IF it.cursor >= 0 THEN it.cursor ELSE NONE
NextEntry(it, a) == IF it.cursor >= 0 THEN EntryAt(a, it.cursor) ELSE Null
NextCursor(it, put) == IF it.cursor >= 0 THEN Onward(it.cursor, put) ELSE it.cursor

SeenNext(sn, i, e) == [sn EXCEPT ![i] = Saw(sn[i], e)]

\* next()
LEMMA NextGood ==
  ASSUME NEW s, NEW take \in Slots, NEW a, NEW n \in 0..Capacity, NEW v \in [0..(n - 1) -> Entries],
         Entered(v, a, take, n), NEW sn \in [Iterators -> SeenType],
         NEW ser \in Nat, Sorted(v, n, ser), Good(s, take, v, n, sn, ser), NEW i \in Iterators,
         NEW put, put = At(take, n),
         NEW q, q = CatchUp(s, i, take), NEW it, it = Itr(q, i),
         NEW x, x = NextAt(it), NEW e, e = NextEntry(it, a), NEW c, c = NextCursor(it, put),
         NEW r, r = Advanced(it, x, e, c), NEW u, u = WithItr(q, i, r),
         NEW next \in Entries, next = it.nextItem, NEW sn2, sn2 = SeenNext(sn, i, next)
  PROVE  /\ Good(u, take, v, n, sn2, ser) /\ sn2 \in [Iterators -> SeenType]
         /\ x \in Slots \cup {NONE} /\ e \in Entries \cup {Null} /\ c \in Slots \cup {NONE}
<1>0. Good(q, take, v, n, sn, ser) BY CatchUpGood
<1>1. it \in ItrType BY <1>0, CatchUpGood
<1>2. PICK w \in SeenType : w = sn[i] OBVIOUS
<1>3. it = q.it[i] BY DEF Itr
<1>4. Own(it, w, ser) /\ Complete(it, v, n, w) /\ q \in ItrsType BY <1>0, <1>2, <1>3, GoodItr DEF Good
<1>5. PICK w2 : w2 = Saw(w, it.nextItem) OBVIOUS
<1>6. sn2 = [sn EXCEPT ![i] = w2] BY <1>2, <1>5 DEF SeenNext
<1>8. it.nextItem # Null BY EntryFacts
<1>9. ASSUME ~IsDetached(it) PROVE n > 0 /\ it.prevTakeIndex = take /\ Live(it, 0, v, n, w) /\ Lag(q, it, take) = 0
  <2>1. n > 0 /\ it.prevTakeIndex = take /\ Live(it, 0, v, n, sn[i]) /\ Lag(q, it, take) = 0
    BY <1>0, <1>1, <1>9, CaughtUpMeans
  <2> QED BY <2>1, <1>2
<1>9a. Ready(it, take, v, n, w, ser) BY <1>4, <1>9 DEF Ready
<1>10. it.cursor \in Int /\ it.cursor \in Slots \cup {NONE} /\ (it.cursor >= 0 => it.cursor \in Slots)
  BY <1>1, ItrFacts
<1>11. /\ r \in ItrType /\ w2 \in SeenType /\ Ready(r, take, v, n, w2, ser)
       /\ IsDetached(r) <=> IsDetached(it)
       /\ x \in Slots \cup {NONE} /\ e \in Entries \cup {Null} /\ c \in Slots \cup {NONE}
  <2>1. CASE it.cursor >= 0
    <3>1. PICK at \in Slots : at = it.cursor BY <2>1, <1>10
    <3>2. x = at /\ e = EntryAt(a, at) /\ c = Onward(at, put) BY <2>1, <3>1 DEF NextAt, NextEntry, NextCursor
    <3>3. ~IsDetached(it)
      <4>1. ~(it.cursor < 0) BY <2>1, <1>10
      <4> QED BY <4>1, <1>4 DEF Own
    <3>4. n \in 1..Capacity /\ it.prevTakeIndex = take /\ Live(it, 0, v, n, w) BY <3>3, <1>9
    <3>5. r = Advanced(it, at, e, c) BY <3>2
    <3>6. r \in ItrType /\ w2 \in SeenType /\ Ready(r, take, v, n, w2, ser) /\ ~IsDetached(r)
      BY <3>1, <3>2, <3>3, <3>4, <3>5, <1>1, <1>5, <1>8, <1>9a, NextRead
    <3>7. PICK d \in Slots : d = Distance(at, take) BY DistanceFacts
    <3>8. d < n
      <4>1. Within(it.cursor, take, 0, n) BY <3>4 DEF Live
      <4> QED BY <4>1, <2>1, <3>1, <3>7 DEF Within
    <3>9. c \in Slots \cup {NONE} BY <3>2, <3>4, <3>7, <3>8, CursorNext
    <3>10. e \in Entries
      <4>1. v[d] = a[at] /\ d \in 0..(n - 1)
        <5>1. Distance(at, take) < n BY <3>7, <3>8
        <5>2. v[Distance(at, take)] = a[at] BY <5>1, EnteredFacts
        <5> QED BY <5>2, <3>7, <3>8
      <4> QED BY <4>1, <3>2 DEF EntryAt
    <3> QED BY <3>2, <3>3, <3>6, <3>9, <3>10
  <2>2. CASE ~(it.cursor >= 0)
    <3>1. x = NONE /\ e = Null /\ c = it.cursor /\ c < 0
      BY <2>2, <1>10 DEF NextAt, NextEntry, NextCursor
    <3>3. /\ r \in ItrType /\ w2 \in SeenType /\ Ready(r, take, v, n, w2, ser)
          /\ IsDetached(r) <=> IsDetached(it)
      BY <3>1, <1>1, <1>5, <1>8, <1>9a, NextEnds
    <3> QED BY <3>1, <3>3, <1>10
  <2> QED BY <2>1, <2>2
<1>12. sn2 \in [Iterators -> SeenType] /\ sn2[i] = w2 /\ \A j \in Iterators : j # i => sn2[j] = sn[j]
  BY <1>6, <1>11
<1>13. ~IsDetached(r) => Lag(q, r, take) = 0
  <2> HAVE ~IsDetached(r)
  <2>1. r.prevTakeIndex = it.prevTakeIndex /\ r.prevCycles = it.prevCycles
    <3> QED BY <1>1 DEF Advanced, ItrType
  <2> QED BY <2>1, <1>9, <1>11 DEF Lag
<1>15. Good(u, take, v, n, sn2, ser)
  <2>1. /\ Own(r, sn2[i], ser) /\ Complete(r, v, n, sn2[i])
        /\ IsDetached(r) <=> IsDetached(q.it[i])
        /\ ~IsDetached(r) => Live(r, Lag(q, r, take), v, n, sn2[i])
    BY <1>3, <1>11, <1>12, <1>13 DEF Ready
  <2> QED BY <2>1, <1>0, <1>11, <1>12, GoodSet
<1> QED BY <1>11, <1>12, <1>15

\* A new iterator.
Opened(take, e, c, cycles) ==
  [NoItr EXCEPT !.prevTakeIndex = take, !.nextIndex = take, !.nextItem = e,
                !.cursor = c, !.prevCycles = cycles]

Opening(w, ser) == [w EXCEPT !.open = TRUE, !.since = ser]

SeenOpen(sn, i, ser) == [sn EXCEPT ![i] = Opening(sn[i], ser)]

WithTracked(s, i) == [s EXCEPT !.tracked = @ \cup {i}]

LEMMA OpeningFields ==
  ASSUME NEW w \in SeenType, NEW ser \in Nat, NEW w2, w2 = Opening(w, ser)
  PROVE  w2 \in SeenType /\ w2.open = TRUE /\ w2.since = ser /\ w2.last = w.last
BY DEF SeenType, Opening

LEMMA OpenedFields ==
  ASSUME NEW take \in Slots, NEW e \in Entries, NEW c \in Slots \cup {NONE}, NEW cycles \in Nat,
         NEW r, r = Opened(take, e, c, cycles)
  PROVE  /\ r \in ItrType /\ r.prevTakeIndex = take /\ r.nextIndex = take /\ r.nextItem = e
         /\ r.cursor = c /\ r.prevCycles = cycles /\ r.lastRet = NONE
<1>1. NoItr = [cursor |-> NONE, nextItem |-> Null, nextIndex |-> NONE, lastItem |-> Null,
               lastRet |-> NONE, prevTakeIndex |-> DETACHED, prevCycles |-> 0]
  BY DEF NoItr
<1>2. r = [cursor |-> c, nextItem |-> e, nextIndex |-> take, lastItem |-> Null,
           lastRet |-> NONE, prevTakeIndex |-> take, prevCycles |-> cycles]
  BY <1>1 DEF Opened
<1> QED BY <1>2 DEF ItrType

\* A queue without entries tells nothing.
LEMMA OpenEmpty ==
  ASSUME NEW s, NEW take \in Slots, NEW v, NEW sn \in [Iterators -> SeenType],
         NEW ser \in Nat, Good(s, take, v, 0, sn, ser), NEW i \in Iterators, ~sn[i].open,
         NEW sn2, sn2 = SeenOpen(sn, i, ser)
  PROVE  Good(s, take, v, 0, sn2, ser) /\ sn2 \in [Iterators -> SeenType]
<1>1. Loose(s, take, v, 0, sn, ser) BY DEF Good
<1>2. PICK w \in SeenType : w = sn[i] OBVIOUS
<1>3. PICK w2 : w2 = Opening(w, ser) OBVIOUS
<1>4. /\ w2 \in SeenType /\ w2.open = TRUE /\ w2.since = ser /\ w2.last = w.last
  BY <1>2, <1>3 DEF Opening, SeenType
<1>5. /\ sn2 \in [Iterators -> SeenType] /\ sn2[i] = w2
      /\ \A j \in Iterators : j # i => sn2[j] = sn[j]
  BY <1>2, <1>3, <1>4 DEF SeenOpen
<1>6. PICK it \in ItrType : it = s.it[i] BY <1>1, GoodItr
<1>7. Own(it, w, ser) BY <1>1, <1>2, <1>6, GoodItr
<1>8. Own(it, w2, ser) BY <1>4, <1>7 DEF Own
<1>9. ASSUME NEW j \in Iterators
      PROVE  Own(s.it[j], sn2[j], ser) /\ Complete(s.it[j], v, 0, sn2[j]) /\ IsDetached(s.it[j])
  <2>1. Complete(s.it[j], v, 0, sn2[j]) BY DEF Complete
  <2>2. IsDetached(s.it[j]) BY <1>1 DEF Loose
  <2>3. CASE j = i BY <2>1, <2>2, <2>3, <1>5, <1>6, <1>8
  <2>4. CASE j # i
    <3>1. Own(s.it[j], sn[j], ser) BY <1>1 DEF Loose
    <3> QED BY <2>1, <2>2, <2>4, <3>1, <1>5
  <2> QED BY <2>3, <2>4
<1>10. Loose(s, take, v, 0, sn2, ser) BY <1>1, <1>9 DEF Loose
<1> QED BY <1>5, <1>10 DEF Good

\* new Itr(), when there are entries.
LEMMA OpenGood ==
  ASSUME NEW s, NEW take \in Slots, NEW a, NEW n \in 1..Capacity, NEW v \in [0..(n - 1) -> Entries],
         Entered(v, a, take, n), NEW sn \in [Iterators -> SeenType],
         NEW ser \in Nat, Sorted(v, n, ser), Good(s, take, v, n, sn, ser), NEW i \in Iterators,
         ~sn[i].open, NEW put, put = At(take, n), NEW e, e = EntryAt(a, take),
         NEW c, c = Onward(take, put), NEW cycles, cycles = s.cycles,
         NEW q, q = WithTracked(s, i), NEW r, r = Opened(take, e, c, cycles),
         NEW u, u = WithItr(q, i, r),
         NEW sn2, sn2 = SeenOpen(sn, i, ser)
  PROVE  Good(Sweep(u), take, v, n, sn2, ser) /\ sn2 \in [Iterators -> SeenType]
<1>1. Loose(s, take, v, n, sn, ser) /\ s \in ItrsType BY DEF Good, Loose
<1>2. PICK w \in SeenType : w = sn[i] OBVIOUS
<1>3. PICK w2 : w2 = Opening(w, ser) OBVIOUS
<1>4. /\ w2 \in SeenType /\ w2.open = TRUE /\ w2.since = ser /\ w2.last = w.last
  BY <1>2, <1>3 DEF Opening, SeenType
<1>5. /\ sn2 \in [Iterators -> SeenType] /\ sn2[i] = w2
      /\ \A j \in Iterators : j # i => sn2[j] = sn[j]
  BY <1>2, <1>3, <1>4 DEF SeenOpen
<1>6. w2.last = Null
  <2>1. PICK it \in ItrType : it = s.it[i] BY <1>1, GoodItr
  <2>2. Own(it, w, ser) BY <2>1, <1>1, <1>2, GoodItr
  <2> QED BY <2>2, <1>2, <1>4 DEF Own
<1>7. PICK T : T = s.tracked \cup {i} OBVIOUS
<1>8. T \subseteq Iterators BY <1>1, <1>7, ItrsFacts
<1>9. q = [s EXCEPT !.tracked = T] BY <1>7 DEF WithTracked
<1>10. q \in ItrsType BY <1>1, <1>8, <1>9 DEF ItrsType
<1>11. q.tracked = T /\ q.it = s.it /\ q.cycles = s.cycles BY <1>1, <1>9 DEF ItrsType
<1>12. Loose(q, take, v, n, sn, ser)
  <2>1. \A it : Lag(q, it, take) = Lag(s, it, take) BY <1>11 DEF Lag
  <2> QED BY <2>1, <1>1, <1>7, <1>10, <1>11 DEF Loose
<1>13. Distance(take, take) = 0 /\ 0 \in 0..(n - 1) /\ n \in Nat BY DistanceFacts
<1>14. v[0] = e
  <2>1. v[0] = a[At(take, 0)] BY <1>13 DEF Entered
  <2>2. At(take, 0) = take BY AtFacts
  <2> QED BY <2>1, <2>2 DEF EntryAt
<1>14b. n \in Nat OBVIOUS
<1>15. /\ \A k \in 0..(n - 1) : v[k] \in Entries /\ v[k] # Null /\ v[k].no \in Nat /\ v[k].no < ser
       /\ \A j, k \in 0..(n - 1) : j < k => v[j].no < v[k].no
       /\ \A j, k \in 0..(n - 1) : v[j].no < v[k].no => j < k
  BY <1>14b, SortedFacts
<1>16. e \in Entries /\ e # Null /\ e.no \in Nat /\ e.no < ser BY <1>13, <1>14, <1>15
<1>17. /\ c \in Slots \cup {NONE}
       /\ c >= 0 => Distance(c, take) = 1 /\ 1 < n
       /\ c < 0 => n = 1
  <2>1. PICK d \in Slots : d = 0 OBVIOUS
  <2>2. d = Distance(take, take) /\ d < n BY <2>1, <1>13
  <2>3. /\ c \in Slots \cup {NONE}
        /\ c >= 0 => Distance(c, take) = d + 1 /\ d + 1 < n
        /\ c < 0 => d = n - 1
    BY <2>2, CursorNext
  <2> QED BY <2>1, <2>3
<1>18. cycles \in Nat BY <1>1, ItrsFacts
<1>19. /\ r \in ItrType /\ r.prevTakeIndex = take /\ r.nextIndex = take /\ r.nextItem = e
       /\ r.cursor = c /\ r.prevCycles = cycles /\ r.lastRet = NONE
  BY <1>16, <1>17, <1>18, OpenedFields
<1>20. ~IsDetached(r) BY <1>19 DEF IsDetached
<1>21. Own(r, w2, ser) BY <1>4, <1>6, <1>16, <1>19, <1>20 DEF Own
<1>22. Complete(r, v, n, w2)
  <2> SUFFICES ASSUME NEW k \in 0..(n - 1) PROVE Noticed(r, v[k], w2) BY DEF Complete
  <2>1. ~(v[k].no < e.no)
    <3>1. v[k].no < e.no => k < 0 BY <1>13, <1>14, <1>15
    <3> QED BY <3>1
  <2>2. c < 0 => ~(e.no < v[k].no)
    <3>1. e.no < v[k].no => 0 < k BY <1>13, <1>14, <1>15
    <3> QED BY <3>1, <1>17
  <2> QED BY <2>1, <2>2, <1>16, <1>19 DEF Noticed
<1>23. Lag(q, r, take) = 0
  <2>1. q.cycles - r.prevCycles = 0 BY <1>11, <1>18, <1>19
  <2>2. 0 * Capacity = 0 OBVIOUS
  <2> QED BY <2>1, <2>2, <1>19 DEF Lag
<1>24. Live(r, 0, v, n, w2)
  <2>1. Within(c, take, 0, n) /\ Within(take, take, 0, n) /\ Within(NONE, take, 0, n)
    BY <1>13, <1>17 DEF Within
  <2>2. Means(take, take, 0, v, e) /\ Means(NONE, take, 0, v, w2.last)
    BY <1>13, <1>14 DEF Means
  <2>3. c >= 0 => Splits(v, n, e.no, 0, Distance(c, take))
    <3> HAVE c >= 0
    <3>1. \A k \in 0..(n - 1) : 0 + k >= 1 <=> e.no < v[k].no
      <4> TAKE k \in 0..(n - 1)
      <4>1. 0 < k <=> e.no < v[k].no BY <1>13, <1>14, <1>15
      <4> QED BY <4>1
    <3>2. Splits(v, n, e.no, 0, 1) BY <3>1 DEF Splits
    <3> QED BY <3>2, <1>17
  <2>4. \A k \in 0..(n - 1) : ~(0 + k >= Capacity) OBVIOUS
  <2> QED BY <2>1, <2>2, <2>3, <2>4, <1>19 DEF Live, Before
<1>26. Loose(u, take, v, n, sn2, ser)
  <2>1. Own(r, sn2[i], ser) /\ Complete(r, v, n, sn2[i]) BY <1>5, <1>21, <1>22
  <2>2. i \in q.tracked /\ n > 0 /\ Live(r, Lag(q, r, take), v, n, sn2[i])
    BY <1>5, <1>7, <1>11, <1>23, <1>24
  <2> QED BY <2>1, <2>2, <1>5, <1>12, <1>19, LooseSet
<1> QED BY <1>5, <1>26, SweepGood

\* The entry returned last is forgotten.
Forgot(it, e) == [it EXCEPT !.lastRet = NONE, !.lastItem = e]

\* remove() forgets what it is to remove.
LEMMA ForgetGood ==
  ASSUME NEW s, NEW take \in Slots, NEW v, NEW n \in 0..Capacity, NEW sn \in [Iterators -> SeenType],
         NEW ser \in Nat, Good(s, take, v, n, sn, ser), NEW i \in Iterators,
         NEW it, it = Itr(s, i), NEW e \in Entries \cup {Null}, NEW r, r = Forgot(it, e),
         NEW q, q = WithItr(s, i, r)
  PROVE  Good(q, take, v, n, sn, ser) /\ q.it[i].lastRet < 0
<1>1. Loose(s, take, v, n, sn, ser) /\ s \in ItrsType /\ it = s.it[i] BY DEF Good, Loose, Itr
<1>2. PICK w \in SeenType : w = sn[i] OBVIOUS
<1>3. it \in ItrType /\ Own(it, w, ser) /\ Complete(it, v, n, w) BY <1>1, <1>2, GoodItr
<1>4. NONE \in Slots \cup {NONE, REMOVED} OBVIOUS
<1>5. r \in ItrType BY <1>3, <1>4, ZenonT(30) DEF ItrType, Forgot
<1>6. /\ r.lastRet = NONE /\ r.lastItem = e /\ r.cursor = it.cursor /\ r.nextIndex = it.nextIndex
      /\ r.nextItem = it.nextItem /\ r.prevTakeIndex = it.prevTakeIndex /\ r.prevCycles = it.prevCycles
  BY <1>3 DEF ItrType, Forgot
<1>7. IsDetached(r) <=> IsDetached(it) BY <1>6 DEF IsDetached
<1>8. Own(r, w, ser) BY <1>3, <1>6, <1>7 DEF Own
<1>9. Complete(r, v, n, w) BY <1>3, <1>6 DEF Complete, Noticed
<1>10. ASSUME ~IsDetached(r) PROVE Live(r, Lag(s, r, take), v, n, w)
  <2>1. PICK lag \in Nat : lag = Lag(s, it, take) BY <1>1, <1>7, <1>10, GoodItr
  <2>2. Lag(s, r, take) = lag BY <2>1, <1>6 DEF Lag
  <2>3. Live(it, lag, v, n, w)
    <3>1. ~IsDetached(s.it[i]) BY <1>1, <1>7, <1>10
    <3>2. Live(s.it[i], Lag(s, s.it[i], take), v, n, sn[i]) BY <3>1, <1>1, GoodItr
    <3> QED BY <3>2, <2>1, <1>1, <1>2
  <2>4. Within(NONE, it.prevTakeIndex, lag, n) /\ Means(NONE, it.prevTakeIndex, lag, v, w.last)
    BY DEF Within, Means
  <2>5. Live(r, lag, v, n, w)
    <3>1. Before(r, lag, v, n) BY <2>3, <1>6 DEF Live, Before
    <3> QED BY <2>3, <2>4, <3>1, <1>6 DEF Live
  <2> QED BY <2>2, <2>5
<1>11. Good(q, take, v, n, sn, ser) /\ q.it[i] = r
  <2>1. /\ Own(r, sn[i], ser) /\ Complete(r, v, n, sn[i]) /\ (IsDetached(r) <=> IsDetached(s.it[i]))
        /\ ~IsDetached(r) => Live(r, Lag(s, r, take), v, n, sn[i])
    BY <1>1, <1>2, <1>7, <1>8, <1>9, <1>10
  <2> QED BY <2>1, <1>5, GoodSet
<1> QED BY <1>6, <1>11

\* An iterator that forgot the entry returned last, and has none to return, is detached.
LEMMA DoneGood ==
  ASSUME NEW s, NEW take \in Slots, NEW v, NEW n \in 0..Capacity, NEW sn \in [Iterators -> SeenType],
         NEW ser \in Nat, Good(s, take, v, n, sn, ser), NEW i \in Iterators,
         s.it[i].lastRet < 0, s.it[i].cursor < 0, s.it[i].nextIndex < 0
  PROVE  Good(Detach(s, i), take, v, n, sn, ser)
<1>1. CASE IsDetached(s.it[i]) BY <1>1 DEF Detach
<1>2. CASE ~IsDetached(s.it[i])
  <2>1. Loose(s, take, v, n, sn, ser) /\ s \in ItrsType BY DEF Good, Loose
  <2>2. PICK r \in ItrType : r = s.it[i] BY <2>1, GoodItr
  <2>3. Own(r, sn[i], ser) /\ Complete(r, v, n, sn[i]) BY <2>1, <2>2, GoodItr
  <2>4. r.lastRet \in Int BY ItrFacts
  <2>5. ~(r.lastRet >= 0) /\ r.cursor < 0 /\ r.nextIndex < 0 /\ ~IsDetached(r) BY <2>2, <2>4, <1>2
  <2>6. s = WithItr(s, i, r) BY <2>1, <2>2 DEF WithItr, ItrsType
  <2> QED BY <2>1, <2>3, <2>5, <2>6, DetachGood
<1> QED BY <1>1, <1>2

-----------------------------------------------------------------------------
(* The queue with its iterators.                                           *)

\* The order of the entries, when one is added, some are dequeued, or one is taken out.
LEMMA SortedMore ==
  ASSUME NEW n \in Nat, NEW v, NEW v2, NEW ser \in Nat, Sorted(v, n, ser),
         \A k \in 0..(n - 1) : v[k].no \in Nat, v2[n].no = ser, \A k \in 0..(n - 1) : v2[k] = v[k]
  PROVE  Sorted(v2, n + 1, ser + 1)
<1> SUFFICES ASSUME NEW k \in 0..((n + 1) - 1)
             PROVE  v2[k].no < ser + 1 /\ \A j \in 0..(k - 1) : v2[j].no < v2[k].no
  BY DEF Sorted
<1>1. CASE k = n
  <2>1. ASSUME NEW j \in 0..(k - 1) PROVE v2[j].no < v2[k].no
    <3>1. j \in 0..(n - 1) BY <1>1
    <3>2. v2[j] = v[j] /\ v[j].no < ser BY <3>1 DEF Sorted
    <3> QED BY <3>2, <1>1
  <2> QED BY <2>1, <1>1
<1>2. CASE k \in 0..(n - 1)
  <2>1. v2[k] = v[k] /\ v[k].no < ser /\ v[k].no \in Nat BY <1>2 DEF Sorted
  <2>2. ASSUME NEW j \in 0..(k - 1) PROVE v2[j].no < v2[k].no
    <3>1. j \in 0..(n - 1) BY <1>2
    <3>2. v2[j] = v[j] /\ v[j].no < v[k].no BY <3>1, <1>2 DEF Sorted
    <3> QED BY <3>2, <2>1
  <2> QED BY <2>1, <2>2
<1> QED BY <1>1, <1>2

LEMMA SortedLess ==
  ASSUME NEW n \in Nat, NEW m \in 0..n, NEW v, NEW v2, NEW ser \in Nat, Sorted(v, n, ser),
         \A k \in 0..((n - m) - 1) : v2[k] = v[k + m]
  PROVE  Sorted(v2, n - m, ser)
<1> SUFFICES ASSUME NEW k \in 0..((n - m) - 1)
             PROVE  v2[k].no < ser /\ \A j \in 0..(k - 1) : v2[j].no < v2[k].no
  BY DEF Sorted
<1>1. k + m \in 0..(n - 1) /\ v2[k] = v[k + m] OBVIOUS
<1>2. ASSUME NEW j \in 0..(k - 1) PROVE v2[j].no < v2[k].no
  <2>1. j \in 0..((n - m) - 1) /\ j + m \in 0..((k + m) - 1) OBVIOUS
  <2>2. v2[j] = v[j + m] BY <2>1
  <2>3. v[j + m].no < v[k + m].no BY <2>1, <1>1 DEF Sorted
  <2> QED BY <2>2, <2>3, <1>1
<1>3. v[k + m].no < ser BY <1>1 DEF Sorted
<1> QED BY <1>1, <1>2, <1>3

LEMMA SortedClosed ==
  ASSUME NEW n \in Nat, NEW q \in 0..(n - 1), NEW v, NEW v2, NEW ser \in Nat, Sorted(v, n, ser),
         ClosedUp(v, v2, n, q)
  PROVE  Sorted(v2, n - 1, ser)
<1> DEFINE up(k) == IF k < q THEN k ELSE k + 1
<1>1. \A k \in 0..((n - 1) - 1) : up(k) \in 0..(n - 1) /\ v2[up(k)] = v2[up(k)] /\ v2[k] = v[up(k)]
  BY DEF ClosedUp
<1>2. \A j, k \in 0..((n - 1) - 1) : j < k => up(j) \in 0..(up(k) - 1) OBVIOUS
<1> HIDE DEF up
<1> SUFFICES ASSUME NEW k \in 0..((n - 1) - 1)
             PROVE  v2[k].no < ser /\ \A j \in 0..(k - 1) : v2[j].no < v2[k].no
  BY DEF Sorted
<1>3. v2[k] = v[up(k)] /\ up(k) \in 0..(n - 1) BY <1>1
<1>4. ASSUME NEW j \in 0..(k - 1) PROVE v2[j].no < v2[k].no
  <2>1. j \in 0..((n - 1) - 1) /\ j < k OBVIOUS
  <2>2. v2[j] = v[up(j)] /\ up(j) \in 0..(up(k) - 1) BY <2>1, <1>1, <1>2
  <2>3. v[up(j)].no < v[up(k)].no BY <2>2, <1>3 DEF Sorted
  <2> QED BY <2>2, <2>3, <1>3
<1>5. v[up(k)].no < ser BY <1>3 DEF Sorted
<1> QED BY <1>3, <1>4, <1>5

\* The queue as the iterators see it.
LEMMA ViewFacts ==
  ASSUME Array, Ring
  PROVE  /\ View \in [0..(count - 1) -> Entries] /\ Entered(View, items, takeIndex, count)
         /\ \A k \in 0..(count - 1) :
              View[k] = items[At(takeIndex, k)] /\ View[k] \in Entries /\ View[k].no \in Nat
<1>1. \A k \in 0..(count - 1) : View[k] = items[At(takeIndex, k)] BY DEF View
<1>2. \A k \in 0..(count - 1) : items[At(takeIndex, k)] \in Entries BY OccupiedFacts
<1>3. View \in [0..(count - 1) -> Entries] BY <1>2 DEF View
<1>4. Entered(View, items, takeIndex, count) BY <1>1 DEF Entered
<1> QED BY <1>1, <1>2, <1>3, <1>4, EntryFacts

LEMMA NextView == \A k \in 0..(count' - 1) : View'[k] = items'[At(takeIndex', k)]
BY DEF View

\* The entries by places, when a slot is filled, slots are emptied, or one is closed up.
LEMMA FillView ==
  ASSUME Array, Ring, NEW e \in Elements, Fill(e)
  PROVE  View'[count].no = serial /\ \A k \in 0..(count - 1) : View'[k] = View[k]
<1>1. count \in 0..Capacity /\ count' = count + 1 /\ takeIndex' = takeIndex BY DEF Array, Fill
<1>2. \A k \in 0..(count - 1) : View'[k] = View[k]
  <2> TAKE k \in 0..(count - 1)
  <2>1. k \in 0..(count' - 1) BY <1>1
  <2>2. View'[k] = items'[At(takeIndex, k)] BY <2>1, <1>1, NextView
  <2>3. View[k] = items[At(takeIndex, k)] BY ViewFacts
  <2>4. At(takeIndex, k) \in Occupied BY OccupiedFacts
  <2> QED BY <2>2, <2>3, <2>4, FillRing
<1>3. View'[count].no = serial
  <2>1. count \in 0..(count' - 1) BY <1>1
  <2>2. View'[count] = items'[At(takeIndex, count)] BY <2>1, <1>1, NextView
  <2>3. At(takeIndex, count) = putIndex BY OccupiedFacts
  <2> QED BY <2>2, <2>3, FillRing
<1> QED BY <1>2, <1>3

LEMMA VacateView ==
  ASSUME Array, Ring, NEW n \in 0..count, Vacate(n)
  PROVE  \A k \in 0..((count - n) - 1) : View'[k] = View[k + n]
<1>1. takeIndex \in Slots /\ count \in 0..Capacity BY DEF Array
<1>2. takeIndex' = At(takeIndex, n) /\ count' = count - n BY VacateRing
<1> TAKE k \in 0..((count - n) - 1)
<1>3. k \in 0..(count' - 1) BY <1>2
<1>4. /\ k + n = n + k /\ k \in 0..Capacity /\ n \in 0..Capacity /\ n + k <= Capacity
      /\ n + k \in n..(count - 1) /\ n + k \in 0..(count - 1)
  BY <1>1
<1>5. View'[k] = items'[At(takeIndex', k)] BY <1>3, NextView
<1>6. At(takeIndex', k) = At(takeIndex, n + k) BY <1>1, <1>2, <1>4, AtFacts
<1>7. items'[At(takeIndex, n + k)] = items[At(takeIndex, n + k)] BY <1>4, VacateRing
<1>8. View[n + k] = items[At(takeIndex, n + k)] BY <1>4, ViewFacts
<1> QED BY <1>4, <1>5, <1>6, <1>7, <1>8

LEMMA CloseView ==
  ASSUME Array, Ring, NEW q \in 1..(count - 1), Close(q)
  PROVE  ClosedUp(View, View', count, q)
<1>1. count \in 0..Capacity /\ count' = count - 1 /\ takeIndex' = takeIndex BY DEF Array, Close
<1> SUFFICES ASSUME NEW k \in 0..((count - 1) - 1)
             PROVE  View'[k] = IF k < q THEN View[k] ELSE View[k + 1]
  BY DEF ClosedUp
<1>2. k \in 0..(count' - 1) /\ k \in 0..(count - 1) /\ k + 1 \in 0..(count - 1) BY <1>1
<1>3. View'[k] = items'[At(takeIndex, k)] BY <1>1, <1>2, NextView
<1>4. View[k] = items[At(takeIndex, k)] /\ View[k + 1] = items[At(takeIndex, k + 1)]
  BY <1>2, ViewFacts
<1>5. items'[At(takeIndex, k)] = items[IF k < q THEN At(takeIndex, k) ELSE At(takeIndex, k + 1)]
  BY CloseRing
<1> QED BY <1>3, <1>4, <1>5

\* Being told of dequeues does not bring back what an iterator is to remove.
LEMMA ToldForgotten ==
  ASSUME NEW s \in ItrsType, NEW take, NEW m, NEW u, u = Told(s, take, m)
  PROVE  \A i \in Iterators : s.it[i].lastRet < 0 => u.it[i].lastRet < 0
<1>1. CASE u = s BY <1>1
<1>2. CASE u = TakeIndexWrapped(s)
  <2>1. PICK c : c = s.cycles + 1 OBVIOUS
  <2>2. PICK f : f = [i \in Iterators |->
                        IF i \in s.tracked THEN ItrTakeIndexWrapped(s.it[i], c) ELSE s.it[i]]
    OBVIOUS
  <2>3. PICK x : x = [s EXCEPT !.cycles = c, !.it = f] OBVIOUS
  <2>4. u = Sweep(x) BY <1>2, <2>1, <2>2, <2>3 DEF TakeIndexWrapped
  <2>5. x.it = f /\ u.it = x.it BY <2>3, <2>4 DEF ItrsType, Sweep, Track
  <2>6. ASSUME NEW i \in Iterators, s.it[i].lastRet < 0 PROVE f[i].lastRet < 0
    <3>1. PICK it \in ItrType : it = s.it[i] BY ItrsFacts
    <3>2. ShutdownItr(it).lastRet = IF it.lastRet >= 0 THEN REMOVED ELSE it.lastRet
      BY DEF ShutdownItr, ItrType
    <3>3. it.lastRet < 0 /\ it.lastRet \in Int BY <2>6, <3>1, ItrFacts
    <3>4. ShutdownItr(it).lastRet < 0 BY <3>2, <3>3
    <3>5. f[i] = it \/ f[i] = ShutdownItr(it) BY <2>2, <3>1 DEF ItrTakeIndexWrapped
    <3> QED BY <3>3, <3>4, <3>5
  <2> QED BY <2>5, <2>6
<1> QED BY <1>1, <1>2 DEF Told

\* n entries are dequeued, and the iterators s told.
LEMMA VacateGood ==
  ASSUME Array, Ring, NEW sn \in [Iterators -> SeenType],
         NEW s, Good(s, takeIndex, View, count, sn, serial),
         NEW n \in 1..count, Vacate(n),
         NEW u, count = n => u = QueueIsEmpty(s), count # n => u = Told(s, takeIndex, n)
  PROVE  /\ Good(u, takeIndex', View', count', sn, serial)
         /\ \A i \in Iterators : s.it[i].lastRet < 0 => u.it[i].lastRet < 0
<1>1. takeIndex \in Slots /\ count \in 0..Capacity /\ serial \in Nat BY DEF Array
<1>2. takeIndex' = At(takeIndex, n) /\ count' = count - n BY VacateRing
<1>3. CASE count = n
  <2>1. count' = 0 BY <1>1, <1>2, <1>3
  <2>2. u = QueueIsEmpty(s) BY <1>3
  <2>3. PICK v2 : v2 = View' OBVIOUS
  <2>4. PICK t2 : t2 = takeIndex' OBVIOUS
  <2>5. /\ Good(QueueIsEmpty(s), t2, v2, 0, sn, serial)
        /\ \A i \in Iterators : s.it[i].lastRet < 0 => QueueIsEmpty(s).it[i].lastRet < 0
    BY <1>1, EmptyGood
  <2> QED BY <2>1, <2>2, <2>3, <2>4, <2>5
<1>4. CASE count # n
  <2>1. u = Told(s, takeIndex, n) BY <1>4
  <2>2. PICK v2 : v2 = View' OBVIOUS
  <2>3. PICK t2 : t2 = takeIndex' OBVIOUS
  <2>4a. t2 = At(takeIndex, n) BY <1>2, <2>3
  <2>4b. count \in 1..Capacity BY <1>1
  <2>4c. n # count BY <1>4
  <2>5. \A k \in 0..((count - n) - 1) : v2[k] = View[k + n]
    <3>1. n \in 0..count BY <1>1
    <3> QED BY <3>1, <2>2, VacateView
  <2>6. Good(u, t2, v2, count - n, sn, serial) BY <1>1, <2>1, <2>4a, <2>4b, <2>4c, <2>5, DequeuedGood
  <2>7. \A i \in Iterators : s.it[i].lastRet < 0 => u.it[i].lastRet < 0
    <3>1. s \in ItrsType BY DEF Good, Loose
    <3> QED BY <2>1, <3>1, ToldForgotten
  <2> QED BY <1>2, <2>2, <2>3, <2>6, <2>7
<1> QED BY <1>3, <1>4

LEMMA FrontGood ==
  ASSUME Array, Ring, NEW sn \in [Iterators -> SeenType],
         NEW s, Good(s, takeIndex, View, count, sn, serial), count > 0, RemoveFront,
         NEW u, u = ElementDequeued(s, Inc(takeIndex), count - 1)
  PROVE  /\ Good(u, takeIndex', View', count', sn, serial)
         /\ \A i \in Iterators : s.it[i].lastRet < 0 => u.it[i].lastRet < 0
<1>1. takeIndex \in Slots /\ count \in 0..Capacity BY DEF Array
<1>2. Vacate(1) /\ 1 \in 1..count BY RemoveFrontVacates
<1>3. count = 1 => u = QueueIsEmpty(s) BY DEF ElementDequeued
<1>4. count # 1 => u = Told(s, takeIndex, 1)
  <2>1. count # 1 => count - 1 # 0 BY <1>1
  <2>2. Inc(takeIndex) = 0 <=> takeIndex + 1 >= Capacity BY <1>1 DEF Inc
  <2> QED BY <2>1, <2>2 DEF ElementDequeued, Told
<1> QED BY <1>2, <1>3, <1>4, VacateGood

\* Slot r is removed, and the iterators s told.
LEMMA TellRemovedGood ==
  ASSUME Array, Ring, NEW sn \in [Iterators -> SeenType],
         NEW s, Good(s, takeIndex, View, count, sn, serial),
         NEW p \in 0..(count - 1), RemoveAt(At(takeIndex, p)),
         NEW u, u = TellRemoved(s, At(takeIndex, p))
  PROVE  /\ Good(u, takeIndex', View', count', sn, serial)
         /\ \A i \in Iterators : s.it[i].lastRet < 0 => u.it[i].lastRet < 0
<1>1. takeIndex \in Slots /\ count \in 0..Capacity /\ serial \in Nat BY DEF Array
<1>2. CASE p = 0
  <2>1. At(takeIndex, p) = takeIndex /\ RemoveFront /\ count > 0 BY <1>1, <1>2, RemoveAtRing
  <2>2. u = ElementDequeued(s, Inc(takeIndex), count - 1) BY <2>1 DEF TellRemoved
  <2> QED BY <2>1, <2>2, FrontGood
<1>3. CASE p # 0
  <2>1. At(takeIndex, p) # takeIndex /\ p \in 1..(count - 1) /\ Close(p) BY <1>3, RemoveAtRing
  <2>2. Last = At(takeIndex, count - 1) BY <2>1, CloseRing
  <2>3. u = RemovedAt(s, At(takeIndex, p), takeIndex, At(takeIndex, count - 1))
    BY <2>1, <2>2 DEF TellRemoved
  <2>4. PICK v2 : v2 = View' OBVIOUS
  <2>5. ClosedUp(View, v2, count, p) BY <2>1, <2>4, CloseView
  <2>6. count \in 1..Capacity BY <2>1, <1>1
  <2>7. View \in [0..(count - 1) -> Entries] BY ViewFacts
  <2>8. Good(u, takeIndex, v2, count - 1, sn, serial)
    BY <1>1, <2>1, <2>3, <2>5, <2>6, <2>7, RemovedGood
  <2>9. \A i \in Iterators : s.it[i].lastRet < 0 => u.it[i].lastRet < 0
    BY <1>1, <2>1, <2>3, <2>5, <2>6, <2>7, <2>8, RemovedGood
  <2>10. takeIndex' = takeIndex /\ count' = count - 1 BY <2>1 DEF Close
  <2> QED BY <2>4, <2>8, <2>9, <2>10
<1> QED BY <1>2, <1>3

LEMMA TellRemovedSorted ==
  ASSUME Array, Ring, Sorted(View, count, serial),
         NEW p \in 0..(count - 1), RemoveAt(At(takeIndex, p))
  PROVE  Sorted(View', count', serial)
<1>1. takeIndex \in Slots /\ count \in 0..Capacity /\ serial \in Nat BY DEF Array
<1>2. PICK v2 : v2 = View' OBVIOUS
<1>3. CASE p = 0
  <2>1. Vacate(1) /\ 1 \in 0..count BY <1>1, <1>3, RemoveAtRing
  <2>2. \A k \in 0..((count - 1) - 1) : v2[k] = View[k + 1] BY <2>1, <1>2, VacateView
  <2>3. count \in Nat /\ 1 \in 0..count BY <2>1, <1>1
  <2>4. Sorted(v2, count - 1, serial) BY <2>2, <2>3, <1>1, SortedLess
  <2> QED BY <2>1, <2>4, <1>2 DEF Vacate
<1>4. CASE p # 0
  <2>1. p \in 1..(count - 1) /\ Close(p) BY <1>4, RemoveAtRing
  <2>2. ClosedUp(View, v2, count, p) BY <2>1, <1>2, CloseView
  <2>3. Sorted(v2, count - 1, serial) BY <2>2, <1>1, SortedClosed
  <2> QED BY <2>1, <2>3, <1>2 DEF Close
<1> QED BY <1>3, <1>4

\* The queue and its iterators.
Watched ==
  /\ Array /\ Ring
  /\ Iterators # {} => Sorted(View, count, serial)
  /\ seen \in [Iterators -> SeenType]
  /\ Good(itrs, takeIndex, View, count, seen, serial)

LEMMA NoIterators ==
  ASSUME Iterators = {}, NEW s \in ItrsType, NEW take, NEW v, NEW n, NEW sn, NEW ser
  PROVE  Good(s, take, v, n, sn, ser)
<1>1. s.tracked = {} BY ItrsFacts
<1> QED BY <1>1 DEF Good, Loose

LEMMA GoodTyped ==
  ASSUME NEW s, NEW take, NEW v, NEW n, NEW sn, NEW ser, Good(s, take, v, n, sn, ser)
  PROVE  s \in ItrsType
BY DEF Good, Loose

\* Steps that leave the array and the iterators alone.
LEMMA WatchedSame ==
  ASSUME Watched, UNCHANGED <<array, itrs, seen>>
  PROVE  Watched'
<1>1. View' = View BY DEF View, array
<1>2. Array' BY DEF Watched, Array, array
<1>3. Ring' BY SlotIsAt DEF Watched, Ring, array, Occupied
<1>4. (Iterators # {} => Sorted(View, count, serial))' BY <1>1 DEF Watched, array
<1>5. Good(itrs', takeIndex', View', count', seen', serial') BY <1>1 DEF Watched, array
<1> QED BY <1>2, <1>3, <1>4, <1>5 DEF Watched

\* Enqueueing and dequeueing.
LEMMA EnqueueWatched ==
  ASSUME Watched, NEW e \in Elements, count < Capacity, Enqueue(e), UNCHANGED <<itrs, seen>>
  PROVE  Watched'
<1>1. CASE e \in keys BY <1>1, WatchedSame DEF Enqueue
<1>2. CASE e \notin keys
  <2>1. Array /\ Ring /\ serial \in Nat /\ takeIndex \in Slots /\ count \in 0..Capacity
    BY DEF Watched, Array
  <2>2. serial' \in Nat BY <1>2, <2>1 DEF Enqueue
  <2>3. Fill(e) BY <1>2, <2>2 DEF Enqueue, Fill
  <2>4. Array' /\ Ring' BY <2>1, <2>3, FillRing
  <2>5. PICK v2 : v2 = View' OBVIOUS
  <2>6. v2[count].no = serial /\ \A k \in 0..(count - 1) : v2[k] = View[k]
    BY <2>1, <2>3, <2>5, FillView
  <2>7. CASE Iterators = {}
    <3>1. itrs' \in ItrsType BY GoodTyped DEF Watched
    <3>2. Good(itrs', takeIndex', View', count', seen', serial') BY <2>7, <3>1, NoIterators
    <3>3. seen' \in [Iterators -> SeenType] BY DEF Watched
    <3> QED BY <2>4, <2>7, <3>2, <3>3 DEF Watched
  <2>8. CASE Iterators # {}
    <3>1. serial' = serial + 1 /\ count' = count + 1 /\ takeIndex' = takeIndex
      BY <1>2, <2>8 DEF Enqueue
    <3>2. \A k \in 0..(count - 1) : View[k].no \in Nat BY <2>1, ViewFacts
    <3>3. count \in Nat BY <2>1
    <3>4. Sorted(v2, count + 1, serial + 1)
      BY <2>1, <2>6, <2>8, <3>2, <3>3, SortedMore DEF Watched
    <3>5. Good(itrs, takeIndex, v2, count + 1, seen, serial + 1)
      <4>1. Good(itrs, takeIndex, View, count, seen, serial) /\ seen \in [Iterators -> SeenType]
        BY DEF Watched
      <4> QED BY <4>1, <2>1, <2>6, <3>3, EnqueuedGood
    <3> QED BY <2>4, <2>5, <3>1, <3>4, <3>5 DEF Watched
  <2> QED BY <2>7, <2>8
<1> QED BY <1>1, <1>2

LEMMA VacateWatched ==
  ASSUME Watched, NEW n \in 1..count, Vacate(n),
         count = n => itrs' = QueueIsEmpty(itrs), count # n => itrs' = Told(itrs, takeIndex, n),
         seen' = seen
  PROVE  Watched'
<1>1. Array /\ Ring /\ serial \in Nat /\ count \in 0..Capacity BY DEF Watched, Array
<1>2. n \in 0..count BY <1>1
<1>3. Array' /\ Ring' /\ count' = count - n BY <1>1, <1>2, VacateRing
<1>4. serial' = serial BY DEF Vacate
<1>5. PICK u : u = itrs' OBVIOUS
<1>6. Good(u, takeIndex', View', count', seen, serial) BY <1>1, <1>5, VacateGood DEF Watched
<1>7. ASSUME Iterators # {} PROVE Sorted(View', count', serial')
  <2>1. PICK v2 : v2 = View' OBVIOUS
  <2>2. \A k \in 0..((count - n) - 1) : v2[k] = View[k + n] BY <1>1, <1>2, <2>1, VacateView
  <2>3. Sorted(View, count, serial) /\ count \in Nat BY <1>1, <1>7 DEF Watched
  <2>4. Sorted(v2, count - n, serial) BY <1>1, <1>2, <2>2, <2>3, SortedLess
  <2> QED BY <2>1, <2>4, <1>3, <1>4
<1> QED BY <1>3, <1>4, <1>5, <1>6, <1>7 DEF Watched

LEMMA DequeueWatched ==
  ASSUME Watched, count > 0, Dequeue, seen' = seen
  PROVE  Watched'
<1>1. Array /\ Ring /\ serial \in Nat /\ takeIndex \in Slots /\ count \in 0..Capacity
  BY DEF Watched, Array
<1>2. RemoveFront /\ itrs' = ElementDequeued(itrs, Inc(takeIndex), count - 1) BY DEF Dequeue
<1>3. Vacate(1) /\ 1 \in 1..count BY <1>1, <1>2, RemoveFrontVacates
<1>4. count = 1 => itrs' = QueueIsEmpty(itrs) BY <1>2 DEF ElementDequeued
<1>5. count # 1 => itrs' = Told(itrs, takeIndex, 1)
  <2>1. count # 1 => count - 1 # 0 BY <1>1
  <2>2. Inc(takeIndex) = 0 <=> takeIndex + 1 >= Capacity BY <1>1 DEF Inc
  <2> QED BY <2>1, <2>2, <1>2 DEF ElementDequeued, Told
<1> QED BY <1>3, <1>4, <1>5, VacateWatched

LEMMA ClearWatched == ASSUME Watched, Clear PROVE Watched'
<1>1. Array /\ Ring /\ serial \in Nat /\ takeIndex \in Slots /\ count \in 0..Capacity
  BY DEF Watched, Array
<1>2. Vacate(count) BY <1>1, ClearVacates
<1>3. takeIndex' = SlotAt(count) BY <1>1 DEF Clear, Ring
<1>7. CASE count > 0
  <2>1. count \in 1..count /\ itrs' = QueueIsEmpty(itrs) /\ seen' = seen BY <1>1, <1>7 DEF Clear
  <2> QED BY <2>1, <1>2, VacateWatched
<1>8. CASE count = 0
  <2>1. takeIndex' = takeIndex
    <3>1. At(takeIndex, 0) = takeIndex BY <1>1, AtFacts
    <3> QED BY <3>1, <1>3, <1>8, SlotIsAt
  <2>2. count' = count BY <1>8 DEF Clear
  <2>3. items' = items
    <3>1. Front(count) = {} BY <1>8 DEF Front
    <3> QED BY <3>1, <1>1, <1>2 DEF Array, Vacate
  <2>4. UNCHANGED <<putIndex, serial, itrs, seen>> BY <1>8 DEF Clear
  <2>5. View' = View BY <2>1, <2>2, <2>3 DEF View
  <2>6. Array' BY <2>1, <2>2, <2>3, <2>4, <1>1 DEF Array, Clear
  <2>7. Ring' BY <2>1, <2>2, <2>3, <2>4, <1>1, SlotIsAt DEF Ring, Occupied
  <2> QED BY <2>1, <2>2, <2>4, <2>5, <2>6, <2>7 DEF Watched
<1> QED BY <1>1, <1>7, <1>8

LEMMA DrainToWatched == ASSUME Watched, NEW n \in 1..Capacity, DrainTo(n) PROVE Watched'
<1>1. Array /\ Ring /\ takeIndex \in Slots /\ count \in 0..Capacity BY DEF Watched, Array
<1>2. Vacate(n) /\ n \in 1..count BY <1>1, DrainToVacates
<1>3. n > SlotAt(n) <=> takeIndex + n >= Capacity BY <1>1 DEF SlotAt
<1>4. count = n => itrs' = QueueIsEmpty(itrs) BY DEF DrainTo
<1>5. count # n => itrs' = Told(itrs, takeIndex, n) BY <1>3 DEF DrainTo, Told
<1>6. seen' = seen BY DEF DrainTo
<1> QED BY <1>2, <1>4, <1>5, <1>6, VacateWatched

\* remove(e), one step after the other.
LEMMA RemoveKeyWatched ==
  ASSUME Watched, keys' \in SUBSET Elements,
         UNCHANGED <<items, takeIndex, putIndex, count, serial, itrs, seen>>
  PROVE  Watched'
<1>1. View' = View BY DEF View
<1>2. Array' BY DEF Watched, Array
<1>3. Ring' BY SlotIsAt DEF Watched, Ring, Occupied
<1> QED BY <1>1, <1>2, <1>3 DEF Watched

LEMMA RemoveAtWatched ==
  ASSUME Watched, NEW s, Good(s, takeIndex, View, count, seen, serial),
         NEW p \in 0..(count - 1), RemoveAt(At(takeIndex, p)), seen' = seen,
         Good(itrs', takeIndex', View', count', seen, serial)
  PROVE  Watched'
<1>1. Array /\ Ring BY DEF Watched
<1>2. Array' /\ Ring' /\ serial' = serial BY <1>1, RemoveAtRing
<1>3. Iterators # {} => Sorted(View', count', serial) BY <1>1, TellRemovedSorted DEF Watched
<1> QED BY <1>2, <1>3 DEF Watched

LEMMA RemoveWatched == ASSUME Watched, NEW t \in Threads, Remove(t) PROVE Watched'
<1>1. Array /\ Ring BY DEF Watched
<1>2. seen' = seen BY DEF Remove
<1>3. CASE UNCHANGED <<array, itrs>> BY <1>2, <1>3, WatchedSame
<1>4. CASE \E r \in Occupied : RemoveAt(r) /\ itrs' = TellRemoved(itrs, r)
  <2>1. PICK r \in Occupied : RemoveAt(r) /\ itrs' = TellRemoved(itrs, r) BY <1>4
  <2>2. PICK p \in 0..(count - 1) : r = At(takeIndex, p) BY <1>1, OccupiedFacts
  <2>3. PICK u : u = TellRemoved(itrs, At(takeIndex, p)) OBVIOUS
  <2>4. RemoveAt(At(takeIndex, p)) /\ itrs' = u BY <2>1, <2>2, <2>3
  <2>5. Good(itrs, takeIndex, View, count, seen, serial) /\ seen \in [Iterators -> SeenType]
    BY DEF Watched
  <2>6. Good(u, takeIndex', View', count', seen, serial)
    BY <2>3, <2>4, <2>5, <1>1, TellRemovedGood
  <2> QED BY <2>4, <2>5, <2>6, <1>2, RemoveAtWatched
<1> QED BY <1>3, <1>4 DEF Remove

\* Nothing but the iterators changes.
LEMMA ItrsWatched ==
  ASSUME Watched, UNCHANGED array, seen' \in [Iterators -> SeenType],
         Good(itrs', takeIndex, View, count, seen', serial)
  PROVE  Watched'
<1>1. View' = View BY DEF View, array
<1>2. Array' BY DEF Watched, Array, array
<1>3. Ring' BY SlotIsAt DEF Watched, Ring, array, Occupied
<1> QED BY <1>1, <1>2, <1>3 DEF Watched, array

LEMMA WatchedFacts ==
  ASSUME Watched
  PROVE  /\ takeIndex \in Slots /\ count \in 0..Capacity /\ serial \in Nat
         /\ seen \in [Iterators -> SeenType] /\ Good(itrs, takeIndex, View, count, seen, serial)
         /\ View \in [0..(count - 1) -> Entries] /\ Entered(View, items, takeIndex, count)
         /\ putIndex = At(takeIndex, count)
         /\ Iterators # {} => Sorted(View, count, serial)
BY ViewFacts, OccupiedFacts DEF Watched, Array

\* The iterators' own methods.
LEMMA OpenItrWatched == ASSUME Watched, NEW i \in Iterators, OpenItr(i) PROVE Watched'
<1>1. /\ takeIndex \in Slots /\ count \in 0..Capacity /\ serial \in Nat
      /\ seen \in [Iterators -> SeenType] /\ Good(itrs, takeIndex, View, count, seen, serial)
      /\ View \in [0..(count - 1) -> Entries] /\ Entered(View, items, takeIndex, count)
      /\ putIndex = At(takeIndex, count) /\ Sorted(View, count, serial)
  BY WatchedFacts
<1>2. PICK sn2 : sn2 = SeenOpen(seen, i, serial) OBVIOUS
<1>3. seen' = sn2
  <2>1. seen' = [seen EXCEPT ![i].open = TRUE, ![i].since = serial] BY DEF OpenItr
  <2>2. seen' = [seen EXCEPT ![i] = [seen[i] EXCEPT !.open = TRUE, !.since = serial]]
    BY <2>1, <1>1
  <2> QED BY <2>2, <1>2 DEF Opening, SeenOpen
<1>4. ~seen[i].open BY DEF OpenItr
<1>5. CASE count = 0
  <2>1. Good(itrs, takeIndex, View, 0, seen, serial) BY <1>1, <1>5
  <2>2. Good(itrs, takeIndex, View, 0, sn2, serial) /\ sn2 \in [Iterators -> SeenType]
    BY <2>1, <1>1, <1>2, <1>4, OpenEmpty
  <2>3. UNCHANGED <<array, itrs>> BY <1>5 DEF OpenItr
  <2> QED BY <2>2, <2>3, <1>3, <1>5, ItrsWatched
<1>6. CASE count # 0
  <2>1. PICK e : e = EntryAt(items, takeIndex) OBVIOUS
  <2>2. PICK c : c = Onward(takeIndex, putIndex) OBVIOUS
  <2>3. PICK r : r = Opened(takeIndex, e, c, itrs.cycles) OBVIOUS
  <2>4. PICK q : q = WithTracked(itrs, i) OBVIOUS
  <2>5. r = [NoItr EXCEPT !.prevTakeIndex = takeIndex, !.nextIndex = takeIndex,
                          !.nextItem = items[takeIndex], !.cursor = IncCursor(takeIndex),
                          !.prevCycles = itrs.cycles]
    BY <2>1, <2>2, <2>3 DEF Opened, EntryAt, Onward, IncCursor
  <2>6. itrs' = Sweep([itrs EXCEPT !.tracked = @ \cup {i}, !.it[i] = r])
    BY <2>5, <1>6 DEF OpenItr
  <2>7. PICK u : u = WithItr(q, i, r) OBVIOUS
  <2>7a. itrs' = Sweep(u) BY <2>4, <2>6, <2>7 DEF WithItr, WithTracked
  <2>8. count \in 1..Capacity BY <1>1, <1>6
  <2>9. PICK cycles : cycles = itrs.cycles OBVIOUS
  <2>10. PICK put : put = At(takeIndex, count) OBVIOUS
  <2>11. c = Onward(takeIndex, put) /\ r = Opened(takeIndex, e, c, cycles)
    BY <2>2, <2>3, <2>9, <2>10, <1>1
  <2>12. Good(Sweep(u), takeIndex, View, count, sn2, serial) /\ sn2 \in [Iterators -> SeenType]
    BY <1>1, <1>2, <1>4, <2>1, <2>4, <2>7, <2>8, <2>9, <2>10, <2>11, OpenGood
  <2>13. UNCHANGED array BY DEF OpenItr
  <2> QED BY <2>7a, <2>12, <2>13, <1>3, ItrsWatched
<1> QED BY <1>5, <1>6

LEMMA NextItemWatched == ASSUME Watched, NEW i \in Iterators, NextItem(i) PROVE Watched'
<1>1. /\ takeIndex \in Slots /\ count \in 0..Capacity /\ serial \in Nat
      /\ seen \in [Iterators -> SeenType] /\ Good(itrs, takeIndex, View, count, seen, serial)
      /\ View \in [0..(count - 1) -> Entries] /\ Entered(View, items, takeIndex, count)
      /\ putIndex = At(takeIndex, count) /\ Sorted(View, count, serial)
  BY WatchedFacts
<1>2. PICK q : q = CatchUp(itrs, i, takeIndex) OBVIOUS
<1>3. PICK it : it = Itr(q, i) OBVIOUS
<1>4. PICK x : x = NextAt(it) OBVIOUS
<1>5. PICK e : e = NextEntry(it, items) OBVIOUS
<1>6. PICK put : put = At(takeIndex, count) OBVIOUS
<1>7. PICK c : c = NextCursor(it, put) OBVIOUS
<1>8. PICK r : r = Advanced(it, x, e, c) OBVIOUS
<1>9. PICK u : u = WithItr(q, i, r) OBVIOUS
<1>9a. it \in ItrType /\ it.nextItem = itrs.it[i].nextItem /\ itrs.it[i].nextItem # Null
  <2>1. Good(q, takeIndex, View, count, seen, serial) BY <1>1, <1>2, CatchUpGood
  <2>2. Itr(q, i) \in ItrType BY <2>1, <1>1, <1>2, CatchUpGood
  <2>3. Itr(q, i).nextItem = Itr(itrs, i).nextItem BY <2>1, <1>1, <1>2, CatchUpGood
  <2> QED BY <2>2, <2>3, <1>3 DEF NextItem, Itr
<1>9b. PICK next \in Entries : next = it.nextItem BY <1>9a, ItrFacts
<1>9c. PICK sn2 : sn2 = SeenNext(seen, i, next) OBVIOUS
<1>10. Good(u, takeIndex, View, count, sn2, serial)
  BY <1>1, <1>2, <1>3, <1>4, <1>5, <1>6, <1>7, <1>8, <1>9, <1>9b, <1>9c, NextGood
<1>11. /\ sn2 \in [Iterators -> SeenType]
       /\ x \in Slots \cup {NONE} /\ e \in Entries \cup {Null} /\ c \in Slots \cup {NONE}
  BY <1>1, <1>2, <1>3, <1>4, <1>5, <1>6, <1>7, <1>8, <1>9, <1>9b, <1>9c, <1>10, NextGood
<1>12. seen' = sn2
  <2>1. seen' = [seen EXCEPT ![i].last = next] BY <1>9a, <1>9b DEF NextItem
  <2>2. seen' = [seen EXCEPT ![i] = [seen[i] EXCEPT !.last = next]] BY <2>1, <1>1
  <2> QED BY <2>2, <1>9c DEF Saw, SeenNext
<1>13. itrs' = u
  <2>1. q \in ItrsType
    <3>1. Good(q, takeIndex, View, count, seen, serial) BY <1>1, <1>2, CatchUpGood
    <3> QED BY <3>1, GoodTyped
  <2>2. it = q.it[i] BY <1>3 DEF Itr
  <2>3. itrs' = [q EXCEPT !.it[i].lastRet = q.it[i].nextIndex,
                          !.it[i].nextIndex = IF it.cursor >= 0 THEN it.cursor ELSE NONE,
                          !.it[i].nextItem = IF it.cursor >= 0 THEN items[it.cursor] ELSE Null,
                          !.it[i].cursor = IF it.cursor >= 0 THEN IncCursor(it.cursor) ELSE @]
    BY <1>2, <2>2 DEF NextItem
  <2>4. (IF it.cursor >= 0 THEN it.cursor ELSE NONE) = x BY <1>4 DEF NextAt
  <2>5. (IF it.cursor >= 0 THEN items[it.cursor] ELSE Null) = e BY <1>5 DEF NextEntry, EntryAt
  <2>6. (IF it.cursor >= 0 THEN IncCursor(it.cursor) ELSE it.cursor) = c
    BY <1>1, <1>6, <1>7 DEF NextCursor, Onward, IncCursor
  <2>7. itrs' = [q EXCEPT !.it[i].lastRet = q.it[i].nextIndex, !.it[i].nextIndex = x,
                          !.it[i].nextItem = e, !.it[i].cursor = c]
    BY <2>1, <2>2, <2>3, <2>4, <2>5, <2>6 DEF ItrsType, ItrType
  <2>8. AdvancedBy(q, i, x, e, c) = WithItr(q, i, Advanced(it, x, e, c))
    <3>1. it \in ItrType /\ q \in ItrsType BY <2>1, <1>9a
    <3>2. x \in Slots \cup {NONE} /\ e \in Entries \cup {Null} /\ c \in Slots \cup {NONE} BY <1>11
    <3> QED BY <3>1, <3>2, <2>2, AdvancedItrs
  <2> QED BY <2>7, <2>8, <1>8, <1>9 DEF AdvancedBy
<1>14. UNCHANGED array BY DEF NextItem
<1> QED BY <1>10, <1>11, <1>12, <1>13, <1>14, ItrsWatched

LEMMA HasNoNextWatched == ASSUME Watched, NEW i \in Iterators, HasNoNext(i) PROVE Watched'
<1>1. /\ takeIndex \in Slots /\ count \in 0..Capacity /\ serial \in Nat
      /\ seen \in [Iterators -> SeenType] /\ Good(itrs, takeIndex, View, count, seen, serial)
      /\ Entered(View, items, takeIndex, count)
  BY WatchedFacts
<1>2. PICK q : q = CatchUp(itrs, i, takeIndex) OBVIOUS
<1>3. Good(q, takeIndex, View, count, seen, serial) BY <1>1, <1>2, CatchUpGood
<1>4. Itr(itrs, i).nextItem = Null /\ ~IsDetached(Itr(itrs, i)) BY DEF HasNoNext, Itr
<1>5. UNCHANGED <<array, seen>> BY DEF HasNoNext
<1>6. CASE Itr(q, i).lastRet >= 0
  <2>1. itrs' = Detach([q EXCEPT !.it[i].lastItem = items[Itr(q, i).lastRet]], i)
    BY <1>2, <1>6 DEF HasNoNext, Itr
  <2>2. Good(Detach([q EXCEPT !.it[i].lastItem = items[Itr(q, i).lastRet]], i),
             takeIndex, View, count, seen, serial)
    BY <1>1, <1>2, <1>4, <1>6, HasNoNextGood
  <2> QED BY <2>1, <2>2, <1>1, <1>5, ItrsWatched
<1>7. CASE ~(Itr(q, i).lastRet >= 0)
  <2>1. itrs' = q BY <1>2, <1>7 DEF HasNoNext, Itr
  <2> QED BY <2>1, <1>1, <1>3, <1>5, ItrsWatched
<1> QED BY <1>6, <1>7

\* As Itr.remove() writes it.
ForgottenBy(s, i, e) == [s EXCEPT !.it[i].lastRet = NONE, !.it[i].lastItem = e]

LEMMA ForgottenItrs ==
  ASSUME NEW s \in ItrsType, NEW i \in Iterators, NEW it \in ItrType, it = s.it[i],
         NEW e \in Entries \cup {Null}
  PROVE  ForgottenBy(s, i, e) = WithItr(s, i, Forgot(it, e))
<1>1. PICK r1 : r1 = [it EXCEPT !.lastRet = NONE] OBVIOUS
<1>2. PICK r2 : r2 = [r1 EXCEPT !.lastItem = e] OBVIOUS
<1>3. NONE \in Slots \cup {NONE, REMOVED} OBVIOUS
<1>4. r1 \in ItrType BY <1>1, <1>3 DEF ItrType
<1>5. r2 = Forgot(it, e) BY <1>1, <1>2 DEF Forgot
<1>6. PICK s1 : s1 = WithItr(s, i, r1) OBVIOUS
<1>7. s1.it[i] = r1 BY <1>4, <1>6, WithItrTwice
<1>8. [s EXCEPT !.it[i].lastRet = NONE] = s1 BY <1>1, <1>6 DEF WithItr
<1>9. [s1 EXCEPT !.it[i].lastItem = e] = WithItr(s1, i, r2) BY <1>2, <1>7 DEF WithItr
<1>10. WithItr(s1, i, r2) = WithItr(s, i, r2) BY <1>4, <1>6, WithItrTwice
<1>11. [s EXCEPT !.it[i].lastRet = NONE, !.it[i].lastItem = e] = WithItr(s, i, r2)
  BY <1>8, <1>9, <1>10
<1> QED BY <1>5, <1>11 DEF ForgottenBy

\* The end of Itr.remove().
Finish(s, i) == IF s.it[i].cursor < 0 /\ s.it[i].nextIndex < 0 THEN Detach(s, i) ELSE s

LEMMA FinishGood ==
  ASSUME NEW s, NEW take \in Slots, NEW v, NEW n \in 0..Capacity, NEW sn \in [Iterators -> SeenType],
         NEW ser \in Nat, Good(s, take, v, n, sn, ser), NEW i \in Iterators,
         Itr(s, i).lastRet < 0, NEW u, u = Finish(s, i)
  PROVE  Good(u, take, v, n, sn, ser)
<1>1. s.it[i].lastRet < 0 BY DEF Itr
<1>2. CASE s.it[i].cursor < 0 /\ s.it[i].nextIndex < 0
  <2>1. u = Detach(s, i) BY <1>2 DEF Finish
  <2>2. Good(Detach(s, i), take, v, n, sn, ser) BY <1>1, <1>2, DoneGood
  <2> QED BY <2>1, <2>2
<1>3. CASE ~(s.it[i].cursor < 0 /\ s.it[i].nextIndex < 0)
  <2>1. u = s BY <1>3 DEF Finish
  <2> QED BY <2>1
<1> QED BY <1>2, <1>3

\* Itr.remove(): whether it removes something.
There(it, a) ==
  /\ it.lastRet >= 0
  /\ IsDetached(it) => a[it.lastRet] # Null /\ a[it.lastRet].elem = it.lastItem.elem

LEMMA RemoveItrCases ==
  ASSUME Watched, NEW i \in Iterators, RemoveItr(i),
         NEW q, q = CatchUp(itrs, i, takeIndex), NEW it, it = Itr(q, i)
  PROVE  \E e \in Entries \cup {Null} : \E t :
           /\ t = WithItr(q, i, Forgot(it, e))
           /\ \/ /\ There(it, items) /\ RemoveAt(it.lastRet)
                 /\ itrs' = Finish(TellRemoved(t, it.lastRet), i)
              \/ /\ ~There(it, items)
                 /\ itrs' = q \/ itrs' = Finish(t, i)
                 /\ UNCHANGED array
<1>1. /\ takeIndex \in Slots /\ count \in 0..Capacity /\ serial \in Nat
      /\ seen \in [Iterators -> SeenType] /\ Good(itrs, takeIndex, View, count, seen, serial)
  BY WatchedFacts
<1>2. Good(q, takeIndex, View, count, seen, serial) BY <1>1, CatchUpGood
<1>3. q \in ItrsType BY <1>2, GoodTyped
<1>4. it = q.it[i] /\ it \in ItrType BY <1>3 DEF Itr, ItrsType
<1>5. PICK e : e = IF it.lastRet >= 0 /\ IsDetached(it) THEN Null ELSE it.lastItem OBVIOUS
<1>6. e \in Entries \cup {Null} BY <1>4, <1>5, ItrFacts
<1>7. PICK t : t = [q EXCEPT !.it[i].lastRet = NONE,
                             !.it[i].lastItem =
                               IF it.lastRet >= 0 /\ IsDetached(it) THEN Null ELSE @]
  OBVIOUS
<1>8. t = ForgottenBy(q, i, e)
  <2>1. PICK r1 : r1 = [it EXCEPT !.lastRet = NONE] OBVIOUS
  <2>2. r1.lastItem = it.lastItem BY <2>1, <1>4 DEF ItrType
  <2>3. PICK s1 : s1 = [q EXCEPT !.it[i].lastRet = NONE] OBVIOUS
  <2>3a. [q EXCEPT !.it[i].lastRet = NONE,
                   !.it[i].lastItem = IF it.lastRet >= 0 /\ IsDetached(it) THEN Null ELSE @]
           = [[q EXCEPT !.it[i].lastRet = NONE]
                EXCEPT !.it[i].lastItem = IF it.lastRet >= 0 /\ IsDetached(it) THEN Null ELSE @]
    BY ZenonT(60)
  <2>4. s1.it[i] = r1 BY <2>1, <2>3, <1>3, <1>4 DEF ItrsType
  <2>5. t = [s1 EXCEPT !.it[i].lastItem = IF it.lastRet >= 0 /\ IsDetached(it) THEN Null ELSE @]
    BY <2>3, <2>3a, <1>7
  <2>6. t = [s1 EXCEPT !.it[i].lastItem =
               IF it.lastRet >= 0 /\ IsDetached(it) THEN Null ELSE s1.it[i].lastItem]
    BY <2>5
  <2>7. t = [s1 EXCEPT !.it[i].lastItem = e] BY <2>2, <2>4, <2>6, <1>5
  <2> QED BY <2>3, <2>7 DEF ForgottenBy
<1>9. t = WithItr(q, i, Forgot(it, e)) BY <1>3, <1>4, <1>6, <1>8, ForgottenItrs
<1>10. \/ /\ There(it, items) /\ RemoveAt(it.lastRet)
          /\ itrs' = Finish(TellRemoved(t, it.lastRet), i)
       \/ /\ ~There(it, items)
          /\ itrs' = q \/ itrs' = Finish(t, i)
          /\ UNCHANGED array
  BY <1>4, <1>7 DEF RemoveItr, There, Finish
<1> QED BY <1>6, <1>9, <1>10

\* What an iterator that has caught up would remove.
LEMMA ThereFacts ==
  ASSUME Watched, NEW i \in Iterators,
         NEW q, q = CatchUp(itrs, i, takeIndex), NEW it, it = Itr(q, i), There(it, items)
  PROVE  /\ \E p \in 0..(count - 1) : it.lastRet = At(takeIndex, p)
         /\ items[it.lastRet].elem = seen[i].last.elem
<1>1. /\ takeIndex \in Slots /\ count \in 0..Capacity /\ serial \in Nat /\ Array /\ Ring
      /\ seen \in [Iterators -> SeenType] /\ Good(itrs, takeIndex, View, count, seen, serial)
      /\ Entered(View, items, takeIndex, count)
  BY WatchedFacts DEF Watched
<1>2. Good(q, takeIndex, View, count, seen, serial) BY <1>1, CatchUpGood
<1>3. it = q.it[i] /\ it \in ItrType
  <2>1. q \in ItrsType BY <1>2, GoodTyped
  <2> QED BY <2>1 DEF Itr, ItrsType
<1>4. PICK x \in Slots : x = it.lastRet BY <1>3, ItrFacts DEF There
<1>5. CASE IsDetached(it)
  <2>1. items[x] # Null /\ items[x].elem = it.lastItem.elem BY <1>4, <1>5 DEF There
  <2>2. x \in Occupied BY <2>1 DEF Occupied
  <2>3. PICK w : w = seen[i] OBVIOUS
  <2>4. Own(it, w, serial)
    <3>1. Loose(q, takeIndex, View, count, seen, serial) BY <1>2 DEF Good
    <3> QED BY <3>1, <2>3, <1>3 DEF Loose
  <2>5. it.lastItem = w.last BY <2>4, <1>5 DEF Own, There
  <2> QED BY <2>1, <2>2, <2>3, <2>5, <1>1, <1>4, OccupiedFacts
<1>6. CASE ~IsDetached(it)
  <2>1. PICK w \in SeenType : w = seen[i] BY <1>1
  <2>1a. Live(it, 0, View, count, seen[i]) /\ it.prevTakeIndex = takeIndex
    BY <1>1, <1>2, <1>6, CaughtUpMeans
  <2>1b. Live(it, 0, View, count, w) BY <2>1, <2>1a
  <2>1c. it.lastRet >= 0 => Distance(it.lastRet, takeIndex) < count /\ items[it.lastRet] = w.last
    BY <1>1, <1>3, <2>1a, <2>1b, LiveMeans
  <2>2. Distance(x, takeIndex) < count /\ items[x] = seen[i].last BY <2>1, <2>1c, <1>4 DEF There
  <2>3. PICK p \in Slots : p = Distance(x, takeIndex) /\ At(takeIndex, p) = x
    <3>1. Distance(x, takeIndex) \in Slots /\ At(takeIndex, Distance(x, takeIndex)) = x
      BY <1>1, DistanceFacts
    <3> QED BY <3>1
  <2>4. p \in 0..(count - 1) BY <2>2, <2>3, <1>1
  <2> QED BY <2>2, <2>3, <2>4, <1>4
<1> QED BY <1>5, <1>6

LEMMA RemoveItrWatched == ASSUME Watched, NEW i \in Iterators, RemoveItr(i) PROVE Watched'
<1>1. /\ takeIndex \in Slots /\ count \in 0..Capacity /\ serial \in Nat /\ Array /\ Ring
      /\ seen \in [Iterators -> SeenType] /\ Good(itrs, takeIndex, View, count, seen, serial)
  BY WatchedFacts DEF Watched
<1>2. PICK q : q = CatchUp(itrs, i, takeIndex) OBVIOUS
<1>3. PICK it : it = Itr(q, i) OBVIOUS
<1>4. Good(q, takeIndex, View, count, seen, serial) BY <1>1, <1>2, CatchUpGood
<1>5. seen' = seen BY DEF RemoveItr
<1>6a. PICK e \in Entries \cup {Null} : \E t :
        /\ t = WithItr(q, i, Forgot(it, e))
        /\ \/ /\ There(it, items) /\ RemoveAt(it.lastRet)
              /\ itrs' = Finish(TellRemoved(t, it.lastRet), i)
           \/ /\ ~There(it, items)
              /\ itrs' = q \/ itrs' = Finish(t, i)
              /\ UNCHANGED array
  BY <1>2, <1>3, RemoveItrCases
<1>6. PICK t :
        /\ t = WithItr(q, i, Forgot(it, e))
        /\ \/ /\ There(it, items) /\ RemoveAt(it.lastRet)
              /\ itrs' = Finish(TellRemoved(t, it.lastRet), i)
           \/ /\ ~There(it, items)
              /\ itrs' = q \/ itrs' = Finish(t, i)
              /\ UNCHANGED array
  BY <1>6a
<1>7. PICK r : r = Forgot(it, e) OBVIOUS
<1>8. t = WithItr(q, i, r) BY <1>6, <1>7
<1>9. Good(t, takeIndex, View, count, seen, serial) BY <1>1, <1>3, <1>4, <1>7, <1>8, ForgetGood
<1>10. t.it[i].lastRet < 0 BY <1>1, <1>3, <1>4, <1>7, <1>8, <1>9, ForgetGood
<1>11. CASE ~There(it, items) /\ UNCHANGED array
  <2>1. PICK u : u = Finish(t, i) OBVIOUS
  <2>2. Itr(t, i).lastRet < 0 BY <1>10 DEF Itr
  <2>3. Good(u, takeIndex, View, count, seen, serial) BY <2>1, <2>2, <1>1, <1>9, FinishGood
  <2>4. itrs' = q \/ itrs' = u BY <2>1, <1>6, <1>11
  <2> QED BY <2>3, <2>4, <1>1, <1>4, <1>5, <1>11, ItrsWatched
<1>12. CASE There(it, items) /\ RemoveAt(it.lastRet) /\ itrs' = Finish(TellRemoved(t, it.lastRet), i)
  <2>1. PICK p \in 0..(count - 1) : it.lastRet = At(takeIndex, p) BY <1>2, <1>3, <1>12, ThereFacts
  <2>2. RemoveAt(At(takeIndex, p)) BY <2>1, <1>12
  <2>3. PICK x : x = TellRemoved(t, At(takeIndex, p)) OBVIOUS
  <2>4. PICK u : u = Finish(x, i) OBVIOUS
  <2>5. itrs' = u BY <2>1, <2>3, <2>4, <1>12
  <2>6. Good(x, takeIndex', View', count', seen, serial)
    BY <2>2, <2>3, <1>1, <1>9, TellRemovedGood
  <2>7. \A j \in Iterators : t.it[j].lastRet < 0 => x.it[j].lastRet < 0
    BY <2>2, <2>3, <2>6, <1>1, <1>9, TellRemovedGood
  <2>8. Itr(x, i).lastRet < 0 BY <2>7, <1>10 DEF Itr
  <2>9. takeIndex' \in Slots /\ count' \in 0..Capacity
    <3>1. Array' BY <2>2, <1>1, RemoveAtRing
    <3> QED BY <3>1 DEF Array
  <2>10a. PICK take2 \in Slots, n2 \in 0..Capacity : take2 = takeIndex' /\ n2 = count' BY <2>9
  <2>10. PICK v2 : take2 = takeIndex' /\ n2 = count' /\ v2 = View' BY <2>10a
  <2>11. Good(x, take2, v2, n2, seen, serial) BY <2>6, <2>10
  <2>12. Good(u, take2, v2, n2, seen, serial) BY <2>4, <2>8, <2>11, <1>1, FinishGood
  <2>13. Good(itrs', takeIndex', View', count', seen, serial) BY <2>5, <2>10, <2>12
  <2> QED BY <2>2, <2>13, <1>1, <1>5, RemoveAtWatched
<1> QED BY <1>6, <1>11, <1>12

-----------------------------------------------------------------------------
(* The threads that wait.                                                  *)

\* Threads that leave a condition, or join it.
LEMMA CondFacts ==
  ASSUME NEW c \in Seq(Threads)
  PROVE  /\ \A t \in Threads : Append(c, t) \in Seq(Threads) /\ Leave(c, t) \in Seq(Threads)
         /\ \A n \in Nat : Unsignalled(c, n) \in Seq(Threads) /\ Signalled(c, n) \subseteq Threads
         /\ \A t \in Threads : (\E j \in DOMAIN c : c[j] = t) => t \in Threads
<1>1. Len(c) \in Nat /\ DOMAIN c = 1..Len(c) /\ \A i \in 1..Len(c) : c[i] \in Threads
  BY LenProperties
<1>2. ASSUME NEW m \in Nat, NEW n \in Nat, m >= 1, n <= Len(c)
      PROVE  SubSeq(c, m, n) \in Seq(Threads)
  <2>1. \A i \in m..n : c[i] \in Threads BY <1>1, <1>2
  <2> QED BY <2>1, <1>2, SubSeqProperties
<1>3. ASSUME NEW t \in Threads PROVE Leave(c, t) \in Seq(Threads)
  <2>1. CASE \E j \in DOMAIN c : c[j] = t
    <3>1. PICK i \in 1..Len(c) : i = CHOOSE j \in DOMAIN c : c[j] = t BY <2>1, <1>1
    <3>2. SubSeq(c, 1, i - 1) \in Seq(Threads) /\ SubSeq(c, i + 1, Len(c)) \in Seq(Threads)
      <4>1. i - 1 \in Nat /\ i + 1 \in Nat /\ i + 1 >= 1 /\ i - 1 <= Len(c) BY <1>1
      <4> QED BY <4>1, <1>1, <1>2
    <3>3. Leave(c, t) = SubSeq(c, 1, i - 1) \o SubSeq(c, i + 1, Len(c))
      BY <2>1, <3>1 DEF Leave
    <3> QED BY <3>2, <3>3, ConcatProperties
  <2>2. CASE ~(\E j \in DOMAIN c : c[j] = t)
    BY <2>2 DEF Leave
  <2> QED BY <2>1, <2>2
<1>4. ASSUME NEW n \in Nat PROVE Unsignalled(c, n) \in Seq(Threads) /\ Signalled(c, n) \subseteq Threads
  <2>1. Unsignalled(c, n) \in Seq(Threads)
    <3>1. n + 1 \in Nat /\ n + 1 >= 1 BY <1>1
    <3> QED BY <3>1, <1>1, <1>2 DEF Unsignalled
  <2>2. Signalled(c, n) \subseteq Threads BY <1>1 DEF Signalled
  <2> QED BY <2>1, <2>2
<1> QED BY <1>3, <1>4, AppendProperties

\* The threads that wait, and the calls they are in.
Waiters ==
  /\ notEmpty \in Seq(Threads) /\ notFull \in Seq(Threads) /\ awake \in SUBSET Threads
  /\ call \in [Threads -> Calls]
  /\ \A t \in Threads :
       call[t].op \in {"put", "timedOffer", "remove"} => call[t].elem \in Elements

LEMMA WaitersFacts ==
  ASSUME Waiters
  PROVE  /\ notEmpty \in Seq(Threads) /\ notFull \in Seq(Threads) /\ awake \in SUBSET Threads
         /\ call \in [Threads -> Calls]
         /\ \A n \in Nat : Unsignalled(notFull, n) \in Seq(Threads) /\ Signalled(notFull, n) \subseteq Threads
         /\ \A e : Unsignalled(notEmpty, Signals(e)) \in Seq(Threads) /\ Woken(e) \subseteq Threads
<1>1. notEmpty \in Seq(Threads) /\ notFull \in Seq(Threads) /\ awake \in SUBSET Threads
      /\ call \in [Threads -> Calls]
  BY DEF Waiters
<1>2. \A e : Signals(e) \in Nat BY DEF Signals
<1>3. \A n \in Nat : Unsignalled(notFull, n) \in Seq(Threads) /\ Signalled(notFull, n) \subseteq Threads
  BY <1>1, CondFacts
<1>4. \A n \in Nat : Unsignalled(notEmpty, n) \in Seq(Threads) /\ Signalled(notEmpty, n) \subseteq Threads
  BY <1>1, CondFacts
<1> QED BY <1>1, <1>2, <1>3, <1>4 DEF Woken

LEMMA SignalTyped ==
  ASSUME Waiters, NEW n \in Nat, SignalNotFull(n)
  PROVE  notEmpty' \in Seq(Threads) /\ notFull' \in Seq(Threads)
BY WaitersFacts DEF SignalNotFull

LEMMA EnqueueTyped ==
  ASSUME Waiters, NEW e, Enqueue(e)
  PROVE  notEmpty' \in Seq(Threads) /\ Woken(e) \subseteq Threads
BY WaitersFacts DEF Enqueue

\* A call begins, goes on or ends.
LEMMA CallsSet ==
  ASSUME Waiters, NEW t \in Threads, NEW c \in Calls,
         c.op \in {"put", "timedOffer", "remove"} => c.elem \in Elements,
         call' = [call EXCEPT ![t] = c]
  PROVE  /\ call' \in [Threads -> Calls]
         /\ \A u \in Threads :
              call'[u].op \in {"put", "timedOffer", "remove"} => call'[u].elem \in Elements
BY DEF Waiters

\* A call ends, or waits on.
LEMMA ReturnWaiters ==
  ASSUME Waiters, NEW t \in Threads, NEW W, W \subseteq Threads, Return(t, W),
         notEmpty' \in Seq(Threads), notFull' \in Seq(Threads)
  PROVE  Waiters'
<1>1. NoCall \in Calls /\ NoCall.op = "none" BY DEF NoCall, Calls
<1>2. /\ call' \in [Threads -> Calls]
      /\ \A u \in Threads :
           call'[u].op \in {"put", "timedOffer", "remove"} => call'[u].elem \in Elements
  <2>1. call' = [call EXCEPT ![t] = NoCall] BY DEF Return
  <2> QED BY <2>1, <1>1, CallsSet
<1>3. awake' \in SUBSET Threads BY DEF Return, Waiters
<1> QED BY <1>2, <1>3 DEF Waiters

LEMMA WaitOrGiveUpWaiters ==
  ASSUME Waiters, NEW t \in Threads, NEW c \in Calls,
         c.op \in {"put", "timedOffer", "remove"} => c.elem \in Elements, WaitOrGiveUp(t, c)
  PROVE  Waiters'
<1>1. notEmpty \in Seq(Threads) /\ notFull \in Seq(Threads) /\ awake \in SUBSET Threads
  BY DEF Waiters
<1>2. CASE call' = [call EXCEPT ![t] = c] /\ awake' = awake \ {t}
           /\ IF c.op \in {"put", "timedOffer"}
              THEN notFull' = Append(notFull, t) /\ UNCHANGED notEmpty
              ELSE notEmpty' = Append(notEmpty, t) /\ UNCHANGED notFull
  <2>1. notEmpty' \in Seq(Threads) /\ notFull' \in Seq(Threads) BY <1>1, <1>2, CondFacts
  <2>2. /\ call' \in [Threads -> Calls]
        /\ \A u \in Threads :
             call'[u].op \in {"put", "timedOffer", "remove"} => call'[u].elem \in Elements
    BY <1>2, CallsSet
  <2>3. awake' \in SUBSET Threads BY <1>1, <1>2
  <2> QED BY <2>1, <2>2, <2>3 DEF Waiters
<1>3. CASE Return(t, {}) /\ UNCHANGED <<notEmpty, notFull>>
  <2>1. {} \subseteq Threads OBVIOUS
  <2>2. notEmpty' \in Seq(Threads) /\ notFull' \in Seq(Threads) BY <1>1, <1>3
  <2> QED BY <2>1, <2>2, <1>3, ReturnWaiters
<1> QED BY <1>2, <1>3 DEF WaitOrGiveUp

\* The whole queue.
IInv == Watched /\ Waiters

\* put, timed offer and offer; take, timed poll and poll.
LEMMA InsertInv ==
  ASSUME IInv, NEW t \in Threads, NEW c \in Calls, c.op \in {"put", "timedOffer"},
         c.elem \in Elements, Insert(t, c)
  PROVE  IInv'
<1>1. CASE count < Capacity /\ Enqueue(c.elem) /\ Return(t, Woken(c.elem))
           /\ UNCHANGED <<notFull, itrs, seen>>
  <2>1. Watched' BY <1>1, EnqueueWatched DEF IInv
  <2>2. notEmpty' \in Seq(Threads) /\ Woken(c.elem) \subseteq Threads BY <1>1, EnqueueTyped DEF IInv
  <2>3. notFull' \in Seq(Threads) BY <1>1, WaitersFacts DEF IInv
  <2>4. Waiters' BY <2>2, <2>3, <1>1, ReturnWaiters DEF IInv
  <2> QED BY <2>1, <2>4 DEF IInv
<1>2. CASE WaitOrGiveUp(t, c) /\ UNCHANGED <<array, itrs, seen>>
  <2>1. Watched' BY <1>2, WatchedSame DEF IInv
  <2>2. Waiters' BY <1>2, WaitOrGiveUpWaiters DEF IInv
  <2> QED BY <2>1, <2>2 DEF IInv
<1> QED BY <1>1, <1>2 DEF Insert

LEMMA ExtractInv ==
  ASSUME IInv, NEW t \in Threads, NEW c \in Calls, c.op \in {"take", "timedPoll"}, Extract(t, c)
  PROVE  IInv'
<1>1. CASE count > 0 /\ Dequeue /\ Return(t, Signalled(notFull, 1)) /\ UNCHANGED seen
  <2>1. Watched' BY <1>1, DequeueWatched DEF IInv
  <2>2. notEmpty' \in Seq(Threads) /\ notFull' \in Seq(Threads)
    BY <1>1, SignalTyped DEF IInv, Dequeue
  <2>3. Signalled(notFull, 1) \subseteq Threads BY WaitersFacts DEF IInv
  <2>4. Waiters' BY <2>2, <2>3, <1>1, ReturnWaiters DEF IInv
  <2> QED BY <2>1, <2>4 DEF IInv
<1>2. CASE WaitOrGiveUp(t, c) /\ UNCHANGED <<array, itrs, seen>>
  <2>1. Watched' BY <1>2, WatchedSame DEF IInv
  <2>2. c.op \notin {"put", "timedOffer", "remove"} OBVIOUS
  <2>3. Waiters' BY <1>2, <2>2, WaitOrGiveUpWaiters DEF IInv
  <2> QED BY <2>1, <2>3 DEF IInv
<1> QED BY <1>1, <1>2 DEF Extract

\* The invariant holds at the start, and every step keeps it.
LEMMA InitInv == ASSUME Init PROVE IInv
<1>1. PICK c \in Contents :
        /\ Copied(c) /\ call = [t \in Threads |-> NoCall]
        /\ notEmpty = <<>> /\ notFull = <<>> /\ awake = {}
        /\ itrs = NoItrs
        /\ seen = [i \in Iterators |-> [open |-> FALSE, since |-> 0, last |-> Null]]
  BY DEF Init, Copied
<1>2. /\ Array /\ Ring /\ Len(c) \in 0..Capacity
      /\ \A i \in 0..(Len(c) - 1) : i \in Slots /\ items[i] \in Entries /\ items[i].no = i + 1
  BY <1>1, InitRing
<1>3. takeIndex = 0 /\ count = Len(c) /\ serial = Len(c) + 1 BY <1>1 DEF Copied
<1>4. Sorted(View, count, serial)
  <2>1. \A k \in 0..(count - 1) : View[k].no = k + 1
    <3> TAKE k \in 0..(count - 1)
    <3>1. At(takeIndex, k) = k BY <1>2, <1>3 DEF At
    <3>2. View[k] = items[k] BY <3>1 DEF View
    <3> QED BY <3>2, <1>2, <1>3
  <2> SUFFICES ASSUME NEW k \in 0..(count - 1)
               PROVE  View[k].no < serial /\ \A j \in 0..(k - 1) : View[j].no < View[k].no
    BY DEF Sorted
  <2>2. View[k].no < serial BY <2>1, <1>2, <1>3
  <2>3. ASSUME NEW j \in 0..(k - 1) PROVE View[j].no < View[k].no
    <3>1. j \in 0..(count - 1) BY <1>2, <1>3
    <3> QED BY <3>1, <2>1
  <2> QED BY <2>2, <2>3
<1>5. seen \in [Iterators -> SeenType]
  <2>1. [open |-> FALSE, since |-> 0, last |-> Null] \in SeenType BY DEF SeenType
  <2> QED BY <2>1, <1>1
<1>6. Good(itrs, takeIndex, View, count, seen, serial)
  <2>1. NoItr \in ItrType BY DEF NoItr, ItrType
  <2>2. itrs \in ItrsType BY <2>1, <1>1 DEF NoItrs, ItrsType
  <2>3. itrs.tracked = {} BY <1>1 DEF NoItrs
  <2>4. ASSUME NEW i \in Iterators
        PROVE  /\ Own(itrs.it[i], seen[i], serial) /\ Complete(itrs.it[i], View, count, seen[i])
               /\ IsDetached(itrs.it[i])
    <3>1. itrs.it[i] = NoItr BY <1>1 DEF NoItrs
    <3>2. PICK w : w = seen[i] OBVIOUS
    <3>3. w = [open |-> FALSE, since |-> 0, last |-> Null] BY <3>2, <1>1
    <3>4. PICK r : r = NoItr OBVIOUS
    <3>5. /\ r.cursor = NONE /\ r.nextItem = Null /\ r.nextIndex = NONE /\ r.lastRet = NONE
          /\ r.prevTakeIndex = DETACHED
      BY <3>4 DEF NoItr
    <3>6. Own(r, w, serial) /\ IsDetached(r)
      BY <3>3, <3>5, <1>2, <1>3 DEF Own, IsDetached
    <3>7. Complete(r, View, count, w)
      <4> SUFFICES ASSUME NEW k \in 0..(count - 1) PROVE Noticed(r, View[k], w) BY DEF Complete
      <4>1. View[k].no \in Nat BY <1>2, ViewFacts
      <4> QED BY <4>1, <3>3, <3>5 DEF Noticed
    <3> QED BY <3>1, <3>2, <3>4, <3>6, <3>7
  <2> QED BY <2>2, <2>3, <2>4 DEF Good, Loose
<1>7. Waiters
  <2>1. NoCall \in Calls /\ NoCall.op = "none" BY DEF NoCall, Calls
  <2>2. <<>> \in Seq(Threads) OBVIOUS
  <2> QED BY <2>1, <2>2, <1>1 DEF Waiters
<1> QED BY <1>2, <1>4, <1>5, <1>6, <1>7 DEF IInv, Watched

-----------------------------------------------------------------------------
(* Theorems about all of the queue.                                        *)

\* Of the waiting threads no call changes.
LEMMA WaitersSame ==
  ASSUME Waiters, notEmpty' \in Seq(Threads), notFull' \in Seq(Threads),
         awake' \in SUBSET Threads, call' = call
  PROVE  Waiters'
BY DEF Waiters

LEMMA NextInv == ASSUME IInv, [Next]_vars PROVE IInv'
<1>0. Watched /\ Waiters BY DEF IInv
<1>1. ASSUME NEW t \in Threads, NEW e \in Elements, Put(t, e) PROVE IInv'
  <2>1. PICK op \in {"put", "timedOffer"} : Insert(t, Call(op, e)) BY <1>1 DEF Put
  <2>2. PICK c : c = Call(op, e) OBVIOUS
  <2>3. c \in Calls /\ c.op = op /\ c.elem = e BY <2>2 DEF Call, Calls
  <2> QED BY <2>1, <2>2, <2>3, InsertInv
<1>2. ASSUME NEW t \in Threads, Take(t) PROVE IInv'
  <2>1. PICK op \in {"take", "timedPoll"} : Extract(t, Call(op, Null)) BY <1>2 DEF Take
  <2>2. PICK c : c = Call(op, Null) OBVIOUS
  <2>3. c \in Calls /\ c.op = op BY <2>2 DEF Call, Calls
  <2> QED BY <2>1, <2>2, <2>3, ExtractInv
<1>3. ASSUME NEW t \in Threads, Resume(t) PROVE IInv'
  <2>1. PICK c : c = call[t] OBVIOUS
  <2>2. c \in Calls /\ (c.op \in {"put", "timedOffer"} => c.elem \in Elements)
    BY <2>1, <1>0 DEF Waiters
  <2>3. CASE c.op \in {"put", "timedOffer"} /\ Insert(t, c) BY <2>2, <2>3, InsertInv
  <2>4. CASE c.op \in {"take", "timedPoll"} /\ Extract(t, c) BY <2>2, <2>4, ExtractInv
  <2> QED BY <1>3, <2>1, <2>3, <2>4 DEF Resume
<1>4. ASSUME NEW t \in Threads, Timeout(t) PROVE IInv'
  <2>1. Watched' BY <1>0, <1>4, WatchedSame DEF Timeout
  <2>2. notEmpty' \in Seq(Threads) /\ notFull' \in Seq(Threads)
    BY <1>0, <1>4, CondFacts DEF Timeout, Waiters
  <2>3. awake' \in SUBSET Threads BY <1>0, <1>4 DEF Timeout, Waiters
  <2>4. call \in [Threads -> Calls] BY <1>0 DEF Waiters
  <2>5. PICK c : c = [call[t] EXCEPT !.left = FALSE] OBVIOUS
  <2>6. c \in Calls /\ c.op = call[t].op /\ c.elem = call[t].elem BY <2>4, <2>5 DEF Calls
  <2>7. call' = [call EXCEPT ![t] = c] BY <1>4, <2>5 DEF Timeout
  <2>8. c.op \in {"put", "timedOffer", "remove"} => c.elem \in Elements
    BY <1>0, <2>6 DEF Waiters
  <2>9. /\ call' \in [Threads -> Calls]
        /\ \A u \in Threads :
             call'[u].op \in {"put", "timedOffer", "remove"} => call'[u].elem \in Elements
    BY <1>0, <2>6, <2>7, <2>8, CallsSet
  <2> QED BY <2>1, <2>2, <2>3, <2>9 DEF IInv, Waiters
<1>5. ASSUME NEW t \in Threads, Interrupt(t) PROVE IInv'
  <2>1. Watched' BY <1>0, <1>5, WatchedSame DEF Interrupt
  <2>2. notEmpty' \in Seq(Threads) /\ notFull' \in Seq(Threads)
    BY <1>0, <1>5, CondFacts DEF Interrupt, Waiters
  <2>3. NoCall \in Calls /\ NoCall.op = "none" BY DEF NoCall, Calls
  <2>4. call' = [call EXCEPT ![t] = NoCall] /\ awake' = awake BY <1>5 DEF Interrupt
  <2>5. /\ call' \in [Threads -> Calls]
        /\ \A u \in Threads :
             call'[u].op \in {"put", "timedOffer", "remove"} => call'[u].elem \in Elements
    BY <1>0, <2>3, <2>4, CallsSet
  <2> QED BY <1>0, <2>1, <2>2, <2>4, <2>5 DEF IInv, Waiters
<1>6. ASSUME NEW t \in Threads, NEW e \in Elements, RemoveKey(t, e) PROVE IInv'
  <2>1. keys' \in SUBSET Elements BY <1>0, <1>6 DEF RemoveKey, Watched, Array
  <2>2. Watched' BY <1>0, <1>6, <2>1, RemoveKeyWatched DEF RemoveKey
  <2>3. PICK c : c = Call("remove", e) OBVIOUS
  <2>4. c \in Calls /\ c.elem = e BY <2>3 DEF Call, Calls
  <2>5. call' = [call EXCEPT ![t] = c] BY <1>6, <2>3 DEF RemoveKey
  <2>6. /\ call' \in [Threads -> Calls]
        /\ \A u \in Threads :
             call'[u].op \in {"put", "timedOffer", "remove"} => call'[u].elem \in Elements
    BY <1>0, <2>4, <2>5, CallsSet
  <2>7. notEmpty' = notEmpty /\ notFull' = notFull /\ awake' = awake BY <1>6 DEF RemoveKey
  <2> QED BY <1>0, <2>2, <2>6, <2>7 DEF IInv, Waiters
<1>7. ASSUME NEW t \in Threads, Remove(t) PROVE IInv'
  <2>1. Watched' BY <1>0, <1>7, RemoveWatched
  <2>2. CASE Return(t, Signalled(notFull, 1)) /\ SignalNotFull(1)
    <3>1. notEmpty' \in Seq(Threads) /\ notFull' \in Seq(Threads) BY <1>0, <2>2, SignalTyped
    <3>2. Signalled(notFull, 1) \subseteq Threads BY <1>0, WaitersFacts
    <3> QED BY <1>0, <2>1, <2>2, <3>1, <3>2, ReturnWaiters DEF IInv
  <2>3. CASE Return(t, {}) /\ UNCHANGED <<notEmpty, notFull>>
    <3>1. notEmpty' \in Seq(Threads) /\ notFull' \in Seq(Threads) BY <1>0, <2>3 DEF Waiters
    <3>2. {} \subseteq Threads OBVIOUS
    <3> QED BY <1>0, <2>1, <2>3, <3>1, <3>2, ReturnWaiters DEF IInv
  <2> QED BY <1>7, <2>2, <2>3 DEF Remove, RemoveAt
<1>8. ASSUME NEW e \in Elements, Offer(e) PROVE IInv'
  <2>1. Watched' BY <1>0, <1>8, EnqueueWatched DEF Offer
  <2>2. notEmpty' \in Seq(Threads) /\ Woken(e) \subseteq Threads BY <1>0, <1>8, EnqueueTyped DEF Offer
  <2>3. notFull' \in Seq(Threads) /\ awake' \in SUBSET Threads /\ call' = call
    BY <1>0, <1>8, <2>2 DEF Offer, Waiters
  <2> QED BY <1>0, <2>1, <2>2, <2>3, WaitersSame DEF IInv
<1>9. ASSUME NEW n \in Nat, SignalNotFull(n), awake' = awake \cup Signalled(notFull, n), call' = call
      PROVE  Waiters'
  <2>1. notEmpty' \in Seq(Threads) /\ notFull' \in Seq(Threads) BY <1>0, <1>9, SignalTyped
  <2>2. awake' \in SUBSET Threads BY <1>0, <1>9, WaitersFacts
  <2> QED BY <1>0, <1>9, <2>1, <2>2, WaitersSame
<1>10. CASE Poll
  <2>1. Watched' BY <1>0, <1>10, DequeueWatched DEF Poll
  <2>2. Waiters' BY <1>9, <1>10 DEF Poll, Dequeue
  <2> QED BY <2>1, <2>2 DEF IInv
<1>11. CASE Clear
  <2>1. Watched' BY <1>0, <1>11, ClearWatched
  <2>2. count \in Nat BY <1>0 DEF Watched, Array
  <2>3. Waiters' BY <1>9, <1>11, <2>2 DEF Clear
  <2> QED BY <2>1, <2>3 DEF IInv
<1>12. ASSUME NEW n \in 1..Capacity, DrainTo(n) PROVE IInv'
  <2>1. Watched' BY <1>0, <1>12, DrainToWatched
  <2>2. Waiters' BY <1>9, <1>12 DEF DrainTo
  <2> QED BY <2>1, <2>2 DEF IInv
<1>13. ASSUME NEW i \in Iterators, OpenItr(i) \/ NextItem(i) \/ HasNoNext(i) PROVE IInv'
  <2>1. Watched' BY <1>0, <1>13, OpenItrWatched, NextItemWatched, HasNoNextWatched
  <2>2. UNCHANGED waits BY <1>13 DEF OpenItr, NextItem, HasNoNext
  <2>3. Waiters' BY <1>0, <2>2 DEF waits, Waiters
  <2> QED BY <2>1, <2>3 DEF IInv
<1>14. ASSUME NEW i \in Iterators, RemoveItr(i) PROVE IInv'
  <2>1. Watched' BY <1>0, <1>14, RemoveItrWatched
  <2>2. call' = call BY <1>14 DEF RemoveItr
  <2>3. CASE SignalNotFull(1) /\ awake' = awake \cup Signalled(notFull, 1)
    BY <1>9, <2>1, <2>2, <2>3 DEF IInv
  <2>4. CASE UNCHANGED <<notEmpty, notFull, awake>>
    BY <1>0, <2>1, <2>2, <2>4 DEF IInv, Waiters
  <2> QED BY <1>14, <2>3, <2>4 DEF RemoveItr, RemoveAt
<1>15. CASE UNCHANGED vars
  <2>1. UNCHANGED <<array, itrs, seen>> /\ UNCHANGED waits BY <1>15 DEF vars
  <2>2. Watched' BY <1>0, <2>1, WatchedSame
  <2>3. Waiters' BY <1>0, <2>1 DEF waits, Waiters
  <2> QED BY <2>2, <2>3 DEF IInv
<1> QED BY <1>1, <1>2, <1>3, <1>4, <1>5, <1>6, <1>7, <1>8, <1>10, <1>11, <1>12, <1>13, <1>14, <1>15
        DEF Next

\* The invariant is inductive: ring, order of the entries, what holds of every
\* iterator, and the threads that wait (KeyArrayBlockingQueue.java:174-1382).
THEOREM Invariance == Safety => []IInv
<1>1. Init => IInv BY InitInv
<1>2. IInv /\ [Next]_vars => IInv' BY NextInv
<1> QED BY <1>1, <1>2, PTL DEF Safety

\* The types, whatever the capacity, the elements, the threads and the iterators.
THEOREM TypeCorrect == Safety => []TypeOK
<1>1. IInv => TypeOK
  <2> SUFFICES ASSUME IInv PROVE TypeOK OBVIOUS
  <2>1. itrs \in ItrsType BY GoodTyped DEF IInv, Watched
  <2>2. itrs.tracked \in SUBSET Iterators /\ itrs.cycles \in Nat BY <2>1 DEF ItrsType
  <2> QED BY <2>2 DEF IInv, Watched, Array, Waiters, TypeOK
<1> QED BY <1>1, Invariance, PTL

\* The occupied slots are count slots from takeIndex on, and putIndex is behind
\* them, after every enqueue, dequeue, removeAt, clear and drainTo
\* (KeyArrayBlockingQueue.java:174-257, 655-744).
THEOREM RingHolds == Safety => []Ring
<1>1. IInv => Ring BY DEF IInv, Watched
<1> QED BY <1>1, Invariance, PTL

\* What the invariant says of an iterator that has caught up.
LEMMA InStep == ASSUME Watched PROVE IteratorInStep
<1> SUFFICES ASSUME NEW i \in itrs.tracked, NEW it, it = CatchUp(itrs, i, takeIndex).it[i]
             PROVE  /\ it.nextIndex >= 0 => items[it.nextIndex] = it.nextItem
                    /\ it.lastRet >= 0 => items[it.lastRet] = seen[i].last
                    /\ it.cursor >= 0 => items[it.cursor] # Null
  BY DEF IteratorInStep
<1>1. /\ takeIndex \in Slots /\ count \in 0..Capacity /\ serial \in Nat
      /\ seen \in [Iterators -> SeenType] /\ Good(itrs, takeIndex, View, count, seen, serial)
      /\ View \in [0..(count - 1) -> Entries] /\ Entered(View, items, takeIndex, count)
  BY WatchedFacts
<1>2. i \in Iterators /\ ~IsDetached(Itr(itrs, i))
  <2>1. itrs \in ItrsType BY <1>1, GoodTyped
  <2> QED BY <2>1, <1>1, ItrsFacts DEF Good, Itr
<1>3. PICK q : q = CatchUp(itrs, i, takeIndex) OBVIOUS
<1>4. it = Itr(q, i) BY <1>3 DEF Itr
<1>5. Good(q, takeIndex, View, count, seen, serial) BY <1>1, <1>2, <1>3, CatchUpGood
<1>6. PICK w \in SeenType : w = seen[i] BY <1>1, <1>2
<1>7. it \in ItrType /\ Own(it, w, serial)
  <2>1. Loose(q, takeIndex, View, count, seen, serial) BY <1>5 DEF Good
  <2>2. it = q.it[i] BY <1>4 DEF Itr
  <2>3. q.it[i] \in ItrType /\ Own(q.it[i], seen[i], serial) BY <2>1, <1>1, <1>2, GoodItr
  <2> QED BY <2>2, <2>3, <1>6
<1>8. CASE IsDetached(it)
  <2>1. it.nextIndex < 0 /\ it.cursor < 0 BY <1>7, <1>8 DEF Own
  <2>2. Itr(q, i).lastRet < 0
    <3>1. IsDetached(Itr(q, i)) BY <1>4, <1>8
    <3> QED BY <3>1, <1>1, <1>2, <1>3, <1>5, CatchUpGood
  <2>3. it.lastRet < 0 BY <2>2, <1>4
  <2> QED BY <2>1, <2>3, <1>7, ItrFacts
<1>9. CASE ~IsDetached(it)
  <2>1. Live(it, 0, View, count, seen[i]) /\ it.prevTakeIndex = takeIndex
    BY <1>1, <1>2, <1>3, <1>4, <1>5, <1>9, CaughtUpMeans
  <2>2. Live(it, 0, View, count, w) BY <2>1, <1>6
  <2>3. /\ it.nextIndex >= 0 => Distance(it.nextIndex, takeIndex) < count /\ items[it.nextIndex] = it.nextItem
        /\ it.lastRet >= 0 => Distance(it.lastRet, takeIndex) < count /\ items[it.lastRet] = w.last
        /\ it.cursor >= 0 => Distance(it.cursor, takeIndex) < count
    BY <1>1, <1>7, <2>1, <2>2, LiveMeans
  <2>4. ASSUME it.cursor >= 0 PROVE items[it.cursor] # Null
    <3>1. PICK x \in Slots : x = it.cursor BY <2>4, <1>7, ItrFacts
    <3>2. Distance(x, takeIndex) < count BY <2>3, <2>4, <3>1
    <3>3. Distance(x, takeIndex) \in 0..(count - 1) /\ View[Distance(x, takeIndex)] = items[x]
      BY <3>2, <1>1, EnteredFacts
    <3>4. items[x] \in Entries BY <3>3, <1>1
    <3> QED BY <3>1, <3>4, EntryFacts
  <2> QED BY <2>3, <2>4, <1>6
<1> QED BY <1>8, <1>9

\* The indices of an iterator, once it has caught up, designate the entries it
\* stands for, however many slots were dequeued, closed up or reused behind its back
\* (incorporateDequeues(), :1112-1159, removedAt(), :1318-1364, and
\* takeIndexWrapped(), :906-928).
THEOREM IteratorInStepHolds == Safety => []IteratorInStep
<1>1. IInv => IteratorInStep BY InStep DEF IInv
<1> QED BY <1>1, Invariance, PTL

LEMMA SkipsNothing == ASSUME Watched PROVE NothingSkipped
<1> SUFFICES ASSUME NEW i \in Iterators, NEW o \in Occupied
             PROVE  ~(/\ (IF seen[i].last = Null THEN 0 ELSE seen[i].last.no) < items[o].no
                      /\ items[o].no < IF itrs.it[i].nextItem = Null THEN seen[i].since
                                       ELSE itrs.it[i].nextItem.no)
  BY DEF NothingSkipped
<1>1. PICK k \in 0..(count - 1) : o = At(takeIndex, k) BY OccupiedFacts DEF Watched
<1>2. View[k] = items[o] BY <1>1, ViewFacts DEF Watched
<1>3. Complete(itrs.it[i], View, count, seen[i]) BY DEF Watched, Good, Loose
<1>4. Noticed(itrs.it[i], items[o], seen[i]) BY <1>2, <1>3 DEF Complete
<1> QED BY <1>4 DEF Noticed

\* An iterator passes over no entry that was in the queue when it was opened and
\* is still there (next(), :1221-1247, after any calls between).
THEOREM NothingSkippedHolds == Safety => []NothingSkipped
<1>1. IInv => NothingSkipped BY SkipsNothing DEF IInv
<1> QED BY <1>1, Invariance, PTL

\* Only next() changes what was seen last.
LEMMA SeenLast ==
  ASSUME Watched, [Next]_vars, NEW i \in Iterators, seen'[i].last # seen[i].last
  PROVE  NextItem(i)
<1>1. seen \in [Iterators -> SeenType] /\ seen' # seen BY DEF Watched
<1>2. \A t \in Threads : ~Resume(t) /\ ~Take(t) /\ \A e \in Elements : ~Put(t, e)
  BY <1>1 DEF Resume, Take, Put, Insert, Extract
<1>3. PICK j \in Iterators : OpenItr(j) \/ NextItem(j)
  BY <1>1, <1>2 DEF Next, vars, Timeout, Interrupt, Remove, RemoveKey, Offer, Poll, Clear, DrainTo,
     HasNoNext, RemoveItr
<1>4. CASE OpenItr(j)
  <2>1. seen' = [seen EXCEPT ![j].open = TRUE, ![j].since = serial] BY <1>4 DEF OpenItr
  <2>2. seen'[i].last = seen[i].last BY <2>1, <1>1 DEF SeenType
  <2> QED BY <2>2
<1>5. CASE NextItem(j)
  <2>1. seen' = [seen EXCEPT ![j].last = itrs.it[j].nextItem] BY <1>5 DEF NextItem
  <2>2. j # i => seen'[i] = seen[i] BY <2>1, <1>1
  <2> QED BY <2>2, <1>5
<1> QED BY <1>3, <1>4, <1>5

\* An iterator returns every entry at most once, in the order of insertion
\* (next(), :1221-1247).
THEOREM IterationInOrderHolds == Safety => IterationInOrder
<1>1. IInv /\ [Next]_vars =>
        [\A i \in Iterators :
           seen[i].last # Null /\ seen'[i].last # seen[i].last =>
             seen'[i].last.no > seen[i].last.no]_vars
  <2> SUFFICES ASSUME IInv, [Next]_vars, NEW i \in Iterators,
                      seen[i].last # Null, seen'[i].last # seen[i].last
               PROVE  seen'[i].last.no > seen[i].last.no
    OBVIOUS
  <2>1. Watched BY DEF IInv
  <2>2. NextItem(i) BY <2>1, SeenLast
  <2>3. PICK w \in SeenType : w = seen[i] BY <2>1 DEF Watched
  <2>4. PICK it \in ItrType : it = itrs.it[i]
    <3>1. itrs \in ItrsType BY <2>1, GoodTyped DEF Watched
    <3> QED BY <3>1, ItrsFacts
  <2>5. Own(it, w, serial) BY <2>1, <2>3, <2>4 DEF Watched, Good, Loose
  <2>6. it.nextItem # Null BY <2>2, <2>4 DEF NextItem
  <2>7. w.last.no < it.nextItem.no BY <2>3, <2>5, <2>6 DEF Own
  <2>8. seen' = [seen EXCEPT ![i].last = it.nextItem] BY <2>2, <2>4 DEF NextItem
  <2>9. seen'[i].last = it.nextItem BY <2>1, <2>8 DEF Watched, SeenType
  <2>10. w.last.no \in Nat /\ it.nextItem.no \in Nat
    BY <2>3, <2>6, EntryFacts, ItrFacts DEF SeenType
  <2> QED BY <2>3, <2>7, <2>9, <2>10
<1> QED BY <1>1, Invariance, PTL DEF Safety, IterationInOrder

\* An entry that Itr.remove() takes out has the key that next() returned.
LEMMA RemovesReturned ==
  ASSUME Watched, NEW i \in Iterators, RemoveItr(i), NEW o \in Occupied,
         \A p \in Occupied' : items'[p] # items[o]
  PROVE  items[o].elem = seen[i].last.elem
<1>1. PICK q : q = CatchUp(itrs, i, takeIndex) OBVIOUS
<1>2. PICK it : it = Itr(q, i) OBVIOUS
<1>3. (There(it, items) /\ RemoveAt(it.lastRet)) \/ UNCHANGED array
  BY <1>1, <1>2, RemoveItrCases
<1>4. CASE UNCHANGED array
  <2>1. items' = items /\ Occupied' = Occupied BY <1>4 DEF array, Occupied
  <2> QED BY <2>1
<1>5. CASE There(it, items) /\ RemoveAt(it.lastRet)
  <2>1. items[it.lastRet].elem = seen[i].last.elem BY <1>1, <1>2, <1>5, ThereFacts
  <2>2. PICK p \in 0..(count - 1) : it.lastRet = At(takeIndex, p) BY <1>1, <1>2, <1>5, ThereFacts
  <2>3. o = At(takeIndex, p)
    <3>1. RemoveAt(At(takeIndex, p)) /\ Array /\ Ring BY <1>5, <2>2 DEF Watched
    <3> QED BY <3>1, RemovesOne
  <2> QED BY <2>1, <2>2, <2>3
<1> QED BY <1>3, <1>4, <1>5

\* Itr.remove() takes out nothing but an element equal to the one that the last
\* next() returned, even if its slot was reused meanwhile (:1250-1282).
THEOREM RemovesWhatItReturnedHolds == Safety => RemovesWhatItReturned
<1>1. IInv /\ [Next]_vars =>
        [\A i \in Iterators :
           RemoveItr(i) =>
             \A o \in Occupied :
               (\A p \in Occupied' : items'[p] # items[o]) => items[o].elem = seen[i].last.elem]_vars
  BY RemovesReturned DEF IInv
<1> QED BY <1>1, Invariance, PTL DEF Safety, RemovesWhatItReturned

-----------------------------------------------------------------------------
(* Who sleeps on which condition.                                          *)

\* The waiting threads c are in calls ops, once each, and none of them is among
\* the threads a that are awake; cl says who is in which call.
Asleep(c, ops, a, cl) ==
  /\ c \in Seq(Threads)
  /\ \A i, j \in DOMAIN c : c[i] = c[j] => i = j
  /\ \A i \in DOMAIN c : c[i] \notin a /\ cl[c[i]].op \in ops

\* The awake threads that are in calls ops.
OnTheirWay(ops, a, cl) == {t \in a : cl[t].op \in ops}

Takers == {"take", "timedPoll"}
Putters == {"put", "timedOffer"}

Sleepers ==
  /\ IsFiniteSet(awake)
  /\ Asleep(notEmpty, Takers, awake, call) /\ Asleep(notFull, Putters, awake, call)

\* n signals wake n threads, if that is not all.
LEMMA SignalsCount ==
  ASSUME NEW c \in Seq(Threads), NEW n \in Nat,
         \A i, j \in DOMAIN c : c[i] = c[j] => i = j
  PROVE  /\ Signalled(c, n) \subseteq Threads /\ Unsignalled(c, n) \in Seq(Threads)
         /\ IsFiniteSet(Signalled(c, n))
         /\ Unsignalled(c, n) # <<>> => n < Len(c) /\ Cardinality(Signalled(c, n)) = n
         /\ \A k \in DOMAIN Unsignalled(c, n) :
              /\ k + n \in DOMAIN c /\ Unsignalled(c, n)[k] = c[k + n]
              /\ c[k + n] \notin Signalled(c, n)
<1>0. PICK l \in Nat : l = Len(c) BY LenProperties
<1>1. DOMAIN c = 1..l /\ \A i \in 1..l : c[i] \in Threads BY <1>0, LenProperties
<1>2. Signalled(c, n) \subseteq Threads /\ Unsignalled(c, n) \in Seq(Threads) BY CondFacts
<1>3. PICK m \in Nat : m <= l /\ (n <= l => m = n) /\ (n > l => m = l)
  <2>1. CASE n <= l BY <2>1
  <2>2. CASE n > l BY <2>2
  <2> QED BY <2>1, <2>2
<1>4. Signalled(c, n) = {c[i] : i \in 1..m} BY <1>1, <1>3 DEF Signalled
<1>5. IsFiniteSet(Signalled(c, n)) /\ Cardinality(Signalled(c, n)) = m
  <2>1. PICK f : f = [i \in 1..m |-> c[i]] OBVIOUS
  <2>2. f \in Bijection(1..m, Signalled(c, n))
    <3>1. f \in [1..m -> Signalled(c, n)] BY <2>1, <1>4
    <3>2. \A i, j \in 1..m : f[i] = f[j] => i = j BY <2>1, <1>1, <1>3
    <3>3. \A t \in Signalled(c, n) : \E i \in 1..m : f[i] = t BY <2>1, <1>4
    <3> QED BY <3>1, <3>2, <3>3 DEF Bijection, Injection, Surjection, IsInjective
  <2>3. ExistsBijection(1..m, Signalled(c, n)) BY <2>2 DEF ExistsBijection
  <2>4. IsFiniteSet(1..m) /\ Cardinality(1..m) = m BY <1>3, FS_Interval
  <2> QED BY <2>3, <2>4, FS_Bijection
<1>6. PICK r : r = Unsignalled(c, n) OBVIOUS
<1>7. DOMAIN r = 1..(l - n) /\ (\A k \in 1..(l - n) : r[k] = c[k + n]) /\ (r # <<>> => n < l)
  <2>1. n + 1 \in Nat /\ n + 1 >= 1 OBVIOUS
  <2>2. r = SubSeq(c, n + 1, l) BY <1>0, <1>6 DEF Unsignalled
  <2>3. r = [k \in 1..(l - n) |-> c[k + n]]
    <3>1. r = [k \in 1..(l - (n + 1) + 1) |-> c[k + (n + 1) - 1]] BY <2>2
    <3>2. l - (n + 1) + 1 = l - n /\ \A k \in 1..(l - n) : k + (n + 1) - 1 = k + n OBVIOUS
    <3> QED BY <3>1, <3>2
  <2>4. r # <<>> => Len(r) \in Nat \ {0} /\ DOMAIN r = 1..Len(r)
    BY <1>2, <1>6, EmptySeq, LenProperties
  <2>5. ASSUME r # <<>> PROVE n < l
    <3>1. PICK k \in Nat : k # 0 /\ DOMAIN r = 1..k BY <2>4, <2>5
    <3>2. 1 \in 1..(l - n) BY <2>3, <3>1
    <3> QED BY <3>2
  <2> QED BY <2>3, <2>5
<1>8. ASSUME NEW k \in DOMAIN Unsignalled(c, n)
      PROVE  /\ k + n \in DOMAIN c /\ Unsignalled(c, n)[k] = c[k + n]
             /\ c[k + n] \notin Signalled(c, n)
  <2>1. k \in 1..(l - n) /\ k + n \in 1..l /\ n < l BY <1>6, <1>7
  <2>2. ASSUME NEW i \in 1..m PROVE c[i] # c[k + n]
    <3>1. i \in DOMAIN c /\ k + n \in DOMAIN c /\ i # k + n BY <2>1, <1>1, <1>3
    <3> QED BY <3>1
  <2> QED BY <2>1, <2>2, <1>1, <1>4, <1>6, <1>7
<1> QED BY <1>0, <1>2, <1>3, <1>5, <1>6, <1>7, <1>8

\* From awake threads a and calls cl to a2 and cl2: m threads of c are signalled,
\* threads w of another condition too, and threads d begin or end a call.
Rousing(c, ops, a, cl, m, d, w, a2, cl2) ==
  /\ Asleep(c, ops, a, cl) /\ IsFiniteSet(a) /\ a \subseteq Threads /\ a2 \subseteq Threads
  /\ \A u \in Threads \ d : u \in a2 <=> u \in a \/ u \in Signalled(c, m) \/ u \in w
  /\ \A u \in Threads \ d : cl2[u] = cl[u]
  /\ \A u \in d : cl2[u].op \notin ops /\ \A i \in DOMAIN c : c[i] # u
  /\ \A u \in w : cl[u].op \notin ops

\* Then the others sleep on, and if there are any, m more are on their way.
Signalling(c, ops, a, cl, m, d, a2, cl2) ==
  /\ Asleep(Unsignalled(c, m), ops, a2, cl2)
  /\ Unsignalled(c, m) # <<>> =>
       /\ c # <<>>
       /\ Cardinality(OnTheirWay(ops, a2, cl2)) = Cardinality(OnTheirWay(ops, a, cl) \ d) + m

\* What a signal of n changes about who sleeps in c, d beginning or ending calls.
LEMMA Roused ==
  ASSUME NEW c, NEW ops, NEW a, NEW cl, NEW m \in Nat, NEW d, NEW w, NEW a2, NEW cl2,
         Rousing(c, ops, a, cl, m, d, w, a2, cl2)
  PROVE  Signalling(c, ops, a, cl, m, d, a2, cl2)
<1> USE DEF Rousing
<1>0. /\ c \in Seq(Threads) /\ \A i, j \in DOMAIN c : c[i] = c[j] => i = j
      /\ \A i \in DOMAIN c : c[i] \in Threads /\ c[i] \notin a /\ cl[c[i]].op \in ops
  <2>1. c \in Seq(Threads) BY DEF Asleep
  <2>2. \A i \in DOMAIN c : c[i] \in Threads BY <2>1, LenProperties
  <2> QED BY <2>1, <2>2 DEF Asleep
<1>1. PICK s : s = Signalled(c, m) OBVIOUS
<1>2. PICK r : r = Unsignalled(c, m) OBVIOUS
<1>3. /\ s \subseteq Threads /\ r \in Seq(Threads) /\ IsFiniteSet(s)
      /\ r # <<>> => m < Len(c) /\ Cardinality(s) = m
      /\ \A k \in DOMAIN r : k + m \in DOMAIN c /\ r[k] = c[k + m] /\ c[k + m] \notin s
  BY <1>0, <1>1, <1>2, SignalsCount
<1>4. \A u \in s : \E i \in DOMAIN c : u = c[i] BY <1>1 DEF Signalled
<1>5. Asleep(r, ops, a2, cl2)
  <2>1. ASSUME NEW i \in DOMAIN r, NEW j \in DOMAIN r, r[i] = r[j] PROVE i = j
    <3>1. i + m = j + m BY <1>0, <1>3, <2>1
    <3>2. i \in Nat /\ j \in Nat BY <1>3, LenProperties
    <3> QED BY <3>1, <3>2
  <2>2. ASSUME NEW i \in DOMAIN r PROVE r[i] \notin a2 /\ cl2[r[i]].op \in ops
    <3>1. PICK k \in DOMAIN c : r[i] = c[k] /\ c[k] \notin s BY <1>3
    <3>2. c[k] \in Threads \ d BY <1>0
    <3>3. c[k] \notin a /\ c[k] \notin w BY <1>0
    <3> QED BY <3>1, <3>2, <3>3, <1>0, <1>1
  <2> QED BY <2>1, <2>2, <1>3 DEF Asleep
<1>6. ASSUME r # <<>>
      PROVE  /\ c # <<>>
             /\ Cardinality(OnTheirWay(ops, a2, cl2)) = Cardinality(OnTheirWay(ops, a, cl) \ d) + m
  <2>1. c # <<>>
    <3>1. Len(c) # 0 BY <1>0, <1>3, <1>6, LenProperties
    <3> QED BY <3>1, <1>0, EmptySeq
  <2>2. PICK p : p = OnTheirWay(ops, a, cl) \ d OBVIOUS
  <2>3. OnTheirWay(ops, a2, cl2) = p \cup s
    <3>1. ASSUME NEW u \in a2, cl2[u].op \in ops PROVE u \in p \cup s
      <4>1. u \in Threads \ d BY <3>1
      <4>2. cl[u].op \in ops /\ u \notin w BY <3>1, <4>1
      <4> QED BY <4>1, <4>2, <2>2, <1>1 DEF OnTheirWay
    <3>2. ASSUME NEW u \in p PROVE u \in a2 /\ cl2[u].op \in ops
      <4>1. u \in a /\ u \notin d /\ cl[u].op \in ops /\ u \in Threads BY <2>2 DEF OnTheirWay
      <4> QED BY <4>1
    <3>3. ASSUME NEW u \in s PROVE u \in a2 /\ cl2[u].op \in ops
      <4>1. PICK i \in DOMAIN c : u = c[i] BY <1>4
      <4>2. u \in Threads \ d /\ cl[u].op \in ops BY <4>1, <1>0
      <4> QED BY <4>2, <1>1
    <3> QED BY <3>1, <3>2, <3>3 DEF OnTheirWay
  <2>4. p \cap s = {}
    <3>1. \A u \in s : u \notin a BY <1>0, <1>4
    <3> QED BY <3>1, <2>2 DEF OnTheirWay
  <2>5. IsFiniteSet(p) /\ Cardinality(p) \in Nat
    <3>1. p \in SUBSET a BY <2>2 DEF OnTheirWay
    <3>2. IsFiniteSet(p) BY <3>1, FS_Subset
    <3> QED BY <3>2, FS_CardinalityType
  <2>6. Cardinality(p \cup s) = Cardinality(p) + Cardinality(s) - Cardinality(p \cap s)
    BY <2>5, <1>3, FS_Union
  <2>7. Cardinality(p \cap s) = 0 BY <2>4, FS_EmptySet
  <2>8. Cardinality(p \cup s) = Cardinality(p) + m BY <2>5, <2>6, <2>7, <1>3, <1>6
  <2> QED BY <2>1, <2>2, <2>3, <2>8
<1> QED BY <1>2, <1>5, <1>6 DEF Signalling

\* Who leaves a condition is not in it any more; the others stay once each.
LEMMA LeaveFacts ==
  ASSUME NEW c \in Seq(Threads), NEW t \in Threads,
         \A i, j \in DOMAIN c : c[i] = c[j] => i = j
  PROVE  /\ Leave(c, t) \in Seq(Threads) /\ (Leave(c, t) # <<>> => c # <<>>)
         /\ \A i, j \in DOMAIN Leave(c, t) : Leave(c, t)[i] = Leave(c, t)[j] => i = j
         /\ \A i \in DOMAIN Leave(c, t) :
              Leave(c, t)[i] # t /\ \E k \in DOMAIN c : Leave(c, t)[i] = c[k]
<1>1. PICK r : r = Leave(c, t) OBVIOUS
<1>2. r \in Seq(Threads) BY <1>1, CondFacts
<1>3. CASE ~\E j \in DOMAIN c : c[j] = t
  <2>1. r = c BY <1>1, <1>3 DEF Leave
  <2> QED BY <1>1, <1>2, <1>3, <2>1
<1>4. CASE \E j \in DOMAIN c : c[j] = t
  <2>1. PICK l \in Nat : l = Len(c) BY LenProperties
  <2>2. DOMAIN c = 1..l /\ \A i \in 1..l : c[i] \in Threads BY <2>1, LenProperties
  <2>3. PICK i \in 1..l : i = (CHOOSE j \in DOMAIN c : c[j] = t) /\ c[i] = t BY <1>4, <2>2
  <2>4. r = SubSeq(c, 1, i - 1) \o SubSeq(c, i + 1, l) BY <1>1, <1>4, <2>1, <2>3 DEF Leave
  <2>5. PICK x \in Seq(Threads), y \in Seq(Threads) :
          /\ x = SubSeq(c, 1, i - 1) /\ Len(x) = i - 1 /\ \A k \in 1..(i - 1) : x[k] = c[k]
          /\ y = SubSeq(c, i + 1, l) /\ Len(y) = l - i /\ \A k \in 1..(l - i) : y[k] = c[k + i]
    <3>1. /\ SubSeq(c, 1, i - 1) \in Seq(Threads) /\ Len(SubSeq(c, 1, i - 1)) = i - 1
          /\ \A k \in 1..(i - 1) : SubSeq(c, 1, i - 1)[k] = c[k]
      <4>1. \A k \in 1..(i - 1) : c[k] \in Threads BY <2>2
      <4> QED BY <4>1, SubSeqProperties
    <3>2. /\ SubSeq(c, i + 1, l) \in Seq(Threads) /\ Len(SubSeq(c, i + 1, l)) = l - i
          /\ \A k \in 1..(l - i) : SubSeq(c, i + 1, l)[k] = c[k + i]
      <4>1. \A k \in (i + 1)..l : c[k] \in Threads BY <2>2
      <4>2. i + 1 \in Int /\ l \in Int OBVIOUS
      <4> QED BY <4>1, <4>2, SubSeqProperties
    <3> QED BY <3>1, <3>2
  <2>6. /\ DOMAIN r = 1..(l - 1)
        /\ \A k \in 1..(l - 1) : r[k] = (IF k < i THEN c[k] ELSE c[k + 1])
    <3>1. /\ Len(x \o y) = l - 1
          /\ \A k \in 1..(l - 1) : (x \o y)[k] = IF k <= i - 1 THEN x[k] ELSE y[k - (i - 1)]
      <4>1. /\ Len(x \o y) = Len(x) + Len(y)
            /\ \A k \in 1..(Len(x) + Len(y)) :
                 (x \o y)[k] = IF k <= Len(x) THEN x[k] ELSE y[k - Len(x)]
        BY ConcatProperties
      <4>2. Len(x) = i - 1 /\ Len(y) = l - i /\ (i - 1) + (l - i) = l - 1 BY <2>5
      <4>3. Len(x) + Len(y) = l - 1 BY <4>2
      <4> QED BY <4>1, <4>2, <4>3
    <3>2. r = x \o y BY <2>4, <2>5
    <3>3. DOMAIN r = 1..(l - 1) BY <1>2, <3>1, <3>2, LenProperties
    <3>4. ASSUME NEW k \in 1..(l - 1) PROVE r[k] = (IF k < i THEN c[k] ELSE c[k + 1])
      <4>1. CASE k < i
        <5>1. k \in 1..(i - 1) /\ k <= i - 1 BY <4>1
        <5> QED BY <4>1, <5>1, <3>1, <3>2, <2>5
      <4>2. CASE ~(k < i)
        <5>1. ~(k <= i - 1) /\ k - (i - 1) \in 1..(l - i) /\ k - (i - 1) + i = k + 1 BY <4>2
        <5> QED BY <4>2, <5>1, <3>1, <3>2, <2>5
      <4> QED BY <4>1, <4>2
    <3> QED BY <3>3, <3>4
  <2>7. \A k \in 1..(l - 1) : \E j \in 1..l : r[k] = c[j] /\ j # i /\ j = (IF k < i THEN k ELSE k + 1)
    BY <2>6
  <2>8. ASSUME NEW k \in 1..(l - 1), NEW j \in 1..(l - 1), r[k] = r[j] PROVE k = j
    <3>1. PICK k2 \in 1..l : r[k] = c[k2] /\ k2 = (IF k < i THEN k ELSE k + 1) BY <2>7
    <3>2. PICK j2 \in 1..l : r[j] = c[j2] /\ j2 = (IF j < i THEN j ELSE j + 1) BY <2>7
    <3>3. k2 = j2 BY <3>1, <3>2, <2>2, <2>8
    <3> QED BY <3>1, <3>2, <3>3
  <2>9. \A k \in 1..(l - 1) : r[k] # t /\ \E j \in 1..l : r[k] = c[j] BY <2>2, <2>3, <2>7
  <2>10. c # <<>>
    <3>1. DOMAIN c # {} BY <1>4
    <3> QED BY <3>1
  <2> QED BY <1>1, <1>2, <2>2, <2>6, <2>8, <2>9, <2>10
<1> QED BY <1>3, <1>4

\* Who sleeps is in a call and not awake.
LEMMA SleeperFacts ==
  ASSUME Sleepers, NEW t, t \in awake \/ call[t].op \notin Takers \cup Putters
  PROVE  /\ \A i \in DOMAIN notEmpty : notEmpty[i] # t
         /\ \A i \in DOMAIN notFull : notFull[i] # t
BY DEF Sleepers, Asleep, Takers, Putters

\* Numbers of awake threads.
LEMMA AwakeCount ==
  ASSUME Sleepers, NEW ops, NEW t, NEW d \in SUBSET {t}
  PROVE  /\ Cardinality(AwakeFor(ops)) \in Nat /\ Cardinality(AwakeFor(ops) \ d) \in Nat
         /\ Cardinality(AwakeFor(ops) \ d) >= Cardinality(AwakeFor(ops)) - 1
         /\ d \cap AwakeFor(ops) = {} => Cardinality(AwakeFor(ops) \ d) = Cardinality(AwakeFor(ops))
<1>1. PICK p : p = AwakeFor(ops) OBVIOUS
<1>2. IsFiniteSet(p)
  <2>1. p \in SUBSET awake BY <1>1 DEF AwakeFor
  <2> QED BY <2>1, FS_Subset DEF Sleepers
<1>3. PICK q \in Nat : q = Cardinality(p) BY <1>2, FS_CardinalityType
<1>4. CASE d \cap p = {}
  <2>1. p \ d = p BY <1>4
  <2>2. Cardinality(p \ d) = q BY <1>3, <2>1
  <2> QED BY <1>1, <1>3, <2>2
<1>5. CASE d \cap p # {}
  <2>1. d = {t} /\ t \in p BY <1>5
  <2>2. IsFiniteSet(p \ {t}) /\ Cardinality(p \ {t}) = Cardinality(p) - 1
    BY <1>2, <2>1, FS_RemoveElement
  <2>3. PICK k \in Nat : k = Cardinality(p \ {t}) BY <2>2, FS_CardinalityType
  <2>4. Cardinality(p \ d) = k /\ k = q - 1 BY <1>3, <2>1, <2>2, <2>3
  <2> QED BY <1>1, <1>3, <1>5, <2>4
<1> QED BY <1>4, <1>5

\* No thread is forgotten in this step.
Kept ==
  /\ ~TakerForgotten'
  /\ PutterForgotten' => PutterForgotten \/ SwallowsSignal

\* m threads that wait for an element and n that wait for space are signalled,
\* and a thread of d ends or begins a call.
Rouse(d, m, n) ==
  /\ notEmpty' = Unsignalled(notEmpty, m) /\ notFull' = Unsignalled(notFull, n)
  /\ \A u \in Threads \ d :
       /\ u \in awake' <=> u \in awake \/ u \in Signalled(notEmpty, m) \/ u \in Signalled(notFull, n)
       /\ call'[u] = call[u]
  /\ \A u \in d :
       /\ call'[u].op \notin Takers \cup Putters
       /\ u \in awake \/ call[u].op \notin Takers \cup Putters

\* Such a step leaves the sleepers asleep once each, and counts who is on their way.
LEMMA RouseSleepers ==
  ASSUME Waiters, Sleepers, awake' \in SUBSET Threads,
         NEW t, NEW d \in SUBSET {t}, NEW m \in Nat, NEW n \in Nat, Rouse(d, m, n)
  PROVE  /\ Sleepers'
         /\ notEmpty' # <<>> =>
              /\ notEmpty # <<>>
              /\ Cardinality(AwakeFor(Takers))' = Cardinality(AwakeFor(Takers) \ d) + m
         /\ notFull' # <<>> =>
              /\ notFull # <<>>
              /\ Cardinality(AwakeFor(Putters))' = Cardinality(AwakeFor(Putters) \ d) + n
<1>1. /\ \A ops : AwakeFor(ops) = OnTheirWay(ops, awake, call)
      /\ \A ops : AwakeFor(ops)' = OnTheirWay(ops, awake', call')
  BY DEF AwakeFor, OnTheirWay
<1>2. PICK a2, cl2, e2, f2 : a2 = awake' /\ cl2 = call' /\ e2 = notEmpty' /\ f2 = notFull' OBVIOUS
<1>2a. PICK a, cl, e, f : a = awake /\ cl = call /\ e = notEmpty /\ f = notFull OBVIOUS
<1>3. PICK se \in SUBSET Threads, sf \in SUBSET Threads :
        /\ se = Signalled(notEmpty, m) /\ sf = Signalled(notFull, n)
        /\ IsFiniteSet(se) /\ IsFiniteSet(sf)
        /\ \A u \in se : call[u].op \in Takers
        /\ \A u \in sf : call[u].op \in Putters
  <2>1. \A u \in Signalled(notEmpty, m) : call[u].op \in Takers
    BY DEF Sleepers, Asleep, Signalled
  <2>2. \A u \in Signalled(notFull, n) : call[u].op \in Putters
    BY DEF Sleepers, Asleep, Signalled
  <2>3. IsFiniteSet(Signalled(notEmpty, m)) /\ IsFiniteSet(Signalled(notFull, n))
    BY SignalsCount DEF Sleepers, Asleep
  <2>4. Signalled(notEmpty, m) \in SUBSET Threads /\ Signalled(notFull, n) \in SUBSET Threads
    BY SignalsCount DEF Sleepers, Asleep
  <2> QED BY <2>1, <2>2, <2>3, <2>4
<1>4. /\ a2 \subseteq Threads /\ a \subseteq Threads /\ IsFiniteSet(a)
      /\ \A u \in Threads \ d : u \in a2 <=> u \in a \/ u \in se \/ u \in sf
      /\ \A u \in Threads \ d : cl2[u] = cl[u]
      /\ \A u \in d : /\ cl2[u].op \notin Takers /\ cl2[u].op \notin Putters
                      /\ \A i \in DOMAIN e : e[i] # u
                      /\ \A i \in DOMAIN f : f[i] # u
  BY <1>2, <1>2a, <1>3, SleeperFacts DEF Rouse, Waiters, Sleepers
<1>5. Takers \cap Putters = {} BY DEF Takers, Putters
<1>6. /\ Asleep(e2, Takers, a2, cl2)
      /\ e2 # <<>> =>
           /\ e # <<>>
           /\ Cardinality(OnTheirWay(Takers, a2, cl2)) = Cardinality(OnTheirWay(Takers, a, cl) \ d) + m
  <2>1. Asleep(e, Takers, a, cl) BY <1>2a DEF Sleepers
  <2>2. \A u \in sf : cl[u].op \notin Takers BY <1>2a, <1>3, <1>5
  <2>3. e2 = Unsignalled(e, m) /\ se = Signalled(e, m) BY <1>2, <1>2a, <1>3 DEF Rouse
  <2>4. \A u \in Threads \ d : u \in a2 <=> u \in a \/ u \in Signalled(e, m) \/ u \in sf BY <2>3, <1>4
  <2>5. \A u \in d : cl2[u].op \notin Takers /\ \A i \in DOMAIN e : e[i] # u BY <1>4
  <2>6. Rousing(e, Takers, a, cl, m, d, sf, a2, cl2) BY <2>1, <2>2, <2>4, <2>5, <1>4 DEF Rousing
  <2>7. Signalling(e, Takers, a, cl, m, d, a2, cl2) BY <2>6, Roused
  <2> QED BY <2>3, <2>7 DEF Signalling
<1>7. /\ Asleep(f2, Putters, a2, cl2)
      /\ f2 # <<>> =>
           /\ f # <<>>
           /\ Cardinality(OnTheirWay(Putters, a2, cl2)) = Cardinality(OnTheirWay(Putters, a, cl) \ d) + n
  <2>1. Asleep(f, Putters, a, cl) BY <1>2a DEF Sleepers
  <2>2. \A u \in se : cl[u].op \notin Putters BY <1>2a, <1>3, <1>5
  <2>3. f2 = Unsignalled(f, n) /\ sf = Signalled(f, n) BY <1>2, <1>2a, <1>3 DEF Rouse
  <2>4. \A u \in Threads \ d : u \in a2 <=> u \in a \/ u \in Signalled(f, n) \/ u \in se BY <2>3, <1>4
  <2>5. \A u \in d : cl2[u].op \notin Putters /\ \A i \in DOMAIN f : f[i] # u BY <1>4
  <2>6. Rousing(f, Putters, a, cl, n, d, se, a2, cl2) BY <2>1, <2>2, <2>4, <2>5, <1>4 DEF Rousing
  <2>7. Signalling(f, Putters, a, cl, n, d, a2, cl2) BY <2>6, Roused
  <2> QED BY <2>3, <2>7 DEF Signalling
<1>8. IsFiniteSet(a2)
  <2>1. IsFiniteSet(a \cup se) BY <1>3, <1>4, FS_Union
  <2>2. IsFiniteSet((a \cup se) \cup sf) BY <2>1, <1>3, FS_Union
  <2>3. IsFiniteSet(((a \cup se) \cup sf) \cup {t}) BY <2>2, FS_AddElement
  <2>4. a2 \in SUBSET (((a \cup se) \cup sf) \cup {t}) BY <1>4
  <2> QED BY <2>3, <2>4, FS_Subset
<1>9. Sleepers' BY <1>2, <1>6, <1>7, <1>8 DEF Sleepers, Asleep
<1> QED BY <1>1, <1>2, <1>2a, <1>6, <1>7, <1>9

\* What such a step must leave: as many on their way as before, or as many fewer
\* as there is less to wait for.
LEMMA RouseKeeps ==
  ASSUME Waiters, Sleepers, ~TakerForgotten, awake' \in SUBSET Threads,
         NEW t, NEW d \in SUBSET {t}, NEW m \in Nat, NEW n \in Nat, Rouse(d, m, n),
         count \in Int, count' \in Int,
         \/ d \cap AwakeFor(Takers) = {} /\ count' <= count + m
         \/ count' <= (count - 1) + m
         \/ count' <= 0,
         \/ d \cap AwakeFor(Putters) = {} /\ count' + n >= count
         \/ count' + n >= count + 1
         \/ count' >= Capacity
         \/ SwallowsSignal
  PROVE  Sleepers' /\ Kept
<1>1. /\ Sleepers'
      /\ notEmpty' # <<>> =>
           /\ notEmpty # <<>>
           /\ Cardinality(AwakeFor(Takers))' = Cardinality(AwakeFor(Takers) \ d) + m
      /\ notFull' # <<>> =>
           /\ notFull # <<>>
           /\ Cardinality(AwakeFor(Putters))' = Cardinality(AwakeFor(Putters) \ d) + n
  BY RouseSleepers
<1>2. PICK x \in Nat, y \in Nat :
        /\ x = Cardinality(AwakeFor(Takers)) /\ y = Cardinality(AwakeFor(Takers) \ d)
        /\ y >= x - 1 /\ (d \cap AwakeFor(Takers) = {} => y = x)
  BY AwakeCount
<1>3. PICK p \in Nat, q \in Nat :
        /\ p = Cardinality(AwakeFor(Putters)) /\ q = Cardinality(AwakeFor(Putters) \ d)
        /\ q >= p - 1 /\ (d \cap AwakeFor(Putters) = {} => q = p)
  BY AwakeCount
<1>4. ~TakerForgotten'
  <2> SUFFICES ASSUME notEmpty' # <<>> PROVE ~(Cardinality(AwakeFor(Takers))' < count')
    BY DEF TakerForgotten, Takers
  <2>1. ~(x < count) BY <1>1, <1>2 DEF TakerForgotten, Takers
  <2>2. Cardinality(AwakeFor(Takers))' = y + m BY <1>1, <1>2
  <2>3. ~(y + m < count') BY <2>1, <1>2
  <2> QED BY <2>2, <2>3
<1>5. ASSUME PutterForgotten', ~SwallowsSignal PROVE PutterForgotten
  <2>1. notFull' # <<>> /\ Cardinality(AwakeFor(Putters))' < Capacity - count'
    BY <1>5 DEF PutterForgotten, Putters
  <2>2. q + n < Capacity - count' BY <2>1, <1>1, <1>3
  <2>3. \/ q = p /\ count' + n >= count
        \/ count' + n >= count + 1
        \/ count' >= Capacity
    BY <1>3, <1>5
  <2>4. q >= p - 1 BY <1>3
  <2>5. PICK k \in Int, k2 \in Int : k = count /\ k2 = count' OBVIOUS
  <2>6. p < Capacity - k
    <3>1. q + n < Capacity - k2 /\ k2 \in Int /\ k \in Int BY <2>2, <2>5
    <3>2. (q = p /\ k2 + n >= k) \/ k2 + n >= k + 1 \/ k2 >= Capacity BY <2>3, <2>5
    <3>3. CASE k2 >= Capacity BY <3>1, <3>3
    <3>4. CASE q = p /\ k2 + n >= k BY <3>1, <3>4
    <3>5. CASE k2 + n >= k + 1 BY <3>1, <3>5, <2>4
    <3> QED BY <3>2, <3>3, <3>4, <3>5
  <2>7. p < Capacity - count BY <2>5, <2>6
  <2> QED BY <2>1, <2>7, <1>1, <1>3 DEF PutterForgotten, Putters
<1> QED BY <1>1, <1>4, <1>5 DEF Kept

\* A signal of nothing.
LEMMA NoSignal ==
  ASSUME Waiters
  PROVE  /\ Unsignalled(notEmpty, 0) = notEmpty /\ Signalled(notEmpty, 0) = {}
         /\ Unsignalled(notFull, 0) = notFull /\ Signalled(notFull, 0) = {}
<1>1. ASSUME NEW c \in Seq(Threads) PROVE Unsignalled(c, 0) = c /\ Signalled(c, 0) = {}
  <2>1. DOMAIN c = 1..Len(c) /\ Len(c) \in Nat BY LenProperties
  <2>2. Signalled(c, 0) = {} BY <2>1 DEF Signalled
  <2>3. SubSeq(c, 1, Len(c)) = c OBVIOUS
  <2> QED BY <2>2, <2>3 DEF Unsignalled
<1> QED BY <1>1 DEF Waiters

\* Nobody is signalled.
LEMMA QuietKeeps ==
  ASSUME Waiters, Sleepers, ~TakerForgotten, UNCHANGED <<notEmpty, notFull, awake, call, count>>,
         count \in Int
  PROVE  Sleepers' /\ Kept
<1>1. Sleepers' BY DEF Sleepers, Asleep
<1>2. TakerForgotten' = TakerForgotten /\ PutterForgotten' = PutterForgotten
  BY DEF TakerForgotten, PutterForgotten, AwakeFor
<1> QED BY <1>1, <1>2 DEF Kept

\* n slots were emptied by a call of nobody who waits.
LEMMA RoomKeeps ==
  ASSUME Waiters, Sleepers, ~TakerForgotten, NEW n \in Nat, SignalNotFull(n),
         awake' = awake \cup Signalled(notFull, n), call' = call,
         count \in Int, count' = count - n
  PROVE  Sleepers' /\ Kept
<1>1. awake' \in SUBSET Threads BY WaitersFacts
<1>2. Rouse({}, 0, n) BY NoSignal DEF Rouse, SignalNotFull
<1>3. {} \in SUBSET {0} OBVIOUS
<1>4. count' \in Int /\ 0 \in Nat OBVIOUS
<1>5. {} \cap AwakeFor(Takers) = {} /\ count' <= count + 0 OBVIOUS
<1>6. {} \cap AwakeFor(Putters) = {} /\ count' + n >= count OBVIOUS
<1> QED BY <1>1, <1>2, <1>3, <1>4, <1>5, <1>6, RouseKeeps

\* t begins a call, or goes on with it.
Caller(t, c) == call[t] = NoCall \/ (t \in awake /\ call[t] = c)

\* Who goes to sleep at condition c; who sleeps elsewhere.
LEMMA GoesToSleep ==
  ASSUME NEW c, NEW ops, NEW a, NEW cl, NEW t \in Threads, NEW x, NEW cl2,
         Asleep(c, ops, a, cl), \A i \in DOMAIN c : c[i] # t,
         cl \in [Threads -> Calls], cl2 = [cl EXCEPT ![t] = x]
  PROVE  /\ Asleep(c, ops, a \ {t}, cl2)
         /\ x.op \in ops => Asleep(Append(c, t), ops, a \ {t}, cl2)
<1>1. c \in Seq(Threads) /\ DOMAIN c = 1..Len(c) /\ Len(c) \in Nat /\ \A i \in DOMAIN c : c[i] \in Threads
  <2>1. c \in Seq(Threads) BY DEF Asleep
  <2> QED BY <2>1, LenProperties
<1>2. \A i, j \in DOMAIN c : c[i] = c[j] => i = j BY DEF Asleep
<1>3. \A i \in DOMAIN c : c[i] \notin a \ {t} /\ cl2[c[i]].op \in ops
  BY <1>1 DEF Asleep
<1>4. Asleep(c, ops, a \ {t}, cl2) BY <1>1, <1>2, <1>3 DEF Asleep
<1>5. ASSUME x.op \in ops PROVE Asleep(Append(c, t), ops, a \ {t}, cl2)
  <2>1. PICK l \in Nat : l = Len(c) BY <1>1
  <2>2. PICK r \in Seq(Threads) :
          /\ r = Append(c, t) /\ DOMAIN r = 1..(l + 1)
          /\ \A i \in 1..l : r[i] = c[i]
          /\ r[l + 1] = t
    <3>1. /\ Append(c, t) \in Seq(Threads) /\ Len(Append(c, t)) = Len(c) + 1
          /\ \A i \in 1..Len(c) : Append(c, t)[i] = c[i]
          /\ Append(c, t)[Len(c) + 1] = t
      BY <1>1, AppendProperties
    <3>2. DOMAIN Append(c, t) = 1..(l + 1) BY <2>1, <3>1, LenProperties
    <3> QED BY <2>1, <3>1, <3>2
  <2>3. DOMAIN c = 1..l BY <1>1, <2>1
  <2>4. ASSUME NEW i \in 1..(l + 1), NEW j \in 1..(l + 1), r[i] = r[j] PROVE i = j
    <3>1. CASE i = l + 1 /\ j = l + 1 BY <3>1
    <3>2. CASE i = l + 1 /\ j # l + 1
      <4>1. j \in 1..l BY <3>2
      <4> QED BY <4>1, <3>2, <2>2, <2>3, <2>4
    <3>3. CASE i # l + 1 /\ j = l + 1
      <4>1. i \in 1..l BY <3>3
      <4> QED BY <4>1, <3>3, <2>2, <2>3, <2>4
    <3>4. CASE i # l + 1 /\ j # l + 1
      <4>1. i \in 1..l /\ j \in 1..l BY <3>4
      <4> QED BY <4>1, <2>2, <2>3, <2>4, <1>2
    <3> QED BY <3>1, <3>2, <3>3, <3>4
  <2>5. ASSUME NEW i \in 1..(l + 1) PROVE r[i] \notin a \ {t} /\ cl2[r[i]].op \in ops
    <3>1. CASE i = l + 1
      <4>1. r[i] = t BY <3>1, <2>2
      <4>2. cl2[t] = x OBVIOUS
      <4> QED BY <4>1, <4>2, <1>5
    <3>2. CASE i # l + 1
      <4>1. i \in 1..l BY <3>2
      <4> QED BY <4>1, <2>2, <2>3, <1>3
    <3> QED BY <3>1, <3>2
  <2> QED BY <2>2, <2>4, <2>5 DEF Asleep
<1> QED BY <1>4, <1>5

\* Who is interrupted, or whose time is over.
LEMMA LeavesSleep ==
  ASSUME NEW c, NEW ops, NEW a, NEW cl, NEW t \in Threads, NEW a2, NEW cl2,
         Asleep(c, ops, a, cl), a2 \subseteq a \cup {t},
         \A u \in Threads \ {t} : cl2[u] = cl[u]
  PROVE  Asleep(Leave(c, t), ops, a2, cl2)
<1>1. c \in Seq(Threads) /\ (\A i, j \in DOMAIN c : c[i] = c[j] => i = j)
  BY DEF Asleep
<1>2. PICK r : r = Leave(c, t) OBVIOUS
<1>3. /\ r \in Seq(Threads)
      /\ \A i, j \in DOMAIN r : r[i] = r[j] => i = j
      /\ \A i \in DOMAIN r : r[i] # t /\ \E k \in DOMAIN c : r[i] = c[k]
  BY <1>1, <1>2, LeaveFacts
<1>4. ASSUME NEW i \in DOMAIN r PROVE r[i] \notin a2 /\ cl2[r[i]].op \in ops
  <2>1. PICK k \in DOMAIN c : r[i] = c[k] BY <1>3
  <2>2. r[i] # t /\ r[i] \in Threads BY <1>3, LenProperties
  <2>3. c[k] \notin a /\ cl[c[k]].op \in ops BY DEF Asleep
  <2> QED BY <2>1, <2>2, <2>3
<1> QED BY <1>2, <1>3, <1>4 DEF Asleep

\* A call waits, which it does only when there is nothing for it.
LEMMA WaitKeeps ==
  ASSUME Waiters, Sleepers, ~TakerForgotten, NEW t \in Threads, NEW c \in Calls, Caller(t, c),
         (c.op \in Takers /\ count = 0) \/ (c.op \in Putters /\ count = Capacity),
         WaitOrGiveUp(t, c), count' = count
  PROVE  Sleepers' /\ Kept
<1>0. NoCall \in Calls /\ NoCall.op = "none" /\ "none" \notin Takers \cup Putters /\ Takers \cap Putters = {}
  BY DEF NoCall, Calls, Takers, Putters
<1>1. call \in [Threads -> Calls] /\ awake \subseteq Threads /\ IsFiniteSet(awake)
      /\ Asleep(notEmpty, Takers, awake, call) /\ Asleep(notFull, Putters, awake, call)
  BY DEF Waiters, Sleepers
<1>2. /\ \A i \in DOMAIN notEmpty : notEmpty[i] # t
      /\ \A i \in DOMAIN notFull : notFull[i] # t
  BY <1>0, SleeperFacts DEF Caller
<1>3. CASE Return(t, {}) /\ UNCHANGED <<notEmpty, notFull>>
  <2>1. awake' = awake \ {t} /\ call' = [call EXCEPT ![t] = NoCall] BY <1>3 DEF Return
  <2>2. Rouse({t}, 0, 0)
    <3>1. call'[t].op \notin Takers \cup Putters BY <2>1, <1>0, <1>1
    <3>2. t \in awake \/ call[t].op \notin Takers \cup Putters BY <1>0 DEF Caller
    <3> QED BY <3>1, <3>2, <2>1, <1>1, <1>3, NoSignal DEF Rouse
  <2>3. awake' \in SUBSET Threads BY <2>1, <1>1
  <2>4. count \in Int /\ count' \in Int /\ 0 \in Nat BY DEF Takers
  <2>5. \/ {t} \cap AwakeFor(Takers) = {} /\ count' <= count + 0
        \/ count' <= (count - 1) + 0
        \/ count' <= 0
    <3>1. CASE c.op \in Takers /\ count = 0 BY <3>1
    <3>2. CASE c.op \in Putters
      <4>1. {t} \cap AwakeFor(Takers) = {} BY <3>2, <1>0 DEF Caller, AwakeFor
      <4> QED BY <4>1, <2>4
    <3> QED BY <3>1, <3>2
  <2>6. \/ {t} \cap AwakeFor(Putters) = {} /\ count' + 0 >= count
        \/ count' + 0 >= count + 1
        \/ count' >= Capacity
    <3>1. CASE c.op \in Putters /\ count = Capacity BY <3>1
    <3>2. CASE c.op \in Takers
      <4>1. {t} \cap AwakeFor(Putters) = {} BY <3>2, <1>0 DEF Caller, AwakeFor
      <4> QED BY <4>1, <2>4
    <3> QED BY <3>1, <3>2
  <2>7. {t} \in SUBSET {t} OBVIOUS
  <2> QED BY <2>2, <2>3, <2>4, <2>5, <2>6, <2>7, RouseKeeps
<1>4. CASE /\ call' = [call EXCEPT ![t] = c] /\ awake' = awake \ {t}
           /\ IF c.op \in {"put", "timedOffer"}
              THEN notFull' = Append(notFull, t) /\ UNCHANGED notEmpty
              ELSE notEmpty' = Append(notEmpty, t) /\ UNCHANGED notFull
  <2>1. PICK a2, cl2 : a2 = awake' /\ cl2 = call' OBVIOUS
  <2>2. PICK a, cl : a = awake /\ cl = call OBVIOUS
  <2>3. PICK e, f : e = notEmpty /\ f = notFull OBVIOUS
  <2>4. a2 = a \ {t} /\ cl2 = [cl EXCEPT ![t] = c] /\ cl \in [Threads -> Calls]
    BY <2>1, <2>2, <1>1, <1>4
  <2>5. /\ Asleep(e, Takers, a2, cl2) /\ (c.op \in Takers => Asleep(Append(e, t), Takers, a2, cl2))
    <3>1. Asleep(e, Takers, a, cl) /\ \A i \in DOMAIN e : e[i] # t BY <2>2, <2>3, <1>1, <1>2
    <3> QED BY <3>1, <2>4, GoesToSleep
  <2>6. /\ Asleep(f, Putters, a2, cl2) /\ (c.op \in Putters => Asleep(Append(f, t), Putters, a2, cl2))
    <3>1. Asleep(f, Putters, a, cl) /\ \A i \in DOMAIN f : f[i] # t BY <2>2, <2>3, <1>1, <1>2
    <3> QED BY <3>1, <2>4, GoesToSleep
  <2>7. Asleep(notEmpty', Takers, a2, cl2) /\ Asleep(notFull', Putters, a2, cl2)
    <3>1. CASE c.op \in Putters
      <4>1. notFull' = Append(f, t) /\ notEmpty' = e BY <3>1, <2>3, <1>4 DEF Putters
      <4> QED BY <4>1, <3>1, <2>5, <2>6
    <3>2. CASE c.op \in Takers
      <4>1. notEmpty' = Append(e, t) /\ notFull' = f BY <3>2, <2>3, <1>4 DEF Takers
      <4> QED BY <4>1, <3>2, <2>5, <2>6
    <3> QED BY <3>1, <3>2
  <2>8. IsFiniteSet(awake') BY <1>1, <1>4, FS_RemoveElement
  <2>9. Sleepers' BY <2>1, <2>7, <2>8 DEF Sleepers, Asleep
  <2>10. \A ops : c.op \notin ops /\ "none" \notin ops => AwakeFor(ops)' = AwakeFor(ops)
    <3> SUFFICES ASSUME NEW ops, c.op \notin ops, "none" \notin ops PROVE AwakeFor(ops)' = AwakeFor(ops)
      OBVIOUS
    <3>1. call[t].op \notin ops BY <1>0 DEF Caller
    <3> QED BY <3>1, <1>1, <1>4 DEF AwakeFor
  <2>11. CASE c.op \in Takers /\ count = 0
    <3>1. AwakeFor(Putters)' = AwakeFor(Putters) /\ notFull' = notFull
      BY <2>10, <2>11, <1>0, <1>4 DEF Takers, Putters
    <3>2. PutterForgotten' => PutterForgotten BY <3>1 DEF PutterForgotten, Putters
    <3>3. ~TakerForgotten'
      <4>1. IsFiniteSet(AwakeFor(Takers)')
        <5>1. AwakeFor(Takers)' \in SUBSET awake' BY DEF AwakeFor
        <5> QED BY <5>1, <2>8, FS_Subset
      <4>2. PICK k \in Nat : k = Cardinality(AwakeFor(Takers)') BY <4>1, FS_CardinalityType
      <4>3. Cardinality(AwakeFor(Takers))' = k /\ count' = 0 BY <4>2, <2>11
      <4>4. ~(Cardinality(AwakeFor(Takers))' < count') BY <4>3
      <4> QED BY <4>4 DEF TakerForgotten, Takers
    <3> QED BY <2>9, <3>2, <3>3 DEF Kept
  <2>12. CASE c.op \in Putters /\ count = Capacity
    <3>1. AwakeFor(Takers)' = AwakeFor(Takers) /\ notEmpty' = notEmpty
      BY <2>10, <2>12, <1>0, <1>4 DEF Takers, Putters
    <3>2. ~TakerForgotten' BY <3>1 DEF TakerForgotten, Takers
    <3>3. ~PutterForgotten'
      <4>1. IsFiniteSet(AwakeFor(Putters)')
        <5>1. AwakeFor(Putters)' \in SUBSET awake' BY DEF AwakeFor
        <5> QED BY <5>1, <2>8, FS_Subset
      <4>2. PICK k \in Nat : k = Cardinality(AwakeFor(Putters)') BY <4>1, FS_CardinalityType
      <4>3. Cardinality(AwakeFor(Putters))' = k /\ Capacity - count' = 0 BY <4>2, <2>12
      <4>4. ~(Cardinality(AwakeFor(Putters))' < Capacity - count') BY <4>3
      <4> QED BY <4>4 DEF PutterForgotten, Putters
    <3> QED BY <2>9, <3>2, <3>3 DEF Kept
  <2> QED BY <2>11, <2>12
<1> QED BY <1>3, <1>4 DEF WaitOrGiveUp

\* enqueue(e), called by t or by nobody who waits.
LEMMA EnqueueKeeps ==
  ASSUME Waiters, Sleepers, ~TakerForgotten, count \in Int, NEW e, Enqueue(e), notFull' = notFull,
         NEW t, NEW d \in SUBSET {t}, awake' = (awake \ d) \cup Woken(e),
         \A u \in Threads \ d : call'[u] = call[u],
         \A u \in d : call'[u].op = "none",
         \A u \in d : call[u].op = "none" \/
                        (u \in awake /\ call[u].op \in Putters /\ call[u].elem = e)
  PROVE  Sleepers' /\ Kept
<1>1. "none" \notin Takers \cup Putters /\ Takers \cap Putters = {} BY DEF Takers, Putters
<1>2. PICK m \in Nat : /\ m = Signals(e) /\ notEmpty' = Unsignalled(notEmpty, m)
                       /\ Woken(e) = Signalled(notEmpty, m) /\ count' = count + m
                       /\ (m = 0 <=> e \in keys) /\ m <= 1
  <2>1. CASE e \in keys
    <3>1. Signals(e) = 0 /\ notEmpty' = notEmpty /\ count' = count
      BY <2>1 DEF Signals, Enqueue, array
    <3>2. Woken(e) = Signalled(notEmpty, 0) BY <3>1 DEF Woken
    <3> QED BY <2>1, <3>1, <3>2, NoSignal
  <2>2. CASE e \notin keys
    <3>1. Signals(e) = 1 /\ notEmpty' = Unsignalled(notEmpty, Signals(e)) /\ count' = count + 1
      BY <2>2 DEF Signals, Enqueue
    <3>2. Woken(e) = Signalled(notEmpty, 1) BY <3>1 DEF Woken
    <3> QED BY <2>2, <3>1, <3>2
  <2> QED BY <2>1, <2>2
<1>3. Rouse(d, m, 0)
  <2>1. \A u \in d : /\ call'[u].op \notin Takers \cup Putters
                     /\ u \in awake \/ call[u].op \notin Takers \cup Putters
    BY <1>1
  <2> QED BY <2>1, <1>2, NoSignal DEF Rouse
<1>4. awake' \in SUBSET Threads
  <2>1. Woken(e) \subseteq Threads BY WaitersFacts
  <2> QED BY <2>1 DEF Waiters
<1>5. d \cap AwakeFor(Takers) = {} /\ count' <= count + m BY <1>1, <1>2 DEF AwakeFor
<1>6. \/ d \cap AwakeFor(Putters) = {} /\ count' + 0 >= count
      \/ count' + 0 >= count + 1
      \/ SwallowsSignal
  <2>1. CASE m = 0 /\ d \cap AwakeFor(Putters) = {} BY <2>1, <1>2
  <2>2. CASE m = 0 /\ d \cap AwakeFor(Putters) # {}
    <3>1. PICK u \in d : u \in AwakeFor(Putters) BY <2>2
    <3>2. call[u].op # "none" BY <3>1, <1>1 DEF AwakeFor
    <3>3. call[u].elem \in keys BY <3>2, <2>2, <1>2
    <3>4. Woken(e) = {} BY <2>2, <1>2, NoSignal
    <3>5. u \notin awake' BY <3>1, <3>4
    <3> QED BY <3>1, <3>3, <3>5 DEF SwallowsSignal, Putters
  <2>3. CASE m # 0 BY <2>3, <1>2
  <2> QED BY <2>1, <2>2, <2>3
<1>7. 0 \in Nat /\ count' \in Int BY <1>2
<1> QED BY <1>3, <1>4, <1>5, <1>6, <1>7, RouseKeeps

\* The loops of put and offer, and of take and poll.
LEMMA InsertKeeps ==
  ASSUME IInv, Sleepers, ~TakerForgotten, NEW t \in Threads, NEW c \in Calls, c.op \in Putters,
         Caller(t, c), Insert(t, c)
  PROVE  Sleepers' /\ Kept
<1>1. Waiters /\ count \in Int BY DEF IInv, Watched, Array
<1>2. CASE Enqueue(c.elem) /\ Return(t, Woken(c.elem)) /\ notFull' = notFull
  <2>1. awake' = (awake \ {t}) \cup Woken(c.elem) /\ call' = [call EXCEPT ![t] = NoCall]
    BY <1>2 DEF Return
  <2>2. call'[t].op = "none" /\ \A u \in Threads \ {t} : call'[u] = call[u]
    BY <2>1, <1>1 DEF Waiters, NoCall
  <2>3. PICK e, d : e = c.elem /\ d = {t} OBVIOUS
  <2>4. d \in SUBSET {t} /\ Enqueue(e) /\ notFull' = notFull /\ awake' = (awake \ d) \cup Woken(e)
    BY <1>2, <2>1, <2>3
  <2>5. \A u \in d : call[u].op = "none" \/
                       (u \in awake /\ call[u].op \in Putters /\ call[u].elem = e)
    BY <2>3 DEF Caller, NoCall
  <2>6. (\A u \in Threads \ d : call'[u] = call[u]) /\ \A u \in d : call'[u].op = "none"
    BY <2>2, <2>3
  <2> QED BY <1>1, <2>4, <2>5, <2>6, EnqueueKeeps
<1>3. CASE count = Capacity /\ WaitOrGiveUp(t, c) /\ UNCHANGED array
  <2>1. count' = count BY <1>3 DEF array
  <2> QED BY <1>1, <1>3, <2>1, WaitKeeps
<1> QED BY <1>2, <1>3 DEF Insert

LEMMA ExtractKeeps ==
  ASSUME IInv, Sleepers, ~TakerForgotten, NEW t \in Threads, NEW c \in Calls, c.op \in Takers,
         Caller(t, c), Extract(t, c)
  PROVE  Sleepers' /\ Kept
<1>0. "none" \notin Takers \cup Putters /\ Takers \cap Putters = {} BY DEF Takers, Putters
<1>1. Waiters /\ count \in Int BY DEF IInv, Watched, Array
<1>2. CASE Dequeue /\ Return(t, Signalled(notFull, 1))
  <2>1. awake' = (awake \ {t}) \cup Signalled(notFull, 1) /\ call' = [call EXCEPT ![t] = NoCall]
    BY <1>2 DEF Return
  <2>2. call'[t].op = "none" /\ \A u \in Threads \ {t} : call'[u] = call[u]
    BY <2>1, <1>1 DEF Waiters, NoCall
  <2>3. /\ notEmpty' = notEmpty /\ notFull' = Unsignalled(notFull, 1) /\ count' = count - 1
    BY <1>2 DEF Dequeue, RemoveFront, SignalNotFull
  <2>4. Rouse({t}, 0, 1)
    <3>1. t \in awake \/ call[t].op \notin Takers \cup Putters BY <1>0 DEF Caller, NoCall
    <3> QED BY <3>1, <2>1, <2>2, <2>3, <1>0, <1>1, NoSignal DEF Rouse
  <2>5. awake' \in SUBSET Threads BY <2>1, <1>1, WaitersFacts
  <2>6. {t} \cap AwakeFor(Putters) = {} BY <1>0 DEF Caller, AwakeFor, NoCall
  <2>7. {t} \in SUBSET {t} /\ 0 \in Nat /\ 1 \in Nat /\ count' \in Int BY <2>3, <1>1
  <2>8. count' <= (count - 1) + 0 /\ count' + 1 >= count BY <2>3, <1>1
  <2> QED BY <1>1, <2>4, <2>5, <2>6, <2>7, <2>8, RouseKeeps
<1>3. CASE count = 0 /\ WaitOrGiveUp(t, c) /\ UNCHANGED array
  <2>1. count' = count BY <1>3 DEF array
  <2>2. (c.op \in Takers /\ count = 0) \/ (c.op \in Putters /\ count = Capacity) BY <1>3
  <2>3. WaitOrGiveUp(t, c) BY <1>3
  <2> QED BY <1>1, <2>1, <2>2, <2>3, WaitKeeps
<1> QED BY <1>2, <1>3 DEF Extract

\* A call that is not the call of a waiting thread begins or ends.
LEMMA CallKeeps ==
  ASSUME Waiters, Sleepers, ~TakerForgotten, NEW t \in Threads, NEW x, NEW n \in Nat,
         call[t].op \notin Takers \cup Putters, x.op \notin Takers \cup Putters,
         call' = [call EXCEPT ![t] = x], SignalNotFull(n),
         \A u \in Threads \ {t} : u \in awake' <=> u \in awake \/ u \in Signalled(notFull, n),
         awake' \in SUBSET Threads, count \in Int, count' = count - n
  PROVE  Sleepers' /\ Kept
<1>1. call'[t] = x /\ \A u \in Threads \ {t} : call'[u] = call[u] BY DEF Waiters
<1>2. Rouse({t}, 0, n) BY <1>1, NoSignal DEF Rouse, SignalNotFull
<1>3. {t} \cap AwakeFor(Putters) = {} /\ {t} \cap AwakeFor(Takers) = {} BY DEF AwakeFor
<1>4. {t} \in SUBSET {t} /\ 0 \in Nat /\ count' \in Int OBVIOUS
<1>5. count' <= count + 0 /\ count' + n >= count OBVIOUS
<1> QED BY <1>2, <1>3, <1>4, <1>5, RouseKeeps

\* Timeouts and interrupts.
LEMMA LeaveKeeps ==
  ASSUME Waiters, Sleepers, ~TakerForgotten, NEW t \in Threads, Waiting(t),
         notEmpty' = Leave(notEmpty, t), notFull' = Leave(notFull, t),
         count \in Int, count' = count,
         \A u \in Threads \ {t} : call'[u] = call[u],
         \/ awake' = awake
         \/ awake' = awake \cup {t}
  PROVE  Sleepers' /\ Kept
<1>1. awake \subseteq Threads /\ IsFiniteSet(awake)
      /\ Asleep(notEmpty, Takers, awake, call) /\ Asleep(notFull, Putters, awake, call)
  BY DEF Waiters, Sleepers
<1>2. t \notin awake BY <1>1 DEF Waiting, Asleep
<1>3. PICK a2, cl2 : a2 = awake' /\ cl2 = call' OBVIOUS
<1>4. PICK a, cl : a = awake /\ cl = call OBVIOUS
<1>5. PICK e, f : e = notEmpty /\ f = notFull OBVIOUS
<1>6. a2 \subseteq a \cup {t} /\ \A u \in Threads \ {t} : cl2[u] = cl[u] BY <1>3, <1>4
<1>7. Asleep(Leave(e, t), Takers, a2, cl2)
  <2>1. Asleep(e, Takers, a, cl) BY <1>1, <1>4, <1>5
  <2> QED BY <2>1, <1>6, LeavesSleep
<1>8. Asleep(Leave(f, t), Putters, a2, cl2)
  <2>1. Asleep(f, Putters, a, cl) BY <1>1, <1>4, <1>5
  <2> QED BY <2>1, <1>6, LeavesSleep
<1>9. IsFiniteSet(awake') BY <1>1, FS_AddElement
<1>10. Sleepers' BY <1>3, <1>5, <1>7, <1>8, <1>9 DEF Sleepers, Asleep
<1>11. (notEmpty' # <<>> => notEmpty # <<>>) /\ (notFull' # <<>> => notFull # <<>>)
  BY <1>1, LeaveFacts DEF Asleep
<1>12. ASSUME NEW ops
       PROVE  /\ Cardinality(AwakeFor(ops)) \in Nat /\ Cardinality(AwakeFor(ops)') \in Nat
              /\ Cardinality(AwakeFor(ops)) <= Cardinality(AwakeFor(ops)')
  <2>1. AwakeFor(ops) \in SUBSET AwakeFor(ops)' BY <1>1, <1>2 DEF AwakeFor
  <2>2. AwakeFor(ops)' \in SUBSET awake' BY DEF AwakeFor
  <2>3. IsFiniteSet(AwakeFor(ops)') BY <2>2, <1>9, FS_Subset
  <2>4. IsFiniteSet(AwakeFor(ops)) BY <2>1, <2>3, FS_Subset
  <2>5. Cardinality(AwakeFor(ops)) \in Nat BY <2>4, FS_CardinalityType
  <2>6. Cardinality(AwakeFor(ops)') \in Nat BY <2>3, FS_CardinalityType
  <2>7. Cardinality(AwakeFor(ops)) <= Cardinality(AwakeFor(ops)') BY <2>1, <2>3, FS_Subset
  <2> QED BY <2>5, <2>6, <2>7
<1>13. ~TakerForgotten'
  <2> SUFFICES ASSUME TakerForgotten' PROVE FALSE OBVIOUS
  <2>1. PICK x \in Nat, y \in Nat :
          x = Cardinality(AwakeFor(Takers)) /\ y = Cardinality(AwakeFor(Takers)') /\ x <= y
    BY <1>12
  <2>2. notEmpty # <<>> /\ y < count BY <2>1, <1>11 DEF TakerForgotten, Takers
  <2>3. ~(x < count) BY <2>1, <2>2 DEF TakerForgotten, Takers
  <2> QED BY <2>1, <2>2, <2>3
<1>14. ASSUME PutterForgotten' PROVE PutterForgotten
  <2>1. PICK x \in Nat, y \in Nat :
          x = Cardinality(AwakeFor(Putters)) /\ y = Cardinality(AwakeFor(Putters)') /\ x <= y
    BY <1>12
  <2>2. PICK z \in Int : z = Capacity - count OBVIOUS
  <2>3. notFull # <<>> /\ y < z BY <2>1, <2>2, <1>11, <1>14 DEF PutterForgotten, Putters
  <2>4. x < z BY <2>1, <2>2, <2>3
  <2> QED BY <2>1, <2>2, <2>3, <2>4 DEF PutterForgotten, Putters
<1> QED BY <1>10, <1>13, <1>14 DEF Kept

-----------------------------------------------------------------------------
\* Every step leaves who sleeps asleep for a reason.
LEMMA NextKeeps == ASSUME IInv, Sleepers, ~TakerForgotten, [Next]_vars PROVE Sleepers' /\ Kept
<1>0. Waiters /\ call \in [Threads -> Calls] /\ count \in Int /\ count \in 0..Capacity
  BY DEF IInv, Watched, Array, Waiters
<1>1. ASSUME NEW t \in Threads, NEW e \in Elements, Put(t, e) PROVE Sleepers' /\ Kept
  <2>1. PICK op \in Putters : Insert(t, Call(op, e)) /\ call[t] = NoCall BY <1>1 DEF Put, Putters
  <2>2. PICK c : c = Call(op, e) OBVIOUS
  <2>3. c \in Calls /\ c.op \in Putters BY <2>2 DEF Call, Calls, Putters
  <2> QED BY <2>1, <2>2, <2>3, InsertKeeps DEF Caller
<1>2. ASSUME NEW t \in Threads, Take(t) PROVE Sleepers' /\ Kept
  <2>1. PICK op \in Takers : Extract(t, Call(op, Null)) /\ call[t] = NoCall BY <1>2 DEF Take, Takers
  <2>2. PICK c : c = Call(op, Null) OBVIOUS
  <2>3. c \in Calls /\ c.op \in Takers BY <2>2 DEF Call, Calls, Takers
  <2> QED BY <2>1, <2>2, <2>3, ExtractKeeps DEF Caller
<1>3. ASSUME NEW t \in Threads, Resume(t) PROVE Sleepers' /\ Kept
  <2>1. PICK c : c = call[t] OBVIOUS
  <2>2. c \in Calls /\ Caller(t, c) BY <2>1, <1>0, <1>3 DEF Resume, Caller
  <2>3. CASE c.op \in Putters /\ Insert(t, c) BY <2>2, <2>3, InsertKeeps
  <2>4. CASE c.op \in Takers /\ Extract(t, c) BY <2>2, <2>4, ExtractKeeps
  <2> QED BY <1>3, <2>1, <2>3, <2>4 DEF Resume, Takers, Putters
<1>4. ASSUME NEW t \in Threads, Timeout(t) PROVE Sleepers' /\ Kept
  <2>1. /\ Waiting(t) /\ notEmpty' = Leave(notEmpty, t) /\ notFull' = Leave(notFull, t)
        /\ count' = count /\ awake' = awake \cup {t}
        /\ \A u \in Threads \ {t} : call'[u] = call[u]
    BY <1>0, <1>4 DEF Timeout, array
  <2> QED BY <1>0, <2>1, LeaveKeeps
<1>5. ASSUME NEW t \in Threads, Interrupt(t) PROVE Sleepers' /\ Kept
  <2>1. /\ Waiting(t) /\ notEmpty' = Leave(notEmpty, t) /\ notFull' = Leave(notFull, t)
        /\ count' = count /\ awake' = awake
        /\ \A u \in Threads \ {t} : call'[u] = call[u]
    BY <1>0, <1>5 DEF Interrupt, array
  <2> QED BY <1>0, <2>1, LeaveKeeps
<1>6. SignalNotFull(0) <=> UNCHANGED <<notEmpty, notFull>>
  BY <1>0, NoSignal DEF SignalNotFull
<1>7. NoCall.op \notin Takers \cup Putters BY DEF NoCall, Takers, Putters
<1>8. ASSUME NEW t \in Threads, NEW e \in Elements, RemoveKey(t, e) PROVE Sleepers' /\ Kept
  <2>1. PICK x : x = Call("remove", e) OBVIOUS
  <2>2. x.op \notin Takers \cup Putters /\ call[t].op \notin Takers \cup Putters
    BY <2>1, <1>7, <1>8 DEF RemoveKey, Call, Takers, Putters
  <2>3. call' = [call EXCEPT ![t] = x] /\ awake' = awake /\ count' = count - 0 /\ SignalNotFull(0)
    BY <2>1, <1>0, <1>6, <1>8 DEF RemoveKey
  <2>4. awake' \in SUBSET Threads /\ Signalled(notFull, 0) = {} BY <2>3, <1>0, NoSignal DEF Waiters
  <2>5. 0 \in Nat OBVIOUS
  <2> QED BY <2>2, <2>3, <2>4, <2>5, <1>0, CallKeeps
<1>9. ASSUME NEW t \in Threads, Remove(t) PROVE Sleepers' /\ Kept
  <2>1. call[t].op \notin Takers \cup Putters BY <1>9 DEF Remove, Takers, Putters
  <2>2. PICK x : x = NoCall OBVIOUS
  <2>3. CASE Return(t, Signalled(notFull, 1)) /\ SignalNotFull(1) /\ count' = count - 1
    <3>1. call' = [call EXCEPT ![t] = x] /\ awake' = (awake \ {t}) \cup Signalled(notFull, 1)
      BY <2>2, <2>3 DEF Return
    <3>2. awake' \in SUBSET Threads BY <3>1, <1>0, WaitersFacts DEF Waiters
    <3>3. \A u \in Threads \ {t} : u \in awake' <=> u \in awake \/ u \in Signalled(notFull, 1) BY <3>1
    <3>4. 1 \in Nat /\ x.op \notin Takers \cup Putters BY <2>2, <1>7
    <3> QED BY <2>1, <2>3, <3>1, <3>2, <3>3, <3>4, <1>0, CallKeeps
  <2>4. CASE Return(t, {}) /\ UNCHANGED <<notEmpty, notFull, count>>
    <3>1. call' = [call EXCEPT ![t] = x] /\ awake' = awake \ {t} BY <2>2, <2>4 DEF Return
    <3>2. awake' \in SUBSET Threads /\ Signalled(notFull, 0) = {} BY <3>1, <1>0, NoSignal DEF Waiters
    <3>3. \A u \in Threads \ {t} : u \in awake' <=> u \in awake \/ u \in Signalled(notFull, 0) BY <3>1, <3>2
    <3>4. 0 \in Nat /\ x.op \notin Takers \cup Putters BY <2>2, <1>7
    <3>5. SignalNotFull(0) /\ count' = count - 0 BY <2>4, <1>0, <1>6
    <3> QED BY <2>1, <3>1, <3>2, <3>3, <3>4, <3>5, <1>0, CallKeeps
  <2> QED BY <1>9, <2>3, <2>4 DEF Remove, RemoveAt, RemoveFront, array
<1>10. ASSUME NEW e \in Elements, Offer(e) PROVE Sleepers' /\ Kept
  <2>0. PICK d : d = {} OBVIOUS
  <2>1. /\ Enqueue(e) /\ notFull' = notFull /\ awake' = (awake \ d) \cup Woken(e)
        /\ \A u \in Threads \ d : call'[u] = call[u]
    BY <2>0, <1>10 DEF Offer
  <2>2. d \in SUBSET {0} /\ (\A u \in d : call'[u].op = "none")
        /\ \A u \in d : call[u].op = "none" \/
                          (u \in awake /\ call[u].op \in Putters /\ call[u].elem = e)
    BY <2>0
  <2> QED BY <2>1, <2>2, <1>0, EnqueueKeeps
<1>11. CASE Poll
  <2>1. /\ SignalNotFull(1) /\ count' = count - 1
        /\ awake' = awake \cup Signalled(notFull, 1) /\ call' = call
    BY <1>11 DEF Poll, Dequeue, RemoveFront
  <2>2. 1 \in Nat OBVIOUS
  <2> QED BY <2>1, <2>2, <1>0, RoomKeeps
<1>12. CASE Clear
  <2>1. PICK n \in Nat : n = count BY <1>0
  <2>2. /\ SignalNotFull(n) /\ count' = count - n
        /\ awake' = awake \cup Signalled(notFull, n) /\ call' = call
    BY <2>1, <1>12 DEF Clear
  <2> QED BY <2>2, <1>0, RoomKeeps
<1>13. ASSUME NEW n \in 1..Capacity, DrainTo(n) PROVE Sleepers' /\ Kept
  <2>1. /\ SignalNotFull(n) /\ count' = count - n
        /\ awake' = awake \cup Signalled(notFull, n) /\ call' = call
    BY <1>13 DEF DrainTo
  <2>2. n \in Nat OBVIOUS
  <2> QED BY <2>1, <2>2, <1>0, RoomKeeps
<1>14. ASSUME NEW i \in Iterators, OpenItr(i) \/ NextItem(i) \/ HasNoNext(i) PROVE Sleepers' /\ Kept
  <2>1. UNCHANGED <<notEmpty, notFull, awake, call, count>>
    BY <1>14 DEF OpenItr, NextItem, HasNoNext, array, waits
  <2> QED BY <2>1, <1>0, QuietKeeps
<1>15. ASSUME NEW i \in Iterators, RemoveItr(i) PROVE Sleepers' /\ Kept
  <2>1. call' = call BY <1>15 DEF RemoveItr
  <2>2. CASE SignalNotFull(1) /\ count' = count - 1 /\ awake' = awake \cup Signalled(notFull, 1)
    <3>1. 1 \in Nat OBVIOUS
    <3> QED BY <2>1, <2>2, <3>1, <1>0, RoomKeeps
  <2>3. CASE UNCHANGED <<notEmpty, notFull, awake, count>> BY <2>1, <2>3, <1>0, QuietKeeps
  <2> QED BY <1>15, <2>2, <2>3 DEF RemoveItr, RemoveAt, RemoveFront, array
<1>16. CASE UNCHANGED vars
  <2>1. UNCHANGED <<notEmpty, notFull, awake, call, count>> BY <1>16 DEF vars, array, waits
  <2> QED BY <2>1, <1>0, QuietKeeps
<1> QED BY <1>1, <1>2, <1>3, <1>4, <1>5, <1>8, <1>9, <1>10, <1>11, <1>12, <1>13, <1>14, <1>15, <1>16
        DEF Next

\* No signal of the two conditions is lost, whoever times out, is interrupted or
\* barges in: a thread sleeps on for an element only if as many threads are on
\* their way as there are elements, and for space only so, or because a woken
\* put returned without passing the signal on (KeyArrayBlockingQueue.java:170-257,
\* 300-420).
THEOREM NoThreadForgottenHolds == Safety => NoThreadForgotten
<1>1. Init => Sleepers /\ ~TakerForgotten
  <2> SUFFICES ASSUME Init PROVE Sleepers /\ ~TakerForgotten OBVIOUS
  <2>1. notEmpty = <<>> /\ notFull = <<>> /\ awake = {} BY DEF Init
  <2>2. <<>> \in Seq(Threads) /\ DOMAIN <<>> = {} BY EmptySeq
  <2>3. Sleepers BY <2>1, <2>2, FS_EmptySet DEF Sleepers, Asleep
  <2> QED BY <2>1, <2>3 DEF TakerForgotten
<1>2. IInv /\ (Sleepers /\ ~TakerForgotten) /\ [Next]_vars => (Sleepers /\ ~TakerForgotten)'
  BY NextKeeps DEF Kept
<1>3. IInv /\ (Sleepers /\ ~TakerForgotten) /\ [Next]_vars =>
        [/\ ~TakerForgotten'
         /\ PutterForgotten' => PutterForgotten \/ SwallowsSignal]_vars
  BY NextKeeps DEF Kept
<1> QED BY <1>1, <1>2, <1>3, Invariance, PTL DEF Safety, NoThreadForgotten
=============================================================================

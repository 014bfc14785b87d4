-------------------------- MODULE RedisLockProofs --------------------------
(***************************************************************************)
(* Proofs about RedisLock, for every set of locks, keys and tokens.        *)
(***************************************************************************)
EXTENDS RedisLock, TLAPS

USE LockAssumption DEF LockAssumption

\* A key is only ever set by a lock object that has it among its keys.
Own == \A k \in Keys : store[k] # Nobody => k \in KeysOf[store[k]]

\* A lock that lost nothing has all of its keys as soon as it has one.
Whole ==
  \A l \in Locks : lost[l] = {} =>
    \A k, j \in KeysOf[l] : store[k] = l => store[j] = l

\* A lock whose holder believes in it, and that lost nothing, is in Redis.
Backed ==
  \A l \in Locks : (granted[l] \/ hasLock[l]) /\ lost[l] = {} =>
    \A k \in KeysOf[l] : store[k] = l

\* A thread asleep in lock() has failed to acquire.
Asleep == \A l \in Locks : pc[l] = "waiting" => ~hasLock[l]

\* A key whose setter has hasLock = false is accounted for.
Accounted ==
  \A k \in Keys : store[k] # Nobody /\ ~hasLock[store[k]] => store[k] \in orphan

IInv == TypeOK /\ Own /\ Whole /\ Backed /\ Asleep /\ Accounted /\ RobbedByTwin

-----------------------------------------------------------------------------
(* What the scripts do.                                                    *)

\* setIfAbsent sets all the keys of the lock or changes nothing.
LEMMA SetIfAbsentEffect ==
  ASSUME TypeOK, NEW l \in Locks, NEW k \in Keys
  PROVE  /\ SetIfAbsent(l) \in [Keys -> Locks \cup {Nobody}]
         /\ CanSet(l) => SetIfAbsent(l)[k] = IF k \in KeysOf[l] THEN l ELSE store[k]
         /\ CanSet(l) => \A j \in KeysOf[l] : j \in Keys /\ store[j] = Nobody
         /\ ~CanSet(l) => SetIfAbsent(l) = store
  BY DEF TypeOK, SetIfAbsent, CanSet

\* deleteIfEqual frees every key its own lock set, and touches another lock's
\* key only when the two tokens are equal and both locks have the key.
LEMMA DeleteIfEqualEffect ==
  ASSUME TypeOK, Own, NEW l \in Locks, NEW k \in Keys
  PROVE  /\ DeleteIfEqual(l) \in [Keys -> Locks \cup {Nobody}]
         /\ DeleteIfEqual(l)[k] \in {store[k], Nobody}
         /\ DeleteIfEqual(l)[k] # l
         /\ store[k] # Nobody /\ DeleteIfEqual(l)[k] = Nobody =>
              /\ store[k] = l \/ store[k] \in Robbed(l)
              /\ k \in KeysOf[l] /\ k \in KeysOf[store[k]]
              /\ TokenOf[store[k]] = TokenOf[l]
<1>1. DeleteIfEqual(l)[k] =
        IF k \in KeysOf[l] /\ Value(k) = TokenOf[l] THEN Nobody ELSE store[k]
  BY DEF DeleteIfEqual
<1>2. DeleteIfEqual(l) \in [Keys -> Locks \cup {Nobody}]
  BY DEF TypeOK, DeleteIfEqual
<1>3. store[k] = l => k \in KeysOf[l] /\ Value(k) = TokenOf[l]
  BY DEF Own, Value
<1>4. store[k] # Nobody /\ DeleteIfEqual(l)[k] = Nobody =>
        /\ store[k] \in Locks
        /\ k \in KeysOf[l] /\ k \in KeysOf[store[k]]
        /\ TokenOf[store[k]] = TokenOf[l]
  BY <1>1 DEF TypeOK, Own, Value
<1>5. store[k] # Nobody /\ DeleteIfEqual(l)[k] = Nobody =>
        store[k] = l \/ store[k] \in Robbed(l)
  BY <1>4 DEF Robbed
<1> QED BY <1>1, <1>2, <1>3, <1>4, <1>5

-----------------------------------------------------------------------------
(* The invariant.                                                          *)

\* It holds when every key is free and no lock is taken.
LEMMA InitInv == Init => IInv
<1> SUFFICES ASSUME Init PROVE IInv
  OBVIOUS
<1>1. TypeOK
  <2>1. store \in [Keys -> Locks \cup {Nobody}] /\ faults \in 0..MaxFaults
    BY DEF Init
  <2>2. lost \in [Locks -> SUBSET Causes] /\ orphan \in SUBSET Locks
    BY DEF Init
  <2>3. /\ hasLock \in [Locks -> BOOLEAN] /\ granted \in [Locks -> BOOLEAN]
        /\ pc \in [Locks -> {"idle", "waiting", "gone"}] /\ shutdown \in BOOLEAN
    BY DEF Init
  <2> QED BY <2>1, <2>2, <2>3 DEF TypeOK
<1>2. Own /\ Whole /\ Accounted BY DEF Init, Own, Whole, Accounted
<1>3. Backed /\ Asleep /\ RobbedByTwin BY DEF Init, Backed, Asleep, RobbedByTwin
<1> QED BY <1>1, <1>2, <1>3 DEF IInv

\* acquireLock(), in each of its three callers, keeps the invariant.
LEMMA AcquireInv ==
  ASSUME IInv, NEW l \in Locks, AcquireLock(l), UNCHANGED <<shutdown, faults>>,
         \/ pc' = pc /\ pc[l] = "idle"
         \/ pc' = [pc EXCEPT ![l] = IF CanSet(l) THEN "idle" ELSE "waiting"]
  PROVE  IInv'
<1> USE DEF IInv
<1>1. \A k \in Keys :
         /\ CanSet(l) => store'[k] = IF k \in KeysOf[l] THEN l ELSE store[k]
         /\ CanSet(l) => \A j \in KeysOf[l] : j \in Keys /\ store[j] = Nobody
         /\ ~CanSet(l) => store' = store
  BY SetIfAbsentEffect DEF AcquireLock
<1>2. TypeOK'
  <2>1. store' \in [Keys -> Locks \cup {Nobody}]
    BY DEF TypeOK, AcquireLock, SetIfAbsent
  <2>2. CanSet(l) \in BOOLEAN
    BY DEF CanSet
  <2>3. lost' \in [Locks -> SUBSET Causes]
    BY DEF TypeOK, AcquireLock
  <2>4. orphan' \in SUBSET Locks
    BY DEF TypeOK, AcquireLock
  <2>5. hasLock' \in [Locks -> BOOLEAN] /\ granted' \in [Locks -> BOOLEAN]
    BY <2>2 DEF TypeOK, AcquireLock
  <2>6. pc' \in [Locks -> {"idle", "waiting", "gone"}]
    BY DEF TypeOK
  <2> QED BY <2>1, <2>3, <2>4, <2>5, <2>6 DEF TypeOK
<1>3. CASE ~CanSet(l)
  <2>1. store' = store /\ lost' = lost /\ granted' = granted
    BY <1>3 DEF AcquireLock, SetIfAbsent, TypeOK
  <2>2. hasLock' = [hasLock EXCEPT ![l] = FALSE]
    <3>1. CanSet(l) = FALSE BY <1>3 DEF CanSet
    <3> QED BY <3>1 DEF AcquireLock
  <2>3. Own' /\ Whole' /\ RobbedByTwin'
    BY <2>1 DEF Own, Whole, RobbedByTwin
  <2>4. Backed' BY <2>1, <2>2 DEF Backed, TypeOK
  <2>5. Asleep' BY <2>2, <1>3 DEF Asleep, TypeOK
  <2>6. Accounted'
    <3>1. orphan \subseteq orphan' /\ (Held(l) # {} => l \in orphan')
      BY <1>3 DEF AcquireLock
    <3> QED BY <3>1, <2>1, <2>2 DEF Accounted, TypeOK, Held
  <2> QED BY <1>2, <2>3, <2>4, <2>5, <2>6
<1>4. CASE CanSet(l)
  <2>1. /\ lost' = [lost EXCEPT ![l] = {}]
        /\ hasLock' = [hasLock EXCEPT ![l] = TRUE]
        /\ granted' = [granted EXCEPT ![l] = TRUE]
        /\ orphan' = orphan \ {l}
    BY <1>4 DEF AcquireLock, TypeOK
  <2>2. /\ \A k \in Keys : store'[k] = IF k \in KeysOf[l] THEN l ELSE store[k]
        /\ \A j \in KeysOf[l] : j \in Keys /\ store[j] = Nobody
    BY <1>1, <1>4
  <2>3. \A k \in Keys : store[k] # l
    BY <2>2 DEF Own
  <2>4. Own' BY <2>2 DEF Own
  <2>5. \A m \in Locks \ {l}, k \in Keys : store'[k] = m <=> store[k] = m
    BY <2>2
  <2>6. Whole'
    <3> SUFFICES ASSUME NEW m \in Locks, lost'[m] = {}, NEW k \in KeysOf[m],
                        NEW j \in KeysOf[m], store'[k] = m
                 PROVE  store'[j] = m
      BY DEF Whole
    <3>1. CASE m = l BY <3>1, <2>2
    <3>2. CASE m # l
      <4>1. lost[m] = {} BY <3>2, <2>1 DEF TypeOK
      <4>2. k \in Keys /\ j \in Keys OBVIOUS
      <4> QED BY <3>2, <4>1, <4>2, <2>5 DEF Whole
    <3> QED BY <3>1, <3>2
  <2>7. Backed'
    <3> SUFFICES ASSUME NEW m \in Locks, granted'[m] \/ hasLock'[m], lost'[m] = {},
                        NEW k \in KeysOf[m]
                 PROVE  store'[k] = m
      BY DEF Backed
    <3>1. CASE m = l BY <3>1, <2>2
    <3>2. CASE m # l
      <4>1. lost[m] = {} /\ (granted[m] \/ hasLock[m]) BY <3>2, <2>1 DEF TypeOK
      <4>2. k \in Keys OBVIOUS
      <4> QED BY <3>2, <4>1, <4>2, <2>5 DEF Backed
    <3> QED BY <3>1, <3>2
  <2>8. Asleep' BY <2>1, <1>4 DEF Asleep, TypeOK
  <2>9. Accounted' BY <2>1, <2>2, <2>3 DEF Accounted, TypeOK
  <2>10. RobbedByTwin' BY <2>1 DEF RobbedByTwin, TypeOK
  <2> QED BY <1>2, <2>4, <2>6, <2>7, <2>8, <2>9, <2>10
<1> QED BY <1>3, <1>4

\* A call of deleteIfEqual, answered or not, keeps the invariant.
LEMMA DeleteInv ==
  ASSUME IInv, NEW l \in Locks,
         store' = DeleteIfEqual(l),
         granted' = [granted EXCEPT ![l] = FALSE],
         UNCHANGED <<pc, shutdown, orphan>>,
         faults' \in 0..MaxFaults,
         \/ /\ hasLock' = [hasLock EXCEPT ![l] = FALSE]
            /\ lost' = [m \in Locks |-> IF m \in Robbed(l) THEN lost[m] \cup {"robbed"}
                                                           ELSE lost[m]]
         \/ /\ hasLock' = hasLock
            /\ lost' = [m \in Locks |->
                          CASE m = l -> lost[m] \cup {"unanswered"}
                            [] m \in Robbed(l) -> lost[m] \cup {"robbed"}
                            [] OTHER -> lost[m]]
  PROVE  IInv'
<1> USE DEF IInv
<1>1. \A k \in Keys :
         /\ store'[k] \in {store[k], Nobody}
         /\ store'[k] # l
         /\ store[k] # Nobody /\ store'[k] = Nobody =>
              /\ store[k] = l \/ store[k] \in Robbed(l)
              /\ k \in KeysOf[l] /\ k \in KeysOf[store[k]]
              /\ TokenOf[store[k]] = TokenOf[l]
  BY DeleteIfEqualEffect
<1>2. TypeOK'
  <2>1. store' \in [Keys -> Locks \cup {Nobody}]
    BY DEF TypeOK, DeleteIfEqual
  <2>2. lost' \in [Locks -> SUBSET Causes]
    BY DEF TypeOK, Causes
  <2> QED BY <2>1, <2>2 DEF TypeOK
<1>3. Own' BY <1>1 DEF Own
<1>4. \A m \in Locks : lost'[m] = {} => lost[m] = {} /\ m \notin Robbed(l)
  BY DEF Robbed
<1>5. \A m \in Locks \ {l}, k \in Keys :
         lost'[m] = {} => (store'[k] = m <=> store[k] = m)
  BY <1>1, <1>4
<1>6. Whole'
  <2> SUFFICES ASSUME NEW m \in Locks, lost'[m] = {}, NEW k \in KeysOf[m],
                      NEW j \in KeysOf[m], store'[k] = m
               PROVE  store'[j] = m
    BY DEF Whole
  <2>1. k \in Keys /\ j \in Keys OBVIOUS
  <2>2. m # l BY <1>1, <2>1
  <2> QED BY <2>1, <2>2, <1>4, <1>5 DEF Whole
<1>7. Backed'
  <2> SUFFICES ASSUME NEW m \in Locks, granted'[m] \/ hasLock'[m], lost'[m] = {},
                      NEW k \in KeysOf[m]
               PROVE  store'[k] = m
    BY DEF Backed
  <2>1. k \in Keys OBVIOUS
  <2>2. m # l
    <3>1. granted'[l] = FALSE BY DEF TypeOK
    <3>2. CASE hasLock' = [hasLock EXCEPT ![l] = FALSE]
      BY <3>1, <3>2 DEF TypeOK
    <3>3. CASE lost' = [n \in Locks |->
                          CASE n = l -> lost[n] \cup {"unanswered"}
                            [] n \in Robbed(l) -> lost[n] \cup {"robbed"}
                            [] OTHER -> lost[n]]
      <4>1. l \notin Robbed(l) BY DEF Robbed
      <4>2. lost'[l] = lost[l] \cup {"unanswered"} BY <3>3, <4>1
      <4> QED BY <4>2
    <3> QED BY <3>2, <3>3
  <2>3. granted[m] \/ hasLock[m] BY <2>2 DEF TypeOK
  <2> QED BY <2>1, <2>2, <2>3, <1>4, <1>5 DEF Backed
<1>8. Asleep' BY DEF Asleep, TypeOK
<1>9. Accounted'
  <2> SUFFICES ASSUME NEW k \in Keys, store'[k] # Nobody, ~hasLock'[store'[k]]
               PROVE  store'[k] \in orphan'
    BY DEF Accounted
  <2>1. store'[k] = store[k] /\ store[k] # l /\ store[k] \in Locks
    BY <1>1 DEF TypeOK
  <2> QED BY <2>1 DEF Accounted, TypeOK
<1>10. RobbedByTwin'
  <2> SUFFICES ASSUME NEW m \in Locks, "robbed" \in lost'[m]
               PROVE  \E n \in Locks \ {m} :
                        TokenOf[n] = TokenOf[m] /\ KeysOf[n] \cap KeysOf[m] # {}
    BY DEF RobbedByTwin
  <2>1. CASE m \in Robbed(l)
    <3>1. PICK k \in Keys : store[k] = m /\ store'[k] = Nobody
      BY <2>1 DEF Robbed
    <3>2. /\ k \in KeysOf[l] /\ k \in KeysOf[m] /\ TokenOf[m] = TokenOf[l]
          /\ m # l
      BY <2>1, <3>1, <1>1 DEF Robbed
    <3> QED BY <3>2
  <2>2. CASE m \notin Robbed(l)
    <3>1. "robbed" \in lost[m] BY <2>2
    <3> QED BY <3>1 DEF RobbedByTwin
  <2> QED BY <2>1, <2>2
<1> QED BY <1>2, <1>3, <1>6, <1>7, <1>8, <1>9, <1>10

\* Every step keeps the invariant.
LEMMA StepInv == IInv /\ [Next]_vars => IInv'
<1> SUFFICES ASSUME IInv, [Next]_vars PROVE IInv'
  OBVIOUS
<1> USE DEF IInv
<1>1. ASSUME NEW l \in Locks, TryLock(l) PROVE IInv'
  BY <1>1, AcquireInv DEF TryLock
<1>2. ASSUME NEW l \in Locks, Turn(l), pc[l] # "gone" PROVE IInv'
  <2>1. CASE shutdown
    <3>1. /\ pc' = [pc EXCEPT ![l] = "idle"]
          /\ granted' = [granted EXCEPT ![l] = @ \/ hasLock[l]]
          /\ UNCHANGED <<store, hasLock, shutdown, faults, lost, orphan>>
      BY <1>2, <2>1 DEF Turn
    <3>2. TypeOK' BY <3>1 DEF TypeOK
    <3>3. Backed'
      <4>1. \A m \in Locks : granted'[m] \/ hasLock'[m] => granted[m] \/ hasLock[m]
        BY <3>1 DEF TypeOK
      <4> QED BY <4>1, <3>1 DEF Backed
    <3>4. Own' /\ Whole' /\ Accounted' /\ RobbedByTwin'
      BY <3>1 DEF Own, Whole, Accounted, RobbedByTwin
    <3>5. Asleep' BY <3>1 DEF Asleep, TypeOK
    <3> QED BY <3>2, <3>3, <3>4, <3>5
  <2>2. CASE ~shutdown
    BY <1>2, <2>2, AcquireInv DEF Turn
  <2> QED BY <2>1, <2>2
<1>3. ASSUME NEW l \in Locks, Interrupted(l) PROVE IInv'
  <2>1. hasLock' = hasLock
    BY <1>3 DEF Interrupted, Asleep, TypeOK
  <2>2. TypeOK' BY <1>3 DEF Interrupted, TypeOK
  <2>3. Own' /\ Whole' /\ Accounted' /\ RobbedByTwin' /\ Backed'
    BY <1>3, <2>1 DEF Interrupted, Own, Whole, Accounted, RobbedByTwin, Backed
  <2>4. Asleep' BY <1>3, <2>1 DEF Interrupted, Asleep, TypeOK
  <2> QED BY <2>2, <2>3, <2>4
<1>4. ASSUME NEW l \in Locks, AcquireFails(l) PROVE IInv'
  <2>1. /\ pc' = [pc EXCEPT ![l] = "idle"]
        /\ faults' = faults + 1 /\ faults < MaxFaults
        /\ UNCHANGED <<hasLock, granted, shutdown, lost>>
    BY <1>4 DEF AcquireFails
  <2>2. CASE UNCHANGED <<store, orphan>>
    <3>1. TypeOK' BY <2>1, <2>2 DEF TypeOK
    <3>2. Own' /\ Whole' /\ Accounted' /\ RobbedByTwin' /\ Backed'
      BY <2>1, <2>2 DEF Own, Whole, Accounted, RobbedByTwin, Backed
    <3>3. Asleep' BY <2>1 DEF Asleep, TypeOK
    <3> QED BY <3>1, <3>2, <3>3
  <2>3. CASE CanSet(l) /\ store' = SetIfAbsent(l) /\ orphan' = orphan \cup {l}
    <3>1. /\ \A k \in Keys : store'[k] = IF k \in KeysOf[l] THEN l ELSE store[k]
          /\ \A j \in KeysOf[l] : j \in Keys /\ store[j] = Nobody
      BY <2>3, SetIfAbsentEffect
    <3>2. TypeOK' BY <2>1, <2>3 DEF TypeOK, SetIfAbsent
    <3>3. Own' BY <3>1 DEF Own
    <3>4. \A k \in Keys : store[k] # l BY <3>1 DEF Own
    <3>5. \A m \in Locks \ {l}, k \in Keys : store'[k] = m <=> store[k] = m
      BY <3>1
    <3>6. Whole'
      <4> SUFFICES ASSUME NEW m \in Locks, lost'[m] = {}, NEW k \in KeysOf[m],
                          NEW j \in KeysOf[m], store'[k] = m
                   PROVE  store'[j] = m
        BY DEF Whole
      <4>1. k \in Keys /\ j \in Keys OBVIOUS
      <4> QED BY <2>1, <3>1, <3>5, <4>1 DEF Whole
    <3>7. Backed'
      <4> SUFFICES ASSUME NEW m \in Locks, granted'[m] \/ hasLock'[m], lost'[m] = {},
                          NEW k \in KeysOf[m]
                   PROVE  store'[k] = m
        BY DEF Backed
      <4>1. k \in Keys OBVIOUS
      <4> QED BY <2>1, <3>1, <3>5, <4>1 DEF Backed
    <3>8. Accounted' BY <2>1, <2>3, <3>1 DEF Accounted
    <3>9. Asleep' BY <2>1 DEF Asleep, TypeOK
    <3>10. RobbedByTwin' BY <2>1 DEF RobbedByTwin
    <3> QED BY <3>2, <3>3, <3>6, <3>7, <3>8, <3>9, <3>10
  <2> QED BY <1>4, <2>2, <2>3 DEF AcquireFails
<1>5. ASSUME NEW l \in Locks, UnLock(l) PROVE IInv'
  <2>1. CASE hasLock[l]
    BY <1>5, <2>1, DeleteInv DEF UnLock, TypeOK
  <2>2. CASE ~hasLock[l]
    <3>1. /\ granted' = [granted EXCEPT ![l] = FALSE]
          /\ UNCHANGED <<store, hasLock, pc, shutdown, faults, lost, orphan>>
      BY <1>5, <2>2 DEF UnLock
    <3>2. TypeOK' BY <3>1 DEF TypeOK
    <3>3. Backed' BY <3>1 DEF Backed, TypeOK
    <3>4. Own' /\ Whole' /\ Accounted' /\ RobbedByTwin' /\ Asleep'
      BY <3>1 DEF Own, Whole, Accounted, RobbedByTwin, Asleep
    <3> QED BY <3>2, <3>3, <3>4
  <2> QED BY <2>1, <2>2
<1>6. ASSUME NEW l \in Locks, UnLockFails(l) PROVE IInv'
  <2>1. /\ granted' = [granted EXCEPT ![l] = FALSE]
        /\ faults' = faults + 1 /\ faults < MaxFaults
        /\ UNCHANGED <<hasLock, pc, shutdown, orphan>>
    BY <1>6 DEF UnLockFails
  <2>2. faults' \in 0..MaxFaults BY <2>1 DEF TypeOK
  <2>3. CASE UNCHANGED <<store, lost>>
    <3>1. TypeOK' BY <2>1, <2>2, <2>3 DEF TypeOK
    <3>2. Backed' BY <2>1, <2>3 DEF Backed, TypeOK
    <3>3. Own' /\ Whole' /\ Accounted' /\ RobbedByTwin' /\ Asleep'
      BY <2>1, <2>3 DEF Own, Whole, Accounted, RobbedByTwin, Asleep
    <3> QED BY <3>1, <3>2, <3>3
  <2>4. CASE /\ store' = DeleteIfEqual(l)
             /\ lost' = [m \in Locks |->
                           CASE m = l -> lost[m] \cup {"unanswered"}
                             [] m \in Robbed(l) -> lost[m] \cup {"robbed"}
                             [] OTHER -> lost[m]]
    BY <2>1, <2>2, <2>4, DeleteInv
  <2> QED BY <1>6, <2>3, <2>4 DEF UnLockFails
<1>7. ASSUME NEW l \in Locks, Crash(l) PROVE IInv'
  <2>1. /\ pc' = [pc EXCEPT ![l] = "gone"]
        /\ hasLock' = [hasLock EXCEPT ![l] = FALSE]
        /\ granted' = [granted EXCEPT ![l] = FALSE]
        /\ faults' = faults + 1 /\ faults < MaxFaults
        /\ UNCHANGED <<store, shutdown, lost>>
    BY <1>7 DEF Crash
  <2>2. /\ orphan \subseteq orphan' /\ orphan' \subseteq Locks
        /\ Held(l) # {} => l \in orphan'
    BY <1>7 DEF Crash, TypeOK
  <2>3. TypeOK' BY <2>1, <2>2 DEF TypeOK
  <2>4. Own' /\ Whole' /\ RobbedByTwin' BY <2>1 DEF Own, Whole, RobbedByTwin
  <2>5. Backed' BY <2>1 DEF Backed, TypeOK
  <2>6. Asleep' BY <2>1 DEF Asleep, TypeOK
  <2>7. Accounted' BY <2>1, <2>2 DEF Accounted, TypeOK, Held
  <2> QED BY <2>3, <2>4, <2>5, <2>6, <2>7
<1>8. ASSUME NEW k \in Keys, Expire(k) PROVE IInv'
  <2>1. /\ store[k] \in Locks
        /\ store' = [store EXCEPT ![k] = Nobody]
        /\ lost' = [lost EXCEPT ![store[k]] = @ \cup {"lapsed"}]
        /\ UNCHANGED <<hasLock, pc, granted, shutdown, faults, orphan>>
    BY <1>8 DEF Expire, TypeOK
  <2>2. TypeOK' BY <2>1 DEF TypeOK, Causes
  <2>3. Own' BY <2>1 DEF Own, TypeOK
  <2>4. \A m \in Locks : lost'[m] = {} => lost[m] = {} /\ m # store[k]
    BY <2>1 DEF TypeOK
  <2>5. \A m \in Locks, j \in Keys :
           lost'[m] = {} => (store'[j] = m <=> store[j] = m)
    BY <2>1, <2>4 DEF TypeOK
  <2>6. Whole'
    <3> SUFFICES ASSUME NEW m \in Locks, lost'[m] = {}, NEW i \in KeysOf[m],
                        NEW j \in KeysOf[m], store'[i] = m
                 PROVE  store'[j] = m
      BY DEF Whole
    <3>1. i \in Keys /\ j \in Keys OBVIOUS
    <3> QED BY <2>4, <2>5, <3>1 DEF Whole
  <2>7. Backed'
    <3> SUFFICES ASSUME NEW m \in Locks, granted'[m] \/ hasLock'[m], lost'[m] = {},
                        NEW j \in KeysOf[m]
                 PROVE  store'[j] = m
      BY DEF Backed
    <3>1. j \in Keys OBVIOUS
    <3> QED BY <2>1, <2>4, <2>5, <3>1 DEF Backed
  <2>8. Asleep' BY <2>1 DEF Asleep
  <2>9. Accounted' BY <2>1 DEF Accounted, TypeOK
  <2>10. RobbedByTwin'
    <3>1. \A m \in Locks : "robbed" \in lost'[m] => "robbed" \in lost[m]
      BY <2>1 DEF TypeOK
    <3> QED BY <3>1 DEF RobbedByTwin
  <2> QED BY <2>2, <2>3, <2>6, <2>7, <2>8, <2>9, <2>10
<1>9. CASE Destroy
  <2>1. shutdown' \in BOOLEAN BY <1>9 DEF Destroy
  <2> QED BY <1>9, <2>1
        DEF Destroy, TypeOK, Own, Whole, Backed, Asleep, Accounted, RobbedByTwin
<1>10. CASE UNCHANGED vars
  BY <1>10 DEF vars, TypeOK, Own, Whole, Backed, Asleep, Accounted, RobbedByTwin
<1>11. ASSUME NEW l \in Locks, Lock(l) \/ Retry(l) PROVE IInv'
  BY <1>2, <1>11 DEF Lock, Retry
<1> QED
  BY <1>1, <1>3, <1>4, <1>5, <1>6, <1>7, <1>8, <1>9, <1>10, <1>11 DEF Next

\* It holds in every behaviour of the lock protocol.
THEOREM Invariance == Spec => []IInv
<1>1. Init => IInv BY InitInv
<1>2. IInv /\ [Next]_vars => IInv' BY StepInv
<1> QED BY <1>1, <1>2, PTL DEF Spec, Safety

-----------------------------------------------------------------------------
(* What follows from it.                                                   *)

\* The variables keep their types.
THEOREM TypeCorrect == Spec => []TypeOK
<1>1. IInv => TypeOK BY DEF IInv
<1> QED BY <1>1, Invariance, PTL

\* Two clients are inside locks that share a key only after one of them lost a
\* key, whatever the locks, keys and tokens are.
THEOREM ExclusionHolds == Spec => []Exclusion
<1>1. IInv => Exclusion
  <2> SUFFICES ASSUME IInv, NEW l \in Locks, NEW m \in Locks, l # m,
                      KeysOf[l] \cap KeysOf[m] # {}, granted[l], granted[m],
                      lost[l] = {}, lost[m] = {}
               PROVE  FALSE
    BY DEF Exclusion
  <2>1. PICK k \in KeysOf[l] : k \in KeysOf[m] OBVIOUS
  <2>2. store[k] = l /\ store[k] = m BY <2>1 DEF IInv, Backed
  <2> QED BY <2>2
<1> QED BY <1>1, Invariance, PTL

\* A lock of several keys is taken and kept whole.
THEOREM AllOrNothingHolds == Spec => []AllOrNothing
<1>1. IInv => AllOrNothing
  <2> SUFFICES ASSUME IInv, NEW l \in Locks, Held(l) # {}, lost[l] = {}
               PROVE  Held(l) = KeysOf[l]
    BY DEF AllOrNothing
  <2>1. PICK k \in Keys : store[k] = l BY DEF Held
  <2>2. k \in KeysOf[l] BY <2>1 DEF IInv, Own
  <2>3. \A j \in KeysOf[l] : j \in Keys /\ store[j] = l
    BY <2>1, <2>2 DEF IInv, Whole
  <2>4. \A j \in Keys : store[j] = l => j \in KeysOf[l] BY DEF IInv, Own
  <2> QED BY <2>3, <2>4 DEF Held
<1> QED BY <1>1, Invariance, PTL

\* Only a crash, a lost answer or a second acquisition strands a key.
THEOREM OrphanExplainedHolds == Spec => []OrphanExplained
<1>1. IInv => OrphanExplained BY DEF IInv, Accounted, OrphanExplained, Held
<1> QED BY <1>1, Invariance, PTL

\* Nobody deletes a lock but a lock object with the same token.
THEOREM RobbedByTwinHolds == Spec => []RobbedByTwin
<1>1. IInv => RobbedByTwin BY DEF IInv
<1> QED BY <1>1, Invariance, PTL

-----------------------------------------------------------------------------
(* RedisLock implements LeaseTable.                                        *)

\* When no key is set, every lease is free.
LEMMA LeaseInit == Init => Leases!Init
  BY DEF Init, Leases!Init, Value

\* Acquisitions grant, unlocks return, expiries let a lease lapse.
LEMMA LeaseStep ==
  IInv /\ [Next]_vars => [Leases!Next]_([k \in Keys |-> Value(k)])
<1> SUFFICES ASSUME IInv, [Next]_vars
             PROVE  \/ Leases!Next
                    \/ [k \in Keys |-> Value(k)]' = [k \in Keys |-> Value(k)]
  OBVIOUS
<1> USE DEF IInv
<1>1. ASSUME NEW l \in Locks, CanSet(l), store' = SetIfAbsent(l)
      PROVE  Leases!Next
  <2>1. \A k \in Keys : store'[k] = IF k \in KeysOf[l] THEN l ELSE store[k]
    BY <1>1, SetIfAbsentEffect
  <2>2. \A k \in KeysOf[l] : k \in Keys /\ Value(k) = Nobody
    BY <1>1 DEF CanSet, Value
  <2>3. \A k \in Keys :
           Value(k)' = IF k \in KeysOf[l] THEN TokenOf[l] ELSE Value(k)
    BY <2>1 DEF Value
  <2>4. Leases!Grant(TokenOf[l], KeysOf[l])
    BY <2>2, <2>3 DEF Leases!Grant
  <2>5. TokenOf[l] \in Tokens /\ KeysOf[l] \in SUBSET Keys OBVIOUS
  <2> QED BY <2>4, <2>5 DEF Leases!Next
<1>2. ASSUME NEW l \in Locks, store' = DeleteIfEqual(l)
      PROVE  Leases!Next
  <2>1. \A k \in Keys :
           store'[k] = IF k \in KeysOf[l] /\ Value(k) = TokenOf[l]
                         THEN Nobody ELSE store[k]
    BY <1>2 DEF DeleteIfEqual
  <2>2. \A k \in Keys :
           Value(k)' = IF k \in KeysOf[l] /\ Value(k) = TokenOf[l]
                         THEN Nobody ELSE Value(k)
    BY <2>1 DEF Value
  <2>3. Leases!Return(TokenOf[l], KeysOf[l])
    BY <2>2 DEF Leases!Return
  <2>4. TokenOf[l] \in Tokens /\ KeysOf[l] \in SUBSET Keys OBVIOUS
  <2> QED BY <2>3, <2>4 DEF Leases!Next
<1>3. ASSUME NEW k \in Keys, Expire(k)
      PROVE  Leases!Next
  <2>1. /\ store[k] # Nobody /\ store[k] \in Locks
        /\ \A j \in Keys : store'[j] = IF j = k THEN Nobody ELSE store[j]
    BY <1>3 DEF Expire, TypeOK
  <2>2. Value(k) # Nobody BY <2>1 DEF Value
  <2>3. \A j \in Keys : Value(j)' = IF j = k THEN Nobody ELSE Value(j)
    BY <2>1 DEF Value
  <2>4. Leases!Lapse(k) BY <2>2, <2>3 DEF Leases!Lapse
  <2> QED BY <2>4 DEF Leases!Next
<1>4. ASSUME store' = store
      PROVE  [k \in Keys |-> Value(k)]' = [k \in Keys |-> Value(k)]
  BY <1>4 DEF Value
<1>5. ASSUME NEW l \in Locks, AcquireLock(l)
      PROVE  (CanSet(l) /\ store' = SetIfAbsent(l)) \/ store' = store
  BY <1>5, SetIfAbsentEffect DEF AcquireLock, SetIfAbsent, TypeOK
<1>6. ASSUME NEW l \in Locks,
             \/ TryLock(l) \/ Lock(l) \/ Retry(l) \/ Interrupted(l)
             \/ AcquireFails(l) \/ UnLock(l) \/ UnLockFails(l) \/ Crash(l)
      PROVE  \/ CanSet(l) /\ store' = SetIfAbsent(l)
             \/ store' = DeleteIfEqual(l)
             \/ store' = store
  BY <1>5, <1>6 DEF TryLock, Lock, Retry, Turn, Interrupted, AcquireFails, UnLock,
                    UnLockFails, Crash
<1>7. Destroy \/ UNCHANGED vars => store' = store
  BY DEF Destroy, vars
<1> QED
  BY <1>1, <1>2, <1>3, <1>4, <1>6, <1>7 DEF Next

\* The lock protocol implements the table of leases: a token gets its keys all
\* at once, keeps them until a lock with that token returns them, or they lapse.
THEOREM ImplementsLeases == Spec => LeaseSpec
<1>1. Init => Leases!Init BY LeaseInit
<1>2. IInv /\ [Next]_vars => [Leases!Next]_([k \in Keys |-> Value(k)]) BY LeaseStep
<1> QED BY <1>1, <1>2, Invariance, PTL DEF Spec, Safety, LeaseSpec, Leases!Spec
=============================================================================

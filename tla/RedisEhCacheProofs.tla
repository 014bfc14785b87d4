-------------------------- MODULE RedisEhCacheProofs --------------------------
(***************************************************************************)
(* Proofs about RedisEhCache, for all nodes, readers and bounds.  What     *)
(* holds of the old version in a cache has to hold of the versions that    *)
(* are on their way into it, from a load or from a reload.                 *)
(***************************************************************************)
EXTENDS RedisEhCache, TLAPS

USE CacheAssumption DEF CacheAssumption, Versions, nodes

\* The change of the record has still to be heard of at n, or passed it by.
Explained(n) ==
  \/ \E m \in up : Unsent(m)
  \/ \E p \in Patterns : channel[n][p] > 0
  \/ n \in missed

\* What a load or a reload has read, and what the cache holds.
LoadsExplained ==
  \A r \in Readers :
    Home[r] \in up /\ reader[r].at = "storing" => reader[r].value = record \/ Explained(Home[r])

ReloadsExplained ==
  \A n \in Nodes : n \in up /\ handler[n] # None => handler[n] = record \/ Explained(n)

CopiesExplained == \A n \in Nodes : Stale(n) => Explained(n) \/ handler[n] = record

\* The states of the threads, which TypeOK leaves out.
Calls ==
  /\ reader \in [Readers -> [at : {"idle", "reading", "locking", "storing"},
                             value : Versions \cup {None}]]
  /\ \A r \in Readers : reader[r].at = "storing" => reader[r].value \in Versions
  /\ lock \in [Nodes -> Nodes \cup Readers \cup {None}]
  /\ \A n \in Nodes : lock[n] \in Nodes => lock[n] = n
  /\ writer \in [Nodes -> [at : {"idle", "remove", "publish"}, pattern : Patterns]]
  /\ worker \in [Nodes -> [at : {"take", "notify", "sleep"}, pattern : Patterns]]

IInv == TypeOK /\ Calls /\ LoadsExplained /\ ReloadsExplained /\ CopiesExplained

-----------------------------------------------------------------------------
(* What explains an old version goes on explaining it.                     *)

\* Nothing that explains is touched.
LEMMA SameExplained ==
  ASSUME UNCHANGED <<up, writer, notify, worker, channel, missed>>
  PROVE  \A n : Explained(n)' = Explained(n)
BY DEF Explained, Unsent

\* A message that is published is on its way to a node, or has passed it by.
LEMMA NotifyEffect ==
  ASSUME TypeOK, NEW pattern \in Patterns, NotifyUpdateCache(pattern)
  PROVE  /\ channel' \in [Nodes -> [Patterns -> Nat]] /\ missed' \subseteq Nodes
         /\ \A n \in up : (\E p \in Patterns : channel'[n][p] > 0) \/ n \in missed'
<1>1. PICK reached \in SUBSET up :
        Published(pattern, reached) /\ missed' = missed \cup (up \ reached)
  BY DEF NotifyUpdateCache
<1>2. \A n \in Nodes : channel[n] \in [Patterns -> Nat] BY DEF TypeOK
<1>3. channel' = [m \in Nodes |->
        IF m \in reached THEN [channel[m] EXCEPT ![pattern] = @ + 1] ELSE channel[m]]
  BY <1>1 DEF Published
<1>4. \A m \in Nodes : channel'[m] \in [Patterns -> Nat] BY <1>2, <1>3
<1>5. channel' \in [Nodes -> [Patterns -> Nat]] BY <1>3, <1>4
<1>6. up \subseteq Nodes /\ missed \subseteq Nodes BY DEF TypeOK
<1>7. ASSUME NEW n \in up, n \in reached PROVE channel'[n][pattern] > 0
  <2>1. n \in Nodes /\ channel[n][pattern] \in Nat BY <1>2, <1>6
  <2>2. channel'[n] = [channel[n] EXCEPT ![pattern] = channel[n][pattern] + 1]
    BY <1>3, <1>7, <2>1
  <2>3. channel'[n][pattern] = channel[n][pattern] + 1 BY <1>2, <2>1, <2>2
  <2> QED BY <2>1, <2>3
<1> QED BY <1>1, <1>5, <1>6, <1>7

\* The same of a publish that fails, but for what it may have reached.
LEMMA NotifyFailsEffect ==
  ASSUME TypeOK, NEW pattern \in Patterns, NotifyFails(pattern)
  PROVE  channel' \in [Nodes -> [Patterns -> Nat]]
<1>1. PICK reached \in {{}, up} : Published(pattern, reached)
  BY DEF NotifyFails
<1>2. \A n \in Nodes : channel[n] \in [Patterns -> Nat] BY DEF TypeOK
<1>3. channel' = [m \in Nodes |->
        IF m \in reached THEN [channel[m] EXCEPT ![pattern] = @ + 1] ELSE channel[m]]
  BY <1>1 DEF Published
<1>4. \A m \in Nodes : channel'[m] \in [Patterns -> Nat] BY <1>2, <1>3
<1> QED BY <1>3, <1>4

\* With the copies as they are or gone, and loads and reloads as they are, all
\* that matters is that the nodes which run have an explanation again.
LEMMA StillExplained ==
  ASSUME IInv, UNCHANGED <<reader, handler, up>>,
         \A n \in Nodes : cache'[n] \in {cache[n], None},
         \A n \in up : Explained(n) \/ record' # record => Explained(n)'
  PROVE  LoadsExplained' /\ ReloadsExplained' /\ CopiesExplained'
<1>1. LoadsExplained'
  BY DEF IInv, LoadsExplained
<1>2. ReloadsExplained'
  BY DEF IInv, ReloadsExplained
<1>3. CopiesExplained'
  BY DEF IInv, CopiesExplained, Stale
<1> QED BY <1>1, <1>2, <1>3

-----------------------------------------------------------------------------
(* getAside.                                                               *)

LEMMA LookupInv ==
  ASSUME IInv, NEW r \in Readers, Lookup(r) \/ LookupLocked(r)
  PROVE  IInv'
<1>1. /\ \E at \in {"idle", "reading", "locking"} : reader' = [reader EXCEPT ![r].at = at]
      /\ reader[r].at \in {"idle", "reading"}
      /\ UNCHANGED <<record, cache, lock, handler, writer, notify, worker, channel, refresher,
                     up, missed>>
  BY DEF Lookup, LookupLocked, Reader
<1>2. /\ reader'[r].at # "storing" /\ \A s \in Readers : s # r => reader'[s] = reader[s]
      /\ reader' \in [Readers -> [at : {"idle", "reading", "locking", "storing"},
                                  value : Versions \cup {None}]]
  BY <1>1 DEF IInv, Calls
<1>3. \A s \in Readers : reader'[s].at = "storing" <=> reader[s].at = "storing"
  BY <1>1, <1>2
<1>4. \A s \in Readers : reader'[s].at = "storing" => reader'[s] = reader[s]
  BY <1>2
<1>5. TypeOK' BY <1>1, <1>3 DEF IInv, TypeOK
<1>6. Calls' BY <1>1, <1>2, <1>4 DEF IInv, Calls
<1>7. \A n : Explained(n)' = Explained(n) BY <1>1, SameExplained
<1>8. LoadsExplained' BY <1>1, <1>4, <1>7 DEF IInv, LoadsExplained
<1>9. ReloadsExplained' /\ CopiesExplained'
  BY <1>1, <1>7 DEF IInv, ReloadsExplained, CopiesExplained, Stale
<1> QED BY <1>5, <1>6, <1>8, <1>9 DEF IInv

LEMMA LoadInv == ASSUME IInv, NEW r \in Readers, Load(r) PROVE IInv'
<1>1. PICK n \in Nodes : n = Home[r] OBVIOUS
<1>2. /\ n \in up /\ reader[r].at = "locking" /\ lock[n] = None
      /\ UNCHANGED <<record, cache, handler, writer, notify, worker, channel, refresher, up>>
  BY <1>1 DEF Load, Free
<1>3. CASE cache[n] # None
  <2>1. reader' = [reader EXCEPT ![r].at = "idle"] /\ UNCHANGED <<lock, missed>>
    BY <1>1, <1>3 DEF Load, Reader
  <2>2. /\ reader'[r].at # "storing" /\ \A s \in Readers : s # r => reader'[s] = reader[s]
        /\ reader' \in [Readers -> [at : {"idle", "reading", "locking", "storing"},
                                    value : Versions \cup {None}]]
    BY <2>1 DEF IInv, Calls
  <2>3. \A s \in Readers : reader'[s].at = "storing" => reader'[s] = reader[s]
    BY <2>2
  <2>4. TypeOK' BY <1>2, <2>1, <2>2 DEF IInv, TypeOK
  <2>5. Calls' BY <1>2, <2>1, <2>2, <2>3 DEF IInv, Calls
  <2>6. \A m : Explained(m)' = Explained(m) BY <1>2, <2>1, SameExplained
  <2>7. LoadsExplained' BY <1>2, <2>3, <2>6 DEF IInv, LoadsExplained
  <2>8. ReloadsExplained' /\ CopiesExplained'
    BY <1>2, <2>6 DEF IInv, ReloadsExplained, CopiesExplained, Stale
  <2> QED BY <2>4, <2>5, <2>7, <2>8 DEF IInv
<1>4. CASE cache[n] = None
  <2>1. /\ reader' = [reader EXCEPT ![r] = [at |-> "storing", value |-> record]]
        /\ lock' = [lock EXCEPT ![n] = r] /\ missed' = missed \ {n}
    BY <1>1, <1>4 DEF Load
  <2>2. record \in Versions BY DEF IInv, TypeOK
  <2>3. /\ reader'[r] = [at |-> "storing", value |-> record]
        /\ \A s \in Readers : s # r => reader'[s] = reader[s]
        /\ reader' \in [Readers -> [at : {"idle", "reading", "locking", "storing"},
                                    value : Versions \cup {None}]]
    BY <2>1, <2>2 DEF IInv, Calls
  <2>4. lock'[n] = r /\ \A m \in Nodes : m # n => lock'[m] = lock[m]
    BY <2>1 DEF IInv, Calls
  <2>5. handler[n] = None BY <1>2 DEF IInv, TypeOK
  <2>6. \A s \in Readers : s # r /\ reader[s].at = "storing" => Home[s] # n
    BY <1>2 DEF IInv, TypeOK
  <2>7. TypeOK'
    <3>1. \A s \in Readers : reader'[s].at = "storing" <=> lock'[Home[s]] = s
      <4> TAKE s \in Readers
      <4>1. Home[s] \in Nodes OBVIOUS
      <4>2. reader[s].at = "storing" <=> lock[Home[s]] = s BY DEF IInv, TypeOK
      <4>3. CASE s = r BY <4>3, <1>1, <2>3, <2>4
      <4>4. CASE s # r /\ Home[s] = n BY <4>4, <2>3, <2>4, <2>6
      <4>5. CASE s # r /\ Home[s] # n BY <4>1, <4>2, <4>5, <2>3, <2>4
      <4> QED BY <4>3, <4>4, <4>5
    <3>2. \A m \in Nodes : handler[m] # None <=> lock'[m] = m
      <4>1. \A m \in Nodes : handler[m] # None <=> lock[m] = m BY DEF IInv, TypeOK
      <4>2. r # n BY <1>2
      <4> QED BY <4>1, <4>2, <2>4, <2>5
    <3>3. missed' \subseteq Nodes BY <2>1 DEF IInv, TypeOK
    <3> QED BY <3>1, <3>2, <3>3, <1>2 DEF IInv, TypeOK
  <2>8. Calls'
    <3>1. lock' \in [Nodes -> Nodes \cup Readers \cup {None}] BY <2>1 DEF IInv, Calls
    <3>2. \A m \in Nodes : lock'[m] \in Nodes => lock'[m] = m BY <2>4 DEF IInv, Calls
    <3>3. \A s \in Readers : reader'[s].at = "storing" => reader'[s].value \in Versions
      BY <2>2, <2>3 DEF IInv, Calls
    <3> QED BY <3>1, <3>2, <3>3, <2>3, <1>2 DEF IInv, Calls
  <2>9. \A m \in Nodes : m # n => Explained(m)' = Explained(m)
    BY <1>2, <2>1 DEF Explained, Unsent
  <2>10. LoadsExplained'
    BY <1>2, <2>3, <2>6, <2>9 DEF IInv, LoadsExplained
  <2>11. ReloadsExplained'
    BY <1>2, <2>5, <2>9 DEF IInv, ReloadsExplained
  <2>12. CopiesExplained'
    BY <1>2, <1>4, <2>9 DEF IInv, CopiesExplained, Stale
  <2> QED BY <2>7, <2>8, <2>10, <2>11, <2>12 DEF IInv
<1> QED BY <1>3, <1>4

\* A reader of n that has the lock is the only one of n, and no reload runs.
LEMMA LockOfReader ==
  ASSUME IInv, NEW r \in Readers, reader[r].at = "storing"
  PROVE  /\ lock[Home[r]] = r /\ handler[Home[r]] = None /\ Home[r] \in Nodes
         /\ \A s \in Readers : s # r /\ reader[s].at = "storing" => Home[s] # Home[r]
BY DEF IInv, TypeOK

\* The reader returns, whether or not it has stored what it read.
LEMMA StoreInv ==
  ASSUME IInv, NEW r \in Readers, Store(r) \/ LoadFails(r)
  PROVE  IInv'
<1>1. PICK n \in Nodes : n = Home[r] OBVIOUS
<1>2. /\ n \in up /\ reader[r].at = "storing"
      /\ lock' = [lock EXCEPT ![n] = None]
      /\ reader' = [reader EXCEPT ![r] = [at |-> "idle", value |-> None]]
      /\ cache' \in {cache, [cache EXCEPT ![n] = reader[r].value]}
      /\ UNCHANGED <<record, handler, writer, notify, worker, channel, refresher, up, missed>>
  BY <1>1 DEF Store, LoadFails
<1>3. /\ lock[n] = r /\ handler[n] = None
      /\ \A s \in Readers : s # r /\ reader[s].at = "storing" => Home[s] # n
  BY <1>1, <1>2, LockOfReader
<1>4. /\ reader'[r].at = "idle" /\ \A s \in Readers : s # r => reader'[s] = reader[s]
      /\ reader' \in [Readers -> [at : {"idle", "reading", "locking", "storing"},
                                  value : Versions \cup {None}]]
  BY <1>2 DEF IInv, Calls
<1>5. lock'[n] = None /\ \A m \in Nodes : m # n => lock'[m] = lock[m]
  BY <1>2 DEF IInv, Calls
<1>6. reader[r].value \in Versions BY <1>2 DEF IInv, Calls
<1>7. cache' \in [Nodes -> Versions \cup {None}]
  BY <1>2, <1>6 DEF IInv, TypeOK
<1>8. /\ cache'[n] \in {cache[n], reader[r].value}
      /\ \A m \in Nodes : m # n => cache'[m] = cache[m]
  BY <1>2 DEF IInv, TypeOK
<1>9. \A s \in Readers : reader'[s].at = "storing" => reader'[s] = reader[s]
  BY <1>4
<1>10. TypeOK'
  <2>1. \A s \in Readers : reader'[s].at = "storing" <=> lock'[Home[s]] = s
    <3> TAKE s \in Readers
    <3>1. Home[s] \in Nodes OBVIOUS
    <3>2. reader[s].at = "storing" <=> lock[Home[s]] = s BY DEF IInv, TypeOK
    <3>3. CASE s = r BY <3>3, <1>1, <1>4, <1>5
    <3>4. CASE s # r /\ Home[s] = n BY <3>4, <1>3, <1>4, <1>5
    <3>5. CASE s # r /\ Home[s] # n BY <3>1, <3>2, <3>5, <1>4, <1>5
    <3> QED BY <3>3, <3>4, <3>5
  <2>2. \A m \in Nodes : handler[m] # None <=> lock'[m] = m
    BY <1>3, <1>5 DEF IInv, TypeOK
  <2> QED BY <2>1, <2>2, <1>2, <1>7 DEF IInv, TypeOK
<1>11. Calls'
  <2>1. lock' \in [Nodes -> Nodes \cup Readers \cup {None}] BY <1>2 DEF IInv, Calls
  <2>2. \A m \in Nodes : lock'[m] \in Nodes => lock'[m] = m BY <1>5 DEF IInv, Calls
  <2>3. \A s \in Readers : reader'[s].at = "storing" => reader'[s].value \in Versions
    BY <1>9 DEF IInv, Calls
  <2> QED BY <2>1, <2>2, <2>3, <1>2, <1>4 DEF IInv, Calls
<1>12. \A m : Explained(m)' = Explained(m) BY <1>2, SameExplained
<1>13. LoadsExplained' BY <1>2, <1>9, <1>12 DEF IInv, LoadsExplained
<1>14. ReloadsExplained' BY <1>2, <1>12 DEF IInv, ReloadsExplained
<1>15. CopiesExplained'
  <2> SUFFICES ASSUME NEW m \in Nodes, Stale(m)' PROVE Explained(m) \/ handler[m] = record
    BY <1>2, <1>12 DEF CopiesExplained
  <2>1. m \in up /\ cache'[m] \notin {None, record} BY <1>2 DEF Stale
  <2>2. CASE m # n \/ cache'[m] = cache[m]
    BY <2>1, <2>2, <1>8 DEF IInv, CopiesExplained, Stale
  <2>3. CASE m = n /\ cache'[m] = reader[r].value
    BY <2>1, <2>3, <1>1, <1>2 DEF IInv, LoadsExplained
  <2> QED BY <2>2, <2>3, <1>8
<1> QED BY <1>10, <1>11, <1>13, <1>14, <1>15 DEF IInv

-----------------------------------------------------------------------------
(* Writers and notify workers.                                             *)

LEMMA WriteInv ==
  ASSUME IInv, NEW n \in Nodes, NEW pattern \in Patterns, Write(n, pattern)
  PROVE  IInv'
<1>1. /\ n \in up /\ record < MaxWrites /\ record' = record + 1
      /\ UNCHANGED <<cache, lock, handler, reader, notify, worker, channel, refresher, up, missed>>
  BY DEF Write
<1>2. PICK at \in {"remove", "publish"} :
        writer' = [writer EXCEPT ![n] = [at |-> at, pattern |-> pattern]]
  BY DEF Write
<1>3. /\ writer' \in [Nodes -> [at : {"idle", "remove", "publish"}, pattern : Patterns]]
      /\ writer'[n].at # "idle"
  BY <1>2 DEF IInv, Calls
<1>4. \A m \in up : Explained(m)' BY <1>1, <1>3 DEF Explained, Unsent
<1>5. TypeOK'
  <2>1. record' \in Versions BY <1>1 DEF IInv, TypeOK
  <2> QED BY <2>1, <1>1 DEF IInv, TypeOK
<1>6. Calls' BY <1>1, <1>3 DEF IInv, Calls
<1> QED BY <1>1, <1>4, <1>5, <1>6, StillExplained DEF IInv

LEMMA RemoveCacheInv == ASSUME IInv, NEW n \in Nodes, RemoveCache(n) PROVE IInv'
<1>1. /\ writer[n].at = "remove" /\ writer' = [writer EXCEPT ![n].at = "publish"]
      /\ cache' = [cache EXCEPT ![n] = None]
      /\ UNCHANGED <<record, lock, handler, reader, notify, worker, channel, refresher, up, missed>>
  BY DEF RemoveCache, Writer
<1>2. /\ writer' \in [Nodes -> [at : {"idle", "remove", "publish"}, pattern : Patterns]]
      /\ writer'[n].at # "idle" /\ \A m \in Nodes : m # n => writer'[m] = writer[m]
  BY <1>1 DEF IInv, Calls
<1>3. /\ cache' \in [Nodes -> Versions \cup {None}] /\ cache'[n] = None
      /\ \A m \in Nodes : m # n => cache'[m] = cache[m]
  BY <1>1 DEF IInv, TypeOK
<1>4. up \subseteq Nodes BY DEF IInv, TypeOK
<1>5. \A m : Explained(m) => Explained(m)'
  BY <1>1, <1>2, <1>4 DEF Explained, Unsent
<1>6. TypeOK' BY <1>1, <1>3 DEF IInv, TypeOK
<1>7. Calls' BY <1>1, <1>2 DEF IInv, Calls
<1>8. LoadsExplained' /\ ReloadsExplained'
  BY <1>1, <1>5 DEF IInv, LoadsExplained, ReloadsExplained
<1>9. CopiesExplained' BY <1>1, <1>3, <1>5 DEF IInv, CopiesExplained, Stale
<1> QED BY <1>6, <1>7, <1>8, <1>9 DEF IInv

LEMMA PublishInv == ASSUME IInv, NEW n \in Nodes, Publish(n) PROVE IInv'
<1>1. /\ n \in up /\ writer' = [writer EXCEPT ![n].at = "idle"]
      /\ UNCHANGED <<record, lock, handler, reader, worker, refresher, up>>
  BY DEF Publish, Writer
<1>2. PICK pattern \in Patterns : pattern = writer[n].pattern
  BY DEF IInv, Calls
<1>3. writer' \in [Nodes -> [at : {"idle", "remove", "publish"}, pattern : Patterns]]
  BY <1>1 DEF IInv, Calls
<1>4. /\ channel' \in [Nodes -> [Patterns -> Nat]] /\ missed' \subseteq Nodes
      /\ notify' \in [Nodes -> Seq(Patterns)]
      /\ cache' \in [Nodes -> Versions \cup {None}]
      /\ \A m \in Nodes : cache'[m] \in {cache[m], None}
      /\ \A m \in up : Explained(m)'
  <2>1. CASE NotifyUpdateCache(pattern) /\ UNCHANGED <<notify, cache>>
    <3>1. /\ channel' \in [Nodes -> [Patterns -> Nat]] /\ missed' \subseteq Nodes
          /\ \A m \in up : (\E p \in Patterns : channel'[m][p] > 0) \/ m \in missed'
      BY <2>1, NotifyEffect DEF IInv
    <3> QED BY <2>1, <3>1 DEF IInv, TypeOK, Explained
  <2>2. CASE /\ NotifyFails(pattern) /\ UNCHANGED <<cache, missed>>
             /\ notify' = [notify EXCEPT ![n] = Append(@, pattern)]
    <3>1. channel' \in [Nodes -> [Patterns -> Nat]]
      BY <2>2, NotifyFailsEffect DEF IInv
    <3>2. notify[n] \in Seq(Patterns) BY DEF IInv, TypeOK
    <3>3. Append(notify[n], pattern) \in Seq(Patterns) /\ Append(notify[n], pattern) # << >>
      BY <3>2
    <3>4. notify' \in [Nodes -> Seq(Patterns)] /\ notify'[n] # << >>
      BY <2>2, <3>3 DEF IInv, TypeOK
    <3>5. \A m \in up : Explained(m)' BY <1>1, <3>4 DEF Explained, Unsent
    <3> QED BY <2>2, <3>1, <3>4, <3>5 DEF IInv, TypeOK
  <2>3. CASE /\ NotifyFails(pattern) /\ UNCHANGED notify
             /\ cache' = [cache EXCEPT ![n] = None] /\ missed' = Nodes
    <3>1. channel' \in [Nodes -> [Patterns -> Nat]]
      BY <2>3, NotifyFailsEffect DEF IInv
    <3>2. \A m \in up : Explained(m)' BY <2>3 DEF IInv, TypeOK, Explained
    <3> QED BY <2>3, <3>1, <3>2 DEF IInv, TypeOK
  <2> QED BY <1>2, <2>1, <2>2, <2>3 DEF Publish, PutNotifyQueue
<1>5. TypeOK' BY <1>1, <1>4 DEF IInv, TypeOK
<1>6. Calls' BY <1>1, <1>3 DEF IInv, Calls
<1>7. LoadsExplained' /\ ReloadsExplained' /\ CopiesExplained'
  BY <1>1, <1>4, StillExplained
<1> QED BY <1>5, <1>6, <1>7 DEF IInv

LEMMA WorkerStepInv == ASSUME IInv, NEW n \in Nodes, WorkerStep(n) PROVE IInv'
<1>1. n \in up /\ up \subseteq Nodes
      /\ UNCHANGED <<record, cache, lock, handler, reader, writer, refresher, up>>
  BY DEF WorkerStep, TakeNotify, Notify, Wake, IInv, TypeOK
<1>2. notify[n] \in Seq(Patterns) /\ worker[n].pattern \in Patterns
  BY DEF IInv, TypeOK, Calls
<1>3. /\ channel' \in [Nodes -> [Patterns -> Nat]] /\ missed' \subseteq Nodes
      /\ notify' \in [Nodes -> Seq(Patterns)]
      /\ worker' \in [Nodes -> [at : {"take", "notify", "sleep"}, pattern : Patterns]]
      /\ \A m \in up : Explained(m) => Explained(m)'
  <2>1. CASE TakeNotify(n)
    <3>1. /\ notify[n] # << >> /\ UNCHANGED <<channel, missed>>
          /\ worker' = [worker EXCEPT ![n] = [at |-> "notify", pattern |-> Head(notify[n])]]
          /\ notify' = [notify EXCEPT ![n] = Tail(@)]
      BY <2>1 DEF TakeNotify
    <3>2. Head(notify[n]) \in Patterns /\ Tail(notify[n]) \in Seq(Patterns)
      BY <1>2, <3>1
    <3>3. /\ worker' \in [Nodes -> [at : {"take", "notify", "sleep"}, pattern : Patterns]]
          /\ worker'[n].at = "notify"
      BY <3>1, <3>2 DEF IInv, Calls
    <3>4. notify' \in [Nodes -> Seq(Patterns)] BY <3>1, <3>2 DEF IInv, TypeOK
    <3>5. \A m \in up : Explained(m)' BY <1>1, <3>3 DEF Explained, Unsent
    <3> QED BY <3>1, <3>3, <3>4, <3>5 DEF IInv, TypeOK
  <2>2. CASE Notify(n) /\ NotifyUpdateCache(worker[n].pattern)
             /\ worker' = [worker EXCEPT ![n].at = "take"] /\ UNCHANGED notify
    <3>1. /\ channel' \in [Nodes -> [Patterns -> Nat]] /\ missed' \subseteq Nodes
          /\ \A m \in up : (\E p \in Patterns : channel'[m][p] > 0) \/ m \in missed'
      BY <1>2, <2>2, NotifyEffect DEF IInv
    <3>2. worker' \in [Nodes -> [at : {"take", "notify", "sleep"}, pattern : Patterns]]
      BY <2>2 DEF IInv, Calls
    <3>3. \A m \in up : Explained(m)' BY <3>1 DEF Explained
    <3> QED BY <2>2, <3>1, <3>2, <3>3 DEF IInv, TypeOK
  <2>3. CASE Notify(n) /\ NotifyFails(worker[n].pattern) /\ UNCHANGED missed
             /\ worker' = [worker EXCEPT ![n].at = "sleep"] /\ PutBack(n)
    <3>1. channel' \in [Nodes -> [Patterns -> Nat]]
      BY <1>2, <2>3, NotifyFailsEffect DEF IInv
    <3>2. /\ Append(notify[n], worker[n].pattern) \in Seq(Patterns)
          /\ Append(notify[n], worker[n].pattern) # << >>
      BY <1>2
    <3>3. notify' \in [Nodes -> Seq(Patterns)] /\ notify'[n] # << >>
      BY <2>3, <3>2 DEF PutBack, IInv, TypeOK
    <3>4. worker' \in [Nodes -> [at : {"take", "notify", "sleep"}, pattern : Patterns]]
      BY <2>3 DEF IInv, Calls
    <3>5. \A m \in up : Explained(m)' BY <1>1, <3>3 DEF Explained, Unsent
    <3> QED BY <2>3, <3>1, <3>3, <3>4, <3>5 DEF IInv, TypeOK
  <2>4. CASE Wake(n)
    <3>1. /\ worker[n].at = "sleep" /\ worker' = [worker EXCEPT ![n].at = "take"]
          /\ UNCHANGED <<channel, missed, notify>>
      BY <2>4 DEF Wake
    <3>2. /\ worker' \in [Nodes -> [at : {"take", "notify", "sleep"}, pattern : Patterns]]
          /\ \A m \in Nodes : m # n => worker'[m] = worker[m]
      BY <3>1 DEF IInv, Calls
    <3>3. \A m \in up : Explained(m) => Explained(m)'
      BY <1>1, <3>1, <3>2 DEF Explained, Unsent
    <3> QED BY <3>1, <3>2, <3>3 DEF IInv, TypeOK
  <2> QED BY <2>1, <2>2, <2>3, <2>4 DEF WorkerStep, Notify
<1>4. TypeOK' BY <1>1, <1>3 DEF IInv, TypeOK
<1>5. Calls' BY <1>1, <1>3 DEF IInv, Calls
<1>6. LoadsExplained' /\ ReloadsExplained' /\ CopiesExplained'
  BY <1>1, <1>3, StillExplained
<1> QED BY <1>4, <1>5, <1>6 DEF IInv

-----------------------------------------------------------------------------
(* Messages and reloads.                                                   *)

\* A node that gets a message holds no lock.
LEMMA ReceivedEffect ==
  ASSUME IInv, NEW n \in Nodes, NEW pattern \in Patterns, Received(n, pattern),
         UNCHANGED <<up, writer, notify, worker>>
  PROVE  /\ n \in up /\ lock[n] = None /\ handler[n] = None
         /\ \A r \in Readers : reader[r].at = "storing" => Home[r] # n
         /\ channel' \in [Nodes -> [Patterns -> Nat]] /\ missed' \subseteq Nodes
         /\ \A m \in Nodes : m # n => Explained(m)' = Explained(m)
<1>1. /\ n \in up /\ lock[n] = None /\ channel[n][pattern] > 0
      /\ channel' = [channel EXCEPT ![n][pattern] = @ - 1] /\ missed' = missed \ {n}
  BY DEF Received, Free
<1>2. channel[n] \in [Patterns -> Nat] BY DEF IInv, TypeOK
<1>3. PICK c : c = [channel[n] EXCEPT ![pattern] = @ - 1] OBVIOUS
<1>4. c \in [Patterns -> Nat] BY <1>1, <1>2, <1>3
<1>5. channel' = [channel EXCEPT ![n] = c] BY <1>1, <1>3
<1>6. channel' \in [Nodes -> [Patterns -> Nat]] BY <1>4, <1>5 DEF IInv, TypeOK
<1>7. \A m \in Nodes : m # n => channel'[m] = channel[m] BY <1>5 DEF IInv, TypeOK
<1>8. \A m \in Nodes : m # n => Explained(m)' = Explained(m)
  BY <1>1, <1>7 DEF Explained, Unsent
<1>9. handler[n] = None /\ \A r \in Readers : reader[r].at = "storing" => Home[r] # n
  BY <1>1 DEF IInv, TypeOK
<1> QED BY <1>1, <1>6, <1>8, <1>9 DEF IInv, TypeOK

LEMMA OnMessageInv == ASSUME IInv, NEW n \in Nodes, OnMessage(n) PROVE IInv'
<1>1. UNCHANGED <<record, reader, writer, notify, worker, refresher, up>>
  BY DEF OnMessage, OnDelete, OnUpdate
<1>2. /\ n \in up /\ lock[n] = None /\ handler[n] = None
      /\ \A r \in Readers : reader[r].at = "storing" => Home[r] # n
      /\ channel' \in [Nodes -> [Patterns -> Nat]] /\ missed' \subseteq Nodes
      /\ \A m \in Nodes : m # n => Explained(m)' = Explained(m)
  BY <1>1, ReceivedEffect DEF OnMessage, OnDelete, OnUpdate, Patterns
<1>3. LoadsExplained' BY <1>1, <1>2 DEF IInv, LoadsExplained
<1>4. CASE OnDelete(n)
  <2>1. cache' = [cache EXCEPT ![n] = None] /\ UNCHANGED <<lock, handler>>
    BY <1>4 DEF OnDelete
  <2>2. /\ cache' \in [Nodes -> Versions \cup {None}] /\ cache'[n] = None
        /\ \A m \in Nodes : m # n => cache'[m] = cache[m]
    BY <2>1 DEF IInv, TypeOK
  <2>3. TypeOK' BY <1>1, <1>2, <2>1, <2>2 DEF IInv, TypeOK
  <2>4. Calls' BY <1>1, <2>1 DEF IInv, Calls
  <2>5. ReloadsExplained' BY <1>1, <1>2, <2>1 DEF IInv, ReloadsExplained
  <2>6. CopiesExplained' BY <1>1, <1>2, <2>1, <2>2 DEF IInv, CopiesExplained, Stale
  <2> QED BY <1>3, <2>3, <2>4, <2>5, <2>6 DEF IInv
<1>5. CASE OnUpdate(n)
  <2>1. /\ handler' = [handler EXCEPT ![n] = record] /\ lock' = [lock EXCEPT ![n] = n]
        /\ cache' = cache
    BY <1>5 DEF OnUpdate
  <2>2. /\ handler' \in [Nodes -> Versions \cup {None}] /\ handler'[n] = record
        /\ \A m \in Nodes : m # n => handler'[m] = handler[m]
    BY <2>1 DEF IInv, TypeOK
  <2>3. /\ lock' \in [Nodes -> Nodes \cup Readers \cup {None}] /\ lock'[n] = n
        /\ \A m \in Nodes : m # n => lock'[m] = lock[m]
    BY <2>1 DEF IInv, Calls
  <2>4. record # None BY DEF IInv, TypeOK
  <2>5. TypeOK'
    <3>1. \A r \in Readers : reader[r].at = "storing" <=> lock'[Home[r]] = r
      <4> TAKE r \in Readers
      <4>1. reader[r].at = "storing" <=> lock[Home[r]] = r BY DEF IInv, TypeOK
      <4>2. Home[r] \in Nodes /\ r \notin Nodes OBVIOUS
      <4>3. CASE Home[r] = n BY <4>2, <4>3, <1>2, <2>3
      <4>4. CASE Home[r] # n BY <4>1, <4>2, <4>4, <2>3
      <4> QED BY <4>3, <4>4
    <3>2. \A m \in Nodes : handler'[m] # None <=> lock'[m] = m
      BY <2>2, <2>3, <2>4 DEF IInv, TypeOK
    <3> QED BY <3>1, <3>2, <1>1, <1>2, <2>1, <2>2 DEF IInv, TypeOK
  <2>6. Calls' BY <1>1, <2>3 DEF IInv, Calls
  <2>7. ReloadsExplained' BY <1>1, <1>2, <2>2 DEF IInv, ReloadsExplained
  <2>8. CopiesExplained' BY <1>1, <1>2, <2>1, <2>2 DEF IInv, CopiesExplained, Stale
  <2> QED BY <1>3, <2>5, <2>6, <2>7, <2>8 DEF IInv
<1> QED BY <1>4, <1>5 DEF OnMessage

LEMMA ReloadInv == ASSUME IInv, NEW n \in Nodes, Reload(n) PROVE IInv'
<1>1. /\ n \in up /\ handler[n] # None
      /\ handler' = [handler EXCEPT ![n] = None] /\ lock' = [lock EXCEPT ![n] = None]
      /\ UNCHANGED <<record, reader, writer, notify, worker, channel, refresher, up>>
  BY DEF Reload, DoUpdateCache, UpdateFails
<1>2. \/ /\ missed' = missed
         /\ cache' = [cache EXCEPT ![n] = IF handler[n] \in Absent THEN None ELSE handler[n]]
      \/ missed' = missed \cup {n} /\ cache' = cache
  BY DEF Reload, DoUpdateCache, UpdateFails
<1>3. /\ handler' \in [Nodes -> Versions \cup {None}] /\ handler'[n] = None
      /\ \A m \in Nodes : m # n => handler'[m] = handler[m]
  BY <1>1 DEF IInv, TypeOK
<1>4. /\ lock' \in [Nodes -> Nodes \cup Readers \cup {None}] /\ lock'[n] = None
      /\ \A m \in Nodes : m # n => lock'[m] = lock[m]
  BY <1>1 DEF IInv, Calls
<1>5. lock[n] = n BY <1>1 DEF IInv, TypeOK
<1>6. /\ cache' \in [Nodes -> Versions \cup {None}] /\ missed' \subseteq Nodes
      /\ \A m \in Nodes : m # n => cache'[m] = cache[m]
      /\ \/ n \in missed' /\ cache'[n] = cache[n]
         \/ cache'[n] \in {None, handler[n]}
  <2>1. CASE missed' = missed \cup {n} /\ cache' = cache
    BY <2>1 DEF IInv, TypeOK
  <2>2. CASE missed' = missed /\
             cache' = [cache EXCEPT ![n] = IF handler[n] \in Absent THEN None ELSE handler[n]]
    <3>1. PICK v \in {None, handler[n]} : v = IF handler[n] \in Absent THEN None ELSE handler[n]
      OBVIOUS
    <3>2. cache' = [cache EXCEPT ![n] = v] BY <2>2, <3>1
    <3>3. v \in Versions \cup {None} BY DEF IInv, TypeOK
    <3> QED BY <2>2, <3>2, <3>3 DEF IInv, TypeOK
  <2> QED BY <1>2, <2>1, <2>2
<1>7. \A m : Explained(m) => Explained(m)'
  BY <1>1, <1>2 DEF Explained, Unsent
<1>8. TypeOK'
  <2>1. \A r \in Readers : reader[r].at = "storing" <=> lock'[Home[r]] = r
    <3> TAKE r \in Readers
    <3>1. reader[r].at = "storing" <=> lock[Home[r]] = r BY DEF IInv, TypeOK
    <3>2. Home[r] \in Nodes /\ r \notin Nodes /\ r # None OBVIOUS
    <3>3. CASE Home[r] = n BY <3>1, <3>2, <3>3, <1>4, <1>5
    <3>4. CASE Home[r] # n BY <3>1, <3>2, <3>4, <1>4
    <3> QED BY <3>3, <3>4
  <2>2. \A m \in Nodes : handler'[m] # None <=> lock'[m] = m
    <3> TAKE m \in Nodes
    <3>1. m # None OBVIOUS
    <3>2. handler[m] # None <=> lock[m] = m BY DEF IInv, TypeOK
    <3> QED BY <3>1, <3>2, <1>3, <1>4
  <2> QED BY <2>1, <2>2, <1>1, <1>3, <1>6 DEF IInv, TypeOK
<1>9. Calls'
  <2>1. \A m \in Nodes : lock'[m] \in Nodes => lock'[m] = m BY <1>4 DEF IInv, Calls
  <2> QED BY <2>1, <1>1, <1>4 DEF IInv, Calls
<1>10. LoadsExplained' BY <1>1, <1>7 DEF IInv, LoadsExplained
<1>11. ReloadsExplained' BY <1>1, <1>3, <1>7 DEF IInv, ReloadsExplained
<1>12. CopiesExplained'
  <2> SUFFICES ASSUME NEW m \in Nodes, Stale(m)' PROVE Explained(m)' \/ handler'[m] = record
    BY <1>1 DEF CopiesExplained
  <2>1. m \in up /\ cache'[m] \notin {None, record} BY <1>1 DEF Stale
  <2>2. CASE m # n BY <2>1, <2>2, <1>3, <1>6, <1>7 DEF IInv, CopiesExplained, Stale
  <2>3. CASE m = n /\ n \in missed' BY <2>3 DEF Explained
  <2>4. CASE m = n /\ cache'[n] \in {None, handler[n]}
    <3>1. handler[n] # record BY <2>1, <2>4
    <3>2. Explained(n) BY <3>1, <1>1 DEF IInv, ReloadsExplained
    <3> QED BY <3>2, <2>4, <1>7
  <2> QED BY <2>2, <2>3, <2>4, <1>6
<1> QED BY <1>8, <1>9, <1>10, <1>11, <1>12 DEF IInv

-----------------------------------------------------------------------------
(* Refreshes, evictions, and nodes that go down.                           *)

LEMMA RefreshInv ==
  ASSUME IInv, NEW n \in Nodes, RefreshLoad(n) \/ RefreshStore(n) \/ Evict(n)
  PROVE  IInv'
<1>1. UNCHANGED <<record, lock, handler, reader, writer, notify, worker, channel, up>>
  BY DEF RefreshLoad, RefreshStore, Evict
<1>2. /\ cache' \in [Nodes -> Versions \cup {None}]
      /\ refresher' \in [Nodes -> Versions \cup {None}]
      /\ missed \subseteq missed' /\ missed' \subseteq Nodes
      /\ \A m \in Nodes : cache'[m] \in {cache[m], None, record} \/ m \in missed'
  <2>1. CASE RefreshLoad(n) BY <2>1 DEF RefreshLoad, IInv, TypeOK
  <2>2. CASE RefreshStore(n)
    <3>1. /\ cache' = [cache EXCEPT ![n] = refresher[n]] /\ refresher[n] # None
          /\ refresher' = [refresher EXCEPT ![n] = None]
          /\ missed' = IF refresher[n] = record THEN missed ELSE missed \cup {n}
      BY <2>2 DEF RefreshStore
    <3>2. /\ cache' \in [Nodes -> Versions \cup {None}]
          /\ refresher' \in [Nodes -> Versions \cup {None}]
      BY <3>1 DEF IInv, TypeOK
    <3> QED BY <3>1, <3>2 DEF IInv, TypeOK
  <2>3. CASE Evict(n) BY <2>3 DEF Evict, IInv, TypeOK
  <2> QED BY <2>1, <2>2, <2>3
<1>3. \A m : Explained(m) => Explained(m)'
  BY <1>1, <1>2 DEF Explained, Unsent
<1>4. TypeOK' BY <1>1, <1>2 DEF IInv, TypeOK
<1>5. Calls' BY <1>1 DEF IInv, Calls
<1>6. LoadsExplained' /\ ReloadsExplained'
  BY <1>1, <1>3 DEF IInv, LoadsExplained, ReloadsExplained
<1>7. CopiesExplained'
  <2> SUFFICES ASSUME NEW m \in Nodes, Stale(m)' PROVE Explained(m)' \/ handler[m] = record
    BY <1>1 DEF CopiesExplained
  <2>1. m \in up /\ cache'[m] \notin {None, record} BY <1>1 DEF Stale
  <2>2. CASE cache'[m] = cache[m]
    BY <2>1, <2>2, <1>3 DEF IInv, CopiesExplained, Stale
  <2>3. CASE m \in missed' BY <2>3 DEF Explained
  <2> QED BY <2>1, <2>2, <2>3, <1>2
<1> QED BY <1>4, <1>5, <1>6, <1>7 DEF IInv

LEMMA DownInv == ASSUME IInv, NEW n \in Nodes, Down(n) PROVE IInv'
<1>1. /\ up' = up \ {n} /\ missed' = IF Unsent(n) THEN Nodes ELSE missed
      /\ UNCHANGED <<record, cache, lock, handler, reader, writer, notify, worker, channel,
                     refresher>>
  BY DEF Down
<1>2. \A m \in Nodes : Unsent(m)' = Unsent(m) BY <1>1 DEF Unsent
<1>3. up \subseteq Nodes /\ missed \subseteq Nodes BY DEF IInv, TypeOK
<1>4. \A m \in Nodes : Explained(m) => Explained(m)'
  <2> SUFFICES ASSUME NEW m \in Nodes, Explained(m) PROVE Explained(m)' OBVIOUS
  <2>1. CASE Unsent(n) BY <2>1, <1>1 DEF Explained
  <2>2. CASE ~Unsent(n) BY <2>2, <1>1, <1>2, <1>3 DEF Explained
  <2> QED BY <2>1, <2>2
<1>5. TypeOK' BY <1>1, <1>3 DEF IInv, TypeOK
<1>6. Calls' BY <1>1 DEF IInv, Calls
<1>7. LoadsExplained' /\ ReloadsExplained'
  BY <1>1, <1>4 DEF IInv, LoadsExplained, ReloadsExplained
<1>8. CopiesExplained' BY <1>1, <1>4 DEF IInv, CopiesExplained, Stale
<1> QED BY <1>5, <1>6, <1>7, <1>8 DEF IInv

-----------------------------------------------------------------------------
(* Theorems.                                                               *)

\* The invariant is inductive.
THEOREM Invariance == Spec => []IInv
<1>1. Init => IInv
  <2> SUFFICES ASSUME Init PROVE IInv OBVIOUS
  <2>1. 0 \in Versions OBVIOUS
  <2>2. TypeOK
    <3>1. channel \in [Nodes -> [Patterns -> Nat]] BY DEF Init
    <3>2. notify \in [Nodes -> Seq(Patterns)] BY DEF Init
    <3>3. \A r \in Readers : reader[r].at = "storing" <=> lock[Home[r]] = r
      BY DEF Init
    <3>4. \A n \in Nodes : handler[n] # None <=> lock[n] = n
      BY DEF Init
    <3> QED BY <2>1, <3>1, <3>2, <3>3, <3>4 DEF Init, TypeOK
  <2>3. Calls BY DEF Init, Calls, Patterns
  <2>4. LoadsExplained /\ ReloadsExplained /\ CopiesExplained
    BY DEF Init, LoadsExplained, ReloadsExplained, CopiesExplained, Stale
  <2> QED BY <2>2, <2>3, <2>4 DEF IInv
<1>2. ASSUME IInv, [Next]_vars PROVE IInv'
  <2>1. CASE UNCHANGED vars
    BY <1>2, <2>1 DEF vars, IInv, TypeOK, Calls, LoadsExplained, ReloadsExplained,
                      CopiesExplained, Stale, Explained, Unsent
  <2>2. ASSUME NEW r \in Readers, Lookup(r) \/ LookupLocked(r) PROVE IInv'
    BY <1>2, <2>2, LookupInv
  <2>3. ASSUME NEW r \in Readers, Load(r) PROVE IInv' BY <1>2, <2>3, LoadInv
  <2>4. ASSUME NEW r \in Readers, Store(r) \/ LoadFails(r) PROVE IInv'
    BY <1>2, <2>4, StoreInv
  <2>5. ASSUME NEW n \in Nodes, NEW pattern \in Patterns, Write(n, pattern) PROVE IInv'
    BY <1>2, <2>5, WriteInv
  <2>6. ASSUME NEW n \in Nodes, WriterStep(n) PROVE IInv'
    BY <1>2, <2>6, RemoveCacheInv, PublishInv DEF WriterStep
  <2>7. ASSUME NEW n \in Nodes, WorkerStep(n) PROVE IInv' BY <1>2, <2>7, WorkerStepInv
  <2>8. ASSUME NEW n \in Nodes, OnMessage(n) PROVE IInv' BY <1>2, <2>8, OnMessageInv
  <2>9. ASSUME NEW n \in Nodes, Reload(n) PROVE IInv' BY <1>2, <2>9, ReloadInv
  <2>10. ASSUME NEW n \in Nodes, RefreshLoad(n) \/ RefreshStore(n) \/ Evict(n) PROVE IInv'
    BY <1>2, <2>10, RefreshInv
  <2>11. ASSUME NEW n \in Nodes, Down(n) PROVE IInv' BY <1>2, <2>11, DownInv
  <2> QED BY <1>2, <2>1, <2>2, <2>3, <2>4, <2>5, <2>6, <2>7, <2>8, <2>9, <2>10, <2>11 DEF Next
<1> QED BY <1>1, <1>2, PTL DEF Spec

\* The types of the state, and who holds the lock of the key.
THEOREM TypeCorrect == Spec => []TypeOK
<1>1. IInv => TypeOK BY DEF IInv
<1> QED BY <1>1, Invariance, PTL

\* Why a node may hold an old version (RedisEhCache.java:64-72, 105-133,
\* 190-222, 248-274).
THEOREM StaleExplainedHolds == Spec => []StaleExplained
<1>1. IInv => StaleExplained
  BY DEF IInv, CopiesExplained, Explained, StaleExplained
<1> QED BY <1>1, Invariance, PTL
=============================================================================

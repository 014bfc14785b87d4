---------------------------- MODULE RedisEhCache ----------------------------
(***************************************************************************)
(* The two-level cache: every node keeps loaded values in an Ehcache; who  *)
(* changes a record calls delete or update, which tell all nodes through a *)
(* Redis channel to drop or to reload their copy.  Loads and reloads run   *)
(* under the write lock of the key; the removal within delete and the      *)
(* refreshes of RefreshAheadRedisEhCache do not.                           *)
(*                                                                         *)
(* One key: keys share nothing but the notify queue, a FIFO that is never  *)
(* full.  A channel delivers a message to those connected when it is       *)
(* published, and to nobody later.                                         *)
(***************************************************************************)
EXTENDS Naturals, Sequences

CONSTANTS
  Nodes,
  Readers,     \* the threads that call getAside
  Home,        \* the node of a reader
  Writers,     \* the nodes where the record is changed
  Refreshing,  \* the nodes with a refresh-ahead cache
  Absent,      \* the versions at which the record does not exist
  None,        \* no element in the cache, nobody holds a lock
  MaxWrites,   \* bound: changes of the record
  MaxFaults    \* bound: failing calls, lost messages and crashes

ASSUME CacheAssumption ==
  /\ Home \in [Readers -> Nodes]
  /\ Writers \subseteq Nodes /\ Refreshing \subseteq Nodes
  /\ Absent \subseteq Nat
  /\ None \notin Nat \cup Readers \cup Nodes /\ Readers \cap Nodes = {}
  /\ MaxWrites \in Nat /\ MaxFaults \in Nat

VARIABLES
  record,    \* the version of the record in the system of record
  cache,     \* per node, the version in its Ehcache
  lock,      \* per node, who holds the write lock of the key
  reader,    \* per reader, its call of getAside
  writer,    \* per node, its call of delete or update
  notify,    \* per node, NOTIFY_UPDATE_QUEUE
  worker,    \* per node, the notifyWorker
  channel,   \* per node, the messages on their way, counted by pattern
  handler,   \* per node, the version a reload in onMessage has read
  refresher, \* per node, the version a refresh has read
  up,        \* the nodes that run
  missed,    \* history: the nodes that a change may have passed by
  faults

nodes == <<cache, lock, handler>>
vars == <<record, cache, lock, reader, writer, notify, worker, channel, handler, refresher,
          up, missed, faults>>

Patterns == {"delete", "update"}
Versions == 0..MaxWrites

Init ==
  /\ record = 0
  /\ cache = [n \in Nodes |-> None]
  /\ lock = [n \in Nodes |-> None]
  /\ reader = [r \in Readers |-> [at |-> "idle", value |-> None]]
  /\ writer = [n \in Nodes |-> [at |-> "idle", pattern |-> "delete"]]
  /\ notify = [n \in Nodes |-> << >>]
  /\ worker = [n \in Nodes |-> [at |-> "take", pattern |-> "delete"]]
  /\ channel = [n \in Nodes |-> [p \in Patterns |-> 0]]
  /\ handler = [n \in Nodes |-> None]
  /\ refresher = [n \in Nodes |-> None]
  /\ up = Nodes
  /\ missed = {}
  /\ faults = 0

-----------------------------------------------------------------------------
(* getAside.                                                               *)

\* Mutant of Free: the lock keeps nobody out.
FreeAlways(n) == TRUE

Free(n) == lock[n] = None

Reader(r, at) == [reader EXCEPT ![r].at = at]

\* cache.get without a lock; a hit is the answer.
Lookup(r) ==
  /\ Home[r] \in up /\ reader[r].at = "idle" /\ cache[Home[r]] = None
  /\ reader' = Reader(r, "reading")
  /\ UNCHANGED <<record, nodes, writer, notify, worker, channel, refresher, up, missed, faults>>

\* The same under the read lock.
LookupLocked(r) ==
  /\ Home[r] \in up /\ reader[r].at = "reading" /\ Free(Home[r])
  /\ reader' = Reader(r, IF cache[Home[r]] = None THEN "locking" ELSE "idle")
  /\ UNCHANGED <<record, nodes, writer, notify, worker, channel, refresher, up, missed, faults>>

\* Under the write lock: a third look, and if it fails getSoR.
Load(r) ==
  LET n == Home[r]
  IN /\ n \in up /\ reader[r].at = "locking" /\ Free(n)
     /\ IF cache[n] = None
        THEN /\ reader' = [reader EXCEPT ![r] = [at |-> "storing", value |-> record]]
             /\ lock' = [lock EXCEPT ![n] = r]
             /\ missed' = missed \ {n}
        ELSE reader' = Reader(r, "idle") /\ UNCHANGED <<lock, missed>>
     /\ UNCHANGED <<record, cache, handler, writer, notify, worker, channel, refresher, up, faults>>

\* cache.put of what was read, a missing record included; the lock is free.
Store(r) ==
  LET n == Home[r]
  IN /\ n \in up /\ reader[r].at = "storing"
     /\ cache' = [cache EXCEPT ![n] = reader[r].value]
     /\ lock' = [lock EXCEPT ![n] = None]
     /\ reader' = [reader EXCEPT ![r] = [at |-> "idle", value |-> None]]
     /\ UNCHANGED <<record, handler, writer, notify, worker, channel, refresher, up, missed, faults>>

\* getSoR throws out of getAside, which frees the lock.
LoadFails(r) ==
  /\ Home[r] \in up /\ reader[r].at = "storing"
  /\ faults < MaxFaults /\ faults' = faults + 1
  /\ lock' = [lock EXCEPT ![Home[r]] = None]
  /\ reader' = [reader EXCEPT ![r] = [at |-> "idle", value |-> None]]
  /\ UNCHANGED <<record, cache, handler, writer, notify, worker, channel, refresher, up, missed>>

-----------------------------------------------------------------------------
(* delete and update, and the notify worker.                               *)

Writer(n, at) == [writer EXCEPT ![n].at = at]

\* The application changes the record and calls delete or update.
Write(n, pattern) ==
  /\ n \in up \cap Writers /\ writer[n].at = "idle" /\ record < MaxWrites
  /\ record' = record + 1
  /\ writer' = [writer EXCEPT ![n] =
       [at |-> IF pattern = "delete" THEN "remove" ELSE "publish", pattern |-> pattern]]
  /\ UNCHANGED <<nodes, reader, notify, worker, channel, refresher, up, missed, faults>>

\* delete drops the local copy first, without the key's lock.
RemoveCache(n) ==
  /\ n \in up /\ writer[n].at = "remove"
  /\ cache' = [cache EXCEPT ![n] = None]
  /\ writer' = Writer(n, "publish")
  /\ UNCHANGED <<record, lock, handler, reader, notify, worker, channel, refresher, up, missed, faults>>

\* What a publish does to the subscribers it reaches.
Published(pattern, reached) ==
  channel' = [m \in Nodes |->
    IF m \in reached THEN [channel[m] EXCEPT ![pattern] = @ + 1] ELSE channel[m]]

\* convertAndSend succeeds; subscribers that are reconnecting miss it.
NotifyUpdateCache(pattern) ==
  \E reached \in SUBSET up :
    /\ reached # up => faults < MaxFaults
    /\ Published(pattern, reached)
    /\ missed' = missed \cup (up \ reached)
    /\ faults' = IF reached = up THEN faults ELSE faults + 1

\* convertAndSend throws, whether or not Redis got the message.
NotifyFails(pattern) ==
  /\ faults < MaxFaults /\ faults' = faults + 1
  /\ \E reached \in {{}, up} : Published(pattern, reached)

\* What could not be sent is left to the worker; a thread that is interrupted
\* can only drop its own node's copy, and no one else will hear of the change.
PutNotifyQueue(n, pattern) ==
  \/ notify' = [notify EXCEPT ![n] = Append(@, pattern)] /\ UNCHANGED <<cache, missed>>
  \/ /\ cache' = [cache EXCEPT ![n] = None]
     /\ missed' = Nodes
     /\ UNCHANGED notify

\* The end of delete, and all of update.
Publish(n) ==
  /\ n \in up /\ writer[n].at = "publish"
  /\ writer' = Writer(n, "idle")
  /\ \/ NotifyUpdateCache(writer[n].pattern) /\ UNCHANGED <<notify, cache>>
     \/ NotifyFails(writer[n].pattern) /\ PutNotifyQueue(n, writer[n].pattern)
  /\ UNCHANGED <<record, lock, handler, reader, worker, refresher, up>>

\* The worker takes what delete and update could not send.
TakeNotify(n) ==
  /\ n \in up /\ worker[n].at = "take" /\ notify[n] # << >>
  /\ worker' = [worker EXCEPT ![n] = [at |-> "notify", pattern |-> Head(notify[n])]]
  /\ notify' = [notify EXCEPT ![n] = Tail(@)]
  /\ UNCHANGED <<record, nodes, reader, writer, channel, refresher, up, missed, faults>>

\* Mutant of PutBack: one retry is enough.
PutBackNot(n) == UNCHANGED notify

PutBack(n) == notify' = [notify EXCEPT ![n] = Append(@, worker[n].pattern)]

\* It sends it, or puts it back and sleeps for 200 ms.
Notify(n) ==
  /\ n \in up /\ worker[n].at = "notify"
  /\ \/ /\ NotifyUpdateCache(worker[n].pattern)
        /\ worker' = [worker EXCEPT ![n].at = "take"] /\ UNCHANGED notify
     \/ /\ NotifyFails(worker[n].pattern) /\ UNCHANGED missed
        /\ worker' = [worker EXCEPT ![n].at = "sleep"] /\ PutBack(n)
  /\ UNCHANGED <<record, nodes, reader, writer, refresher, up>>

Wake(n) ==
  /\ n \in up /\ worker[n].at = "sleep"
  /\ worker' = [worker EXCEPT ![n].at = "take"]
  /\ UNCHANGED <<record, nodes, reader, writer, notify, channel, refresher, up, missed, faults>>

-----------------------------------------------------------------------------
(* onMessage.  The container hands messages to threads of their own: they  *)
(* get the key's lock in any order.                                        *)

Received(n, pattern) ==
  /\ n \in up /\ Free(n) /\ channel[n][pattern] > 0
  /\ channel' = [channel EXCEPT ![n][pattern] = @ - 1]
  /\ missed' = missed \ {n}

OnDelete(n) ==
  /\ Received(n, "delete")
  /\ cache' = [cache EXCEPT ![n] = None]
  /\ UNCHANGED <<record, lock, handler, reader, writer, notify, worker, refresher, up, faults>>

\* doUpdateCache reads the record under the lock.
OnUpdate(n) ==
  /\ Received(n, "update")
  /\ handler' = [handler EXCEPT ![n] = record]
  /\ lock' = [lock EXCEPT ![n] = n]
  /\ UNCHANGED <<record, cache, reader, writer, notify, worker, refresher, up, faults>>

\* It stores what it read, or drops the copy of a record that is gone.
DoUpdateCache(n) ==
  /\ n \in up /\ handler[n] # None
  /\ cache' = [cache EXCEPT ![n] = IF handler[n] \in Absent THEN None ELSE handler[n]]
  /\ handler' = [handler EXCEPT ![n] = None]
  /\ lock' = [lock EXCEPT ![n] = None]
  /\ UNCHANGED <<record, reader, writer, notify, worker, channel, refresher, up, missed, faults>>

\* getSoR throws out of onMessage: the old copy stays.
UpdateFails(n) ==
  /\ faults < MaxFaults /\ faults' = faults + 1
  /\ n \in up /\ handler[n] # None
  /\ handler' = [handler EXCEPT ![n] = None]
  /\ lock' = [lock EXCEPT ![n] = None]
  /\ missed' = missed \cup {n}
  /\ UNCHANGED <<record, cache, reader, writer, notify, worker, channel, refresher, up>>

-----------------------------------------------------------------------------
(* Ehcache and the rest of the environment.                                *)

\* A refresh reads an element that is about to expire, and puts it later
\* without the key's lock; it may overtake an invalidation.
RefreshLoad(n) ==
  /\ n \in up \cap Refreshing /\ refresher[n] = None /\ cache[n] # None
  /\ refresher' = [refresher EXCEPT ![n] = record]
  /\ UNCHANGED <<record, nodes, reader, writer, notify, worker, channel, up, missed, faults>>

RefreshStore(n) ==
  /\ n \in up /\ refresher[n] # None
  /\ cache' = [cache EXCEPT ![n] = refresher[n]]
  /\ refresher' = [refresher EXCEPT ![n] = None]
  /\ missed' = IF refresher[n] = record THEN missed ELSE missed \cup {n}
  /\ UNCHANGED <<record, lock, handler, reader, writer, notify, worker, channel, up, faults>>

\* An element's time to live runs out.
Evict(n) ==
  /\ n \in up /\ cache[n] # None
  /\ cache' = [cache EXCEPT ![n] = None]
  /\ UNCHANGED <<record, lock, handler, reader, writer, notify, worker, channel, refresher, up, missed, faults>>

Unsent(n) == writer[n].at # "idle" \/ notify[n] # << >> \/ worker[n].at = "notify"

\* A node stops or dies: what it has not sent, no one will hear of.
Down(n) ==
  /\ n \in up /\ faults < MaxFaults /\ faults' = faults + 1
  /\ up' = up \ {n}
  /\ missed' = IF Unsent(n) THEN Nodes ELSE missed
  /\ UNCHANGED <<record, nodes, reader, writer, notify, worker, channel, refresher>>

WriterStep(n) == RemoveCache(n) \/ Publish(n)
WorkerStep(n) == TakeNotify(n) \/ Notify(n) \/ Wake(n)
Reload(n) == DoUpdateCache(n) \/ UpdateFails(n)
OnMessage(n) == OnDelete(n) \/ OnUpdate(n)

Next ==
  \/ \E r \in Readers : Lookup(r) \/ LookupLocked(r) \/ Load(r) \/ Store(r) \/ LoadFails(r)
  \/ \E n \in Nodes :
       \/ \E pattern \in Patterns : Write(n, pattern)
       \/ WriterStep(n) \/ WorkerStep(n)
       \/ OnMessage(n) \/ Reload(n)
       \/ RefreshLoad(n) \/ RefreshStore(n) \/ Evict(n) \/ Down(n)

(* What is under way at a node goes on.  Readers take the lock again and   *)
(* again, hence SF for the threads that wait for it with a message.        *)
Spec ==
  /\ Init /\ [][Next]_vars
  /\ \A n \in Nodes :
       /\ WF_vars(WriterStep(n) \/ WorkerStep(n))
       /\ WF_vars(Reload(n) \/ \E r \in Readers : Home[r] = n /\ Store(r))
       /\ SF_vars(OnMessage(n))

-----------------------------------------------------------------------------
(* Properties.                                                             *)

\* Types; who is between load and store holds the lock.
TypeOK ==
  /\ record \in Versions
  /\ cache \in [Nodes -> Versions \cup {None}]
  /\ handler \in [Nodes -> Versions \cup {None}] /\ refresher \in [Nodes -> Versions \cup {None}]
  /\ \A r \in Readers : reader[r].at = "storing" <=> lock[Home[r]] = r
  /\ \A n \in Nodes : handler[n] # None <=> lock[n] = n
  /\ notify \in [Nodes -> Seq(Patterns)]
  /\ channel \in [Nodes -> [Patterns -> Nat]]
  /\ up \subseteq Nodes /\ missed \subseteq Nodes

Stale(n) == n \in up /\ cache[n] \notin {None, record}

\* A node that holds an old version will be told: the change has not been
\* sent yet, or the message is on its way, or its reload is under way.
\* Otherwise it missed a message, failed to reload, or a refresh has put
\* the old version back.
StaleExplained ==
  \A n \in Nodes :
    Stale(n) =>
      \/ \E m \in up : Unsent(m)
      \/ \E p \in Patterns : channel[n][p] > 0
      \/ handler[n] = record
      \/ n \in missed

\* No node serves an old version for ever, but for the same reasons.
Converges == \A n \in Nodes : Stale(n) ~> (~Stale(n) \/ n \in missed)
=============================================================================

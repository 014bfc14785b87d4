--------------------- MODULE ZookeeperLocalCacheFactory ---------------------
(***************************************************************************)
(* The local caches of dol-framework-cache: every process keeps objects in *)
(* a map, watches one ZooKeeper node per dependency, and drops the objects *)
(* of a dependency when somebody touches its node.                         *)
(*                                                                         *)
(* ZooKeeper is modelled from how the class uses it: a watch fires once,   *)
(* on the next setData; what the server has fired reaches a client when it *)
(* is connected, before the answer to any later call; the event thread     *)
(* runs the watchers one after the other; a session that expires takes its *)
(* watches along.                                                          *)
(*                                                                         *)
(* What nobody in the code can see is in three history variables: stale,   *)
(* excused and owed.                                                       *)
(***************************************************************************)
EXTENDS Naturals, Sequences, FiniteSets

CONSTANTS
  Nodes,         \* the processes, each with one factory
  Adders,        \* the threads that call add
  Callers,       \* the threads that call expire
  Home,          \* the node of such a thread
  Objects,       \* the cacheObjectKeys
  Dependencies,
  DependsOn,     \* the dependencies an object is added with
  Capacity,      \* of updateDependencyQueue
  None,
  Expirable,     \* bound: the dependencies that expire is called with
  MaxWatchers,   \* bound: watchers of a dependency on a node, with their events
  MaxFaults      \* bound: disconnections, expirations of sessions, destroy()

ASSUME CacheAssumption ==
  /\ Home \in [Adders \cup Callers -> Nodes]
  /\ DependsOn \in [Objects -> (SUBSET Dependencies) \ {{}}]
  /\ Capacity \in Nat \ {0}
  /\ Expirable \subseteq Dependencies
  /\ None \notin Objects /\ None \notin Dependencies
  /\ MaxWatchers \in Nat /\ MaxFaults \in Nat

VARIABLES
  znodes,    \* the dependencies that have a node in ZooKeeper
  session,   \* per node: "connected", "disconnected", "closed" (expired), "gone" (destroyed)
  watchers,  \* per node: how many watchers each dependency has
  fired,     \* per node: watches the server has fired and the client does not know of
  events,    \* per node: the dependencies whose watchers the event thread has to run
  cached,    \* per node: the keys of cachedObjectsMap
  mapping,   \* per node: dependecyMap, with {} for a dependency it does not have
  add,       \* per thread: its call of add
  call,      \* per thread: the dependency expire is about to put, or None
  queue,     \* per node: updateDependencyQueue
  worker,    \* per node: updateDependencyWorker and the dependency it holds
  faults,
  stale,     \* per node and object: dependencies touched since it watched them
  excused,   \* per node: objects that may miss an update, see StaleExplained
  owed       \* per node: dependencies that expire has queued and nobody touched since

zk == <<znodes, session, watchers, fired>>
cache == <<events, cached, mapping, add, stale, excused>>
expiry == <<call, queue, worker, owed>>
vars == <<zk, cache, expiry, faults>>

Up(n) == session[n] # "gone"

Idle == [at |-> "idle", key |-> None, dep |-> None, todo |-> {}, missed |-> {}, fresh |-> FALSE,
         doomed |-> FALSE]

Init ==
  /\ znodes = {}
  /\ session = [n \in Nodes |-> "connected"]
  /\ watchers = [n \in Nodes |-> [d \in Dependencies |-> 0]]
  /\ fired = [n \in Nodes |-> {}]
  /\ events = [n \in Nodes |-> <<>>]
  /\ cached = [n \in Nodes |-> {}]
  /\ mapping = [n \in Nodes |-> [d \in Dependencies |-> {}]]
  /\ add = [a \in Adders |-> Idle]
  /\ call = [c \in Callers |-> None]
  /\ queue = [n \in Nodes |-> <<>>]
  /\ worker = [n \in Nodes |-> [at |-> "take", dep |-> None]]
  /\ faults = 0
  /\ stale = [n \in Nodes |-> [k \in Objects |-> {}]]
  /\ excused = [n \in Nodes |-> {}]
  /\ owed = [n \in Nodes |-> {}]

-----------------------------------------------------------------------------
(* Threads inside add.                                                     *)

\* a has set its watch on d and has not yet mapped d to its object.
Exposed(a, d) ==
  LET c == add[a] IN
  \/ c.at \in {"exists", "create", "watch"} /\ d \in DependsOn[c.key] \ c.todo
  \/ c.at = "put" /\ d \in DependsOn[c.key]
  \/ c.at = "contains" /\ d \in c.todo
  \/ c.at = "map" /\ (d \in c.todo \/ d = c.dep)

\* a is adding to the key set of d itself, and the set changes by it.
Growing(a, n, d) ==
  /\ Home[a] = n /\ add[a].at = "map" /\ add[a].dep = d /\ ~add[a].fresh
  /\ add[a].key \notin mapping[n][d]

At(a, step) == Up(Home[a]) /\ add[a].at = step

\* Mutant of Reconnected: a client that is dead passes for one that is alive.
ReconnectedNot(n) == session

\* connect(), called when something failed: a new session only if the old one is
\* dead.
Reconnected(n) ==
  IF session[n] = "closed" THEN [session EXCEPT ![n] = "disconnected"] ELSE session

-----------------------------------------------------------------------------
(* add().                                                                  *)

\* Room for another watcher, and its event, within MaxWatchers.
Room(n, k) ==
  \A d \in DependsOn[k] :
    watchers[n][d] + Cardinality({i \in DOMAIN events[n] : events[n][i] = d})
      + Cardinality({a \in Adders : /\ Home[a] = n /\ d \in add[a].todo
                                    /\ add[a].at \in {"exists", "create", "watch"}}) < MaxWatchers

Add(a, k) ==
  /\ At(a, "idle")
  /\ Room(Home[a], k)
  /\ add' = [add EXCEPT ![a] = [Idle EXCEPT !.at = "exists", !.key = k, !.todo = DependsOn[k]]]
  /\ UNCHANGED <<zk, events, cached, mapping, stale, excused, expiry, faults>>

\* zk.exists(path)
Exists(a) ==
  /\ At(a, "exists") /\ session[Home[a]] = "connected"
  /\ \E d \in add[a].todo :
       add' = [add EXCEPT ![a].at = IF d \in znodes THEN "watch" ELSE "create", ![a].dep = d]
  /\ UNCHANGED <<zk, events, cached, mapping, stale, excused, expiry, faults>>

\* zk.create(path): NodeExistsException when another one was faster.
Create(a) ==
  /\ At(a, "create") /\ session[Home[a]] = "connected"
  /\ \/ /\ add[a].dep \notin znodes
        /\ znodes' = znodes \cup {add[a].dep}
        /\ add' = [add EXCEPT ![a].at = "watch"]
     \/ /\ add[a].dep \in znodes
        /\ add' = [add EXCEPT ![a] = Idle]
        /\ UNCHANGED znodes
  /\ UNCHANGED <<session, watchers, fired, events, cached, mapping, stale, excused, expiry, faults>>

\* zk.getData(path, watcher, stat).  What the server has fired arrives first.
Watch(a) ==
  LET n == Home[a]
      d == add[a].dep
      left == add[a].todo \ {d}
  IN
  /\ At(a, "watch") /\ session[n] = "connected"
  /\ fired[n] = {}
  /\ watchers' = [watchers EXCEPT ![n][d] = @ + 1]
  /\ add' = [add EXCEPT ![a].at = IF left = {} THEN "put" ELSE "exists",
                        ![a].todo = left, ![a].dep = None]
  /\ UNCHANGED <<znodes, session, fired, events, cached, mapping, stale, excused, expiry, faults>>

\* A call to ZooKeeper throws: add returns false.
AddFails(a) ==
  /\ add[a].at \in {"exists", "create", "watch"}
  /\ session[Home[a]] \in {"disconnected", "closed"}
  /\ session' = Reconnected(Home[a])
  /\ add' = [add EXCEPT ![a] = Idle]
  /\ UNCHANGED <<znodes, watchers, fired, events, cached, mapping, stale, excused, expiry, faults>>

\* The thread is interrupted in a call to ZooKeeper, which the server may execute
\* all the same: add returns false, and leaves a node or a watch behind.
AddInterrupted(a) ==
  LET n == Home[a]
      d == add[a].dep
  IN
  /\ add[a].at \in {"exists", "create", "watch"} /\ session[n] = "connected"
  /\ \/ UNCHANGED <<znodes, watchers>>
     \/ /\ add[a].at = "create"
        /\ znodes' = znodes \cup {d} /\ UNCHANGED watchers
     \/ /\ add[a].at = "watch" /\ fired[n] = {}
        /\ watchers' = [watchers EXCEPT ![n][d] = @ + 1] /\ UNCHANGED znodes
  /\ add' = [add EXCEPT ![a] = Idle]
  /\ UNCHANGED <<session, fired, events, cached, mapping, stale, excused, expiry, faults>>

\* cachedObjectsMap.put(cacheObjectKey, cacheData)
PutObject(a) ==
  LET n == Home[a]
      k == add[a].key
  IN
  /\ At(a, "put")
  /\ cached' = [cached EXCEPT ![n] = @ \cup {k}]
  /\ stale' = [stale EXCEPT ![n][k] = add[a].missed]
  /\ excused' = [excused EXCEPT ![n] = IF add[a].doomed THEN @ \cup {k} ELSE @ \ {k}]
  /\ add' = [add EXCEPT ![a].at = "contains", ![a].todo = DependsOn[k]]
  /\ UNCHANGED <<zk, events, mapping, expiry, faults>>

\* dependecyMap.containsKey(dependencyKey)
ContainsDependency(a) ==
  LET n == Home[a] IN
  /\ At(a, "contains")
  /\ \E d \in add[a].todo :
       add' = [add EXCEPT ![a].at = "map", ![a].dep = d, ![a].todo = @ \ {d},
                          ![a].fresh = mapping[n][d] = {}]
  /\ UNCHANGED <<zk, events, cached, mapping, stale, excused, expiry, faults>>

\* Mutant of Mapped: no containsKey.
MappedAnew(a, n, d) == {{add[a].key}}

\* Mutant of Mapped: key and value are swapped.
MappedSwapped(a, n, d) == {{d}}

\* The key sets that may result: a new set replaces whatever is there by now; an
\* add to a HashSet that another thread adds to may be lost.
Mapped(a, n, d) ==
  IF add[a].fresh THEN {{add[a].key}}
  ELSE {mapping[n][d] \cup {add[a].key}}
       \cup {m \in {mapping[n][d]} : \E b \in Adders \ {a} : Growing(b, n, d)}

\* The rest of the turn of addDependencyMapping.
MapDependency(a) ==
  LET n == Home[a]
      d == add[a].dep
  IN
  /\ At(a, "map")
  /\ \E set \in Mapped(a, n, d) :
       /\ mapping' = [mapping EXCEPT ![n][d] = set]
       /\ excused' = [excused EXCEPT ![n] =
                        @ \cup {k \in cached[n] \ set :
                                  \/ add[a].fresh /\ k \in mapping[n][d]
                                  \/ k = add[a].key}]
  /\ add' = [add EXCEPT ![a] = IF add[a].todo = {} THEN Idle
                               ELSE [@ EXCEPT !.at = "contains", !.dep = None]]
  /\ UNCHANGED <<zk, events, cached, stale, expiry, faults>>

\* The objects in keys leave the cache; of those that stay, miss may miss an update.
Dropped(n, keys, miss) ==
  /\ cached' = [cached EXCEPT ![n] = @ \ keys]
  /\ stale' = [stale EXCEPT ![n] = [k \in Objects |-> IF k \in keys THEN {} ELSE @[k]]]
  /\ excused' = [excused EXCEPT ![n] = (@ \cup (miss \cap cached[n])) \ keys]

\* remove(cacheObjectKey)
Remove(n, k) ==
  /\ Up(n)
  /\ k \in cached[n]
  /\ Dropped(n, {k}, {})
  /\ UNCHANGED <<zk, events, mapping, add, expiry, faults>>

-----------------------------------------------------------------------------
(* Watches.                                                                *)

\* The client learns what the server has fired: all watchers of d go to the event
\* thread.
Receive(n, d) ==
  /\ session[n] = "connected"
  /\ d \in fired[n]
  /\ fired' = [fired EXCEPT ![n] = @ \ {d}]
  /\ watchers' = [watchers EXCEPT ![n][d] = 0]
  /\ events' = [events EXCEPT ![n] = @ \o [i \in 1..watchers[n][d] |-> d]]
  /\ UNCHANGED <<znodes, session, cached, mapping, add, stale, excused, expiry, faults>>

\* The keys that clearCacheObjectByDependency(d) removes.  A dependency without
\* a key set makes it throw; a set that changes under the loop too, anywhere.
Cleared(n, d) ==
  IF \E a \in Adders : Growing(a, n, d) THEN SUBSET mapping[n][d] ELSE {mapping[n][d]}

\* Mutant of Process: the watcher waits for another type of event.
ProcessIgnored(n) ==
  /\ Up(n) /\ events[n] # <<>>
  /\ events' = [events EXCEPT ![n] = Tail(@)]
  /\ UNCHANGED <<zk, cached, mapping, add, stale, excused, expiry, faults>>

\* A watcher runs.
Process(n) ==
  LET d == Head(events[n])
      exposed == {a \in Adders : Home[a] = n /\ Exposed(a, d)}
  IN
  /\ Up(n) /\ events[n] # <<>>
  /\ events' = [events EXCEPT ![n] = Tail(@)]
  /\ \E keys \in Cleared(n, d) :
       Dropped(n, keys, mapping[n][d] \cup {add[a].key : a \in exposed})
  /\ add' = [a \in Adders |-> [add[a] EXCEPT !.doomed = @ \/ (a \in exposed /\ d \in add[a].missed)]]
  /\ UNCHANGED <<zk, mapping, expiry, faults>>

-----------------------------------------------------------------------------
(* expire() and its worker.                                                *)

Queued(n, d) == \E i \in DOMAIN queue[n] : queue[n][i] = d

\* expire(d), up to updateDependencyQueue.contains: what is there already is as
\* good as put.
Expire(c, d) ==
  LET n == Home[c] IN
  /\ Up(n) /\ call[c] = None
  /\ call' = [call EXCEPT ![c] = IF Queued(n, d) THEN None ELSE d]
  /\ owed' = IF Queued(n, d) THEN [owed EXCEPT ![n] = @ \cup {d}] ELSE owed
  /\ UNCHANGED <<zk, cache, queue, worker, faults>>

\* updateDependencyQueue.put, which blocks while the queue is full.
PutDependency(c) ==
  LET n == Home[c] IN
  /\ Up(n) /\ call[c] # None
  /\ Len(queue[n]) < Capacity
  /\ queue' = [queue EXCEPT ![n] = Append(@, call[c])]
  /\ call' = [call EXCEPT ![c] = None]
  /\ owed' = [owed EXCEPT ![n] = @ \cup {call[c]}]
  /\ UNCHANGED <<zk, cache, worker, faults>>

\* The caller is interrupted, before the put or while it blocks: it throws, the
\* exception is printed, and expire returns as if nothing had happened.
ExpireInterrupted(c) ==
  /\ Up(Home[c]) /\ call[c] # None
  /\ call' = [call EXCEPT ![c] = None]
  /\ UNCHANGED <<zk, cache, queue, worker, owed, faults>>

TakeDependency(n) ==
  /\ Up(n) /\ worker[n].at = "take"
  /\ queue[n] # <<>>
  /\ queue' = [queue EXCEPT ![n] = Tail(@)]
  /\ worker' = [worker EXCEPT ![n] = [at |-> "update", dep |-> Head(queue[n])]]
  /\ UNCHANGED <<zk, cache, call, owed, faults>>

\* The server executes setData on the node of d.
Touch(d) ==
  /\ fired' = [n \in Nodes |-> IF watchers[n][d] > 0 THEN fired[n] \cup {d} ELSE fired[n]]
  /\ stale' = [n \in Nodes |-> [k \in Objects |->
                 IF k \in cached[n] /\ d \in DependsOn[k] THEN stale[n][k] \cup {d}
                                                          ELSE stale[n][k]]]
  /\ add' = [a \in Adders |-> IF add[a].at \in {"exists", "create", "watch", "put"} /\ Exposed(a, d)
                              THEN [add[a] EXCEPT !.missed = @ \cup {d}] ELSE add[a]]

\* zk.setData; a dependency without a node has never been watched.
UpdateNode(n) ==
  LET d == worker[n].dep IN
  /\ worker[n].at = "update" /\ session[n] = "connected"
  /\ IF d \in znodes THEN Touch(d) ELSE UNCHANGED <<fired, stale, add>>
  /\ owed' = [owed EXCEPT ![n] = @ \ {d}]
  /\ worker' = [worker EXCEPT ![n] = [at |-> "take", dep |-> None]]
  /\ UNCHANGED <<znodes, session, watchers, events, cached, mapping, excused, call, queue, faults>>

\* Mutant of UpdateFails: the dependency is forgotten.
UpdateFailsAndForgets(n) ==
  /\ worker[n].at = "update" /\ session[n] \in {"disconnected", "closed"}
  /\ session' = Reconnected(n)
  /\ worker' = [worker EXCEPT ![n] = [at |-> "take", dep |-> None]]
  /\ UNCHANGED <<znodes, watchers, fired, cache, call, queue, owed, faults>>

\* zk.setData throws.
UpdateFails(n) ==
  /\ worker[n].at = "update" /\ session[n] \in {"disconnected", "closed"}
  /\ session' = Reconnected(n)
  /\ worker' = [worker EXCEPT ![n].at = "put"]
  /\ UNCHANGED <<znodes, watchers, fired, cache, call, queue, owed, faults>>

\* It throws although the server executed it.
UpdateUnanswered(n) ==
  LET d == worker[n].dep IN
  /\ worker[n].at = "update" /\ session[n] = "connected" /\ faults < MaxFaults
  /\ d \in znodes /\ Touch(d)
  /\ session' = [session EXCEPT ![n] = "disconnected"]
  /\ owed' = [owed EXCEPT ![n] = @ \ {d}]
  /\ worker' = [worker EXCEPT ![n].at = "put"]
  /\ faults' = faults + 1
  /\ UNCHANGED <<znodes, watchers, events, cached, mapping, excused, call, queue>>

\* The worker puts the dependency back: it blocks, too, while the queue is full.
PutBack(n) ==
  /\ Up(n) /\ worker[n].at = "put"
  /\ Len(queue[n]) < Capacity
  /\ queue' = [queue EXCEPT ![n] = Append(@, worker[n].dep)]
  /\ worker' = [worker EXCEPT ![n] = [at |-> "take", dep |-> None]]
  /\ UNCHANGED <<zk, cache, call, owed, faults>>

-----------------------------------------------------------------------------
(* Sessions.                                                               *)

Disconnect(n) ==
  /\ session[n] = "connected" /\ faults < MaxFaults
  /\ session' = [session EXCEPT ![n] = "disconnected"]
  /\ faults' = faults + 1
  /\ UNCHANGED <<znodes, watchers, fired, cache, expiry>>

Reconnect(n) ==
  /\ session[n] = "disconnected"
  /\ session' = [session EXCEPT ![n] = "connected"]
  /\ UNCHANGED <<znodes, watchers, fired, cache, expiry, faults>>

\* The client learns that its session has expired.
SessionExpires(n) ==
  /\ session[n] = "disconnected" /\ faults < MaxFaults
  /\ session' = [session EXCEPT ![n] = "closed"]
  /\ watchers' = [watchers EXCEPT ![n] = [d \in Dependencies |-> 0]]
  /\ fired' = [fired EXCEPT ![n] = {}]
  /\ excused' = [excused EXCEPT ![n] = cached[n]]
  /\ add' = [a \in Adders |-> [add[a] EXCEPT !.doomed =
                @ \/ (Home[a] = n /\ \E d \in Dependencies : Exposed(a, d))]]
  /\ faults' = faults + 1
  /\ UNCHANGED <<znodes, events, cached, mapping, stale, expiry>>

\* handleEvent, behind what the event thread had to do.
HandleEvent(n) ==
  /\ session[n] = "closed" /\ events[n] = <<>>
  /\ session' = Reconnected(n)
  /\ UNCHANGED <<znodes, watchers, fired, cache, expiry, faults>>

\* destroy().  What the node's threads do afterwards concerns nobody.
Destroy(n) ==
  /\ Up(n) /\ faults < MaxFaults
  /\ session' = [session EXCEPT ![n] = "gone"]
  /\ watchers' = [watchers EXCEPT ![n] = [d \in Dependencies |-> 0]]
  /\ fired' = [fired EXCEPT ![n] = {}]
  /\ mapping' = [mapping EXCEPT ![n] = [d \in Dependencies |-> {}]]
  /\ Dropped(n, Objects, {})
  /\ faults' = faults + 1
  /\ UNCHANGED <<znodes, events, add, expiry>>

-----------------------------------------------------------------------------
AddStep(a) ==
  \/ Exists(a) \/ Create(a) \/ Watch(a) \/ AddFails(a)
  \/ PutObject(a) \/ ContainsDependency(a) \/ MapDependency(a)

Work(n) == TakeDependency(n) \/ UpdateNode(n) \/ UpdateFails(n) \/ PutBack(n)

Next ==
  \/ \E a \in Adders : AddStep(a) \/ AddInterrupted(a) \/ \E k \in Objects : Add(a, k)
  \/ \E c \in Callers :
       PutDependency(c) \/ ExpireInterrupted(c) \/ \E d \in Expirable : Expire(c, d)
  \/ \E n \in Nodes :
       \/ \E k \in Objects : Remove(n, k)
       \/ \E d \in Dependencies : Receive(n, d)
       \/ Process(n) \/ Work(n) \/ UpdateUnanswered(n)
       \/ Disconnect(n) \/ Reconnect(n) \/ SessionExpires(n) \/ HandleEvent(n) \/ Destroy(n)

\* Threads run on, the client reconnects, and what ZooKeeper fired arrives.
Fairness ==
  /\ \A a \in Adders : WF_vars(AddStep(a))
  /\ \A c \in Callers : WF_vars(PutDependency(c))
  /\ \A n \in Nodes :
       /\ WF_vars(Process(n)) /\ WF_vars(Work(n))
       /\ WF_vars(Reconnect(n)) /\ WF_vars(HandleEvent(n))
       /\ \A d \in Dependencies : WF_vars(Receive(n, d))

Safety == Init /\ [][Next]_vars

Spec == Safety /\ Fairness

-----------------------------------------------------------------------------
(* Properties.                                                             *)

Calls == [at : {"idle", "exists", "create", "watch", "put", "contains", "map"},
          key : Objects \cup {None}, dep : Dependencies \cup {None},
          todo : SUBSET Dependencies, missed : SUBSET Dependencies,
          fresh : BOOLEAN, doomed : BOOLEAN]

TypeOK ==
  /\ znodes \in SUBSET Dependencies
  /\ session \in [Nodes -> {"connected", "disconnected", "closed", "gone"}]
  /\ watchers \in [Nodes -> [Dependencies -> 0..MaxWatchers]]
  /\ fired \in [Nodes -> SUBSET Dependencies]
  /\ events \in [Nodes -> Seq(Dependencies)]
  /\ cached \in [Nodes -> SUBSET Objects]
  /\ mapping \in [Nodes -> [Dependencies -> SUBSET Objects]]
  /\ add \in [Adders -> Calls]
  /\ call \in [Callers -> Dependencies \cup {None}]
  /\ queue \in [Nodes -> Seq(Dependencies)]
  /\ worker \in [Nodes -> [at : {"take", "update", "put"}, dep : Dependencies \cup {None}]]
  /\ faults \in 0..MaxFaults
  /\ stale \in [Nodes -> [Objects -> SUBSET Dependencies]]
  /\ excused \in [Nodes -> SUBSET Objects]
  /\ owed \in [Nodes -> SUBSET Dependencies]

\* A watcher of d is on its way to be run on n.
Underway(n, d) == d \in fired[n] \/ \E i \in DOMAIN events[n] : events[n][i] = d

Adding(n, k) == \E a \in Adders : Home[a] = n /\ add[a].key = k

\* An object outlives an update of one of its dependencies only until the
\* watcher has run, or if: the watcher ran between the moment add had set it and
\* the moment it knew the object (lines 79-81); two calls of add changed the key
\* set of a dependency at once, or one while a watcher ran through it (lines 185-190,
\* 239); or the session expired (line 177).
StaleExplained ==
  \A n \in Nodes, k \in Objects, d \in Dependencies :
    k \in cached[n] /\ d \in stale[n][k] =>
      \/ Underway(n, d) /\ (k \in mapping[n][d] \/ Adding(n, k))
      \/ k \in excused[n]

\* An object is cached only once its watches are set (line 78): when add is
\* through, a watcher of each of its dependencies is set or on its way.
CachedIsWatched ==
  \A n \in Nodes, k \in Objects :
    session[n] = "connected" /\ k \in cached[n] /\ ~Adding(n, k) =>
      \A d \in DependsOn[k] : watchers[n][d] > 0 \/ Underway(n, d)

\* A dependency that expire has put into the queue, or found there, is not
\* dropped before its node has been touched (lines 226-235 and 285-291): the
\* worker holds it or it is in the queue again, whatever ZooKeeper does.
NoExpireLost ==
  \A n \in Nodes : \A d \in owed[n] : Up(n) => Queued(n, d) \/ worker[n].dep = d

\* "Put the task into the queue" (line 63): a call of expire does not return
\* before its dependency is in the queue.
ExpireIsQueued ==
  [][\A c \in Callers, d \in Dependencies :
       call[c] = d /\ call'[c] = None => Queued(Home[c], d)']_vars

\* The worker waits for room in the queue that nobody else empties (line 289).
WaitsForItself(n) == worker[n].at = "put" /\ Len(queue[n]) = Capacity

\* What is queued is done once ZooKeeper is back (line 63: "put the task into the
\* queue, and execute it when ZooKeeper has recovered"), unless by then the
\* worker has locked itself out.
ExpireDelivered ==
  \A n \in Nodes, d \in Dependencies :
    d \in owed[n] ~> d \notin owed[n] \/ ~Up(n) \/ WaitsForItself(n)

\* A touched dependency ends up clearing its objects.
StaleCleared ==
  \A n \in Nodes, k \in Objects :
    k \in cached[n] /\ stale[n][k] # {} ~> stale[n][k] = {} \/ k \in excused[n]
=============================================================================

------------------ MODULE ZookeeperLocalCacheFactoryProofs ------------------
(***************************************************************************)
(* Proofs about ZookeeperLocalCacheFactory, for every set of nodes,        *)
(* threads, objects and dependencies.                                      *)
(***************************************************************************)
EXTENDS ZookeeperLocalCacheFactory, FiniteSetTheorems, TLAPS

USE CacheAssumption DEF CacheAssumption

-----------------------------------------------------------------------------
(* The inductive invariant.                                                *)

Early == {"exists", "create", "watch", "put"}

\* The variables' types, without the bound on watchers.
Base ==
  /\ znodes \in SUBSET Dependencies
  /\ session \in [Nodes -> {"connected", "disconnected", "closed", "gone"}]
  /\ watchers \in [Nodes -> [Dependencies -> Nat]]
  /\ fired \in [Nodes -> SUBSET Dependencies]
  /\ events \in [Nodes -> Seq(Dependencies)]
  /\ cached \in [Nodes -> SUBSET Objects]
  /\ mapping \in [Nodes -> [Dependencies -> SUBSET Objects]]
  /\ add \in [Adders -> Calls]
  /\ call \in [Callers -> Dependencies \cup {None}]
  /\ queue \in [Nodes -> Seq(Dependencies)]
  /\ worker \in [Nodes -> [at : {"take", "update", "put"}, dep : Dependencies \cup {None}]]
  /\ faults \in 0..MaxFaults
  /\ stale \in [Nodes -> [Objects -> SUBSET Dependencies]]
  /\ excused \in [Nodes -> SUBSET Objects]
  /\ owed \in [Nodes -> SUBSET Dependencies]

\* The calls of add that have still to watch d on n.
Pending(n, d) ==
  {a \in Adders : Home[a] = n /\ d \in add[a].todo /\ add[a].at \in {"exists", "create", "watch"}}

\* Room was left for the watchers of these calls, and there are finitely many.
WatchersBounded ==
  /\ IsFiniteSet({a \in Adders : add[a].at # "idle"})
  /\ \A n \in Nodes, d \in Dependencies :
       watchers[n][d] + Cardinality(Pending(n, d)) <= MaxWatchers

\* Where a call of add is, and what it can have missed.
Sound(c) ==
  c.at # "idle" =>
    /\ c.key \in Objects /\ c.todo \subseteq DependsOn[c.key]
    /\ c.at \in {"create", "watch"} => c.dep \in c.todo
    /\ c.at = "map" => c.dep \in DependsOn[c.key]
    /\ c.at \in Early => c.missed \subseteq DependsOn[c.key]
    /\ c.at \in Early \ {"put"} => c.missed \cap c.todo = {}

Adds == \A a \in Adders : Sound(add[a])

\* What has been fired was watched.
FiredWatched == \A n \in Nodes : \A d \in fired[n] : watchers[n][d] > 0

\* Before the object is stored: a watch that has been set is still there, or has
\* fired and will be run.
AddWatched ==
  \A a \in Adders, d \in Dependencies :
    LET n == Home[a] IN
    Up(n) /\ add[a].at \in Early /\ Exposed(a, d) /\ ~add[a].doomed =>
      IF d \in add[a].missed THEN Underway(n, d) ELSE watchers[n][d] > 0 /\ d \notin fired[n]

\* a has stored its object and will map d to it.
Mapping(a, d) ==
  \/ add[a].at = "contains" /\ d \in add[a].todo
  \/ add[a].at = "map" /\ (d \in add[a].todo \/ d = add[a].dep)

WillMap(n, k, d) == \E a \in Adders : Home[a] = n /\ add[a].key = k /\ Mapping(a, d)

\* k is mapped or will be, and the same of its watches; what it misses is underway.
Watched(n, k) ==
  /\ stale[n][k] \subseteq DependsOn[k]
  /\ \A d \in DependsOn[k] :
       /\ k \in mapping[n][d] \/ WillMap(n, k, d)
       /\ Underway(n, d) \/ (watchers[n][d] > 0 /\ d \notin stale[n][k])

CachedWatched == \A n \in Nodes : \A k \in cached[n] \ excused[n] : Watched(n, k)

\* What the worker holds.
WorkerHolds ==
  \A n \in Nodes : IF worker[n].at = "take" THEN worker[n].dep = None ELSE worker[n].dep \in Dependencies

IInv ==
  /\ Base /\ Adds /\ WorkerHolds /\ NoExpireLost
  /\ WatchersBounded /\ FiredWatched /\ AddWatched /\ CachedWatched

-----------------------------------------------------------------------------
(* Sequences, calls and sessions.                                          *)

Occurs(s, d) == \E i \in DOMAIN s : s[i] = d

\* What is in a sequence after an element was appended or taken, or some came.
LEMMA OccursAppend ==
  ASSUME NEW S, NEW s \in Seq(S), NEW e \in S
  PROVE  /\ Append(s, e) \in Seq(S)
         /\ \A d : Occurs(Append(s, e), d) <=> Occurs(s, d) \/ d = e
<1>1. /\ Append(s, e) \in Seq(S) /\ DOMAIN s = 1..Len(s) /\ Len(s) \in Nat
      /\ DOMAIN Append(s, e) = 1..(Len(s) + 1)
      /\ \A i \in 1..Len(s) : Append(s, e)[i] = s[i]
      /\ Append(s, e)[Len(s) + 1] = e
  OBVIOUS
<1>2. PICK t : t = Append(s, e) OBVIOUS
<1>3. /\ DOMAIN s = 1..Len(s) /\ Len(s) \in Nat /\ DOMAIN t = 1..(Len(s) + 1)
      /\ \A i \in 1..Len(s) : t[i] = s[i] /\ i \in 1..(Len(s) + 1)
      /\ t[Len(s) + 1] = e /\ Len(s) + 1 \in 1..(Len(s) + 1)
      /\ \A i \in 1..(Len(s) + 1) : i \in 1..Len(s) \/ i = Len(s) + 1
  BY <1>1, <1>2
<1>4. \A d : Occurs(t, d) <=> Occurs(s, d) \/ d = e
  <2>1. ASSUME NEW d, Occurs(t, d) PROVE Occurs(s, d) \/ d = e
    <3>1. PICK i \in DOMAIN t : t[i] = d BY <2>1 DEF Occurs
    <3>2. CASE i \in 1..Len(s)
      <4>1. i \in DOMAIN s /\ s[i] = d BY <1>3, <3>1, <3>2
      <4> QED BY <4>1 DEF Occurs
    <3>3. CASE i = Len(s) + 1 BY <1>3, <3>1, <3>3
    <3> QED BY <1>3, <3>1, <3>2, <3>3
  <2>2. ASSUME NEW d, Occurs(s, d) PROVE Occurs(t, d)
    <3>1. PICK i \in DOMAIN s : s[i] = d BY <2>2 DEF Occurs
    <3>2. i \in DOMAIN t /\ t[i] = d BY <1>3, <3>1
    <3> QED BY <3>2 DEF Occurs
  <2>3. Occurs(t, e)
    <3>1. Len(s) + 1 \in DOMAIN t /\ t[Len(s) + 1] = e BY <1>3
    <3> QED BY <3>1 DEF Occurs
  <2> QED BY <2>1, <2>2, <2>3
<1> QED BY <1>1, <1>2, <1>4

\* What is in a sequence is its head or in its tail.
LEMMA OccursTail ==
  ASSUME NEW S, NEW s \in Seq(S), s # << >>
  PROVE  /\ Tail(s) \in Seq(S) /\ Head(s) \in S
         /\ \A d : Occurs(s, d) => d = Head(s) \/ Occurs(Tail(s), d)
<1>1. /\ Tail(s) \in Seq(S) /\ Head(s) \in S /\ Head(s) = s[1] /\ Len(s) \in Nat
      /\ DOMAIN s = 1..Len(s) /\ DOMAIN Tail(s) = 1..(Len(s) - 1)
      /\ \A i \in 1..(Len(s) - 1) : Tail(s)[i] = s[i + 1]
  OBVIOUS
<1>2. ASSUME NEW d, Occurs(s, d), d # Head(s) PROVE Occurs(Tail(s), d)
  <2>1. PICK i \in DOMAIN s : s[i] = d BY <1>2 DEF Occurs
  <2>2. i # 1 BY <1>1, <1>2, <2>1
  <2>3. i - 1 \in 1..(Len(s) - 1) /\ (i - 1) + 1 = i BY <1>1, <2>1, <2>2
  <2>4. i - 1 \in DOMAIN Tail(s) /\ Tail(s)[i - 1] = d BY <1>1, <2>1, <2>3
  <2> QED BY <2>4 DEF Occurs
<1> QED BY <1>1, <1>2

\* What is in a sequence stays in it when k times e follow.
LEMMA OccursConcat ==
  ASSUME NEW S, NEW s \in Seq(S), NEW e \in S, NEW k \in Nat
  PROVE  LET t == s \o [i \in 1..k |-> e]
         IN  /\ t \in Seq(S)
             /\ \A d : Occurs(s, d) => Occurs(t, d)
             /\ k > 0 => Occurs(t, e)
<1>1. PICK r : r = [i \in 1..k |-> e] OBVIOUS
<1>2. r \in Seq(S) /\ Len(r) = k /\ \A i \in 1..k : r[i] = e
  <2>1. r \in [1..k -> S] BY <1>1
  <2>2. r \in Seq(S) BY <2>1
  <2> QED BY <1>1, <2>1, <2>2
<1>3. PICK t : t = s \o r OBVIOUS
<1>4. /\ t \in Seq(S) /\ Len(s) \in Nat /\ DOMAIN s = 1..Len(s) /\ DOMAIN t = 1..(Len(s) + k)
      /\ \A i \in 1..Len(s) : t[i] = s[i]
      /\ \A i \in 1..(Len(s) + k) : i > Len(s) => t[i] = r[i - Len(s)]
  BY <1>2, <1>3
<1>5. ASSUME NEW d, Occurs(s, d) PROVE Occurs(t, d)
  <2>1. PICK i \in DOMAIN s : s[i] = d BY <1>5 DEF Occurs
  <2>2. i \in DOMAIN t /\ t[i] = d BY <1>4, <2>1
  <2> QED BY <2>2 DEF Occurs
<1>6. ASSUME k > 0 PROVE Occurs(t, e)
  <2>1. PICK i : i = Len(s) + 1 OBVIOUS
  <2>2. i \in 1..(Len(s) + k) /\ i > Len(s) /\ i - Len(s) = 1 /\ 1 \in 1..k BY <1>4, <1>6, <2>1
  <2>3. i \in DOMAIN t /\ t[i] = e BY <1>2, <1>4, <2>2
  <2> QED BY <2>3 DEF Occurs
<1> QED BY <1>1, <1>3, <1>4, <1>5, <1>6

\* A new session is for a client that is up only.
LEMMA ReconnectedUp ==
  ASSUME Base, NEW n \in Nodes
  PROVE  /\ Reconnected(n) \in [Nodes -> {"connected", "disconnected", "closed", "gone"}]
         /\ \A m \in Nodes : Reconnected(n)[m] # "gone" <=> session[m] # "gone"
BY DEF Reconnected, Base

\* What EXCEPT makes of a function.
LEMMA FunctionUpdate ==
  ASSUME NEW S, NEW T, NEW f \in [S -> T], NEW x \in S, NEW v \in T
  PROVE  /\ [f EXCEPT ![x] = v] \in [S -> T]
         /\ [f EXCEPT ![x] = v][x] = v
         /\ \A y \in S \ {x} : [f EXCEPT ![x] = v][y] = f[y]
  OBVIOUS

\* What EXCEPT makes of one call.
LEMMA AddUpdate ==
  ASSUME add \in [Adders -> Calls], NEW a \in Adders, NEW r \in Calls,
         add' = [add EXCEPT ![a] = r]
  PROVE  /\ add' \in [Adders -> Calls]
         /\ add'[a] = r /\ \A b \in Adders \ {a} : add'[b] = add[b]
  OBVIOUS

\* The call of a moves on: to another step, dependency or set of things to do.
Becomes(a, at, dep, todo) ==
  /\ add' \in [Adders -> Calls]
  /\ \A b \in Adders \ {a} : add'[b] = add[b]
  /\ add'[a].at = at /\ add'[a].dep = dep /\ add'[a].todo = todo
  /\ add'[a].key = add[a].key /\ add'[a].missed = add[a].missed
  /\ add'[a].doomed = add[a].doomed

\* It ends.
Ends(a) ==
  /\ add' \in [Adders -> Calls]
  /\ \A b \in Adders \ {a} : add'[b] = add[b]
  /\ add'[a] = Idle

\* The call of a thread that is in none.
LEMMA IdleCall == /\ Idle \in Calls /\ Idle.at = "idle" /\ Idle.key = None /\ Idle.dep = None
                  /\ Idle.todo = {} /\ Idle.missed = {} /\ Idle.doomed = FALSE
BY DEF Idle, Calls

\* What each step of add does to the call.
LEMMA AddStarts ==
  ASSUME Base, NEW a \in Adders, NEW k \in Objects, Add(a, k)
  PROVE  /\ add' \in [Adders -> Calls]
         /\ \A b \in Adders \ {a} : add'[b] = add[b]
         /\ add[a].at = "idle" /\ add'[a].at = "exists" /\ add'[a].key = k
         /\ add'[a].todo = DependsOn[k] /\ add'[a].missed = {}
<1>1. PICK r : r = [Idle EXCEPT !.at = "exists", !.key = k, !.todo = DependsOn[k]] OBVIOUS
<1>2. r \in Calls BY <1>1 DEF Idle, Calls
<1>3. r.at = "exists" /\ r.key = k /\ r.todo = DependsOn[k] /\ r.missed = {}
  BY <1>1 DEF Idle
<1>4. add' = [add EXCEPT ![a] = r] /\ add[a].at = "idle" BY <1>1 DEF Add, At
<1> QED BY <1>2, <1>3, <1>4, AddUpdate DEF Base

LEMMA ExistsDoes ==
  ASSUME Base, NEW a \in Adders, Exists(a)
  PROVE  /\ add[a].at = "exists"
         /\ \E d \in add[a].todo, at \in {"create", "watch"} : Becomes(a, at, d, add[a].todo)
<1>1. PICK d \in add[a].todo :
        add' = [add EXCEPT ![a].at = IF d \in znodes THEN "watch" ELSE "create", ![a].dep = d]
  BY DEF Exists
<1>2. PICK at \in {"create", "watch"} : at = IF d \in znodes THEN "watch" ELSE "create" OBVIOUS
<1>3. PICK r : r = [add[a] EXCEPT !.at = at, !.dep = d] OBVIOUS
<1>4. add[a] \in Calls BY DEF Base
<1>5. d \in Dependencies BY <1>4 DEF Calls
<1>6. /\ r \in Calls /\ r.at = at /\ r.dep = d /\ r.todo = add[a].todo
      /\ r.key = add[a].key /\ r.missed = add[a].missed /\ r.doomed = add[a].doomed
  BY <1>3, <1>4, <1>5 DEF Calls
<1>7. add' = [add EXCEPT ![a] = r] BY <1>1, <1>2, <1>3 DEF Base
<1>8. Becomes(a, at, d, add[a].todo) BY <1>6, <1>7, AddUpdate DEF Becomes, Base
<1> QED BY <1>8 DEF Exists, At

LEMMA CreateDoes ==
  ASSUME Base, NEW a \in Adders, Create(a)
  PROVE  /\ add[a].at = "create"
         /\ Becomes(a, "watch", add[a].dep, add[a].todo) \/ Ends(a)
<1>1. CASE add' = [add EXCEPT ![a].at = "watch"]
  <2>1. PICK r : r = [add[a] EXCEPT !.at = "watch"] OBVIOUS
  <2>2. add[a] \in Calls BY DEF Base
  <2>3. /\ r \in Calls /\ r.at = "watch" /\ r.dep = add[a].dep /\ r.todo = add[a].todo
        /\ r.key = add[a].key /\ r.missed = add[a].missed /\ r.doomed = add[a].doomed
    BY <2>1, <2>2 DEF Calls
  <2>4. add' = [add EXCEPT ![a] = r] BY <1>1, <2>1 DEF Base
  <2>5. Becomes(a, "watch", add[a].dep, add[a].todo) BY <2>3, <2>4, AddUpdate DEF Becomes, Base
  <2> QED BY <2>5 DEF Create, At
<1>2. CASE add' = [add EXCEPT ![a] = Idle]
  <2>1. Ends(a) BY <1>2, IdleCall, AddUpdate DEF Ends, Base
  <2> QED BY <2>1 DEF Create, At
<1> QED BY <1>1, <1>2 DEF Create

LEMMA WatchDoes ==
  ASSUME Base, NEW a \in Adders, Watch(a)
  PROVE  LET n == Home[a]
             d == add[a].dep
             left == add[a].todo \ {d}
         IN  /\ add[a].at = "watch" /\ fired[n] = {} /\ n \in Nodes
             /\ Becomes(a, IF left = {} THEN "put" ELSE "exists", None, left)
             /\ watchers' = [watchers EXCEPT ![n][d] = @ + 1]
             /\ UNCHANGED <<znodes, session, fired, events, cached, mapping, stale, excused,
                            expiry, faults>>
<1>1. PICK left, at : /\ left = add[a].todo \ {add[a].dep}
                      /\ at = IF left = {} THEN "put" ELSE "exists"
  OBVIOUS
<1>2. PICK r : r = [add[a] EXCEPT !.at = at, !.todo = left, !.dep = None] OBVIOUS
<1>3. add[a] \in Calls BY DEF Base
<1>4. left \in SUBSET Dependencies /\ at \in {"put", "exists"} BY <1>1, <1>3 DEF Calls
<1>5. /\ r \in Calls /\ r.at = at /\ r.dep = None /\ r.todo = left
      /\ r.key = add[a].key /\ r.missed = add[a].missed /\ r.doomed = add[a].doomed
  BY <1>2, <1>3, <1>4 DEF Calls
<1>6. add' = [add EXCEPT ![a].at = at, ![a].todo = left, ![a].dep = None] BY <1>1 DEF Watch
<1>7. add' = [add EXCEPT ![a] = r] BY <1>2, <1>6 DEF Base
<1>8. Becomes(a, at, None, left) BY <1>5, <1>7, AddUpdate DEF Becomes, Base
<1> QED BY <1>1, <1>8 DEF Watch, At

LEMMA AddFailsDoes ==
  ASSUME Base, NEW a \in Adders, AddFails(a)
  PROVE  Ends(a) /\ session' = Reconnected(Home[a]) /\ Home[a] \in Nodes
BY IdleCall, AddUpdate DEF AddFails, Ends, Base

LEMMA PutObjectDoes ==
  ASSUME Base, Adds, NEW a \in Adders, PutObject(a)
  PROVE  /\ add[a].at = "put" /\ Up(Home[a]) /\ Home[a] \in Nodes /\ add[a].key \in Objects
         /\ Becomes(a, "contains", add[a].dep, DependsOn[add[a].key])
<1>1. add[a] \in Calls /\ add[a].at = "put" /\ add[a].key \in Objects
  BY DEF Base, Adds, Sound, PutObject, At
<1>2. PICK todo : todo = DependsOn[add[a].key] OBVIOUS
<1>3. PICK r : r = [add[a] EXCEPT !.at = "contains", !.todo = todo] OBVIOUS
<1>4. todo \in SUBSET Dependencies BY <1>1, <1>2
<1>5. /\ r \in Calls /\ r.at = "contains" /\ r.dep = add[a].dep /\ r.todo = todo
      /\ r.key = add[a].key /\ r.missed = add[a].missed /\ r.doomed = add[a].doomed
  BY <1>1, <1>3, <1>4 DEF Calls
<1>6. add' = [add EXCEPT ![a].at = "contains", ![a].todo = todo] BY <1>2 DEF PutObject
<1>7. add' = [add EXCEPT ![a] = r] BY <1>3, <1>6 DEF Base
<1>8. Becomes(a, "contains", add[a].dep, todo) BY <1>5, <1>7, AddUpdate DEF Becomes, Base
<1> QED BY <1>1, <1>2, <1>8 DEF PutObject, At

LEMMA ContainsDoes ==
  ASSUME Base, NEW a \in Adders, ContainsDependency(a)
  PROVE  /\ add[a].at = "contains"
         /\ \E d \in add[a].todo : Becomes(a, "map", d, add[a].todo \ {d})
<1>1. add[a] \in Calls BY DEF Base
<1>2. PICK d \in add[a].todo, f \in BOOLEAN :
        add' = [add EXCEPT ![a].at = "map", ![a].dep = d, ![a].todo = @ \ {d}, ![a].fresh = f]
  <2>1. PICK d \in add[a].todo :
          add' = [add EXCEPT ![a].at = "map", ![a].dep = d, ![a].todo = @ \ {d},
                             ![a].fresh = mapping[Home[a]][d] = {}]
    BY DEF ContainsDependency
  <2>2. PICK f \in BOOLEAN : f = (mapping[Home[a]][d] = {}) OBVIOUS
  <2>3. add' = [add EXCEPT ![a].at = "map", ![a].dep = d, ![a].todo = @ \ {d}, ![a].fresh = f]
    BY <2>1, <2>2
  <2> QED BY <2>3
<1>3. PICK r : r = [add[a] EXCEPT !.at = "map", !.dep = d, !.todo = @ \ {d}, !.fresh = f]
  OBVIOUS
<1>4. d \in Dependencies /\ add[a].todo \ {d} \in SUBSET Dependencies BY <1>1, <1>2 DEF Calls
<1>5. /\ r \in Calls /\ r.at = "map" /\ r.dep = d /\ r.todo = add[a].todo \ {d}
      /\ r.key = add[a].key /\ r.missed = add[a].missed /\ r.doomed = add[a].doomed
  BY <1>1, <1>2, <1>3, <1>4 DEF Calls
<1>6. add' = [add EXCEPT ![a] = r] BY <1>2, <1>3 DEF Base
<1>7. Becomes(a, "map", d, add[a].todo \ {d}) BY <1>5, <1>6, AddUpdate DEF Becomes, Base
<1> QED BY <1>7 DEF ContainsDependency, At

LEMMA MapDoes ==
  ASSUME Base, NEW a \in Adders, MapDependency(a)
  PROVE  /\ add[a].at = "map" /\ Up(Home[a]) /\ Home[a] \in Nodes
         /\ (add[a].todo = {} /\ Ends(a)) \/ Becomes(a, "contains", None, add[a].todo)
<1>1. CASE add[a].todo = {}
  <2>1. add' = [add EXCEPT ![a] = Idle] BY <1>1 DEF MapDependency
  <2>2. Ends(a) BY <2>1, IdleCall, AddUpdate DEF Ends, Base
  <2> QED BY <1>1, <2>2 DEF MapDependency, At
<1>2. CASE add[a].todo # {}
  <2>1. add[a] \in Calls BY DEF Base
  <2>2. PICK r : r = [add[a] EXCEPT !.at = "contains", !.dep = None] OBVIOUS
  <2>3. /\ r \in Calls /\ r.at = "contains" /\ r.dep = None /\ r.todo = add[a].todo
        /\ r.key = add[a].key /\ r.missed = add[a].missed /\ r.doomed = add[a].doomed
    BY <2>1, <2>2 DEF Calls
  <2>4. add' = [add EXCEPT ![a] = [@ EXCEPT !.at = "contains", !.dep = None]]
    BY <1>2 DEF MapDependency
  <2>5. add' = [add EXCEPT ![a] = r] BY <2>2, <2>4 DEF Base
  <2>6. Becomes(a, "contains", None, add[a].todo) BY <2>3, <2>5, AddUpdate DEF Becomes, Base
  <2> QED BY <2>6 DEF MapDependency, At
<1> QED BY <1>1, <1>2

\* The steps that change what add has missed, or whether it is doomed.
SameCalls ==
  /\ add' \in [Adders -> Calls]
  /\ \A a \in Adders : /\ add'[a].at = add[a].at /\ add'[a].key = add[a].key
                       /\ add'[a].dep = add[a].dep /\ add'[a].todo = add[a].todo

\* Some objects leave the cache of n, others may miss an update.
LEMMA DroppedDoes ==
  ASSUME Base, NEW n \in Nodes, NEW keys \in SUBSET Objects, NEW miss \in SUBSET Objects,
         Dropped(n, keys, miss)
  PROVE  /\ cached' \in [Nodes -> SUBSET Objects]
         /\ stale' \in [Nodes -> [Objects -> SUBSET Dependencies]]
         /\ excused' \in [Nodes -> SUBSET Objects]
         /\ \A m \in Nodes \ {n} :
              cached'[m] = cached[m] /\ stale'[m] = stale[m] /\ excused'[m] = excused[m]
         /\ cached'[n] = cached[n] \ keys
         /\ \A k \in Objects : stale'[n][k] = IF k \in keys THEN {} ELSE stale[n][k]
         /\ excused'[n] = (excused[n] \cup (miss \cap cached[n])) \ keys
<1>1. /\ cached' = [cached EXCEPT ![n] = cached[n] \ keys]
      /\ stale' = [stale EXCEPT ![n] = [k \in Objects |-> IF k \in keys THEN {} ELSE stale[n][k]]]
      /\ excused' = [excused EXCEPT ![n] = (excused[n] \cup (miss \cap cached[n])) \ keys]
  BY DEF Dropped, Base
<1>2. /\ cached[n] \in SUBSET Objects /\ excused[n] \in SUBSET Objects
      /\ \A k \in Objects : stale[n][k] \in SUBSET Dependencies
  BY DEF Base
<1>3. PICK c, e, t : /\ c = cached[n] \ keys /\ e = (excused[n] \cup (miss \cap cached[n])) \ keys
                     /\ t = [k \in Objects |-> IF k \in keys THEN {} ELSE stale[n][k]]
  OBVIOUS
<1>4. c \in SUBSET Objects /\ e \in SUBSET Objects BY <1>2, <1>3
<1>5. t \in [Objects -> SUBSET Dependencies] BY <1>2, <1>3
<1>6. cached' = [cached EXCEPT ![n] = c] /\ stale' = [stale EXCEPT ![n] = t]
      /\ excused' = [excused EXCEPT ![n] = e]
  BY <1>1, <1>3
<1>7. cached' \in [Nodes -> SUBSET Objects] /\ cached'[n] = c
      /\ \A m \in Nodes \ {n} : cached'[m] = cached[m]
  BY <1>4, <1>6 DEF Base
<1>8. excused' \in [Nodes -> SUBSET Objects] /\ excused'[n] = e
      /\ \A m \in Nodes \ {n} : excused'[m] = excused[m]
  BY <1>4, <1>6 DEF Base
<1>9. stale' \in [Nodes -> [Objects -> SUBSET Dependencies]] /\ stale'[n] = t
      /\ \A m \in Nodes \ {n} : stale'[m] = stale[m]
  BY <1>5, <1>6 DEF Base
<1>10. \A k \in Objects : stale'[n][k] = IF k \in keys THEN {} ELSE stale[n][k] BY <1>3, <1>9
<1> QED BY <1>3, <1>7, <1>8, <1>9, <1>10

\* A watcher of d has run on n.
LEMMA ProcessDoes ==
  ASSUME Base, NEW n \in Nodes, Process(n)
  PROVE  LET d == Head(events[n])
             exposed == {a \in Adders : Home[a] = n /\ Exposed(a, d)}
         IN  /\ events[n] # << >> /\ Up(n) /\ d \in Dependencies
             /\ events' = [events EXCEPT ![n] = Tail(@)]
             /\ \E keys \in SUBSET Objects :
                  Dropped(n, keys, mapping[n][d] \cup {add[a].key : a \in exposed})
             /\ SameCalls
             /\ \A a \in Adders :
                  /\ add'[a].missed = add[a].missed
                  /\ add[a].doomed \/ (a \in exposed /\ d \in add[a].missed) => add'[a].doomed
             /\ UNCHANGED <<zk, mapping, expiry, faults>>
<1>1. PICK d : d = Head(events[n]) OBVIOUS
<1>2. PICK exposed : exposed = {a \in Adders : Home[a] = n /\ Exposed(a, d)} OBVIOUS
<1>3. /\ events[n] # << >> /\ Up(n)
      /\ events' = [events EXCEPT ![n] = Tail(@)]
      /\ \E keys \in Cleared(n, d) :
           Dropped(n, keys, mapping[n][d] \cup {add[a].key : a \in exposed})
      /\ add' = [a \in Adders |->
                   [add[a] EXCEPT !.doomed = @ \/ (a \in exposed /\ d \in add[a].missed)]]
      /\ UNCHANGED <<zk, mapping, expiry, faults>>
  BY <1>1, <1>2 DEF Process
<1>4. d \in Dependencies BY <1>1, <1>3, OccursTail DEF Base
<1>5. Cleared(n, d) \subseteq SUBSET Objects
  <2>1. mapping[n][d] \in SUBSET Objects BY <1>4 DEF Base
  <2> QED BY <2>1 DEF Cleared
<1>6. ASSUME NEW a \in Adders
      PROVE  /\ add'[a] \in Calls
             /\ add'[a].at = add[a].at /\ add'[a].key = add[a].key
             /\ add'[a].dep = add[a].dep /\ add'[a].todo = add[a].todo
             /\ add'[a].missed = add[a].missed
             /\ add[a].doomed \/ (a \in exposed /\ d \in add[a].missed) => add'[a].doomed
  <2>1. add[a] \in Calls BY DEF Base
  <2>2. PICK b \in BOOLEAN : b = (add[a].doomed \/ (a \in exposed /\ d \in add[a].missed))
    BY <2>1 DEF Calls
  <2>3. add'[a] = [add[a] EXCEPT !.doomed = add[a].doomed \/ (a \in exposed /\ d \in add[a].missed)]
    BY <1>3
  <2>4. add'[a] = [add[a] EXCEPT !.doomed = b] BY <2>2, <2>3
  <2>5. /\ add'[a] \in Calls /\ add'[a].doomed = b
        /\ add'[a].at = add[a].at /\ add'[a].key = add[a].key
        /\ add'[a].dep = add[a].dep /\ add'[a].todo = add[a].todo
        /\ add'[a].missed = add[a].missed
    BY <2>1, <2>2, <2>4 DEF Calls
  <2>6. add[a].doomed \/ (a \in exposed /\ d \in add[a].missed) => add'[a].doomed
    BY <2>2, <2>5
  <2> QED BY <2>5, <2>6
<1>7. add' \in [Adders -> Calls] BY <1>3, <1>6
<1>8. SameCalls BY <1>6, <1>7 DEF SameCalls
<1>9. \E keys \in SUBSET Objects :
        Dropped(n, keys, mapping[n][d] \cup {add[a].key : a \in exposed})
  BY <1>3, <1>5
<1> QED BY <1>1, <1>2, <1>3, <1>4, <1>6, <1>8, <1>9

\* The node of d is touched.
LEMMA TouchDoes ==
  ASSUME Base, NEW d \in Dependencies, Touch(d)
  PROVE  /\ fired' \in [Nodes -> SUBSET Dependencies]
         /\ \A n \in Nodes : /\ watchers[n][d] > 0 => fired'[n] = fired[n] \cup {d}
                             /\ ~(watchers[n][d] > 0) => fired'[n] = fired[n]
         /\ stale' \in [Nodes -> [Objects -> SUBSET Dependencies]]
         /\ \A n \in Nodes, k \in Objects :
              \/ stale'[n][k] = stale[n][k] /\ (d \in DependsOn[k] => k \notin cached[n])
              \/ d \in DependsOn[k] /\ stale'[n][k] = stale[n][k] \cup {d}
         /\ SameCalls
         /\ \A a \in Adders :
              /\ add'[a].doomed = add[a].doomed
              /\ add[a].at \in Early /\ Exposed(a, d) => add'[a].missed = add[a].missed \cup {d}
              /\ ~(add[a].at \in Early /\ Exposed(a, d)) => add'[a].missed = add[a].missed
<1>1. /\ fired' \in [Nodes -> SUBSET Dependencies]
      /\ \A n \in Nodes : /\ watchers[n][d] > 0 => fired'[n] = fired[n] \cup {d}
                          /\ ~(watchers[n][d] > 0) => fired'[n] = fired[n]
  <2>1. fired' = [n \in Nodes |-> IF watchers[n][d] > 0 THEN fired[n] \cup {d} ELSE fired[n]]
    BY DEF Touch
  <2> QED BY <2>1 DEF Base
<1>2. stale' = [n \in Nodes |-> [k \in Objects |->
                  IF k \in cached[n] /\ d \in DependsOn[k] THEN stale[n][k] \cup {d}
                                                           ELSE stale[n][k]]]
  BY DEF Touch
<1>3. ASSUME NEW n \in Nodes, NEW k \in Objects
      PROVE  /\ stale'[n][k] \in SUBSET Dependencies
             /\ \/ stale'[n][k] = stale[n][k] /\ (d \in DependsOn[k] => k \notin cached[n])
                \/ d \in DependsOn[k] /\ stale'[n][k] = stale[n][k] \cup {d}
  <2>1. stale'[n][k] = IF k \in cached[n] /\ d \in DependsOn[k] THEN stale[n][k] \cup {d}
                                                                ELSE stale[n][k]
    BY <1>2
  <2>2. stale[n][k] \in SUBSET Dependencies BY DEF Base
  <2> QED BY <2>1, <2>2
<1>4. stale' \in [Nodes -> [Objects -> SUBSET Dependencies]]
  <2>1. \A n \in Nodes : stale'[n] \in [Objects -> SUBSET Dependencies]
    <3> TAKE n \in Nodes
    <3>1. PICK f : f = stale'[n] OBVIOUS
    <3>2. f = [k \in Objects |-> IF k \in cached[n] /\ d \in DependsOn[k] THEN stale[n][k] \cup {d}
                                                                      ELSE stale[n][k]]
      BY <1>2, <3>1
    <3>3. f = [k \in Objects |-> f[k]] BY <3>2
    <3>4. \A k \in Objects : f[k] \in SUBSET Dependencies BY <1>3, <3>1
    <3> QED BY <3>1, <3>3, <3>4
  <2> QED BY <1>2, <2>1
<1>5. ASSUME NEW a \in Adders
      PROVE  /\ add'[a] \in Calls
             /\ add'[a].at = add[a].at /\ add'[a].key = add[a].key
             /\ add'[a].dep = add[a].dep /\ add'[a].todo = add[a].todo
             /\ add'[a].doomed = add[a].doomed
             /\ add[a].at \in Early /\ Exposed(a, d) => add'[a].missed = add[a].missed \cup {d}
             /\ ~(add[a].at \in Early /\ Exposed(a, d)) => add'[a].missed = add[a].missed
  <2>1. add[a] \in Calls BY DEF Base
  <2>2. add'[a] = IF add[a].at \in Early /\ Exposed(a, d)
                  THEN [add[a] EXCEPT !.missed = add[a].missed \cup {d}] ELSE add[a]
    BY DEF Touch, Early
  <2>3. CASE add[a].at \in Early /\ Exposed(a, d)
    <3>1. PICK m : m = add[a].missed \cup {d} OBVIOUS
    <3>2. m \in SUBSET Dependencies BY <2>1, <3>1 DEF Calls
    <3>3. add'[a] = [add[a] EXCEPT !.missed = m] BY <2>2, <2>3, <3>1
    <3>4. /\ add'[a] \in Calls
          /\ add'[a].at = add[a].at /\ add'[a].key = add[a].key
          /\ add'[a].dep = add[a].dep /\ add'[a].todo = add[a].todo
          /\ add'[a].doomed = add[a].doomed /\ add'[a].missed = m
      BY <2>1, <3>2, <3>3 DEF Calls
    <3> QED BY <2>3, <3>1, <3>4
  <2>4. CASE ~(add[a].at \in Early /\ Exposed(a, d)) BY <2>1, <2>2, <2>4
  <2> QED BY <2>3, <2>4
<1>6. add' \in [Adders -> Calls] BY <1>5 DEF Touch
<1>7. SameCalls BY <1>5, <1>6 DEF SameCalls
<1> QED BY <1>1, <1>3, <1>4, <1>5, <1>7

\* A session that expires dooms every call that has set a watch.
LEMMA SessionExpiresDoes ==
  ASSUME Base, NEW n \in Nodes, SessionExpires(n)
  PROVE  /\ SameCalls
         /\ \A a \in Adders :
              /\ add'[a].missed = add[a].missed
              /\ add[a].doomed \/ (Home[a] = n /\ \E d \in Dependencies : Exposed(a, d))
                   => add'[a].doomed
<1>1. ASSUME NEW a \in Adders
      PROVE  /\ add'[a] \in Calls
             /\ add'[a].at = add[a].at /\ add'[a].key = add[a].key
             /\ add'[a].dep = add[a].dep /\ add'[a].todo = add[a].todo
             /\ add'[a].missed = add[a].missed
             /\ add[a].doomed \/ (Home[a] = n /\ \E d \in Dependencies : Exposed(a, d))
                  => add'[a].doomed
  <2>1. add[a] \in Calls BY DEF Base
  <2>2. PICK b \in BOOLEAN :
          b = (add[a].doomed \/ (Home[a] = n /\ \E d \in Dependencies : Exposed(a, d)))
    BY <2>1 DEF Calls
  <2>3. add'[a] = [add[a] EXCEPT !.doomed = add[a].doomed
                     \/ (Home[a] = n /\ \E d \in Dependencies : Exposed(a, d))]
    BY DEF SessionExpires
  <2>4. add'[a] = [add[a] EXCEPT !.doomed = b] BY <2>2, <2>3
  <2>5. /\ add'[a] \in Calls /\ add'[a].doomed = b
        /\ add'[a].at = add[a].at /\ add'[a].key = add[a].key
        /\ add'[a].dep = add[a].dep /\ add'[a].todo = add[a].todo
        /\ add'[a].missed = add[a].missed
    BY <2>1, <2>2, <2>4 DEF Calls
  <2>6. add[a].doomed \/ (Home[a] = n /\ \E d \in Dependencies : Exposed(a, d)) => add'[a].doomed
    BY <2>2, <2>5
  <2> QED BY <2>5, <2>6
<1>2. add' \in [Adders -> Calls] BY <1>1 DEF SessionExpires
<1> QED BY <1>1, <1>2 DEF SameCalls

-----------------------------------------------------------------------------
(* What a step leaves alone.                                               *)

Asking == {"exists", "create", "watch"}

\* Calls of add that watch nothing new need no more room.
LEMMA RoomStays ==
  ASSUME Base, Base', WatchersBounded,
         \A n \in Nodes, d \in Dependencies : watchers'[n][d] <= watchers[n][d],
         \A a \in Adders :
           \/ add'[a].at = "idle"
           \/ /\ add[a].at # "idle"
              /\ add'[a].at \in Asking => add[a].at \in Asking /\ add'[a].todo = add[a].todo
  PROVE  WatchersBounded'
<1>1. IsFiniteSet({a \in Adders : add'[a].at # "idle"})
  <2>1. {a \in Adders : add'[a].at # "idle"} \subseteq {a \in Adders : add[a].at # "idle"} OBVIOUS
  <2> QED BY <2>1, FS_Subset DEF WatchersBounded
<1>2. ASSUME NEW n \in Nodes, NEW d \in Dependencies
      PROVE  watchers'[n][d] + Cardinality(Pending(n, d)') <= MaxWatchers
  <2>1. Pending(n, d)' \subseteq Pending(n, d) BY DEF Pending, Asking
  <2>2. IsFiniteSet(Pending(n, d))
    <3>1. Pending(n, d) \subseteq {a \in Adders : add[a].at # "idle"} BY DEF Pending
    <3> QED BY <3>1, FS_Subset DEF WatchersBounded
  <2>3. /\ Cardinality(Pending(n, d)') <= Cardinality(Pending(n, d)) /\ IsFiniteSet(Pending(n, d)')
    BY <2>1, <2>2, FS_Subset
  <2>4. Cardinality(Pending(n, d)') \in Nat /\ Cardinality(Pending(n, d)) \in Nat
    BY <2>2, <2>3, FS_CardinalityType
  <2>5. watchers[n][d] \in Nat /\ watchers'[n][d] \in Nat BY DEF Base
  <2>6. watchers[n][d] + Cardinality(Pending(n, d)) <= MaxWatchers BY DEF WatchersBounded
  <2>7. watchers'[n][d] <= watchers[n][d] OBVIOUS
  <2> QED BY <2>3, <2>4, <2>5, <2>6, <2>7
<1> QED BY <1>1, <1>2 DEF WatchersBounded

\* Watches that are set stay where they are.
LEMMA AddWatchedStays ==
  ASSUME AddWatched, UNCHANGED <<watchers, fired, events>>,
         \A n \in Nodes : Up(n)' => Up(n),
         \A a \in Adders :
           \/ add'[a].at \notin Early
           \/ \A d \in Dependencies : ~Exposed(a, d)'
           \/ /\ add[a].at \in Early /\ add'[a].missed = add[a].missed
              /\ add[a].doomed => add'[a].doomed
              /\ \A d \in Dependencies : Exposed(a, d)' => Exposed(a, d)
  PROVE  AddWatched'
<1> SUFFICES ASSUME NEW a \in Adders, NEW d \in Dependencies,
                    Up(Home[a])', add'[a].at \in Early, Exposed(a, d)', ~add'[a].doomed
             PROVE  IF d \in add'[a].missed THEN Underway(Home[a], d)'
                    ELSE watchers'[Home[a]][d] > 0 /\ d \notin fired'[Home[a]]
  BY DEF AddWatched
<1>1. /\ Up(Home[a]) /\ add[a].at \in Early /\ Exposed(a, d) /\ ~add[a].doomed
      /\ add'[a].missed = add[a].missed
  OBVIOUS
<1>2. Underway(Home[a], d) => Underway(Home[a], d)' BY DEF Underway
<1>3. IF d \in add[a].missed THEN Underway(Home[a], d)
      ELSE watchers[Home[a]][d] > 0 /\ d \notin fired[Home[a]]
  BY <1>1 DEF AddWatched
<1> QED BY <1>1, <1>2, <1>3

\* An object that is watched stays so, while watchers are run at most.
LEMMA WatchedStays ==
  ASSUME NEW n \in Nodes, NEW k \in Objects, Watched(n, k), stale'[n][k] = stale[n][k],
         \A d \in DependsOn[k] :
           /\ k \in mapping[n][d] \/ WillMap(n, k, d) => k \in mapping'[n][d] \/ WillMap(n, k, d)'
           /\ Underway(n, d) => Underway(n, d)'
           /\ watchers[n][d] > 0 => watchers'[n][d] > 0 \/ Underway(n, d)'
  PROVE  Watched(n, k)'
<1>1. stale'[n][k] \subseteq DependsOn[k] BY DEF Watched
<1>2. ASSUME NEW d \in DependsOn[k]
      PROVE  /\ k \in mapping'[n][d] \/ WillMap(n, k, d)'
             /\ Underway(n, d)' \/ (watchers'[n][d] > 0 /\ d \notin stale'[n][k])
  <2>1. /\ k \in mapping[n][d] \/ WillMap(n, k, d)
        /\ Underway(n, d) \/ (watchers[n][d] > 0 /\ d \notin stale[n][k])
    BY DEF Watched
  <2> QED BY <2>1
<1> QED BY <1>1, <1>2 DEF Watched

\* So do all, while calls of add go on.
LEMMA CachedWatchedStays ==
  ASSUME Base, CachedWatched, UNCHANGED <<cached, excused, stale, mapping, fired, events>>,
         \A n \in Nodes, d \in Dependencies : watchers[n][d] > 0 => watchers'[n][d] > 0,
         \A a \in Adders, d \in Dependencies :
           Mapping(a, d) => Mapping(a, d)' /\ add'[a].key = add[a].key
  PROVE  CachedWatched'
<1> SUFFICES ASSUME NEW n \in Nodes, NEW k \in cached'[n] \ excused'[n] PROVE Watched(n, k)'
  BY DEF CachedWatched
<1>1. k \in Objects /\ Watched(n, k) BY DEF Base, CachedWatched
<1>2. ASSUME NEW d \in DependsOn[k]
      PROVE  /\ k \in mapping[n][d] \/ WillMap(n, k, d) => k \in mapping'[n][d] \/ WillMap(n, k, d)'
             /\ Underway(n, d) => Underway(n, d)'
             /\ watchers[n][d] > 0 => watchers'[n][d] > 0 \/ Underway(n, d)'
  <2>1. d \in Dependencies BY <1>1
  <2>2. WillMap(n, k, d) => WillMap(n, k, d)' BY <2>1 DEF WillMap
  <2>3. Underway(n, d) => Underway(n, d)' BY DEF Underway
  <2> QED BY <2>1, <2>2, <2>3
<1>3. stale'[n][k] = stale[n][k] OBVIOUS
<1> QED BY <1>1, <1>2, <1>3, WatchedStays

\* Nobody asks for an update or gets one.
LEMMA ExpiryStays ==
  ASSUME WorkerHolds, NoExpireLost, UNCHANGED expiry, \A n \in Nodes : Up(n)' => Up(n)
  PROVE  WorkerHolds' /\ NoExpireLost'
<1>1. WorkerHolds' BY DEF WorkerHolds, expiry
<1>2. \A n \in Nodes : \A d : Queued(n, d)' <=> Queued(n, d) BY DEF Queued, expiry
<1>3. NoExpireLost' BY <1>2 DEF NoExpireLost, expiry
<1> QED BY <1>1, <1>3

\* Neither cache nor watches change.
LEMMA CacheStays ==
  ASSUME IInv, Base', UNCHANGED <<watchers, fired, cache>>, \A n \in Nodes : Up(n)' => Up(n)
  PROVE  Adds' /\ WatchersBounded' /\ FiredWatched' /\ AddWatched' /\ CachedWatched'
<1>1. UNCHANGED <<watchers, fired, events, cached, mapping, add, stale, excused>> BY DEF cache
<1>2. Adds' BY <1>1 DEF IInv, Adds
<1>3. WatchersBounded'
  <2>1. \A n \in Nodes, d \in Dependencies : watchers'[n][d] <= watchers[n][d]
    BY <1>1 DEF IInv, Base
  <2>2. \A a \in Adders : add'[a] = add[a] BY <1>1
  <2> QED BY <2>1, <2>2, RoomStays DEF IInv
<1>4. FiredWatched' BY <1>1 DEF IInv, FiredWatched
<1>5. \A a \in Adders, d \in Dependencies : /\ Exposed(a, d)' <=> Exposed(a, d)
                                            /\ Mapping(a, d)' <=> Mapping(a, d)
  BY <1>1 DEF Exposed, Mapping
<1>6. AddWatched' BY <1>1, <1>5, AddWatchedStays DEF IInv
<1>7. CachedWatched' BY <1>1, <1>5, CachedWatchedStays DEF IInv
<1> QED BY <1>2, <1>3, <1>4, <1>6, <1>7

-----------------------------------------------------------------------------
(* The steps of expire, of its worker and of the session that touch no     *)
(* cache.                                                                  *)

LEMMA ExpireInv ==
  ASSUME IInv, NEW c \in Callers, NEW d \in Expirable, Expire(c, d) PROVE IInv'
<1>1. PICK n : n = Home[c] /\ n \in Nodes OBVIOUS
<1>2. /\ call' = [call EXCEPT ![c] = IF Queued(n, d) THEN None ELSE d] /\ call[c] = None
      /\ owed' = IF Queued(n, d) THEN [owed EXCEPT ![n] = @ \cup {d}] ELSE owed
      /\ UNCHANGED <<zk, cache, queue, worker, faults>>
  BY <1>1 DEF Expire
<1>3. d \in Dependencies OBVIOUS
<1>4. Base'
  <2>1. owed' \in [Nodes -> SUBSET Dependencies] BY <1>1, <1>2, <1>3 DEF IInv, Base
  <2>2. call' \in [Callers -> Dependencies \cup {None}] BY <1>2, <1>3 DEF IInv, Base
  <2> QED BY <1>2, <2>1, <2>2 DEF IInv, Base, zk, cache
<1>5. WorkerHolds' BY <1>2 DEF IInv, WorkerHolds
<1>6. NoExpireLost'
  <2> SUFFICES ASSUME NEW m \in Nodes, NEW e \in owed'[m], Up(m)'
               PROVE  Queued(m, e)' \/ worker'[m].dep = e
    BY DEF NoExpireLost
  <2>2. /\ Queued(m, e)' <=> Queued(m, e)
        /\ worker' = worker /\ Up(m)
    BY <1>2 DEF Queued, Up, zk
  <2>3. CASE e \in owed[m]
    BY <2>2, <2>3 DEF IInv, NoExpireLost
  <2>4. CASE e \notin owed[m]
    <3>1. Queued(n, d) /\ m = n /\ e = d BY <1>1, <1>2, <2>4 DEF IInv, Base
    <3> QED BY <2>2, <3>1
  <2> QED BY <2>3, <2>4
<1>7. /\ UNCHANGED <<watchers, fired, cache>> /\ \A m \in Nodes : Up(m)' => Up(m)
  BY <1>2 DEF zk, Up
<1> QED BY <1>4, <1>5, <1>6, <1>7, CacheStays DEF IInv

\* What is queued stays queued, and e with it.
LEMMA QueueGrows ==
  ASSUME Base, NEW n \in Nodes, NEW e \in Dependencies,
         queue' = [queue EXCEPT ![n] = Append(@, e)]
  PROVE  /\ queue' \in [Nodes -> Seq(Dependencies)]
         /\ \A m \in Nodes : \A d : Queued(m, d) => Queued(m, d)'
         /\ Queued(n, e)'
<1>1. queue[n] \in Seq(Dependencies) BY DEF Base
<1>2. PICK q : q = Append(queue[n], e) OBVIOUS
<1>3. q \in Seq(Dependencies) /\ \A d : Occurs(q, d) <=> Occurs(queue[n], d) \/ d = e
  BY <1>1, <1>2, OccursAppend
<1>4. queue' = [queue EXCEPT ![n] = q] BY <1>2
<1>5. /\ queue' \in [Nodes -> Seq(Dependencies)] /\ queue'[n] = q
      /\ \A m \in Nodes \ {n} : queue'[m] = queue[m]
  BY <1>3, <1>4 DEF Base
<1>6. \A m \in Nodes : \A d : /\ Queued(m, d) <=> Occurs(queue[m], d)
                              /\ Queued(m, d)' <=> Occurs(queue'[m], d)
  BY DEF Queued, Occurs
<1>7. ASSUME NEW m \in Nodes, NEW d, Queued(m, d) PROVE Queued(m, d)'
  <2>1. CASE m = n BY <1>3, <1>5, <1>6, <1>7, <2>1
  <2>2. CASE m # n BY <1>5, <1>6, <1>7, <2>2
  <2> QED BY <2>1, <2>2
<1>8. Queued(n, e)' BY <1>3, <1>5, <1>6
<1> QED BY <1>5, <1>7, <1>8

\* expire puts its dependency into the queue.
LEMMA PutDependencyInv == ASSUME IInv, NEW c \in Callers, PutDependency(c) PROVE IInv'
<1>1. PICK n, d : n = Home[c] /\ n \in Nodes /\ d = call[c] OBVIOUS
<1>2. /\ d # None /\ queue' = [queue EXCEPT ![n] = Append(@, d)]
      /\ call' = [call EXCEPT ![c] = None]
      /\ owed' = [owed EXCEPT ![n] = @ \cup {d}]
      /\ UNCHANGED <<zk, cache, worker, faults>>
  BY <1>1 DEF PutDependency
<1>3. d \in Dependencies BY <1>1, <1>2 DEF IInv, Base
<1>4. /\ queue' \in [Nodes -> Seq(Dependencies)]
      /\ \A m \in Nodes : \A e : Queued(m, e) => Queued(m, e)'
      /\ Queued(n, d)'
  BY <1>1, <1>2, <1>3, QueueGrows DEF IInv
<1>5. Base'
  <2>1. call' \in [Callers -> Dependencies \cup {None}] BY <1>2 DEF IInv, Base
  <2>2. owed' \in [Nodes -> SUBSET Dependencies] BY <1>2, <1>3 DEF IInv, Base
  <2> QED BY <1>2, <1>4, <2>1, <2>2 DEF IInv, Base, zk, cache
<1>6. WorkerHolds' BY <1>2 DEF IInv, WorkerHolds
<1>7. UNCHANGED <<watchers, fired, cache>> /\ \A m \in Nodes : Up(m)' => Up(m)
  BY <1>2 DEF zk, Up
<1>8. NoExpireLost'
  <2> SUFFICES ASSUME NEW m \in Nodes, NEW e \in owed'[m], Up(m)'
               PROVE  Queued(m, e)' \/ worker'[m].dep = e
    BY DEF NoExpireLost
  <2>1. CASE e \in owed[m]
    <3>1. Queued(m, e) \/ worker[m].dep = e BY <1>7, <2>1 DEF IInv, NoExpireLost
    <3> QED BY <1>2, <1>4, <3>1
  <2>2. CASE e \notin owed[m]
    <3>1. m = n /\ e = d BY <1>1, <1>2, <2>2 DEF IInv, Base
    <3> QED BY <1>4, <3>1
  <2> QED BY <2>1, <2>2
<1> QED BY <1>5, <1>6, <1>7, <1>8, CacheStays DEF IInv

\* expire gives up: nothing was owed for it yet.
LEMMA ExpireInterruptedInv ==
  ASSUME IInv, NEW c \in Callers, ExpireInterrupted(c) PROVE IInv'
<1>1. /\ call' = [call EXCEPT ![c] = None]
      /\ UNCHANGED <<zk, cache, queue, worker, owed, faults>>
  BY DEF ExpireInterrupted
<1>2. Base'
  <2>1. call' \in [Callers -> Dependencies \cup {None}] BY <1>1 DEF IInv, Base
  <2> QED BY <1>1, <2>1 DEF IInv, Base, zk, cache
<1>3. WorkerHolds' BY <1>1 DEF IInv, WorkerHolds
<1>4. UNCHANGED <<watchers, fired, cache>> /\ \A m \in Nodes : Up(m)' <=> Up(m)
  BY <1>1 DEF zk, Up
<1>5. NoExpireLost'
  <2>1. \A m \in Nodes : \A e : Queued(m, e)' <=> Queued(m, e) BY <1>1 DEF Queued
  <2> QED BY <1>1, <1>4, <2>1 DEF IInv, NoExpireLost
<1> QED BY <1>2, <1>3, <1>4, <1>5, CacheStays DEF IInv

\* What EXCEPT makes of one worker.
LEMMA WorkerUpdate ==
  ASSUME Base, WorkerHolds, NEW n \in Nodes, NEW at \in {"take", "update", "put"},
         NEW d \in Dependencies \cup {None}, at = "take" <=> d = None,
         worker' = [worker EXCEPT ![n] = [at |-> at, dep |-> d]]
  PROVE  /\ worker' \in [Nodes -> [at : {"take", "update", "put"}, dep : Dependencies \cup {None}]]
         /\ worker'[n].dep = d /\ \A m \in Nodes \ {n} : worker'[m] = worker[m]
         /\ WorkerHolds'
<1>1. PICK r : r = [at |-> at, dep |-> d] OBVIOUS
<1>2. /\ r \in [at : {"take", "update", "put"}, dep : Dependencies \cup {None}]
      /\ r.at = at /\ r.dep = d
  BY <1>1
<1>3. worker' = [worker EXCEPT ![n] = r] BY <1>1
<1>4. /\ worker' \in [Nodes -> [at : {"take", "update", "put"}, dep : Dependencies \cup {None}]]
      /\ worker'[n] = r /\ \A m \in Nodes \ {n} : worker'[m] = worker[m]
  BY <1>2, <1>3 DEF Base
<1>5. WorkerHolds'
  <2> SUFFICES ASSUME NEW m \in Nodes
               PROVE  IF worker'[m].at = "take" THEN worker'[m].dep = None
                                                ELSE worker'[m].dep \in Dependencies
    BY DEF WorkerHolds
  <2>1. CASE m = n BY <1>2, <1>4, <2>1
  <2>2. CASE m # n BY <1>4, <2>2 DEF WorkerHolds
  <2> QED BY <2>1, <2>2
<1> QED BY <1>2, <1>4, <1>5

\* The worker takes one out of it.
LEMMA TakeDependencyInv == ASSUME IInv, NEW n \in Nodes, TakeDependency(n) PROVE IInv'
<1>1. PICK q, d : q = queue[n] /\ d = Head(q) OBVIOUS
<1>2. /\ worker[n].at = "take" /\ q # << >> /\ queue' = [queue EXCEPT ![n] = Tail(q)]
      /\ worker' = [worker EXCEPT ![n] = [at |-> "update", dep |-> d]]
      /\ UNCHANGED <<zk, cache, call, owed, faults>>
  BY <1>1 DEF TakeDependency, IInv, Base
<1>3. q \in Seq(Dependencies) BY <1>1 DEF IInv, Base
<1>4. /\ Tail(q) \in Seq(Dependencies) /\ d \in Dependencies
      /\ \A e : Occurs(q, e) => e = d \/ Occurs(Tail(q), e)
  BY <1>1, <1>2, <1>3, OccursTail
<1>5. /\ queue' \in [Nodes -> Seq(Dependencies)] /\ queue'[n] = Tail(q)
      /\ \A m \in Nodes \ {n} : queue'[m] = queue[m]
  BY <1>2, <1>4 DEF IInv, Base
<1>6. /\ worker' \in [Nodes -> [at : {"take", "update", "put"}, dep : Dependencies \cup {None}]]
      /\ worker'[n].dep = d /\ \A m \in Nodes \ {n} : worker'[m] = worker[m]
      /\ WorkerHolds'
  BY <1>2, <1>4, WorkerUpdate DEF IInv
<1>7. Base' BY <1>2, <1>5, <1>6 DEF IInv, Base, zk, cache
<1>8. UNCHANGED <<watchers, fired, cache>> /\ \A m \in Nodes : Up(m)' => Up(m)
  BY <1>2 DEF zk, Up
<1>9. NoExpireLost'
  <2> SUFFICES ASSUME NEW m \in Nodes, NEW e \in owed'[m], Up(m)'
               PROVE  Queued(m, e)' \/ worker'[m].dep = e
    BY DEF NoExpireLost
  <2>1. Queued(m, e) \/ worker[m].dep = e BY <1>2, <1>8 DEF IInv, NoExpireLost
  <2>2. e # None BY <1>7 DEF Base
  <2>3. CASE m = n
    <3>1. worker[n].dep # e BY <1>2, <2>2 DEF IInv, WorkerHolds
    <3>2. /\ Queued(n, e) <=> Occurs(q, e)
          /\ Queued(n, e)' <=> Occurs(Tail(q), e)
      BY <1>1, <1>5 DEF Queued, Occurs
    <3>3. Queued(m, e) => e = d \/ Queued(m, e)' BY <1>4, <2>3, <3>2
    <3> QED BY <1>6, <2>1, <2>3, <3>1, <3>3
  <2>4. CASE m # n
    <3>1. Queued(m, e) => Queued(m, e)' BY <1>5, <2>4 DEF Queued
    <3> QED BY <1>6, <2>1, <2>4, <3>1
  <2> QED BY <2>3, <2>4
<1> QED BY <1>6, <1>7, <1>8, <1>9, CacheStays DEF IInv

\* The worker has still to put back what it holds.
LEMMA PutInstead ==
  ASSUME Base, NEW n \in Nodes, worker' = [worker EXCEPT ![n].at = "put"]
  PROVE  worker' = [worker EXCEPT ![n] = [at |-> "put", dep |-> worker[n].dep]]
<1>1. PICK w : w = worker[n] OBVIOUS
<1>2. w \in [at : {"take", "update", "put"}, dep : Dependencies \cup {None}] BY <1>1 DEF Base
<1>3. [w EXCEPT !.at = "put"] = [at |-> "put", dep |-> w.dep] BY <1>2
<1>4. worker' = [worker EXCEPT ![n] = [w EXCEPT !.at = "put"]] BY <1>1 DEF Base
<1> QED BY <1>1, <1>3, <1>4

\* setData throws.
LEMMA UpdateFailsInv == ASSUME IInv, NEW n \in Nodes, UpdateFails(n) PROVE IInv'
<1>1. /\ worker[n].at = "update" /\ session' = Reconnected(n)
      /\ worker' = [worker EXCEPT ![n].at = "put"]
      /\ UNCHANGED <<znodes, watchers, fired, cache, call, queue, owed, faults>>
  BY DEF UpdateFails
<1>2. PICK d : d = worker[n].dep /\ d \in Dependencies BY <1>1 DEF IInv, WorkerHolds
<1>3. worker' = [worker EXCEPT ![n] = [at |-> "put", dep |-> d]] BY <1>1, <1>2, PutInstead DEF IInv
<1>4. /\ worker' \in [Nodes -> [at : {"take", "update", "put"}, dep : Dependencies \cup {None}]]
      /\ worker'[n].dep = d /\ \A m \in Nodes \ {n} : worker'[m] = worker[m]
      /\ WorkerHolds'
  BY <1>2, <1>3, WorkerUpdate DEF IInv
<1>5. /\ session' \in [Nodes -> {"connected", "disconnected", "closed", "gone"}]
      /\ \A m \in Nodes : Up(m)' => Up(m)
  BY <1>1, ReconnectedUp DEF Up, IInv
<1>6. Base' BY <1>1, <1>4, <1>5 DEF IInv, Base, cache
<1>7. \A m \in Nodes : worker'[m].dep = worker[m].dep BY <1>2, <1>4
<1>8. NoExpireLost'
  <2>1. \A m \in Nodes : \A e : Queued(m, e)' <=> Queued(m, e) BY <1>1 DEF Queued
  <2> QED BY <1>1, <1>5, <1>7, <2>1 DEF IInv, NoExpireLost
<1> QED BY <1>1, <1>4, <1>5, <1>6, <1>8, CacheStays DEF IInv

\* The worker puts the dependency back.
LEMMA PutBackInv == ASSUME IInv, NEW n \in Nodes, PutBack(n) PROVE IInv'
<1>1. PICK d : d = worker[n].dep OBVIOUS
<1>2. /\ worker[n].at = "put" /\ queue' = [queue EXCEPT ![n] = Append(@, d)]
      /\ worker' = [worker EXCEPT ![n] = [at |-> "take", dep |-> None]]
      /\ UNCHANGED <<zk, cache, call, owed, faults>>
  BY <1>1 DEF PutBack
<1>3. d \in Dependencies BY <1>1, <1>2 DEF IInv, WorkerHolds
<1>4. /\ queue' \in [Nodes -> Seq(Dependencies)]
      /\ \A m \in Nodes : \A e : Queued(m, e) => Queued(m, e)'
      /\ Queued(n, d)'
  BY <1>2, <1>3, QueueGrows DEF IInv
<1>5. /\ worker' \in [Nodes -> [at : {"take", "update", "put"}, dep : Dependencies \cup {None}]]
      /\ \A m \in Nodes \ {n} : worker'[m] = worker[m]
      /\ WorkerHolds'
  BY <1>2, WorkerUpdate DEF IInv
<1>6. Base' BY <1>2, <1>4, <1>5 DEF IInv, Base, zk, cache
<1>7. UNCHANGED <<watchers, fired, cache>> /\ \A m \in Nodes : Up(m)' => Up(m)
  BY <1>2 DEF zk, Up
<1>8. NoExpireLost'
  <2> SUFFICES ASSUME NEW m \in Nodes, NEW e \in owed'[m], Up(m)'
               PROVE  Queued(m, e)' \/ worker'[m].dep = e
    BY DEF NoExpireLost
  <2>1. Queued(m, e) \/ worker[m].dep = e BY <1>2, <1>7 DEF IInv, NoExpireLost
  <2>2. worker[m].dep = e => Queued(m, e)' \/ worker'[m].dep = e BY <1>1, <1>4, <1>5
  <2> QED BY <1>4, <2>1, <2>2
<1> QED BY <1>5, <1>6, <1>7, <1>8, CacheStays DEF IInv

\* The client loses the connection, finds it again, or opens a new session.
LEMMA SessionInv ==
  ASSUME IInv, NEW n \in Nodes, Disconnect(n) \/ Reconnect(n) \/ HandleEvent(n) PROVE IInv'
<1>1. /\ UNCHANGED <<znodes, watchers, fired, cache, expiry>>
      /\ faults' \in 0..MaxFaults
  BY DEF Disconnect, Reconnect, HandleEvent, IInv, Base
<1>2. /\ session' \in [Nodes -> {"connected", "disconnected", "closed", "gone"}]
      /\ \A m \in Nodes : Up(m)' => Up(m)
  <2>1. CASE HandleEvent(n) BY <2>1, ReconnectedUp DEF HandleEvent, Up, IInv
  <2>2. CASE Disconnect(n) BY <2>2 DEF Disconnect, Up, IInv, Base
  <2>3. CASE Reconnect(n) BY <2>3 DEF Reconnect, Up, IInv, Base
  <2> QED BY <2>1, <2>2, <2>3
<1>3. Base' BY <1>1, <1>2 DEF IInv, Base, cache, expiry
<1>4. WorkerHolds' /\ NoExpireLost' BY <1>1, <1>2, ExpiryStays DEF IInv
<1> QED BY <1>1, <1>2, <1>3, <1>4, CacheStays DEF IInv

-----------------------------------------------------------------------------
(* The steps of add.                                                       *)

\* One call moves on.
LEMMA OneSound ==
  ASSUME Adds, NEW a \in Adders, \A b \in Adders \ {a} : add'[b] = add[b], Sound(add'[a])
  PROVE  Adds'
<1>1. ASSUME NEW b \in Adders PROVE Sound(add'[b])
  <2>1. CASE b = a BY <2>1
  <2>2. CASE b # a BY <2>2 DEF Adds
  <2> QED BY <2>1, <2>2
<1> QED BY <1>1 DEF Adds

\* add begins: there is room for its watchers.
LEMMA AddInv == ASSUME IInv, NEW a \in Adders, NEW k \in Objects, Add(a, k) PROVE IInv'
<1>1. PICK n : n = Home[a] /\ n \in Nodes OBVIOUS
<1>2. /\ add' \in [Adders -> Calls]
      /\ \A b \in Adders \ {a} : add'[b] = add[b]
      /\ add[a].at = "idle" /\ add'[a].at = "exists" /\ add'[a].key = k
      /\ add'[a].todo = DependsOn[k] /\ add'[a].missed = {}
  BY AddStarts DEF IInv
<1>3. /\ Room(n, k)
      /\ UNCHANGED <<zk, events, cached, mapping, stale, excused, expiry, faults>>
  BY <1>1 DEF Add
<1>4. UNCHANGED <<znodes, session, watchers, fired, call, queue, worker, owed>>
  BY <1>3 DEF zk, expiry
<1>5. Base' BY <1>2, <1>3, <1>4 DEF IInv, Base
<1>6. Adds'
  <2>1. Sound(add'[a]) BY <1>2 DEF Sound, Early
  <2> QED BY <1>2, <2>1, OneSound DEF IInv
<1>7. WorkerHolds' /\ NoExpireLost' BY <1>3, <1>4, ExpiryStays DEF IInv, Up
<1>8. WatchersBounded'
  <2>1. IsFiniteSet({b \in Adders : add'[b].at # "idle"})
    <3>1. {b \in Adders : add'[b].at # "idle"} \subseteq {b \in Adders : add[b].at # "idle"} \cup {a}
      BY <1>2
    <3>2. IsFiniteSet({b \in Adders : add[b].at # "idle"} \cup {a})
      BY FS_AddElement DEF IInv, WatchersBounded
    <3> QED BY <3>1, <3>2, FS_Subset
  <2>2. ASSUME NEW m \in Nodes, NEW d \in Dependencies
        PROVE  watchers'[m][d] + Cardinality(Pending(m, d)') <= MaxWatchers
    <3>1. IsFiniteSet(Pending(m, d))
      <4>1. Pending(m, d) \subseteq {b \in Adders : add[b].at # "idle"} BY DEF Pending
      <4> QED BY <4>1, FS_Subset DEF IInv, WatchersBounded
    <3>2. Cardinality(Pending(m, d)) \in Nat BY <3>1, FS_CardinalityType
    <3>3. watchers'[m][d] = watchers[m][d] /\ watchers[m][d] \in Nat BY <1>4 DEF IInv, Base
    <3>4. CASE m = n /\ d \in DependsOn[k]
      <4>1. Pending(m, d)' = Pending(m, d) \cup {a} BY <1>1, <1>2, <3>4 DEF Pending
      <4>2. a \notin Pending(m, d) BY <1>2 DEF Pending
      <4>3. Cardinality(Pending(m, d)') = Cardinality(Pending(m, d)) + 1
        BY <3>1, <4>1, <4>2, FS_AddElement
      <4>4. PICK e : e = Cardinality({i \in DOMAIN events[m] : events[m][i] = d}) OBVIOUS
      <4>5. e \in Nat
        <5>1. events[m] \in Seq(Dependencies) BY DEF IInv, Base
        <5>2. DOMAIN events[m] = 1..Len(events[m]) /\ Len(events[m]) \in Nat BY <5>1
        <5>3. IsFiniteSet(1..Len(events[m])) BY <5>2, FS_Interval
        <5>4. IsFiniteSet({i \in DOMAIN events[m] : events[m][i] = d}) BY <5>2, <5>3, FS_Subset
        <5> QED BY <4>4, <5>4, FS_CardinalityType
      <4>6. watchers[m][d] + e + Cardinality(Pending(m, d)) < MaxWatchers
        BY <1>3, <3>4, <4>4 DEF Room, Pending
      <4> QED BY <3>2, <3>3, <4>3, <4>5, <4>6
    <3>5. CASE ~(m = n /\ d \in DependsOn[k])
      <4>1. Pending(m, d)' = Pending(m, d) BY <1>1, <1>2, <3>5 DEF Pending
      <4> QED BY <3>3, <4>1 DEF IInv, WatchersBounded
    <3> QED BY <3>4, <3>5
  <2> QED BY <2>1, <2>2 DEF WatchersBounded
<1>9. FiredWatched' BY <1>4 DEF IInv, FiredWatched
<1>10. AddWatched'
  <2>1. \A d \in Dependencies : ~Exposed(a, d)' BY <1>2 DEF Exposed
  <2>2. \A b \in Adders \ {a}, d \in Dependencies : Exposed(b, d)' <=> Exposed(b, d)
    BY <1>2 DEF Exposed
  <2> QED BY <1>2, <1>3, <1>4, <2>1, <2>2, AddWatchedStays DEF IInv, Up
<1>11. CachedWatched'
  <2>1. \A b \in Adders, d \in Dependencies :
          Mapping(b, d) => Mapping(b, d)' /\ add'[b].key = add[b].key
    BY <1>2 DEF Mapping
  <2> QED BY <1>3, <1>4, <2>1, CachedWatchedStays DEF IInv
<1> QED BY <1>5, <1>6, <1>7, <1>8, <1>9, <1>10, <1>11 DEF IInv

\* add goes on asking ZooKeeper, or gives up.
LEMMA AskingInv ==
  ASSUME IInv, NEW a \in Adders, add[a].at \in Asking,
         \/ \E d \in add[a].todo, at \in {"create", "watch"} : Becomes(a, at, d, add[a].todo)
         \/ Ends(a),
         znodes' \in SUBSET Dependencies,
         session' \in [Nodes -> {"connected", "disconnected", "closed", "gone"}],
         \A n \in Nodes : Up(n)' => Up(n),
         UNCHANGED <<watchers, fired, events, cached, mapping, stale, excused, expiry, faults>>
  PROVE  IInv'
<1>1. UNCHANGED <<call, queue, worker, owed>> BY DEF expiry
<1>2. /\ add' \in [Adders -> Calls]
      /\ \A b \in Adders \ {a} : add'[b] = add[b]
      /\ \/ add'[a].at = "idle"
         \/ /\ add'[a].at \in {"create", "watch"} /\ add'[a].dep \in add[a].todo
            /\ add'[a].todo = add[a].todo /\ add'[a].key = add[a].key
            /\ add'[a].missed = add[a].missed /\ add'[a].doomed = add[a].doomed
  BY IdleCall DEF Becomes, Ends
<1>3. Base' BY <1>1, <1>2 DEF IInv, Base
<1>4. Adds'
  <2>1. Sound(add[a]) BY DEF IInv, Adds
  <2>2. Sound(add'[a]) BY <1>2, <2>1 DEF Sound, Early, Asking
  <2> QED BY <1>2, <2>2, OneSound DEF IInv
<1>5. WorkerHolds' /\ NoExpireLost' BY ExpiryStays DEF IInv
<1>6. WatchersBounded'
  <2>1. \A n \in Nodes, d \in Dependencies : watchers'[n][d] <= watchers[n][d] BY DEF IInv, Base
  <2>2. \A b \in Adders :
          \/ add'[b].at = "idle"
          \/ /\ add[b].at # "idle"
             /\ add'[b].at \in Asking => add[b].at \in Asking /\ add'[b].todo = add[b].todo
    BY <1>2 DEF Asking
  <2> QED BY <1>3, <2>1, <2>2, RoomStays DEF IInv
<1>7. FiredWatched' BY DEF IInv, FiredWatched
<1>8. AddWatched'
  <2>1. \A d \in Dependencies : add'[a].at # "idle" => (Exposed(a, d)' <=> Exposed(a, d))
    BY <1>2 DEF Exposed, Asking
  <2>2. \A b \in Adders \ {a}, d \in Dependencies : Exposed(b, d)' <=> Exposed(b, d)
    BY <1>2 DEF Exposed
  <2>3. ASSUME NEW b \in Adders
        PROVE  \/ add'[b].at \notin Early
               \/ /\ add[b].at \in Early /\ add'[b].missed = add[b].missed
                  /\ add[b].doomed => add'[b].doomed
                  /\ \A d \in Dependencies : Exposed(b, d)' => Exposed(b, d)
    <3>1. CASE b = a BY <1>2, <2>1, <3>1 DEF Early, Asking
    <3>2. CASE b # a BY <1>2, <2>2, <3>2
    <3> QED BY <3>1, <3>2
  <2> QED BY <2>3, AddWatchedStays DEF IInv
<1>9. CachedWatched'
  <2>1. \A b \in Adders, d \in Dependencies :
          Mapping(b, d) => Mapping(b, d)' /\ add'[b].key = add[b].key
    BY <1>2 DEF Mapping, Asking
  <2>2. \A n \in Nodes, d \in Dependencies : watchers[n][d] > 0 => watchers'[n][d] > 0 OBVIOUS
  <2> QED BY <2>1, <2>2, CachedWatchedStays DEF IInv
<1> QED BY <1>3, <1>4, <1>5, <1>6, <1>7, <1>8, <1>9 DEF IInv

\* exists, create, and what they throw.
LEMMA ExistsCreateFailsInv ==
  ASSUME IInv, NEW a \in Adders, Exists(a) \/ Create(a) \/ AddFails(a) PROVE IInv'
<1>1. CASE Exists(a)
  <2>1. UNCHANGED <<zk, events, cached, mapping, stale, excused, expiry, faults>>
    BY <1>1 DEF Exists
  <2>2. /\ UNCHANGED <<watchers, fired, events, cached, mapping, stale, excused, expiry, faults>>
        /\ znodes' \in SUBSET Dependencies
        /\ session' \in [Nodes -> {"connected", "disconnected", "closed", "gone"}]
        /\ \A n \in Nodes : Up(n)' => Up(n)
    BY <2>1 DEF zk, IInv, Base, Up
  <2>3. /\ add[a].at \in Asking
        /\ \E d \in add[a].todo, at \in {"create", "watch"} : Becomes(a, at, d, add[a].todo)
    BY <1>1, ExistsDoes DEF IInv, Asking
  <2> QED BY <2>2, <2>3, AskingInv
<1>2. CASE Create(a)
  <2>1. add[a].at = "create" /\ (Becomes(a, "watch", add[a].dep, add[a].todo) \/ Ends(a))
    BY <1>2, CreateDoes DEF IInv
  <2>2. add[a].dep \in add[a].todo BY <2>1 DEF IInv, Adds, Sound
  <2>3. add[a].dep \in Dependencies
    <3>1. add[a] \in Calls BY DEF IInv, Base
    <3> QED BY <2>2, <3>1 DEF Calls
  <2>4. /\ UNCHANGED <<session, watchers, fired, events, cached, mapping, stale, excused, expiry,
                       faults>>
        /\ znodes' \in SUBSET Dependencies
    BY <1>2, <2>3 DEF Create, IInv, Base
  <2>5. /\ session' \in [Nodes -> {"connected", "disconnected", "closed", "gone"}]
        /\ \A n \in Nodes : Up(n)' => Up(n)
    BY <2>4 DEF IInv, Base, Up
  <2>6. add[a].at \in Asking BY <2>1 DEF Asking
  <2>7. \/ \E d \in add[a].todo, at \in {"create", "watch"} : Becomes(a, at, d, add[a].todo)
        \/ Ends(a)
    BY <2>1, <2>2
  <2> QED BY <2>4, <2>5, <2>6, <2>7, AskingInv
<1>3. CASE AddFails(a)
  <2>1. /\ add[a].at \in Asking
        /\ UNCHANGED <<znodes, watchers, fired, events, cached, mapping, stale, excused, expiry,
                       faults>>
    BY <1>3 DEF AddFails, Asking
  <2>2. Ends(a) /\ session' = Reconnected(Home[a]) /\ Home[a] \in Nodes
    BY <1>3, AddFailsDoes DEF IInv
  <2>3. /\ session' \in [Nodes -> {"connected", "disconnected", "closed", "gone"}]
        /\ \A n \in Nodes : Up(n)' => Up(n)
    BY <2>2, ReconnectedUp DEF Up, IInv
  <2>4. znodes' \in SUBSET Dependencies BY <2>1 DEF IInv, Base
  <2> QED BY <2>1, <2>2, <2>3, <2>4, AskingInv
<1> QED BY <1>1, <1>2, <1>3

\* d has one more watcher on n.
OneMore(n, d) ==
  /\ watchers' \in [Nodes -> [Dependencies -> Nat]]
  /\ \A m \in Nodes, e \in Dependencies :
       IF m = n /\ e = d THEN watchers'[m][e] = watchers[m][e] + 1
                         ELSE watchers'[m][e] = watchers[m][e]

LEMMA WatchersGrow ==
  ASSUME Base, NEW n \in Nodes, NEW d \in Dependencies,
         watchers' = [watchers EXCEPT ![n][d] = @ + 1]
  PROVE  OneMore(n, d)
<1>1. PICK f : f = [watchers[n] EXCEPT ![d] = watchers[n][d] + 1] OBVIOUS
<1>2. watchers[n] \in [Dependencies -> Nat] /\ watchers[n][d] \in Nat BY DEF Base
<1>3. /\ f \in [Dependencies -> Nat] /\ f[d] = watchers[n][d] + 1
      /\ \A e \in Dependencies \ {d} : f[e] = watchers[n][e]
  BY <1>1, <1>2
<1>4. watchers' = [watchers EXCEPT ![n] = f] BY <1>1 DEF Base
<1>5. /\ watchers' \in [Nodes -> [Dependencies -> Nat]] /\ watchers'[n] = f
      /\ \A m \in Nodes \ {n} : watchers'[m] = watchers[m]
  <2>1. PICK T : T = [Dependencies -> Nat] OBVIOUS
  <2>2. PICK w : w = [watchers EXCEPT ![n] = f] OBVIOUS
  <2>3. watchers \in [Nodes -> T] /\ f \in T BY <1>3, <2>1 DEF Base
  <2>4. w \in [Nodes -> T] /\ w[n] = f /\ \A m \in Nodes \ {n} : w[m] = watchers[m]
    BY <2>2, <2>3
  <2>5. watchers' = w BY <1>4, <2>2
  <2> QED BY <2>1, <2>4, <2>5
<1> QED BY <1>3, <1>5 DEF OneMore

\* The call of a has set its watch on d, or has given up with the watch set: the
\* room that was left for it is used.
LEMMA WatchBounded ==
  ASSUME IInv, NEW a \in Adders, NEW n \in Nodes, NEW d \in Dependencies, OneMore(n, d),
         n = Home[a], d \in add[a].todo, add[a].at = "watch",
         \A b \in Adders \ {a} : add'[b] = add[b],
         add'[a].todo \subseteq add[a].todo \ {d}
  PROVE  WatchersBounded'
<1>1. \A m \in Nodes, e \in Dependencies :
        IF m = n /\ e = d THEN watchers'[m][e] = watchers[m][e] + 1
                          ELSE watchers'[m][e] = watchers[m][e]
  BY DEF OneMore
<1>2. IsFiniteSet({b \in Adders : add'[b].at # "idle"})
  <2>1. {b \in Adders : add'[b].at # "idle"} \subseteq {b \in Adders : add[b].at # "idle"}
    OBVIOUS
  <2> QED BY <2>1, FS_Subset DEF IInv, WatchersBounded
<1>3. ASSUME NEW m \in Nodes, NEW e \in Dependencies
      PROVE  watchers'[m][e] + Cardinality(Pending(m, e)') <= MaxWatchers
  <2>1. IsFiniteSet(Pending(m, e))
    <3>1. Pending(m, e) \subseteq {b \in Adders : add[b].at # "idle"} BY DEF Pending
    <3> QED BY <3>1, FS_Subset DEF IInv, WatchersBounded
  <2>2. Cardinality(Pending(m, e)) \in Nat BY <2>1, FS_CardinalityType
  <2>3. watchers[m][e] + Cardinality(Pending(m, e)) <= MaxWatchers /\ watchers[m][e] \in Nat
    BY DEF IInv, WatchersBounded, Base
  <2>4. CASE m = n /\ e = d
    <3>1. Pending(m, e)' = Pending(m, e) \ {a} BY <2>4 DEF Pending
    <3>2. a \in Pending(m, e) BY <2>4 DEF Pending
    <3>3. Cardinality(Pending(m, e)') = Cardinality(Pending(m, e)) - 1
      <4>1. PICK P, Q : P = Pending(m, e) /\ Q = Pending(m, e)' OBVIOUS
      <4>2. IsFiniteSet(P) /\ Q = P \ {a} /\ a \in P BY <2>1, <3>1, <3>2, <4>1
      <4>3. Cardinality(Q) = Cardinality(P) - 1 BY <4>2, FS_RemoveElement
      <4> QED BY <4>1, <4>3
    <3>4. watchers'[m][e] = watchers[m][e] + 1 BY <1>1, <2>4
    <3> QED BY <2>2, <2>3, <3>3, <3>4
  <2>5. CASE ~(m = n /\ e = d)
    <3>1. Pending(m, e)' \subseteq Pending(m, e) BY DEF Pending
    <3>2. /\ Cardinality(Pending(m, e)') <= Cardinality(Pending(m, e))
          /\ IsFiniteSet(Pending(m, e)')
      BY <2>1, <3>1, FS_Subset
    <3>3. Cardinality(Pending(m, e)') \in Nat BY <3>2, FS_CardinalityType
    <3>4. watchers'[m][e] = watchers[m][e] BY <1>1, <2>5
    <3> QED BY <2>2, <2>3, <3>2, <3>3, <3>4
  <2> QED BY <2>4, <2>5
<1> QED BY <1>2, <1>3 DEF WatchersBounded

\* An interrupted call is over; what it has set remains.
LEMMA AddInterruptedInv == ASSUME IInv, NEW a \in Adders, AddInterrupted(a) PROVE IInv'
<1>1. PICK n, d : n = Home[a] /\ d = add[a].dep OBVIOUS
<1>2. /\ add[a].at \in Asking /\ add' = [add EXCEPT ![a] = Idle]
      /\ UNCHANGED <<session, fired, events, cached, mapping, stale, excused, expiry, faults>>
      /\ \/ UNCHANGED <<znodes, watchers>>
         \/ /\ add[a].at = "create"
            /\ znodes' = znodes \cup {d} /\ UNCHANGED watchers
         \/ /\ add[a].at = "watch" /\ fired[n] = {}
            /\ watchers' = [watchers EXCEPT ![n][d] = @ + 1] /\ UNCHANGED znodes
  BY <1>1 DEF AddInterrupted, Asking
<1>3. Ends(a) BY <1>2, IdleCall, AddUpdate DEF Ends, IInv, Base
<1>4. n \in Nodes BY <1>1, CacheAssumption
<1>5. add[a].at \in {"create", "watch"} => d \in add[a].todo /\ d \in Dependencies
  <2>1. add[a] \in Calls /\ Sound(add[a]) BY DEF IInv, Adds, Base
  <2> QED BY <1>1, <2>1 DEF Sound, Calls
<1>6. /\ session' \in [Nodes -> {"connected", "disconnected", "closed", "gone"}]
      /\ \A m \in Nodes : Up(m)' => Up(m)
  BY <1>2 DEF IInv, Base, Up
<1>7. CASE UNCHANGED watchers
  <2>1. znodes' \in SUBSET Dependencies BY <1>2, <1>5 DEF IInv, Base
  <2> QED BY <1>2, <1>3, <1>6, <1>7, <2>1, AskingInv
<1>8. CASE /\ add[a].at = "watch" /\ fired[n] = {}
           /\ watchers' = [watchers EXCEPT ![n][d] = @ + 1] /\ UNCHANGED znodes
  <2>1. /\ add' \in [Adders -> Calls]
        /\ \A b \in Adders \ {a} : add'[b] = add[b]
        /\ add'[a].at = "idle" /\ add'[a].todo = {}
    BY <1>3, IdleCall DEF Ends
  <2>2. /\ watchers' \in [Nodes -> [Dependencies -> Nat]]
        /\ \A m \in Nodes, e \in Dependencies :
             IF m = n /\ e = d THEN watchers'[m][e] = watchers[m][e] + 1
                               ELSE watchers'[m][e] = watchers[m][e]
    <3>1. OneMore(n, d) BY <1>4, <1>5, <1>8, WatchersGrow DEF IInv
    <3> QED BY <3>1 DEF OneMore
  <2>3. UNCHANGED <<call, queue, worker, owed>> BY <1>2 DEF expiry
  <2>4. Base' BY <1>2, <1>6, <1>8, <2>1, <2>2, <2>3 DEF IInv, Base
  <2>5. Adds'
    <3>1. Sound(add'[a]) BY <2>1 DEF Sound
    <3> QED BY <2>1, <3>1, OneSound DEF IInv
  <2>6. WorkerHolds' /\ NoExpireLost' BY <1>2, <1>6, ExpiryStays DEF IInv
  <2>7. WatchersBounded'
    <3>1. OneMore(n, d) BY <2>2 DEF OneMore
    <3> QED BY <1>1, <1>4, <1>5, <1>8, <2>1, <3>1, WatchBounded
  <2>8. ASSUME NEW m \in Nodes, NEW e \in Dependencies, watchers[m][e] > 0 PROVE watchers'[m][e] > 0
    <3>1. watchers[m][e] \in Nat BY DEF IInv, Base
    <3> QED BY <2>2, <2>8, <3>1
  <2>9. FiredWatched'
    <3>1. \A m \in Nodes : fired[m] \subseteq Dependencies BY DEF IInv, Base
    <3> QED BY <1>2, <2>8, <3>1 DEF IInv, FiredWatched
  <2>10. AddWatched'
    <3> SUFFICES ASSUME NEW b \in Adders, NEW e \in Dependencies,
                        Up(Home[b])', add'[b].at \in Early, Exposed(b, e)', ~add'[b].doomed
                 PROVE  IF e \in add'[b].missed THEN Underway(Home[b], e)'
                        ELSE watchers'[Home[b]][e] > 0 /\ e \notin fired'[Home[b]]
      BY DEF AddWatched
    <3>1. b # a BY <2>1 DEF Early
    <3>2. /\ add'[b] = add[b] /\ Exposed(b, e) BY <2>1, <3>1 DEF Exposed
    <3>3. /\ Underway(Home[b], e)' <=> Underway(Home[b], e)
          /\ fired' = fired /\ Up(Home[b]) /\ Home[b] \in Nodes
      BY <1>2, <1>6, CacheAssumption DEF Underway
    <3>4. IF e \in add[b].missed THEN Underway(Home[b], e)
          ELSE watchers[Home[b]][e] > 0 /\ e \notin fired[Home[b]]
      BY <3>2, <3>3 DEF IInv, AddWatched
    <3> QED BY <2>8, <3>2, <3>3, <3>4
  <2>11. CachedWatched'
    <3>1. \A b \in Adders, e \in Dependencies :
            Mapping(b, e) => Mapping(b, e)' /\ add'[b].key = add[b].key
      BY <1>8, <2>1 DEF Mapping
    <3> QED BY <1>2, <2>8, <3>1, CachedWatchedStays DEF IInv
  <2> QED BY <2>4, <2>5, <2>6, <2>7, <2>9, <2>10, <2>11 DEF IInv
<1> QED BY <1>2, <1>7, <1>8

\* getData: the call exposes itself to what happens to d from now on.
LEMMA WatchInv == ASSUME IInv, NEW a \in Adders, Watch(a) PROVE IInv'
<1>1. PICK n, d, left, at : /\ n = Home[a] /\ d = add[a].dep /\ left = add[a].todo \ {d}
                            /\ at = IF left = {} THEN "put" ELSE "exists"
  OBVIOUS
<1>2. /\ add[a].at = "watch" /\ fired[n] = {} /\ n \in Nodes
      /\ Becomes(a, at, None, left)
      /\ watchers' = [watchers EXCEPT ![n][d] = @ + 1]
      /\ UNCHANGED <<znodes, session, fired, events, cached, mapping, stale, excused, expiry, faults>>
  BY <1>1, WatchDoes DEF IInv
<1>3. /\ Sound(add[a]) /\ d \in add[a].todo /\ d \in Dependencies /\ add[a] \in Calls
      /\ add[a].key \in Objects /\ add[a].todo \subseteq DependsOn[add[a].key]
      /\ add[a].missed \subseteq DependsOn[add[a].key] /\ add[a].missed \cap add[a].todo = {}
  <2>1. Sound(add[a]) /\ add[a] \in Calls BY DEF IInv, Adds, Base
  <2>2. /\ d \in add[a].todo /\ add[a].key \in Objects /\ add[a].todo \subseteq DependsOn[add[a].key]
        /\ add[a].missed \subseteq DependsOn[add[a].key] /\ add[a].missed \cap add[a].todo = {}
    BY <1>1, <1>2, <2>1 DEF Sound, Early
  <2>3. d \in Dependencies BY <2>1, <2>2 DEF Calls
  <2> QED BY <2>1, <2>2, <2>3
<1>4. /\ add' \in [Adders -> Calls]
      /\ \A b \in Adders \ {a} : add'[b] = add[b]
      /\ add'[a].at = at /\ add'[a].todo = left /\ add'[a].key = add[a].key
      /\ add'[a].missed = add[a].missed /\ add'[a].doomed = add[a].doomed
      /\ at \in {"put", "exists"} /\ (at = "put" => left = {})
  BY <1>1, <1>2 DEF Becomes
<1>5. /\ watchers' \in [Nodes -> [Dependencies -> Nat]]
      /\ \A m \in Nodes, e \in Dependencies :
           IF m = n /\ e = d THEN watchers'[m][e] = watchers[m][e] + 1
                             ELSE watchers'[m][e] = watchers[m][e]
  <2>1. OneMore(n, d) BY <1>2, <1>3, WatchersGrow DEF IInv
  <2> QED BY <2>1 DEF OneMore
<1>6. UNCHANGED <<call, queue, worker, owed>> /\ \A m \in Nodes : Up(m)' => Up(m)
  BY <1>2 DEF expiry, Up
<1>7. Base' BY <1>2, <1>4, <1>5, <1>6 DEF IInv, Base
<1>8. Adds'
  <2>1. Sound(add'[a]) BY <1>1, <1>3, <1>4 DEF Sound, Early
  <2> QED BY <1>4, <2>1, OneSound DEF IInv
<1>9. WorkerHolds' /\ NoExpireLost' BY <1>2, <1>6, ExpiryStays DEF IInv
<1>10. WatchersBounded'
  <2>1. OneMore(n, d) BY <1>5 DEF OneMore
  <2>2. add'[a].todo \subseteq add[a].todo \ {d} BY <1>1, <1>4
  <2> QED BY <1>1, <1>2, <1>3, <1>4, <2>1, <2>2, WatchBounded
<1>11. \A m \in Nodes, e \in Dependencies : watchers[m][e] > 0 => watchers'[m][e] > 0
  <2>1. \A m \in Nodes, e \in Dependencies : watchers[m][e] \in Nat BY DEF IInv, Base
  <2>2. ASSUME NEW m \in Nodes, NEW e \in Dependencies, watchers[m][e] > 0 PROVE watchers'[m][e] > 0
    BY <1>5, <2>1, <2>2
  <2> QED BY <2>2
<1>12. FiredWatched'
  <2>1. \A m \in Nodes : fired[m] \subseteq Dependencies BY DEF IInv, Base
  <2> QED BY <1>2, <1>11, <2>1 DEF IInv, FiredWatched
<1>13. AddWatched'
  <2> SUFFICES ASSUME NEW b \in Adders, NEW e \in Dependencies,
                      Up(Home[b])', add'[b].at \in Early, Exposed(b, e)', ~add'[b].doomed
               PROVE  IF e \in add'[b].missed THEN Underway(Home[b], e)'
                      ELSE watchers'[Home[b]][e] > 0 /\ e \notin fired'[Home[b]]
    BY DEF AddWatched
  <2>1. /\ Underway(Home[b], e)' <=> Underway(Home[b], e)
        /\ fired' = fired /\ Up(Home[b])
    BY <1>2, <1>6 DEF Underway
  <2>2. CASE b = a /\ e = d
    <3>1. e \notin add'[b].missed BY <1>3, <1>4, <2>2
    <3>2. watchers'[Home[b]][e] > 0 BY <1>1, <1>2, <1>3, <1>5, <2>2 DEF IInv, Base
    <3> QED BY <1>1, <1>2, <2>2, <3>1, <3>2
  <2>3. CASE b # a \/ e # d
    <3>1. /\ add[b].at \in Early /\ Exposed(b, e)
          /\ add'[b].missed = add[b].missed /\ ~add[b].doomed
      <4>1. CASE b = a
        <5>1. e \in DependsOn[add[a].key] /\ e \notin left BY <1>4, <4>1 DEF Exposed
        <5>2. e \in DependsOn[add[a].key] \ add[a].todo BY <1>1, <2>3, <4>1, <5>1
        <5> QED BY <1>2, <1>4, <4>1, <5>2 DEF Exposed, Early
      <4>2. CASE b # a
        <5>1. Exposed(b, e)' <=> Exposed(b, e) BY <1>4, <4>2 DEF Exposed
        <5> QED BY <1>4, <4>2, <5>1
      <4> QED BY <4>1, <4>2
    <3>2. IF e \in add[b].missed THEN Underway(Home[b], e)
          ELSE watchers[Home[b]][e] > 0 /\ e \notin fired[Home[b]]
      BY <2>1, <3>1 DEF IInv, AddWatched
    <3> QED BY <1>11, <2>1, <3>1, <3>2
  <2> QED BY <2>2, <2>3
<1>14. CachedWatched'
  <2>1. \A b \in Adders, e \in Dependencies :
          Mapping(b, e) => Mapping(b, e)' /\ add'[b].key = add[b].key
    BY <1>2, <1>4 DEF Mapping
  <2> QED BY <1>2, <1>11, <2>1, CachedWatchedStays DEF IInv
<1> QED BY <1>7, <1>8, <1>9, <1>10, <1>12, <1>13, <1>14 DEF IInv

\* The object is stored: from here on it is the cache that knows what is missed.
LEMMA PutObjectInv == ASSUME IInv, NEW a \in Adders, PutObject(a) PROVE IInv'
<1>1. PICK n, k : n = Home[a] /\ k = add[a].key OBVIOUS
<1>2. /\ add[a].at = "put" /\ Up(n) /\ n \in Nodes /\ k \in Objects
      /\ Becomes(a, "contains", add[a].dep, DependsOn[k])
  BY <1>1, PutObjectDoes DEF IInv
<1>3. /\ cached' = [cached EXCEPT ![n] = @ \cup {k}]
      /\ stale' = [stale EXCEPT ![n][k] = add[a].missed]
      /\ excused' = [excused EXCEPT ![n] = IF add[a].doomed THEN @ \cup {k} ELSE @ \ {k}]
      /\ UNCHANGED <<zk, events, mapping, expiry, faults>>
  BY <1>1 DEF PutObject
<1>4. UNCHANGED <<znodes, session, watchers, fired, events, mapping, call, queue, worker, owed, faults>>
  BY <1>3 DEF zk, expiry
<1>5. /\ add' \in [Adders -> Calls] /\ \A b \in Adders \ {a} : add'[b] = add[b]
      /\ add'[a].at = "contains" /\ add'[a].todo = DependsOn[k] /\ add'[a].key = k
  BY <1>1, <1>2 DEF Becomes
<1>6. Sound(add[a]) /\ add[a].missed \subseteq DependsOn[k] /\ add[a] \in Calls
  <2>1. Sound(add[a]) /\ add[a] \in Calls BY DEF IInv, Adds, Base
  <2> QED BY <1>1, <1>2, <2>1 DEF Sound, Early
<1>7. /\ cached' \in [Nodes -> SUBSET Objects]
      /\ cached'[n] = cached[n] \cup {k} /\ \A m \in Nodes \ {n} : cached'[m] = cached[m]
  BY <1>2, <1>3 DEF IInv, Base
<1>8. /\ excused' \in [Nodes -> SUBSET Objects]
      /\ \A j \in Objects \ {k} : j \in excused'[n] <=> j \in excused[n]
      /\ add[a].doomed => k \in excused'[n]
      /\ \A m \in Nodes \ {n} : excused'[m] = excused[m]
  <2>1. PICK e : e = IF add[a].doomed THEN excused[n] \cup {k} ELSE excused[n] \ {k} OBVIOUS
  <2>2. excused' = [excused EXCEPT ![n] = e] BY <1>2, <1>3, <2>1 DEF IInv, Base
  <2>3. e \in SUBSET Objects BY <1>2, <2>1 DEF IInv, Base
  <2>4. /\ excused' \in [Nodes -> SUBSET Objects] /\ excused'[n] = e
        /\ \A m \in Nodes \ {n} : excused'[m] = excused[m]
    BY <1>2, <2>2, <2>3 DEF IInv, Base
  <2> QED BY <2>1, <2>4
<1>9. /\ stale' \in [Nodes -> [Objects -> SUBSET Dependencies]]
      /\ stale'[n][k] = add[a].missed
      /\ \A m \in Nodes, j \in Objects : m # n \/ j # k => stale'[m][j] = stale[m][j]
  <2>1. PICK T, f : T = [Objects -> SUBSET Dependencies] /\ f = [stale[n] EXCEPT ![k] = add[a].missed]
    OBVIOUS
  <2>2. stale \in [Nodes -> T] /\ stale[n] \in [Objects -> SUBSET Dependencies]
    BY <1>2, <2>1 DEF IInv, Base
  <2>3. add[a].missed \in SUBSET Dependencies BY <1>6 DEF Calls
  <2>4. /\ f \in [Objects -> SUBSET Dependencies] /\ f[k] = add[a].missed
        /\ \A j \in Objects \ {k} : f[j] = stale[n][j]
    BY <1>2, <2>1, <2>2, <2>3
  <2>5. stale' = [stale EXCEPT ![n] = f] BY <1>2, <1>3, <2>1, <2>2
  <2>6. /\ stale' \in [Nodes -> T] /\ stale'[n] = f
        /\ \A m \in Nodes \ {n} : stale'[m] = stale[m]
    BY <1>2, <2>1, <2>2, <2>4, <2>5, FunctionUpdate
  <2> QED BY <2>1, <2>4, <2>6
<1>10. Base' BY <1>4, <1>5, <1>7, <1>8, <1>9 DEF IInv, Base
<1>11. Adds'
  <2>1. Sound(add'[a]) BY <1>2, <1>5 DEF Sound, Early
  <2> QED BY <1>5, <2>1, OneSound DEF IInv
<1>12. WorkerHolds' /\ NoExpireLost' BY <1>3, <1>4, ExpiryStays DEF IInv, Up
<1>13. WatchersBounded' /\ FiredWatched'
  <2>1. \A m \in Nodes, d \in Dependencies : watchers'[m][d] <= watchers[m][d]
    BY <1>4 DEF IInv, Base
  <2>2. \A b \in Adders :
          \/ add'[b].at = "idle"
          \/ /\ add[b].at # "idle"
             /\ add'[b].at \in Asking => add[b].at \in Asking /\ add'[b].todo = add[b].todo
    BY <1>2, <1>5 DEF Asking
  <2>3. WatchersBounded' BY <1>10, <2>1, <2>2, RoomStays DEF IInv
  <2> QED BY <1>4, <2>3 DEF IInv, FiredWatched
<1>14. AddWatched'
  <2>1. \A b \in Adders \ {a}, d \in Dependencies : Exposed(b, d)' <=> Exposed(b, d)
    BY <1>5 DEF Exposed
  <2>2. add'[a].at \notin Early BY <1>5 DEF Early
  <2> QED BY <1>4, <1>5, <2>1, <2>2, AddWatchedStays DEF IInv, Up
<1>15. CachedWatched'
  <2> SUFFICES ASSUME NEW m \in Nodes, NEW j \in cached'[m] \ excused'[m] PROVE Watched(m, j)'
    BY DEF CachedWatched
  <2>1. j \in Objects BY <1>7
  <2>2. CASE m = n /\ j = k
    <3>1. ~add[a].doomed BY <1>8, <2>2
    <3>2. ASSUME NEW d \in DependsOn[k]
          PROVE  /\ WillMap(n, k, d)'
                 /\ Underway(n, d)' \/ (watchers'[n][d] > 0 /\ d \notin stale'[n][k])
      <4>1. d \in Dependencies BY <1>2
      <4>2. add[a].at \in Early /\ Exposed(a, d) BY <1>1, <1>2 DEF Early, Exposed
      <4>3. IF d \in add[a].missed THEN Underway(n, d) ELSE watchers[n][d] > 0 /\ d \notin fired[n]
        BY <1>1, <1>2, <3>1, <4>1, <4>2 DEF IInv, AddWatched
      <4>4. Underway(n, d)' <=> Underway(n, d) BY <1>4 DEF Underway
      <4>5. Mapping(a, d)' BY <1>5 DEF Mapping
      <4>6. WillMap(n, k, d)' BY <1>1, <1>5, <4>5 DEF WillMap
      <4> QED BY <1>4, <1>9, <4>3, <4>4, <4>6
    <3>3. stale'[n][k] \subseteq DependsOn[k] BY <1>6, <1>9
    <3> QED BY <2>2, <3>2, <3>3 DEF Watched
  <2>3. CASE m # n \/ j # k
    <3>1. j \in cached[m] /\ j \notin excused[m] BY <1>7, <1>8, <2>1, <2>3
    <3>2. Watched(m, j) /\ stale'[m][j] = stale[m][j]
      BY <1>9, <2>1, <2>3, <3>1 DEF IInv, CachedWatched
    <3>3. ASSUME NEW d \in DependsOn[j] PROVE WillMap(m, j, d) => WillMap(m, j, d)'
      <4>1. \A b \in Adders : Mapping(b, d) => Mapping(b, d)' /\ add'[b] = add[b]
        BY <1>2, <1>5 DEF Mapping
      <4> QED BY <4>1 DEF WillMap
    <3>4. \A d : Underway(m, d)' <=> Underway(m, d) BY <1>4 DEF Underway
    <3> QED BY <1>4, <2>1, <3>2, <3>3, <3>4, WatchedStays
  <2> QED BY <2>2, <2>3
<1> QED BY <1>10, <1>11, <1>12, <1>13, <1>14, <1>15 DEF IInv

\* add looks for a key set.
LEMMA ContainsInv == ASSUME IInv, NEW a \in Adders, ContainsDependency(a) PROVE IInv'
<1>1. PICK d \in add[a].todo : Becomes(a, "map", d, add[a].todo \ {d})
  BY ContainsDoes DEF IInv
<1>2. add[a].at = "contains" BY ContainsDoes DEF IInv
<1>3. UNCHANGED <<zk, events, cached, mapping, stale, excused, expiry, faults>>
  BY DEF ContainsDependency
<1>4. UNCHANGED <<znodes, session, watchers, fired, call, queue, worker, owed>>
  BY <1>3 DEF zk, expiry
<1>5. /\ add' \in [Adders -> Calls] /\ \A b \in Adders \ {a} : add'[b] = add[b]
      /\ add'[a].at = "map" /\ add'[a].todo = add[a].todo \ {d} /\ add'[a].key = add[a].key
      /\ add'[a].dep = d
  BY <1>1 DEF Becomes
<1>6. Base' BY <1>3, <1>4, <1>5 DEF IInv, Base
<1>7. Adds'
  <2>1. Sound(add[a]) BY DEF IInv, Adds
  <2>2. Sound(add'[a]) BY <1>1, <1>2, <1>5, <2>1 DEF Sound, Early
  <2> QED BY <1>5, <2>2, OneSound DEF IInv
<1>8. WorkerHolds' /\ NoExpireLost' BY <1>3, <1>4, ExpiryStays DEF IInv, Up
<1>9. WatchersBounded' /\ FiredWatched'
  <2>1. \A m \in Nodes, e \in Dependencies : watchers'[m][e] <= watchers[m][e]
    BY <1>4 DEF IInv, Base
  <2>2. \A b \in Adders :
          \/ add'[b].at = "idle"
          \/ /\ add[b].at # "idle"
             /\ add'[b].at \in Asking => add[b].at \in Asking /\ add'[b].todo = add[b].todo
    BY <1>2, <1>5 DEF Asking
  <2>3. WatchersBounded' BY <1>6, <2>1, <2>2, RoomStays DEF IInv
  <2> QED BY <1>4, <2>3 DEF IInv, FiredWatched
<1>10. AddWatched'
  <2>1. \A b \in Adders \ {a}, e \in Dependencies : Exposed(b, e)' <=> Exposed(b, e)
    BY <1>5 DEF Exposed
  <2>2. add'[a].at \notin Early BY <1>5 DEF Early
  <2> QED BY <1>3, <1>4, <1>5, <2>1, <2>2, AddWatchedStays DEF IInv, Up
<1>11. CachedWatched'
  <2>1. \A b \in Adders, e \in Dependencies :
          Mapping(b, e) => Mapping(b, e)' /\ add'[b].key = add[b].key
    BY <1>2, <1>5 DEF Mapping
  <2>2. \A m \in Nodes, e \in Dependencies : watchers[m][e] > 0 => watchers'[m][e] > 0 BY <1>4
  <2> QED BY <1>3, <1>4, <2>1, <2>2, CachedWatchedStays DEF IInv
<1> QED BY <1>6, <1>7, <1>8, <1>9, <1>10, <1>11 DEF IInv

\* The key set changes: objects that it loses are excused.
LEMMA MapInv == ASSUME IInv, NEW a \in Adders, MapDependency(a) PROVE IInv'
<1>1. PICK n, d, k : n = Home[a] /\ d = add[a].dep /\ k = add[a].key OBVIOUS
<1>2. /\ add[a].at = "map" /\ n \in Nodes
      /\ (add[a].todo = {} /\ Ends(a)) \/ Becomes(a, "contains", None, add[a].todo)
  BY <1>1, MapDoes DEF IInv
<1>3. PICK set \in Mapped(a, Home[a], add[a].dep) :
        /\ mapping' = [mapping EXCEPT ![Home[a]][add[a].dep] = set]
        /\ excused' = [excused EXCEPT ![Home[a]] =
             @ \cup {j \in cached[Home[a]] \ set :
                       \/ add[a].fresh /\ j \in mapping[Home[a]][add[a].dep]
                       \/ j = add[a].key}]
  BY DEF MapDependency
<1>4. UNCHANGED <<zk, events, cached, stale, expiry, faults>> BY DEF MapDependency
<1>5. UNCHANGED <<znodes, session, watchers, fired, call, queue, worker, owed>>
  BY <1>4 DEF zk, expiry
<1>6. /\ add[a] \in Calls /\ Sound(add[a]) /\ k \in Objects /\ d \in Dependencies
      /\ add[a].todo \subseteq DependsOn[k]
  <2>1. add[a] \in Calls /\ Sound(add[a]) BY DEF IInv, Adds, Base
  <2>2. k \in Objects /\ d \in DependsOn[k] /\ add[a].todo \subseteq DependsOn[k]
    BY <1>1, <1>2, <2>1 DEF Sound
  <2> QED BY <2>1, <2>2
<1>7. /\ set \in SUBSET Objects
      /\ add[a].fresh => set = {k}
      /\ ~add[a].fresh => mapping[n][d] \subseteq set
  <2>1. mapping[n][d] \in SUBSET Objects BY <1>2, <1>6 DEF IInv, Base
  <2>2. set \in Mapped(a, n, d) BY <1>1, <1>3
  <2> QED BY <1>1, <1>6, <2>1, <2>2 DEF Mapped
<1>8. /\ mapping' \in [Nodes -> [Dependencies -> SUBSET Objects]]
      /\ mapping'[n][d] = set
      /\ \A m \in Nodes, e \in Dependencies : m # n \/ e # d => mapping'[m][e] = mapping[m][e]
  <2>1. PICK T, f : T = [Dependencies -> SUBSET Objects] /\ f = [mapping[n] EXCEPT ![d] = set]
    OBVIOUS
  <2>2. mapping \in [Nodes -> T] /\ mapping[n] \in [Dependencies -> SUBSET Objects]
    BY <1>2, <2>1 DEF IInv, Base
  <2>3. /\ f \in [Dependencies -> SUBSET Objects] /\ f[d] = set
        /\ \A e \in Dependencies \ {d} : f[e] = mapping[n][e]
    BY <1>6, <1>7, <2>1, <2>2
  <2>4. mapping' = [mapping EXCEPT ![n] = f]
    <3>1. mapping' = [mapping EXCEPT ![n][d] = set] BY <1>1, <1>3
    <3> QED BY <1>2, <2>1, <2>2, <3>1
  <2>5. /\ mapping' \in [Nodes -> T] /\ mapping'[n] = f
        /\ \A m \in Nodes \ {n} : mapping'[m] = mapping[m]
    BY <1>2, <2>1, <2>2, <2>3, <2>4, FunctionUpdate
  <2> QED BY <2>1, <2>3, <2>5
<1>9. /\ excused' \in [Nodes -> SUBSET Objects]
      /\ \A j \in excused[n] : j \in excused'[n]
      /\ \A j \in cached[n] \ set : (add[a].fresh /\ j \in mapping[n][d]) \/ j = k => j \in excused'[n]
      /\ \A m \in Nodes \ {n} : excused'[m] = excused[m]
  <2>1. PICK x : x = {j \in cached[Home[a]] \ set :
                        \/ add[a].fresh /\ j \in mapping[Home[a]][add[a].dep]
                        \/ j = add[a].key}
    OBVIOUS
  <2>2. cached[n] \in SUBSET Objects /\ excused[n] \in SUBSET Objects BY <1>2 DEF IInv, Base
  <2>3. /\ x \in SUBSET Objects
        /\ \A j \in cached[n] \ set : (add[a].fresh /\ j \in mapping[n][d]) \/ j = k => j \in x
    BY <1>1, <2>1, <2>2
  <2>4. PICK e : e = excused[n] \cup x OBVIOUS
  <2>5. e \in SUBSET Objects BY <2>2, <2>3, <2>4
  <2>6. excused' = [excused EXCEPT ![n] = e]
    <3>1. excused' = [excused EXCEPT ![Home[a]] = @ \cup x] BY <1>3, <2>1
    <3> QED BY <1>1, <1>2, <2>4, <3>1 DEF IInv, Base
  <2>7. /\ excused' \in [Nodes -> SUBSET Objects] /\ excused'[n] = e
        /\ \A m \in Nodes \ {n} : excused'[m] = excused[m]
    BY <1>2, <2>5, <2>6 DEF IInv, Base
  <2> QED BY <2>3, <2>4, <2>7
<1>10. /\ add' \in [Adders -> Calls] /\ \A b \in Adders \ {a} : add'[b] = add[b]
       /\ \/ add'[a].at = "idle" /\ add[a].todo = {}
          \/ add'[a].at = "contains" /\ add'[a].todo = add[a].todo /\ add'[a].key = k
  BY <1>1, <1>2, IdleCall DEF Becomes, Ends
<1>11. Base' BY <1>4, <1>5, <1>8, <1>9, <1>10 DEF IInv, Base
<1>12. Adds'
  <2>1. Sound(add'[a]) BY <1>6, <1>10 DEF Sound, Early
  <2> QED BY <1>10, <2>1, OneSound DEF IInv
<1>13. WorkerHolds' /\ NoExpireLost' BY <1>4, <1>5, ExpiryStays DEF IInv, Up
<1>14. WatchersBounded' /\ FiredWatched'
  <2>1. \A m \in Nodes, e \in Dependencies : watchers'[m][e] <= watchers[m][e]
    BY <1>5 DEF IInv, Base
  <2>2. \A b \in Adders :
          \/ add'[b].at = "idle"
          \/ /\ add[b].at # "idle"
             /\ add'[b].at \in Asking => add[b].at \in Asking /\ add'[b].todo = add[b].todo
    BY <1>2, <1>10 DEF Asking
  <2>3. WatchersBounded' BY <1>11, <2>1, <2>2, RoomStays DEF IInv
  <2> QED BY <1>5, <2>3 DEF IInv, FiredWatched
<1>15. AddWatched'
  <2>1. \A b \in Adders \ {a}, e \in Dependencies : Exposed(b, e)' <=> Exposed(b, e)
    BY <1>10 DEF Exposed
  <2>2. add'[a].at \notin Early BY <1>10 DEF Early
  <2> QED BY <1>4, <1>5, <1>10, <2>1, <2>2, AddWatchedStays DEF IInv, Up
<1>16. CachedWatched'
  <2> SUFFICES ASSUME NEW m \in Nodes, NEW j \in cached'[m] \ excused'[m] PROVE Watched(m, j)'
    BY DEF CachedWatched
  <2>1. j \in cached[m] /\ j \notin excused[m] /\ j \in Objects
    BY <1>4, <1>9 DEF IInv, Base
  <2>2. Watched(m, j) /\ stale'[m][j] = stale[m][j] BY <1>4, <2>1 DEF IInv, CachedWatched
  <2>3. ASSUME NEW e \in DependsOn[j], j \in mapping[m][e] \/ WillMap(m, j, e)
        PROVE  j \in mapping'[m][e] \/ WillMap(m, j, e)'
    <3>1. e \in Dependencies BY <2>1
    <3>2. CASE j \in mapping[m][e]
      <4>1. CASE m = n /\ e = d
        <5>1. j \in set BY <1>4, <1>7, <1>9, <2>1, <3>2, <4>1
        <5> QED BY <1>8, <4>1, <5>1
      <4>2. CASE m # n \/ e # d BY <1>8, <3>1, <3>2, <4>2
      <4> QED BY <4>1, <4>2
    <3>3. CASE WillMap(m, j, e)
      <4>1. PICK b \in Adders : Home[b] = m /\ add[b].key = j /\ Mapping(b, e)
        BY <3>3 DEF WillMap
      <4>2. CASE b # a
        <5>1. Mapping(b, e)' /\ add'[b].key = j BY <1>10, <4>1, <4>2 DEF Mapping
        <5> QED BY <4>1, <5>1 DEF WillMap
      <4>3. CASE b = a /\ e \in add[a].todo
        <5>1. Mapping(a, e)' /\ add'[a].key = j BY <1>1, <1>10, <4>1, <4>3 DEF Mapping
        <5> QED BY <4>1, <4>3, <5>1 DEF WillMap
      <4>4. CASE b = a /\ e = d
        <5>1. m = n /\ j = k BY <1>1, <4>1, <4>4
        <5>2. j \in set BY <1>9, <2>1, <5>1
        <5> QED BY <1>8, <4>4, <5>1, <5>2
      <4>5. b = a => e \in add[a].todo \/ e = d BY <1>1, <1>2, <4>1 DEF Mapping
      <4> QED BY <4>2, <4>3, <4>4, <4>5
    <3> QED BY <2>3, <3>2, <3>3
  <2>4. \A e : Underway(m, e)' <=> Underway(m, e) BY <1>4, <1>5 DEF Underway
  <2> QED BY <1>5, <2>1, <2>2, <2>3, <2>4, WatchedStays
<1> QED BY <1>11, <1>12, <1>13, <1>14, <1>15, <1>16 DEF IInv

-----------------------------------------------------------------------------
(* The steps that drop objects.                                            *)

\* Objects leave; what stays is watched as before, or excused.
LEMMA DropInv ==
  ASSUME IInv, NEW n \in Nodes, NEW keys \in SUBSET Objects, NEW miss \in SUBSET Objects,
         Dropped(n, keys, miss),
         UNCHANGED <<zk, events, mapping, add, expiry, faults>>
  PROVE  IInv'
<1>1. /\ cached' \in [Nodes -> SUBSET Objects]
      /\ stale' \in [Nodes -> [Objects -> SUBSET Dependencies]]
      /\ excused' \in [Nodes -> SUBSET Objects]
      /\ \A m \in Nodes : \A j \in cached'[m] \ excused'[m] :
           j \in cached[m] \ excused[m] /\ stale'[m][j] = stale[m][j]
  <2>1. /\ cached' \in [Nodes -> SUBSET Objects]
        /\ stale' \in [Nodes -> [Objects -> SUBSET Dependencies]]
        /\ excused' \in [Nodes -> SUBSET Objects]
        /\ \A m \in Nodes \ {n} :
             cached'[m] = cached[m] /\ stale'[m] = stale[m] /\ excused'[m] = excused[m]
        /\ cached'[n] = cached[n] \ keys
        /\ \A k \in Objects : stale'[n][k] = IF k \in keys THEN {} ELSE stale[n][k]
        /\ excused'[n] = (excused[n] \cup (miss \cap cached[n])) \ keys
    BY DroppedDoes DEF IInv
  <2>2. ASSUME NEW m \in Nodes, NEW j \in cached'[m] \ excused'[m]
        PROVE  j \in cached[m] \ excused[m] /\ stale'[m][j] = stale[m][j]
    <3>1. CASE m = n BY <2>1, <2>2, <3>1 DEF IInv, Base
    <3>2. CASE m # n BY <2>1, <2>2, <3>2
    <3> QED BY <3>1, <3>2
  <2> QED BY <2>1, <2>2
<1>2. UNCHANGED <<znodes, session, watchers, fired, call, queue, worker, owed, events, mapping, add,
                  faults>>
  BY DEF zk, expiry
<1>3. Base' BY <1>1, <1>2 DEF IInv, Base
<1>4. Adds' BY <1>2 DEF IInv, Adds
<1>5. WorkerHolds' /\ NoExpireLost' BY <1>2, ExpiryStays DEF IInv, Up
<1>6. WatchersBounded' /\ FiredWatched'
  <2>1. \A m \in Nodes, e \in Dependencies : watchers'[m][e] <= watchers[m][e]
    BY <1>2 DEF IInv, Base
  <2>2. \A b \in Adders :
          \/ add'[b].at = "idle"
          \/ /\ add[b].at # "idle"
             /\ add'[b].at \in Asking => add[b].at \in Asking /\ add'[b].todo = add[b].todo
    BY <1>2
  <2>3. WatchersBounded' BY <1>3, <2>1, <2>2, RoomStays DEF IInv
  <2> QED BY <1>2, <2>3 DEF IInv, FiredWatched
<1>7. AddWatched'
  <2>1. \A b \in Adders, e \in Dependencies : Exposed(b, e)' <=> Exposed(b, e)
    BY <1>2 DEF Exposed
  <2> QED BY <1>2, <2>1, AddWatchedStays DEF IInv, Up
<1>8. CachedWatched'
  <2> SUFFICES ASSUME NEW m \in Nodes, NEW j \in cached'[m] \ excused'[m] PROVE Watched(m, j)'
    BY DEF CachedWatched
  <2>1. Watched(m, j) /\ stale'[m][j] = stale[m][j] /\ j \in Objects
    BY <1>1 DEF IInv, CachedWatched, Base
  <2>2. \A e : /\ Underway(m, e)' <=> Underway(m, e)
               /\ WillMap(m, j, e)' <=> WillMap(m, j, e)
    BY <1>2 DEF Underway, WillMap, Mapping
  <2> QED BY <1>2, <2>1, <2>2, WatchedStays
<1> QED BY <1>3, <1>4, <1>5, <1>6, <1>7, <1>8 DEF IInv

\* remove.
LEMMA RemoveInv == ASSUME IInv, NEW n \in Nodes, NEW k \in Objects, Remove(n, k) PROVE IInv'
<1>1. /\ {k} \in SUBSET Objects /\ {} \in SUBSET Objects
      /\ Dropped(n, {k}, {}) /\ UNCHANGED <<zk, events, mapping, add, expiry, faults>>
  BY DEF Remove
<1> QED BY <1>1, DropInv

\* Calls that are where they were have the same watches to set and keys to map.
LEMMA SameCallsDo ==
  ASSUME SameCalls
  PROVE  /\ \A a \in Adders : \A d : /\ Exposed(a, d)' <=> Exposed(a, d)
                                     /\ Mapping(a, d)' <=> Mapping(a, d)
         /\ \A n, k, d : WillMap(n, k, d)' <=> WillMap(n, k, d)
<1>1. \A a \in Adders : /\ add'[a].at = add[a].at /\ add'[a].key = add[a].key
                        /\ add'[a].dep = add[a].dep /\ add'[a].todo = add[a].todo
  BY DEF SameCalls
<1>2. ASSUME NEW a \in Adders, NEW d PROVE Exposed(a, d)' <=> Exposed(a, d)
  BY <1>1 DEF Exposed
<1>3. ASSUME NEW a \in Adders, NEW d PROVE Mapping(a, d)' <=> Mapping(a, d)
  BY <1>1 DEF Mapping
<1>4. ASSUME NEW n, NEW k, NEW d PROVE WillMap(n, k, d)' <=> WillMap(n, k, d)
  BY <1>1, <1>3 DEF WillMap
<1> QED BY <1>2, <1>3, <1>4

\* They need the same room, and what they missed is of their dependencies.
LEMMA SameCallsInv ==
  ASSUME Base, Base', Adds, WatchersBounded, SameCalls,
         \A n \in Nodes, d \in Dependencies : watchers'[n][d] <= watchers[n][d],
         \A a \in Adders :
           \/ add'[a].missed = add[a].missed
           \/ \E d \in Dependencies : Exposed(a, d) /\ add'[a].missed = add[a].missed \cup {d}
  PROVE  Adds' /\ WatchersBounded'
<1>1. \A a \in Adders : /\ add'[a].at = add[a].at /\ add'[a].key = add[a].key
                        /\ add'[a].dep = add[a].dep /\ add'[a].todo = add[a].todo
  BY DEF SameCalls
<1>2. ASSUME NEW a \in Adders PROVE Sound(add'[a])
  <2>1. Sound(add[a]) BY DEF Adds
  <2>2. CASE add'[a].missed = add[a].missed BY <1>1, <2>1, <2>2 DEF Sound
  <2>3. CASE \E d \in Dependencies : Exposed(a, d) /\ add'[a].missed = add[a].missed \cup {d}
    <3>1. PICK d : Exposed(a, d) /\ add'[a].missed = add[a].missed \cup {d} BY <2>3
    <3>2. CASE add[a].at \in Early
      <4>1. d \in DependsOn[add[a].key] /\ (add[a].at \in Early \ {"put"} => d \notin add[a].todo)
        BY <3>1, <3>2 DEF Exposed, Early
      <4> QED BY <1>1, <2>1, <3>1, <4>1 DEF Sound
    <3>3. CASE add[a].at \notin Early BY <1>1, <2>1, <3>3 DEF Sound
    <3> QED BY <3>2, <3>3
  <2> QED BY <2>2, <2>3
<1>3. \A b \in Adders :
        \/ add'[b].at = "idle"
        \/ /\ add[b].at # "idle"
           /\ add'[b].at \in Asking => add[b].at \in Asking /\ add'[b].todo = add[b].todo
  BY <1>1
<1> QED BY <1>2, <1>3, RoomStays DEF Adds

\* A watcher runs: whoever depends on d is dropped or excused.
LEMMA ProcessInv == ASSUME IInv, NEW n \in Nodes, Process(n) PROVE IInv'
<1>1. PICK d : d = Head(events[n]) OBVIOUS
<1>2. PICK exposed : exposed = {a \in Adders : Home[a] = n /\ Exposed(a, d)} OBVIOUS
<1>3. /\ events[n] # << >> /\ d \in Dependencies
      /\ events' = [events EXCEPT ![n] = Tail(@)]
      /\ \E keys \in SUBSET Objects :
           Dropped(n, keys, mapping[n][d] \cup {add[a].key : a \in exposed})
      /\ SameCalls
      /\ \A a \in Adders :
           /\ add'[a].missed = add[a].missed
           /\ add[a].doomed \/ (a \in exposed /\ d \in add[a].missed) => add'[a].doomed
      /\ UNCHANGED <<zk, mapping, expiry, faults>>
  BY <1>1, <1>2, ProcessDoes DEF IInv
<1>4. PICK miss : miss = mapping[n][d] \cup {add[a].key : a \in exposed} OBVIOUS
<1>5. miss \in SUBSET Objects
  <2>1. mapping[n][d] \in SUBSET Objects BY <1>3 DEF IInv, Base
  <2>2. ASSUME NEW a \in exposed PROVE add[a].key \in Objects
    <3>1. a \in Adders /\ add[a].at # "idle" BY <1>2 DEF Exposed
    <3> QED BY <3>1 DEF IInv, Adds, Sound
  <2> QED BY <1>4, <2>1, <2>2
<1>6. PICK keys \in SUBSET Objects : Dropped(n, keys, miss) BY <1>3, <1>4
<1>7. /\ cached' \in [Nodes -> SUBSET Objects]
      /\ stale' \in [Nodes -> [Objects -> SUBSET Dependencies]]
      /\ excused' \in [Nodes -> SUBSET Objects]
      /\ \A m \in Nodes \ {n} :
           cached'[m] = cached[m] /\ stale'[m] = stale[m] /\ excused'[m] = excused[m]
      /\ cached'[n] = cached[n] \ keys
      /\ \A k \in Objects : stale'[n][k] = IF k \in keys THEN {} ELSE stale[n][k]
      /\ excused'[n] = (excused[n] \cup (miss \cap cached[n])) \ keys
  BY <1>5, <1>6, DroppedDoes DEF IInv
<1>8. UNCHANGED <<znodes, session, watchers, fired, call, queue, worker, owed, mapping, faults>>
  BY <1>3 DEF zk, expiry
<1>9. /\ events' \in [Nodes -> Seq(Dependencies)]
      /\ \A m \in Nodes \ {n} : events'[m] = events[m]
      /\ \A m \in Nodes : \A e : Underway(m, e) => (m = n /\ e = d) \/ Underway(m, e)'
  <2>1. events[n] \in Seq(Dependencies) BY DEF IInv, Base
  <2>2. /\ Tail(events[n]) \in Seq(Dependencies)
        /\ \A e : Occurs(events[n], e) => e = d \/ Occurs(Tail(events[n]), e)
    BY <1>1, <1>3, <2>1, OccursTail
  <2>3. /\ events' \in [Nodes -> Seq(Dependencies)] /\ events'[n] = Tail(events[n])
        /\ \A m \in Nodes \ {n} : events'[m] = events[m]
    BY <1>3, <2>2 DEF IInv, Base
  <2>4. \A m \in Nodes : \A e : /\ Underway(m, e) <=> e \in fired[m] \/ Occurs(events[m], e)
                                /\ Underway(m, e)' <=> e \in fired'[m] \/ Occurs(events'[m], e)
    BY DEF Underway, Occurs
  <2>5. ASSUME NEW m \in Nodes, NEW e, Underway(m, e), ~(m = n /\ e = d) PROVE Underway(m, e)'
    <3>1. CASE m = n BY <1>8, <2>2, <2>3, <2>4, <2>5, <3>1
    <3>2. CASE m # n BY <1>8, <2>3, <2>4, <2>5, <3>2
    <3> QED BY <3>1, <3>2
  <2> QED BY <2>3, <2>5
<1>10. Base' BY <1>3, <1>7, <1>8, <1>9 DEF IInv, Base, SameCalls
<1>11. Adds' /\ WatchersBounded'
  <2>1. \A m \in Nodes, e \in Dependencies : watchers'[m][e] <= watchers[m][e]
    BY <1>8 DEF IInv, Base
  <2> QED BY <1>3, <1>10, <2>1, SameCallsInv DEF IInv
<1>12. WorkerHolds' /\ NoExpireLost' BY <1>3, <1>8, ExpiryStays DEF IInv, Up
<1>13. FiredWatched' BY <1>8 DEF IInv, FiredWatched
<1>14. AddWatched'
  <2> SUFFICES ASSUME NEW a \in Adders, NEW e \in Dependencies,
                      Up(Home[a])', add'[a].at \in Early, Exposed(a, e)', ~add'[a].doomed
               PROVE  IF e \in add'[a].missed THEN Underway(Home[a], e)'
                      ELSE watchers'[Home[a]][e] > 0 /\ e \notin fired'[Home[a]]
    BY DEF AddWatched
  <2>1. /\ Up(Home[a]) /\ add[a].at \in Early /\ Exposed(a, e) /\ ~add[a].doomed
        /\ add'[a].missed = add[a].missed /\ Home[a] \in Nodes
    BY <1>3, <1>8, SameCallsDo DEF Up, SameCalls
  <2>2. IF e \in add[a].missed THEN Underway(Home[a], e)
        ELSE watchers[Home[a]][e] > 0 /\ e \notin fired[Home[a]]
    BY <2>1 DEF IInv, AddWatched
  <2>3. ~(Home[a] = n /\ e = d /\ d \in add[a].missed) BY <1>2, <1>3, <2>1
  <2> QED BY <1>8, <1>9, <2>1, <2>2, <2>3
<1>15. CachedWatched'
  <2> SUFFICES ASSUME NEW m \in Nodes, NEW j \in cached'[m] \ excused'[m] PROVE Watched(m, j)'
    BY DEF CachedWatched
  <2>1. j \in Objects /\ j \in cached[m] /\ j \notin excused[m] /\ stale'[m][j] = stale[m][j]
    <3>1. CASE m = n BY <1>7, <3>1 DEF IInv, Base
    <3>2. CASE m # n BY <1>7, <3>2 DEF IInv, Base
    <3> QED BY <3>1, <3>2
  <2>2. Watched(m, j) BY <2>1 DEF IInv, CachedWatched
  <2>3. ~(m = n /\ d \in DependsOn[j])
    <3>1. SUFFICES ASSUME m = n, d \in DependsOn[j] PROVE FALSE OBVIOUS
    <3>2. j \notin miss BY <1>7, <2>1, <3>1
    <3>3. j \in mapping[n][d] \/ WillMap(n, j, d) BY <2>2, <3>1 DEF Watched
    <3>4. WillMap(n, j, d) => j \in miss
      <4>1. SUFFICES ASSUME WillMap(n, j, d) PROVE j \in miss OBVIOUS
      <4>2. PICK a \in Adders : Home[a] = n /\ add[a].key = j /\ Mapping(a, d)
        BY <4>1 DEF WillMap
      <4>3. a \in exposed BY <1>2, <4>2 DEF Mapping, Exposed
      <4> QED BY <1>4, <4>2, <4>3
    <3> QED BY <1>4, <3>2, <3>3, <3>4
  <2>4. \A e : WillMap(m, j, e)' <=> WillMap(m, j, e) BY <1>3, SameCallsDo
  <2>5. \A e \in DependsOn[j] : Underway(m, e) => Underway(m, e)' BY <1>9, <2>3
  <2> QED BY <1>8, <2>1, <2>2, <2>4, <2>5, WatchedStays
<1> QED BY <1>10, <1>11, <1>12, <1>13, <1>14, <1>15 DEF IInv

-----------------------------------------------------------------------------
(* The steps of ZooKeeper.                                                 *)

\* What has been fired is on its way to be run.
LEMMA ReceiveInv ==
  ASSUME IInv, NEW n \in Nodes, NEW d \in Dependencies, Receive(n, d) PROVE IInv'
<1>1. /\ d \in fired[n] /\ watchers[n][d] > 0 /\ watchers[n][d] \in Nat
      /\ fired' = [fired EXCEPT ![n] = fired[n] \ {d}]
      /\ watchers' = [watchers EXCEPT ![n][d] = 0]
      /\ events' = [events EXCEPT ![n] = events[n] \o [i \in 1..watchers[n][d] |-> d]]
      /\ UNCHANGED <<znodes, session, cached, mapping, add, stale, excused, expiry, faults>>
  BY DEF Receive, IInv, FiredWatched, Base
<1>2. UNCHANGED <<call, queue, worker, owed>> BY <1>1 DEF expiry
<1>3. /\ fired' \in [Nodes -> SUBSET Dependencies]
      /\ fired'[n] = fired[n] \ {d} /\ \A m \in Nodes \ {n} : fired'[m] = fired[m]
  BY <1>1 DEF IInv, Base
<1>4. /\ watchers' \in [Nodes -> [Dependencies -> Nat]]
      /\ watchers'[n][d] = 0
      /\ \A m \in Nodes, e \in Dependencies : m # n \/ e # d => watchers'[m][e] = watchers[m][e]
  <2>1. PICK T, f : T = [Dependencies -> Nat] /\ f = [watchers[n] EXCEPT ![d] = 0]
    OBVIOUS
  <2>2. watchers \in [Nodes -> T] /\ watchers[n] \in [Dependencies -> Nat]
    BY <2>1 DEF IInv, Base
  <2>3. /\ f \in [Dependencies -> Nat] /\ f[d] = 0
        /\ \A e \in Dependencies \ {d} : f[e] = watchers[n][e]
    BY <2>1, <2>2
  <2>4. watchers' = [watchers EXCEPT ![n] = f] BY <1>1, <2>1, <2>2
  <2>5. /\ watchers' \in [Nodes -> T] /\ watchers'[n] = f
        /\ \A m \in Nodes \ {n} : watchers'[m] = watchers[m]
    BY <2>1, <2>2, <2>3, <2>4, FunctionUpdate
  <2> QED BY <2>1, <2>3, <2>5
<1>5. /\ events' \in [Nodes -> Seq(Dependencies)]
      /\ \A m \in Nodes \ {n} : events'[m] = events[m]
      /\ \A e : Occurs(events[n], e) => Occurs(events'[n], e)
      /\ Occurs(events'[n], d)
  <2>1. PICK t : t = events[n] \o [i \in 1..watchers[n][d] |-> d] OBVIOUS
  <2>2. events[n] \in Seq(Dependencies) BY DEF IInv, Base
  <2>3. /\ t \in Seq(Dependencies) /\ Occurs(t, d)
        /\ \A e : Occurs(events[n], e) => Occurs(t, e)
    BY <1>1, <2>1, <2>2, OccursConcat
  <2>4. events' = [events EXCEPT ![n] = t] BY <1>1, <2>1
  <2>5. /\ events' \in [Nodes -> Seq(Dependencies)] /\ events'[n] = t
        /\ \A m \in Nodes \ {n} : events'[m] = events[m]
    BY <2>3, <2>4 DEF IInv, Base
  <2> QED BY <2>3, <2>5
<1>6. \A m \in Nodes : \A e : Underway(m, e) => Underway(m, e)'
  <2>1. \A m \in Nodes : \A e : /\ Underway(m, e) <=> e \in fired[m] \/ Occurs(events[m], e)
                                /\ Underway(m, e)' <=> e \in fired'[m] \/ Occurs(events'[m], e)
    BY DEF Underway, Occurs
  <2>2. ASSUME NEW m \in Nodes, NEW e, Underway(m, e) PROVE Underway(m, e)'
    <3>1. CASE m = n BY <1>3, <1>5, <2>1, <2>2, <3>1
    <3>2. CASE m # n BY <1>3, <1>5, <2>1, <2>2, <3>2
    <3> QED BY <3>1, <3>2
  <2> QED BY <2>2
<1>7. Underway(n, d)' BY <1>5 DEF Underway, Occurs
<1>8. Base' BY <1>1, <1>2, <1>3, <1>4, <1>5 DEF IInv, Base
<1>9. Adds' /\ WatchersBounded'
  <2>1. ASSUME NEW m \in Nodes, NEW e \in Dependencies PROVE watchers'[m][e] <= watchers[m][e]
    <3>1. watchers[m][e] \in Nat BY DEF IInv, Base
    <3> QED BY <1>4, <3>1
  <2>2. SameCalls BY <1>1 DEF SameCalls, IInv, Base
  <2> QED BY <1>1, <1>8, <2>1, <2>2, SameCallsInv DEF IInv
<1>10. WorkerHolds' /\ NoExpireLost' BY <1>1, <1>2, ExpiryStays DEF IInv, Up
<1>11. FiredWatched'
  <2> SUFFICES ASSUME NEW m \in Nodes, NEW e \in fired'[m] PROVE watchers'[m][e] > 0
    BY DEF FiredWatched
  <2>1. e \in fired[m] /\ (m # n \/ e # d) /\ e \in Dependencies
    BY <1>3 DEF IInv, Base
  <2>2. watchers[m][e] > 0 BY <2>1 DEF IInv, FiredWatched
  <2> QED BY <1>4, <2>1, <2>2
<1>12. AddWatched'
  <2> SUFFICES ASSUME NEW a \in Adders, NEW e \in Dependencies,
                      Up(Home[a])', add'[a].at \in Early, Exposed(a, e)', ~add'[a].doomed
               PROVE  IF e \in add'[a].missed THEN Underway(Home[a], e)'
                      ELSE watchers'[Home[a]][e] > 0 /\ e \notin fired'[Home[a]]
    BY DEF AddWatched
  <2>1. /\ Up(Home[a]) /\ add[a].at \in Early /\ Exposed(a, e) /\ ~add[a].doomed
        /\ add'[a].missed = add[a].missed /\ Home[a] \in Nodes
    BY <1>1 DEF Up, Exposed
  <2>2. IF e \in add[a].missed THEN Underway(Home[a], e)
        ELSE watchers[Home[a]][e] > 0 /\ e \notin fired[Home[a]]
    BY <2>1 DEF IInv, AddWatched
  <2>3. e \notin fired[Home[a]] => Home[a] # n \/ e # d BY <1>1
  <2>4. e \notin fired[Home[a]] => e \notin fired'[Home[a]] BY <1>3, <2>1
  <2> QED BY <1>4, <1>6, <2>1, <2>2, <2>3, <2>4
<1>13. CachedWatched'
  <2> SUFFICES ASSUME NEW m \in Nodes, NEW j \in cached'[m] \ excused'[m] PROVE Watched(m, j)'
    BY DEF CachedWatched
  <2>1. Watched(m, j) /\ stale'[m][j] = stale[m][j] /\ j \in Objects
    BY <1>1 DEF IInv, CachedWatched, Base
  <2>2. \A e : WillMap(m, j, e)' <=> WillMap(m, j, e) BY <1>1 DEF WillMap, Mapping
  <2>3. ASSUME NEW e \in DependsOn[j], watchers[m][e] > 0
        PROVE  watchers'[m][e] > 0 \/ Underway(m, e)'
    <3>1. e \in Dependencies BY <2>1
    <3> QED BY <1>4, <1>7, <2>3, <3>1
  <2> QED BY <1>1, <1>6, <2>1, <2>2, <2>3, WatchedStays
<1> QED BY <1>8, <1>9, <1>10, <1>11, <1>12, <1>13 DEF IInv

\* The node of d is touched: where d is watched, the watch fires.
LEMMA TouchInv ==
  ASSUME IInv, Base', NEW d \in Dependencies, Touch(d),
         UNCHANGED <<watchers, events, cached, mapping, excused>>,
         \A n \in Nodes : Up(n)' => Up(n)
  PROVE  Adds' /\ WatchersBounded' /\ FiredWatched' /\ AddWatched' /\ CachedWatched'
<1>1. /\ \A n \in Nodes : /\ watchers[n][d] > 0 => fired'[n] = fired[n] \cup {d}
                          /\ ~(watchers[n][d] > 0) => fired'[n] = fired[n]
      /\ \A n \in Nodes, k \in Objects :
           \/ stale'[n][k] = stale[n][k] /\ (d \in DependsOn[k] => k \notin cached[n])
           \/ d \in DependsOn[k] /\ stale'[n][k] = stale[n][k] \cup {d}
      /\ SameCalls
      /\ \A a \in Adders :
           /\ add'[a].doomed = add[a].doomed
           /\ add[a].at \in Early /\ Exposed(a, d) => add'[a].missed = add[a].missed \cup {d}
           /\ ~(add[a].at \in Early /\ Exposed(a, d)) => add'[a].missed = add[a].missed
  BY TouchDoes DEF IInv
<1>2. \A n \in Nodes : \A e : /\ Underway(n, e) => Underway(n, e)'
                              /\ watchers[n][d] > 0 => Underway(n, d)'
  BY <1>1 DEF Underway
<1>3. Adds' /\ WatchersBounded'
  <2>1. \A n \in Nodes, e \in Dependencies : watchers'[n][e] <= watchers[n][e] BY DEF IInv, Base
  <2>2. \A a \in Adders :
          \/ add'[a].missed = add[a].missed
          \/ \E e \in Dependencies : Exposed(a, e) /\ add'[a].missed = add[a].missed \cup {e}
    BY <1>1
  <2> QED BY <1>1, <2>1, <2>2, SameCallsInv DEF IInv
<1>4. FiredWatched'
  <2> SUFFICES ASSUME NEW n \in Nodes, NEW e \in fired'[n] PROVE watchers'[n][e] > 0
    BY DEF FiredWatched
  <2>1. CASE e \in fired[n] BY <2>1 DEF IInv, FiredWatched
  <2>2. CASE e \notin fired[n] BY <1>1, <2>2
  <2> QED BY <2>1, <2>2
<1>5. AddWatched'
  <2> SUFFICES ASSUME NEW a \in Adders, NEW e \in Dependencies,
                      Up(Home[a])', add'[a].at \in Early, Exposed(a, e)', ~add'[a].doomed
               PROVE  IF e \in add'[a].missed THEN Underway(Home[a], e)'
                      ELSE watchers'[Home[a]][e] > 0 /\ e \notin fired'[Home[a]]
    BY DEF AddWatched
  <2>1. /\ Home[a] \in Nodes /\ Up(Home[a]) /\ add[a].at \in Early /\ Exposed(a, e)
        /\ ~add[a].doomed
    BY <1>1, SameCallsDo DEF SameCalls
  <2>2. IF e \in add[a].missed THEN Underway(Home[a], e)
        ELSE watchers[Home[a]][e] > 0 /\ e \notin fired[Home[a]]
    BY <2>1 DEF IInv, AddWatched
  <2>3. CASE e = d
    <3>1. e \in add'[a].missed BY <1>1, <2>1, <2>3
    <3>2. Underway(Home[a], e)' BY <1>2, <2>1, <2>2, <2>3
    <3> QED BY <3>1, <3>2
  <2>4. CASE e # d
    <3>1. e \in add'[a].missed <=> e \in add[a].missed BY <1>1, <2>4
    <3>2. e \in fired'[Home[a]] <=> e \in fired[Home[a]] BY <1>1, <2>1, <2>4
    <3> QED BY <1>2, <2>1, <2>2, <3>1, <3>2
  <2> QED BY <2>3, <2>4
<1>6. CachedWatched'
  <2> SUFFICES ASSUME NEW n \in Nodes, NEW k \in cached'[n] \ excused'[n] PROVE Watched(n, k)'
    BY DEF CachedWatched
  <2>1. k \in Objects /\ k \in cached[n] /\ Watched(n, k) BY DEF IInv, Base, CachedWatched
  <2>2. \/ stale'[n][k] = stale[n][k] /\ d \notin DependsOn[k]
        \/ d \in DependsOn[k] /\ stale'[n][k] = stale[n][k] \cup {d}
    BY <1>1, <2>1
  <2>3. stale'[n][k] \subseteq DependsOn[k] BY <2>1, <2>2 DEF Watched
  <2>4. ASSUME NEW e \in DependsOn[k]
        PROVE  /\ k \in mapping'[n][e] \/ WillMap(n, k, e)'
               /\ Underway(n, e)' \/ (watchers'[n][e] > 0 /\ e \notin stale'[n][k])
    <3>1. /\ k \in mapping[n][e] \/ WillMap(n, k, e)
          /\ Underway(n, e) \/ (watchers[n][e] > 0 /\ e \notin stale[n][k])
      BY <2>1 DEF Watched
    <3>2. WillMap(n, k, e)' <=> WillMap(n, k, e) BY <1>1, SameCallsDo
    <3>3. e # d => (e \in stale'[n][k] <=> e \in stale[n][k]) BY <2>2
    <3>4. e = d => Underway(n, e)' BY <1>2, <3>1
    <3> QED BY <1>2, <3>1, <3>2, <3>3, <3>4
  <2> QED BY <2>3, <2>4 DEF Watched
<1> QED BY <1>3, <1>4, <1>5, <1>6

\* The update is done, and nobody owes it.
LEMMA UpdateNodeInv == ASSUME IInv, NEW n \in Nodes, UpdateNode(n) PROVE IInv'
<1>1. PICK d : d = worker[n].dep OBVIOUS
<1>2. /\ worker[n].at = "update"
      /\ IF d \in znodes THEN Touch(d) ELSE UNCHANGED <<fired, stale, add>>
      /\ owed' = [owed EXCEPT ![n] = @ \ {d}]
      /\ worker' = [worker EXCEPT ![n] = [at |-> "take", dep |-> None]]
      /\ UNCHANGED <<znodes, session, watchers, events, cached, mapping, excused, call, queue, faults>>
  BY <1>1 DEF UpdateNode
<1>3. d \in Dependencies BY <1>1, <1>2 DEF IInv, WorkerHolds
<1>4. /\ worker' \in [Nodes -> [at : {"take", "update", "put"}, dep : Dependencies \cup {None}]]
      /\ \A m \in Nodes \ {n} : worker'[m] = worker[m]
      /\ WorkerHolds'
  BY <1>2, WorkerUpdate DEF IInv
<1>5. /\ owed' \in [Nodes -> SUBSET Dependencies]
      /\ owed'[n] = owed[n] \ {d} /\ \A m \in Nodes \ {n} : owed'[m] = owed[m]
  BY <1>2 DEF IInv, Base
<1>6. NoExpireLost'
  <2> SUFFICES ASSUME NEW m \in Nodes, NEW e \in owed'[m], Up(m)'
               PROVE  Queued(m, e)' \/ worker'[m].dep = e
    BY DEF NoExpireLost
  <2>1. e \in owed[m] /\ (m = n => e # d) /\ Up(m) BY <1>2, <1>5 DEF Up
  <2>2. Queued(m, e) \/ worker[m].dep = e BY <2>1 DEF IInv, NoExpireLost
  <2>3. Queued(m, e)' <=> Queued(m, e) BY <1>2 DEF Queued
  <2>4. worker[m].dep = e => worker'[m].dep = e BY <1>1, <1>4, <2>1
  <2> QED BY <1>2, <2>2, <2>3, <2>4
<1>7. \A m \in Nodes : Up(m)' => Up(m) BY <1>2 DEF Up
<1>8. CASE d \in znodes
  <2>1. Touch(d) BY <1>2, <1>8
  <2>2. Base' BY <1>2, <1>3, <1>4, <1>5, <2>1, TouchDoes DEF IInv, Base, SameCalls
  <2>3. Adds' /\ WatchersBounded' /\ FiredWatched' /\ AddWatched' /\ CachedWatched'
    BY <1>2, <1>3, <1>7, <2>1, <2>2, TouchInv
  <2> QED BY <1>4, <1>6, <2>2, <2>3 DEF IInv
<1>9. CASE d \notin znodes
  <2>1. UNCHANGED <<fired, stale, add>> BY <1>2, <1>9
  <2>2. Base' BY <1>2, <1>4, <1>5, <2>1 DEF IInv, Base
  <2>3. UNCHANGED <<watchers, fired, cache>> BY <1>2, <2>1 DEF cache
  <2> QED BY <1>4, <1>6, <1>7, <2>2, <2>3, CacheStays DEF IInv
<1> QED BY <1>8, <1>9

\* It is done, but the worker does not know.
LEMMA UpdateUnansweredInv == ASSUME IInv, NEW n \in Nodes, UpdateUnanswered(n) PROVE IInv'
<1>1. PICK d : d = worker[n].dep OBVIOUS
<1>2. /\ worker[n].at = "update" /\ session[n] = "connected" /\ faults < MaxFaults
      /\ Touch(d)
      /\ session' = [session EXCEPT ![n] = "disconnected"]
      /\ owed' = [owed EXCEPT ![n] = @ \ {d}]
      /\ worker' = [worker EXCEPT ![n].at = "put"]
      /\ faults' = faults + 1
      /\ UNCHANGED <<znodes, watchers, events, cached, mapping, excused, call, queue>>
  BY <1>1 DEF UpdateUnanswered
<1>3. d \in Dependencies BY <1>1, <1>2 DEF IInv, WorkerHolds
<1>4. worker' = [worker EXCEPT ![n] = [at |-> "put", dep |-> d]]
  BY <1>1, <1>2, PutInstead DEF IInv
<1>5. /\ worker' \in [Nodes -> [at : {"take", "update", "put"}, dep : Dependencies \cup {None}]]
      /\ worker'[n].dep = d /\ \A m \in Nodes \ {n} : worker'[m] = worker[m]
      /\ WorkerHolds'
  BY <1>3, <1>4, WorkerUpdate DEF IInv
<1>6. /\ owed' \in [Nodes -> SUBSET Dependencies]
      /\ \A m \in Nodes : owed'[m] \subseteq owed[m]
  BY <1>2 DEF IInv, Base
<1>7. /\ session' \in [Nodes -> {"connected", "disconnected", "closed", "gone"}]
      /\ \A m \in Nodes : Up(m)' => Up(m)
  BY <1>2 DEF IInv, Base, Up
<1>8. faults' \in 0..MaxFaults BY <1>2 DEF IInv, Base
<1>9. \A m \in Nodes : worker'[m].dep = worker[m].dep BY <1>1, <1>5
<1>10. NoExpireLost'
  <2>1. \A m \in Nodes : \A e : Queued(m, e)' <=> Queued(m, e) BY <1>2 DEF Queued
  <2> QED BY <1>2, <1>6, <1>7, <1>9, <2>1 DEF IInv, NoExpireLost
<1>11. Base' BY <1>2, <1>3, <1>5, <1>6, <1>7, <1>8, TouchDoes DEF IInv, Base, SameCalls
<1>12. Adds' /\ WatchersBounded' /\ FiredWatched' /\ AddWatched' /\ CachedWatched'
  BY <1>2, <1>3, <1>7, <1>11, TouchInv
<1> QED BY <1>5, <1>10, <1>11, <1>12 DEF IInv

-----------------------------------------------------------------------------
(* The end of a session, and of a node.                                    *)

\* All watches of a node are gone: what it caches is excused or gone, its calls
\* of add are doomed or concern nobody.
LEMMA WatchesGone ==
  ASSUME IInv, Base', NEW n \in Nodes, SameCalls,
         UNCHANGED <<znodes, events, expiry>>,
         watchers' = [watchers EXCEPT ![n] = [d \in Dependencies |-> 0]],
         fired' = [fired EXCEPT ![n] = {}],
         cached'[n] \subseteq excused'[n],
         \A m \in Nodes \ {n} :
           /\ session'[m] = session[m] /\ cached'[m] = cached[m] /\ mapping'[m] = mapping[m]
           /\ stale'[m] = stale[m] /\ excused'[m] = excused[m],
         Up(n)' => Up(n),
         \A a \in Adders :
           /\ add'[a].missed = add[a].missed /\ (add[a].doomed => add'[a].doomed)
           /\ Up(n)' /\ Home[a] = n /\ (\E d \in Dependencies : Exposed(a, d)) => add'[a].doomed
  PROVE  IInv'
<1>1. /\ \A d \in Dependencies : watchers'[n][d] = 0
      /\ fired'[n] = {}
      /\ \A m \in Nodes \ {n} : watchers'[m] = watchers[m] /\ fired'[m] = fired[m]
  BY DEF IInv, Base
<1>2. \A m \in Nodes : Up(m)' => Up(m) BY DEF Up
<1>3. WorkerHolds' /\ NoExpireLost' BY <1>2, ExpiryStays DEF IInv
<1>4. Adds' /\ WatchersBounded'
  <2>1. ASSUME NEW m \in Nodes, NEW d \in Dependencies PROVE watchers'[m][d] <= watchers[m][d]
    <3>1. watchers[m][d] \in Nat BY DEF IInv, Base
    <3> QED BY <1>1, <3>1
  <2> QED BY <2>1, SameCallsInv DEF IInv
<1>5. FiredWatched' BY <1>1 DEF IInv, FiredWatched
<1>6. \A m \in Nodes \ {n} : \A d : Underway(m, d)' <=> Underway(m, d) BY <1>1 DEF Underway
<1>7. AddWatched'
  <2> SUFFICES ASSUME NEW a \in Adders, NEW d \in Dependencies,
                      Up(Home[a])', add'[a].at \in Early, Exposed(a, d)', ~add'[a].doomed
               PROVE  IF d \in add'[a].missed THEN Underway(Home[a], d)'
                      ELSE watchers'[Home[a]][d] > 0 /\ d \notin fired'[Home[a]]
    BY DEF AddWatched
  <2>1. /\ Home[a] \in Nodes /\ Up(Home[a]) /\ add[a].at \in Early /\ Exposed(a, d)
        /\ ~add[a].doomed /\ add'[a].missed = add[a].missed
    BY <1>2, SameCallsDo DEF SameCalls
  <2>2. Home[a] # n BY <2>1
  <2>3. IF d \in add[a].missed THEN Underway(Home[a], d)
        ELSE watchers[Home[a]][d] > 0 /\ d \notin fired[Home[a]]
    BY <2>1 DEF IInv, AddWatched
  <2> QED BY <1>1, <1>6, <2>1, <2>2, <2>3
<1>8. CachedWatched'
  <2> SUFFICES ASSUME NEW m \in Nodes, NEW k \in cached'[m] \ excused'[m] PROVE Watched(m, k)'
    BY DEF CachedWatched
  <2>1. m # n OBVIOUS
  <2>2. Watched(m, k) /\ stale'[m][k] = stale[m][k] /\ k \in Objects
    BY <2>1 DEF IInv, CachedWatched, Base
  <2>3. \A d : WillMap(m, k, d)' <=> WillMap(m, k, d) BY SameCallsDo
  <2> QED BY <1>1, <1>6, <2>1, <2>2, <2>3, WatchedStays
<1> QED BY <1>3, <1>4, <1>5, <1>7, <1>8 DEF IInv

\* A session expires.
LEMMA SessionExpiresInv == ASSUME IInv, NEW n \in Nodes, SessionExpires(n) PROVE IInv'
<1>1. /\ session[n] = "disconnected" /\ faults < MaxFaults
      /\ session' = [session EXCEPT ![n] = "closed"]
      /\ watchers' = [watchers EXCEPT ![n] = [d \in Dependencies |-> 0]]
      /\ fired' = [fired EXCEPT ![n] = {}]
      /\ excused' = [excused EXCEPT ![n] = cached[n]]
      /\ faults' = faults + 1
      /\ UNCHANGED <<znodes, events, cached, mapping, stale, expiry>>
  BY DEF SessionExpires
<1>2. /\ SameCalls
      /\ \A a \in Adders :
           /\ add'[a].missed = add[a].missed
           /\ add[a].doomed \/ (Home[a] = n /\ \E d \in Dependencies : Exposed(a, d))
                => add'[a].doomed
  BY SessionExpiresDoes DEF IInv
<1>3. Base'
  <2>1. [d \in Dependencies |-> 0] \in [Dependencies -> Nat] OBVIOUS
  <2>2. watchers' \in [Nodes -> [Dependencies -> Nat]] BY <1>1, <2>1 DEF IInv, Base
  <2>3. fired' \in [Nodes -> SUBSET Dependencies] BY <1>1 DEF IInv, Base
  <2>4. excused' \in [Nodes -> SUBSET Objects] BY <1>1 DEF IInv, Base
  <2>5. session' \in [Nodes -> {"connected", "disconnected", "closed", "gone"}]
    BY <1>1 DEF IInv, Base
  <2>6. faults' \in 0..MaxFaults BY <1>1 DEF IInv, Base
  <2>7. UNCHANGED <<call, queue, worker, owed>> BY <1>1 DEF expiry
  <2> QED BY <1>1, <1>2, <2>2, <2>3, <2>4, <2>5, <2>6, <2>7 DEF IInv, Base, SameCalls
<1>4. /\ cached'[n] \subseteq excused'[n] /\ (Up(n)' => Up(n))
      /\ \A m \in Nodes \ {n} :
           /\ session'[m] = session[m] /\ cached'[m] = cached[m] /\ mapping'[m] = mapping[m]
           /\ stale'[m] = stale[m] /\ excused'[m] = excused[m]
  BY <1>1 DEF IInv, Base, Up
<1>5. \A a \in Adders :
        /\ add'[a].missed = add[a].missed /\ (add[a].doomed => add'[a].doomed)
        /\ Up(n)' /\ Home[a] = n /\ (\E d \in Dependencies : Exposed(a, d)) => add'[a].doomed
  BY <1>2
<1>6. SameCalls /\ UNCHANGED <<znodes, events, expiry>> BY <1>1, <1>2
<1> QED BY <1>1, <1>3, <1>4, <1>5, <1>6, WatchesGone

\* destroy.
LEMMA DestroyInv == ASSUME IInv, NEW n \in Nodes, Destroy(n) PROVE IInv'
<1>1. /\ faults < MaxFaults
      /\ session' = [session EXCEPT ![n] = "gone"]
      /\ watchers' = [watchers EXCEPT ![n] = [d \in Dependencies |-> 0]]
      /\ fired' = [fired EXCEPT ![n] = {}]
      /\ mapping' = [mapping EXCEPT ![n] = [d \in Dependencies |-> {}]]
      /\ Dropped(n, Objects, {})
      /\ faults' = faults + 1
      /\ UNCHANGED <<znodes, events, add, expiry>>
  BY DEF Destroy
<1>2. /\ cached' \in [Nodes -> SUBSET Objects]
      /\ stale' \in [Nodes -> [Objects -> SUBSET Dependencies]]
      /\ excused' \in [Nodes -> SUBSET Objects]
      /\ \A m \in Nodes \ {n} :
           cached'[m] = cached[m] /\ stale'[m] = stale[m] /\ excused'[m] = excused[m]
      /\ cached'[n] = cached[n] \ Objects
  <2>1. Objects \in SUBSET Objects /\ {} \in SUBSET Objects OBVIOUS
  <2> QED BY <1>1, <2>1, DroppedDoes DEF IInv
<1>3. SameCalls BY <1>1 DEF SameCalls, IInv, Base
<1>4. Base'
  <2>1. /\ [d \in Dependencies |-> 0] \in [Dependencies -> Nat]
        /\ [d \in Dependencies |-> {}] \in [Dependencies -> SUBSET Objects]
    OBVIOUS
  <2>2. watchers' \in [Nodes -> [Dependencies -> Nat]] BY <1>1, <2>1 DEF IInv, Base
  <2>3. fired' \in [Nodes -> SUBSET Dependencies] BY <1>1 DEF IInv, Base
  <2>4. mapping' \in [Nodes -> [Dependencies -> SUBSET Objects]] BY <1>1, <2>1 DEF IInv, Base
  <2>5. session' \in [Nodes -> {"connected", "disconnected", "closed", "gone"}]
    BY <1>1 DEF IInv, Base
  <2>6. faults' \in 0..MaxFaults BY <1>1 DEF IInv, Base
  <2>7. UNCHANGED <<call, queue, worker, owed>> BY <1>1 DEF expiry
  <2> QED BY <1>1, <1>2, <2>2, <2>3, <2>4, <2>5, <2>6, <2>7 DEF IInv, Base
<1>5. /\ cached'[n] \subseteq excused'[n] /\ ~Up(n)'
      /\ \A m \in Nodes \ {n} : session'[m] = session[m] /\ mapping'[m] = mapping[m]
  BY <1>1, <1>2 DEF IInv, Base, Up
<1> QED BY <1>1, <1>2, <1>3, <1>4, <1>5, WatchesGone

-----------------------------------------------------------------------------
(* The theorems.                                                           *)

\* Nothing is cached, watched or asked for.
LEMMA InitInv == Init => IInv
<1> SUFFICES ASSUME Init PROVE IInv
  OBVIOUS
<1>1. /\ znodes = {} /\ session = [n \in Nodes |-> "connected"]
      /\ watchers = [n \in Nodes |-> [d \in Dependencies |-> 0]]
      /\ fired = [n \in Nodes |-> {}] /\ events = [n \in Nodes |-> << >>]
      /\ cached = [n \in Nodes |-> {}]
      /\ mapping = [n \in Nodes |-> [d \in Dependencies |-> {}]]
      /\ add = [a \in Adders |-> Idle] /\ call = [c \in Callers |-> None]
      /\ queue = [n \in Nodes |-> << >>]
      /\ worker = [n \in Nodes |-> [at |-> "take", dep |-> None]]
      /\ faults = 0 /\ stale = [n \in Nodes |-> [k \in Objects |-> {}]]
      /\ excused = [n \in Nodes |-> {}] /\ owed = [n \in Nodes |-> {}]
  BY DEF Init
<1>2. Base
  <2>1. znodes \in SUBSET Dependencies /\ faults \in 0..MaxFaults BY <1>1
  <2>2. session \in [Nodes -> {"connected", "disconnected", "closed", "gone"}] BY <1>1
  <2>3. watchers \in [Nodes -> [Dependencies -> Nat]] BY <1>1
  <2>4. fired \in [Nodes -> SUBSET Dependencies] /\ owed \in [Nodes -> SUBSET Dependencies]
    BY <1>1
  <2>5. events \in [Nodes -> Seq(Dependencies)] /\ queue \in [Nodes -> Seq(Dependencies)]
    BY <1>1
  <2>6. cached \in [Nodes -> SUBSET Objects] /\ excused \in [Nodes -> SUBSET Objects] BY <1>1
  <2>7. mapping \in [Nodes -> [Dependencies -> SUBSET Objects]] BY <1>1
  <2>8. add \in [Adders -> Calls] BY <1>1, IdleCall
  <2>9. call \in [Callers -> Dependencies \cup {None}] BY <1>1
  <2>10. worker \in [Nodes -> [at : {"take", "update", "put"}, dep : Dependencies \cup {None}]]
    BY <1>1
  <2>11. stale \in [Nodes -> [Objects -> SUBSET Dependencies]] BY <1>1
  <2> QED BY <2>1, <2>2, <2>3, <2>4, <2>5, <2>6, <2>7, <2>8, <2>9, <2>10, <2>11 DEF Base
<1>3. \A a \in Adders : add[a].at = "idle" BY <1>1, IdleCall
<1>4. Adds BY <1>3 DEF Adds, Sound
<1>5. WorkerHolds BY <1>1 DEF WorkerHolds
<1>6. NoExpireLost BY <1>1 DEF NoExpireLost
<1>7. WatchersBounded
  <2>1. {a \in Adders : add[a].at # "idle"} = {} BY <1>3
  <2>2. \A n \in Nodes, d \in Dependencies : Pending(n, d) = {} BY <1>3 DEF Pending
  <2>3. IsFiniteSet({}) /\ Cardinality({}) = 0 BY FS_EmptySet
  <2>4. IsFiniteSet({a \in Adders : add[a].at # "idle"}) BY <2>1, <2>3
  <2>5. ASSUME NEW n \in Nodes, NEW d \in Dependencies
        PROVE  watchers[n][d] + Cardinality(Pending(n, d)) <= MaxWatchers
    <3>1. watchers[n][d] = 0 BY <1>1
    <3>2. Cardinality(Pending(n, d)) = 0 BY <2>2, <2>3
    <3> QED BY <3>1, <3>2
  <2> QED BY <2>4, <2>5 DEF WatchersBounded
<1>8. FiredWatched BY <1>1 DEF FiredWatched
<1>9. AddWatched BY <1>3 DEF AddWatched, Early
<1>10. CachedWatched BY <1>1 DEF CachedWatched
<1> QED BY <1>2, <1>4, <1>5, <1>6, <1>7, <1>8, <1>9, <1>10 DEF IInv

\* Every step keeps the invariant.
LEMMA StepInv == IInv /\ [Next]_vars => IInv'
<1> SUFFICES ASSUME IInv, [Next]_vars PROVE IInv'
  OBVIOUS
<1>1. CASE UNCHANGED vars
  <2>1. UNCHANGED <<zk, cache, expiry, faults>> BY <1>1 DEF vars
  <2>2. Base' BY <2>1 DEF IInv, Base, zk, cache, expiry
  <2>3. UNCHANGED <<watchers, fired>> /\ \A n \in Nodes : Up(n)' => Up(n) BY <2>1 DEF zk, Up
  <2> QED BY <2>1, <2>2, <2>3, CacheStays, ExpiryStays DEF IInv
<1>2. ASSUME NEW a \in Adders, AddStep(a) PROVE IInv'
  BY <1>2, ExistsCreateFailsInv, WatchInv, PutObjectInv, ContainsInv, MapInv DEF AddStep
<1>3. ASSUME NEW n \in Nodes, Work(n) PROVE IInv'
  BY <1>3, TakeDependencyInv, UpdateNodeInv, UpdateFailsInv, PutBackInv DEF Work
<1>4. ASSUME NEW n \in Nodes,
             \/ Process(n) \/ UpdateUnanswered(n)
             \/ Disconnect(n) \/ Reconnect(n) \/ SessionExpires(n) \/ HandleEvent(n) \/ Destroy(n)
      PROVE  IInv'
  BY <1>4, ProcessInv, UpdateUnansweredInv, SessionInv, SessionExpiresInv, DestroyInv
<1>5. ASSUME NEW c \in Callers, PutDependency(c) \/ ExpireInterrupted(c) PROVE IInv'
  BY <1>5, PutDependencyInv, ExpireInterruptedInv
<1> QED BY <1>1, <1>2, <1>3, <1>4, <1>5, AddInv, AddInterruptedInv, ExpireInv, RemoveInv, ReceiveInv
        DEF Next

\* The inductive invariant holds in every behaviour.
THEOREM Invariance == Safety => []IInv
<1>1. Init => IInv BY InitInv
<1>2. IInv /\ [Next]_vars => IInv' BY StepInv
<1> QED BY <1>1, <1>2, PTL DEF Safety

\* The variables keep their types, and a dependency never has more watchers on a
\* node than add left room for.
THEOREM TypeCorrect == Safety => []TypeOK
<1>1. ASSUME IInv PROVE TypeOK
  <2>1. ASSUME NEW n \in Nodes, NEW d \in Dependencies PROVE watchers[n][d] \in 0..MaxWatchers
    <3>1. IsFiniteSet(Pending(n, d))
      <4>1. Pending(n, d) \subseteq {a \in Adders : add[a].at # "idle"} BY DEF Pending
      <4> QED BY <1>1, <4>1, FS_Subset DEF IInv, WatchersBounded
    <3>2. Cardinality(Pending(n, d)) \in Nat BY <3>1, FS_CardinalityType
    <3>3. watchers[n][d] \in Nat /\ watchers[n][d] + Cardinality(Pending(n, d)) <= MaxWatchers
      BY <1>1 DEF IInv, WatchersBounded, Base
    <3> QED BY <3>2, <3>3
  <2>2. watchers \in [Nodes -> [Dependencies -> 0..MaxWatchers]]
    <3>1. watchers \in [Nodes -> [Dependencies -> Nat]] BY <1>1 DEF IInv, Base
    <3>2. \A n \in Nodes : watchers[n] \in [Dependencies -> 0..MaxWatchers] BY <2>1, <3>1
    <3> QED BY <3>1, <3>2
  <2> QED BY <1>1, <2>2 DEF TypeOK, IInv, Base
<1> QED BY <1>1, Invariance, PTL

\* What expire has queued is in the queue or with the worker until the node is
\* touched, whatever sessions and threads do.
THEOREM NoExpireLostHolds == Safety => []NoExpireLost
<1>1. IInv => NoExpireLost BY DEF IInv
<1> QED BY <1>1, Invariance, PTL

\* An object that has outlived an update is dropped when its watcher runs, or is
\* one of those the code is known to miss.
THEOREM StaleExplainedHolds == Safety => []StaleExplained
<1>1. ASSUME IInv PROVE StaleExplained
  <2> SUFFICES ASSUME NEW n \in Nodes, NEW k \in Objects, NEW d \in Dependencies,
                      k \in cached[n], d \in stale[n][k], k \notin excused[n]
               PROVE  Underway(n, d) /\ (k \in mapping[n][d] \/ Adding(n, k))
    BY DEF StaleExplained
  <2>1. Watched(n, k) BY <1>1 DEF IInv, CachedWatched
  <2>2. d \in DependsOn[k] BY <2>1 DEF Watched
  <2>3. Underway(n, d) /\ (k \in mapping[n][d] \/ WillMap(n, k, d)) BY <2>1, <2>2 DEF Watched
  <2>4. WillMap(n, k, d) => Adding(n, k) BY DEF WillMap, Adding
  <2> QED BY <2>3, <2>4
<1> QED BY <1>1, Invariance, PTL
=============================================================================

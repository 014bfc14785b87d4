------------------------- MODULE BatchWorkerProofs --------------------------
(***************************************************************************)
(* Proofs about BatchWorker, for every set of items and clients and every  *)
(* size: whatever way starts, stops, threads and calls overlap, no item is *)
(* duplicated, and none is lost without its fate telling why.              *)
(***************************************************************************)
EXTENDS BatchWorker, TLAPS

USE BatchAssumption DEF BatchAssumption

-----------------------------------------------------------------------------
(* The inductive invariant.                                                *)

Steps == {"none", "loop", "take", "poll", "attempt", "doprocess", "sleep", "dead"}

CallSteps == {"idle", "start", "newpool", "submit", "ready", "read", "enqueue"}

Thread ==
  [at : Steps, batch : Seq(Items), tries : Nat, interrupted : BOOLEAN, on : Nat]

CallStates == [at : CallSteps, items : Seq(Items), all : BOOLEAN, on : Nat]

\* The variables' types, without the bounds.
Base ==
  /\ isActive \in BOOLEAN /\ isReady \in BOOLEAN /\ clash \in BOOLEAN
  /\ queue \in 0..MaxStarts /\ threadPool = queue
  /\ shut \subseteq 1..queue
  /\ contents \in [Generations -> Seq(Items)]
  /\ thread \in [Workers -> Thread]
  /\ client \in [Clients -> CallStates]
  /\ stopper \in {"idle", "inactive", "shutdown", "await"}
  /\ fate \in [Items -> Fates] /\ attempts \in [Items -> Nat] /\ stops \in 0..MaxStops

InStart(p) == client[p].at \in {"newpool", "submit", "ready"}

\* Whoever uses a queue finds one: start is in one call at a time, which has
\* raised isActive, and isActive falls by a stop only.
Started ==
  /\ \A p, q \in Clients : InStart(p) /\ InStart(q) => p = q
  /\ \A p \in Clients : client[p].at = "newpool" => queue < MaxStarts
  /\ \A p \in Clients : client[p].at \in {"submit", "ready", "read", "enqueue"} => queue >= 1
  /\ isReady => queue >= 1
  /\ isActive => queue >= 1 \/ \E p \in Clients : client[p].at = "newpool"
  /\ stopper = "await" => queue >= 1
  /\ stopper # "idle" => stops > 0
  /\ ~isActive => \/ stops > 0
                  \/ queue = 0 /\ \A p \in Clients : client[p].at # "newpool"

\* A call that goes on has items, and a queue to put them into.
Calls ==
  \A p \in Clients :
    /\ client[p].at # "idle" => client[p].items # << >>
    /\ client[p].on <= queue
    /\ client[p].at = "enqueue" => client[p].on >= 1

\* A thread has a queue to take from, a batch while it collects and processes
\* one, and tries left for it.
Threads ==
  \A w \in Workers :
    /\ thread[w].on <= queue
    /\ thread[w].at \in {"take", "poll"} => thread[w].on >= 1
    /\ thread[w].at \notin {"none", "dead"} => queue >= 1
    /\ thread[w].at \in {"none", "loop", "take", "dead"} => thread[w].batch = << >>
    /\ thread[w].at = "poll" => Len(thread[w].batch) < BatchSize
    /\ Len(thread[w].batch) <= BatchSize
    /\ thread[w].tries <= MaxRetryTimes
    /\ thread[w].at \in {"none", "loop", "take", "poll", "dead"} => thread[w].tries = 0
    /\ thread[w].interrupted => stops > 0

QueuesBounded == \A g \in Generations : Len(contents[g]) <= MaximumQueueSize

\* Offered items are in one call once.
Offers ==
  /\ \A p \in Clients : \A i \in DOMAIN client[p].items : fate[client[p].items[i]] = "offered"
  /\ \A p, q \in Clients : \A i \in DOMAIN client[p].items, k \in DOMAIN client[q].items :
       client[p].items[i] = client[q].items[k] => p = q /\ i = k

\* Accepted items are in one queue or one batch once, others in none.
Single ==
  /\ \A g, h \in Generations : \A i \in DOMAIN contents[g], k \in DOMAIN contents[h] :
       contents[g][i] = contents[h][k] => g = h /\ i = k
  /\ \A w, v \in Workers : \A i \in DOMAIN thread[w].batch, k \in DOMAIN thread[v].batch :
       thread[w].batch[i] = thread[v].batch[k] => w = v /\ i = k
  /\ \A g \in Generations, w \in Workers :
       \A i \in DOMAIN contents[g], k \in DOMAIN thread[w].batch :
         contents[g][i] # thread[w].batch[k]

Held(x) ==
  \/ \E g \in Generations : \E i \in DOMAIN contents[g] : contents[g][i] = x
  \/ \E w \in Workers : \E i \in DOMAIN thread[w].batch : thread[w].batch[i] = x

Where == \A x \in Items : fate[x] = "accepted" <=> Held(x)

\* The calls of doProcess the batch of w was in.
Attempts(w) == IF thread[w].at = "doprocess" THEN thread[w].tries + 1 ELSE thread[w].tries

\* How often an item was in a call, by where it is or what became of it.
Counted ==
  /\ \A x \in Items :
       /\ fate[x] \in {"new", "offered", "refused"} => attempts[x] = 0
       /\ fate[x] = "failed" => attempts[x] = MaxRetryTimes + 1
       /\ fate[x] = "processed" => attempts[x] \in 1..(MaxRetryTimes + 1)
       /\ fate[x] = "stopped" => stops > 0
  /\ \A g \in Generations : \A i \in DOMAIN contents[g] : attempts[contents[g][i]] = 0
  /\ \A w \in Workers : \A i \in DOMAIN thread[w].batch :
       attempts[thread[w].batch[i]] = Attempts(w)

IInv ==
  /\ Base /\ Started /\ Calls /\ Threads /\ QueuesBounded
  /\ Offers /\ Single /\ Where /\ Counted

-----------------------------------------------------------------------------
(* What a step leaves alone.                                               *)

\* A step that moves no item between queues and batches, calls no doProcess, and
\* only offers or refuses items.
LEMMA ItemsStay ==
  ASSUME Base, Base', Single, Where, Counted,
         UNCHANGED <<contents, attempts>>, stops <= stops',
         \A w \in Workers :
           thread'[w].batch = thread[w].batch /\ Attempts(w)' = Attempts(w),
         \A x \in Items :
           \/ fate'[x] = fate[x]
           \/ fate[x] \in {"new", "offered"} /\ fate'[x] \in {"offered", "refused"}
  PROVE  Single' /\ Where' /\ Counted'
<1>1. Single' BY DEF Single
<1>2. ASSUME NEW x \in Items PROVE Held(x)' <=> Held(x) BY DEF Held
<1>3. Where' BY <1>2 DEF Where
<1>4. \A x \in Items :
        /\ fate'[x] \in {"new", "offered", "refused"} => attempts'[x] = 0
        /\ fate'[x] = "failed" => attempts'[x] = MaxRetryTimes + 1
        /\ fate'[x] = "processed" => attempts'[x] \in 1..(MaxRetryTimes + 1)
        /\ fate'[x] = "stopped" => stops' > 0
  BY DEF Counted, Base
<1>5. \A w \in Workers : \A i \in DOMAIN thread'[w].batch :
        attempts'[thread'[w].batch[i]] = Attempts(w)'
  BY DEF Counted
<1>6. \A g \in Generations : \A i \in DOMAIN contents'[g] : attempts'[contents'[g][i]] = 0
  BY DEF Counted
<1> QED BY <1>1, <1>3, <1>4, <1>5, <1>6 DEF Counted

\* What EXCEPT makes of one call, and of one thread.
LEMMA ClientUpdate ==
  ASSUME client \in [Clients -> CallStates], NEW p \in Clients, NEW r \in CallStates,
         client' = [client EXCEPT ![p] = r]
  PROVE  /\ client' \in [Clients -> CallStates]
         /\ client'[p] = r /\ \A q \in Clients \ {p} : client'[q] = client[q]
  OBVIOUS

\* The same for a thread.
LEMMA ThreadUpdate ==
  ASSUME thread \in [Workers -> Thread], NEW w \in Workers, NEW r \in Thread,
         thread' = [thread EXCEPT ![w] = r]
  PROVE  /\ thread' \in [Workers -> Thread]
         /\ thread'[w] = r /\ \A v \in Workers \ {w} : thread'[v] = thread[v]
  OBVIOUS

\* The items of a call are marked.
LEMMA MarkedFate ==
  ASSUME Base, NEW xs, NEW what \in Fates, fate' = Marked(xs, what)
  PROVE  /\ fate' \in [Items -> Fates]
         /\ \A x \in Items : fate'[x] = IF x \in xs THEN what ELSE fate[x]
BY DEF Marked, Base

\* Calls that lose items, and offers that nobody else takes away.
LEMMA OffersKept ==
  ASSUME Base, Base', Offers, NEW p \in Clients,
         \A q \in Clients \ {p} : client'[q] = client[q],
         client'[p].items = client[p].items \/ client'[p].items = << >>,
         \A x \in Items : fate[x] = "offered" /\ fate'[x] # "offered" =>
           client'[p].items = << >> /\ x \in InSeq(client[p].items)
  PROVE  Offers'
<1>1. ASSUME NEW q \in Clients, NEW i \in DOMAIN client'[q].items
      PROVE  /\ client'[q].items = client[q].items
             /\ fate'[client'[q].items[i]] = "offered"
  <2>1. client'[q].items = client[q].items
    <3>1. CASE q = p BY <1>1, <3>1
    <3>2. CASE q # p BY <3>2
    <3> QED BY <3>1, <3>2
  <2>2. PICK x : x = client[q].items[i] OBVIOUS
  <2>3. x \in Items /\ fate[x] = "offered" BY <1>1, <2>1, <2>2 DEF Base, CallStates, Offers
  <2>4. ASSUME fate'[x] # "offered" PROVE FALSE
    <3>1. client'[p].items = << >> /\ x \in InSeq(client[p].items) BY <2>3, <2>4
    <3>2. PICK k \in DOMAIN client[p].items : x = client[p].items[k] BY <3>1 DEF InSeq
    <3>3. i \in DOMAIN client[q].items /\ client[q].items[i] = client[p].items[k]
      BY <2>1, <2>2, <3>2
    <3>4. q = p BY <3>3 DEF Offers
    <3> QED BY <1>1, <3>1, <3>4
  <2> QED BY <2>1, <2>2, <2>4
<1>2. ASSUME NEW q \in Clients, NEW r \in Clients,
             NEW i \in DOMAIN client'[q].items, NEW k \in DOMAIN client'[r].items,
             client'[q].items[i] = client'[r].items[k]
      PROVE  q = r /\ i = k
  BY <1>1, <1>2 DEF Offers
<1> QED BY <1>1, <1>2 DEF Offers

-----------------------------------------------------------------------------
(* start, put and putAll.                                                  *)

\* A call of put or putAll takes new items along.
LEMMA CallInv == ASSUME IInv, NEW p \in Clients, Call(p) PROVE IInv'
<1> USE DEF IInv
<1>1. PICK items \in [1..1 -> Items] \cup [1..2 -> Items] :
        /\ \A i \in DOMAIN items : fate[items[i]] = "new"
        /\ \A i, k \in DOMAIN items : items[i] = items[k] => i = k
        /\ client' = [client EXCEPT ![p] =
             [at |-> IF isReady THEN "read" ELSE "start", items |-> items,
              all |-> Len(items) = 2, on |-> 0]]
        /\ fate' = Marked(InSeq(items), "offered")
  BY DEF Call
<1>2. client[p].at = "idle" /\ UNCHANGED <<fields, contents, shut, thread, stopper, history>>
  BY DEF Call
<1>3. items \in Seq(Items) /\ items # << >>
  <2>1. Seq(Items) = UNION {[1..n -> Items] : n \in Nat} OBVIOUS
  <2>2. items \in UNION {[1..n -> Items] : n \in Nat} BY <1>1
  <2>3. 1 \in DOMAIN items BY <1>1
  <2> QED BY <2>1, <2>2, <2>3
<1>4. PICK r : r = [at |-> IF isReady THEN "read" ELSE "start", items |-> items,
                    all |-> Len(items) = 2, on |-> 0]
  OBVIOUS
<1>5. r \in CallStates /\ r.items = items /\ r.on = 0
  BY <1>3, <1>4 DEF CallStates, CallSteps
<1>6. /\ client' \in [Clients -> CallStates]
      /\ client'[p] = r /\ \A q \in Clients \ {p} : client'[q] = client[q]
  BY <1>1, <1>4, <1>5, ClientUpdate DEF Base
<1>7. /\ fate' \in [Items -> Fates]
      /\ \A x \in Items : fate'[x] = IF x \in InSeq(items) THEN "offered" ELSE fate[x]
  BY <1>1, MarkedFate DEF Fates
<1>8. Base' BY <1>2, <1>6, <1>7 DEF Base, fields, history
<1>9. Started'
  <2>1. r.at \in {"read", "start"} /\ (r.at = "read" => queue >= 1) BY <1>4 DEF Started
  <2>2. \A q \in Clients : /\ InStart(q)' => InStart(q)
                           /\ client'[q].at = "newpool" <=> client[q].at = "newpool"
    BY <1>2, <1>6, <2>1 DEF InStart
  <2>3. ASSUME NEW q \in Clients, client'[q].at \in {"submit", "ready", "read", "enqueue"}
        PROVE  queue >= 1
    <3>1. CASE q = p BY <1>6, <2>1, <2>3, <3>1
    <3>2. CASE q # p BY <1>6, <2>3, <3>2 DEF Started
    <3> QED BY <3>1, <3>2
  <2> QED BY <1>2, <2>2, <2>3 DEF Started, fields, history
<1>10. Calls'
  <2>1. r.at # "enqueue" BY <1>4
  <2> QED BY <1>2, <1>3, <1>5, <1>6, <2>1 DEF Calls, fields, Base
<1>11. Threads' /\ QueuesBounded' BY <1>2 DEF Threads, QueuesBounded, fields, history
<1>12. \A x \in Items : fate'[x] = fate[x] \/ (fate[x] = "new" /\ fate'[x] = "offered")
  BY <1>1, <1>7 DEF InSeq
<1>13. Offers'
  <2>1. ASSUME NEW q \in Clients \ {p}, NEW i \in DOMAIN client[q].items
        PROVE  fate[client[q].items[i]] = "offered" /\ client[q].items[i] \in Items
    BY DEF Offers, Base, CallStates
  <2>2. ASSUME NEW i \in DOMAIN items
        PROVE  items[i] \in Items /\ fate[items[i]] = "new" /\ fate'[items[i]] = "offered"
    BY <1>1, <1>7 DEF InSeq
  <2>3. ASSUME NEW q \in Clients, NEW i \in DOMAIN client'[q].items
        PROVE  fate'[client'[q].items[i]] = "offered"
    <3>1. CASE q = p BY <1>5, <1>6, <2>2, <2>3, <3>1
    <3>2. CASE q # p BY <1>6, <1>12, <2>1, <2>3, <3>2
    <3> QED BY <3>1, <3>2
  <2>4. ASSUME NEW q \in Clients, NEW s \in Clients,
               NEW i \in DOMAIN client'[q].items, NEW k \in DOMAIN client'[s].items,
               client'[q].items[i] = client'[s].items[k]
        PROVE  q = s /\ i = k
    <3>1. CASE q = p /\ s = p BY <1>1, <1>5, <1>6, <2>4, <3>1
    <3>2. CASE q # p /\ s # p BY <1>6, <2>4, <3>2 DEF Offers
    <3>3. CASE q = p /\ s # p
      <4>1. fate[client'[q].items[i]] = "new" BY <1>5, <1>6, <2>2, <2>4, <3>3
      <4>2. fate[client'[s].items[k]] = "offered" BY <1>6, <2>1, <2>4, <3>3
      <4> QED BY <2>4, <4>1, <4>2
    <3>4. CASE q # p /\ s = p
      <4>1. fate[client'[s].items[k]] = "new" BY <1>5, <1>6, <2>2, <2>4, <3>4
      <4>2. fate[client'[q].items[i]] = "offered" BY <1>6, <2>1, <2>4, <3>4
      <4> QED BY <2>4, <4>1, <4>2
    <3> QED BY <3>1, <3>2, <3>3, <3>4
  <2> QED BY <2>3, <2>4 DEF Offers
<1>14. Single' /\ Where' /\ Counted'
  <2>1. stops \in Nat BY DEF Base
  <2>2. UNCHANGED <<contents, attempts, thread, stops>> BY <1>2 DEF history
  <2> QED BY <1>8, <1>12, <2>1, <2>2, ItemsStay DEF Attempts
<1> QED BY <1>8, <1>9, <1>10, <1>11, <1>13, <1>14

\* A step that touches no item at all.
LEMMA NoItem ==
  ASSUME IInv, Base', UNCHANGED <<contents, fate, attempts>>, stops <= stops',
         \A p \in Clients : client'[p].items = client[p].items,
         \A w \in Workers :
           thread'[w].batch = thread[w].batch /\ Attempts(w)' = Attempts(w)
  PROVE  QueuesBounded' /\ Offers' /\ Single' /\ Where' /\ Counted'
<1> USE DEF IInv
<1>1. QueuesBounded' BY DEF QueuesBounded
<1>2. Offers' BY DEF Offers
<1>3. Single' /\ Where' /\ Counted' BY ItemsStay
<1> QED BY <1>1, <1>2, <1>3

\* A call that moves on: nothing changes but its state and the flags.
LEMMA CallMoves ==
  ASSUME IInv, NEW p \in Clients, NEW r \in CallStates,
         client' = [client EXCEPT ![p] = r], r.items = client[p].items,
         client[p].at # "idle", r.on <= queue', r.at = "enqueue" => r.on >= 1,
         queue <= queue', Base', Started',
         UNCHANGED <<contents, fate, attempts, stops, thread>>
  PROVE  IInv'
<1> USE DEF IInv
<1>1. client'[p] = r /\ \A q \in Clients \ {p} : client'[q] = client[q]
  BY ClientUpdate DEF Base
<1>2. Calls'
  <2>1. ASSUME NEW q \in Clients
        PROVE  /\ client'[q].at # "idle" => client'[q].items # << >>
               /\ client'[q].on <= queue'
               /\ client'[q].at = "enqueue" => client'[q].on >= 1
    <3>1. CASE q = p BY <1>1, <3>1 DEF Calls
    <3>2. CASE q # p
      <4>1. client[q].on \in Nat /\ queue \in Nat /\ queue' \in Nat BY DEF Base, CallStates
      <4>2. client'[q].on <= queue' BY <1>1, <3>2, <4>1 DEF Calls
      <4> QED BY <1>1, <3>2, <4>2 DEF Calls
    <3> QED BY <3>1, <3>2
  <2> QED BY <2>1 DEF Calls
<1>3. Threads'
  <2>1. queue \in Nat /\ queue' \in Nat /\ \A w \in Workers : thread[w].on \in Nat
    BY DEF Base, Thread
  <2> QED BY <2>1 DEF Threads
<1>4. \A q \in Clients : client'[q].items = client[q].items BY <1>1
<1>5. stops <= stops' BY DEF Base
<1> QED BY <1>2, <1>3, <1>4, <1>5, NoItem DEF Attempts

\* start is entered, and finds the worker active or not.
LEMMA StartInv == ASSUME IInv, NEW p \in Clients, Start(p) PROVE IInv'
<1> USE DEF IInv
<1>1. /\ client[p].at = "start" /\ \A q \in Clients : ~InStart(q)
      /\ UNCHANGED <<isReady, queue, threadPool, contents, shut, thread, stopper, fate, attempts, stops>>
  BY DEF Start, Starting, InStart
<1>2. CASE isActive /\ client' = [client EXCEPT ![p].at = "read"] /\ UNCHANGED <<isActive, clash>>
  <2>1. PICK r : r = [client[p] EXCEPT !.at = "read"] OBVIOUS
  <2>2. r \in CallStates /\ r.at = "read" /\ r.items = client[p].items /\ r.on = client[p].on
    BY <2>1 DEF Base, CallStates, CallSteps
  <2>3. client' = [client EXCEPT ![p] = r] BY <1>2, <2>1
  <2>4. /\ client' \in [Clients -> CallStates]
        /\ client'[p] = r /\ \A q \in Clients \ {p} : client'[q] = client[q]
    BY <2>2, <2>3, ClientUpdate DEF Base
  <2>5. Base' BY <1>1, <1>2, <2>4 DEF Base
  <2>6. queue >= 1 BY <1>1, <1>2 DEF Started, InStart
  <2>7. \A q \in Clients : /\ ~InStart(q)' /\ client'[q].at # "newpool"
    BY <1>1, <2>2, <2>4 DEF InStart
  <2>8. Started' BY <1>1, <1>2, <2>6, <2>7 DEF Started
  <2>9. r.on <= queue' /\ queue <= queue' BY <1>1, <2>2 DEF Calls, Base
  <2> QED BY <1>1, <2>2, <2>3, <2>5, <2>8, <2>9, CallMoves
<1>3. CASE /\ queue < MaxStarts /\ client' = [client EXCEPT ![p].at = "newpool"]
           /\ isActive' = TRUE /\ clash' = (clash \/ stopper # "idle")
  <2>1. PICK r : r = [client[p] EXCEPT !.at = "newpool"] OBVIOUS
  <2>2. r \in CallStates /\ r.at = "newpool" /\ r.items = client[p].items /\ r.on = client[p].on
    BY <2>1 DEF Base, CallStates, CallSteps
  <2>3. client' = [client EXCEPT ![p] = r] BY <1>3, <2>1
  <2>4. /\ client' \in [Clients -> CallStates]
        /\ client'[p] = r /\ \A q \in Clients \ {p} : client'[q] = client[q]
    BY <2>2, <2>3, ClientUpdate DEF Base
  <2>5. Base' BY <1>1, <1>3, <2>4 DEF Base
  <2>6. \A q \in Clients : InStart(q)' => q = p BY <1>1, <2>4 DEF InStart
  <2>7. \A q \in Clients : /\ client'[q].at = "newpool" => q = p
                           /\ client'[q].at \in {"submit", "ready", "read", "enqueue"} =>
                                client[q].at \in {"submit", "ready", "read", "enqueue"}
    BY <1>1, <2>2, <2>4 DEF InStart
  <2>8. Started' BY <1>1, <1>3, <2>2, <2>4, <2>6, <2>7 DEF Started
  <2>9. r.on <= queue' /\ queue <= queue' BY <1>1, <2>2 DEF Calls, Base
  <2> QED BY <1>1, <2>2, <2>3, <2>5, <2>8, <2>9, CallMoves
<1> QED BY <1>2, <1>3 DEF Start

\* start makes the next queue and the next pool.
LEMMA NewPoolInv == ASSUME IInv, NEW p \in Clients, NewPool(p) PROVE IInv'
<1> USE DEF IInv
<1>1. /\ client[p].at = "newpool" /\ queue' = queue + 1 /\ threadPool' = queue + 1
      /\ client' = [client EXCEPT ![p].at = "submit"]
      /\ UNCHANGED <<isActive, isReady, contents, shut, thread, stopper, fate, attempts, clash, stops>>
  BY DEF NewPool, history
<1>2. PICK r : r = [client[p] EXCEPT !.at = "submit"] OBVIOUS
<1>3. r \in CallStates /\ r.at = "submit" /\ r.items = client[p].items /\ r.on = client[p].on
  BY <1>2 DEF Base, CallStates, CallSteps
<1>4. client' = [client EXCEPT ![p] = r] BY <1>1, <1>2
<1>5. /\ client' \in [Clients -> CallStates]
      /\ client'[p] = r /\ \A q \in Clients \ {p} : client'[q] = client[q]
  BY <1>3, <1>4, ClientUpdate DEF Base
<1>6. queue \in Nat /\ queue < MaxStarts /\ MaxStarts \in Nat BY <1>1 DEF Base, Started
<1>7. Base'
  <2>1. queue' \in 0..MaxStarts /\ threadPool' = queue' BY <1>1, <1>6
  <2>2. shut' \subseteq 1..queue' BY <1>1, <1>6 DEF Base
  <2> QED BY <1>1, <1>5, <2>1, <2>2 DEF Base
<1>8. Started'
  <2>1. \A q \in Clients : client[q].at = "newpool" => q = p BY <1>1 DEF Started, InStart
  <2>2. \A q \in Clients : client'[q].at # "newpool" BY <1>3, <1>5, <2>1
  <2>3. \A q \in Clients : InStart(q)' <=> InStart(q) BY <1>1, <1>3, <1>5 DEF InStart
  <2>4. queue' >= 1 BY <1>1, <1>6
  <2>5. ~isActive => stops > 0 BY <1>1 DEF Started
  <2>6. \A q, s \in Clients : InStart(q)' /\ InStart(s)' => q = s BY <2>3 DEF Started
  <2>7. stopper # "idle" => stops > 0 BY DEF Started
  <2> QED BY <1>1, <2>2, <2>4, <2>5, <2>6, <2>7 DEF Started
<1>9. r.on <= queue' /\ queue <= queue'
  <2>1. client[p].on \in Nat /\ client[p].on <= queue BY DEF Base, CallStates, Calls
  <2> QED BY <1>1, <1>3, <1>6, <2>1
<1> QED BY <1>1, <1>3, <1>4, <1>7, <1>8, <1>9, CallMoves

\* start is through.
LEMMA ReadyInv == ASSUME IInv, NEW p \in Clients, Ready(p) PROVE IInv'
<1> USE DEF IInv
<1>1. /\ client[p].at = "ready" /\ isReady' = TRUE
      /\ client' = [client EXCEPT ![p].at = "read"]
      /\ UNCHANGED <<isActive, queue, threadPool, contents, shut, thread, stopper, fate,
                     attempts, clash, stops>>
  BY DEF Ready, history
<1>2. PICK r : r = [client[p] EXCEPT !.at = "read"] OBVIOUS
<1>3. r \in CallStates /\ r.at = "read" /\ r.items = client[p].items /\ r.on = client[p].on
  BY <1>2 DEF Base, CallStates, CallSteps
<1>4. client' = [client EXCEPT ![p] = r] BY <1>1, <1>2
<1>5. /\ client' \in [Clients -> CallStates]
      /\ client'[p] = r /\ \A q \in Clients \ {p} : client'[q] = client[q]
  BY <1>3, <1>4, ClientUpdate DEF Base
<1>6. queue >= 1 BY <1>1 DEF Started
<1>7. Base' BY <1>1, <1>5 DEF Base
<1>8. \A q \in Clients : /\ InStart(q)' => InStart(q)
                         /\ client'[q].at = "newpool" <=> client[q].at = "newpool"
  BY <1>1, <1>3, <1>5 DEF InStart
<1>9. Started' BY <1>1, <1>6, <1>8 DEF Started
<1>10. r.on <= queue' /\ queue <= queue' BY <1>1, <1>3 DEF Calls, Base
<1> QED BY <1>1, <1>3, <1>4, <1>7, <1>9, <1>10, CallMoves

\* A call settles on a queue, which is there by now.
LEMMA ReadQueueInv == ASSUME IInv, NEW p \in Clients, ReadQueue(p) PROVE IInv'
<1> USE DEF IInv
<1>1. /\ client[p].at = "read"
      /\ client' = [client EXCEPT ![p].at = "enqueue", ![p].on = queue]
      /\ UNCHANGED <<isActive, isReady, queue, threadPool, contents, shut, thread, stopper, fate,
                     attempts, clash, stops>>
  BY DEF ReadQueue, history, fields
<1>2. PICK r : r = [client[p] EXCEPT !.at = "enqueue", !.on = queue] OBVIOUS
<1>3. r \in CallStates /\ r.at = "enqueue" /\ r.items = client[p].items /\ r.on = queue
  <2>1. queue \in Nat /\ client[p] \in CallStates BY DEF Base
  <2> QED BY <1>2, <2>1 DEF CallStates, CallSteps
<1>4. client' = [client EXCEPT ![p] = r] BY <1>1, <1>2 DEF Base
<1>5. /\ client' \in [Clients -> CallStates]
      /\ client'[p] = r /\ \A q \in Clients \ {p} : client'[q] = client[q]
  BY <1>3, <1>4, ClientUpdate DEF Base
<1>6. queue >= 1 /\ queue \in Nat BY <1>1 DEF Started, Base
<1>7. Base' BY <1>1, <1>5 DEF Base
<1>8. \A q \in Clients : /\ InStart(q)' => InStart(q)
                         /\ client'[q].at = "newpool" <=> client[q].at = "newpool"
  BY <1>1, <1>3, <1>5 DEF InStart
<1>9. Started' BY <1>1, <1>6, <1>8 DEF Started
<1>10. r.on <= queue' /\ queue <= queue' /\ r.on >= 1 BY <1>1, <1>3, <1>6
<1> QED BY <1>1, <1>3, <1>4, <1>7, <1>9, <1>10, CallMoves

\* threadPool.submit starts one more thread, or is rejected.
LEMMA SubmitInv == ASSUME IInv, NEW p \in Clients, Submit(p) PROVE IInv'
<1> USE DEF IInv
<1>1. /\ client[p].at = "submit"
      /\ UNCHANGED <<isActive, isReady, queue, threadPool, contents, shut, stopper, attempts,
                     clash, stops>>
  BY DEF Submit, fields, history
<1>2. queue \in 1..MaxStarts /\ threadPool = queue BY <1>1 DEF Started, Base
<1>3. CASE /\ client' = [client EXCEPT ![p] = NoCall]
           /\ fate' = Marked(InSeq(client[p].items), "refused")
           /\ UNCHANGED thread
  <2>1. NoCall \in CallStates /\ NoCall.at = "idle" /\ NoCall.items = << >> /\ NoCall.on = 0
    BY DEF NoCall, CallStates, CallSteps
  <2>2. /\ client' \in [Clients -> CallStates]
        /\ client'[p] = NoCall /\ \A q \in Clients \ {p} : client'[q] = client[q]
    BY <1>3, <2>1, ClientUpdate DEF Base
  <2>3. /\ fate' \in [Items -> Fates]
        /\ \A x \in Items : fate'[x] = IF x \in InSeq(client[p].items) THEN "refused" ELSE fate[x]
    BY <1>3, MarkedFate DEF Fates
  <2>4. Base' BY <1>1, <1>3, <2>2, <2>3 DEF Base
  <2>5. \A q \in Clients : /\ InStart(q)' => InStart(q)
                           /\ client'[q].at # "idle" => client'[q] = client[q]
    BY <2>1, <2>2 DEF InStart
  <2>6. Started'
    <3>1. queue >= 1 BY <1>2
    <3>2. \A q \in Clients : client'[q].at = "newpool" => client[q].at = "newpool" BY <2>5
    <3> QED BY <1>1, <2>5, <3>1, <3>2 DEF Started
  <2>7. Calls' BY <1>1, <1>2, <2>1, <2>2 DEF Calls
  <2>8. Threads' /\ QueuesBounded' BY <1>1, <1>3 DEF Threads, QueuesBounded
  <2>9. \A x \in InSeq(client[p].items) : fate[x] = "offered" BY DEF InSeq, Offers
  <2>10. Offers' BY <2>1, <2>2, <2>3, <2>4, OffersKept
  <2>11. Single' /\ Where' /\ Counted'
    <3>1. stops \in Nat BY DEF Base
    <3> QED BY <1>1, <1>3, <2>3, <2>4, <2>9, <3>1, ItemsStay DEF Attempts
  <2> QED BY <2>4, <2>6, <2>7, <2>8, <2>10, <2>11
<1>4. ASSUME NEW i \in Unsubmitted,
             thread' = [thread EXCEPT ![<<threadPool, i>>].at = "loop"],
             client' = [client EXCEPT ![p].at = "ready"] \/ client' = client,
             UNCHANGED fate
      PROVE  IInv'
  <2>1. PICK w : w = <<threadPool, i>> OBVIOUS
  <2>2. w \in Workers /\ thread[w].at = "none"
    BY <1>2, <1>4, <2>1 DEF Unsubmitted, Workers, Generations
  <2>3. PICK t : t = [thread[w] EXCEPT !.at = "loop"] OBVIOUS
  <2>4. /\ t \in Thread /\ t.at = "loop" /\ t.batch = thread[w].batch /\ t.tries = thread[w].tries
        /\ t.on = thread[w].on /\ t.interrupted = thread[w].interrupted
    BY <2>2, <2>3 DEF Base, Thread, Steps
  <2>5. thread' = [thread EXCEPT ![w] = t] BY <1>4, <2>1, <2>3
  <2>6. /\ thread' \in [Workers -> Thread]
        /\ thread'[w] = t /\ \A v \in Workers \ {w} : thread'[v] = thread[v]
    BY <2>2, <2>4, <2>5, ThreadUpdate DEF Base
  <2>7. PICK r : r = [client[p] EXCEPT !.at = "ready"] OBVIOUS
  <2>8. r \in CallStates /\ r.at = "ready" /\ r.items = client[p].items /\ r.on = client[p].on
    BY <2>7 DEF Base, CallStates, CallSteps
  <2>9. /\ client' \in [Clients -> CallStates]
        /\ client'[p] \in {r, client[p]} /\ \A q \in Clients \ {p} : client'[q] = client[q]
    <3>1. CASE client' = client BY <3>1 DEF Base
    <3>2. CASE client' = [client EXCEPT ![p].at = "ready"]
      <4>1. client' = [client EXCEPT ![p] = r] BY <2>7, <3>2
      <4> QED BY <2>8, <4>1, ClientUpdate DEF Base
    <3> QED BY <1>4, <3>1, <3>2
  <2>10. Base' BY <1>1, <1>4, <2>6, <2>9 DEF Base
  <2>11. \A q \in Clients : /\ InStart(q)' <=> InStart(q)
                            /\ client'[q].at = "newpool" <=> client[q].at = "newpool"
                            /\ client'[q].items = client[q].items
    BY <1>1, <2>8, <2>9 DEF InStart
  <2>12. Started'
    <3>1. queue >= 1 BY <1>2
    <3> QED BY <1>1, <2>11, <3>1 DEF Started
  <2>13. Calls'
    <3>1. client'[p].on = client[p].on /\ client'[p].at \in {"submit", "ready"}
      BY <1>1, <2>8, <2>9
    <3> QED BY <1>1, <2>9, <2>11, <3>1 DEF Calls
  <2>14. Threads'
    <3>1. ASSUME NEW v \in Workers
          PROVE  /\ thread'[v].on <= queue
                 /\ thread'[v].at \in {"take", "poll"} => thread'[v].on >= 1
                 /\ thread'[v].at \notin {"none", "dead"} => queue >= 1
                 /\ thread'[v].at \in {"none", "loop", "take", "dead"} => thread'[v].batch = << >>
                 /\ thread'[v].at = "poll" => Len(thread'[v].batch) < BatchSize
                 /\ Len(thread'[v].batch) <= BatchSize
                 /\ thread'[v].tries <= MaxRetryTimes
                 /\ thread'[v].at \in {"none", "loop", "take", "poll", "dead"} => thread'[v].tries = 0
                 /\ thread'[v].interrupted => stops > 0
      <4>1. CASE v = w BY <1>2, <2>2, <2>4, <2>6, <4>1 DEF Threads
      <4>2. CASE v # w BY <2>6, <4>2 DEF Threads
      <4> QED BY <4>1, <4>2
    <3> QED BY <1>1, <3>1 DEF Threads
  <2>15. ASSUME NEW v \in Workers
         PROVE  thread'[v].batch = thread[v].batch /\ Attempts(v)' = Attempts(v)
    <3>1. CASE v = w BY <2>2, <2>4, <2>6, <3>1 DEF Attempts
    <3>2. CASE v # w BY <2>6, <3>2 DEF Attempts
    <3> QED BY <3>1, <3>2
  <2>16. stops <= stops' BY <1>1 DEF Base
  <2> QED BY <1>1, <1>4, <2>10, <2>11, <2>12, <2>13, <2>14, <2>15, <2>16, NoItem
<1>5. \/ /\ client' = [client EXCEPT ![p] = NoCall]
         /\ fate' = Marked(InSeq(client[p].items), "refused") /\ UNCHANGED thread
      \/ \E i \in Unsubmitted :
           /\ thread' = [thread EXCEPT ![<<threadPool, i>>].at = "loop"]
           /\ client' = [client EXCEPT ![p].at = "ready"] \/ client' = client
           /\ UNCHANGED fate
  BY Zenon DEF Submit
<1> QED BY <1>3, <1>4, <1>5

\* add throws on a full queue: the items that are left are refused.
LEMMA AddAllFailsInv == ASSUME IInv, NEW p \in Clients, AddAllFails(p) PROVE IInv'
<1> USE DEF IInv
<1>1. /\ client[p].at = "enqueue"
      /\ client' = [client EXCEPT ![p] = NoCall]
      /\ fate' = Marked(InSeq(client[p].items), "refused")
      /\ UNCHANGED <<isActive, isReady, queue, threadPool, contents, shut, thread, stopper,
                     attempts, clash, stops>>
  BY DEF AddAllFails, fields, history
<1>2. NoCall \in CallStates /\ NoCall.at = "idle" /\ NoCall.items = << >> /\ NoCall.on = 0
  BY DEF NoCall, CallStates, CallSteps
<1>3. /\ client' \in [Clients -> CallStates]
      /\ client'[p] = NoCall /\ \A q \in Clients \ {p} : client'[q] = client[q]
  BY <1>1, <1>2, ClientUpdate DEF Base
<1>4. /\ fate' \in [Items -> Fates]
      /\ \A x \in Items : fate'[x] = IF x \in InSeq(client[p].items) THEN "refused" ELSE fate[x]
  BY <1>1, MarkedFate DEF Fates
<1>5. Base' BY <1>1, <1>3, <1>4 DEF Base
<1>6. \A q \in Clients : /\ InStart(q)' => InStart(q)
                         /\ client'[q].at # "idle" => client'[q] = client[q]
                         /\ client'[q].at = "newpool" <=> client[q].at = "newpool"
  BY <1>1, <1>2, <1>3 DEF InStart
<1>7. Started' BY <1>1, <1>6 DEF Started
<1>8. Calls'
  <2>1. queue >= 0 BY DEF Base
  <2> QED BY <1>1, <1>2, <1>3, <2>1 DEF Calls
<1>9. Threads' /\ QueuesBounded' BY <1>1 DEF Threads, QueuesBounded
<1>10. \A x \in InSeq(client[p].items) : fate[x] = "offered" BY DEF InSeq, Offers
<1>11. Offers' BY <1>2, <1>3, <1>4, <1>5, OffersKept
<1>12. Single' /\ Where' /\ Counted'
  <2>1. stops \in Nat BY DEF Base
  <2> QED BY <1>1, <1>4, <1>5, <1>10, <2>1, ItemsStay DEF Attempts
<1> QED BY <1>5, <1>7, <1>8, <1>9, <1>11, <1>12

\* Append and Tail, element by element.
LEMMA AppendAt ==
  ASSUME NEW S, NEW s \in Seq(S), NEW e \in S
  PROVE  /\ Append(s, e) \in Seq(S) /\ Len(Append(s, e)) = Len(s) + 1
         /\ \A i \in DOMAIN Append(s, e) :
              \/ i \in DOMAIN s /\ Append(s, e)[i] = s[i]
              \/ i = Len(s) + 1 /\ i \notin DOMAIN s /\ Append(s, e)[i] = e
         /\ \A i \in DOMAIN s : i \in DOMAIN Append(s, e) /\ Append(s, e)[i] = s[i]
         /\ Len(s) + 1 \in DOMAIN Append(s, e) /\ Append(s, e)[Len(s) + 1] = e
  OBVIOUS

LEMMA TailAt ==
  ASSUME NEW S, NEW s \in Seq(S), s # << >>
  PROVE  /\ Tail(s) \in Seq(S) /\ Len(Tail(s)) = Len(s) - 1
         /\ 1 \in DOMAIN s /\ s[1] = Head(s) /\ Head(s) \in S
         /\ \A i \in DOMAIN Tail(s) :
              i \in Nat /\ i >= 1 /\ i + 1 \in DOMAIN s /\ Tail(s)[i] = s[i + 1]
         /\ \A i \in DOMAIN s : i # 1 => i - 1 \in DOMAIN Tail(s) /\ Tail(s)[i - 1] = s[i]
<1>1. PICK t, k : t = Tail(s) /\ k = Len(s) OBVIOUS
<1>2. /\ t \in Seq(S) /\ Len(t) = k - 1 /\ k \in Nat \ {0} /\ DOMAIN s = 1..k
      /\ DOMAIN t = 1..(k - 1) /\ s[1] = Head(s)
      /\ \A i \in 1..(k - 1) : t[i] = s[i + 1]
  BY <1>1
<1>3. \A i \in DOMAIN t : i \in Nat /\ i >= 1 /\ i + 1 \in DOMAIN s /\ t[i] = s[i + 1]
  BY <1>2
<1>4. ASSUME NEW i \in DOMAIN s, i # 1 PROVE i - 1 \in DOMAIN t /\ t[i - 1] = s[i]
  <2>1. i - 1 \in 1..(k - 1) /\ (i - 1) + 1 = i BY <1>2, <1>4
  <2>2. t[i - 1] = s[(i - 1) + 1] BY <1>2, <2>1
  <2> QED BY <1>2, <2>1, <2>2
<1>5. Head(s) \in S /\ 1 \in DOMAIN s BY <1>2
<1> QED BY <1>1, <1>2, <1>3, <1>4, <1>5

\* An offered item that joins a queue.
LEMMA ItemJoins ==
  ASSUME Base, Base', Single, Where, Counted, NEW g \in Generations, NEW x \in Items,
         fate[x] = "offered", contents' = [contents EXCEPT ![g] = Append(@, x)],
         fate' = Marked({x}, "accepted"), UNCHANGED <<thread, attempts, stops>>
  PROVE  Single' /\ Where' /\ Counted'
<1>1. PICK q, k : q = contents[g] /\ k = Len(q) + 1 OBVIOUS
<1>2. q \in Seq(Items) /\ contents'[g] = Append(q, x)
      /\ \A h \in Generations \ {g} : contents'[h] = contents[h]
  BY <1>1 DEF Base
<1>3. /\ k \in DOMAIN contents'[g] /\ contents'[g][k] = x
      /\ \A i \in DOMAIN contents'[g] :
           (i \in DOMAIN q /\ contents'[g][i] = q[i]) \/ (i = k /\ contents'[g][i] = x)
      /\ \A i \in DOMAIN q : i \in DOMAIN contents'[g] /\ contents'[g][i] = q[i]
  BY <1>1, <1>2, AppendAt
<1>4. ~Held(x) BY DEF Where
<1>5. \A y \in Items : fate'[y] = IF y = x THEN "accepted" ELSE fate[y]
  <2>1. "accepted" \in Fates BY DEF Fates
  <2>2. \A y \in Items : fate'[y] = IF y \in {x} THEN "accepted" ELSE fate[y]
    BY <2>1, MarkedFate
  <2> QED BY <2>2
<1>6. ASSUME NEW h \in Generations, NEW i \in DOMAIN contents'[h]
      PROVE  \/ h = g /\ i = k /\ contents'[h][i] = x
             \/ /\ i \in DOMAIN contents[h] /\ contents'[h][i] = contents[h][i]
                /\ contents'[h][i] # x
  <2>1. \A j \in DOMAIN contents[h] : contents[h][j] # x BY <1>4 DEF Held
  <2>2. CASE h = g BY <1>1, <1>3, <1>6, <2>1, <2>2
  <2>3. CASE h # g BY <1>2, <1>6, <2>1, <2>3
  <2> QED BY <2>2, <2>3
<1>7. \A w \in Workers : \A i \in DOMAIN thread[w].batch : thread[w].batch[i] # x
  BY <1>4 DEF Held
<1>8. Single'
  <2>1. ASSUME NEW h \in Generations, NEW j \in Generations,
               NEW i \in DOMAIN contents'[h], NEW m \in DOMAIN contents'[j],
               contents'[h][i] = contents'[j][m]
        PROVE  h = j /\ i = m
    <3>1. CASE contents'[h][i] = x BY <1>6, <2>1, <3>1
    <3>2. CASE contents'[h][i] # x BY <1>6, <2>1, <3>2 DEF Single
    <3> QED BY <3>1, <3>2
  <2>2. ASSUME NEW h \in Generations, NEW w \in Workers,
               NEW i \in DOMAIN contents'[h], NEW m \in DOMAIN thread[w].batch
        PROVE  contents'[h][i] # thread[w].batch[m]
    BY <1>6, <1>7 DEF Single
  <2> QED BY <2>1, <2>2 DEF Single
<1>9. Where'
  <2>1. ASSUME NEW y \in Items PROVE fate'[y] = "accepted" <=> Held(y)'
    <3>1. CASE y = x BY <1>3, <1>5, <3>1 DEF Held
    <3>2. CASE y # x
      <4>1. ASSUME Held(y)' PROVE Held(y) BY <1>6, <3>2, <4>1 DEF Held
      <4>2. ASSUME Held(y) PROVE Held(y)'
        <5>1. \A h \in Generations : \A i \in DOMAIN contents[h] :
                i \in DOMAIN contents'[h] /\ contents'[h][i] = contents[h][i]
          BY <1>1, <1>2, <1>3
        <5> QED BY <4>2, <5>1 DEF Held
      <4> QED BY <1>5, <3>2, <4>1, <4>2 DEF Where
    <3> QED BY <3>1, <3>2
  <2> QED BY <2>1 DEF Where
<1>10. Counted'
  <2>1. \A y \in Items :
          /\ fate'[y] \in {"new", "offered", "refused"} => attempts[y] = 0
          /\ fate'[y] = "failed" => attempts[y] = MaxRetryTimes + 1
          /\ fate'[y] = "processed" => attempts[y] \in 1..(MaxRetryTimes + 1)
          /\ fate'[y] = "stopped" => stops > 0
    BY <1>5 DEF Counted
  <2>2. attempts[x] = 0 BY DEF Counted
  <2>3. \A h \in Generations : \A i \in DOMAIN contents'[h] : attempts[contents'[h][i]] = 0
    BY <1>6, <2>2 DEF Counted
  <2>4. \A w \in Workers : \A i \in DOMAIN thread[w].batch : attempts[thread[w].batch[i]] = Attempts(w)
    BY DEF Counted
  <2>5. \A w \in Workers : Attempts(w)' = Attempts(w) BY DEF Attempts
  <2> QED BY <2>1, <2>3, <2>4, <2>5 DEF Counted
<1> QED BY <1>8, <1>9, <1>10

\* put, or one add of addAll.
LEMMA EnqueueInv == ASSUME IInv, NEW p \in Clients, Enqueue(p) PROVE IInv'
<1> USE DEF IInv
<1>1. PICK items, g, x : items = client[p].items /\ g = client[p].on /\ x = Head(items) OBVIOUS
<1>2. /\ client[p].at = "enqueue" /\ Len(contents[g]) < MaximumQueueSize
      /\ contents' = [contents EXCEPT ![g] = Append(@, x)]
      /\ fate' = Marked({x}, "accepted")
      /\ client' = [client EXCEPT ![p] = IF Len(items) = 1 THEN NoCall
                                         ELSE [@ EXCEPT !.items = Tail(items)]]
      /\ UNCHANGED <<isActive, isReady, queue, threadPool, shut, thread, stopper,
                     attempts, clash, stops>>
  BY <1>1 DEF Enqueue, Room, fields, history
<1>3. items \in Seq(Items) /\ items # << >> BY <1>1, <1>2 DEF Base, CallStates, Calls
<1>4. /\ Tail(items) \in Seq(Items) /\ Len(Tail(items)) = Len(items) - 1
      /\ 1 \in DOMAIN items /\ items[1] = x /\ x \in Items
      /\ \A i \in DOMAIN Tail(items) :
           i \in Nat /\ i >= 1 /\ i + 1 \in DOMAIN items /\ Tail(items)[i] = items[i + 1]
  BY <1>1, <1>3, TailAt
<1>5. g \in Generations
  <2>1. /\ g \in Nat /\ g >= 1 /\ g <= queue /\ queue \in Nat /\ queue <= MaxStarts /\ MaxStarts \in Nat
    BY <1>1, <1>2 DEF Calls, Base, CallStates
  <2> QED BY <2>1 DEF Generations
<1>6. fate[x] = "offered" BY <1>1, <1>4 DEF Offers
<1>7. PICK r : r = IF Len(items) = 1 THEN NoCall ELSE [client[p] EXCEPT !.items = Tail(items)]
  OBVIOUS
<1>8. /\ r \in CallStates /\ r.at \in {"idle", "enqueue"} /\ r.on \in {0, g}
      /\ r.at = "enqueue" => r.items # << >> /\ r.on = g
      /\ r.items \in {<< >>, Tail(items)}
  <2>1. CASE Len(items) = 1
    BY <1>7, <2>1 DEF NoCall, CallStates, CallSteps
  <2>2. CASE Len(items) # 1
    <3>1. client[p] \in CallStates BY DEF Base
    <3>2. Tail(items) # << >>
      <4>1. PICK t : t = Tail(items) OBVIOUS
      <4>2. Len(items) \in Nat /\ Len(t) = Len(items) - 1 BY <1>3, <1>4, <4>1
      <4>3. t = << >> => Len(t) = 0 OBVIOUS
      <4>4. t # << >> BY <2>2, <4>2, <4>3
      <4> QED BY <4>1, <4>4
    <3> QED BY <1>1, <1>2, <1>4, <1>7, <2>2, <3>1, <3>2 DEF CallStates
  <2> QED BY <2>1, <2>2
<1>9. /\ client' \in [Clients -> CallStates]
      /\ client'[p] = r /\ \A q \in Clients \ {p} : client'[q] = client[q]
  <2>1. client' = [client EXCEPT ![p] = r] BY <1>2, <1>7
  <2> QED BY <1>8, <2>1, ClientUpdate DEF Base
<1>10. /\ contents' \in [Generations -> Seq(Items)] /\ contents'[g] = Append(contents[g], x)
       /\ \A h \in Generations \ {g} : contents'[h] = contents[h]
  BY <1>2, <1>4, <1>5 DEF Base
<1>11. /\ fate' \in [Items -> Fates]
       /\ \A y \in Items : fate'[y] = IF y = x THEN "accepted" ELSE fate[y]
  <2>1. "accepted" \in Fates BY DEF Fates
  <2>2. /\ fate' \in [Items -> Fates]
        /\ \A y \in Items : fate'[y] = IF y \in {x} THEN "accepted" ELSE fate[y]
    BY <1>2, <2>1, MarkedFate
  <2> QED BY <2>2
<1>12. Base' BY <1>2, <1>9, <1>10, <1>11 DEF Base
<1>13. Started'
  <2>1. \A q \in Clients : /\ InStart(q)' => InStart(q)
                           /\ client'[q].at = "newpool" <=> client[q].at = "newpool"
                           /\ client'[q].at \in {"idle", client[q].at}
    BY <1>2, <1>8, <1>9 DEF InStart
  <2> QED BY <1>2, <2>1 DEF Started
<1>14. Calls'
  <2>1. g <= queue /\ g >= 1 /\ 0 <= queue BY <1>1, <1>2 DEF Calls, Base
  <2> QED BY <1>2, <1>8, <1>9, <2>1 DEF Calls
<1>15. Threads' BY <1>2 DEF Threads
<1>16. QueuesBounded'
  <2>1. Len(contents'[g]) = Len(contents[g]) + 1 BY <1>4, <1>5, <1>10, AppendAt DEF Base
  <2>2. Len(contents[g]) \in Nat /\ MaximumQueueSize \in Nat BY <1>5 DEF Base
  <2>3. Len(contents'[g]) <= MaximumQueueSize BY <1>2, <2>1, <2>2
  <2> QED BY <1>10, <2>3 DEF QueuesBounded
<1>17. Offers'
  <2>1. ASSUME NEW q \in Clients, NEW i \in DOMAIN client'[q].items
        PROVE  /\ q = p => /\ i \in Nat /\ i >= 1 /\ i + 1 \in DOMAIN items
                           /\ client'[q].items[i] = items[i + 1]
               /\ q # p => client'[q].items = client[q].items
    <3>1. CASE q = p
      <4>1. client'[q].items = Tail(items) BY <1>8, <1>9, <2>1, <3>1
      <4> QED BY <1>4, <2>1, <3>1, <4>1
    <3>2. CASE q # p BY <1>9, <3>2
    <3> QED BY <3>1, <3>2
  <2>2. ASSUME NEW q \in Clients, NEW i \in DOMAIN client'[q].items
        PROVE  fate'[client'[q].items[i]] = "offered"
    <3>1. PICK y : y = client'[q].items[i] OBVIOUS
    <3>2. CASE q = p
      <4>1. y = items[i + 1] /\ i + 1 \in DOMAIN items /\ i + 1 # 1 BY <2>1, <2>2, <3>1, <3>2
      <4>2. fate[y] = "offered" /\ y # x BY <1>1, <1>4, <4>1 DEF Offers
      <4>3. y \in Items BY <1>3, <4>1
      <4> QED BY <1>11, <3>1, <4>2, <4>3
    <3>3. CASE q # p
      <4>1. y = client[q].items[i] /\ i \in DOMAIN client[q].items BY <2>1, <2>2, <3>1, <3>3
      <4>2. fate[y] = "offered" /\ y # x BY <1>1, <1>4, <3>3, <4>1 DEF Offers
      <4>3. y \in Items BY <4>1 DEF Base, CallStates
      <4> QED BY <1>11, <3>1, <4>2, <4>3
    <3> QED BY <3>2, <3>3
  <2>3. ASSUME NEW q \in Clients, NEW s \in Clients,
               NEW i \in DOMAIN client'[q].items, NEW k \in DOMAIN client'[s].items,
               client'[q].items[i] = client'[s].items[k]
        PROVE  q = s /\ i = k
    <3>1. CASE q = p /\ s = p
      <4>1. i + 1 \in DOMAIN items /\ k + 1 \in DOMAIN items /\ items[i + 1] = items[k + 1]
            /\ i \in Nat /\ k \in Nat
        BY <2>1, <2>3, <3>1
      <4>2. i + 1 = k + 1 BY <1>1, <4>1 DEF Offers
      <4> QED BY <3>1, <4>1, <4>2
    <3>2. CASE q = p /\ s # p
      <4>1. i + 1 \in DOMAIN items /\ items[i + 1] = client[s].items[k] /\ k \in DOMAIN client[s].items
        BY <2>1, <2>3, <3>2
      <4> QED BY <1>1, <3>2, <4>1 DEF Offers
    <3>3. CASE q # p /\ s = p
      <4>1. k + 1 \in DOMAIN items /\ items[k + 1] = client[q].items[i] /\ i \in DOMAIN client[q].items
        BY <2>1, <2>3, <3>3
      <4> QED BY <1>1, <3>3, <4>1 DEF Offers
    <3>4. CASE q # p /\ s # p
      <4>1. client'[q].items = client[q].items /\ client'[s].items = client[s].items
        BY <2>1, <2>3, <3>4
      <4> QED BY <2>3, <4>1 DEF Offers
    <3> QED BY <3>1, <3>2, <3>3, <3>4
  <2> QED BY <2>2, <2>3 DEF Offers
<1>18. Single' /\ Where' /\ Counted'
  BY <1>2, <1>4, <1>5, <1>6, <1>12, ItemJoins
<1> QED BY <1>12, <1>13, <1>14, <1>15, <1>16, <1>17, <1>18

-----------------------------------------------------------------------------
(* The threads.                                                            *)

\* What Threads says of one thread.
ThreadFits(t) ==
  /\ t.on <= queue
  /\ t.at \in {"take", "poll"} => t.on >= 1
  /\ t.at \notin {"none", "dead"} => queue >= 1
  /\ t.at \in {"none", "loop", "take", "dead"} => t.batch = << >>
  /\ t.at = "poll" => Len(t.batch) < BatchSize
  /\ Len(t.batch) <= BatchSize
  /\ t.tries <= MaxRetryTimes
  /\ t.at \in {"none", "loop", "take", "poll", "dead"} => t.tries = 0
  /\ t.interrupted => stops > 0

\* A step of one thread leaves the calls and the other threads alone.
LEMMA OneThread ==
  ASSUME IInv, NEW w \in Workers, NEW t \in Thread,
         thread' = [thread EXCEPT ![w] = t], ThreadFits(t), OthersUnchanged
  PROVE  /\ thread' \in [Workers -> Thread]
         /\ thread'[w] = t /\ \A v \in Workers \ {w} : thread'[v] = thread[v]
         /\ Started' /\ Calls' /\ Threads'
         /\ UNCHANGED <<isActive, isReady, queue, threadPool, shut, client, stopper, clash, stops>>
<1> USE DEF IInv
<1>1. UNCHANGED <<isActive, isReady, queue, threadPool, shut, client, stopper, clash, stops>>
  BY DEF OthersUnchanged, fields
<1>2. /\ thread' \in [Workers -> Thread]
      /\ thread'[w] = t /\ \A v \in Workers \ {w} : thread'[v] = thread[v]
  BY ThreadUpdate DEF Base
<1>3. Started' BY <1>1 DEF Started, InStart
<1>4. Calls' BY <1>1 DEF Calls
<1>5. Threads'
  <2>1. ASSUME NEW v \in Workers PROVE ThreadFits(thread'[v])
    <3>1. CASE v = w BY <1>2, <3>1
    <3>2. CASE v # w BY <1>2, <3>2 DEF Threads, ThreadFits
    <3> QED BY <3>1, <3>2
  <2> QED BY <1>1, <2>1 DEF Threads, ThreadFits
<1> QED BY <1>1, <1>2, <1>3, <1>4, <1>5

\* A thread that keeps its batch.
LEMMA ThreadMoves ==
  ASSUME IInv, NEW w \in Workers, NEW t \in Thread,
         thread' = [thread EXCEPT ![w] = t], ThreadFits(t), OthersUnchanged,
         UNCHANGED <<contents, fate, attempts>>,
         t.batch = thread[w].batch,
         (IF t.at = "doprocess" THEN t.tries + 1 ELSE t.tries) = Attempts(w)
  PROVE  IInv'
<1> USE DEF IInv
<1>1. /\ thread' \in [Workers -> Thread]
      /\ thread'[w] = t /\ \A v \in Workers \ {w} : thread'[v] = thread[v]
      /\ Started' /\ Calls' /\ Threads'
      /\ UNCHANGED <<isActive, isReady, queue, threadPool, shut, client, stopper, clash, stops>>
  BY OneThread
<1>2. Base' BY <1>1 DEF Base
<1>3. stops <= stops' BY <1>1 DEF Base
<1>4. ASSUME NEW v \in Workers
      PROVE  thread'[v].batch = thread[v].batch /\ Attempts(v)' = Attempts(v)
  <2>1. CASE v = w BY <1>1, <2>1 DEF Attempts
  <2>2. CASE v # w BY <1>1, <2>2 DEF Attempts
  <2> QED BY <2>1, <2>2
<1> QED BY <1>1, <1>2, <1>3, <1>4, NoItem

\* A thread whose batch ends.
LEMMA BatchEnds ==
  ASSUME IInv, NEW w \in Workers, NEW t \in Thread, NEW what \in {"stopped", "processed", "failed"},
         thread' = [thread EXCEPT ![w] = t], ThreadFits(t), OthersUnchanged,
         UNCHANGED <<contents, attempts>>, t.batch = << >>,
         fate' = Marked(InSeq(thread[w].batch), what),
         what = "stopped" => stops > 0,
         what # "stopped" => thread[w].at = "doprocess",
         what = "failed" => thread[w].tries = MaxRetryTimes
  PROVE  IInv'
<1> USE DEF IInv
<1>1. /\ thread' \in [Workers -> Thread]
      /\ thread'[w] = t /\ \A v \in Workers \ {w} : thread'[v] = thread[v]
      /\ Started' /\ Calls' /\ Threads'
      /\ UNCHANGED <<isActive, isReady, queue, threadPool, shut, client, stopper, clash, stops>>
  BY OneThread
<1>2. /\ fate' \in [Items -> Fates]
      /\ \A x \in Items : fate'[x] = IF x \in InSeq(thread[w].batch) THEN what ELSE fate[x]
  BY MarkedFate DEF Fates
<1>3. Base' BY <1>1, <1>2 DEF Base
<1>4. QueuesBounded' BY DEF QueuesBounded
<1>5. ASSUME NEW i \in DOMAIN thread[w].batch
      PROVE  /\ thread[w].batch[i] \in Items /\ fate[thread[w].batch[i]] = "accepted"
             /\ attempts[thread[w].batch[i]] = Attempts(w)
  BY DEF Base, Thread, Where, Held, Counted
<1>6. \A x \in InSeq(thread[w].batch) : fate[x] = "accepted" /\ attempts[x] = Attempts(w)
  BY <1>5 DEF InSeq
<1>7. Offers'
  <2>1. \A x \in Items : fate[x] = "offered" => fate'[x] = "offered" BY <1>2, <1>6
  <2>2. \A p \in Clients : \A i \in DOMAIN client[p].items : client[p].items[i] \in Items
    BY DEF Base, CallStates
  <2> QED BY <1>1, <2>1, <2>2 DEF Offers
<1>8. ASSUME NEW v \in Workers, NEW i \in DOMAIN thread'[v].batch
      PROVE  v # w /\ thread'[v] = thread[v]
  <2>1. v # w BY <1>1, <1>8
  <2> QED BY <1>1, <2>1
<1>9. Single' BY <1>8 DEF Single
<1>10. Where'
  <2>1. ASSUME NEW x \in Items PROVE fate'[x] = "accepted" <=> Held(x)'
    <3>1. CASE x \in InSeq(thread[w].batch)
      <4>1. PICK k \in DOMAIN thread[w].batch : x = thread[w].batch[k] BY <3>1 DEF InSeq
      <4>2. ASSUME NEW g \in Generations, NEW i \in DOMAIN contents[g], contents[g][i] = x PROVE FALSE
        BY <4>1, <4>2 DEF Single
      <4>3. ASSUME NEW v \in Workers, NEW i \in DOMAIN thread'[v].batch, thread'[v].batch[i] = x
            PROVE  FALSE
        <5>1. v # w /\ i \in DOMAIN thread[v].batch /\ thread[v].batch[i] = x BY <1>8, <4>3
        <5> QED BY <4>1, <5>1 DEF Single
      <4> QED BY <1>2, <3>1, <4>2, <4>3 DEF Held
    <3>2. CASE x \notin InSeq(thread[w].batch)
      <4>1. ASSUME Held(x)' PROVE Held(x) BY <1>8, <4>1 DEF Held
      <4>2. ASSUME Held(x) PROVE Held(x)'
        <5>1. CASE \E g \in Generations : \E i \in DOMAIN contents[g] : contents[g][i] = x
          BY <5>1 DEF Held
        <5>2. CASE \E v \in Workers : \E i \in DOMAIN thread[v].batch : thread[v].batch[i] = x
          <6>1. PICK v \in Workers : \E i \in DOMAIN thread[v].batch : thread[v].batch[i] = x
            BY <5>2
          <6>2. v # w BY <3>2, <6>1 DEF InSeq
          <6> QED BY <1>1, <6>1, <6>2 DEF Held
        <5> QED BY <4>2, <5>1, <5>2 DEF Held
      <4> QED BY <1>2, <3>2, <4>1, <4>2 DEF Where
    <3> QED BY <3>1, <3>2
  <2> QED BY <2>1 DEF Where
<1>11. Counted'
  <2>1. thread[w] \in Thread /\ thread[w].tries <= MaxRetryTimes BY DEF Base, Threads
  <2>2. ASSUME NEW x \in Items
        PROVE  /\ fate'[x] \in {"new", "offered", "refused"} => attempts[x] = 0
               /\ fate'[x] = "failed" => attempts[x] = MaxRetryTimes + 1
               /\ fate'[x] = "processed" => attempts[x] \in 1..(MaxRetryTimes + 1)
               /\ fate'[x] = "stopped" => stops > 0
    <3>1. CASE x \in InSeq(thread[w].batch)
      <4>1. fate'[x] = what /\ attempts[x] = Attempts(w) BY <1>2, <1>6, <3>1
      <4>2. what # "stopped" => Attempts(w) = thread[w].tries + 1 BY DEF Attempts
      <4>3. thread[w].tries \in Nat /\ MaxRetryTimes \in Nat BY <2>1 DEF Thread
      <4> QED BY <2>1, <4>1, <4>2, <4>3
    <3>2. CASE x \notin InSeq(thread[w].batch)
      BY <1>2, <3>2 DEF Counted
    <3> QED BY <3>1, <3>2
  <2>3. \A g \in Generations : \A i \in DOMAIN contents[g] : attempts[contents[g][i]] = 0
    BY DEF Counted
  <2>4. \A v \in Workers : \A i \in DOMAIN thread'[v].batch :
          attempts[thread'[v].batch[i]] = Attempts(v)'
    BY <1>8 DEF Counted, Attempts
  <2> QED BY <1>1, <2>2, <2>3, <2>4 DEF Counted
<1> QED BY <1>1, <1>3, <1>4, <1>7, <1>9, <1>10, <1>11

\* An item goes from the head of a queue to the end of a batch.
LEMMA ItemTaken ==
  ASSUME Base, Base', Single, Where, Counted, NEW g \in Generations, NEW w \in Workers,
         contents[g] # << >>, thread[w].tries = 0, thread[w].at # "doprocess",
         contents' = [contents EXCEPT ![g] = Tail(@)],
         thread'[w].batch = Append(thread[w].batch, Head(contents[g])),
         thread'[w].tries = 0, thread'[w].at # "doprocess",
         \A v \in Workers \ {w} : thread'[v] = thread[v],
         UNCHANGED <<fate, attempts, stops>>
  PROVE  Single' /\ Where' /\ Counted'
<1>1. PICK q, b, k, x : q = contents[g] /\ b = thread[w].batch /\ k = Len(b) + 1 /\ x = Head(q)
  OBVIOUS
<1>2. /\ q \in Seq(Items) /\ q # << >> /\ b \in Seq(Items) /\ contents'[g] = Tail(q)
      /\ \A h \in Generations \ {g} : contents'[h] = contents[h]
  BY <1>1 DEF Base, Thread
<1>3. /\ 1 \in DOMAIN q /\ q[1] = x /\ x \in Items
      /\ \A i \in DOMAIN contents'[g] :
           i \in Nat /\ i >= 1 /\ i + 1 \in DOMAIN q /\ contents'[g][i] = q[i + 1]
      /\ \A i \in DOMAIN q : i # 1 => i - 1 \in DOMAIN contents'[g] /\ contents'[g][i - 1] = q[i]
  <2>1. /\ 1 \in DOMAIN q /\ q[1] = Head(q) /\ Head(q) \in Items
        /\ \A i \in DOMAIN Tail(q) :
             i \in Nat /\ i >= 1 /\ i + 1 \in DOMAIN q /\ Tail(q)[i] = q[i + 1]
        /\ \A i \in DOMAIN q : i # 1 => i - 1 \in DOMAIN Tail(q) /\ Tail(q)[i - 1] = q[i]
    BY <1>2, TailAt
  <2>2. contents'[g] = Tail(q) /\ x = Head(q) BY <1>1, <1>2
  <2> QED BY <2>1, <2>2
<1>4. /\ k \in DOMAIN thread'[w].batch /\ thread'[w].batch[k] = x
      /\ \A i \in DOMAIN thread'[w].batch :
           (i \in DOMAIN b /\ thread'[w].batch[i] = b[i]) \/ (i = k /\ thread'[w].batch[i] = x)
      /\ \A i \in DOMAIN b : i \in DOMAIN thread'[w].batch /\ thread'[w].batch[i] = b[i]
  <2>1. thread'[w].batch = Append(b, x) BY <1>1
  <2>2. /\ \A i \in DOMAIN Append(b, x) :
             \/ i \in DOMAIN b /\ Append(b, x)[i] = b[i]
             \/ i = Len(b) + 1 /\ i \notin DOMAIN b /\ Append(b, x)[i] = x
        /\ \A i \in DOMAIN b : i \in DOMAIN Append(b, x) /\ Append(b, x)[i] = b[i]
        /\ Len(b) + 1 \in DOMAIN Append(b, x) /\ Append(b, x)[Len(b) + 1] = x
    BY <1>2, <1>3, AppendAt
  <2> QED BY <1>1, <2>1, <2>2
<1>5. \A h \in Generations : \A i \in DOMAIN contents[h] : contents[h][i] = x => h = g /\ i = 1
  BY <1>1, <1>3 DEF Single
<1>6. \A v \in Workers : \A i \in DOMAIN thread[v].batch : thread[v].batch[i] # x
  BY <1>1, <1>3 DEF Single
<1>7. ASSUME NEW h \in Generations, NEW i \in DOMAIN contents'[h]
      PROVE  /\ contents'[h][i] # x
             /\ h = g => /\ i \in Nat /\ i + 1 \in DOMAIN contents[g]
                         /\ contents'[h][i] = contents[g][i + 1]
             /\ h # g => i \in DOMAIN contents[h] /\ contents'[h][i] = contents[h][i]
  <2>1. CASE h = g
    <3>1. /\ i \in Nat /\ i + 1 \in DOMAIN contents[g] /\ i + 1 # 1
          /\ contents'[h][i] = contents[g][i + 1]
      BY <1>1, <1>3, <1>7, <2>1
    <3> QED BY <1>5, <2>1, <3>1
  <2>2. CASE h # g BY <1>2, <1>5, <1>7, <2>2
  <2> QED BY <2>1, <2>2
<1>8. ASSUME NEW v \in Workers, NEW i \in DOMAIN thread'[v].batch
      PROVE  \/ v = w /\ i = k /\ thread'[v].batch[i] = x
             \/ /\ i \in DOMAIN thread[v].batch /\ thread'[v].batch[i] = thread[v].batch[i]
                /\ thread'[v].batch[i] # x
  <2>1. CASE v = w BY <1>1, <1>4, <1>6, <1>8, <2>1
  <2>2. CASE v # w BY <1>6, <1>8, <2>2
  <2> QED BY <2>1, <2>2
<1>9. Single'
  <2>1. ASSUME NEW h \in Generations, NEW j \in Generations,
               NEW i \in DOMAIN contents'[h], NEW m \in DOMAIN contents'[j],
               contents'[h][i] = contents'[j][m]
        PROVE  h = j /\ i = m
    <3>1. CASE h = g /\ j = g
      <4>1. /\ i \in Nat /\ i + 1 \in DOMAIN contents[g] /\ contents'[h][i] = contents[g][i + 1]
            /\ m \in Nat /\ m + 1 \in DOMAIN contents[g] /\ contents'[j][m] = contents[g][m + 1]
        BY <1>7, <2>1, <3>1
      <4>2. i + 1 = m + 1 BY <2>1, <4>1 DEF Single
      <4> QED BY <3>1, <4>1, <4>2
    <3>2. CASE h = g /\ j # g
      <4>1. i + 1 \in DOMAIN contents[g] /\ contents'[h][i] = contents[g][i + 1]
        BY <1>7, <2>1, <3>2
      <4>2. m \in DOMAIN contents[j] /\ contents'[j][m] = contents[j][m] BY <1>7, <2>1, <3>2
      <4> QED BY <2>1, <3>2, <4>1, <4>2 DEF Single
    <3>3. CASE h # g /\ j = g
      <4>1. m + 1 \in DOMAIN contents[g] /\ contents'[j][m] = contents[g][m + 1]
        BY <1>7, <2>1, <3>3
      <4>2. i \in DOMAIN contents[h] /\ contents'[h][i] = contents[h][i] BY <1>7, <2>1, <3>3
      <4> QED BY <2>1, <3>3, <4>1, <4>2 DEF Single
    <3>4. CASE h # g /\ j # g
      <4>1. /\ i \in DOMAIN contents[h] /\ contents'[h][i] = contents[h][i]
            /\ m \in DOMAIN contents[j] /\ contents'[j][m] = contents[j][m]
        BY <1>7, <2>1, <3>4
      <4> QED BY <2>1, <4>1 DEF Single
    <3> QED BY <3>1, <3>2, <3>3, <3>4
  <2>2. ASSUME NEW v \in Workers, NEW u \in Workers,
               NEW i \in DOMAIN thread'[v].batch, NEW m \in DOMAIN thread'[u].batch,
               thread'[v].batch[i] = thread'[u].batch[m]
        PROVE  v = u /\ i = m
    <3>1. CASE thread'[v].batch[i] = x
      <4>1. v = w /\ i = k BY <1>8, <2>2, <3>1
      <4>2. u = w /\ m = k BY <1>8, <2>2, <3>1
      <4> QED BY <4>1, <4>2
    <3>2. CASE thread'[v].batch[i] # x
      <4>1. i \in DOMAIN thread[v].batch /\ thread'[v].batch[i] = thread[v].batch[i]
        BY <1>8, <2>2, <3>2
      <4>2. m \in DOMAIN thread[u].batch /\ thread'[u].batch[m] = thread[u].batch[m]
        BY <1>8, <2>2, <3>2
      <4>3. thread[v].batch[i] = thread[u].batch[m] BY <2>2, <4>1, <4>2
      <4> QED BY <4>1, <4>2, <4>3 DEF Single
    <3> QED BY <3>1, <3>2
  <2>3. ASSUME NEW h \in Generations, NEW v \in Workers,
               NEW i \in DOMAIN contents'[h], NEW m \in DOMAIN thread'[v].batch
        PROVE  contents'[h][i] # thread'[v].batch[m]
    <3>1. PICK n \in DOMAIN contents[h] : contents'[h][i] = contents[h][n] BY <1>7, <2>3
    <3>2. CASE thread'[v].batch[m] = x BY <1>7, <2>3, <3>2
    <3>3. CASE thread'[v].batch[m] # x
      <4>1. m \in DOMAIN thread[v].batch /\ thread'[v].batch[m] = thread[v].batch[m]
        BY <1>8, <2>3, <3>3
      <4> QED BY <3>1, <4>1 DEF Single
    <3> QED BY <3>2, <3>3
  <2> QED BY <2>1, <2>2, <2>3 DEF Single
<1>10. Where'
  <2>1. ASSUME NEW y \in Items, Held(y)' PROVE Held(y)
    <3>1. CASE \E h \in Generations : \E i \in DOMAIN contents'[h] : contents'[h][i] = y
      <4>1. PICK h \in Generations : \E i \in DOMAIN contents'[h] : contents'[h][i] = y BY <3>1
      <4>2. PICK i \in DOMAIN contents'[h] : contents'[h][i] = y BY <4>1
      <4>3. \E n \in DOMAIN contents[h] : contents'[h][i] = contents[h][n] BY <1>7, <4>2
      <4> QED BY <4>2, <4>3 DEF Held
    <3>2. CASE \E v \in Workers : \E i \in DOMAIN thread'[v].batch : thread'[v].batch[i] = y
      <4>1. PICK v \in Workers : \E i \in DOMAIN thread'[v].batch : thread'[v].batch[i] = y BY <3>2
      <4>2. PICK i \in DOMAIN thread'[v].batch : thread'[v].batch[i] = y BY <4>1
      <4>3. CASE y = x BY <1>1, <1>3, <4>3 DEF Held
      <4>4. CASE y # x BY <1>8, <4>2, <4>4 DEF Held
      <4> QED BY <4>3, <4>4
    <3> QED BY <2>1, <3>1, <3>2 DEF Held
  <2>2. ASSUME NEW y \in Items, Held(y) PROVE Held(y)'
    <3>1. CASE y = x BY <1>4, <3>1 DEF Held
    <3>2. CASE y # x /\ \E h \in Generations : \E i \in DOMAIN contents[h] : contents[h][i] = y
      <4>1. PICK h \in Generations : \E i \in DOMAIN contents[h] : contents[h][i] = y BY <3>2
      <4>2. PICK i \in DOMAIN contents[h] : contents[h][i] = y BY <4>1
      <4>3. CASE h = g
        <5>1. i # 1 BY <1>1, <1>3, <3>2, <4>2, <4>3
        <5>2. i - 1 \in DOMAIN contents'[g] /\ contents'[g][i - 1] = y
          BY <1>1, <1>3, <4>2, <4>3, <5>1
        <5> QED BY <5>2 DEF Held
      <4>4. CASE h # g BY <1>2, <4>2, <4>4 DEF Held
      <4> QED BY <4>3, <4>4
    <3>3. CASE y # x /\ \E v \in Workers : \E i \in DOMAIN thread[v].batch : thread[v].batch[i] = y
      <4>1. \A v \in Workers : \A i \in DOMAIN thread[v].batch :
              i \in DOMAIN thread'[v].batch /\ thread'[v].batch[i] = thread[v].batch[i]
        BY <1>1, <1>4
      <4> QED BY <3>3, <4>1 DEF Held
    <3> QED BY <2>2, <3>1, <3>2, <3>3 DEF Held
  <2> QED BY <2>1, <2>2 DEF Where
<1>11. Counted'
  <2>1. attempts[x] = 0 BY <1>1, <1>3 DEF Counted
  <2>2. ASSUME NEW h \in Generations, NEW i \in DOMAIN contents'[h]
        PROVE  attempts[contents'[h][i]] = 0
    <3>1. \E n \in DOMAIN contents[h] : contents'[h][i] = contents[h][n] BY <1>7, <2>2
    <3> QED BY <3>1 DEF Counted
  <2>3. ASSUME NEW v \in Workers, NEW i \in DOMAIN thread'[v].batch
        PROVE  attempts[thread'[v].batch[i]] = Attempts(v)'
    <3>1. Attempts(v)' = Attempts(v)
      <4>1. CASE v = w BY <4>1 DEF Attempts
      <4>2. CASE v # w BY <4>2 DEF Attempts
      <4> QED BY <4>1, <4>2
    <3>2. CASE thread'[v].batch[i] = x
      <4>1. v = w BY <1>8, <2>3, <3>2
      <4> QED BY <2>1, <3>2, <4>1 DEF Attempts
    <3>3. CASE thread'[v].batch[i] # x
      <4>1. i \in DOMAIN thread[v].batch /\ thread'[v].batch[i] = thread[v].batch[i]
        BY <1>8, <2>3, <3>3
      <4> QED BY <3>1, <4>1 DEF Counted
    <3> QED BY <3>2, <3>3
  <2>4. \A y \in Items :
          /\ fate[y] \in {"new", "offered", "refused"} => attempts[y] = 0
          /\ fate[y] = "failed" => attempts[y] = MaxRetryTimes + 1
          /\ fate[y] = "processed" => attempts[y] \in 1..(MaxRetryTimes + 1)
          /\ fate[y] = "stopped" => stops > 0
    BY DEF Counted
  <2> QED BY <2>2, <2>3, <2>4 DEF Counted
<1> QED BY <1>9, <1>10, <1>11

\* take() or poll() has an item.
LEMMA TakeInv == ASSUME IInv, NEW w \in Workers, Take(w) PROVE IInv'
<1> USE DEF IInv
<1>1. PICK g, b : g = thread[w].on /\ b = Append(thread[w].batch, Head(contents[g])) OBVIOUS
<1>2. /\ thread[w].at \in {"take", "poll"} /\ contents[g] # << >>
      /\ thread' = [thread EXCEPT ![w].batch = b,
                                  ![w].at = IF Full(b) THEN "attempt" ELSE "poll",
                                  ![w].on = queue]
      /\ contents' = [contents EXCEPT ![g] = Tail(@)]
      /\ UNCHANGED <<fate, attempts>> /\ OthersUnchanged
  BY <1>1 DEF Take
<1>3. queue \in Nat /\ queue <= MaxStarts /\ MaxStarts \in Nat /\ thread[w] \in Thread
  BY DEF Base
<1>4. g \in Generations
  <2>1. g \in Nat /\ g >= 1 /\ g <= queue BY <1>1, <1>2, <1>3 DEF Threads, Thread
  <2> QED BY <1>3, <2>1 DEF Generations
<1>5. /\ Head(contents[g]) \in Items /\ Tail(contents[g]) \in Seq(Items)
      /\ Len(Tail(contents[g])) = Len(contents[g]) - 1 /\ Len(contents[g]) \in Nat
  BY <1>2, <1>4, TailAt DEF Base
<1>6. b \in Seq(Items) /\ Len(b) = Len(thread[w].batch) + 1
  BY <1>1, <1>3, <1>5, AppendAt DEF Thread
<1>7. Len(thread[w].batch) < BatchSize
  <2>1. CASE thread[w].at = "poll" BY <2>1 DEF Threads
  <2>2. CASE thread[w].at = "take"
    <3>1. thread[w].batch = << >> BY <2>2 DEF Threads
    <3> QED BY <3>1
  <2> QED BY <1>2, <2>1, <2>2
<1>8. PICK t : t = [thread[w] EXCEPT !.batch = b, !.at = IF Full(b) THEN "attempt" ELSE "poll",
                                     !.on = queue]
  OBVIOUS
<1>9. /\ t \in Thread /\ t.batch = b /\ t.at = (IF Full(b) THEN "attempt" ELSE "poll")
      /\ t.on = queue /\ t.tries = thread[w].tries /\ t.interrupted = thread[w].interrupted
  BY <1>3, <1>6, <1>8 DEF Thread, Steps
<1>10. thread' = [thread EXCEPT ![w] = t] BY <1>2, <1>8
<1>11. thread[w].tries = 0 /\ queue >= 1 /\ (thread[w].interrupted => stops > 0)
  BY <1>2 DEF Threads
<1>12. ThreadFits(t)
  <2>1. Len(b) \in Nat /\ BatchSize \in Nat /\ Len(thread[w].batch) \in Nat /\ MaxRetryTimes \in Nat
    BY <1>3, <1>6 DEF Thread
  <2>2. Len(b) <= BatchSize BY <1>6, <1>7, <2>1
  <2>3. t.at = "poll" => Len(b) < BatchSize BY <1>9, <2>1 DEF Full
  <2>4. t.at \in {"attempt", "poll"} BY <1>9
  <2> QED BY <1>3, <1>9, <1>11, <2>1, <2>2, <2>3, <2>4 DEF ThreadFits
<1>13. /\ thread' \in [Workers -> Thread]
       /\ thread'[w] = t /\ \A v \in Workers \ {w} : thread'[v] = thread[v]
       /\ Started' /\ Calls' /\ Threads'
       /\ UNCHANGED <<isActive, isReady, queue, threadPool, shut, client, stopper, clash, stops>>
  BY <1>2, <1>9, <1>10, <1>12, OneThread
<1>14. Base'
  <2>1. contents' \in [Generations -> Seq(Items)] BY <1>2, <1>4, <1>5 DEF Base
  <2> QED BY <1>2, <1>13, <2>1 DEF Base
<1>15. QueuesBounded'
  <2>1. contents'[g] = Tail(contents[g]) /\ \A h \in Generations \ {g} : contents'[h] = contents[h]
    BY <1>2, <1>4 DEF Base
  <2>2. Len(contents[g]) <= MaximumQueueSize /\ MaximumQueueSize \in Nat BY <1>4 DEF QueuesBounded
  <2>3. Len(contents'[g]) <= MaximumQueueSize BY <1>5, <2>1, <2>2
  <2> QED BY <2>1, <2>3 DEF QueuesBounded
<1>16. Offers' BY <1>2, <1>13 DEF Offers
<1>17. Single' /\ Where' /\ Counted'
  <2>1. thread'[w].tries = 0 /\ thread'[w].at # "doprocess" /\ thread'[w].batch = b
    BY <1>9, <1>11, <1>13
  <2>2. thread[w].at # "doprocess" BY <1>2
  <2> QED BY <1>1, <1>2, <1>4, <1>11, <1>13, <1>14, <2>1, <2>2, ItemTaken
<1> QED BY <1>13, <1>14, <1>15, <1>16, <1>17

\* A thread without a batch.
LEMMA FreshThread ==
  /\ NoThread \in Thread /\ NoThread.batch = << >> /\ NoThread.tries = 0
  /\ NoThread.interrupted = FALSE /\ NoThread.on = 0 /\ NoThread.at = "none"
<1>1. << >> \in Seq(Items) OBVIOUS
<1> QED BY <1>1 DEF Thread, Steps, NoThread

\* A thread takes from the queue that is in the field, or ends.
LEMMA LoopInv == ASSUME IInv, NEW w \in Workers, Loop(w) PROVE IInv'
<1> USE DEF IInv
<1>1. /\ thread[w].at = "loop" /\ UNCHANGED <<contents, fate, attempts>> /\ OthersUnchanged
      /\ thread' = [Set(w, "take") EXCEPT ![w].on = queue] \/ thread' = Dead(w)
  BY DEF Loop
<1>2. queue \in Nat /\ queue <= MaxStarts /\ thread[w] \in Thread BY DEF Base
<1>3. /\ thread[w].batch = << >> /\ thread[w].tries = 0 /\ queue >= 1
      /\ thread[w].interrupted => stops > 0
  BY <1>1 DEF Threads
<1>4. CASE thread' = [Set(w, "take") EXCEPT ![w].on = queue]
  <2>1. PICK t : t = [thread[w] EXCEPT !.at = "take", !.on = queue] OBVIOUS
  <2>2. /\ t \in Thread /\ t.at = "take" /\ t.batch = << >> /\ t.on = queue /\ t.tries = 0
        /\ t.interrupted = thread[w].interrupted
    BY <1>2, <1>3, <2>1 DEF Thread, Steps
  <2>3. thread' = [thread EXCEPT ![w] = t] BY <1>4, <2>1 DEF Set, Base
  <2>4. ThreadFits(t) BY <1>2, <1>3, <2>2 DEF ThreadFits
  <2>5. (IF t.at = "doprocess" THEN t.tries + 1 ELSE t.tries) = Attempts(w)
    BY <1>1, <1>3, <2>2 DEF Attempts
  <2> QED BY <1>1, <1>3, <2>2, <2>3, <2>4, <2>5, ThreadMoves
<1>5. CASE thread' = Dead(w)
  <2>1. PICK t : t = [NoThread EXCEPT !.at = "dead"] OBVIOUS
  <2>2. /\ t \in Thread /\ t.at = "dead" /\ t.batch = << >> /\ t.on = 0 /\ t.tries = 0
        /\ t.interrupted = FALSE
    BY <2>1, FreshThread DEF Thread, Steps
  <2>3. thread' = [thread EXCEPT ![w] = t] BY <1>5, <2>1 DEF Dead
  <2>4. ThreadFits(t) BY <1>2, <2>2 DEF ThreadFits
  <2>5. (IF t.at = "doprocess" THEN t.tries + 1 ELSE t.tries) = Attempts(w)
    BY <1>1, <1>3, <2>2 DEF Attempts
  <2> QED BY <1>1, <1>3, <2>2, <2>3, <2>4, <2>5, ThreadMoves
<1> QED BY <1>1, <1>4, <1>5

\* Steps that change only where a thread is.
LEMMA AtInv ==
  ASSUME IInv, NEW w \in Workers,
         \/ PollTimesOut(w)
         \/ thread[w].at = "sleep" /\ thread' = Set(w, "attempt") /\ UNCHANGED fate
            /\ UNCHANGED <<contents, attempts>> /\ OthersUnchanged
  PROVE  IInv'
<1> USE DEF IInv
<1>1. /\ thread[w].at \in {"poll", "sleep"} /\ thread' = Set(w, "attempt")
      /\ UNCHANGED <<contents, fate, attempts>> /\ OthersUnchanged
  BY DEF PollTimesOut
<1>2. thread[w] \in Thread BY DEF Base
<1>3. PICK t : t = [thread[w] EXCEPT !.at = "attempt"] OBVIOUS
<1>4. /\ t \in Thread /\ t.at = "attempt" /\ t.batch = thread[w].batch /\ t.on = thread[w].on
      /\ t.tries = thread[w].tries /\ t.interrupted = thread[w].interrupted
  BY <1>2, <1>3 DEF Thread, Steps
<1>5. thread' = [thread EXCEPT ![w] = t] BY <1>1, <1>3 DEF Set
<1>6. ThreadFits(t) BY <1>1, <1>4 DEF ThreadFits, Threads
<1>7. (IF t.at = "doprocess" THEN t.tries + 1 ELSE t.tries) = Attempts(w)
  BY <1>1, <1>4 DEF Attempts
<1> QED BY <1>1, <1>4, <1>5, <1>6, <1>7, ThreadMoves

\* The end of process.
LEMMA EndInv ==
  ASSUME IInv, NEW w \in Workers, NEW what \in {"stopped", "processed", "failed"},
         EndProcess(w, what), UNCHANGED <<contents, attempts>>, OthersUnchanged,
         thread[w].at \in {"attempt", "doprocess"},
         what = "stopped" => stops > 0,
         what # "stopped" => thread[w].at = "doprocess",
         what = "failed" => thread[w].tries = MaxRetryTimes
  PROVE  IInv'
<1> USE DEF IInv
<1>1. PICK t : t = [NoThread EXCEPT !.at = "loop", !.interrupted = thread[w].interrupted] OBVIOUS
<1>2. thread[w] \in Thread BY DEF Base
<1>3. /\ t \in Thread /\ t.at = "loop" /\ t.batch = << >> /\ t.on = 0 /\ t.tries = 0
      /\ t.interrupted = thread[w].interrupted
  BY <1>1, <1>2, FreshThread DEF Thread, Steps
<1>4. thread' = [thread EXCEPT ![w] = t] BY <1>1 DEF EndProcess
<1>5. queue \in Nat /\ queue >= 1 /\ (thread[w].interrupted => stops > 0) BY DEF Base, Threads
<1>6. ThreadFits(t) BY <1>3, <1>5 DEF ThreadFits
<1>7. fate' = Marked(InSeq(thread[w].batch), what) BY DEF EndProcess
<1> QED BY <1>3, <1>4, <1>6, <1>7, BatchEnds

\* A stop that ends process or run.
LEMMA StoppedInv ==
  ASSUME IInv, NEW w \in Workers, NEW at \in {"loop", "dead"},
         thread[w].at \in {"take", "poll", "sleep"}, thread[w].interrupted,
         thread' = [thread EXCEPT ![w] = [NoThread EXCEPT !.at = at]],
         fate' = Marked(InSeq(thread[w].batch), "stopped"),
         UNCHANGED <<contents, attempts>>, OthersUnchanged
  PROVE  IInv'
<1> USE DEF IInv
<1>1. PICK t : t = [NoThread EXCEPT !.at = at] OBVIOUS
<1>2. /\ t \in Thread /\ t.at = at /\ t.batch = << >> /\ t.on = 0 /\ t.tries = 0
      /\ t.interrupted = FALSE
  BY <1>1, FreshThread DEF Thread, Steps
<1>3. thread' = [thread EXCEPT ![w] = t] BY <1>1
<1>4. queue \in Nat /\ queue >= 1 /\ stops > 0 BY DEF Base, Threads
<1>5. ThreadFits(t) BY <1>2, <1>4 DEF ThreadFits
<1> QED BY <1>2, <1>3, <1>4, <1>5, BatchEnds

\* doProcess is called with the batch.
LEMMA AttemptInv == ASSUME IInv, NEW w \in Workers, Attempt(w) PROVE IInv'
<1> USE DEF IInv
<1>1. thread[w].at = "attempt" /\ UNCHANGED contents /\ OthersUnchanged BY DEF Attempt
<1>2. thread[w] \in Thread BY DEF Base
<1>3. CASE ~(isActive /\ ~thread[w].interrupted)
  <2>1. EndProcess(w, "stopped") /\ UNCHANGED attempts BY <1>3 DEF Attempt
  <2>2. queue >= 1 /\ (thread[w].interrupted => stops > 0) BY <1>1 DEF Threads
  <2>3. stops > 0 BY <1>3, <2>2 DEF Started, Base
  <2> QED BY <1>1, <2>1, <2>3, EndInv
<1>4. CASE isActive /\ ~thread[w].interrupted
  <2>1. /\ thread' = Set(w, "doprocess") /\ UNCHANGED fate
        /\ attempts' = [x \in Items |->
             IF x \in InSeq(thread[w].batch) THEN attempts[x] + 1 ELSE attempts[x]]
    BY <1>4 DEF Attempt
  <2>2. PICK t : t = [thread[w] EXCEPT !.at = "doprocess"] OBVIOUS
  <2>3. /\ t \in Thread /\ t.at = "doprocess" /\ t.batch = thread[w].batch /\ t.on = thread[w].on
        /\ t.tries = thread[w].tries /\ t.interrupted = thread[w].interrupted
    BY <1>2, <2>2 DEF Thread, Steps
  <2>4. thread' = [thread EXCEPT ![w] = t] BY <2>1, <2>2 DEF Set
  <2>5. ThreadFits(t) BY <1>1, <2>3 DEF ThreadFits, Threads
  <2>6. /\ thread' \in [Workers -> Thread]
        /\ thread'[w] = t /\ \A v \in Workers \ {w} : thread'[v] = thread[v]
        /\ Started' /\ Calls' /\ Threads'
        /\ UNCHANGED <<isActive, isReady, queue, threadPool, shut, client, stopper, clash, stops>>
    BY <1>1, <2>3, <2>4, <2>5, OneThread
  <2>7. /\ attempts' \in [Items -> Nat]
        /\ \A x \in InSeq(thread[w].batch) \cap Items : attempts'[x] = attempts[x] + 1
        /\ \A x \in Items \ InSeq(thread[w].batch) : attempts'[x] = attempts[x]
    BY <2>1 DEF Base
  <2>8. Base' BY <1>1, <2>1, <2>6, <2>7 DEF Base
  <2>9. QueuesBounded' /\ Offers' BY <1>1, <2>1, <2>6 DEF QueuesBounded, Offers
  <2>10. ASSUME NEW v \in Workers PROVE thread'[v].batch = thread[v].batch
    BY <2>3, <2>6
  <2>11. Single' BY <1>1, <2>10 DEF Single
  <2>12. Where'
    <3>1. ASSUME NEW x \in Items PROVE Held(x)' <=> Held(x) BY <1>1, <2>10 DEF Held
    <3> QED BY <2>1, <3>1 DEF Where
  <2>13. Counted'
    <3>1. ASSUME NEW x \in InSeq(thread[w].batch)
          PROVE  x \in Items /\ fate[x] = "accepted" /\ attempts[x] = thread[w].tries
      <4>1. PICK k \in DOMAIN thread[w].batch : x = thread[w].batch[k] BY <3>1 DEF InSeq
      <4>2. x \in Items BY <1>2, <4>1 DEF Thread
      <4>3. attempts[x] = thread[w].tries BY <1>1, <4>1 DEF Counted, Attempts
      <4>4. Held(x) BY <4>1 DEF Held
      <4> QED BY <4>2, <4>3, <4>4 DEF Where
    <3>2. \A x \in Items :
            /\ fate[x] \in {"new", "offered", "refused"} => attempts'[x] = 0
            /\ fate[x] = "failed" => attempts'[x] = MaxRetryTimes + 1
            /\ fate[x] = "processed" => attempts'[x] \in 1..(MaxRetryTimes + 1)
            /\ fate[x] = "stopped" => stops > 0
      BY <2>7, <3>1 DEF Counted
    <3>3. ASSUME NEW g \in Generations, NEW i \in DOMAIN contents[g]
          PROVE  attempts'[contents[g][i]] = 0
      <4>1. contents[g][i] \in Items /\ attempts[contents[g][i]] = 0 BY DEF Counted, Base
      <4>2. contents[g][i] \notin InSeq(thread[w].batch) BY DEF Single, InSeq
      <4> QED BY <2>7, <4>1, <4>2
    <3>4. ASSUME NEW v \in Workers, NEW i \in DOMAIN thread[v].batch
          PROVE  attempts'[thread[v].batch[i]] = Attempts(v)'
      <4>1. thread[v].batch[i] \in Items /\ attempts[thread[v].batch[i]] = Attempts(v)
        BY DEF Counted, Base, Thread
      <4>2. CASE v = w
        <5>1. thread[v].batch[i] \in InSeq(thread[w].batch) BY <4>2 DEF InSeq
        <5>2. Attempts(w)' = thread[w].tries + 1 BY <2>3, <2>6 DEF Attempts
        <5> QED BY <2>7, <3>1, <4>1, <4>2, <5>1, <5>2
      <4>3. CASE v # w
        <5>1. thread[v].batch[i] \notin InSeq(thread[w].batch) BY <4>3 DEF Single, InSeq
        <5>2. Attempts(v)' = Attempts(v) BY <2>6, <4>3 DEF Attempts
        <5> QED BY <2>7, <4>1, <5>1, <5>2
      <4> QED BY <4>2, <4>3
    <3>5. \A g \in Generations : \A i \in DOMAIN contents'[g] : attempts'[contents'[g][i]] = 0
      BY <1>1, <3>3
    <3>6. \A v \in Workers : \A i \in DOMAIN thread'[v].batch :
            attempts'[thread'[v].batch[i]] = Attempts(v)'
      BY <2>10, <3>4
    <3> QED BY <2>1, <2>6, <3>2, <3>5, <3>6 DEF Counted
  <2> QED BY <2>6, <2>8, <2>9, <2>11, <2>12, <2>13
<1> QED BY <1>3, <1>4

\* doProcess throws.
LEMMA DoProcessFailsInv == ASSUME IInv, NEW w \in Workers, DoProcessFails(w) PROVE IInv'
<1> USE DEF IInv
<1>1. thread[w].at = "doprocess" /\ UNCHANGED <<contents, attempts>> /\ OthersUnchanged
  BY DEF DoProcessFails
<1>2. /\ thread[w] \in Thread /\ thread[w].tries <= MaxRetryTimes /\ MaxRetryTimes \in Nat
      /\ thread[w].tries \in Nat
  BY DEF Base, Threads, Thread
<1>3. CASE TriesLeft(w)
  <2>1. thread' = [Set(w, "sleep") EXCEPT ![w].tries = @ + 1] /\ UNCHANGED fate
    BY <1>3 DEF DoProcessFails
  <2>0. PICK k \in Nat : k = thread[w].tries + 1 BY <1>2
  <2>2. PICK t : t = [thread[w] EXCEPT !.at = "sleep", !.tries = k] OBVIOUS
  <2>3. /\ t \in Thread /\ t.at = "sleep" /\ t.batch = thread[w].batch /\ t.on = thread[w].on
        /\ t.tries = thread[w].tries + 1 /\ t.interrupted = thread[w].interrupted
    BY <1>2, <2>0, <2>2 DEF Thread, Steps
  <2>4. thread' = [thread EXCEPT ![w] = t] BY <2>0, <2>1, <2>2 DEF Set, Base, Thread
  <2>5. t.tries <= MaxRetryTimes BY <1>2, <1>3, <2>3 DEF TriesLeft
  <2>6. ThreadFits(t) BY <1>1, <2>3, <2>5 DEF ThreadFits, Threads
  <2>7. (IF t.at = "doprocess" THEN t.tries + 1 ELSE t.tries) = Attempts(w)
    BY <1>1, <2>3 DEF Attempts
  <2> QED BY <1>1, <2>1, <2>3, <2>4, <2>6, <2>7, ThreadMoves
<1>4. CASE ~TriesLeft(w)
  <2>1. EndProcess(w, "failed") BY <1>4 DEF DoProcessFails
  <2>2. thread[w].tries = MaxRetryTimes BY <1>2, <1>4 DEF TriesLeft
  <2> QED BY <1>1, <2>1, <2>2, EndInv
<1> QED BY <1>3, <1>4

\* Every step of a thread.
LEMMA ThreadStepInv == ASSUME IInv, NEW w \in Workers, ThreadStep(w) PROVE IInv'
<1>1. CASE Interrupted(w)
  <2>1. "dead" \in {"loop", "dead"} OBVIOUS
  <2> QED BY <1>1, <2>1, StoppedInv DEF Interrupted, Dead
<1>2. CASE DoProcess(w)
  BY <1>2, EndInv DEF DoProcess
<1>3. CASE Wake(w)
  <2>1. CASE thread[w].interrupted
    <3>1. "loop" \in {"loop", "dead"} OBVIOUS
    <3> QED BY <1>3, <2>1, <3>1, StoppedInv DEF Wake
  <2>2. CASE ~thread[w].interrupted
    BY <1>3, <2>2, AtInv DEF Wake
  <2> QED BY <2>1, <2>2
<1> QED BY <1>1, <1>2, <1>3, LoopInv, TakeInv, AtInv, AttemptInv, DoProcessFailsInv DEF ThreadStep

-----------------------------------------------------------------------------
(* stop.                                                                   *)

\* stop begins.
LEMMA StopCallInv == ASSUME IInv, StopCall PROVE IInv'
<1> USE DEF IInv
<1>1. /\ stops < MaxStops /\ isReady' = FALSE /\ stopper' = "inactive" /\ stops' = stops + 1
      /\ clash' \in BOOLEAN
      /\ UNCHANGED <<isActive, queue, threadPool, contents, shut, thread, client, fate, attempts>>
  BY DEF StopCall, NotReady, Base
<1>2. stops \in Nat /\ stops' \in 0..MaxStops BY <1>1 DEF Base
<1>3. Base' BY <1>1, <1>2 DEF Base
<1>4. stops' > 0 /\ stops <= stops' BY <1>1, <1>2
<1>5. Started' BY <1>1, <1>4 DEF Started, InStart
<1>6. Calls' BY <1>1 DEF Calls
<1>7. Threads' BY <1>1, <1>4 DEF Threads
<1> QED BY <1>1, <1>3, <1>4, <1>5, <1>6, <1>7, NoItem DEF Attempts

\* The rest of stop: the pool it shuts down is there, and loses no item.
LEMMA StopStepInv == ASSUME IInv, StopStep PROVE IInv'
<1> USE DEF IInv
<1>1. CASE StopInactive
  <2>1. /\ stopper = "inactive" /\ isActive' = FALSE /\ stopper' = "shutdown"
        /\ UNCHANGED <<isReady, queue, threadPool, contents, shut, thread, client, fate,
                       attempts, clash, stops>>
    BY <1>1 DEF StopInactive, history
  <2>2. Base' BY <2>1 DEF Base
  <2>3. Started' BY <2>1 DEF Started, InStart
  <2>4. Calls' /\ Threads' BY <2>1 DEF Calls, Threads
  <2>5. stops <= stops' BY <2>1 DEF Base
  <2> QED BY <2>1, <2>2, <2>3, <2>4, <2>5, NoItem DEF Attempts
<1>2. CASE Shutdown
  <2>1. /\ stopper = "shutdown"
        /\ \/ threadPool = 0 /\ stopper' = "idle" /\ shut' = shut
           \/ threadPool # 0 /\ stopper' = "await" /\ shut' = shut \cup {threadPool}
        /\ UNCHANGED <<isActive, isReady, queue, threadPool, contents, thread, client, fate,
                       attempts, clash, stops>>
    BY <1>2 DEF Shutdown, fields, history
  <2>2. queue \in Nat /\ threadPool = queue BY DEF Base
  <2>3. shut' \subseteq 1..queue
    <3>1. shut \subseteq 1..queue BY DEF Base
    <3>2. threadPool # 0 => threadPool \in 1..queue BY <2>2
    <3>3. shut' = shut \/ (threadPool # 0 /\ shut' = shut \cup {threadPool}) BY <2>1
    <3> QED BY <3>1, <3>2, <3>3
  <2>4. Base' BY <2>1, <2>3 DEF Base
  <2>5. stopper' = "await" => queue >= 1 BY <2>1, <2>2
  <2>6. Started' BY <2>1, <2>5 DEF Started, InStart
  <2>7. Calls' /\ Threads' BY <2>1 DEF Calls, Threads
  <2>8. stops <= stops' BY <2>1 DEF Base
  <2> QED BY <2>1, <2>4, <2>6, <2>7, <2>8, NoItem DEF Attempts
<1>3. CASE ShutdownNow
  <2>1. /\ stopper = "await" /\ stopper' = "idle" /\ shut' = shut \cup {threadPool}
        /\ thread' = [w \in Workers |->
             IF w[1] = threadPool /\ thread[w].at \notin {"none", "dead"}
             THEN [thread[w] EXCEPT !.interrupted = TRUE] ELSE thread[w]]
        /\ UNCHANGED <<isActive, isReady, queue, threadPool, contents, client, fate,
                       attempts, clash, stops>>
    BY <1>3 DEF ShutdownNow, fields, history
  <2>2. queue \in Nat /\ threadPool = queue /\ queue >= 1 /\ stops > 0
    BY <2>1 DEF Base, Started
  <2>3. shut' \subseteq 1..queue BY <2>1, <2>2 DEF Base
  <2>4. ASSUME NEW w \in Workers
        PROVE  /\ thread'[w] \in Thread
               /\ thread'[w].at = thread[w].at /\ thread'[w].batch = thread[w].batch
               /\ thread'[w].tries = thread[w].tries /\ thread'[w].on = thread[w].on
    <3>1. thread[w] \in Thread BY DEF Base
    <3>2. thread'[w] = thread[w] \/ thread'[w] = [thread[w] EXCEPT !.interrupted = TRUE]
      BY <2>1
    <3> QED BY <3>1, <3>2 DEF Thread
  <2>5. thread' \in [Workers -> Thread] BY <2>1, <2>4
  <2>6. Base' BY <2>1, <2>3, <2>5 DEF Base
  <2>7. Started' BY <2>1 DEF Started, InStart
  <2>8. Calls' BY <2>1 DEF Calls
  <2>9. Threads' BY <2>1, <2>2, <2>4 DEF Threads
  <2>10. stops <= stops' BY <2>1 DEF Base
  <2>11. \A w \in Workers : thread'[w].batch = thread[w].batch /\ Attempts(w)' = Attempts(w)
    BY <2>4 DEF Attempts
  <2> QED BY <2>1, <2>6, <2>7, <2>8, <2>9, <2>10, <2>11, NoItem
<1> QED BY <1>1, <1>2, <1>3 DEF StopStep

-----------------------------------------------------------------------------
(* The theorems.                                                           *)

\* Nothing has been put, and nothing started.
LEMMA InitInv == Init => IInv
<1> SUFFICES ASSUME Init PROVE IInv
  OBVIOUS
<1>1. /\ isActive = FALSE /\ isReady = FALSE /\ queue = 0 /\ threadPool = 0 /\ shut = {}
      /\ contents = [g \in Generations |-> << >>] /\ thread = [w \in Workers |-> NoThread]
      /\ client = [p \in Clients |-> NoCall] /\ stopper = "idle"
      /\ fate = [x \in Items |-> "new"] /\ attempts = [x \in Items |-> 0]
      /\ clash = FALSE /\ stops = 0
  BY DEF Init
<1>2. NoCall \in CallStates /\ NoCall.at = "idle" /\ NoCall.items = << >> /\ NoCall.on = 0
  BY DEF NoCall, CallStates, CallSteps
<1>3. Base
  <2>1. contents \in [Generations -> Seq(Items)] BY <1>1
  <2>2. thread \in [Workers -> Thread] BY <1>1, FreshThread
  <2>3. client \in [Clients -> CallStates] BY <1>1, <1>2
  <2>4. fate \in [Items -> Fates] /\ attempts \in [Items -> Nat] BY <1>1 DEF Fates
  <2>5. queue \in 0..MaxStarts /\ threadPool = queue /\ shut \subseteq 1..queue /\ stops \in 0..MaxStops
    BY <1>1
  <2> QED BY <1>1, <2>1, <2>2, <2>3, <2>4, <2>5 DEF Base
<1>4. Started BY <1>1, <1>2 DEF Started, InStart
<1>5. Calls BY <1>1, <1>2 DEF Calls
<1>6. \A w \in Workers : /\ thread[w].batch = << >> /\ thread[w].tries = 0 /\ thread[w].on = 0
                         /\ thread[w].interrupted = FALSE /\ thread[w].at = "none"
  BY <1>1, FreshThread
<1>7. Threads
  <2>1. Len(<< >>) = 0 /\ 0 <= BatchSize /\ 0 <= MaxRetryTimes OBVIOUS
  <2> QED BY <1>1, <1>6, <2>1 DEF Threads
<1>8. QueuesBounded BY <1>1 DEF QueuesBounded
<1>9. /\ \A g \in Generations : DOMAIN contents[g] = {}
      /\ \A w \in Workers : DOMAIN thread[w].batch = {}
      /\ \A p \in Clients : DOMAIN client[p].items = {}
  BY <1>1, <1>2, <1>6
<1>10. Offers BY <1>9 DEF Offers
<1>11. Single BY <1>9 DEF Single
<1>12. Where BY <1>1, <1>9 DEF Where, Held
<1>13. Counted BY <1>1, <1>9 DEF Counted
<1> QED BY <1>3, <1>4, <1>5, <1>7, <1>8, <1>10, <1>11, <1>12, <1>13 DEF IInv

\* Every step keeps the invariant.
LEMMA StepInv == IInv /\ [Next]_vars => IInv'
<1> SUFFICES ASSUME IInv, [Next]_vars PROVE IInv'
  OBVIOUS
<1>1. CASE UNCHANGED vars
  <2>1. UNCHANGED <<isActive, isReady, queue, threadPool, contents, shut, thread, client, stopper,
                    fate, attempts, clash, stops>>
    BY <1>1 DEF vars
  <2>2. Base' /\ Started' /\ Calls' /\ Threads' /\ stops <= stops'
    BY <2>1 DEF IInv, Base, Started, InStart, Calls, Threads
  <2> QED BY <2>1, <2>2, NoItem DEF IInv, Attempts
<1>2. CASE Next
  <2>1. ASSUME NEW p \in Clients, Call(p) \/ ClientStep(p) PROVE IInv'
    BY <2>1, CallInv, StartInv, NewPoolInv, SubmitInv, ReadyInv, ReadQueueInv, EnqueueInv,
       AddAllFailsInv DEF ClientStep
  <2> QED BY <1>2, <2>1, ThreadStepInv, StopCallInv, StopStepInv DEF Next
<1> QED BY <1>1, <1>2

\* The inductive invariant holds in every behaviour.
THEOREM Invariance == Spec => []IInv
<1>1. Init => IInv BY InitInv
<1>2. IInv /\ [Next]_vars => IInv' BY StepInv
<1> QED BY <1>1, <1>2, PTL DEF Spec

\* The variables keep their types, no queue holds more than maximumQueueSize items
\* and no batch more than batchSize, however stops and starts overlap.
THEOREM TypeCorrect == Spec => []TypeOK
<1>1. ASSUME IInv PROVE TypeOK
  <2>1. \A g \in Generations : contents[g] \in Seq(Items) /\ Len(contents[g]) <= MaximumQueueSize
    BY <1>1 DEF IInv, Base, QueuesBounded
  <2>2. ASSUME NEW w \in Workers
        PROVE  /\ thread[w].at \in {"none", "loop", "take", "poll", "attempt", "doprocess", "sleep", "dead"}
               /\ thread[w].batch \in Seq(Items) /\ Len(thread[w].batch) <= BatchSize
               /\ thread[w].tries \in 0..MaxRetryTimes /\ thread[w].interrupted \in BOOLEAN
               /\ thread[w].on \in 0..queue
    <3>1. thread[w] \in Thread /\ queue \in Nat BY <1>1 DEF IInv, Base
    <3>2. /\ Len(thread[w].batch) <= BatchSize /\ thread[w].tries <= MaxRetryTimes
          /\ thread[w].on <= queue
      BY <1>1 DEF IInv, Threads
    <3> QED BY <3>1, <3>2 DEF Thread, Steps
  <2>3. ASSUME NEW p \in Clients
        PROVE  client[p].items \in Seq(Items) /\ client[p].on \in 0..queue
    <3>1. client[p] \in CallStates /\ queue \in Nat BY <1>1 DEF IInv, Base
    <3>2. client[p].on <= queue BY <1>1 DEF IInv, Calls
    <3> QED BY <3>1, <3>2 DEF CallStates
  <2>4. Base BY <1>1 DEF IInv
  <2> QED BY <2>1, <2>2, <2>3, <2>4 DEF TypeOK, Base
<1> QED BY <1>1, Invariance, PTL

\* The slots of an item, one by one.
LEMMA SlotIs ==
  ASSUME NEW x, NEW s
  PROVE  s \in Slots(x) <=>
           \/ \E g \in Generations, i \in 1..MaximumQueueSize :
                s = <<"queue", g, i>> /\ i \in DOMAIN contents[g] /\ contents[g][i] = x
           \/ \E w \in Workers, i \in 1..BatchSize :
                s = <<"batch", w, i>> /\ i \in DOMAIN thread[w].batch /\ thread[w].batch[i] = x
<1> DEFINE Q == {r \in Generations \X (1..MaximumQueueSize) :
                   r[2] \in DOMAIN contents[r[1]] /\ contents[r[1]][r[2]] = x}
           B == {r \in Workers \X (1..BatchSize) :
                   r[2] \in DOMAIN thread[r[1]].batch /\ thread[r[1]].batch[r[2]] = x}
<1>1. s \in {<<"queue", r[1], r[2]>> : r \in Q} <=>
        \E g \in Generations, i \in 1..MaximumQueueSize :
          s = <<"queue", g, i>> /\ i \in DOMAIN contents[g] /\ contents[g][i] = x
  <2>1. \A g, i : <<g, i>> \in Q <=> /\ g \in Generations /\ i \in 1..MaximumQueueSize
                                     /\ i \in DOMAIN contents[g] /\ contents[g][i] = x
    OBVIOUS
  <2>2. \A r \in Q : r = <<r[1], r[2]>> OBVIOUS
  <2> HIDE DEF Q
  <2>3. ASSUME s \in {<<"queue", r[1], r[2]>> : r \in Q}
        PROVE  \E g \in Generations, i \in 1..MaximumQueueSize :
                 s = <<"queue", g, i>> /\ i \in DOMAIN contents[g] /\ contents[g][i] = x
    <3>1. PICK r \in Q : s = <<"queue", r[1], r[2]>> BY <2>3
    <3>2. <<r[1], r[2]>> \in Q BY <2>2
    <3> QED BY <2>1, <3>1, <3>2
  <2>4. ASSUME NEW g \in Generations, NEW i \in 1..MaximumQueueSize,
               s = <<"queue", g, i>>, i \in DOMAIN contents[g], contents[g][i] = x
        PROVE  s \in {<<"queue", r[1], r[2]>> : r \in Q}
    <3>1. <<g, i>> \in Q BY <2>1, <2>4
    <3>2. s = <<"queue", <<g, i>>[1], <<g, i>>[2]>> BY <2>4
    <3> QED BY <3>1, <3>2
  <2> QED BY <2>3, <2>4
<1>2. s \in {<<"batch", r[1], r[2]>> : r \in B} <=>
        \E w \in Workers, i \in 1..BatchSize :
          s = <<"batch", w, i>> /\ i \in DOMAIN thread[w].batch /\ thread[w].batch[i] = x
  <2>1. \A w, i : <<w, i>> \in B <=> /\ w \in Workers /\ i \in 1..BatchSize
                                     /\ i \in DOMAIN thread[w].batch /\ thread[w].batch[i] = x
    OBVIOUS
  <2>2. \A r \in B : r = <<r[1], r[2]>> OBVIOUS
  <2> HIDE DEF B
  <2>3. ASSUME s \in {<<"batch", r[1], r[2]>> : r \in B}
        PROVE  \E w \in Workers, i \in 1..BatchSize :
                 s = <<"batch", w, i>> /\ i \in DOMAIN thread[w].batch /\ thread[w].batch[i] = x
    <3>1. PICK r \in B : s = <<"batch", r[1], r[2]>> BY <2>3
    <3>2. <<r[1], r[2]>> \in B BY <2>2
    <3> QED BY <2>1, <3>1, <3>2
  <2>4. ASSUME NEW w \in Workers, NEW i \in 1..BatchSize,
               s = <<"batch", w, i>>, i \in DOMAIN thread[w].batch, thread[w].batch[i] = x
        PROVE  s \in {<<"batch", r[1], r[2]>> : r \in B}
    <3>1. <<w, i>> \in B BY <2>1, <2>4
    <3>2. s = <<"batch", <<w, i>>[1], <<w, i>>[2]>> BY <2>4
    <3> QED BY <3>1, <3>2
  <2> QED BY <2>3, <2>4
<1>3. s \in Slots(x) <=> \/ s \in {<<"queue", r[1], r[2]>> : r \in Q}
                         \/ s \in {<<"batch", r[1], r[2]>> : r \in B}
  BY DEF Slots
<1> HIDE DEF Q, B
<1> QED BY <1>1, <1>2, <1>3

\* An accepted item is in one slot of one queue or batch until it was processed,
\* has failed in each of its tries, or was dropped by a stop.
THEOREM ItemsAccountedHolds == Spec => []ItemsAccounted
<1>1. ASSUME IInv PROVE ItemsAccounted
  <2> USE <1>1 DEF IInv
  <2>1. ASSUME NEW g \in Generations, NEW i \in DOMAIN contents[g] PROVE i \in 1..MaximumQueueSize
    <3>1. contents[g] \in Seq(Items) /\ Len(contents[g]) <= MaximumQueueSize
      BY DEF Base, QueuesBounded
    <3> QED BY <3>1
  <2>2. ASSUME NEW w \in Workers, NEW i \in DOMAIN thread[w].batch PROVE i \in 1..BatchSize
    <3>1. thread[w].batch \in Seq(Items) /\ Len(thread[w].batch) <= BatchSize
      BY DEF Base, Thread, Threads
    <3> QED BY <3>1
  <2>3. ASSUME NEW x \in Items PROVE fate[x] = "accepted" <=> Slots(x) # {}
    <3>1. ASSUME Held(x) PROVE Slots(x) # {}
      <4>1. CASE \E g \in Generations : \E i \in DOMAIN contents[g] : contents[g][i] = x
        <5>1. PICK g \in Generations : \E i \in DOMAIN contents[g] : contents[g][i] = x BY <4>1
        <5>2. PICK i \in DOMAIN contents[g] : contents[g][i] = x BY <5>1
        <5>3. <<"queue", g, i>> \in Slots(x) BY <2>1, <5>2, SlotIs
        <5> QED BY <5>3
      <4>2. CASE \E w \in Workers : \E i \in DOMAIN thread[w].batch : thread[w].batch[i] = x
        <5>1. PICK w \in Workers : \E i \in DOMAIN thread[w].batch : thread[w].batch[i] = x BY <4>2
        <5>2. PICK i \in DOMAIN thread[w].batch : thread[w].batch[i] = x BY <5>1
        <5>3. <<"batch", w, i>> \in Slots(x) BY <2>2, <5>2, SlotIs
        <5> QED BY <5>3
      <4> QED BY <3>1, <4>1, <4>2 DEF Held
    <3>2. ASSUME NEW s \in Slots(x) PROVE Held(x)
      BY SlotIs DEF Held
    <3> QED BY <3>1, <3>2 DEF Where
  <2>4. ASSUME NEW x \in Items, NEW s \in Slots(x), NEW t \in Slots(x) PROVE s = t
    <3>1. \/ \E g \in Generations : \E i \in DOMAIN contents[g] :
               s = <<"queue", g, i>> /\ contents[g][i] = x
          \/ \E w \in Workers : \E i \in DOMAIN thread[w].batch :
               s = <<"batch", w, i>> /\ thread[w].batch[i] = x
      BY SlotIs
    <3>2. \/ \E g \in Generations : \E i \in DOMAIN contents[g] :
               t = <<"queue", g, i>> /\ contents[g][i] = x
          \/ \E w \in Workers : \E i \in DOMAIN thread[w].batch :
               t = <<"batch", w, i>> /\ thread[w].batch[i] = x
      BY SlotIs
    <3> QED BY <3>1, <3>2 DEF Single
  <2> QED BY <2>3, <2>4 DEF ItemsAccounted, Counted
<1> QED BY <1>1, Invariance, PTL
=============================================================================

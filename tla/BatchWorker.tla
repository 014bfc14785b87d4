---------------------------- MODULE BatchWorker -----------------------------
(***************************************************************************)
(* The batch worker of dol-framework-core: put starts the worker if need   *)
(* be, a pool of threads takes the queued items in batches and processes   *)
(* them with retries, stop ends it, and a later put starts it anew with a  *)
(* new queue and a new pool.                                               *)
(*                                                                         *)
(* start is synchronized, stop is not, and the fields queue, threadPool,   *)
(* isActive and isReady are read again at every use: a thread of an old    *)
(* pool may go on with the new queue, and a stop may hit the new pool.     *)
(***************************************************************************)
EXTENDS Naturals, Sequences

CONSTANTS
  Items,            \* what is put, each once
  Clients,          \* the threads that call put and putAll
  BatchSize,        \* batchSize
  MaximumQueueSize, \* maximumQueueSize
  NumberOfThreads,  \* numberOfThreads
  MaxRetryTimes,    \* maxRetryTimes
  Failing,          \* the items with which doProcess may throw
  MaxStarts,        \* bound: starts
  MaxStops          \* bound: calls of stop

ASSUME BatchAssumption ==
  /\ {BatchSize, MaximumQueueSize, NumberOfThreads, MaxStarts} \subseteq Nat \ {0}
  /\ {MaxRetryTimes, MaxStops} \subseteq Nat
  /\ Failing \subseteq Items

VARIABLES
  isActive, isReady, \* the two volatile flags
  queue, threadPool, \* the fields: which queue and which pool, 0 for null
  contents,          \* per queue, its items
  shut,              \* the pools that accept no more tasks
  thread,            \* per thread of each pool
  client,            \* per client, its call
  stopper,           \* what the call of stop does next
  fate,              \* history: per item, what became of it
  attempts,          \* history: per item, the calls of doProcess it was in
  clash,             \* history: a stop and a start have overlapped
  stops              \* history: the calls of stop

fields == <<isActive, isReady, queue, threadPool>>
history == <<attempts, clash, stops>>
vars == <<isActive, isReady, queue, threadPool, contents, shut, thread, client, stopper,
          fate, attempts, clash, stops>>

Generations == 1..MaxStarts
Workers == Generations \X (1..NumberOfThreads)

NoThread == [at |-> "none", batch |-> << >>, tries |-> 0, interrupted |-> FALSE, on |-> 0]
NoCall == [at |-> "idle", items |-> << >>, all |-> FALSE, on |-> 0]

Init ==
  /\ isActive = FALSE /\ isReady = FALSE /\ queue = 0 /\ threadPool = 0
  /\ contents = [g \in Generations |-> << >>]
  /\ shut = {}
  /\ thread = [w \in Workers |-> NoThread]
  /\ client = [p \in Clients |-> NoCall]
  /\ stopper = "idle"
  /\ fate = [x \in Items |-> "new"]
  /\ attempts = [x \in Items |-> 0]
  /\ clash = FALSE /\ stops = 0

InSeq(s) == {s[i] : i \in DOMAIN s}

Marked(xs, what) == [x \in Items |-> IF x \in xs THEN what ELSE fate[x]]

-----------------------------------------------------------------------------
(* start, put and putAll.                                                  *)

Starting == \E p \in Clients : client[p].at \in {"newpool", "submit", "ready"}

\* put (one item) or putAll (two), up to the test of isReady.
Call(p) ==
  /\ client[p].at = "idle"
  /\ \E items \in [1..1 -> Items] \cup [1..2 -> Items] :
       /\ \A i \in DOMAIN items : fate[items[i]] = "new"
       /\ \A i, k \in DOMAIN items : items[i] = items[k] => i = k
       /\ client' = [client EXCEPT ![p] =
            [at |-> IF isReady THEN "read" ELSE "start", items |-> items,
             all |-> Len(items) = 2, on |-> 0]]
       /\ fate' = Marked(InSeq(items), "offered")
  /\ UNCHANGED <<fields, contents, shut, thread, stopper, history>>

\* Entry of start, which waits for its monitor.
Start(p) ==
  /\ client[p].at = "start" /\ ~Starting
  /\ IF isActive
     THEN client' = [client EXCEPT ![p].at = "read"] /\ UNCHANGED <<isActive, clash>>
     ELSE /\ queue < MaxStarts
          /\ client' = [client EXCEPT ![p].at = "newpool"]
          /\ isActive' = TRUE
          /\ clash' = (clash \/ stopper # "idle")
  /\ UNCHANGED <<isReady, queue, threadPool, contents, shut, thread, stopper, fate, attempts, stops>>

\* queue = new ArrayBlockingQueue, threadPool = buildThreadPool(): nobody
\* can tell the two assignments apart.
NewPool(p) ==
  /\ client[p].at = "newpool"
  /\ queue' = queue + 1 /\ threadPool' = queue + 1
  /\ client' = [client EXCEPT ![p].at = "submit"]
  /\ UNCHANGED <<isActive, isReady, contents, shut, thread, stopper, fate, history>>

Unsubmitted == {i \in 1..NumberOfThreads : thread[<<threadPool, i>>].at = "none"}

\* threadPool.submit for the next thread.  A pool that was shut down in the
\* meantime rejects it; the exception leaves put, which drops its items.
Submit(p) ==
  /\ client[p].at = "submit"
  /\ IF threadPool \in shut
     THEN /\ client' = [client EXCEPT ![p] = NoCall]
          /\ fate' = Marked(InSeq(client[p].items), "refused")
          /\ UNCHANGED thread
     ELSE \E i \in Unsubmitted :
            /\ \A k \in Unsubmitted : i <= k
            /\ thread' = [thread EXCEPT ![<<threadPool, i>>].at = "loop"]
            /\ client' = IF Unsubmitted = {i} THEN [client EXCEPT ![p].at = "ready"] ELSE client
            /\ UNCHANGED fate
  /\ UNCHANGED <<fields, contents, shut, stopper, history>>

\* isReady = true, and the monitor is free.
Ready(p) ==
  /\ client[p].at = "ready"
  /\ isReady' = TRUE
  /\ client' = [client EXCEPT ![p].at = "read"]
  /\ UNCHANGED <<isActive, queue, threadPool, contents, shut, thread, stopper, fate, history>>

\* The field queue is read: from here on the call stays with that queue.
ReadQueue(p) ==
  /\ client[p].at = "read"
  /\ client' = [client EXCEPT ![p].at = "enqueue", ![p].on = queue]
  /\ UNCHANGED <<fields, contents, shut, thread, stopper, fate, history>>

\* Mutant of Room: one item too many.
RoomBeyond(g) == Len(contents[g]) <= MaximumQueueSize

Room(g) == Len(contents[g]) < MaximumQueueSize

\* queue.put, which waits for room, or one add of addAll.
Enqueue(p) ==
  /\ client[p].at = "enqueue" /\ Room(client[p].on)
  /\ LET items == client[p].items
     IN /\ contents' = [contents EXCEPT ![client[p].on] = Append(@, Head(items))]
        /\ fate' = Marked({Head(items)}, "accepted")
        /\ client' = [client EXCEPT ![p] = IF Len(items) = 1 THEN NoCall
                                           ELSE [@ EXCEPT !.items = Tail(items)]]
  /\ UNCHANGED <<fields, shut, thread, stopper, history>>

\* add throws on a full queue: the rest of the collection is dropped.
AddAllFails(p) ==
  /\ client[p].at = "enqueue" /\ client[p].all /\ ~Room(client[p].on)
  /\ fate' = Marked(InSeq(client[p].items), "refused")
  /\ client' = [client EXCEPT ![p] = NoCall]
  /\ UNCHANGED <<fields, contents, shut, thread, stopper, history>>

-----------------------------------------------------------------------------
(* The threads.                                                            *)

Set(w, at) == [thread EXCEPT ![w].at = at]

Dead(w) == [thread EXCEPT ![w] = [NoThread EXCEPT !.at = "dead"]]

\* The rest of the state, but for a thread and the items it touches.
OthersUnchanged == UNCHANGED <<fields, shut, client, stopper, clash, stops>>

\* The loop's condition, then the field queue is read for take().
Loop(w) ==
  /\ thread[w].at = "loop"
  /\ thread' = IF isActive /\ ~thread[w].interrupted
               THEN [Set(w, "take") EXCEPT ![w].on = queue] ELSE Dead(w)
  /\ UNCHANGED <<contents, fate, attempts>> /\ OthersUnchanged

\* ++currentCount >= batchSize
Full(batch) == Len(batch) >= BatchSize

\* take() or poll(100 ms) has an item; poll reads the field queue again.
Take(w) ==
  /\ thread[w].at \in {"take", "poll"} /\ ~thread[w].interrupted
  /\ contents[thread[w].on] # << >>
  /\ LET batch == Append(thread[w].batch, Head(contents[thread[w].on]))
     IN thread' = [thread EXCEPT ![w].batch = batch,
                                 ![w].at = IF Full(batch) THEN "attempt" ELSE "poll",
                                 ![w].on = queue]
  /\ contents' = [contents EXCEPT ![thread[w].on] = Tail(@)]
  /\ UNCHANGED <<fate, attempts>> /\ OthersUnchanged

\* poll() has waited for 100 ms.
PollTimesOut(w) ==
  /\ thread[w].at = "poll" /\ ~thread[w].interrupted
  /\ contents[thread[w].on] = << >>
  /\ thread' = Set(w, "attempt")
  /\ UNCHANGED <<contents, fate, attempts>> /\ OthersUnchanged

\* take() or poll() throws InterruptedException, and run ends: the batch
\* under construction is gone.
Interrupted(w) ==
  /\ thread[w].at \in {"take", "poll"} /\ thread[w].interrupted
  /\ thread' = Dead(w)
  /\ fate' = Marked(InSeq(thread[w].batch), "stopped")
  /\ UNCHANGED <<contents, attempts>> /\ OthersUnchanged

\* The end of process: list.clear(), and back to the loop.
EndProcess(w, what) ==
  /\ thread' = [thread EXCEPT ![w] =
       [NoThread EXCEPT !.at = "loop", !.interrupted = thread[w].interrupted]]
  /\ fate' = Marked(InSeq(thread[w].batch), what)

\* The condition of the loop in process.
Attempt(w) ==
  /\ thread[w].at = "attempt"
  /\ IF isActive /\ ~thread[w].interrupted
     THEN /\ thread' = Set(w, "doprocess")
          /\ attempts' = [x \in Items |->
               IF x \in InSeq(thread[w].batch) THEN attempts[x] + 1 ELSE attempts[x]]
          /\ UNCHANGED fate
     ELSE EndProcess(w, "stopped") /\ UNCHANGED attempts
  /\ UNCHANGED contents /\ OthersUnchanged

DoProcess(w) ==
  /\ thread[w].at = "doprocess"
  /\ EndProcess(w, "processed")
  /\ UNCHANGED <<contents, attempts>> /\ OthersUnchanged

\* Mutant of TriesLeft: one try too many.
TriesLeftOrEqual(w) == thread[w].tries <= MaxRetryTimes

\* retryTimes++ < maxRetryTimes
TriesLeft(w) == thread[w].tries < MaxRetryTimes

\* doProcess throws: sleep for three seconds, or give the batch up.
DoProcessFails(w) ==
  /\ thread[w].at = "doprocess" /\ InSeq(thread[w].batch) \cap Failing # {}
  /\ IF TriesLeft(w)
     THEN thread' = [Set(w, "sleep") EXCEPT ![w].tries = @ + 1] /\ UNCHANGED fate
     ELSE EndProcess(w, "failed")
  /\ UNCHANGED <<contents, attempts>> /\ OthersUnchanged

\* The sleep ends; an interruption ends process, and is forgotten.
Wake(w) ==
  /\ thread[w].at = "sleep"
  /\ IF thread[w].interrupted
     THEN /\ thread' = [thread EXCEPT ![w] = [NoThread EXCEPT !.at = "loop"]]
          /\ fate' = Marked(InSeq(thread[w].batch), "stopped")
     ELSE thread' = Set(w, "attempt") /\ UNCHANGED fate
  /\ UNCHANGED <<contents, attempts>> /\ OthersUnchanged

-----------------------------------------------------------------------------
(* stop.                                                                   *)

\* Mutant of NotReady: stop leaves isReady alone.
StillReady == isReady

\* isReady = false
NotReady == FALSE

StopCall ==
  /\ stopper = "idle" /\ stops < MaxStops
  /\ isReady' = NotReady
  /\ stopper' = "inactive" /\ stops' = stops + 1
  /\ clash' = (clash \/ Starting)
  /\ UNCHANGED <<isActive, queue, threadPool, contents, shut, thread, client, fate, attempts>>

StopInactive ==
  /\ stopper = "inactive"
  /\ isActive' = FALSE
  /\ stopper' = "shutdown"
  /\ UNCHANGED <<isReady, queue, threadPool, contents, shut, thread, client, fate, history>>

\* threadPool.shutdown(); a worker never started is a NullPointerException.
Shutdown ==
  /\ stopper = "shutdown"
  /\ IF threadPool = 0 THEN stopper' = "idle" /\ UNCHANGED shut
     ELSE stopper' = "await" /\ shut' = shut \cup {threadPool}
  /\ UNCHANGED <<fields, contents, thread, client, fate, history>>

\* awaitTermination ends (after two seconds at the latest), and shutdownNow
\* interrupts the threads of the pool that is in the field by now.
ShutdownNow ==
  /\ stopper = "await"
  /\ stopper' = "idle"
  /\ shut' = shut \cup {threadPool}
  /\ thread' = [w \in Workers |->
       IF w[1] = threadPool /\ thread[w].at \notin {"none", "dead"}
       THEN [thread[w] EXCEPT !.interrupted = TRUE] ELSE thread[w]]
  /\ UNCHANGED <<fields, contents, client, fate, history>>

-----------------------------------------------------------------------------
ClientStep(p) ==
  \/ Start(p) \/ NewPool(p) \/ Submit(p) \/ Ready(p)
  \/ ReadQueue(p) \/ Enqueue(p) \/ AddAllFails(p)

ThreadStep(w) ==
  \/ Loop(w) \/ Take(w) \/ PollTimesOut(w) \/ Interrupted(w) \/ Attempt(w)
  \/ DoProcess(w) \/ DoProcessFails(w) \/ Wake(w)

StopStep == StopInactive \/ Shutdown \/ ShutdownNow

Next ==
  \/ \E p \in Clients : Call(p) \/ ClientStep(p)
  \/ \E w \in Workers : ThreadStep(w)
  \/ StopCall
  \/ StopStep

(* Threads run; nobody need call put or stop.                              *)
Spec ==
  /\ Init /\ [][Next]_vars
  /\ \A p \in Clients : WF_vars(ClientStep(p))
  /\ \A w \in Workers : WF_vars(ThreadStep(w))
  /\ WF_vars(StopStep)

-----------------------------------------------------------------------------
(* Properties.                                                             *)

Fates == {"new", "offered", "refused", "accepted", "processed", "failed", "stopped"}

\* Types; a queue and a batch keep to their sizes.
TypeOK ==
  /\ isActive \in BOOLEAN /\ isReady \in BOOLEAN /\ clash \in BOOLEAN
  /\ queue \in 0..MaxStarts /\ threadPool = queue
  /\ shut \subseteq 1..threadPool
  /\ \A g \in Generations : contents[g] \in Seq(Items) /\ Len(contents[g]) <= MaximumQueueSize
  /\ \A w \in Workers :
       /\ thread[w].at \in {"none", "loop", "take", "poll", "attempt", "doprocess", "sleep", "dead"}
       /\ thread[w].batch \in Seq(Items) /\ Len(thread[w].batch) <= BatchSize
       /\ thread[w].tries \in 0..MaxRetryTimes /\ thread[w].interrupted \in BOOLEAN
       /\ thread[w].on \in 0..queue
  /\ \A p \in Clients : client[p].items \in Seq(Items) /\ client[p].on \in 0..queue
  /\ stopper \in {"idle", "inactive", "shutdown", "await"}
  /\ fate \in [Items -> Fates] /\ attempts \in [Items -> Nat] /\ stops \in 0..MaxStops

Slots(x) ==
  {<<"queue", s[1], s[2]>> : s \in
     {r \in Generations \X (1..MaximumQueueSize) : r[2] \in DOMAIN contents[r[1]] /\ contents[r[1]][r[2]] = x}}
  \cup {<<"batch", s[1], s[2]>> : s \in
     {r \in Workers \X (1..BatchSize) : r[2] \in DOMAIN thread[r[1]].batch /\ thread[r[1]].batch[r[2]] = x}}

\* An accepted item is in one slot of one queue or batch until it has been
\* processed, has failed in each of its tries, or was dropped by a stop.
ItemsAccounted ==
  \A x \in Items :
    /\ fate[x] = "accepted" <=> Slots(x) # {}
    /\ \A s \in Slots(x), t \in Slots(x) : s = t
    /\ fate[x] = "failed" => attempts[x] = MaxRetryTimes + 1
    /\ fate[x] = "processed" => attempts[x] \in 1..(MaxRetryTimes + 1)
    /\ fate[x] = "stopped" => stops > 0

Queued == IF queue = 0 THEN {} ELSE InSeq(contents[queue])

\* As long as no stop has overlapped a start, what is in the queue of a
\* worker that is ready is taken out of it, or the worker is stopped.  (If
\* they overlap, shutdownNow may hit the new pool, or isActive stay false:
\* then the worker is ready and nobody takes anything.)
Served ==
  \A x \in Items :
    (isReady /\ stopper = "idle" /\ x \in Queued)
      ~> (x \notin Queued \/ stopper # "idle" \/ clash)
=============================================================================

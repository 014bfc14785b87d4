---------------------- MODULE NonRepeatWorkerUserRedis ----------------------
(***************************************************************************)
(* The distributed work queue of dol-framework-core: several nodes share a *)
(* Redis list of pending data, a hash of the data it holds, and one        *)
(* "running" key per datum.  Each node has a dispatcher thread, a pool of  *)
(* reusable Task objects and a fixed pool of threads.                      *)
(*                                                                         *)
(* A Lua script is one step.  Between two Redis calls everything may       *)
(* happen, in particular between the three statements that end a Task:     *)
(* returnObject(this), the reads of this.data and this.time, and           *)
(* deleteIfEqual.  The nodes start after init().                           *)
(***************************************************************************)
EXTENDS Naturals, Sequences

CONSTANTS
  Nodes,          \* the processes that share the queue
  Threads,        \* the threads of all the threadPools
  Objects,        \* the Task objects of all the taskPools
  Home,           \* the node of a thread or of a Task object
  Data,           \* the data to process
  Times,          \* the values of System.currentTimeMillis()
  None,           \* no datum, no object, no token
  MaxRetryTimes,  \* maxRetryTimes of the worker of a node
  ReputInQueue,   \* reputInQueue
  MaxPuts,        \* bound: calls of put by the application
  Failing,        \* data whose doProcess may throw
  Overruns,       \* data whose processing may outlast maxTaskRunTimeMs
  MaxFaults       \* bound: failing calls, stops and crashes

ASSUME WorkerAssumption ==
  /\ Home \in [Threads \cup Objects -> Nodes]
  /\ None \notin Data /\ None \notin Objects /\ None \notin Times
  /\ MaxRetryTimes \in [Nodes -> Nat]
  /\ ReputInQueue \in BOOLEAN
  /\ Failing \subseteq Data /\ Overruns \subseteq Data
  /\ MaxPuts \in Nat /\ MaxFaults \in Nat

VARIABLES
  queue,     \* Redis list <taskName>:queue, oldest first
  keys,      \* Redis hash <taskName>:keys
  running,   \* Redis keys <taskName>:running<data>: the token, or None
  mode,      \* per node: "up", "stopping" (isStop), "shutdown", "halted", "crashed"
  disp,      \* per node: the dispatcher, its datum and its Task object
  idle,      \* the Task objects in the pools
  task,      \* per Task object: its fields data and time
  submitted, \* per node: the queue of the threadPool
  thread,    \* per thread: what it does
  lost,      \* data whose running key was taken away from its run
  puts, faults

redis == <<queue, keys, running>>
counters == <<puts, faults>>
vars == <<queue, keys, running, mode, disp, idle, task, submitted, thread, lost,
          puts, faults>>

Dispatchers ==
  [at : {"take", "borrow", "settime", "add", "submit", "putback", "dead"},
   data : Data \cup {None}, obj : Objects \cup {None}]

Tasks == [data : Data \cup {None}, time : Times \cup {None}]

ThreadStates ==
  [at : {"idle", "process", "sleep", "return", "readdata", "readtime", "delete"},
   obj : Objects \cup {None}, data : Data \cup {None}, tries : Nat,
   key : Data \cup {None}, time : Times \cup {None}]

IdleThread ==
  [at |-> "idle", obj |-> None, data |-> None, tries |-> 0, key |-> None, time |-> None]

Init ==
  /\ queue = <<>> /\ keys = {} /\ running = [d \in Data |-> None]
  /\ mode = [n \in Nodes |-> "up"]
  /\ disp = [n \in Nodes |-> [at |-> "take", data |-> None, obj |-> None]]
  /\ idle = Objects
  /\ task = [o \in Objects |-> [data |-> None, time |-> None]]
  /\ submitted = [n \in Nodes |-> <<>>]
  /\ thread = [w \in Threads |-> IdleThread]
  /\ lost = {}
  /\ puts = 0 /\ faults = 0

-----------------------------------------------------------------------------
(* Redis.                                                                  *)

\* Mutant of AddTask: no HEXISTS before the RPUSH.
AddTaskAgain(d) ==
  /\ queue' = Append(queue, d)
  /\ keys' = keys \cup {d}

\* TASK_ADD_SCRIPT: a datum that waits already is ignored.
AddTask(d) ==
  IF d \in keys THEN UNCHANGED <<queue, keys>>
  ELSE /\ queue' = Append(queue, d)
       /\ keys' = keys \cup {d}

\* TASK_TAKE_SCRIPT, on a queue that is not empty.
TakeTask ==
  /\ queue # <<>>
  /\ queue' = Tail(queue)
  /\ keys' = keys \ {Head(queue)}

\* The runs of d: from the running key's SET to the end of its Task.
Runs(d) ==
  {<<"dispatcher", n>> : n \in {m \in Nodes : disp[m].at = "submit" /\ disp[m].data = d}}
  \cup (UNION {{<<"submitted", n, i>> :
                  i \in {j \in DOMAIN submitted[n] : task[submitted[n][j]].data = d}}
                : n \in Nodes})
  \cup {<<"thread", w>> : w \in {v \in Threads : thread[v].data = d}}

\* The timeout of a running key (maxTaskRunTimeMs, read as seconds).  It may
\* fall within a run only where Overruns says so.
Expire(d) ==
  /\ running[d] # None
  /\ d \in Overruns \/ Runs(d) = {}
  /\ running' = [running EXCEPT ![d] = None]
  /\ lost' = IF Runs(d) = {} THEN lost ELSE lost \cup {d}
  /\ UNCHANGED <<queue, keys, mode, disp, idle, task, submitted, thread, counters>>

-----------------------------------------------------------------------------
(* put().                                                                  *)

\* put(t) on node n.  isStop is not volatile: another thread than the one that
\* called stop() may still read false.  A call to Redis that throws is logged, and
\* the datum forgotten.
Put(n, d) ==
  \/ AddTask(d) /\ UNCHANGED faults
  \/ mode[n] # "up" /\ UNCHANGED <<queue, keys, faults>>
  \/ faults < MaxFaults /\ faults' = faults + 1 /\ UNCHANGED <<queue, keys>>

\* The application puts a datum; putAll puts several, one after the other.
CallPut(n, d) ==
  /\ puts < MaxPuts
  /\ mode[n] # "crashed"
  /\ Put(n, d)
  /\ puts' = puts + 1
  /\ UNCHANGED <<running, mode, disp, idle, task, submitted, thread, lost>>

-----------------------------------------------------------------------------
(* The dispatcher.                                                         *)

At(n, step) == mode[n] # "crashed" /\ disp[n].at = step

Take(n) ==
  /\ At(n, "take")
  /\ TakeTask
  /\ disp' = [disp EXCEPT ![n].at = "borrow", ![n].data = Head(queue)]
  /\ UNCHANGED <<running, mode, idle, task, submitted, thread, lost, counters>>

\* borrowObject() blocks while the pool is exhausted; then the first half of
\* setData.
Borrow(n) ==
  /\ At(n, "borrow")
  /\ \E o \in idle :
       /\ Home[o] = n
       /\ idle' = idle \ {o}
       /\ disp' = [disp EXCEPT ![n].at = "settime", ![n].obj = o]
       /\ task' = [task EXCEPT ![o].data = disp[n].data]
  /\ UNCHANGED <<redis, mode, submitted, thread, lost, counters>>

\* The second half of setData.
SetTime(n) ==
  /\ At(n, "settime")
  /\ \E t \in Times : task' = [task EXCEPT ![disp[n].obj].time = t]
  /\ disp' = [disp EXCEPT ![n].at = "add"]
  /\ UNCHANGED <<redis, mode, idle, submitted, thread, lost, counters>>

\* Mutant of AddToRunningTask: SET without NX.
AddToRunningTaskAlways(n) ==
  /\ At(n, "add")
  /\ running' = [running EXCEPT ![disp[n].data] = task[disp[n].obj].time]
  /\ disp' = [disp EXCEPT ![n].at = "submit"]
  /\ UNCHANGED <<queue, keys, mode, idle, task, submitted, thread, lost, counters>>

\* Mutant of AddToRunningTask: the datum instead of the time as the value.
AddToRunningTaskSwapped(n) ==
  /\ At(n, "add")
  /\ running[disp[n].data] = None
  /\ running' = [running EXCEPT ![disp[n].data] = disp[n].data]
  /\ disp' = [disp EXCEPT ![n].at = "submit"]
  /\ UNCHANGED <<queue, keys, mode, idle, task, submitted, thread, lost, counters>>

\* addToRunningTask(task): SET NX.
AddToRunningTask(n) ==
  /\ At(n, "add")
  /\ LET d == disp[n].data IN
     \/ /\ running[d] = None
        /\ running' = [running EXCEPT ![d] = task[disp[n].obj].time]
        /\ disp' = [disp EXCEPT ![n].at = "submit"]
     \/ /\ running[d] # None
        /\ disp' = [disp EXCEPT ![n].at = "putback"]
        /\ UNCHANGED running
  /\ UNCHANGED <<queue, keys, mode, idle, task, submitted, thread, lost, counters>>

Dismissed(step) == [at |-> step, data |-> None, obj |-> None]

\* The end of an iteration: while (!interrupted()).
Loop(n) == Dismissed(IF mode[n] \in {"shutdown", "halted"} THEN "dead" ELSE "take")

\* threadPool.submit(task): after shutdown() it is rejected, and the exception
\* ends the dispatcher.
Submit(n) ==
  /\ At(n, "submit")
  /\ \/ /\ mode[n] \in {"up", "stopping"}
        /\ submitted' = [submitted EXCEPT ![n] = Append(@, disp[n].obj)]
        /\ disp' = [disp EXCEPT ![n] = Dismissed("take")]
     \/ /\ mode[n] \in {"shutdown", "halted"}
        /\ disp' = [disp EXCEPT ![n] = Dismissed("dead")]
        /\ UNCHANGED submitted
  /\ UNCHANGED <<redis, mode, idle, task, thread, lost, counters>>

\* Mutant of PutBack: the Task object is not returned (NonRepeatWorker.java:62-65).
PutBackWithoutReturn(n) ==
  /\ At(n, "putback")
  /\ Put(n, disp[n].data)
  /\ disp' = [disp EXCEPT ![n] = Loop(n)]
  /\ UNCHANGED <<running, mode, idle, task, submitted, thread, lost, puts>>

\* Mutant of PutBack: the datum is not put again.
PutBackWithoutPut(n) ==
  /\ At(n, "putback")
  /\ idle' = idle \cup {disp[n].obj}
  /\ disp' = [disp EXCEPT ![n] = Loop(n)]
  /\ UNCHANGED <<redis, mode, task, submitted, thread, lost, counters>>

\* The datum is being processed: returnObject(task), then put(t).
PutBack(n) ==
  /\ At(n, "putback")
  /\ idle' = idle \cup {disp[n].obj}
  /\ Put(n, disp[n].data)
  /\ disp' = [disp EXCEPT ![n] = Loop(n)]
  /\ UNCHANGED <<running, mode, task, submitted, thread, lost, puts>>

\* The interrupt of stop() is seen at the head of the loop, or by a
\* borrowObject() that blocks.
Exit(n) ==
  /\ mode[n] \in {"shutdown", "halted"}
  /\ disp[n].at = "take" \/ (disp[n].at = "borrow" /\ \A o \in idle : Home[o] # n)
  /\ disp' = [disp EXCEPT ![n] = Dismissed("dead")]
  /\ UNCHANGED <<redis, mode, idle, task, submitted, thread, lost, counters>>

\* A Redis call throws: the exception ends the dispatcher.  Redis may have run
\* the script.
DispatcherFails(n) ==
  /\ faults < MaxFaults
  /\ \/ At(n, "take") /\ (TakeTask \/ UNCHANGED <<queue, keys>>) /\ UNCHANGED running
     \/ /\ At(n, "add")
        /\ \/ UNCHANGED running
           \/ /\ running[disp[n].data] = None
              /\ running' = [running EXCEPT ![disp[n].data] = task[disp[n].obj].time]
        /\ UNCHANGED <<queue, keys>>
  /\ disp' = [disp EXCEPT ![n] = Dismissed("dead")]
  /\ faults' = faults + 1
  /\ UNCHANGED <<mode, idle, task, submitted, thread, lost, puts>>

-----------------------------------------------------------------------------
(* The threads: Task.run().                                                *)

ThreadAt(w, step) == mode[Home[w]] # "crashed" /\ thread[w].at = step

\* A thread takes the oldest submitted Task and calls process(data).
Start(w) ==
  /\ ThreadAt(w, "idle")
  /\ submitted[Home[w]] # <<>>
  /\ LET o == Head(submitted[Home[w]]) IN
       thread' = [thread EXCEPT ![w].at = "process", ![w].obj = o, ![w].data = task[o].data]
  /\ submitted' = [submitted EXCEPT ![Home[w]] = Tail(@)]
  /\ UNCHANGED <<redis, mode, disp, idle, task, lost, counters>>

Succeed(w) ==
  /\ ThreadAt(w, "process")
  /\ thread' = [thread EXCEPT ![w].at = "return"]
  /\ UNCHANGED <<redis, mode, disp, idle, task, submitted, lost, counters>>

\* After the last attempt: the datum goes back to the queue if so configured,
\* while its running key is still set.
GiveUp(w) ==
  /\ thread' = [thread EXCEPT ![w].at = "return"]
  /\ IF ReputInQueue THEN Put(Home[w], thread[w].data) ELSE UNCHANGED <<queue, keys, faults>>

\* doProcess throws.
Fail(w) ==
  /\ ThreadAt(w, "process")
  /\ thread[w].data \in Failing
  /\ \/ /\ thread[w].tries < MaxRetryTimes[Home[w]]
        /\ thread' = [thread EXCEPT ![w].at = "sleep", ![w].tries = @ + 1]
        /\ UNCHANGED <<queue, keys, faults>>
     \/ /\ thread[w].tries >= MaxRetryTimes[Home[w]]
        /\ GiveUp(w)
  /\ UNCHANGED <<running, mode, disp, idle, task, submitted, lost, puts>>

\* The end of the three seconds between two attempts: the loop goes on while
\* retryTimes < maxRetryTimes.
Wake(w) ==
  /\ ThreadAt(w, "sleep")
  /\ \/ /\ thread[w].tries < MaxRetryTimes[Home[w]]
        /\ thread' = [thread EXCEPT ![w].at = "process"]
        /\ UNCHANGED <<queue, keys, faults>>
     \/ /\ thread[w].tries >= MaxRetryTimes[Home[w]]
        /\ GiveUp(w)
  /\ UNCHANGED <<running, mode, disp, idle, task, submitted, lost, puts>>

\* shutdownNow() interrupts the sleep: process returns true.
Interrupted(w) ==
  /\ mode[Home[w]] = "halted" /\ thread[w].at = "sleep"
  /\ thread' = [thread EXCEPT ![w].at = "return"]
  /\ UNCHANGED <<redis, mode, disp, idle, task, submitted, lost, counters>>

\* Mutant of ReturnObject: a Task object is used once.
ReturnObjectNot(w) ==
  /\ ThreadAt(w, "return")
  /\ thread' = [thread EXCEPT ![w].at = "readdata"]
  /\ UNCHANGED <<redis, mode, disp, idle, task, submitted, lost, counters>>

\* taskPool.returnObject(this): from here on the dispatcher may reuse the object.
ReturnObject(w) ==
  /\ ThreadAt(w, "return")
  /\ idle' = idle \cup {thread[w].obj}
  /\ thread' = [thread EXCEPT ![w].at = "readdata"]
  /\ UNCHANGED <<redis, mode, disp, task, submitted, lost, counters>>

\* removeFromRunningTask(this), in three steps: it reads this.data, reads
\* this.time, and calls deleteIfEqual.
ReadData(w) ==
  /\ ThreadAt(w, "readdata")
  /\ thread' = [thread EXCEPT ![w].at = "readtime",
                              ![w].key = task[thread[w].obj].data]
  /\ UNCHANGED <<redis, mode, disp, idle, task, submitted, lost, counters>>

ReadTime(w) ==
  /\ ThreadAt(w, "readtime")
  /\ thread' = [thread EXCEPT ![w].at = "delete",
                              ![w].time = task[thread[w].obj].time]
  /\ UNCHANGED <<redis, mode, disp, idle, task, submitted, lost, counters>>

Delete(w) ==
  /\ ThreadAt(w, "delete")
  /\ LET key == thread[w].key
         hit == running[key] = thread[w].time
     IN  /\ running' = IF hit THEN [running EXCEPT ![key] = None] ELSE running
         /\ lost' = IF hit /\ key # thread[w].data THEN lost \cup {key} ELSE lost
  /\ thread' = [thread EXCEPT ![w] = IdleThread]
  /\ UNCHANGED <<queue, keys, mode, disp, idle, task, submitted, counters>>

\* deleteIfEqual throws out of run(), having done nothing.
DeleteFails(w) ==
  /\ ThreadAt(w, "delete")
  /\ faults < MaxFaults
  /\ thread' = [thread EXCEPT ![w] = IdleThread]
  /\ faults' = faults + 1
  /\ UNCHANGED <<redis, mode, disp, idle, task, submitted, lost, puts>>

-----------------------------------------------------------------------------
(* stop() and crashes.                                                     *)

\* isStop = true
Stop(n) ==
  /\ mode[n] = "up"
  /\ faults < MaxFaults
  /\ mode' = [mode EXCEPT ![n] = "stopping"]
  /\ faults' = faults + 1
  /\ UNCHANGED <<redis, disp, idle, task, submitted, thread, lost, puts>>

\* dispatchWorker.interrupt(); threadPool.shutdown()
Shutdown(n) ==
  /\ mode[n] = "stopping"
  /\ mode' = [mode EXCEPT ![n] = "shutdown"]
  /\ UNCHANGED <<redis, disp, idle, task, submitted, thread, lost, counters>>

\* threadPool.shutdownNow(), after awaitTermination: the Tasks that wait for a
\* thread never run.
ShutdownNow(n) ==
  /\ mode[n] = "shutdown"
  /\ mode' = [mode EXCEPT ![n] = "halted"]
  /\ submitted' = [submitted EXCEPT ![n] = <<>>]
  /\ UNCHANGED <<redis, disp, idle, task, thread, lost, counters>>

\* The process dies.
Crash(n) ==
  /\ mode[n] # "crashed"
  /\ faults < MaxFaults
  /\ mode' = [mode EXCEPT ![n] = "crashed"]
  /\ disp' = [disp EXCEPT ![n] = Dismissed("dead")]
  /\ submitted' = [submitted EXCEPT ![n] = <<>>]
  /\ thread' = [w \in Threads |-> IF Home[w] = n THEN IdleThread ELSE thread[w]]
  /\ faults' = faults + 1
  /\ UNCHANGED <<redis, idle, task, lost, puts>>

-----------------------------------------------------------------------------
Dispatch(n) ==
  \/ Take(n) \/ Borrow(n) \/ SetTime(n) \/ AddToRunningTask(n)
  \/ Submit(n) \/ PutBack(n) \/ Exit(n)

Run(w) ==
  \/ Start(w) \/ Succeed(w) \/ Fail(w) \/ Wake(w) \/ Interrupted(w)
  \/ ReturnObject(w) \/ ReadData(w) \/ ReadTime(w) \/ Delete(w)

Next ==
  \/ \E d \in Data : Expire(d)
  \/ \E n \in Nodes :
       \/ \E d \in Data : CallPut(n, d)
       \/ Dispatch(n) \/ DispatcherFails(n)
       \/ Stop(n) \/ Shutdown(n) \/ ShutdownNow(n) \/ Crash(n)
  \/ \E w \in Threads : Run(w) \/ DeleteFails(w)

\* The dispatchers and the threads keep running, and Redis times keys out.
\* Nobody has to call put(), stop(), or fail.
Fairness ==
  /\ \A d \in Data : WF_vars(Expire(d))
  /\ \A n \in Nodes : WF_vars(Dispatch(n))
  /\ \A w \in Threads : WF_vars(Run(w))

Safety == Init /\ [][Next]_vars

Spec == Safety /\ Fairness

-----------------------------------------------------------------------------
(* Properties.                                                             *)

TypeOK ==
  /\ queue \in Seq(Data) /\ keys \in SUBSET Data
  /\ running \in [Data -> Times \cup {None}]
  /\ mode \in [Nodes -> {"up", "stopping", "shutdown", "halted", "crashed"}]
  /\ disp \in [Nodes -> Dispatchers]
  /\ idle \in SUBSET Objects
  /\ task \in [Objects -> Tasks]
  /\ submitted \in [Nodes -> Seq(Objects)]
  /\ thread \in [Threads -> ThreadStates]
  /\ lost \in SUBSET Data
  /\ puts \in 0..MaxPuts /\ faults \in 0..MaxFaults

\* A datum waits at most once, and the hash says exactly which data wait
\* (NonRepeatWorkerUserRedis.java:29 and the two scripts of lines 37-51).
QueueMatchesKeys ==
  /\ keys = {queue[i] : i \in DOMAIN queue}
  /\ \A i, j \in DOMAIN queue : queue[i] = queue[j] => i = j

\* Thread w is inside process(d).
Processing(w, d) == thread[w].data = d /\ thread[w].at \in {"process", "sleep"}

\* "At any time one datum is processed by one task only"
\* (NonRepeatWorkerUserRedis.java:28).
OneTaskPerDatum ==
  \A d \in Data, w, v \in Threads : Processing(w, d) /\ Processing(v, d) => w = v

\* A datum has at most one run, and its running key with it, until that key is
\* taken away: by a timeout within the run, or by another run that ends with a
\* Task object reused in the meantime (NonRepeatWorkerUserRedis.java:402-403).
OneRunUntilKeyLost ==
  \A d \in Data \ lost : \A r, s \in Runs(d) : r = s

\* Where Task object o is: in the pool, with a dispatcher, waiting for a
\* thread, or with a thread that has not returned it.
Places(o) ==
  {p \in {<<"pool">>} : o \in idle}
  \cup {<<"dispatcher", n>> : n \in {m \in Nodes : disp[m].obj = o}}
  \cup (UNION {{<<"submitted", n, i>> : i \in {j \in DOMAIN submitted[n] : submitted[n][j] = o}}
                : n \in Nodes})
  \cup {<<"thread", w>> :
          w \in {v \in Threads : /\ thread[v].obj = o
                                 /\ thread[v].at \in {"process", "sleep", "return"}}}

\* A Task object is never handed out twice, and none leaks while the dispatcher
\* of a node that is not stopped lives.
ObjectsAccounted ==
  \A o \in Objects :
    /\ \A x, y \in Places(o) : x = y
    /\ mode[Home[o]] = "up" /\ disp[Home[o]].at # "dead" => Places(o) # {}

\* d waits to be processed somewhere.
Waiting(d) ==
  \/ \E i \in DOMAIN queue : queue[i] = d
  \/ \E n \in Nodes : disp[n].data = d
  \/ \E n \in Nodes : \E i \in DOMAIN submitted[n] : task[submitted[n][i]].data = d

\* Node n has taken d and not yet started to process it.
Holds(n, d) ==
  \/ disp[n].data = d
  \/ \E i \in DOMAIN submitted[n] : task[submitted[n][i]].data = d

\* A datum that was put stops waiting only when a thread starts to process it,
\* or when a node that holds it, or is just popping it, is stopped, dies, or has
\* a call fail: other nodes' stops and failures do not touch it.
NothingVanishes ==
  [][\A d \in Data :
       Waiting(d) /\ ~Waiting(d)' =>
         \/ \E w \in Threads : ~Processing(w, d) /\ Processing(w, d)'
         \/ \E n \in Nodes :
              Holds(n, d) /\ (faults' > faults \/ mode[n] \in {"stopping", "shutdown", "halted"})
         \/ faults' > faults /\ d = Head(queue)]_vars

\* As long as one dispatcher lives, a queued datum does not wait for ever: not
\* because another node stopped or died, nor because a running key was left
\* behind by it, by a failed call or by an earlier run.
QueuedIsServed ==
  \A d \in Data :
    d \in keys ~> \/ ~Waiting(d) \/ \E w \in Threads : Processing(w, d)
                  \/ \A n \in Nodes : disp[n].at = "dead"
=============================================================================

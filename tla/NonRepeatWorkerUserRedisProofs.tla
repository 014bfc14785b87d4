------------------- MODULE NonRepeatWorkerUserRedisProofs -------------------
(***************************************************************************)
(* Proofs about NonRepeatWorkerUserRedis, for every set of nodes, threads, *)
(* Task objects and data.                                                  *)
(***************************************************************************)
EXTENDS NonRepeatWorkerUserRedis, TLAPS

USE WorkerAssumption DEF WorkerAssumption

\* The part of the state that lives in Redis.
QueueInv ==
  /\ queue \in Seq(Data) /\ keys \in SUBSET Data
  /\ QueueMatchesKeys

\* TASK_ADD_SCRIPT keeps the list and the hash in step.
LEMMA AddTaskInv ==
  ASSUME QueueInv, NEW d \in Data, AddTask(d)
  PROVE  QueueInv'
<1>1. CASE d \in keys
  BY <1>1 DEF AddTask, QueueInv, QueueMatchesKeys
<1>2. CASE d \notin keys
  <2>1. queue' = Append(queue, d) /\ keys' = keys \cup {d}
    BY <1>2 DEF AddTask
  <2>2. /\ queue \in Seq(Data) /\ queue' \in Seq(Data) /\ keys' \in SUBSET Data
        /\ Len(queue) \in Nat /\ Len(queue') = Len(queue) + 1
        /\ DOMAIN queue = 1..Len(queue) /\ DOMAIN queue' = 1..(Len(queue) + 1)
    BY <2>1 DEF QueueInv
  <2>3. /\ \A i \in 1..Len(queue) : queue'[i] = queue[i]
        /\ queue'[Len(queue) + 1] = d
    BY <2>1, <2>2
  <2>4. \A i \in 1..Len(queue) : queue[i] \in keys
    BY <2>2 DEF QueueInv, QueueMatchesKeys
  <2>5. keys' = {queue'[i] : i \in DOMAIN queue'}
    <3>1. ASSUME NEW x \in keys' PROVE \E i \in DOMAIN queue' : x = queue'[i]
      <4>1. CASE x = d BY <4>1, <2>2, <2>3
      <4>2. CASE x # d
        <5>1. x \in keys BY <4>2, <2>1
        <5>2. PICK i \in DOMAIN queue : x = queue[i]
          BY <5>1 DEF QueueInv, QueueMatchesKeys
        <5> QED BY <5>2, <2>2, <2>3
      <4> QED BY <4>1, <4>2
    <3>2. ASSUME NEW i \in DOMAIN queue' PROVE queue'[i] \in keys'
      BY <2>1, <2>2, <2>3, <2>4
    <3> QED BY <3>1, <3>2
  <2>6. \A i, j \in DOMAIN queue' : queue'[i] = queue'[j] => i = j
    <3> SUFFICES ASSUME NEW i \in DOMAIN queue', NEW j \in DOMAIN queue',
                        queue'[i] = queue'[j]
                 PROVE  i = j
      OBVIOUS
    <3>1. CASE i \in 1..Len(queue) /\ j \in 1..Len(queue)
      BY <3>1, <2>2, <2>3 DEF QueueInv, QueueMatchesKeys
    <3>2. CASE i = Len(queue) + 1 \/ j = Len(queue) + 1
      BY <3>2, <1>2, <2>2, <2>3, <2>4
    <3> QED BY <3>1, <3>2, <2>2
  <2> QED BY <2>2, <2>5, <2>6 DEF QueueInv, QueueMatchesKeys
<1> QED BY <1>1, <1>2

\* So does TASK_TAKE_SCRIPT.
LEMMA TakeTaskInv ==
  ASSUME QueueInv, TakeTask
  PROVE  QueueInv'
<1>1. /\ queue # <<>> /\ queue' = Tail(queue) /\ keys' = keys \ {Head(queue)}
  BY DEF TakeTask
<1>2. /\ queue \in Seq(Data) /\ queue' \in Seq(Data) /\ keys' \in SUBSET Data
      /\ Len(queue) \in Nat \ {0} /\ Len(queue') = Len(queue) - 1
      /\ DOMAIN queue = 1..Len(queue) /\ DOMAIN queue' = 1..(Len(queue) - 1)
      /\ Head(queue) = queue[1]
  BY <1>1 DEF QueueInv
<1>3. \A i \in 1..(Len(queue) - 1) : queue'[i] = queue[i + 1]
  BY <1>1, <1>2
<1>4. \A i, j \in 1..Len(queue) : queue[i] = queue[j] => i = j
  BY <1>2 DEF QueueInv, QueueMatchesKeys
<1>5. keys' = {queue'[i] : i \in DOMAIN queue'}
  <2>1. ASSUME NEW x \in keys' PROVE \E i \in DOMAIN queue' : x = queue'[i]
    <3>1. PICK i \in 1..Len(queue) : x = queue[i]
      BY <1>1, <1>2 DEF QueueInv, QueueMatchesKeys
    <3>2. i # 1 BY <3>1, <1>1, <1>2
    <3>3. i - 1 \in 1..(Len(queue) - 1) /\ (i - 1) + 1 = i BY <3>2, <1>2
    <3> QED BY <3>1, <3>3, <1>2, <1>3
  <2>2. ASSUME NEW i \in DOMAIN queue' PROVE queue'[i] \in keys'
    <3>1. i + 1 \in 1..Len(queue) /\ i + 1 # 1 BY <1>2
    <3>2. queue[i + 1] \in keys /\ queue[i + 1] # queue[1]
      BY <3>1, <1>2, <1>4 DEF QueueInv, QueueMatchesKeys
    <3> QED BY <3>2, <1>1, <1>2, <1>3
  <2> QED BY <2>1, <2>2
<1>6. \A i, j \in DOMAIN queue' : queue'[i] = queue'[j] => i = j
  BY <1>2, <1>3, <1>4
<1> QED BY <1>2, <1>5, <1>6 DEF QueueInv, QueueMatchesKeys

-----------------------------------------------------------------------------
(* Types.                                                                  *)

\* A dispatcher, a waiting Task and a thread that are at work have their data.
Loaded ==
  /\ \A n \in Nodes :
       /\ disp[n].at \notin {"take", "dead"} => disp[n].data \in Data
       /\ disp[n].at \notin {"take", "borrow", "dead"} =>
            disp[n].obj \in Objects /\ task[disp[n].obj].data \in Data
  /\ \A n \in Nodes : \A i \in DOMAIN submitted[n] : task[submitted[n][i]].data \in Data
  /\ \A w \in Threads :
       /\ thread[w].at # "idle" =>
            /\ thread[w].obj \in Objects /\ thread[w].data \in Data
            /\ task[thread[w].obj].data \in Data
       /\ thread[w].at \in {"readtime", "delete"} => thread[w].key \in Data

BaseInv == TypeOK /\ Loaded /\ QueueInv

\* One record of a function of records is replaced.
LEMMA DispUpdate ==
  ASSUME disp \in [Nodes -> Dispatchers], NEW n \in Nodes, NEW r \in Dispatchers,
         disp' = [disp EXCEPT ![n] = r]
  PROVE  /\ disp' \in [Nodes -> Dispatchers]
         /\ disp'[n] = r
         /\ \A m \in Nodes \ {n} : disp'[m] = disp[m]
  OBVIOUS

\* What EXCEPT makes of the state of one thread: only that thread changes.
LEMMA ThreadUpdate ==
  ASSUME thread \in [Threads -> ThreadStates], NEW w \in Threads, NEW r \in ThreadStates,
         thread' = [thread EXCEPT ![w] = r]
  PROVE  /\ thread' \in [Threads -> ThreadStates]
         /\ thread'[w] = r
         /\ \A v \in Threads \ {w} : thread'[v] = thread[v]
  OBVIOUS

\* The rest of the state keeps its type and its data when only one thread moves.
LEMMA ThreadMoves ==
  ASSUME BaseInv, NEW w \in Threads, NEW r \in ThreadStates,
         thread' = [thread EXCEPT ![w] = r],
         UNCHANGED <<running, mode, disp, task, submitted, lost, puts>>,
         idle' \in SUBSET Objects, faults' \in 0..MaxFaults,
         QueueInv',
         r.at # "idle" => r.obj \in Objects /\ r.data \in Data /\ task[r.obj].data \in Data,
         r.at \in {"readtime", "delete"} => r.key \in Data
  PROVE  BaseInv'
<1> USE DEF BaseInv
<1>1. /\ thread' \in [Threads -> ThreadStates] /\ thread'[w] = r
      /\ \A v \in Threads \ {w} : thread'[v] = thread[v]
  BY ThreadUpdate DEF TypeOK
<1>2. TypeOK' BY <1>1 DEF TypeOK, QueueInv
<1>3. Loaded' BY <1>1 DEF Loaded
<1> QED BY <1>2, <1>3

\* Likewise when only one dispatcher moves.
LEMMA DispMoves ==
  ASSUME BaseInv, NEW n \in Nodes, NEW r \in Dispatchers,
         disp' = [disp EXCEPT ![n] = r],
         UNCHANGED <<mode, task, thread, lost, puts>>,
         running' \in [Data -> Times \cup {None}],
         idle' \in SUBSET Objects,
         faults' \in 0..MaxFaults,
         QueueInv',
         \/ submitted' = submitted
         \/ submitted' = [submitted EXCEPT ![n] = Append(@, disp[n].obj)] /\ disp[n].at = "submit",
         r.at \notin {"take", "dead"} => r.data \in Data,
         r.at \notin {"take", "borrow", "dead"} => r.obj \in Objects /\ task[r.obj].data \in Data
  PROVE  BaseInv'
<1> USE DEF BaseInv
<1>1. /\ disp' \in [Nodes -> Dispatchers] /\ disp'[n] = r
      /\ \A m \in Nodes \ {n} : disp'[m] = disp[m]
  BY DispUpdate DEF TypeOK
<1>2. /\ submitted' \in [Nodes -> Seq(Objects)]
      /\ \A m \in Nodes : \A i \in DOMAIN submitted'[m] : task[submitted'[m][i]].data \in Data
  <2>1. CASE submitted' = submitted BY <2>1 DEF TypeOK, Loaded
  <2>2. CASE submitted' = [submitted EXCEPT ![n] = Append(@, disp[n].obj)] /\ disp[n].at = "submit"
    <3>1. disp[n].obj \in Objects /\ task[disp[n].obj].data \in Data
      BY <2>2 DEF Loaded
    <3>2. \A m \in Nodes : submitted'[m] = IF m = n THEN Append(submitted[n], disp[n].obj)
                                                     ELSE submitted[m]
      BY <2>2 DEF TypeOK
    <3>3. submitted[n] \in Seq(Objects) BY DEF TypeOK
    <3>4. submitted' \in [Nodes -> Seq(Objects)]
      BY <2>2, <3>1, <3>3 DEF TypeOK
    <3>5. \A i \in DOMAIN submitted'[n] : task[submitted'[n][i]].data \in Data
      <4>1. /\ DOMAIN submitted'[n] = 1..(Len(submitted[n]) + 1) /\ Len(submitted[n]) \in Nat
            /\ DOMAIN submitted[n] = 1..Len(submitted[n])
            /\ submitted'[n][Len(submitted[n]) + 1] = disp[n].obj
            /\ \A i \in 1..Len(submitted[n]) : submitted'[n][i] = submitted[n][i]
        <5> DEFINE q == submitted[n]
                   o == disp[n].obj
        <5>1. q \in Seq(Objects) /\ o \in Objects BY <3>1, <3>3
        <5>2. submitted'[n] = Append(q, o) BY <3>2
        <5> HIDE DEF q, o
        <5>3. /\ DOMAIN Append(q, o) = 1..(Len(q) + 1) /\ Len(q) \in Nat
              /\ DOMAIN q = 1..Len(q) /\ Append(q, o)[Len(q) + 1] = o
              /\ \A i \in 1..Len(q) : Append(q, o)[i] = q[i]
          BY <5>1
        <5> QED BY <5>2, <5>3 DEF q, o
      <4>2. \A i \in 1..Len(submitted[n]) : task[submitted[n][i]].data \in Data
        BY <4>1 DEF Loaded
      <4>3. \A i \in 1..(Len(submitted[n]) + 1) :
              i \in 1..Len(submitted[n]) \/ i = Len(submitted[n]) + 1
        BY <4>1
      <4> QED BY <4>1, <4>2, <4>3, <3>1
    <3> QED BY <3>2, <3>4, <3>5 DEF Loaded
  <2> QED BY <2>1, <2>2
<1>3. TypeOK' BY <1>1, <1>2 DEF TypeOK, QueueInv
<1>4. Loaded' BY <1>1, <1>2 DEF Loaded
<1> QED BY <1>3, <1>4

\* put() keeps the list and the hash in step.
LEMMA PutInv ==
  ASSUME QueueInv, faults \in 0..MaxFaults, NEW n \in Nodes, NEW d \in Data, Put(n, d)
  PROVE  QueueInv' /\ faults' \in 0..MaxFaults
<1>1. QueueInv'
  <2>1. CASE AddTask(d) BY <2>1, AddTaskInv
  <2>2. CASE UNCHANGED <<queue, keys>> BY <2>2 DEF QueueInv, QueueMatchesKeys
  <2> QED BY <2>1, <2>2 DEF Put
<1>2. faults' = faults \/ (faults < MaxFaults /\ faults' = faults + 1) BY DEF Put
<1> QED BY <1>1, <1>2, WorkerAssumption DEF WorkerAssumption

\* A datum that is written into a Task object stays there for its thread.
LEMMA LoadedKept ==
  ASSUME BaseInv, NEW n \in Nodes,
         \A p \in Objects : task[p].data \in Data => task'[p].data \in Data,
         \A m \in Nodes \ {n} : disp'[m] = disp[m],
         UNCHANGED <<submitted, thread>>,
         disp'[n].at \notin {"take", "dead"} => disp'[n].data \in Data,
         disp'[n].at \notin {"take", "borrow", "dead"} =>
           disp'[n].obj \in Objects /\ task'[disp'[n].obj].data \in Data
  PROVE  Loaded'
<1> USE DEF BaseInv
<1>1. ASSUME NEW m \in Nodes
      PROVE  /\ disp'[m].at \notin {"take", "dead"} => disp'[m].data \in Data
             /\ disp'[m].at \notin {"take", "borrow", "dead"} =>
                  disp'[m].obj \in Objects /\ task'[disp'[m].obj].data \in Data
  <2>1. CASE m = n BY <2>1
  <2>2. CASE m # n BY <2>2 DEF Loaded
  <2> QED BY <2>1, <2>2
<1>2. ASSUME NEW m \in Nodes, NEW i \in DOMAIN submitted'[m]
      PROVE  task'[submitted'[m][i]].data \in Data
  <2>1. submitted[m][i] \in Objects BY DEF TypeOK
  <2> QED BY <2>1 DEF Loaded
<1>3. ASSUME NEW w \in Threads
      PROVE  /\ thread'[w].at # "idle" =>
                  /\ thread'[w].obj \in Objects /\ thread'[w].data \in Data
                  /\ task'[thread'[w].obj].data \in Data
             /\ thread'[w].at \in {"readtime", "delete"} => thread'[w].key \in Data
  BY DEF Loaded
<1> QED BY <1>1, <1>2, <1>3 DEF Loaded

\* At the start everything is empty or idle.
LEMMA InitBase == Init => BaseInv
<1> SUFFICES ASSUME Init PROVE BaseInv
  OBVIOUS
<1>1. QueueInv BY DEF Init, QueueInv, QueueMatchesKeys
<1>2. /\ disp \in [Nodes -> Dispatchers] /\ task \in [Objects -> Tasks]
      /\ thread \in [Threads -> ThreadStates] /\ submitted \in [Nodes -> Seq(Objects)]
  BY DEF Init, Dispatchers, Tasks, ThreadStates, IdleThread
<1>3. /\ running \in [Data -> Times \cup {None}] /\ idle \in SUBSET Objects
      /\ mode \in [Nodes -> {"up", "stopping", "shutdown", "halted", "crashed"}]
      /\ lost \in SUBSET Data /\ puts \in 0..MaxPuts /\ faults \in 0..MaxFaults
  BY DEF Init
<1>4. TypeOK BY <1>1, <1>2, <1>3 DEF TypeOK, QueueInv
<1>5. Loaded BY DEF Init, Loaded, IdleThread
<1> QED BY <1>1, <1>4, <1>5 DEF BaseInv

\* The steps of a dispatcher.
LEMMA DispatcherStep ==
  ASSUME BaseInv, NEW n \in Nodes, Dispatch(n) \/ DispatcherFails(n)
  PROVE  BaseInv'
<1> USE DEF BaseInv
<1>0. /\ disp[n] \in Dispatchers /\ QueueInv
      /\ UNCHANGED <<queue, keys>> => QueueInv'
  BY DEF TypeOK, QueueInv, QueueMatchesKeys
<1>d. \A step \in {"take", "dead"} : Dismissed(step) \in Dispatchers
  BY DEF Dismissed, Dispatchers
<1>1. CASE Take(n)
  <2> DEFINE r == [disp[n] EXCEPT !.at = "borrow", !.data = Head(queue)]
  <2>1. Head(queue) \in Data BY <1>1 DEF Take, TakeTask, QueueInv
  <2>2. r \in Dispatchers /\ r.at = "borrow" /\ r.data = Head(queue)
    BY <1>0, <2>1 DEF Dispatchers
  <2>3. disp' = [disp EXCEPT ![n] = r] BY <1>1 DEF Take
  <2>4. QueueInv' BY <1>1, TakeTaskInv DEF Take
  <2>5. /\ UNCHANGED <<mode, task, thread, lost, puts, running, idle, faults, submitted>>
    BY <1>1 DEF Take, counters
  <2> QED BY <2>1, <2>2, <2>3, <2>4, <2>5, DispMoves DEF TypeOK
<1>2. CASE Borrow(n)
  <2>1. PICK o \in idle :
          /\ idle' = idle \ {o}
          /\ disp' = [disp EXCEPT ![n].at = "settime", ![n].obj = o]
          /\ task' = [task EXCEPT ![o].data = disp[n].data]
    BY <1>2 DEF Borrow
  <2>2. /\ o \in Objects /\ disp[n].at = "borrow" /\ disp[n].data \in Data
        /\ UNCHANGED <<queue, keys, running, mode, submitted, thread, lost, puts, faults>>
    BY <1>2 DEF Borrow, At, TypeOK, Loaded, redis, counters
  <2> DEFINE r == [disp[n] EXCEPT !.at = "settime", !.obj = o]
  <2>3. r \in Dispatchers /\ r.at = "settime" /\ r.obj = o /\ r.data = disp[n].data
    BY <1>0, <2>2 DEF Dispatchers
  <2>4. disp' = [disp EXCEPT ![n] = r] BY <2>1
  <2>5. /\ disp' \in [Nodes -> Dispatchers] /\ disp'[n] = r
        /\ \A m \in Nodes \ {n} : disp'[m] = disp[m]
    BY <2>3, <2>4, DispUpdate DEF TypeOK
  <2>6. /\ task' \in [Objects -> Tasks]
        /\ \A p \in Objects : task'[p].data \in {task[p].data, disp[n].data}
        /\ task'[o].data = disp[n].data
    <3>1. task \in [Objects -> Tasks] BY DEF TypeOK
    <3> QED BY <2>1, <2>2, <3>1 DEF Tasks
  <2>7. TypeOK' BY <1>0, <2>1, <2>2, <2>5, <2>6 DEF TypeOK
  <2>8. Loaded'
    <3>1. \A p \in Objects : task[p].data \in Data => task'[p].data \in Data
      BY <2>2, <2>6
    <3>2. disp'[n].obj \in Objects /\ disp'[n].data \in Data /\ task'[disp'[n].obj].data \in Data
      BY <2>2, <2>3, <2>5, <2>6
    <3> QED BY <2>2, <2>5, <3>1, <3>2, LoadedKept
  <2> QED BY <1>0, <2>2, <2>7, <2>8
<1>3. CASE SetTime(n)
  <2>1. PICK t \in Times : task' = [task EXCEPT ![disp[n].obj].time = t]
    BY <1>3 DEF SetTime
  <2>2. /\ disp[n].at = "settime" /\ disp[n].data \in Data
        /\ disp[n].obj \in Objects /\ task[disp[n].obj].data \in Data
        /\ UNCHANGED <<queue, keys, running, mode, idle, submitted, thread, lost, puts, faults>>
    BY <1>3 DEF SetTime, At, Loaded, redis, counters
  <2> DEFINE r == [disp[n] EXCEPT !.at = "add"]
  <2>3. r \in Dispatchers /\ r.at = "add" /\ r.obj = disp[n].obj /\ r.data = disp[n].data
    BY <1>0 DEF Dispatchers
  <2>4. disp' = [disp EXCEPT ![n] = r] BY <1>3 DEF SetTime
  <2>5. /\ disp' \in [Nodes -> Dispatchers] /\ disp'[n] = r
        /\ \A m \in Nodes \ {n} : disp'[m] = disp[m]
    BY <2>3, <2>4, DispUpdate DEF TypeOK
  <2>6. /\ task' \in [Objects -> Tasks]
        /\ \A p \in Objects : task'[p].data = task[p].data
    <3>1. task \in [Objects -> Tasks] BY DEF TypeOK
    <3> QED BY <2>1, <2>2, <3>1 DEF Tasks
  <2>7. TypeOK' BY <1>0, <2>2, <2>5, <2>6 DEF TypeOK
  <2>8. Loaded'
    <3>1. \A p \in Objects : task[p].data \in Data => task'[p].data \in Data
      BY <2>6
    <3> QED BY <2>2, <2>3, <2>5, <2>6, <3>1, LoadedKept
  <2> QED BY <1>0, <2>2, <2>7, <2>8
<1>4. CASE AddToRunningTask(n)
  <2>1. /\ disp[n].at = "add" /\ disp[n].data \in Data
        /\ disp[n].obj \in Objects /\ task[disp[n].obj].data \in Data
        /\ UNCHANGED <<queue, keys, mode, idle, task, submitted, thread, lost, puts, faults>>
    BY <1>4 DEF AddToRunningTask, At, Loaded, counters
  <2>2. PICK step \in {"submit", "putback"} : disp' = [disp EXCEPT ![n].at = step]
    BY <1>4 DEF AddToRunningTask
  <2> DEFINE r == [disp[n] EXCEPT !.at = step]
  <2>3. r \in Dispatchers /\ r.obj = disp[n].obj /\ r.data = disp[n].data
    BY <1>0 DEF Dispatchers
  <2>4. disp' = [disp EXCEPT ![n] = r] BY <2>2
  <2>5. running' \in [Data -> Times \cup {None}]
    <3>1. task[disp[n].obj].time \in Times \cup {None} BY <2>1 DEF TypeOK, Tasks
    <3> QED BY <1>4, <2>1, <3>1 DEF AddToRunningTask, TypeOK
  <2> QED BY <1>0, <2>1, <2>3, <2>4, <2>5, DispMoves DEF TypeOK
<1>5. CASE Submit(n)
  <2>1. /\ disp[n].at = "submit"
        /\ UNCHANGED <<queue, keys, running, mode, idle, task, thread, lost, puts, faults>>
    BY <1>5 DEF Submit, At, redis, counters
  <2>2. PICK step \in {"take", "dead"} : disp' = [disp EXCEPT ![n] = Dismissed(step)]
    BY <1>5 DEF Submit
  <2>3. \/ submitted' = submitted
        \/ submitted' = [submitted EXCEPT ![n] = Append(@, disp[n].obj)]
    BY <1>5 DEF Submit
  <2>4. Dismissed(step) \in Dispatchers /\ Dismissed(step).at \in {"take", "dead"}
    BY <1>d DEF Dismissed
  <2> QED BY <1>0, <2>1, <2>2, <2>3, <2>4, DispMoves DEF TypeOK
<1>6. CASE PutBack(n)
  <2>1. /\ disp[n].at = "putback" /\ disp[n].data \in Data /\ disp[n].obj \in Objects
        /\ UNCHANGED <<running, mode, task, submitted, thread, lost, puts>>
        /\ idle' = idle \cup {disp[n].obj}
    BY <1>6 DEF PutBack, At, Loaded
  <2>2. PICK step \in {"take", "dead"} : disp' = [disp EXCEPT ![n] = Dismissed(step)]
    BY <1>6 DEF PutBack, Loop
  <2>3. QueueInv' /\ faults' \in 0..MaxFaults BY <1>6, <2>1, PutInv DEF PutBack, TypeOK
  <2>4. Dismissed(step) \in Dispatchers /\ Dismissed(step).at \in {"take", "dead"}
    BY <1>d DEF Dismissed
  <2> QED BY <2>1, <2>2, <2>3, <2>4, DispMoves DEF TypeOK
<1>7. CASE Exit(n)
  <2>1. UNCHANGED <<queue, keys, running, mode, idle, task, submitted, thread, lost, puts, faults>>
    BY <1>7 DEF Exit, redis, counters
  <2>2. Dismissed("dead") \in Dispatchers /\ Dismissed("dead").at = "dead"
    BY <1>d DEF Dismissed
  <2>3. disp' = [disp EXCEPT ![n] = Dismissed("dead")] BY <1>7 DEF Exit
  <2> QED BY <1>0, <2>1, <2>2, <2>3, DispMoves DEF TypeOK
<1>8. CASE DispatcherFails(n)
  <2>1. /\ UNCHANGED <<mode, idle, task, submitted, thread, lost, puts>>
        /\ faults < MaxFaults /\ faults' = faults + 1
        /\ disp' = [disp EXCEPT ![n] = Dismissed("dead")]
    BY <1>8 DEF DispatcherFails
  <2>2. Dismissed("dead") \in Dispatchers /\ Dismissed("dead").at = "dead"
    BY <1>d DEF Dismissed
  <2>3. QueueInv' BY <1>0, <1>8, TakeTaskInv DEF DispatcherFails
  <2>4. running' \in [Data -> Times \cup {None}]
    <3>1. At(n, "add") =>
            disp[n].data \in Data /\ task[disp[n].obj].time \in Times \cup {None}
      BY DEF At, Loaded, TypeOK, Tasks
    <3>2. running \in [Data -> Times \cup {None}] BY DEF TypeOK
    <3> QED BY <1>8, <3>1, <3>2 DEF DispatcherFails
  <2>5. faults' \in 0..MaxFaults BY <2>1 DEF TypeOK
  <2> QED BY <2>1, <2>2, <2>3, <2>4, <2>5, DispMoves DEF TypeOK
<1> QED BY <1>1, <1>2, <1>3, <1>4, <1>5, <1>6, <1>7, <1>8 DEF Dispatch

\* GiveUp() keeps the list and the hash in step.
LEMMA GiveUpInv ==
  ASSUME QueueInv, faults \in 0..MaxFaults, NEW w \in Threads, thread[w].data \in Data, GiveUp(w)
  PROVE  QueueInv' /\ faults' \in 0..MaxFaults
<1>1. Home[w] \in Nodes OBVIOUS
<1>2. CASE ReputInQueue BY <1>1, <1>2, PutInv DEF GiveUp
<1>3. CASE ~ReputInQueue BY <1>3 DEF GiveUp, QueueInv, QueueMatchesKeys
<1> QED BY <1>2, <1>3

\* The steps of a thread that change nothing but its own record, the pool and
\* the queue.
LEMMA ThreadStep ==
  ASSUME BaseInv, NEW w \in Threads,
         \/ Succeed(w) \/ Fail(w) \/ Wake(w) \/ Interrupted(w)
         \/ ReturnObject(w) \/ ReadData(w) \/ ReadTime(w)
  PROVE  BaseInv'
<1> USE DEF BaseInv
<1>0. /\ thread[w] \in ThreadStates /\ QueueInv /\ thread[w].at # "idle"
      /\ UNCHANGED <<queue, keys>> => QueueInv'
      /\ thread[w].obj \in Objects /\ thread[w].data \in Data
      /\ task[thread[w].obj].data \in Data
      /\ task[thread[w].obj].time \in Times \cup {None}
  <2>1. thread[w].at # "idle"
    BY DEF Succeed, Fail, Wake, Interrupted, ReturnObject, ReadData, ReadTime, ThreadAt
  <2>2. thread[w].obj \in Objects BY <2>1 DEF Loaded
  <2> QED BY <2>1, <2>2 DEF TypeOK, QueueInv, QueueMatchesKeys, Loaded, Tasks
<1>1. CASE Succeed(w) \/ Interrupted(w)
  <2> DEFINE r == [thread[w] EXCEPT !.at = "return"]
  <2>1. r \in ThreadStates /\ r.at = "return" /\ r.obj = thread[w].obj /\ r.data = thread[w].data
    BY <1>0 DEF ThreadStates
  <2>2. /\ thread' = [thread EXCEPT ![w] = r]
        /\ UNCHANGED <<queue, keys, running, mode, disp, idle, task, submitted, lost, puts, faults>>
    BY <1>1 DEF Succeed, Interrupted, redis, counters
  <2> QED BY <1>0, <2>1, <2>2, ThreadMoves DEF TypeOK
<1>2. CASE Fail(w) \/ Wake(w)
  <2>1. UNCHANGED <<running, mode, disp, idle, task, submitted, lost, puts>>
    BY <1>2 DEF Fail, Wake
  <2>2. CASE GiveUp(w)
    <3> DEFINE r == [thread[w] EXCEPT !.at = "return"]
    <3>1. r \in ThreadStates /\ r.at = "return" /\ r.obj = thread[w].obj /\ r.data = thread[w].data
      BY <1>0 DEF ThreadStates
    <3>2. thread' = [thread EXCEPT ![w] = r] BY <2>2 DEF GiveUp
    <3>3. QueueInv' /\ faults' \in 0..MaxFaults BY <1>0, <2>2, GiveUpInv DEF TypeOK
    <3> QED BY <1>0, <2>1, <3>1, <3>2, <3>3, ThreadMoves DEF TypeOK
  <2>3. CASE /\ thread[w].tries < MaxRetryTimes[Home[w]]
             /\ thread' = [thread EXCEPT ![w].at = "sleep", ![w].tries = @ + 1]
             /\ UNCHANGED <<queue, keys, faults>>
    <3> DEFINE r == [thread[w] EXCEPT !.at = "sleep", !.tries = @ + 1]
    <3>1. thread[w].tries + 1 \in Nat BY <1>0, <2>3 DEF ThreadStates
    <3>2. r \in ThreadStates /\ r.at = "sleep" /\ r.obj = thread[w].obj /\ r.data = thread[w].data
      BY <1>0, <3>1 DEF ThreadStates
    <3>3. thread' = [thread EXCEPT ![w] = r] BY <2>3
    <3> QED BY <1>0, <2>1, <2>3, <3>2, <3>3, ThreadMoves DEF TypeOK
  <2>4. CASE /\ thread' = [thread EXCEPT ![w].at = "process"]
             /\ UNCHANGED <<queue, keys, faults>>
    <3> DEFINE r == [thread[w] EXCEPT !.at = "process"]
    <3>1. r \in ThreadStates /\ r.at = "process" /\ r.obj = thread[w].obj /\ r.data = thread[w].data
      BY <1>0 DEF ThreadStates
    <3>2. thread' = [thread EXCEPT ![w] = r] BY <2>4
    <3> QED BY <1>0, <2>1, <2>4, <3>1, <3>2, ThreadMoves DEF TypeOK
  <2> QED BY <1>2, <2>2, <2>3, <2>4 DEF Fail, Wake
<1>3. CASE ReturnObject(w)
  <2> DEFINE r == [thread[w] EXCEPT !.at = "readdata"]
  <2>1. r \in ThreadStates /\ r.at = "readdata" /\ r.obj = thread[w].obj /\ r.data = thread[w].data
    BY <1>0 DEF ThreadStates
  <2>2. /\ thread' = [thread EXCEPT ![w] = r] /\ idle' = idle \cup {thread[w].obj}
        /\ UNCHANGED <<queue, keys, running, mode, disp, task, submitted, lost, puts, faults>>
    BY <1>3 DEF ReturnObject, redis, counters
  <2>3. idle' \in SUBSET Objects BY <1>0, <2>2 DEF TypeOK
  <2> QED BY <1>0, <2>1, <2>2, <2>3, ThreadMoves DEF TypeOK
<1>4. CASE ReadData(w)
  <2> DEFINE r == [thread[w] EXCEPT !.at = "readtime", !.key = task[thread[w].obj].data]
  <2>1. /\ r \in ThreadStates /\ r.at = "readtime" /\ r.obj = thread[w].obj
        /\ r.data = thread[w].data /\ r.key \in Data
    BY <1>0 DEF ThreadStates
  <2>2. /\ thread' = [thread EXCEPT ![w] = r]
        /\ UNCHANGED <<queue, keys, running, mode, disp, idle, task, submitted, lost, puts, faults>>
    BY <1>4 DEF ReadData, redis, counters
  <2> QED BY <1>0, <2>1, <2>2, ThreadMoves DEF TypeOK
<1>5. CASE ReadTime(w)
  <2> DEFINE r == [thread[w] EXCEPT !.at = "delete", !.time = task[thread[w].obj].time]
  <2>1. /\ r \in ThreadStates /\ r.at = "delete" /\ r.obj = thread[w].obj
        /\ r.data = thread[w].data /\ r.key = thread[w].key
    BY <1>0 DEF ThreadStates
  <2>2. /\ thread' = [thread EXCEPT ![w] = r] /\ thread[w].at = "readtime"
        /\ UNCHANGED <<queue, keys, running, mode, disp, idle, task, submitted, lost, puts, faults>>
    BY <1>5 DEF ReadTime, ThreadAt, redis, counters
  <2>3. r.key \in Data BY <2>1, <2>2 DEF Loaded
  <2> QED BY <1>0, <2>1, <2>2, <2>3, ThreadMoves DEF TypeOK
<1> QED BY <1>1, <1>2, <1>3, <1>4, <1>5

\* The first and the last steps of a thread.
LEMMA ThreadEnds ==
  ASSUME BaseInv, NEW w \in Threads, Start(w) \/ Delete(w) \/ DeleteFails(w)
  PROVE  BaseInv'
<1> USE DEF BaseInv
<1>0. /\ thread[w] \in ThreadStates /\ QueueInv /\ Home[w] \in Nodes
      /\ UNCHANGED <<queue, keys>> => QueueInv'
  BY DEF TypeOK, QueueInv, QueueMatchesKeys
<1>1. CASE Start(w)
  <2> DEFINE n == Home[w]
             q == submitted[n]
             o == Head(q)
             r == [thread[w] EXCEPT !.at = "process", !.obj = o, !.data = task[o].data]
  <2>1. /\ q # <<>> /\ thread' = [thread EXCEPT ![w] = r]
        /\ submitted' = [submitted EXCEPT ![n] = Tail(q)]
        /\ UNCHANGED <<queue, keys, running, mode, disp, idle, task, lost, puts, faults>>
    BY <1>1 DEF Start, redis, counters
  <2>2. q \in Seq(Objects) /\ n \in Nodes BY <1>0 DEF TypeOK
  <2>3. \A i \in DOMAIN q : task[q[i]].data \in Data BY <2>2 DEF Loaded
  <2> HIDE DEF q, n
  <2>4. /\ o \in Objects /\ o = q[1] /\ 1 \in DOMAIN q
        /\ Tail(q) \in Seq(Objects)
        /\ \A i \in DOMAIN Tail(q) : i + 1 \in DOMAIN q /\ Tail(q)[i] = q[i + 1]
    BY <2>1, <2>2
  <2>5. task[o].data \in Data BY <2>3, <2>4
  <2>6. /\ r \in ThreadStates /\ r.at = "process" /\ r.obj = o /\ r.data = task[o].data
    BY <1>0, <2>4, <2>5 DEF ThreadStates
  <2>7. /\ thread' \in [Threads -> ThreadStates] /\ thread'[w] = r
        /\ \A v \in Threads \ {w} : thread'[v] = thread[v]
    BY <2>1, <2>6, ThreadUpdate DEF TypeOK
  <2>8. /\ submitted' \in [Nodes -> Seq(Objects)] /\ submitted'[n] = Tail(q)
        /\ \A m \in Nodes \ {n} : submitted'[m] = submitted[m]
    BY <2>1, <2>2, <2>4 DEF TypeOK
  <2>9. TypeOK' BY <1>0, <2>1, <2>7, <2>8 DEF TypeOK
  <2>10. ASSUME NEW m \in Nodes, NEW i \in DOMAIN submitted'[m]
         PROVE  task'[submitted'[m][i]].data \in Data
    <3>1. CASE m = n BY <3>1, <2>1, <2>3, <2>4, <2>8
    <3>2. CASE m # n BY <3>2, <2>1, <2>8 DEF Loaded
    <3> QED BY <3>1, <3>2
  <2>11. ASSUME NEW v \in Threads
         PROVE  /\ thread'[v].at # "idle" =>
                     /\ thread'[v].obj \in Objects /\ thread'[v].data \in Data
                     /\ task'[thread'[v].obj].data \in Data
                /\ thread'[v].at \in {"readtime", "delete"} => thread'[v].key \in Data
    <3>1. CASE v = w BY <3>1, <2>1, <2>4, <2>5, <2>6, <2>7
    <3>2. CASE v # w BY <3>2, <2>1, <2>7 DEF Loaded
    <3> QED BY <3>1, <3>2
  <2>12. Loaded' BY <2>1, <2>10, <2>11 DEF Loaded
  <2> QED BY <1>0, <2>1, <2>9, <2>12
<1>2. CASE Delete(w) \/ DeleteFails(w)
  <2>1. IdleThread \in ThreadStates /\ IdleThread.at = "idle"
    BY DEF IdleThread, ThreadStates
  <2>2. /\ thread' = [thread EXCEPT ![w] = IdleThread] /\ thread[w].at = "delete"
        /\ UNCHANGED <<queue, keys, mode, disp, idle, task, submitted, puts>>
    BY <1>2 DEF Delete, DeleteFails, ThreadAt, redis, counters
  <2>3. /\ thread' \in [Threads -> ThreadStates] /\ thread'[w] = IdleThread
        /\ \A v \in Threads \ {w} : thread'[v] = thread[v]
    BY <2>1, <2>2, ThreadUpdate DEF TypeOK
  <2>4. thread[w].key \in Data BY <2>2 DEF Loaded
  <2>5. running' \in [Data -> Times \cup {None}] /\ lost' \in SUBSET Data
    BY <1>2, <2>4 DEF Delete, DeleteFails, redis, TypeOK
  <2>6. faults' \in 0..MaxFaults
    BY <1>2 DEF Delete, DeleteFails, counters, TypeOK
  <2>7. TypeOK' BY <1>0, <2>2, <2>3, <2>5, <2>6 DEF TypeOK
  <2>8. Loaded' BY <2>1, <2>2, <2>3 DEF Loaded
  <2> QED BY <1>0, <2>2, <2>7, <2>8
<1> QED BY <1>1, <1>2

\* Expiries, calls of put(), stops and crashes.
LEMMA EnvironmentStep ==
  ASSUME BaseInv,
         \/ \E d \in Data : Expire(d)
         \/ \E n \in Nodes : \/ \E d \in Data : CallPut(n, d)
                             \/ Stop(n) \/ Shutdown(n) \/ ShutdownNow(n) \/ Crash(n)
  PROVE  BaseInv'
<1> USE DEF BaseInv
<1>0. QueueInv /\ (UNCHANGED <<queue, keys>> => QueueInv')
  BY DEF QueueInv, QueueMatchesKeys
<1>1. ASSUME NEW d \in Data, Expire(d) PROVE BaseInv'
  <2>1. /\ UNCHANGED <<queue, keys, mode, disp, idle, task, submitted, thread, puts, faults>>
        /\ running' = [running EXCEPT ![d] = None]
        /\ lost' \in {lost, lost \cup {d}}
    BY <1>1 DEF Expire, counters
  <2>2. TypeOK' BY <2>1 DEF TypeOK
  <2> QED BY <1>0, <2>1, <2>2 DEF Loaded
<1>2. ASSUME NEW n \in Nodes, NEW d \in Data, CallPut(n, d) PROVE BaseInv'
  <2>1. /\ UNCHANGED <<running, mode, disp, idle, task, submitted, thread, lost>>
        /\ puts' = puts + 1 /\ puts < MaxPuts
    BY <1>2 DEF CallPut
  <2>2. QueueInv' /\ faults' \in 0..MaxFaults BY <1>0, <1>2, PutInv DEF CallPut, TypeOK
  <2>3. puts' \in 0..MaxPuts BY <2>1 DEF TypeOK
  <2>4. TypeOK' BY <2>1, <2>2, <2>3 DEF TypeOK, QueueInv
  <2> QED BY <2>1, <2>2, <2>4 DEF Loaded
<1>3. ASSUME NEW n \in Nodes, Stop(n) \/ Shutdown(n) PROVE BaseInv'
  <2>1. /\ UNCHANGED <<queue, keys, running, disp, idle, task, submitted, thread, lost, puts>>
        /\ \E m \in {"stopping", "shutdown"} : mode' = [mode EXCEPT ![n] = m]
    BY <1>3 DEF Stop, Shutdown, redis, counters
  <2>2. faults' \in 0..MaxFaults
    <3>1. CASE Stop(n) BY <3>1 DEF Stop, TypeOK
    <3>2. CASE Shutdown(n) BY <3>2 DEF Shutdown, counters, TypeOK
    <3> QED BY <1>3, <3>1, <3>2
  <2>3. TypeOK' BY <2>1, <2>2 DEF TypeOK
  <2> QED BY <1>0, <2>1, <2>3 DEF Loaded
<1>4. ASSUME NEW n \in Nodes, ShutdownNow(n) PROVE BaseInv'
  <2>1. /\ UNCHANGED <<queue, keys, running, disp, idle, task, thread, lost, puts, faults>>
        /\ mode' = [mode EXCEPT ![n] = "halted"]
        /\ submitted' = [submitted EXCEPT ![n] = <<>>]
    BY <1>4 DEF ShutdownNow, redis, counters
  <2>2. /\ submitted' \in [Nodes -> Seq(Objects)] /\ DOMAIN submitted'[n] = {}
        /\ \A m \in Nodes \ {n} : submitted'[m] = submitted[m]
    BY <2>1 DEF TypeOK
  <2>3. TypeOK' BY <2>1, <2>2 DEF TypeOK
  <2>4. Loaded' BY <2>1, <2>2 DEF Loaded
  <2> QED BY <1>0, <2>1, <2>3, <2>4
<1>5. ASSUME NEW n \in Nodes, Crash(n) PROVE BaseInv'
  <2>1. /\ UNCHANGED <<queue, keys, running, idle, task, lost, puts>>
        /\ mode' = [mode EXCEPT ![n] = "crashed"]
        /\ disp' = [disp EXCEPT ![n] = Dismissed("dead")]
        /\ submitted' = [submitted EXCEPT ![n] = <<>>]
        /\ thread' = [w \in Threads |-> IF Home[w] = n THEN IdleThread ELSE thread[w]]
        /\ faults < MaxFaults /\ faults' = faults + 1
    BY <1>5 DEF Crash, redis
  <2>2. /\ submitted' \in [Nodes -> Seq(Objects)] /\ DOMAIN submitted'[n] = {}
        /\ \A m \in Nodes \ {n} : submitted'[m] = submitted[m]
    BY <2>1 DEF TypeOK
  <2>3. Dismissed("dead") \in Dispatchers /\ Dismissed("dead").at = "dead"
    BY DEF Dismissed, Dispatchers
  <2>4. /\ disp' \in [Nodes -> Dispatchers] /\ disp'[n].at = "dead"
        /\ \A m \in Nodes \ {n} : disp'[m] = disp[m]
    BY <2>1, <2>3, DispUpdate DEF TypeOK
  <2>5. IdleThread \in ThreadStates /\ IdleThread.at = "idle"
    BY DEF IdleThread, ThreadStates
  <2>6. /\ thread' \in [Threads -> ThreadStates]
        /\ \A w \in Threads : thread'[w] = thread[w] \/ thread'[w].at = "idle"
    BY <2>1, <2>5 DEF TypeOK
  <2>7. faults' \in 0..MaxFaults BY <2>1 DEF TypeOK
  <2>8. TypeOK' BY <2>1, <2>2, <2>4, <2>6, <2>7 DEF TypeOK
  <2>9. Loaded' BY <2>1, <2>2, <2>4, <2>6 DEF Loaded
  <2> QED BY <1>0, <2>1, <2>8, <2>9
<1> QED BY <1>1, <1>2, <1>3, <1>4, <1>5

\* Every step keeps the types and the queue in order.
LEMMA StepBase == BaseInv /\ [Next]_vars => BaseInv'
<1> SUFFICES ASSUME BaseInv, [Next]_vars PROVE BaseInv'
  OBVIOUS
<1>1. CASE UNCHANGED vars
  BY <1>1 DEF vars, BaseInv, TypeOK, Loaded, QueueInv, QueueMatchesKeys
<1>2. CASE Next
  BY <1>2, DispatcherStep, ThreadStep, ThreadEnds, EnvironmentStep DEF Next, Run
<1> QED BY <1>1, <1>2

\* It holds in every behaviour of the queue.
THEOREM BaseInvariance == Spec => []BaseInv
<1>1. Init => BaseInv BY InitBase
<1>2. BaseInv /\ [Next]_vars => BaseInv' BY StepBase
<1> QED BY <1>1, <1>2, PTL DEF Spec, Safety

\* The variables keep their types.
THEOREM TypeCorrect == Spec => []TypeOK
<1>1. BaseInv => TypeOK BY DEF BaseInv
<1> QED BY <1>1, BaseInvariance, PTL

\* The list and the hash of waiting data agree whatever the nodes do, and no
\* datum waits twice.
THEOREM QueueMatchesKeysHolds == Spec => []QueueMatchesKeys
<1>1. BaseInv => QueueMatchesKeys BY DEF BaseInv, QueueInv
<1> QED BY <1>1, BaseInvariance, PTL

-----------------------------------------------------------------------------
(* Where Task objects are.                                                 *)

\* A thread that has not returned its Task object.
Holding(w) == thread[w].at \in {"process", "sleep", "return"}

\* What dispatchers, waiting Tasks and threads have to do with each other.
Shapes ==
  /\ \A n \in Nodes :
       /\ disp[n].at \in {"take", "dead"} => disp[n].data = None
       /\ disp[n].at \in {"take", "borrow", "dead"} => disp[n].obj = None
       /\ disp[n].at \in {"settime", "add", "submit", "putback"} =>
            Home[disp[n].obj] = n /\ task[disp[n].obj].data = disp[n].data
       /\ disp[n].at \in {"add", "submit", "putback"} => task[disp[n].obj].time \in Times
       /\ \A i \in DOMAIN submitted[n] : Home[submitted[n][i]] = n
  /\ \A w \in Threads :
       /\ thread[w].at = "idle" => thread[w].data = None
       /\ Holding(w) => Home[thread[w].obj] = Home[w]

\* A datum whose key was never taken away has one run at most, and the key with it.
RunsInv ==
  \A d \in Data \ lost :
    /\ \A r, s \in Runs(d) : r = s
    /\ Runs(d) # {} => running[d] # None

RInv == BaseInv /\ Shapes /\ ObjectsAccounted /\ RunsInv

\* A place is one of four.
PlaceIs ==
  \A o, x :
    x \in Places(o) <=>
      \/ x = <<"pool">> /\ o \in idle
      \/ \E n \in Nodes : x = <<"dispatcher", n>> /\ disp[n].obj = o
      \/ \E n \in Nodes : \E i \in DOMAIN submitted[n] :
           x = <<"submitted", n, i>> /\ submitted[n][i] = o
      \/ \E w \in Threads : x = <<"thread", w>> /\ Holding(w) /\ thread[w].obj = o

\* So is a run one of three.
RunIs ==
  \A d, x :
    x \in Runs(d) <=>
      \/ \E n \in Nodes : x = <<"dispatcher", n>> /\ disp[n].at = "submit" /\ disp[n].data = d
      \/ \E n \in Nodes : \E i \in DOMAIN submitted[n] :
           x = <<"submitted", n, i>> /\ task[submitted[n][i]].data = d
      \/ \E w \in Threads : x = <<"thread", w>> /\ thread[w].data = d

\* Both hold by definition, in a state and in the next.
LEMMA PlacesAndRuns == PlaceIs /\ RunIs
<1>1. ASSUME NEW o, NEW x
      PROVE  x \in Places(o) <=>
               \/ x = <<"pool">> /\ o \in idle
               \/ \E n \in Nodes : x = <<"dispatcher", n>> /\ disp[n].obj = o
               \/ \E n \in Nodes : \E i \in DOMAIN submitted[n] :
                    x = <<"submitted", n, i>> /\ submitted[n][i] = o
               \/ \E w \in Threads : x = <<"thread", w>> /\ Holding(w) /\ thread[w].obj = o
  <2> DEFINE pool == {p \in {<<"pool">>} : o \in idle}
             dispatchers == {<<"dispatcher", n>> : n \in {m \in Nodes : disp[m].obj = o}}
             of(n) == {<<"submitted", n, i>> : i \in {j \in DOMAIN submitted[n] : submitted[n][j] = o}}
             waiting == UNION {of(n) : n \in Nodes}
             threads == {<<"thread", w>> :
                           w \in {v \in Threads : /\ thread[v].obj = o
                                                  /\ thread[v].at \in {"process", "sleep", "return"}}}
  <2>1. x \in pool <=> x = <<"pool">> /\ o \in idle OBVIOUS
  <2>2. x \in dispatchers <=> \E n \in Nodes : x = <<"dispatcher", n>> /\ disp[n].obj = o OBVIOUS
  <2>3. \A n : x \in of(n) <=> \E i \in DOMAIN submitted[n] :
                                 x = <<"submitted", n, i>> /\ submitted[n][i] = o
    OBVIOUS
  <2>4. x \in waiting <=> \E n \in Nodes : x \in of(n) OBVIOUS
  <2>5. x \in threads <=> \E w \in Threads : x = <<"thread", w>> /\ Holding(w) /\ thread[w].obj = o
    BY DEF Holding
  <2>6. Places(o) = pool \cup dispatchers \cup waiting \cup threads BY DEF Places
  <2> HIDE DEF pool, dispatchers, of, waiting, threads
  <2> QED BY <2>1, <2>2, <2>3, <2>4, <2>5, <2>6
<1>2. ASSUME NEW d, NEW x
      PROVE  x \in Runs(d) <=>
               \/ \E n \in Nodes : x = <<"dispatcher", n>> /\ disp[n].at = "submit" /\ disp[n].data = d
               \/ \E n \in Nodes : \E i \in DOMAIN submitted[n] :
                    x = <<"submitted", n, i>> /\ task[submitted[n][i]].data = d
               \/ \E w \in Threads : x = <<"thread", w>> /\ thread[w].data = d
  <2> DEFINE dispatchers == {<<"dispatcher", n>> :
                               n \in {m \in Nodes : disp[m].at = "submit" /\ disp[m].data = d}}
             of(n) == {<<"submitted", n, i>> :
                         i \in {j \in DOMAIN submitted[n] : task[submitted[n][j]].data = d}}
             waiting == UNION {of(n) : n \in Nodes}
             threads == {<<"thread", w>> : w \in {v \in Threads : thread[v].data = d}}
  <2>2. x \in dispatchers <=>
          \E n \in Nodes : x = <<"dispatcher", n>> /\ disp[n].at = "submit" /\ disp[n].data = d
    OBVIOUS
  <2>3. \A n : x \in of(n) <=> \E i \in DOMAIN submitted[n] :
                                 x = <<"submitted", n, i>> /\ task[submitted[n][i]].data = d
    OBVIOUS
  <2>4. x \in waiting <=> \E n \in Nodes : x \in of(n) OBVIOUS
  <2>5. x \in threads <=> \E w \in Threads : x = <<"thread", w>> /\ thread[w].data = d OBVIOUS
  <2>6. Runs(d) = dispatchers \cup waiting \cup threads BY DEF Runs
  <2> HIDE DEF dispatchers, of, waiting, threads
  <2> QED BY <2>2, <2>3, <2>4, <2>5, <2>6
<1> QED BY <1>1, <1>2, Zenon DEF PlaceIs, RunIs

LEMMA PlacesAndRunsNext == PlaceIs' /\ RunIs'
BY PlacesAndRuns, PTL

\* The places of o do not change when nothing does that they depend on.
LEMMA SamePlaces ==
  ASSUME NEW o, o \in idle' <=> o \in idle,
         \A n \in Nodes : disp'[n].obj = o <=> disp[n].obj = o,
         \A n \in Nodes : \A i :
           i \in DOMAIN submitted'[n] /\ submitted'[n][i] = o <=>
             i \in DOMAIN submitted[n] /\ submitted[n][i] = o,
         \A w \in Threads :
           Holding(w)' /\ thread'[w].obj = o <=> Holding(w) /\ thread[w].obj = o
  PROVE  Places(o)' = Places(o)
<1>1. ASSUME NEW x \in Places(o)' PROVE x \in Places(o)
  BY <1>1, PlacesAndRuns, PlacesAndRunsNext DEF PlaceIs
<1>2. ASSUME NEW x \in Places(o) PROVE x \in Places(o)'
  BY <1>2, PlacesAndRuns, PlacesAndRunsNext DEF PlaceIs
<1> QED BY <1>1, <1>2

\* The same of the runs of d.
LEMMA SameRuns ==
  ASSUME NEW d,
         \A n \in Nodes : disp'[n].at = "submit" /\ disp'[n].data = d <=>
                            disp[n].at = "submit" /\ disp[n].data = d,
         \A n \in Nodes : \A i :
           i \in DOMAIN submitted'[n] /\ task'[submitted'[n][i]].data = d <=>
             i \in DOMAIN submitted[n] /\ task[submitted[n][i]].data = d,
         \A w \in Threads : thread'[w].data = d <=> thread[w].data = d
  PROVE  Runs(d)' = Runs(d)
<1>1. ASSUME NEW x \in Runs(d)' PROVE x \in Runs(d)
  BY <1>1, PlacesAndRuns, PlacesAndRunsNext DEF RunIs
<1>2. ASSUME NEW x \in Runs(d) PROVE x \in Runs(d)'
  BY <1>2, PlacesAndRuns, PlacesAndRunsNext DEF RunIs
<1> QED BY <1>1, <1>2

\* Objects that stay, that move to one place, or that go with their node.
LEMMA Accounted ==
  ASSUME ObjectsAccounted,
         \A p \in Objects :
           \/ \E y : Places(p)' = {y}
           \/ Places(p)' = Places(p)
           \/ /\ Places(p)' \subseteq Places(p)
              /\ mode'[Home[p]] # "up" \/ disp'[Home[p]].at = "dead",
         \A n \in Nodes : mode'[n] = "up" /\ disp'[n].at # "dead" =>
                            mode[n] = "up" /\ disp[n].at # "dead"
  PROVE  ObjectsAccounted'
<1> SUFFICES ASSUME NEW p \in Objects
             PROVE  /\ \A x, y \in Places(p)' : x = y
                    /\ mode'[Home[p]] = "up" /\ disp'[Home[p]].at # "dead" => Places(p)' # {}
  BY DEF ObjectsAccounted
<1>1. Home[p] \in Nodes OBVIOUS
<1>2. /\ \A x, y \in Places(p) : x = y
      /\ mode[Home[p]] = "up" /\ disp[Home[p]].at # "dead" => Places(p) # {}
  BY DEF ObjectsAccounted
<1> QED BY <1>1, <1>2

\* Runs that stay, end, or follow one another.
LEMMA RunsKept ==
  ASSUME RunsInv, lost \subseteq lost',
         \A d \in Data \ lost' :
           \/ /\ Runs(d)' \subseteq Runs(d)
              /\ Runs(d)' # {} /\ running'[d] = None => running[d] = None
           \/ running'[d] # None /\ \E y : Runs(d)' \subseteq {y}
  PROVE  RunsInv'
<1> SUFFICES ASSUME NEW d \in Data, d \notin lost'
             PROVE  /\ \A r, s \in Runs(d)' : r = s
                    /\ Runs(d)' # {} => running'[d] # None
  BY DEF RunsInv
<1>1. /\ \A r, s \in Runs(d) : r = s
      /\ Runs(d) # {} => running[d] # None
  BY DEF RunsInv
<1>2. CASE Runs(d)' \subseteq Runs(d) /\ (Runs(d)' # {} /\ running'[d] = None => running[d] = None)
  BY <1>1, <1>2
<1>3. CASE running'[d] # None /\ \E y : Runs(d)' \subseteq {y}
  BY <1>3
<1> QED BY <1>2, <1>3

\* A step that moves no Task object and neither begins nor ends a run.
LEMMA Undisturbed ==
  ASSUME TypeOK, ObjectsAccounted, RunsInv,
         UNCHANGED <<idle, submitted, lost>>,
         \A d \in Data : running'[d] = None => running[d] = None,
         \A o \in Objects : task'[o].data = task[o].data,
         \A n \in Nodes :
           /\ disp'[n].obj = disp[n].obj
           /\ disp'[n].at = "submit" <=> disp[n].at = "submit"
           /\ disp[n].at = "submit" => disp'[n].data = disp[n].data
           /\ mode'[n] = "up" /\ disp'[n].at # "dead" => mode[n] = "up" /\ disp[n].at # "dead",
         \A w \in Threads :
           /\ thread'[w].data = thread[w].data
           /\ Holding(w)' <=> Holding(w)
           /\ thread'[w].obj = thread[w].obj
  PROVE  ObjectsAccounted' /\ RunsInv'
<1>1. ASSUME NEW o \in Objects PROVE Places(o)' = Places(o)
  BY SamePlaces
<1>2. ASSUME NEW d \in Data PROVE Runs(d)' = Runs(d)
  <2>1. \A n \in Nodes : \A i \in DOMAIN submitted[n] : submitted[n][i] \in Objects
    BY DEF TypeOK
  <2>2. \A n \in Nodes : \A i :
           i \in DOMAIN submitted'[n] /\ task'[submitted'[n][i]].data = d <=>
             i \in DOMAIN submitted[n] /\ task[submitted[n][i]].data = d
    BY <2>1
  <2> QED BY <2>2, SameRuns
<1>3. ObjectsAccounted' BY <1>1, Accounted
<1>4. RunsInv' BY <1>2, RunsKept
<1> QED BY <1>3, <1>4

\* Only dispatcher n moves.
LEMMA DispShapes ==
  ASSUME Shapes, NEW n \in Nodes,
         \A m \in Nodes \ {n} : disp'[m] = disp[m],
         UNCHANGED <<task, submitted, thread>>,
         disp'[n].at \in {"take", "dead"} => disp'[n].data = None,
         disp'[n].at \in {"take", "borrow", "dead"} => disp'[n].obj = None,
         disp'[n].at \in {"settime", "add", "submit", "putback"} =>
           Home[disp'[n].obj] = n /\ task[disp'[n].obj].data = disp'[n].data,
         disp'[n].at \in {"add", "submit", "putback"} => task[disp'[n].obj].time \in Times
  PROVE  Shapes'
<1>1. ASSUME NEW m \in Nodes
      PROVE  /\ disp'[m].at \in {"take", "dead"} => disp'[m].data = None
             /\ disp'[m].at \in {"take", "borrow", "dead"} => disp'[m].obj = None
             /\ disp'[m].at \in {"settime", "add", "submit", "putback"} =>
                  Home[disp'[m].obj] = m /\ task'[disp'[m].obj].data = disp'[m].data
             /\ disp'[m].at \in {"add", "submit", "putback"} => task'[disp'[m].obj].time \in Times
             /\ \A i \in DOMAIN submitted'[m] : Home[submitted'[m][i]] = m
  <2>1. CASE m = n BY <2>1 DEF Shapes
  <2>2. CASE m # n BY <2>2 DEF Shapes
  <2> QED BY <2>1, <2>2
<1> QED BY <1>1 DEF Shapes, Holding

\* Only thread w moves.
LEMMA ThreadShapes ==
  ASSUME Shapes, NEW w \in Threads,
         \A v \in Threads \ {w} : thread'[v] = thread[v],
         UNCHANGED <<disp, task, submitted>>,
         thread'[w].at = "idle" => thread'[w].data = None,
         Holding(w)' => Home[thread'[w].obj] = Home[w]
  PROVE  Shapes'
<1>1. ASSUME NEW v \in Threads
      PROVE  /\ thread'[v].at = "idle" => thread'[v].data = None
             /\ Holding(v)' => Home[thread'[v].obj] = Home[v]
  <2>1. CASE v = w BY <2>1
  <2>2. CASE v # w BY <2>2 DEF Shapes, Holding
  <2> QED BY <2>1, <2>2
<1> QED BY <1>1 DEF Shapes

\* The dispatcher's steps that leave its Task object where it is.
LEMMA DispatcherStays ==
  ASSUME RInv, NEW n \in Nodes, Take(n) \/ SetTime(n) \/ Exit(n)
  PROVE  Shapes' /\ ObjectsAccounted' /\ RunsInv'
<1> USE DEF RInv
<1>0. TypeOK /\ disp \in [Nodes -> Dispatchers] BY DEF BaseInv, TypeOK
<1>1. CASE Take(n)
  <2>1. /\ disp[n].at = "take" /\ UNCHANGED <<running, mode, idle, task, submitted, thread, lost>>
        /\ disp' = [disp EXCEPT ![n].at = "borrow", ![n].data = Head(queue)]
    BY <1>1 DEF Take, At
  <2>2. /\ disp'[n].at = "borrow" /\ disp'[n].obj = disp[n].obj
        /\ \A m \in Nodes \ {n} : disp'[m] = disp[m]
    BY <1>0, <2>1 DEF Dispatchers
  <2>3. disp[n].obj = None BY <2>1 DEF Shapes
  <2>4. Shapes' BY <2>1, <2>2, <2>3, DispShapes
  <2>5. \A m \in Nodes :
          /\ disp'[m].obj = disp[m].obj
          /\ disp'[m].at = "submit" <=> disp[m].at = "submit"
          /\ disp[m].at = "submit" => disp'[m].data = disp[m].data
          /\ disp'[m].at # "dead" => disp[m].at # "dead"
    BY <2>1, <2>2
  <2>6. ObjectsAccounted' /\ RunsInv' BY <1>0, <2>1, <2>5, Undisturbed DEF Holding
  <2> QED BY <2>4, <2>6
<1>2. CASE SetTime(n)
  <2>1. PICK t \in Times : task' = [task EXCEPT ![disp[n].obj].time = t]
    BY <1>2 DEF SetTime
  <2>2. /\ disp[n].at = "settime" /\ UNCHANGED <<running, mode, idle, submitted, thread, lost>>
        /\ disp' = [disp EXCEPT ![n].at = "add"]
    BY <1>2 DEF SetTime, At, redis
  <2>3. /\ disp'[n].at = "add" /\ disp'[n].obj = disp[n].obj /\ disp'[n].data = disp[n].data
        /\ \A m \in Nodes \ {n} : disp'[m] = disp[m]
    BY <1>0, <2>2 DEF Dispatchers
  <2>4. disp[n].obj \in Objects BY <2>2 DEF BaseInv, Loaded
  <2>5. /\ task'[disp[n].obj].time = t
        /\ \A o \in Objects : /\ task'[o].data = task[o].data
                              /\ task'[o].time \in {task[o].time, t}
    BY <1>0, <2>1, <2>4 DEF TypeOK, Tasks
  <2>6. Shapes'
    <3>1. ASSUME NEW m \in Nodes
          PROVE  /\ disp'[m].at \in {"take", "dead"} => disp'[m].data = None
                 /\ disp'[m].at \in {"take", "borrow", "dead"} => disp'[m].obj = None
                 /\ disp'[m].at \in {"settime", "add", "submit", "putback"} =>
                      Home[disp'[m].obj] = m /\ task'[disp'[m].obj].data = disp'[m].data
                 /\ disp'[m].at \in {"add", "submit", "putback"} => task'[disp'[m].obj].time \in Times
      <4>1. disp[m].at \notin {"take", "borrow", "dead"} => disp[m].obj \in Objects
        BY DEF BaseInv, Loaded
      <4>2. CASE m = n BY <4>2, <2>2, <2>3, <2>4, <2>5 DEF Shapes
      <4>3. CASE m # n BY <4>1, <4>3, <2>3, <2>5 DEF Shapes
      <4> QED BY <4>2, <4>3
    <3> QED BY <3>1, <2>2 DEF Shapes, Holding
  <2>7. \A m \in Nodes :
          /\ disp'[m].obj = disp[m].obj
          /\ disp'[m].at = "submit" <=> disp[m].at = "submit"
          /\ disp[m].at = "submit" => disp'[m].data = disp[m].data
          /\ disp'[m].at # "dead" => disp[m].at # "dead"
    BY <2>2, <2>3
  <2>8. ObjectsAccounted' /\ RunsInv' BY <1>0, <2>2, <2>5, <2>7, Undisturbed DEF Holding
  <2> QED BY <2>6, <2>8
<1>3. CASE Exit(n)
  <2>1. /\ disp[n].at \in {"take", "borrow"}
        /\ UNCHANGED <<running, mode, idle, task, submitted, thread, lost>>
        /\ disp' = [disp EXCEPT ![n] = Dismissed("dead")]
    BY <1>3 DEF Exit, redis
  <2>2. /\ disp'[n].at = "dead" /\ disp'[n].obj = None /\ disp'[n].data = None
        /\ \A m \in Nodes \ {n} : disp'[m] = disp[m]
    BY <1>0, <2>1 DEF Dismissed
  <2>3. disp[n].obj = None BY <2>1 DEF Shapes
  <2>4. Shapes' BY <2>1, <2>2, DispShapes
  <2>5. \A m \in Nodes :
          /\ disp'[m].obj = disp[m].obj
          /\ disp'[m].at = "submit" <=> disp[m].at = "submit"
          /\ disp[m].at = "submit" => disp'[m].data = disp[m].data
          /\ disp'[m].at # "dead" => disp[m].at # "dead"
    BY <2>1, <2>2, <2>3
  <2>6. ObjectsAccounted' /\ RunsInv' BY <1>0, <2>1, <2>5, Undisturbed DEF Holding
  <2> QED BY <2>4, <2>6
<1> QED BY <1>1, <1>2, <1>3

\* What having one place means.
LEMMA PlaceFacts ==
  ASSUME ObjectsAccounted, NEW o \in Objects
  PROVE  /\ o \in idle =>
              /\ \A n \in Nodes : disp[n].obj # o
              /\ \A n \in Nodes : \A i \in DOMAIN submitted[n] : submitted[n][i] # o
              /\ \A w \in Threads : Holding(w) => thread[w].obj # o
         /\ \A n \in Nodes : disp[n].obj = o =>
              /\ \A m \in Nodes : disp[m].obj = o => m = n
              /\ \A m \in Nodes : \A i \in DOMAIN submitted[m] : submitted[m][i] # o
              /\ \A w \in Threads : Holding(w) => thread[w].obj # o
         /\ \A n, m \in Nodes : \A i \in DOMAIN submitted[n], j \in DOMAIN submitted[m] :
              submitted[n][i] = o /\ submitted[m][j] = o => n = m /\ i = j
         /\ \A w \in Threads : Holding(w) /\ thread[w].obj = o =>
              /\ \A n \in Nodes : \A i \in DOMAIN submitted[n] : submitted[n][i] # o
              /\ \A v \in Threads : Holding(v) /\ thread[v].obj = o => v = w
<1>1. \A x, y \in Places(o) : x = y BY DEF ObjectsAccounted
<1>2. o \in idle => <<"pool">> \in Places(o)
  BY PlacesAndRuns DEF PlaceIs
<1>3. \A n \in Nodes : disp[n].obj = o => <<"dispatcher", n>> \in Places(o)
  BY PlacesAndRuns DEF PlaceIs
<1>4. \A n \in Nodes : \A i \in DOMAIN submitted[n] :
        submitted[n][i] = o => <<"submitted", n, i>> \in Places(o)
  BY PlacesAndRuns DEF PlaceIs
<1>5. \A w \in Threads : Holding(w) /\ thread[w].obj = o => <<"thread", w>> \in Places(o)
  BY PlacesAndRuns DEF PlaceIs
<1>6. ASSUME o \in idle
      PROVE  /\ \A n \in Nodes : disp[n].obj # o
             /\ \A n \in Nodes : \A i \in DOMAIN submitted[n] : submitted[n][i] # o
             /\ \A w \in Threads : Holding(w) => thread[w].obj # o
  <2>1. \A x \in Places(o) : x = <<"pool">> BY <1>1, <1>2, <1>6
  <2>2. ASSUME NEW n \in Nodes, disp[n].obj = o PROVE FALSE
    BY <2>1, <2>2, <1>3
  <2>3. ASSUME NEW n \in Nodes, NEW i \in DOMAIN submitted[n], submitted[n][i] = o PROVE FALSE
    BY <2>1, <2>3, <1>4
  <2>4. ASSUME NEW w \in Threads, Holding(w), thread[w].obj = o PROVE FALSE
    BY <2>1, <2>4, <1>5
  <2> QED BY <2>2, <2>3, <2>4
<1>7. ASSUME NEW n \in Nodes, disp[n].obj = o
      PROVE  /\ \A m \in Nodes : disp[m].obj = o => m = n
             /\ \A m \in Nodes : \A i \in DOMAIN submitted[m] : submitted[m][i] # o
             /\ \A w \in Threads : Holding(w) => thread[w].obj # o
  <2>1. \A x \in Places(o) : x = <<"dispatcher", n>> BY <1>1, <1>3, <1>7
  <2>2. ASSUME NEW m \in Nodes, disp[m].obj = o PROVE m = n
    BY <2>1, <2>2, <1>3
  <2>3. ASSUME NEW m \in Nodes, NEW i \in DOMAIN submitted[m], submitted[m][i] = o PROVE FALSE
    BY <2>1, <2>3, <1>4
  <2>4. ASSUME NEW w \in Threads, Holding(w), thread[w].obj = o PROVE FALSE
    BY <2>1, <2>4, <1>5
  <2> QED BY <2>2, <2>3, <2>4
<1>8. ASSUME NEW n \in Nodes, NEW m \in Nodes, NEW i \in DOMAIN submitted[n],
             NEW j \in DOMAIN submitted[m], submitted[n][i] = o, submitted[m][j] = o
      PROVE  n = m /\ i = j
  <2>1. <<"submitted", n, i>> = <<"submitted", m, j>> BY <1>1, <1>4, <1>8
  <2> QED BY <2>1
<1>9. ASSUME NEW w \in Threads, Holding(w), thread[w].obj = o
      PROVE  /\ \A n \in Nodes : \A i \in DOMAIN submitted[n] : submitted[n][i] # o
             /\ \A v \in Threads : Holding(v) /\ thread[v].obj = o => v = w
  <2>1. \A x \in Places(o) : x = <<"thread", w>> BY <1>1, <1>5, <1>9
  <2>2. ASSUME NEW n \in Nodes, NEW i \in DOMAIN submitted[n], submitted[n][i] = o PROVE FALSE
    BY <2>1, <2>2, <1>4
  <2>3. ASSUME NEW v \in Threads, Holding(v), thread[v].obj = o PROVE v = w
    BY <2>1, <2>3, <1>5
  <2> QED BY <2>2, <2>3
<1> QED BY <1>6, <1>7, <1>8, <1>9

LEMMA BorrowRuns ==
  ASSUME RInv, NEW n \in Nodes, Borrow(n)
  PROVE  Shapes' /\ ObjectsAccounted' /\ RunsInv'
<1> USE DEF RInv
<1>0. TypeOK /\ disp \in [Nodes -> Dispatchers] BY DEF BaseInv, TypeOK
<1>1. PICK o \in idle :
        /\ Home[o] = n /\ idle' = idle \ {o}
        /\ disp' = [disp EXCEPT ![n].at = "settime", ![n].obj = o]
        /\ task' = [task EXCEPT ![o].data = disp[n].data]
  BY DEF Borrow
<1>2. /\ disp[n].at = "borrow" /\ UNCHANGED <<running, mode, submitted, thread, lost>>
  BY DEF Borrow, At, redis
<1>3. /\ disp'[n].at = "settime" /\ disp'[n].obj = o /\ disp'[n].data = disp[n].data
      /\ \A m \in Nodes \ {n} : disp'[m] = disp[m]
  BY <1>0, <1>1 DEF Dispatchers
<1>4. disp[n].obj = None BY <1>2 DEF Shapes
<1>5. o \in Objects BY <1>0 DEF TypeOK
<1>6. /\ task'[o].data = disp[n].data
      /\ \A p \in Objects : p # o => task'[p] = task[p]
      /\ \A p \in Objects : task'[p].time = task[p].time
  BY <1>0, <1>1, <1>5 DEF TypeOK, Tasks
<1>7. /\ \A m \in Nodes : disp[m].obj # o
      /\ \A m \in Nodes : \A i \in DOMAIN submitted[m] : submitted[m][i] # o
      /\ \A w \in Threads : Holding(w) => thread[w].obj # o
  BY <1>5, PlaceFacts
<1>8. Shapes'
  <2>1. ASSUME NEW m \in Nodes
        PROVE  /\ disp'[m].at \in {"take", "dead"} => disp'[m].data = None
               /\ disp'[m].at \in {"take", "borrow", "dead"} => disp'[m].obj = None
               /\ disp'[m].at \in {"settime", "add", "submit", "putback"} =>
                    Home[disp'[m].obj] = m /\ task'[disp'[m].obj].data = disp'[m].data
               /\ disp'[m].at \in {"add", "submit", "putback"} => task'[disp'[m].obj].time \in Times
    <3>1. disp[m].at \notin {"take", "borrow", "dead"} => disp[m].obj \in Objects
      BY DEF BaseInv, Loaded
    <3>2. CASE m = n BY <3>2, <1>1, <1>3, <1>6
    <3>3. CASE m # n BY <3>1, <3>3, <1>3, <1>6, <1>7 DEF Shapes
    <3> QED BY <3>2, <3>3
  <2> QED BY <2>1, <1>2 DEF Shapes, Holding
<1>9. ObjectsAccounted'
  <2>1. Places(o)' = {<<"dispatcher", n>>}
    <3>1. <<"dispatcher", n>> \in Places(o)' BY <1>3, PlacesAndRunsNext DEF PlaceIs
    <3>2. ASSUME NEW x \in Places(o)' PROVE x = <<"dispatcher", n>>
      <4>1. o \notin idle' BY <1>1
      <4>2. \A m \in Nodes : disp'[m].obj = o => m = n BY <1>3, <1>7
      <4>3. \A w \in Threads : Holding(w)' => thread'[w].obj # o BY <1>2, <1>7 DEF Holding
      <4> QED BY <1>2, <1>7, <4>1, <4>2, <4>3, PlacesAndRunsNext DEF PlaceIs
    <3> QED BY <3>1, <3>2
  <2>2. ASSUME NEW p \in Objects, p # o PROVE Places(p)' = Places(p)
    <3>1. \A m \in Nodes : disp'[m].obj = p <=> disp[m].obj = p BY <2>2, <1>3, <1>4
    <3>2. p \in idle' <=> p \in idle BY <2>2, <1>1
    <3> QED BY <3>1, <3>2, <1>2, SamePlaces DEF Holding
  <2>3. \A m \in Nodes : disp'[m].at # "dead" => disp[m].at # "dead" BY <1>2, <1>3
  <2> QED BY <2>1, <2>2, <2>3, <1>2, Accounted
<1>10. RunsInv'
  <2>1. ASSUME NEW d \in Data PROVE Runs(d)' = Runs(d)
    <3>1. \A m \in Nodes : \A i \in DOMAIN submitted[m] :
            submitted[m][i] \in Objects /\ submitted[m][i] # o
      BY <1>0, <1>7 DEF TypeOK
    <3>2. \A m \in Nodes : \A i :
            i \in DOMAIN submitted'[m] /\ task'[submitted'[m][i]].data = d <=>
              i \in DOMAIN submitted[m] /\ task[submitted[m][i]].data = d
      BY <3>1, <1>2, <1>6
    <3>3. \A m \in Nodes : disp'[m].at = "submit" /\ disp'[m].data = d <=>
                             disp[m].at = "submit" /\ disp[m].data = d
      BY <1>2, <1>3
    <3> QED BY <3>2, <3>3, <1>2, SameRuns
  <2> QED BY <2>1, <1>2, RunsKept
<1> QED BY <1>8, <1>9, <1>10

LEMMA AddToRunningTaskRuns ==
  ASSUME RInv, NEW n \in Nodes, AddToRunningTask(n)
  PROVE  Shapes' /\ ObjectsAccounted' /\ RunsInv'
<1> USE DEF RInv
<1>d. PICK d : d = disp[n].data OBVIOUS
<1>0. TypeOK /\ disp \in [Nodes -> Dispatchers] BY DEF BaseInv, TypeOK
<1>1. /\ disp[n].at = "add" /\ UNCHANGED <<mode, idle, task, submitted, thread, lost>>
      /\ \/ /\ running[d] = None /\ running' = [running EXCEPT ![d] = task[disp[n].obj].time]
            /\ disp' = [disp EXCEPT ![n].at = "submit"]
         \/ running' = running /\ disp' = [disp EXCEPT ![n].at = "putback"]
  BY <1>d DEF AddToRunningTask, At
<1>2. /\ disp'[n].at \in {"submit", "putback"} /\ disp'[n].obj = disp[n].obj
      /\ disp'[n].data = d
      /\ \A m \in Nodes \ {n} : disp'[m] = disp[m]
  BY <1>0, <1>1, <1>d DEF Dispatchers
<1>3. d \in Data /\ task[disp[n].obj].time \in Times /\ running \in [Data -> Times \cup {None}]
  BY <1>0, <1>1, <1>d DEF BaseInv, Loaded, Shapes, TypeOK
<1>4. Shapes'
  <2>1. Home[disp[n].obj] = n /\ task[disp[n].obj].data = disp[n].data BY <1>1 DEF Shapes
  <2> QED BY <1>1, <1>2, <1>3, <1>d, <2>1, DispShapes
<1>5. \A m \in Nodes : /\ disp'[m].obj = disp[m].obj
                       /\ disp'[m].at # "dead" => disp[m].at # "dead"
  BY <1>1, <1>2
<1>6. ObjectsAccounted'
  <2>1. ASSUME NEW p \in Objects PROVE Places(p)' = Places(p)
    BY <1>1, <1>5, SamePlaces DEF Holding
  <2> QED BY <1>1, <1>5, <2>1, Accounted
<1>7. RunsInv'
  <2>1. CASE running' = running /\ disp' = [disp EXCEPT ![n].at = "putback"]
    <3>1. disp'[n].at = "putback" BY <1>0, <2>1 DEF Dispatchers
    <3>2. \A m \in Nodes : /\ disp'[m].at = "submit" <=> disp[m].at = "submit"
                           /\ disp[m].at = "submit" => disp'[m].data = disp[m].data
      BY <1>1, <1>2, <3>1
    <3> QED BY <1>0, <1>1, <1>5, <2>1, <3>2, Undisturbed DEF Holding
  <2>2. CASE running[d] = None /\ running' = [running EXCEPT ![d] = task[disp[n].obj].time]
    <3>1. running'[d] # None /\ \A e \in Data : e # d => running'[e] = running[e]
      BY <1>3, <2>2
    <3>2. d \notin lost => Runs(d)' \subseteq {<<"dispatcher", n>>}
      <4> SUFFICES ASSUME d \notin lost, NEW x \in Runs(d)', x # <<"dispatcher", n>> PROVE FALSE
        OBVIOUS
      <4>1. Runs(d) = {} BY <1>3, <2>2 DEF RunsInv
      <4>2. CASE \E m \in Nodes : x = <<"dispatcher", m>> /\ disp'[m].at = "submit" /\ disp'[m].data = d
        BY <1>2, <4>1, <4>2, PlacesAndRuns DEF RunIs
      <4>3. CASE \E m \in Nodes : \E i \in DOMAIN submitted'[m] :
                   x = <<"submitted", m, i>> /\ task'[submitted'[m][i]].data = d
        BY <1>1, <4>1, <4>3, PlacesAndRuns DEF RunIs
      <4>4. CASE \E w \in Threads : x = <<"thread", w>> /\ thread'[w].data = d
        BY <1>1, <4>1, <4>4, PlacesAndRuns DEF RunIs
      <4> QED BY <4>2, <4>3, <4>4, PlacesAndRunsNext DEF RunIs
    <3>3. ASSUME NEW e \in Data, e # d PROVE Runs(e)' = Runs(e)
      <4>1. \A m \in Nodes : disp'[m].at = "submit" /\ disp'[m].data = e <=>
                               disp[m].at = "submit" /\ disp[m].data = e
        BY <1>1, <1>2, <1>d, <3>3
      <4> QED BY <1>1, <4>1, SameRuns
    <3>4. ASSUME NEW e \in Data \ lost'
          PROVE  \/ /\ Runs(e)' \subseteq Runs(e)
                    /\ Runs(e)' # {} /\ running'[e] = None => running[e] = None
                 \/ running'[e] # None /\ \E y : Runs(e)' \subseteq {y}
      <4>1. CASE e = d BY <1>1, <3>1, <3>2, <4>1
      <4>2. CASE e # d BY <3>1, <3>3, <4>2
      <4> QED BY <4>1, <4>2
    <3> QED BY <1>1, <3>4, RunsKept
  <2> QED BY <1>1, <2>1, <2>2
<1> QED BY <1>4, <1>6, <1>7

\* A dispatcher that dies on the way takes its Task object along.
LEMMA DispatcherFailsRuns ==
  ASSUME RInv, NEW n \in Nodes, DispatcherFails(n)
  PROVE  Shapes' /\ ObjectsAccounted' /\ RunsInv'
<1> USE DEF RInv
<1> DEFINE d == disp[n].data
<1>0. TypeOK /\ disp \in [Nodes -> Dispatchers] BY DEF BaseInv, TypeOK
<1>1. /\ disp[n].at \in {"take", "add"} /\ UNCHANGED <<mode, idle, task, submitted, thread, lost>>
      /\ disp' = [disp EXCEPT ![n] = Dismissed("dead")]
      /\ \/ running' = running
         \/ disp[n].at = "add" /\ running' = [running EXCEPT ![d] = task[disp[n].obj].time]
  BY DEF DispatcherFails, At
<1>2. /\ disp'[n].at = "dead" /\ disp'[n].obj = None /\ disp'[n].data = None
      /\ \A m \in Nodes \ {n} : disp'[m] = disp[m]
  BY <1>0, <1>1 DEF Dismissed
<1>3. Shapes' BY <1>1, <1>2, DispShapes
<1>4. \A m \in Nodes : disp'[m].at # "dead" => disp[m].at # "dead" BY <1>1, <1>2
<1>5. ObjectsAccounted'
  <2>1. ASSUME NEW p \in Objects
        PROVE  \/ Places(p)' = Places(p)
               \/ Places(p)' \subseteq Places(p) /\ disp'[Home[p]].at = "dead"
    <3>1. CASE disp[n].obj # p
      <4>1. \A m \in Nodes : disp'[m].obj = p <=> disp[m].obj = p BY <1>2, <3>1
      <4> QED BY <1>1, <4>1, SamePlaces DEF Holding
    <3>2. CASE disp[n].obj = p
      <4>1. disp[n].at = "add" BY <1>1, <3>2 DEF Shapes
      <4>2. Home[p] = n BY <3>2, <4>1 DEF Shapes
      <4>3. ASSUME NEW x \in Places(p)' PROVE x \in Places(p)
        <5>1. \A m \in Nodes : disp'[m].obj = p => disp[m].obj = p BY <1>2
        <5> QED BY <1>1, <5>1, PlacesAndRuns, PlacesAndRunsNext DEF PlaceIs, Holding
      <4> QED BY <1>2, <4>2, <4>3
    <3> QED BY <3>1, <3>2
  <2> QED BY <1>1, <1>4, <2>1, Accounted
<1>6. RunsInv'
  <2>1. ASSUME NEW e \in Data PROVE Runs(e)' = Runs(e)
    <3>1. \A m \in Nodes : disp'[m].at = "submit" /\ disp'[m].data = e <=>
                             disp[m].at = "submit" /\ disp[m].data = e
      BY <1>1, <1>2
    <3> QED BY <1>1, <3>1, SameRuns
  <2>2. ASSUME NEW e \in Data, running'[e] = None PROVE running[e] = None
    <3>1. CASE running' = running BY <3>1, <2>2
    <3>2. CASE disp[n].at = "add" /\ running' = [running EXCEPT ![d] = task[disp[n].obj].time]
      <4>1. d \in Data /\ task[disp[n].obj].time \in Times /\ running \in [Data -> Times \cup {None}]
        BY <1>0, <3>2 DEF BaseInv, Loaded, Shapes, TypeOK
      <4> HIDE DEF d
      <4> QED BY <2>2, <3>2, <4>1
    <3> QED BY <1>1, <3>1, <3>2
  <2> QED BY <1>1, <2>1, <2>2, RunsKept
<1> QED BY <1>3, <1>5, <1>6

\* Task o has joined the queue of node n in place k.
Appended(n, o, k) ==
  /\ k \in DOMAIN submitted'[n] /\ submitted'[n][k] = o /\ k \notin DOMAIN submitted[n]
  /\ \A m \in Nodes : \A i :
       i \in DOMAIN submitted'[m] <=> i \in DOMAIN submitted[m] \/ (m = n /\ i = k)
  /\ \A m \in Nodes : \A i \in DOMAIN submitted[m] : submitted'[m][i] = submitted[m][i]

\* What Append does to the queue of a threadPool, and to no other.
LEMMA SubmittedAppend ==
  ASSUME TypeOK, NEW n \in Nodes, NEW o \in Objects,
         submitted' = [submitted EXCEPT ![n] = Append(@, o)]
  PROVE  \E k : Appended(n, o, k)
<1>1. PICK q : q = submitted[n] OBVIOUS
<1>2. q \in Seq(Objects) BY <1>1 DEF TypeOK
<1>3. PICK k : k = Len(q) + 1 OBVIOUS
<1>4. /\ k \in DOMAIN Append(q, o) /\ Append(q, o)[k] = o /\ k \notin DOMAIN q
      /\ \A i : i \in DOMAIN Append(q, o) <=> i \in DOMAIN q \/ i = k
      /\ \A i \in DOMAIN q : Append(q, o)[i] = q[i]
  BY <1>2, <1>3
<1>5. submitted'[n] = Append(q, o) /\ \A m \in Nodes \ {n} : submitted'[m] = submitted[m]
  BY <1>1 DEF TypeOK
<1>6. ASSUME NEW m \in Nodes, NEW i
      PROVE  i \in DOMAIN submitted'[m] <=> i \in DOMAIN submitted[m] \/ (m = n /\ i = k)
  BY <1>1, <1>4, <1>5
<1>7. ASSUME NEW m \in Nodes, NEW i \in DOMAIN submitted[m]
      PROVE  submitted'[m][i] = submitted[m][i]
  BY <1>1, <1>4, <1>5
<1> QED BY <1>1, <1>4, <1>5, <1>6, <1>7 DEF Appended

LEMMA SubmitRuns ==
  ASSUME RInv, NEW n \in Nodes, Submit(n)
  PROVE  Shapes' /\ ObjectsAccounted' /\ RunsInv'
<1> USE DEF RInv
<1>0. TypeOK /\ disp \in [Nodes -> Dispatchers] BY DEF BaseInv, TypeOK
<1>d. PICK d, o : d = disp[n].data /\ o = disp[n].obj OBVIOUS
<1>1. /\ disp[n].at = "submit" /\ UNCHANGED <<running, mode, idle, task, thread, lost>>
      /\ \/ /\ submitted' = [submitted EXCEPT ![n] = Append(@, o)]
            /\ disp' = [disp EXCEPT ![n] = Dismissed("take")]
         \/ submitted' = submitted /\ disp' = [disp EXCEPT ![n] = Dismissed("dead")]
  BY <1>d DEF Submit, At, redis
<1>2. /\ disp'[n].at \in {"take", "dead"} /\ disp'[n].obj = None /\ disp'[n].data = None
      /\ \A m \in Nodes \ {n} : disp'[m] = disp[m]
  BY <1>0, <1>1 DEF Dismissed
<1>3. /\ o \in Objects /\ d \in Data /\ Home[o] = n /\ task[o].data = d
  BY <1>1, <1>d DEF BaseInv, Loaded, Shapes
<1>4. \A m \in Nodes : disp'[m].at # "dead" => disp[m].at # "dead" BY <1>1, <1>2
<1>5. \A m \in Nodes : \A e \in Data :
        disp'[m].at = "submit" /\ disp'[m].data = e => disp[m].at = "submit" /\ disp[m].data = e
  BY <1>2
<1>6. CASE submitted' = submitted /\ disp' = [disp EXCEPT ![n] = Dismissed("dead")]
  <2>1. disp'[n].at = "dead" BY <1>0, <1>6 DEF Dismissed
  <2>2. Shapes' BY <1>1, <1>2, <1>6, <2>1, DispShapes
  <2>3. ObjectsAccounted'
    <3>1. ASSUME NEW p \in Objects
          PROVE  \/ Places(p)' = Places(p)
                 \/ Places(p)' \subseteq Places(p) /\ disp'[Home[p]].at = "dead"
      <4>1. CASE p # o
        <5>1. \A m \in Nodes : disp'[m].obj = p <=> disp[m].obj = p BY <1>2, <1>d, <4>1
        <5> QED BY <1>1, <1>6, <5>1, SamePlaces DEF Holding
      <4>2. CASE p = o
        <5>1. ASSUME NEW x \in Places(p)' PROVE x \in Places(p)
          <6>1. \A m \in Nodes : disp'[m].obj = p => disp[m].obj = p BY <1>2
          <6> QED BY <1>1, <1>6, <6>1, PlacesAndRuns, PlacesAndRunsNext DEF PlaceIs, Holding
        <5> QED BY <1>3, <2>1, <4>2, <5>1
      <4> QED BY <4>1, <4>2
    <3> QED BY <1>1, <1>4, <3>1, Accounted
  <2>4. RunsInv'
    <3>1. ASSUME NEW e \in Data, NEW x \in Runs(e)' PROVE x \in Runs(e)
      <4>1. CASE \E m \in Nodes : x = <<"dispatcher", m>> /\ disp'[m].at = "submit" /\ disp'[m].data = e
        BY <1>5, <4>1, PlacesAndRuns DEF RunIs
      <4>2. CASE \E m \in Nodes : \E i \in DOMAIN submitted'[m] :
                   x = <<"submitted", m, i>> /\ task'[submitted'[m][i]].data = e
        BY <1>1, <1>6, <4>2, PlacesAndRuns DEF RunIs
      <4>3. CASE \E w \in Threads : x = <<"thread", w>> /\ thread'[w].data = e
        BY <1>1, <4>3, PlacesAndRuns DEF RunIs
      <4> QED BY <4>1, <4>2, <4>3, PlacesAndRunsNext DEF RunIs
    <3> QED BY <1>1, <3>1, RunsKept
  <2> QED BY <2>2, <2>3, <2>4
<1>7. CASE /\ submitted' = [submitted EXCEPT ![n] = Append(@, o)]
           /\ disp' = [disp EXCEPT ![n] = Dismissed("take")]
  <2>1. disp'[n].at = "take" BY <1>0, <1>7 DEF Dismissed
  <2>a. TypeOK /\ submitted' = [submitted EXCEPT ![n] = Append(@, o)] BY <1>0, <1>7
  <2>k. PICK k : Appended(n, o, k) BY <1>3, <2>a, SubmittedAppend
  <2>2. /\ k \in DOMAIN submitted'[n] /\ submitted'[n][k] = o /\ k \notin DOMAIN submitted[n]
        /\ \A m \in Nodes : \A i :
             i \in DOMAIN submitted'[m] <=> i \in DOMAIN submitted[m] \/ (m = n /\ i = k)
        /\ \A m \in Nodes : \A i \in DOMAIN submitted[m] : submitted'[m][i] = submitted[m][i]
    BY <2>k DEF Appended
  <2>3. Shapes'
    <3>1. ASSUME NEW m \in Nodes
          PROVE  /\ disp'[m].at \in {"take", "dead"} => disp'[m].data = None
                 /\ disp'[m].at \in {"take", "borrow", "dead"} => disp'[m].obj = None
                 /\ disp'[m].at \in {"settime", "add", "submit", "putback"} =>
                      Home[disp'[m].obj] = m /\ task'[disp'[m].obj].data = disp'[m].data
                 /\ disp'[m].at \in {"add", "submit", "putback"} => task'[disp'[m].obj].time \in Times
      <4>1. CASE m = n BY <4>1, <1>2, <2>1
      <4>2. CASE m # n BY <4>2, <1>1, <1>2 DEF Shapes
      <4> QED BY <4>1, <4>2
    <3>2. ASSUME NEW m \in Nodes, NEW i \in DOMAIN submitted'[m] PROVE Home[submitted'[m][i]] = m
      BY <1>3, <2>2 DEF Shapes
    <3> QED BY <1>1, <3>1, <3>2 DEF Shapes, Holding
  <2>4. ObjectsAccounted'
    <3>1. Places(o)' = {<<"submitted", n, k>>}
      <4>1. <<"submitted", n, k>> \in Places(o)' BY <2>2, PlacesAndRunsNext DEF PlaceIs
      <4>2. ASSUME NEW x \in Places(o)' PROVE x = <<"submitted", n, k>>
        <5>1. o \notin idle' BY <1>1, <1>3, <1>d, PlaceFacts
        <5>2. \A m \in Nodes : disp'[m].obj # o
          <6>1. \A m \in Nodes : disp[m].obj = o => m = n BY <1>3, <1>d, PlaceFacts
          <6> QED BY <1>2, <1>3, <6>1
        <5>3. \A w \in Threads : ~(Holding(w)' /\ thread'[w].obj = o)
          <6>1. \A w \in Threads : Holding(w) => thread[w].obj # o BY <1>3, <1>d, PlaceFacts
          <6> QED BY <1>1, <6>1 DEF Holding
        <5>4. \A m \in Nodes : \A i \in DOMAIN submitted'[m] : submitted'[m][i] = o => m = n /\ i = k
          <6>1. \A m \in Nodes : \A i \in DOMAIN submitted[m] : submitted[m][i] # o
            BY <1>3, <1>d, PlaceFacts
          <6> QED BY <2>2, <6>1
        <5> QED BY <5>1, <5>2, <5>3, <5>4, PlacesAndRunsNext DEF PlaceIs
      <4> QED BY <4>1, <4>2
    <3>2. ASSUME NEW p \in Objects, p # o PROVE Places(p)' = Places(p)
      <4>1. \A m \in Nodes : disp'[m].obj = p <=> disp[m].obj = p BY <1>2, <1>d, <3>2
      <4>2. \A m \in Nodes : \A i :
              i \in DOMAIN submitted'[m] /\ submitted'[m][i] = p <=>
                i \in DOMAIN submitted[m] /\ submitted[m][i] = p
        BY <2>2, <3>2
      <4> QED BY <1>1, <4>1, <4>2, SamePlaces DEF Holding
    <3> QED BY <1>1, <1>4, <3>1, <3>2, Accounted
  <2>5. RunsInv'
    <3>1. \A m \in Nodes : \A i \in DOMAIN submitted[m] : task'[submitted'[m][i]] = task[submitted[m][i]]
      BY <1>1, <2>2
    <3>2. d \notin lost => running[d] # None /\ Runs(d)' \subseteq {<<"submitted", n, k>>}
      <4> SUFFICES ASSUME d \notin lost
                   PROVE  running[d] # None /\ Runs(d)' \subseteq {<<"submitted", n, k>>}
        OBVIOUS
      <4>1. <<"dispatcher", n>> \in Runs(d) BY <1>1, <1>d, PlacesAndRuns DEF RunIs
      <4>2. running[d] # None /\ \A x \in Runs(d) : x = <<"dispatcher", n>>
        BY <1>3, <4>1 DEF RunsInv
      <4>3. ASSUME NEW x \in Runs(d)', x # <<"submitted", n, k>> PROVE FALSE
        <5>1. CASE \E m \in Nodes : x = <<"dispatcher", m>> /\ disp'[m].at = "submit" /\ disp'[m].data = d
          <6>1. PICK m \in Nodes : x = <<"dispatcher", m>> /\ disp'[m].at = "submit" /\ disp'[m].data = d
            BY <5>1
          <6>2. m # n BY <2>1, <6>1
          <6>3. x \in Runs(d) BY <1>2, <6>1, <6>2, PlacesAndRuns DEF RunIs
          <6> QED BY <4>2, <6>1, <6>2, <6>3
        <5>2. CASE \E m \in Nodes : \E i \in DOMAIN submitted'[m] :
                     x = <<"submitted", m, i>> /\ task'[submitted'[m][i]].data = d
          <6>0. PICK m \in Nodes : \E i \in DOMAIN submitted'[m] :
                  x = <<"submitted", m, i>> /\ task'[submitted'[m][i]].data = d
            BY <5>2
          <6>1. PICK i \in DOMAIN submitted'[m] :
                  x = <<"submitted", m, i>> /\ task'[submitted'[m][i]].data = d
            BY <6>0
          <6>2. i \in DOMAIN submitted[m] BY <2>2, <4>3, <6>1
          <6>3. x \in Runs(d) BY <3>1, <6>1, <6>2, PlacesAndRuns DEF RunIs
          <6> QED BY <4>2, <6>1, <6>3
        <5>3. CASE \E w \in Threads : x = <<"thread", w>> /\ thread'[w].data = d
          <6>1. x \in Runs(d) BY <1>1, <5>3, PlacesAndRuns DEF RunIs
          <6> QED BY <4>2, <5>3, <6>1
        <5> QED BY <5>1, <5>2, <5>3, PlacesAndRunsNext DEF RunIs
      <4> QED BY <4>2, <4>3
    <3>3. ASSUME NEW e \in Data, e # d PROVE Runs(e)' = Runs(e)
      <4>1. \A m \in Nodes : disp'[m].at = "submit" /\ disp'[m].data = e <=>
                               disp[m].at = "submit" /\ disp[m].data = e
        BY <1>2, <1>d, <2>1, <3>3
      <4>2. \A m \in Nodes : \A i :
              i \in DOMAIN submitted'[m] /\ task'[submitted'[m][i]].data = e <=>
                i \in DOMAIN submitted[m] /\ task[submitted[m][i]].data = e
        BY <1>1, <1>3, <2>2, <3>1, <3>3
      <4> QED BY <1>1, <4>1, <4>2, SameRuns
    <3>4. ASSUME NEW e \in Data \ lost'
          PROVE  \/ /\ Runs(e)' \subseteq Runs(e)
                    /\ Runs(e)' # {} /\ running'[e] = None => running[e] = None
                 \/ running'[e] # None /\ \E y : Runs(e)' \subseteq {y}
      <4>1. CASE e = d BY <1>1, <3>2, <4>1
      <4>2. CASE e # d BY <1>1, <3>3, <4>2
      <4> QED BY <4>1, <4>2
    <3> QED BY <1>1, <3>4, RunsKept
  <2> QED BY <2>3, <2>4, <2>5
<1> QED BY <1>1, <1>6, <1>7

\* The object that is returned is in the pool and nowhere else.
LEMMA PutBackRuns ==
  ASSUME RInv, NEW n \in Nodes, PutBack(n)
  PROVE  Shapes' /\ ObjectsAccounted' /\ RunsInv'
<1> USE DEF RInv
<1>0. TypeOK /\ disp \in [Nodes -> Dispatchers] BY DEF BaseInv, TypeOK
<1>d. PICK o : o = disp[n].obj OBVIOUS
<1>1. /\ disp[n].at = "putback" /\ UNCHANGED <<running, mode, task, submitted, thread, lost>>
      /\ idle' = idle \cup {o}
      /\ \E step \in {"take", "dead"} : disp' = [disp EXCEPT ![n] = Dismissed(step)]
  BY <1>d DEF PutBack, At, Loop
<1>2. /\ disp'[n].at \in {"take", "dead"} /\ disp'[n].obj = None /\ disp'[n].data = None
      /\ \A m \in Nodes \ {n} : disp'[m] = disp[m]
  BY <1>0, <1>1 DEF Dismissed
<1>3. o \in Objects BY <1>1, <1>d DEF BaseInv, Loaded
<1>4. Shapes' BY <1>1, <1>2, DispShapes
<1>5. \A m \in Nodes : disp'[m].at # "dead" => disp[m].at # "dead" BY <1>1, <1>2
<1>6. ObjectsAccounted'
  <2>1. Places(o)' = {<<"pool">>}
    <3>1. <<"pool">> \in Places(o)' BY <1>1, PlacesAndRunsNext DEF PlaceIs
    <3>2. ASSUME NEW x \in Places(o)' PROVE x = <<"pool">>
      <4>1. /\ \A m \in Nodes : disp[m].obj = o => m = n
            /\ \A m \in Nodes : \A i \in DOMAIN submitted[m] : submitted[m][i] # o
            /\ \A w \in Threads : Holding(w) => thread[w].obj # o
        BY <1>3, <1>d, PlaceFacts
      <4>2. \A m \in Nodes : disp'[m].obj # o BY <1>2, <1>3, <4>1
      <4>3. \A w \in Threads : Holding(w)' => thread'[w].obj # o BY <1>1, <4>1 DEF Holding
      <4> QED BY <1>1, <4>1, <4>2, <4>3, PlacesAndRunsNext DEF PlaceIs
    <3> QED BY <3>1, <3>2
  <2>2. ASSUME NEW p \in Objects, p # o PROVE Places(p)' = Places(p)
    <3>1. \A m \in Nodes : disp'[m].obj = p <=> disp[m].obj = p BY <2>2, <1>2, <1>d
    <3>2. p \in idle' <=> p \in idle BY <2>2, <1>1
    <3> QED BY <3>1, <3>2, <1>1, SamePlaces DEF Holding
  <2> QED BY <1>1, <1>5, <2>1, <2>2, Accounted
<1>7. RunsInv'
  <2>1. ASSUME NEW e \in Data PROVE Runs(e)' = Runs(e)
    <3>1. \A m \in Nodes : disp'[m].at = "submit" /\ disp'[m].data = e <=>
                             disp[m].at = "submit" /\ disp[m].data = e
      BY <1>1, <1>2
    <3> QED BY <1>1, <3>1, SameRuns
  <2> QED BY <1>1, <2>1, RunsKept
<1> QED BY <1>4, <1>6, <1>7

LEMMA ReturnObjectRuns ==
  ASSUME RInv, NEW w \in Threads, ReturnObject(w)
  PROVE  Shapes' /\ ObjectsAccounted' /\ RunsInv'
<1> USE DEF RInv
<1>0. TypeOK /\ thread \in [Threads -> ThreadStates] BY DEF BaseInv, TypeOK
<1>d. PICK o : o = thread[w].obj OBVIOUS
<1>1. /\ thread[w].at = "return" /\ UNCHANGED <<running, mode, disp, task, submitted, lost>>
      /\ idle' = idle \cup {o} /\ thread' = [thread EXCEPT ![w].at = "readdata"]
  BY <1>d DEF ReturnObject, ThreadAt, redis
<1>2. /\ thread'[w].at = "readdata" /\ thread'[w].data = thread[w].data
      /\ \A v \in Threads \ {w} : thread'[v] = thread[v]
  BY <1>0, <1>1 DEF ThreadStates
<1>3. o \in Objects BY <1>1, <1>d DEF BaseInv, Loaded
<1>4. Holding(w) /\ ~Holding(w)' /\ \A v \in Threads \ {w} : Holding(v)' <=> Holding(v)
  BY <1>1, <1>2 DEF Holding
<1>5. Shapes' BY <1>1, <1>2, <1>4, ThreadShapes
<1>6. ObjectsAccounted'
  <2>1. Places(o)' = {<<"pool">>}
    <3>1. <<"pool">> \in Places(o)' BY <1>1, PlacesAndRunsNext DEF PlaceIs
    <3>2. ASSUME NEW x \in Places(o)' PROVE x = <<"pool">>
      <4>1. /\ \A m \in Nodes : disp[m].obj # o
            /\ \A m \in Nodes : \A i \in DOMAIN submitted[m] : submitted[m][i] # o
            /\ \A v \in Threads : Holding(v) /\ thread[v].obj = o => v = w
        BY <1>3, <1>4, <1>d, PlaceFacts
      <4>2. \A v \in Threads : ~(Holding(v)' /\ thread'[v].obj = o) BY <1>2, <1>4, <4>1
      <4> QED BY <1>1, <4>1, <4>2, PlacesAndRunsNext DEF PlaceIs
    <3> QED BY <3>1, <3>2
  <2>2. ASSUME NEW p \in Objects, p # o PROVE Places(p)' = Places(p)
    <3>1. \A v \in Threads : Holding(v)' /\ thread'[v].obj = p <=> Holding(v) /\ thread[v].obj = p
      BY <2>2, <1>2, <1>4, <1>d
    <3>2. p \in idle' <=> p \in idle BY <2>2, <1>1
    <3> QED BY <3>1, <3>2, <1>1, SamePlaces
  <2> QED BY <1>1, <2>1, <2>2, Accounted
<1>7. RunsInv'
  <2>1. ASSUME NEW e \in Data PROVE Runs(e)' = Runs(e)
    <3>1. \A v \in Threads : thread'[v].data = e <=> thread[v].data = e BY <1>2
    <3> QED BY <1>1, <3>1, SameRuns
  <2> QED BY <1>1, <2>1, RunsKept
<1> QED BY <1>5, <1>6, <1>7

\* The steps of a thread between the first and the last that touch neither its
\* Task object nor its datum.
LEMMA ThreadStays ==
  ASSUME RInv, NEW w \in Threads,
         \/ Succeed(w) \/ Fail(w) \/ Wake(w) \/ Interrupted(w) \/ ReadData(w) \/ ReadTime(w)
  PROVE  Shapes' /\ ObjectsAccounted' /\ RunsInv'
<1> USE DEF RInv
<1>0. TypeOK /\ thread \in [Threads -> ThreadStates] BY DEF BaseInv, TypeOK
<1>1. UNCHANGED <<running, mode, disp, idle, task, submitted, lost>>
  BY DEF Succeed, Fail, Wake, Interrupted, ReadData, ReadTime, redis
<1>2. /\ thread'[w].obj = thread[w].obj /\ thread'[w].data = thread[w].data
      /\ Holding(w)' <=> Holding(w)
      /\ thread'[w].at # "idle"
      /\ \A v \in Threads \ {w} : thread'[v] = thread[v]
  <2>1. CASE Succeed(w) \/ Interrupted(w)
    <3>1. thread[w].at \in {"process", "sleep"} /\ thread' = [thread EXCEPT ![w].at = "return"]
      BY <2>1 DEF Succeed, Interrupted, ThreadAt
    <3> QED BY <1>0, <3>1 DEF ThreadStates, Holding
  <2>2. CASE Fail(w) \/ Wake(w)
    <3>1. /\ thread[w].at \in {"process", "sleep"}
          /\ \/ thread' = [thread EXCEPT ![w].at = "return"]
             \/ thread' = [thread EXCEPT ![w].at = "sleep", ![w].tries = @ + 1]
             \/ thread' = [thread EXCEPT ![w].at = "process"]
      BY <2>2 DEF Fail, Wake, ThreadAt, GiveUp
    <3> QED BY <1>0, <3>1 DEF ThreadStates, Holding
  <2>3. CASE ReadData(w)
    <3>1. /\ thread[w].at = "readdata"
          /\ thread' = [thread EXCEPT ![w].at = "readtime", ![w].key = task[thread[w].obj].data]
      BY <2>3 DEF ReadData, ThreadAt
    <3> QED BY <1>0, <3>1 DEF ThreadStates, Holding
  <2>4. CASE ReadTime(w)
    <3>1. /\ thread[w].at = "readtime"
          /\ thread' = [thread EXCEPT ![w].at = "delete", ![w].time = task[thread[w].obj].time]
      BY <2>4 DEF ReadTime, ThreadAt
    <3> QED BY <1>0, <3>1 DEF ThreadStates, Holding
  <2> QED BY <2>1, <2>2, <2>3, <2>4
<1>3. Shapes'
  <2>1. Holding(w) => Home[thread[w].obj] = Home[w] BY DEF Shapes
  <2> QED BY <1>1, <1>2, <2>1, ThreadShapes
<1>4. \A v \in Threads : /\ thread'[v].data = thread[v].data /\ thread'[v].obj = thread[v].obj
                         /\ Holding(v)' <=> Holding(v)
  BY <1>2 DEF Holding
<1>5. ObjectsAccounted' /\ RunsInv' BY <1>0, <1>1, <1>4, Undisturbed
<1> QED BY <1>3, <1>5

\* The place or run a place or run comes from when thread w takes the first Task
\* of node n.
From(n, w, x, y) ==
  \/ x = <<"thread", w>> /\ y = <<"submitted", n, 1>>
  \/ \E i \in Nat \ {0} : x = <<"submitted", n, i>> /\ y = <<"submitted", n, i + 1>>
  \/ x = y /\ x # <<"thread", w>> /\ \A i : x # <<"submitted", n, i>>

\* No two come from the same one.
LEMMA FromInjective ==
  ASSUME NEW n, NEW w, NEW x, NEW y, NEW z, From(n, w, x, z), From(n, w, y, z)
  PROVE  x = y
<1>1. CASE x = <<"thread", w>> /\ z = <<"submitted", n, 1>>
  <2>1. \A i \in Nat \ {0} : z # <<"submitted", n, i + 1>>
    <3> SUFFICES ASSUME NEW i \in Nat \ {0}, z = <<"submitted", n, i + 1>> PROVE FALSE
      OBVIOUS
    <3>1. i + 1 = 1 BY <1>1
    <3> QED BY <3>1
  <2>2. \/ y = <<"thread", w>>
        \/ \E i \in Nat \ {0} : z = <<"submitted", n, i + 1>>
        \/ y = z /\ \A i : y # <<"submitted", n, i>>
    BY DEF From
  <2> QED BY <1>1, <2>1, <2>2
<1>2. CASE \E i \in Nat \ {0} : x = <<"submitted", n, i>> /\ z = <<"submitted", n, i + 1>>
  <2>1. PICK i \in Nat \ {0} : x = <<"submitted", n, i>> /\ z = <<"submitted", n, i + 1>>
    BY <1>2
  <2>2. CASE y = <<"thread", w>> /\ z = <<"submitted", n, 1>>
    <3>1. i + 1 = 1 BY <2>1, <2>2
    <3> QED BY <3>1
  <2>3. CASE \E j \in Nat \ {0} : y = <<"submitted", n, j>> /\ z = <<"submitted", n, j + 1>>
    <3>1. PICK j \in Nat \ {0} : y = <<"submitted", n, j>> /\ z = <<"submitted", n, j + 1>>
      BY <2>3
    <3>2. i + 1 = j + 1 BY <2>1, <3>1
    <3> QED BY <2>1, <3>1, <3>2
  <2>4. CASE y = z /\ \A j : y # <<"submitted", n, j>>
    BY <2>1, <2>4
  <2> QED BY <2>2, <2>3, <2>4 DEF From
<1>3. CASE x = z /\ x # <<"thread", w>> /\ \A i : x # <<"submitted", n, i>>
  <2>1. y = z \/ \E i : z = <<"submitted", n, i>> BY DEF From
  <2> QED BY <1>3, <2>1
<1> QED BY <1>1, <1>2, <1>3 DEF From

\* What Tail does to the queue of a threadPool, and to no other.
LEMMA SubmittedTail ==
  ASSUME TypeOK, NEW n \in Nodes, submitted[n] # <<>>,
         submitted' = [submitted EXCEPT ![n] = Tail(@)]
  PROVE  /\ 1 \in DOMAIN submitted[n] /\ submitted[n][1] = Head(submitted[n])
         /\ \A m \in Nodes \ {n} : submitted'[m] = submitted[m]
         /\ \A i \in DOMAIN submitted'[n] :
              /\ i \in Nat \ {0} /\ i + 1 \in DOMAIN submitted[n]
              /\ submitted'[n][i] = submitted[n][i + 1]
         /\ \A i \in DOMAIN submitted[n] :
              i # 1 => i - 1 \in DOMAIN submitted'[n] /\ submitted'[n][i - 1] = submitted[n][i]
<1>1. PICK q : q = submitted[n] OBVIOUS
<1>2. q \in Seq(Objects) /\ q # <<>> BY <1>1 DEF TypeOK
<1>3. /\ Len(q) \in Nat \ {0} /\ DOMAIN q = 1..Len(q) /\ q[1] = Head(q)
      /\ DOMAIN Tail(q) = 1..(Len(q) - 1)
      /\ \A i \in 1..(Len(q) - 1) : Tail(q)[i] = q[i + 1]
  BY <1>2
<1>4. submitted'[n] = Tail(q) /\ \A m \in Nodes \ {n} : submitted'[m] = submitted[m]
  BY <1>1 DEF TypeOK
<1>5. PICK t, k : t = Tail(q) /\ k = Len(q) OBVIOUS
<1>6. /\ k \in Nat \ {0} /\ DOMAIN q = 1..k /\ DOMAIN t = 1..(k - 1)
      /\ \A i \in 1..(k - 1) : t[i] = q[i + 1]
  BY <1>3, <1>5
<1>7. ASSUME NEW i \in DOMAIN t
      PROVE  i \in Nat \ {0} /\ i + 1 \in DOMAIN q /\ t[i] = q[i + 1]
  BY <1>6
<1>8. ASSUME NEW i \in DOMAIN q, i # 1
      PROVE  i - 1 \in DOMAIN t /\ t[i - 1] = q[i]
  <2>1. i \in Nat /\ i - 1 \in 1..(k - 1) /\ (i - 1) + 1 = i BY <1>6, <1>8
  <2>2. t[i - 1] = q[(i - 1) + 1] BY <1>6, <2>1
  <2> QED BY <1>6, <2>1, <2>2
<1>9. submitted[n] = q /\ submitted'[n] = t BY <1>1, <1>4, <1>5
<1> QED BY <1>1, <1>3, <1>4, <1>7, <1>8, <1>9

\* A thread takes the first Task that waits: object and run move along.
LEMMA StartRuns ==
  ASSUME RInv, NEW w \in Threads, Start(w)
  PROVE  Shapes' /\ ObjectsAccounted' /\ RunsInv'
<1> USE DEF RInv
<1>0. TypeOK /\ thread \in [Threads -> ThreadStates] /\ Home[w] \in Nodes BY DEF BaseInv, TypeOK
<1>d. PICK n, o, d : n = Home[w] /\ o = Head(submitted[n]) /\ d = task[o].data OBVIOUS
<1>1. /\ thread[w].at = "idle" /\ UNCHANGED <<running, mode, disp, idle, task, lost>>
      /\ n \in Nodes /\ submitted[n] # <<>>
      /\ submitted' = [submitted EXCEPT ![n] = Tail(@)]
      /\ thread' = [thread EXCEPT ![w].at = "process", ![w].obj = o, ![w].data = d]
  BY <1>0, <1>d DEF Start, ThreadAt, redis
<1>2. /\ thread'[w].at = "process" /\ thread'[w].obj = o /\ thread'[w].data = d
      /\ \A v \in Threads \ {w} : thread'[v] = thread[v]
  BY <1>0, <1>1 DEF ThreadStates
<1>3. /\ 1 \in DOMAIN submitted[n] /\ submitted[n][1] = o
      /\ \A m \in Nodes \ {n} : submitted'[m] = submitted[m]
      /\ \A i \in DOMAIN submitted'[n] :
           /\ i \in Nat \ {0} /\ i + 1 \in DOMAIN submitted[n]
           /\ submitted'[n][i] = submitted[n][i + 1]
      /\ \A i \in DOMAIN submitted[n] :
           i # 1 => i - 1 \in DOMAIN submitted'[n] /\ submitted'[n][i - 1] = submitted[n][i]
  BY <1>0, <1>1, <1>d, SubmittedTail
<1>4. /\ ~Holding(w) /\ Holding(w)' /\ \A v \in Threads \ {w} : Holding(v)' <=> Holding(v)
      /\ thread[w].data = None
  BY <1>1, <1>2 DEF Holding, Shapes
<1>5. o \in Objects /\ Home[o] = n BY <1>0, <1>1, <1>3 DEF TypeOK, Shapes
<1>6. Shapes'
  <2>1. ASSUME NEW v \in Threads
        PROVE  /\ thread'[v].at = "idle" => thread'[v].data = None
               /\ Holding(v)' => Home[thread'[v].obj] = Home[v]
    <3>1. CASE v = w BY <3>1, <1>2, <1>5, <1>d
    <3>2. CASE v # w BY <3>2, <1>2 DEF Shapes, Holding
    <3> QED BY <3>1, <3>2
  <2>2. ASSUME NEW m \in Nodes, NEW i \in DOMAIN submitted'[m] PROVE Home[submitted'[m][i]] = m
    <3>1. CASE m = n BY <2>2, <3>1, <1>3 DEF Shapes
    <3>2. CASE m # n BY <2>2, <3>2, <1>3 DEF Shapes
    <3> QED BY <3>1, <3>2
  <2> QED BY <1>1, <2>1, <2>2 DEF Shapes
<1>7. ASSUME NEW p \in Objects, NEW x \in Places(p)'
      PROVE  \E y \in Places(p) : From(n, w, x, y)
  <2>1. CASE x = <<"pool">> /\ p \in idle'
    <3>1. x \in Places(p) BY <1>1, <2>1, PlacesAndRuns DEF PlaceIs
    <3> QED BY <2>1, <3>1 DEF From
  <2>2. CASE \E m \in Nodes : x = <<"dispatcher", m>> /\ disp'[m].obj = p
    <3>1. x \in Places(p) BY <1>1, <2>2, PlacesAndRuns DEF PlaceIs
    <3> QED BY <2>2, <3>1 DEF From
  <2>3. CASE \E m \in Nodes : \E i \in DOMAIN submitted'[m] :
               x = <<"submitted", m, i>> /\ submitted'[m][i] = p
    <3>0. PICK m \in Nodes : \E i \in DOMAIN submitted'[m] :
            x = <<"submitted", m, i>> /\ submitted'[m][i] = p
      BY <2>3
    <3>1. PICK i \in DOMAIN submitted'[m] : x = <<"submitted", m, i>> /\ submitted'[m][i] = p
      BY <3>0
    <3>2. CASE m = n
      <4>1. i \in Nat \ {0} /\ i + 1 \in DOMAIN submitted[n] /\ submitted[n][i + 1] = p
        BY <1>3, <3>1, <3>2
      <4>2. <<"submitted", n, i + 1>> \in Places(p) BY <1>1, <4>1, PlacesAndRuns DEF PlaceIs
      <4>3. From(n, w, x, <<"submitted", n, i + 1>>) BY <3>1, <3>2, <4>1 DEF From
      <4> QED BY <4>2, <4>3
    <3>3. CASE m # n
      <4>1. x \in Places(p) BY <1>3, <3>1, <3>3, PlacesAndRuns DEF PlaceIs
      <4> QED BY <3>1, <3>3, <4>1 DEF From
    <3> QED BY <3>2, <3>3
  <2>4. CASE \E v \in Threads : x = <<"thread", v>> /\ Holding(v)' /\ thread'[v].obj = p
    <3>1. PICK v \in Threads : x = <<"thread", v>> /\ Holding(v)' /\ thread'[v].obj = p BY <2>4
    <3>2. CASE v = w
      <4>1. <<"submitted", n, 1>> \in Places(p)
        BY <1>1, <1>2, <1>3, <3>1, <3>2, PlacesAndRuns DEF PlaceIs
      <4> QED BY <3>1, <3>2, <4>1 DEF From
    <3>3. CASE v # w
      <4>1. x \in Places(p) BY <1>2, <1>4, <3>1, <3>3, PlacesAndRuns DEF PlaceIs
      <4> QED BY <3>1, <3>3, <4>1 DEF From
    <3> QED BY <3>2, <3>3
  <2> QED BY <1>7, <2>1, <2>2, <2>3, <2>4, PlacesAndRunsNext DEF PlaceIs
<1>8. ASSUME NEW p \in Objects, NEW y \in Places(p) PROVE Places(p)' # {}
  <2>1. CASE y = <<"pool">> /\ p \in idle
    BY <1>1, <2>1, PlacesAndRunsNext DEF PlaceIs
  <2>2. CASE \E m \in Nodes : y = <<"dispatcher", m>> /\ disp[m].obj = p
    BY <1>1, <2>2, PlacesAndRunsNext DEF PlaceIs
  <2>3. CASE \E m \in Nodes : \E i \in DOMAIN submitted[m] :
               y = <<"submitted", m, i>> /\ submitted[m][i] = p
    <3>0. PICK m \in Nodes : \E i \in DOMAIN submitted[m] : submitted[m][i] = p BY <2>3
    <3>1. PICK i \in DOMAIN submitted[m] : submitted[m][i] = p BY <3>0
    <3>2. CASE m = n /\ i = 1
      <4>1. <<"thread", w>> \in Places(p)'
        BY <1>2, <1>3, <1>4, <3>1, <3>2, PlacesAndRunsNext DEF PlaceIs
      <4> QED BY <4>1
    <3>3. CASE m = n /\ i # 1
      <4>1. <<"submitted", n, i - 1>> \in Places(p)'
        BY <1>1, <1>3, <3>1, <3>3, PlacesAndRunsNext DEF PlaceIs
      <4> QED BY <4>1
    <3>4. CASE m # n
      <4>1. <<"submitted", m, i>> \in Places(p)' BY <1>3, <3>1, <3>4, PlacesAndRunsNext DEF PlaceIs
      <4> QED BY <4>1
    <3> QED BY <3>2, <3>3, <3>4
  <2>4. CASE \E v \in Threads : y = <<"thread", v>> /\ Holding(v) /\ thread[v].obj = p
    <3>1. PICK v \in Threads : Holding(v) /\ thread[v].obj = p BY <2>4
    <3>2. v # w BY <1>4, <3>1
    <3>3. <<"thread", v>> \in Places(p)' BY <1>2, <1>4, <3>1, <3>2, PlacesAndRunsNext DEF PlaceIs
    <3> QED BY <3>3
  <2> QED BY <1>8, <2>1, <2>2, <2>3, <2>4, PlacesAndRuns DEF PlaceIs
<1>9. ObjectsAccounted'
  <2>1. ASSUME NEW p \in Objects, NEW x \in Places(p)', NEW z \in Places(p)' PROVE x = z
    <3>1. PICK y \in Places(p) : From(n, w, x, y) BY <1>7
    <3>2. PICK u \in Places(p) : From(n, w, z, u) BY <1>7
    <3>3. y = u BY DEF ObjectsAccounted
    <3> QED BY <3>1, <3>2, <3>3, FromInjective
  <2>2. ASSUME NEW p \in Objects, mode'[Home[p]] = "up", disp'[Home[p]].at # "dead"
        PROVE  Places(p)' # {}
    <3>1. Places(p) # {} BY <1>1, <2>2 DEF ObjectsAccounted
    <3> QED BY <1>8, <3>1
  <2> QED BY <2>1, <2>2 DEF ObjectsAccounted
<1>10. ASSUME NEW e \in Data, NEW x \in Runs(e)'
       PROVE  \E y \in Runs(e) : From(n, w, x, y)
  <2>2. CASE \E m \in Nodes : x = <<"dispatcher", m>> /\ disp'[m].at = "submit" /\ disp'[m].data = e
    <3>1. x \in Runs(e) BY <1>1, <2>2, PlacesAndRuns DEF RunIs
    <3> QED BY <2>2, <3>1 DEF From
  <2>3. CASE \E m \in Nodes : \E i \in DOMAIN submitted'[m] :
               x = <<"submitted", m, i>> /\ task'[submitted'[m][i]].data = e
    <3>0. PICK m \in Nodes : \E i \in DOMAIN submitted'[m] :
            x = <<"submitted", m, i>> /\ task'[submitted'[m][i]].data = e
      BY <2>3
    <3>1. PICK i \in DOMAIN submitted'[m] :
            x = <<"submitted", m, i>> /\ task'[submitted'[m][i]].data = e
      BY <3>0
    <3>2. CASE m = n
      <4>1. i \in Nat \ {0} /\ i + 1 \in DOMAIN submitted[n] /\ task[submitted[n][i + 1]].data = e
        BY <1>1, <1>3, <3>1, <3>2
      <4>2. <<"submitted", n, i + 1>> \in Runs(e) BY <1>1, <4>1, PlacesAndRuns DEF RunIs
      <4>3. From(n, w, x, <<"submitted", n, i + 1>>) BY <3>1, <3>2, <4>1 DEF From
      <4> QED BY <4>2, <4>3
    <3>3. CASE m # n
      <4>1. x \in Runs(e) BY <1>1, <1>3, <3>1, <3>3, PlacesAndRuns DEF RunIs
      <4> QED BY <3>1, <3>3, <4>1 DEF From
    <3> QED BY <3>2, <3>3
  <2>4. CASE \E v \in Threads : x = <<"thread", v>> /\ thread'[v].data = e
    <3>1. PICK v \in Threads : x = <<"thread", v>> /\ thread'[v].data = e BY <2>4
    <3>2. CASE v = w
      <4>1. task[submitted[n][1]].data = e BY <1>2, <1>3, <1>d, <3>1, <3>2
      <4>2. <<"submitted", n, 1>> \in Runs(e) BY <1>1, <1>3, <4>1, PlacesAndRuns DEF RunIs
      <4> QED BY <3>1, <3>2, <4>2 DEF From
    <3>3. CASE v # w
      <4>1. x \in Runs(e) BY <1>2, <3>1, <3>3, PlacesAndRuns DEF RunIs
      <4> QED BY <3>1, <3>3, <4>1 DEF From
    <3> QED BY <3>2, <3>3
  <2> QED BY <1>10, <2>2, <2>3, <2>4, PlacesAndRunsNext DEF RunIs
<1>11. RunsInv'
  <2>1. ASSUME NEW e \in Data \ lost', NEW x \in Runs(e)', NEW z \in Runs(e)' PROVE x = z
    <3>1. PICK y \in Runs(e) : From(n, w, x, y) BY <1>10
    <3>2. PICK u \in Runs(e) : From(n, w, z, u) BY <1>10
    <3>3. y = u BY <1>1 DEF RunsInv
    <3> QED BY <3>1, <3>2, <3>3, FromInjective
  <2>2. ASSUME NEW e \in Data \ lost', Runs(e)' # {} PROVE running'[e] # None
    <3>1. Runs(e) # {} BY <1>10, <2>2
    <3> QED BY <1>1, <3>1 DEF RunsInv
  <2> QED BY <2>1, <2>2 DEF RunsInv
<1> QED BY <1>6, <1>9, <1>11

\* The end of a Task.  A thread that deletes the running key of its own datum was
\* the only run of that datum, or the key had been taken away before.
LEMMA DeleteRuns ==
  ASSUME RInv, NEW w \in Threads, Delete(w) \/ DeleteFails(w)
  PROVE  Shapes' /\ ObjectsAccounted' /\ RunsInv'
<1> USE DEF RInv
<1>0. /\ TypeOK /\ thread \in [Threads -> ThreadStates] /\ lost \subseteq Data
      /\ running \in [Data -> Times \cup {None}]
  BY DEF BaseInv, TypeOK
<1>d. PICK key, d : key = thread[w].key /\ d = thread[w].data OBVIOUS
<1>1. /\ thread[w].at = "delete" /\ UNCHANGED <<mode, disp, idle, task, submitted>>
      /\ thread' = [thread EXCEPT ![w] = IdleThread]
      /\ \/ running' = running /\ lost' = lost
         \/ /\ running' = [running EXCEPT ![key] = None]
            /\ lost' = IF key # d THEN lost \cup {key} ELSE lost
  BY <1>d DEF Delete, DeleteFails, ThreadAt, redis
<1>2. /\ thread'[w].at = "idle" /\ thread'[w].data = None
      /\ \A v \in Threads \ {w} : thread'[v] = thread[v]
  BY <1>0, <1>1 DEF IdleThread
<1>3. \A v \in Threads : /\ Holding(v)' <=> Holding(v)
                         /\ Holding(v)' => thread'[v].obj = thread[v].obj
  BY <1>1, <1>2 DEF Holding
<1>4. Shapes' BY <1>1, <1>2, <1>3, ThreadShapes DEF Holding
<1>5. ObjectsAccounted'
  <2>1. ASSUME NEW p \in Objects PROVE Places(p)' = Places(p)
    BY <1>1, <1>3, SamePlaces
  <2> QED BY <1>1, <2>1, Accounted
<1>6. RunsInv'
  <2>1. ASSUME NEW e \in Data, NEW x \in Runs(e)'
        PROVE  x \in Runs(e) /\ x # <<"thread", w>>
    <3>1. CASE \E m \in Nodes : x = <<"dispatcher", m>> /\ disp'[m].at = "submit" /\ disp'[m].data = e
      BY <1>1, <3>1, PlacesAndRuns DEF RunIs
    <3>2. CASE \E m \in Nodes : \E i \in DOMAIN submitted'[m] :
                 x = <<"submitted", m, i>> /\ task'[submitted'[m][i]].data = e
      BY <1>1, <3>2, PlacesAndRuns DEF RunIs
    <3>3. CASE \E v \in Threads : x = <<"thread", v>> /\ thread'[v].data = e
      <4>1. PICK v \in Threads : x = <<"thread", v>> /\ thread'[v].data = e BY <3>3
      <4>2. v # w BY <1>2, <4>1
      <4>3. x \in Runs(e) BY <1>2, <4>1, <4>2, PlacesAndRuns DEF RunIs
      <4> QED BY <4>1, <4>2, <4>3
    <3> QED BY <2>1, <3>1, <3>2, <3>3, PlacesAndRunsNext DEF RunIs
  <2>2. lost \subseteq lost' BY <1>1
  <2>3. ASSUME NEW e \in Data \ lost', Runs(e)' # {}, running'[e] = None PROVE running[e] = None
    <3>1. CASE running' = running BY <2>3, <3>1
    <3>2. CASE /\ running' = [running EXCEPT ![key] = None]
               /\ lost' = IF key # d THEN lost \cup {key} ELSE lost
      <4>1. CASE e # key BY <1>0, <2>3, <3>2, <4>1
      <4>2. CASE e = key
        <5>1. e = d BY <2>3, <3>2, <4>2
        <5>2. <<"thread", w>> \in Runs(e) BY <1>d, <5>1, PlacesAndRuns DEF RunIs
        <5>3. \A x \in Runs(e) : x = <<"thread", w>> BY <2>2, <5>2 DEF RunsInv
        <5> QED BY <2>1, <2>3, <5>3
      <4> QED BY <4>1, <4>2
    <3> QED BY <1>1, <3>1, <3>2
  <2> QED BY <2>1, <2>2, <2>3, RunsKept
<1> QED BY <1>4, <1>5, <1>6

\* A node that stops or dies takes its waiting Tasks, and perhaps its dispatcher
\* and threads, along.
LEMMA NodeGoes ==
  ASSUME RInv, NEW n \in Nodes,
         UNCHANGED <<running, idle, task, lost>>,
         mode'[n] # "up", \A m \in Nodes : mode'[m] = "up" => mode[m] = "up",
         DOMAIN submitted'[n] = {}, \A m \in Nodes \ {n} : submitted'[m] = submitted[m],
         \A m \in Nodes :
           \/ disp'[m] = disp[m]
           \/ m = n /\ disp'[m].at = "dead" /\ disp'[m].obj = None /\ disp'[m].data = None,
         \A w \in Threads :
           \/ thread'[w] = thread[w]
           \/ Home[w] = n /\ thread'[w].at = "idle" /\ thread'[w].data = None
  PROVE  Shapes' /\ ObjectsAccounted' /\ RunsInv'
<1> USE DEF RInv
<1>0. TypeOK BY DEF BaseInv
<1>1. Shapes'
  <2>1. ASSUME NEW m \in Nodes
        PROVE  /\ disp'[m].at \in {"take", "dead"} => disp'[m].data = None
               /\ disp'[m].at \in {"take", "borrow", "dead"} => disp'[m].obj = None
               /\ disp'[m].at \in {"settime", "add", "submit", "putback"} =>
                    Home[disp'[m].obj] = m /\ task'[disp'[m].obj].data = disp'[m].data
               /\ disp'[m].at \in {"add", "submit", "putback"} => task'[disp'[m].obj].time \in Times
    <3>1. CASE disp'[m] = disp[m] BY <3>1 DEF Shapes
    <3>2. CASE disp'[m].at = "dead" /\ disp'[m].obj = None /\ disp'[m].data = None BY <3>2
    <3> QED BY <3>1, <3>2
  <2>2. ASSUME NEW m \in Nodes, NEW i \in DOMAIN submitted'[m] PROVE Home[submitted'[m][i]] = m
    <3>1. m # n BY <2>2
    <3> QED BY <2>2, <3>1 DEF Shapes
  <2>3. ASSUME NEW w \in Threads
        PROVE  /\ thread'[w].at = "idle" => thread'[w].data = None
               /\ Holding(w)' => Home[thread'[w].obj] = Home[w]
    <3>1. CASE thread'[w] = thread[w] BY <3>1 DEF Shapes, Holding
    <3>2. CASE thread'[w].at = "idle" /\ thread'[w].data = None BY <3>2 DEF Holding
    <3> QED BY <3>1, <3>2
  <2> QED BY <2>1, <2>2, <2>3 DEF Shapes
<1>2. \A m \in Nodes : disp'[m].at # "dead" => disp[m].at # "dead" OBVIOUS
<1>3. ASSUME NEW p \in Objects, NEW x \in Places(p)' PROVE x \in Places(p)
  <2>1. CASE x = <<"pool">> /\ p \in idle'
    BY <2>1, PlacesAndRuns DEF PlaceIs
  <2>2. CASE \E m \in Nodes : x = <<"dispatcher", m>> /\ disp'[m].obj = p
    <3>1. \A m \in Nodes : disp'[m].obj = p => disp[m].obj = p OBVIOUS
    <3> QED BY <2>2, <3>1, PlacesAndRuns DEF PlaceIs
  <2>3. CASE \E m \in Nodes : \E i \in DOMAIN submitted'[m] :
               x = <<"submitted", m, i>> /\ submitted'[m][i] = p
    <3>1. PICK m \in Nodes : \E i \in DOMAIN submitted'[m] :
            x = <<"submitted", m, i>> /\ submitted'[m][i] = p
      BY <2>3
    <3>2. submitted'[m] = submitted[m] BY <3>1
    <3> QED BY <3>1, <3>2, PlacesAndRuns DEF PlaceIs
  <2>4. CASE \E w \in Threads : x = <<"thread", w>> /\ Holding(w)' /\ thread'[w].obj = p
    <3>1. PICK w \in Threads : x = <<"thread", w>> /\ Holding(w)' /\ thread'[w].obj = p BY <2>4
    <3>2. thread'[w] = thread[w] BY <3>1 DEF Holding
    <3>3. Holding(w) /\ thread[w].obj = p BY <3>1, <3>2 DEF Holding
    <3> QED BY <3>1, <3>3, PlacesAndRuns DEF PlaceIs
  <2> QED BY <1>3, <2>1, <2>2, <2>3, <2>4, PlacesAndRunsNext DEF PlaceIs
<1>4. ASSUME NEW p \in Objects, Home[p] # n PROVE Places(p)' = Places(p)
  <2>1. \A m \in Nodes : disp'[m].obj = p <=> disp[m].obj = p
    <3>1. ASSUME NEW m \in Nodes, disp[m].obj = p, m = n PROVE FALSE
      <4>1. disp[m].at \in {"settime", "add", "submit", "putback"}
        <5>1. disp[m].at \notin {"take", "borrow", "dead"} BY <3>1 DEF Shapes
        <5> QED BY <1>0, <5>1 DEF TypeOK, Dispatchers
      <4> QED BY <1>4, <3>1, <4>1 DEF Shapes
    <3> QED BY <3>1
  <2>2. \A m \in Nodes : \A i :
          i \in DOMAIN submitted'[m] /\ submitted'[m][i] = p <=>
            i \in DOMAIN submitted[m] /\ submitted[m][i] = p
    <3>1. \A i \in DOMAIN submitted[n] : submitted[n][i] # p BY <1>4 DEF Shapes
    <3> QED BY <3>1
  <2>3. ASSUME NEW w \in Threads
        PROVE  Holding(w)' /\ thread'[w].obj = p <=> Holding(w) /\ thread[w].obj = p
    <3>1. CASE thread'[w] = thread[w] BY <3>1 DEF Holding
    <3>2. CASE Home[w] = n /\ thread'[w].at = "idle" /\ thread'[w].data = None
      BY <1>4, <3>2 DEF Shapes, Holding
    <3> QED BY <3>1, <3>2
  <2> QED BY <2>1, <2>2, <2>3, SamePlaces
<1>5. ObjectsAccounted'
  <2>1. ASSUME NEW p \in Objects
        PROVE  \/ Places(p)' = Places(p)
               \/ Places(p)' \subseteq Places(p) /\ mode'[Home[p]] # "up"
    BY <1>3, <1>4
  <2> QED BY <1>2, <2>1, Accounted
<1>6. ASSUME NEW e \in Data, NEW x \in Runs(e)' PROVE x \in Runs(e)
  <2>0. e # None OBVIOUS
  <2>1. CASE \E m \in Nodes : x = <<"dispatcher", m>> /\ disp'[m].at = "submit" /\ disp'[m].data = e
    <3>1. PICK m \in Nodes : x = <<"dispatcher", m>> /\ disp'[m].at = "submit" /\ disp'[m].data = e
      BY <2>1
    <3>2. disp'[m] = disp[m] BY <3>1
    <3> QED BY <3>1, <3>2, PlacesAndRuns DEF RunIs
  <2>2. CASE \E m \in Nodes : \E i \in DOMAIN submitted'[m] :
               x = <<"submitted", m, i>> /\ task'[submitted'[m][i]].data = e
    <3>1. PICK m \in Nodes : \E i \in DOMAIN submitted'[m] :
            x = <<"submitted", m, i>> /\ task'[submitted'[m][i]].data = e
      BY <2>2
    <3>2. submitted'[m] = submitted[m] BY <3>1
    <3> QED BY <3>1, <3>2, PlacesAndRuns DEF RunIs
  <2>3. CASE \E w \in Threads : x = <<"thread", w>> /\ thread'[w].data = e
    <3>1. PICK w \in Threads : x = <<"thread", w>> /\ thread'[w].data = e BY <2>3
    <3>2. thread'[w] = thread[w] BY <2>0, <3>1
    <3> QED BY <3>1, <3>2, PlacesAndRuns DEF RunIs
  <2> QED BY <1>6, <2>1, <2>2, <2>3, PlacesAndRunsNext DEF RunIs
<1>7. RunsInv' BY <1>6, RunsKept
<1> QED BY <1>1, <1>5, <1>7

\* Timeouts, put(), stop() and crashes.
LEMMA EnvironmentRuns ==
  ASSUME RInv,
         \/ \E d \in Data : Expire(d)
         \/ \E n \in Nodes, d \in Data : CallPut(n, d)
         \/ \E n \in Nodes : Stop(n) \/ Shutdown(n) \/ ShutdownNow(n) \/ Crash(n)
  PROVE  Shapes' /\ ObjectsAccounted' /\ RunsInv'
<1> USE DEF RInv
<1>0. TypeOK /\ running \in [Data -> Times \cup {None}] /\ lost \subseteq Data BY DEF BaseInv, TypeOK
<1>1. ASSUME NEW d \in Data, Expire(d) PROVE Shapes' /\ ObjectsAccounted' /\ RunsInv'
  <2>1. /\ running' = [running EXCEPT ![d] = None]
        /\ lost' = IF Runs(d) = {} THEN lost ELSE lost \cup {d}
        /\ UNCHANGED <<mode, disp, idle, task, submitted, thread>>
    BY <1>1 DEF Expire
  <2>2. Shapes' BY <2>1 DEF Shapes, Holding
  <2>3. ASSUME NEW p \in Objects PROVE Places(p)' = Places(p)
    BY <2>1, SamePlaces DEF Holding
  <2>4. ASSUME NEW e \in Data PROVE Runs(e)' = Runs(e)
    BY <2>1, SameRuns
  <2>5. ObjectsAccounted' BY <2>1, <2>3, Accounted
  <2>6. ASSUME NEW e \in Data \ lost', Runs(e)' # {}, running'[e] = None PROVE running[e] = None
    <3>1. e # d BY <2>1, <2>4, <2>6
    <3> QED BY <1>0, <2>1, <2>6, <3>1
  <2>7. lost \subseteq lost' BY <2>1
  <2>8. RunsInv' BY <2>4, <2>6, <2>7, RunsKept
  <2> QED BY <2>2, <2>5, <2>8
<1>2. ASSUME NEW n \in Nodes, \/ \E d \in Data : CallPut(n, d)
                              \/ Stop(n) \/ Shutdown(n)
      PROVE  Shapes' /\ ObjectsAccounted' /\ RunsInv'
  <2>1. /\ UNCHANGED <<running, disp, idle, task, submitted, thread, lost>>
        /\ \/ mode' = mode
           \/ mode' = [mode EXCEPT ![n] = "stopping"]
           \/ mode' = [mode EXCEPT ![n] = "shutdown"]
    BY <1>2 DEF CallPut, Stop, Shutdown, redis
  <2>2. \A m \in Nodes : mode'[m] = "up" => mode[m] = "up" BY <1>0, <2>1 DEF TypeOK
  <2>3. Shapes' BY <2>1 DEF Shapes, Holding
  <2>4. ObjectsAccounted' /\ RunsInv' BY <1>0, <2>1, <2>2, Undisturbed DEF Holding
  <2> QED BY <2>3, <2>4
<1>3. ASSUME NEW n \in Nodes, ShutdownNow(n) PROVE Shapes' /\ ObjectsAccounted' /\ RunsInv'
  <2>1. /\ UNCHANGED <<running, disp, idle, task, thread, lost>>
        /\ mode' = [mode EXCEPT ![n] = "halted"]
        /\ submitted' = [submitted EXCEPT ![n] = <<>>]
    BY <1>3 DEF ShutdownNow, redis
  <2>2. /\ mode'[n] # "up" /\ \A m \in Nodes : mode'[m] = "up" => mode[m] = "up"
        /\ submitted'[n] = <<>> /\ \A m \in Nodes \ {n} : submitted'[m] = submitted[m]
    BY <1>0, <2>1 DEF TypeOK
  <2>3. DOMAIN submitted'[n] = {} BY <2>2
  <2> QED BY <2>1, <2>2, <2>3, NodeGoes
<1>4. ASSUME NEW n \in Nodes, Crash(n) PROVE Shapes' /\ ObjectsAccounted' /\ RunsInv'
  <2>1. /\ UNCHANGED <<running, idle, task, lost>>
        /\ mode' = [mode EXCEPT ![n] = "crashed"]
        /\ disp' = [disp EXCEPT ![n] = Dismissed("dead")]
        /\ submitted' = [submitted EXCEPT ![n] = <<>>]
        /\ thread' = [w \in Threads |-> IF Home[w] = n THEN IdleThread ELSE thread[w]]
    BY <1>4 DEF Crash, redis
  <2>2. /\ mode'[n] # "up" /\ \A m \in Nodes : mode'[m] = "up" => mode[m] = "up"
        /\ submitted'[n] = <<>> /\ \A m \in Nodes \ {n} : submitted'[m] = submitted[m]
    BY <1>0, <2>1 DEF TypeOK
  <2>3. DOMAIN submitted'[n] = {} BY <2>2
  <2>4. \A m \in Nodes :
          \/ disp'[m] = disp[m]
          \/ m = n /\ disp'[m].at = "dead" /\ disp'[m].obj = None /\ disp'[m].data = None
    BY <1>0, <2>1 DEF TypeOK, Dismissed
  <2>5. \A w \in Threads :
          \/ thread'[w] = thread[w]
          \/ Home[w] = n /\ thread'[w].at = "idle" /\ thread'[w].data = None
    BY <2>1 DEF IdleThread
  <2> QED BY <2>1, <2>2, <2>3, <2>4, <2>5, NodeGoes
<1> QED BY <1>1, <1>2, <1>3, <1>4

LEMMA InitRuns == Init => RInv
<1> SUFFICES ASSUME Init PROVE RInv
  OBVIOUS
<1>1. /\ disp = [n \in Nodes |-> [at |-> "take", data |-> None, obj |-> None]]
      /\ submitted = [n \in Nodes |-> <<>>] /\ thread = [w \in Threads |-> IdleThread]
      /\ idle = Objects
  BY DEF Init
<1>2. /\ \A n \in Nodes : disp[n].at = "take" /\ disp[n].data = None /\ disp[n].obj = None
      /\ \A n \in Nodes : DOMAIN submitted[n] = {}
      /\ \A w \in Threads : thread[w].at = "idle" /\ thread[w].data = None /\ ~Holding(w)
  BY <1>1 DEF IdleThread, Holding
<1>3. Shapes BY <1>2 DEF Shapes
<1>4. ASSUME NEW o \in Objects PROVE Places(o) = {<<"pool">>}
  <2>1. <<"pool">> \in Places(o) BY <1>1, PlacesAndRuns DEF PlaceIs
  <2>2. ASSUME NEW x \in Places(o) PROVE x = <<"pool">>
    BY <1>2, PlacesAndRuns DEF PlaceIs
  <2> QED BY <2>1, <2>2
<1>5. ASSUME NEW d \in Data PROVE Runs(d) = {}
  <2>1. ASSUME NEW x \in Runs(d) PROVE FALSE
    BY <1>2, PlacesAndRuns DEF RunIs
  <2> QED BY <2>1
<1>6. ObjectsAccounted BY <1>4 DEF ObjectsAccounted
<1>7. RunsInv BY <1>5 DEF RunsInv
<1> QED BY <1>3, <1>6, <1>7, InitBase DEF RInv

LEMMA StepRuns == RInv /\ [Next]_vars => RInv'
<1> SUFFICES ASSUME RInv, [Next]_vars PROVE RInv'
  OBVIOUS
<1>1. BaseInv' BY StepBase DEF RInv
<1>2. CASE UNCHANGED vars
  <2>1. Shapes' BY <1>2 DEF RInv, Shapes, Holding, vars
  <2>2. ObjectsAccounted' /\ RunsInv'
    BY <1>2, Undisturbed DEF RInv, BaseInv, vars, Holding
  <2> QED BY <1>1, <2>1, <2>2 DEF RInv
<1>3. ASSUME NEW n \in Nodes, Dispatch(n) \/ DispatcherFails(n)
      PROVE  Shapes' /\ ObjectsAccounted' /\ RunsInv'
  BY <1>3, DispatcherStays, BorrowRuns, AddToRunningTaskRuns, SubmitRuns, PutBackRuns,
     DispatcherFailsRuns DEF Dispatch
<1>4. ASSUME NEW w \in Threads, Run(w) \/ DeleteFails(w)
      PROVE  Shapes' /\ ObjectsAccounted' /\ RunsInv'
  BY <1>4, StartRuns, ThreadStays, ReturnObjectRuns, DeleteRuns DEF Run
<1>5. CASE Next BY <1>1, <1>3, <1>4, <1>5, EnvironmentRuns DEF Next, RInv
<1> QED BY <1>2, <1>5

\* The inductive invariant of the Task objects and the runs.
THEOREM RInvariance == Spec => []RInv
<1>1. Init => RInv BY InitRuns
<1>2. RInv /\ [Next]_vars => RInv' BY StepRuns
<1> QED BY <1>1, <1>2, PTL DEF Spec, Safety

\* No Task object is handed out twice, whatever fails, and none leaks while the
\* dispatcher of a node that is not stopped lives.
THEOREM ObjectsAccountedHolds == Spec => []ObjectsAccounted
<1>1. RInv => ObjectsAccounted BY DEF RInv
<1> QED BY <1>1, RInvariance, PTL

\* SET NX before the submission and the deletion of the key after the run keep
\* the runs of a datum apart until its key is taken away.
THEOREM OneRunUntilKeyLostHolds == Spec => []OneRunUntilKeyLost
<1>1. RInv => OneRunUntilKeyLost BY DEF RInv, RunsInv, OneRunUntilKeyLost
<1> QED BY <1>1, RInvariance, PTL

-----------------------------------------------------------------------------
(* No datum vanishes.                                                      *)

\* Why a datum may stop waiting.
Excused(d) ==
  \/ \E w \in Threads : ~Processing(w, d) /\ Processing(w, d)'
  \/ \E n \in Nodes :
       Holds(n, d) /\ (faults' > faults \/ mode[n] \in {"stopping", "shutdown", "halted"})
  \/ faults' > faults /\ d = Head(queue)

\* A datum waits in the list exactly when the hash has it.
WaitingIs(d) ==
  \/ d \in keys
  \/ \E n \in Nodes : disp[n].data = d
  \/ \E n \in Nodes : \E i \in DOMAIN submitted[n] : task[submitted[n][i]].data = d

LEMMA WaitingKeys == ASSUME QueueMatchesKeys, NEW d PROVE Waiting(d) <=> WaitingIs(d)
<1>1. d \in keys <=> \E i \in DOMAIN queue : queue[i] = d BY DEF QueueMatchesKeys
<1> QED BY <1>1 DEF Waiting, WaitingIs

\* When one node changes what it holds, it is that node that let go of the datum.
LEMMA OneNodeLetsGo ==
  ASSUME NEW n \in Nodes, NEW d, WaitingIs(d), ~WaitingIs(d)', d \in keys => d \in keys',
         UNCHANGED task,
         \A m \in Nodes \ {n} : disp'[m] = disp[m] /\ submitted'[m] = submitted[m]
  PROVE  Holds(n, d)
BY DEF WaitingIs, Holds

\* put() adds the datum and removes none, or has an excuse.
LEMMA PutWaits ==
  ASSUME TypeOK, NEW n \in Nodes, NEW d \in Data, mode[n] # "crashed", Put(n, d)
  PROVE  /\ keys \subseteq keys'
         /\ d \in keys' \/ faults' > faults \/ mode[n] \in {"stopping", "shutdown", "halted"}
<1>1. CASE AddTask(d) BY <1>1 DEF AddTask
<1>2. CASE mode[n] # "up" /\ UNCHANGED <<queue, keys, faults>> BY <1>2 DEF TypeOK
<1>3. CASE faults < MaxFaults /\ faults' = faults + 1 /\ UNCHANGED <<queue, keys>>
  BY <1>3 DEF TypeOK
<1> QED BY <1>1, <1>2, <1>3 DEF Put

\* A datum that leaves the list goes to a dispatcher, from there to a threadPool or
\* back, and from the threadPool to a thread.
LEMMA DispatcherWaits ==
  ASSUME RInv, NEW n \in Nodes, Dispatch(n) \/ DispatcherFails(n), NEW d \in Data,
         WaitingIs(d), ~WaitingIs(d)'
  PROVE  Excused(d)
<1> USE DEF RInv
<1>0. /\ TypeOK /\ disp \in [Nodes -> Dispatchers] /\ faults \in Nat
      /\ QueueMatchesKeys /\ queue \in Seq(Data)
  BY DEF BaseInv, TypeOK, QueueInv
<1>1. CASE Take(n)
  <2>1. /\ disp[n].at = "take" /\ UNCHANGED <<task, submitted>>
        /\ keys' = keys \ {Head(queue)}
        /\ disp' = [disp EXCEPT ![n].at = "borrow", ![n].data = Head(queue)]
    BY <1>1 DEF Take, At, TakeTask
  <2>2. disp[n].data = None BY <2>1 DEF Shapes
  <2>3. disp'[n].data = Head(queue) /\ \A m \in Nodes \ {n} : disp'[m] = disp[m]
    BY <1>0, <2>1 DEF Dispatchers
  <2> QED BY <2>1, <2>2, <2>3 DEF WaitingIs
<1>2. CASE Borrow(n)
  <2>1. PICK o \in idle :
          /\ disp' = [disp EXCEPT ![n].at = "settime", ![n].obj = o]
          /\ task' = [task EXCEPT ![o].data = disp[n].data]
    BY <1>2 DEF Borrow
  <2>2. UNCHANGED <<keys, submitted>> BY <1>2 DEF Borrow, redis
  <2>3. o \in Objects /\ \A m \in Nodes : \A i \in DOMAIN submitted[m] : submitted[m][i] # o
    BY <1>0, <2>1, PlaceFacts DEF TypeOK
  <2>4. \A m \in Nodes : disp'[m].data = disp[m].data BY <1>0, <2>1 DEF Dispatchers
  <2>5. \A p \in Objects : p # o => task'[p] = task[p] BY <1>0, <2>1 DEF TypeOK
  <2>6. \A m \in Nodes : \A i \in DOMAIN submitted[m] :
          task'[submitted[m][i]] = task[submitted[m][i]]
    BY <1>0, <2>3, <2>5 DEF TypeOK
  <2> QED BY <2>2, <2>4, <2>6 DEF WaitingIs
<1>3. CASE SetTime(n)
  <2>1. PICK t \in Times : task' = [task EXCEPT ![disp[n].obj].time = t]
    BY <1>3 DEF SetTime
  <2>2. /\ UNCHANGED <<keys, submitted>> /\ disp' = [disp EXCEPT ![n].at = "add"]
    BY <1>3 DEF SetTime, redis
  <2>3. \A m \in Nodes : disp'[m].data = disp[m].data BY <1>0, <2>2 DEF Dispatchers
  <2>4. \A p \in Objects : task'[p].data = task[p].data BY <1>0, <2>1 DEF TypeOK, Tasks
  <2>5. \A m \in Nodes : \A i \in DOMAIN submitted[m] :
          task'[submitted[m][i]].data = task[submitted[m][i]].data
    BY <1>0, <2>4 DEF TypeOK
  <2> QED BY <2>2, <2>3, <2>5 DEF WaitingIs
<1>4. CASE AddToRunningTask(n)
  <2>1. /\ UNCHANGED <<keys, task, submitted>>
        /\ \E step \in {"submit", "putback"} : disp' = [disp EXCEPT ![n].at = step]
    BY <1>4 DEF AddToRunningTask
  <2>2. \A m \in Nodes : disp'[m].data = disp[m].data BY <1>0, <2>1 DEF Dispatchers
  <2> QED BY <2>1, <2>2 DEF WaitingIs
<1>5. CASE Submit(n)
  <2>d. PICK o : o = disp[n].obj OBVIOUS
  <2>1. disp[n].at = "submit" /\ UNCHANGED <<keys, task>> BY <1>5 DEF Submit, At, redis
  <2>2. o \in Objects /\ task[o].data = disp[n].data
    BY <2>1, <2>d DEF BaseInv, Loaded, Shapes
  <2>3. CASE mode[n] \in {"shutdown", "halted"}
            /\ disp' = [disp EXCEPT ![n] = Dismissed("dead")] /\ UNCHANGED submitted
    <3>1. \A m \in Nodes \ {n} : disp'[m] = disp[m] BY <1>0, <2>3
    <3>2. Holds(n, d) BY <2>1, <2>3, <3>1, OneNodeLetsGo
    <3> QED BY <2>3, <3>2 DEF Excused
  <2>4. CASE /\ submitted' = [submitted EXCEPT ![n] = Append(@, o)]
             /\ disp' = [disp EXCEPT ![n] = Dismissed("take")]
    <3>a. TypeOK /\ submitted' = [submitted EXCEPT ![n] = Append(@, o)] BY <1>0, <2>4
    <3>k. PICK k : Appended(n, o, k) BY <2>2, <3>a, SubmittedAppend
    <3>1. /\ k \in DOMAIN submitted'[n] /\ submitted'[n][k] = o
          /\ \A m \in Nodes : \A i :
               i \in DOMAIN submitted'[m] <=> i \in DOMAIN submitted[m] \/ (m = n /\ i = k)
          /\ \A m \in Nodes : \A i \in DOMAIN submitted[m] : submitted'[m][i] = submitted[m][i]
      BY <3>k DEF Appended
    <3>2. \A m \in Nodes \ {n} : disp'[m] = disp[m] BY <1>0, <2>4
    <3>3. CASE disp[n].data = d
      <4>1. task'[submitted'[n][k]].data = d BY <2>1, <2>2, <3>1, <3>3
      <4> QED BY <3>1, <4>1 DEF WaitingIs
    <3>4. CASE disp[n].data # d
      <4>1. \A m \in Nodes : disp[m].data = d => disp'[m].data = d BY <3>2, <3>4
      <4>2. \A m \in Nodes : \A i \in DOMAIN submitted[m] :
              i \in DOMAIN submitted'[m] /\ task'[submitted'[m][i]] = task[submitted[m][i]]
        BY <2>1, <3>1
      <4> QED BY <2>1, <4>1, <4>2 DEF WaitingIs
    <3> QED BY <3>3, <3>4
  <2> QED BY <1>5, <2>d, <2>3, <2>4 DEF Submit
<1>6. CASE PutBack(n)
  <2>1. /\ disp[n].at = "putback" /\ mode[n] # "crashed" /\ Put(n, disp[n].data)
        /\ UNCHANGED <<mode, task, submitted>> /\ disp' = [disp EXCEPT ![n] = Loop(n)]
    BY <1>6 DEF PutBack, At
  <2>2. disp[n].data \in Data BY <2>1 DEF BaseInv, Loaded
  <2>3. PICK e \in Data : e = disp[n].data BY <2>2
  <2>4. /\ keys \subseteq keys'
        /\ e \in keys' \/ faults' > faults \/ mode[n] \in {"stopping", "shutdown", "halted"}
    BY <1>0, <2>1, <2>3, PutWaits
  <2>5. \A m \in Nodes \ {n} : disp'[m] = disp[m] BY <1>0, <2>1
  <2>6. CASE e = d /\ e \in keys' BY <2>6 DEF WaitingIs
  <2>7. CASE e = d /\ (faults' > faults \/ mode[n] \in {"stopping", "shutdown", "halted"})
    <3>1. Holds(n, d) BY <2>3, <2>7 DEF Holds
    <3> QED BY <2>7, <3>1 DEF Excused
  <2>8. CASE e # d
    <3>1. \A m \in Nodes : disp[m].data = d => disp'[m].data = d BY <2>3, <2>5, <2>8
    <3> QED BY <2>1, <2>4, <3>1 DEF WaitingIs
  <2> QED BY <2>4, <2>6, <2>7, <2>8
<1>7. CASE Exit(n)
  <2>1. /\ mode[n] \in {"shutdown", "halted"} /\ UNCHANGED <<keys, task, submitted>>
        /\ disp' = [disp EXCEPT ![n] = Dismissed("dead")]
    BY <1>7 DEF Exit, redis
  <2>2. \A m \in Nodes \ {n} : disp'[m] = disp[m] BY <1>0, <2>1
  <2>3. Holds(n, d) BY <2>1, <2>2, OneNodeLetsGo
  <2> QED BY <2>1, <2>3 DEF Excused
<1>8. CASE DispatcherFails(n)
  <2>1. /\ faults' = faults + 1 /\ UNCHANGED <<task, submitted>>
        /\ disp' = [disp EXCEPT ![n] = Dismissed("dead")]
        /\ TakeTask \/ UNCHANGED keys
    BY <1>8 DEF DispatcherFails
  <2>2. faults' > faults BY <1>0, <2>1
  <2>3. CASE d = Head(queue) BY <2>2, <2>3 DEF Excused
  <2>4. CASE d # Head(queue)
    <3>1. d \in keys => d \in keys' BY <2>1, <2>4 DEF TakeTask
    <3>2. \A m \in Nodes \ {n} : disp'[m] = disp[m] BY <1>0, <2>1
    <3>3. Holds(n, d) BY <2>1, <3>1, <3>2, OneNodeLetsGo
    <3> QED BY <2>2, <3>3 DEF Excused
  <2> QED BY <2>3, <2>4
<1> QED BY <1>1, <1>2, <1>3, <1>4, <1>5, <1>6, <1>7, <1>8 DEF Dispatch

LEMMA ThreadWaits ==
  ASSUME RInv, NEW w \in Threads, Run(w) \/ DeleteFails(w), NEW d \in Data,
         WaitingIs(d), ~WaitingIs(d)'
  PROVE  Excused(d)
<1> USE DEF RInv
<1>0. /\ TypeOK /\ thread \in [Threads -> ThreadStates] /\ Home[w] \in Nodes
  BY DEF BaseInv, TypeOK
<1>1. CASE Start(w)
  <2>d. PICK n, o : n = Home[w] /\ o = Head(submitted[n]) OBVIOUS
  <2>1. /\ thread[w].at = "idle" /\ UNCHANGED <<keys, disp, task>>
        /\ n \in Nodes /\ submitted[n] # <<>>
        /\ submitted' = [submitted EXCEPT ![n] = Tail(@)]
        /\ thread' = [thread EXCEPT ![w].at = "process", ![w].obj = o, ![w].data = task[o].data]
    BY <1>0, <1>1, <2>d DEF Start, ThreadAt, redis
  <2>2. /\ 1 \in DOMAIN submitted[n] /\ submitted[n][1] = o
        /\ \A m \in Nodes \ {n} : submitted'[m] = submitted[m]
        /\ \A i \in DOMAIN submitted[n] :
             i # 1 => i - 1 \in DOMAIN submitted'[n] /\ submitted'[n][i - 1] = submitted[n][i]
    BY <1>0, <2>1, <2>d, SubmittedTail
  <2>3. thread'[w].at = "process" /\ thread'[w].data = task[o].data
    BY <1>0, <2>1 DEF ThreadStates
  <2>4. CASE task[o].data = d
    <3>1. ~Processing(w, d) BY <2>1 DEF Processing
    <3>2. Processing(w, d)' BY <2>3, <2>4 DEF Processing
    <3> QED BY <3>1, <3>2 DEF Excused
  <2>5. CASE task[o].data # d
    <3>1. PICK m \in Nodes : \E i \in DOMAIN submitted[m] : task[submitted[m][i]].data = d
      BY <2>1 DEF WaitingIs
    <3>2. PICK i \in DOMAIN submitted[m] : task[submitted[m][i]].data = d BY <3>1
    <3>3. CASE m = n
      <4>1. i # 1 BY <2>2, <2>5, <3>2, <3>3
      <4>2. i - 1 \in DOMAIN submitted'[n] /\ task'[submitted'[n][i - 1]].data = d
        BY <2>1, <2>2, <3>2, <3>3, <4>1
      <4> QED BY <2>1, <4>2 DEF WaitingIs
    <3>4. CASE m # n
      <4>1. i \in DOMAIN submitted'[m] /\ task'[submitted'[m][i]].data = d
        BY <2>1, <2>2, <3>2, <3>4
      <4> QED BY <4>1 DEF WaitingIs
    <3> QED BY <3>3, <3>4
  <2> QED BY <2>4, <2>5
<1>2. CASE /\ UNCHANGED <<disp, task, submitted>> /\ keys \subseteq keys'
  BY <1>2 DEF WaitingIs
<1>3. CASE Fail(w) \/ Wake(w)
  <2>1. /\ UNCHANGED <<disp, task, submitted>> /\ mode[Home[w]] # "crashed"
        /\ keys' = keys \/ GiveUp(w)
        /\ thread[w].at \in {"process", "sleep"}
    BY <1>3 DEF Fail, Wake, ThreadAt
  <2>2. CASE keys' = keys BY <1>2, <2>1, <2>2
  <2>3. CASE GiveUp(w) /\ thread[w].at \in {"process", "sleep"}
    <3>1. thread[w].data \in Data BY <2>3 DEF BaseInv, Loaded
    <3>2. PICK e \in Data : e = thread[w].data BY <3>1
    <3>3. keys' = keys \/ Put(Home[w], e) BY <2>3, <3>2 DEF GiveUp
    <3>4. keys \subseteq keys' BY <1>0, <2>1, <3>3, PutWaits
    <3> QED BY <1>2, <2>1, <3>4
  <2> QED BY <2>1, <2>2, <2>3
<1>4. CASE \/ Succeed(w) \/ Interrupted(w) \/ ReturnObject(w) \/ ReadData(w) \/ ReadTime(w)
           \/ Delete(w) \/ DeleteFails(w)
  <2>1. UNCHANGED <<keys, disp, task, submitted>>
    BY <1>4 DEF Succeed, Interrupted, ReturnObject, ReadData, ReadTime, Delete, DeleteFails, redis
  <2> QED BY <1>2, <2>1
<1> QED BY <1>1, <1>3, <1>4 DEF Run

LEMMA EnvironmentWaits ==
  ASSUME RInv, NEW d \in Data, WaitingIs(d), ~WaitingIs(d)',
         \/ \E e \in Data : Expire(e)
         \/ \E n \in Nodes, e \in Data : CallPut(n, e)
         \/ \E n \in Nodes : Stop(n) \/ Shutdown(n) \/ ShutdownNow(n) \/ Crash(n)
  PROVE  Excused(d)
<1>0. TypeOK /\ faults \in Nat BY DEF RInv, BaseInv, TypeOK
<1>1. CASE UNCHANGED <<disp, task, submitted>> /\ keys \subseteq keys'
  BY <1>1 DEF WaitingIs
<1>2. ASSUME NEW e \in Data, Expire(e) PROVE Excused(d)
  BY <1>1, <1>2 DEF Expire
<1>3. ASSUME NEW n \in Nodes, NEW e \in Data, CallPut(n, e) PROVE Excused(d)
  <2>1. UNCHANGED <<disp, task, submitted>> /\ mode[n] # "crashed" /\ Put(n, e)
    BY <1>3 DEF CallPut
  <2> QED BY <1>0, <1>1, <2>1, PutWaits
<1>4. ASSUME NEW n \in Nodes, Stop(n) \/ Shutdown(n) PROVE Excused(d)
  BY <1>1, <1>4 DEF Stop, Shutdown, redis
<1>5. ASSUME NEW n \in Nodes, ShutdownNow(n) PROVE Excused(d)
  <2>1. /\ mode[n] = "shutdown" /\ UNCHANGED <<keys, disp, task>>
        /\ submitted' = [submitted EXCEPT ![n] = <<>>]
    BY <1>5 DEF ShutdownNow, redis
  <2>2. \A m \in Nodes \ {n} : submitted'[m] = submitted[m] BY <1>0, <2>1 DEF TypeOK
  <2>3. Holds(n, d) BY <2>1, <2>2, OneNodeLetsGo
  <2> QED BY <2>1, <2>3 DEF Excused
<1>6. ASSUME NEW n \in Nodes, Crash(n) PROVE Excused(d)
  <2>1. /\ faults' = faults + 1 /\ UNCHANGED <<keys, task>>
        /\ disp' = [disp EXCEPT ![n] = Dismissed("dead")]
        /\ submitted' = [submitted EXCEPT ![n] = <<>>]
    BY <1>6 DEF Crash, redis
  <2>2. \A m \in Nodes \ {n} : disp'[m] = disp[m] /\ submitted'[m] = submitted[m]
    BY <1>0, <2>1 DEF TypeOK
  <2>3. Holds(n, d) BY <2>1, <2>2, OneNodeLetsGo
  <2> QED BY <1>0, <2>1, <2>3 DEF Excused
<1> QED BY <1>2, <1>3, <1>4, <1>5, <1>6

\* A datum that was put stops waiting only when a thread starts to process it, or
\* when the node that holds or pops it fails, dies or is being stopped.
THEOREM NothingVanishesHolds == Spec => NothingVanishes
<1>1. ASSUME RInv, RInv', [Next]_vars
      PROVE  [\A d \in Data : Waiting(d) /\ ~Waiting(d)' => Excused(d)]_vars
  <2>1. CASE UNCHANGED vars BY <2>1
  <2>2. CASE Next
    <3> SUFFICES ASSUME NEW d \in Data, Waiting(d), ~Waiting(d)' PROVE Excused(d)
      OBVIOUS
    <3>1. QueueMatchesKeys /\ QueueMatchesKeys' BY <1>1 DEF RInv, BaseInv, QueueInv
    <3>2. \A e : Waiting(e) <=> WaitingIs(e) BY <3>1, WaitingKeys
    <3>3. Waiting(d)' <=> WaitingIs(d)'
      <4>1. (d \in keys)' <=> \E i \in DOMAIN queue' : queue'[i] = d BY <3>1 DEF QueueMatchesKeys
      <4> QED BY <4>1 DEF Waiting, WaitingIs
    <3>4. WaitingIs(d) /\ ~WaitingIs(d)' BY <3>2, <3>3
    <3> QED BY <1>1, <2>2, <3>4, DispatcherWaits, ThreadWaits, EnvironmentWaits DEF Next
  <2> QED BY <1>1, <2>1, <2>2
<1>2. [\A d \in Data : Waiting(d) /\ ~Waiting(d)' => Excused(d)]_vars
        => [\A d \in Data :
              Waiting(d) /\ ~Waiting(d)' =>
                \/ \E w \in Threads : ~Processing(w, d) /\ Processing(w, d)'
                \/ \E n \in Nodes :
                     Holds(n, d)
                       /\ (faults' > faults \/ mode[n] \in {"stopping", "shutdown", "halted"})
                \/ faults' > faults /\ d = Head(queue)]_vars
  BY DEF Excused
<1> QED BY <1>1, <1>2, RInvariance, PTL DEF Spec, Safety, NothingVanishes
=============================================================================

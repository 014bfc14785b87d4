------------------------ MODULE ServiceConsumerProofs ------------------------
(***************************************************************************)
(* Proofs about ServiceConsumer, for all jobs, delays and threads.  The    *)
(* invariant follows a job: what the message that carries it says of its   *)
(* past is true, in the queue and in the thread that has taken it.         *)
(***************************************************************************)
EXTENDS ServiceConsumer, TLAPS

USE ConsumerAssumption DEF ConsumerAssumption, history, counters

\* What the failedTimes of a message says of the past of its job.
Traced(m) ==
  /\ m.success \subseteq TasksOf[m.job]
  /\ m.failedTimes <= Len(Delays[m.job]) + 1
  /\ \A i \in 1..(m.failedTimes - 1) : Passed(m.job, i)
  /\ m.at = "ready" /\ m.failedTimes # 0 =>
       m.failedTimes <= Len(Delays[m.job]) /\ Passed(m.job, m.failedTimes)
  /\ m.at = "scheduled" /\ m.failedTimes # 0 =>
       /\ m.failedTimes <= Len(Delays[m.job])
       /\ Delays[m.job][m.failedTimes] \in {"wait", "overflow"}
  /\ m.at = "failed" =>
       /\ m.success # TasksOf[m.job]
       /\ GetDelaySeconds(m.job, m.failedTimes) = "void"

\* A message carries the successes of its job ...
InQueue(m) == Traced(m) /\ m.success = succeeded[m.job]

\* ... and so does the thread that works on it.
InThread(w) ==
  thread[w].msg # None =>
    LET m == thread[w].msg
    IN /\ Traced(m)
       /\ thread[w].at = "run" => thread[w].done = succeeded[m.job]
       /\ thread[w].at # "run" => m.success = succeeded[m.job]
       /\ thread[w].at \in {"haskey", "get"} => thread[w].done = succeeded[m.job]
       /\ thread[w].at # "send" => m.at = "ready"

Carried == (\A m \in queue : InQueue(m)) /\ (\A w \in Threads : InThread(w))

\* TypeOK without what Carried says of the messages.
States ==
  /\ queue \subseteq Messages
  /\ thread \in [Threads -> [at : {"idle", "haskey", "get", "run", "send"},
                             msg : Messages \cup {None}, done : SUBSET Nat, next : Nat]]
  /\ \A w \in Threads :
       /\ thread[w].at = "idle" <=> thread[w].msg = None
       /\ thread[w].msg # None => thread[w].done \subseteq TasksOf[thread[w].msg.job]
  /\ control \in Controls
  /\ succeeded \in [Jobs -> SUBSET Nat] /\ \A j \in Jobs : succeeded[j] \subseteq TasksOf[j]
  /\ waited \in [Jobs -> SUBSET Nat]
  /\ lost \subseteq Jobs

IInv == States /\ JobAccounted /\ Carried

-----------------------------------------------------------------------------
(* What messages say.                                                      *)

\* It stays true while delays run out.
LEMMA TraceKept ==
  ASSUME NEW m \in Messages, Traced(m), waited[m.job] \subseteq waited'[m.job]
  PROVE  Traced(m)'
BY DEF Traced, Passed

\* A delay that cannot be read stays the next one.
LEMMA UnreadableStays ==
  ASSUME NEW j, waited[j] \subseteq waited'[j]
  PROVE  Unreadable(j) => Unreadable(j)'
BY DEF Unreadable, Passed

\* What InThread asks of a thread after a step.
LEMMA InThreadThen ==
  ASSUME NEW w \in Threads, NEW t, thread'[w] = t, UNCHANGED succeeded,
         Traced(t.msg)',
         t.at = "run" => t.done = succeeded[t.msg.job],
         t.at # "run" => t.msg.success = succeeded[t.msg.job],
         t.at \in {"haskey", "get"} => t.done = succeeded[t.msg.job],
         t.at # "send" => t.msg.at = "ready"
  PROVE  InThread(w)'
<1>1. succeeded'[t.msg.job] = succeeded[t.msg.job] OBVIOUS
<1> QED BY <1>1 DEF InThread

\* When a job fails, the delays of all its earlier failures are over.
LEMMA AllPassed ==
  ASSUME NEW m \in Messages, Traced(m), m.at = "ready", NEW i \in 1..m.failedTimes
  PROVE  Passed(m.job, i)
<1>1. CASE i = m.failedTimes BY <1>1 DEF Traced
<1>2. CASE i # m.failedTimes
  <2>1. i \in 1..(m.failedTimes - 1) BY <1>2 DEF Messages
  <2> QED BY <2>1 DEF Traced
<1> QED BY <1>1, <1>2

\* The message of the next attempt tells of the failure, too, if there is one.
LEMMA NextAttempt ==
  ASSUME NEW m \in Messages, Traced(m), m.at = "ready",
         NEW done \in SUBSET TasksOf[m.job], HasFailedTask(m.job, done),
         GetDelaySeconds(m.job, m.failedTimes + 1) # "malformed"
  PROVE  LET n == Encode(m, done)
             p == [n EXCEPT !.at = Destination(n)]
         IN p \in Messages /\ Traced(p) /\ p.job = m.job /\ p.success = done
<1> DEFINE n == Encode(m, done)
           p == [n EXCEPT !.at = Destination(n)]
           k == m.failedTimes + 1
<1>1. TasksOf[m.job] \subseteq Nat /\ Delays[m.job] \in Seq(DelayClasses) /\ k \in Nat \ {0}
  BY DEF Messages
<1>2. n = [m EXCEPT !.success = done, !.failedTimes = k]
  BY DEF Encode
<1>3. n.job = m.job /\ n.failedTimes = k
  BY <1>2 DEF Messages
<1>4. p.job = m.job /\ p.success = done /\ p.failedTimes = k /\ p.at = Destination(n)
  BY <1>2 DEF Messages
<1>5. Destination(n) = CASE GetDelaySeconds(m.job, k) = "wait" -> "scheduled"
                         [] GetDelaySeconds(m.job, k) = "overflow" -> "ready"
                         [] OTHER -> "failed"
  BY <1>3 DEF Destination
<1>6. GetDelaySeconds(m.job, k) \in DelayClasses
  BY <1>1 DEF GetDelaySeconds, DelayClasses
<1>7. GetDelaySeconds(m.job, k) \in {"wait", "overflow"} =>
        k <= Len(Delays[m.job]) /\ GetDelaySeconds(m.job, k) = Delays[m.job][k]
  BY <1>1 DEF GetDelaySeconds
<1>8. k <= Len(Delays[m.job]) + 1
  BY DEF Traced, Messages
<1>9. \A i \in 1..(k - 1) : Passed(m.job, i)
  BY AllPassed DEF Messages
<1>10. done # TasksOf[m.job] BY DEF HasFailedTask
<1>11. p \in Messages
  <2>1. done \in SUBSET Nat /\ Destination(n) \in Places BY <1>1, <1>5, <1>6 DEF DelayClasses, Places
  <2> QED BY <2>1, <1>1, <1>2 DEF Messages
<1>12. Traced(p)
  <2>1. p.at = "ready" => k <= Len(Delays[m.job]) /\ Passed(m.job, k)
    BY <1>4, <1>5, <1>6, <1>7 DEF Passed
  <2>2. p.at = "scheduled" => k <= Len(Delays[m.job]) /\ Delays[m.job][k] \in {"wait", "overflow"}
    BY <1>4, <1>5, <1>6, <1>7
  <2>3. p.at = "failed" => GetDelaySeconds(m.job, k) = "void"
    BY <1>4, <1>5, <1>6 DEF DelayClasses
  <2> HIDE DEF p
  <2> QED BY <2>1, <2>2, <2>3, <1>4, <1>8, <1>9, <1>10 DEF Traced
<1> QED BY <1>4, <1>11, <1>12

\* A job is dropped when there is no reading the delay after this failure.
LEMMA DroppedUnread ==
  ASSUME NEW m \in Messages, Traced(m), m.at = "ready",
         GetDelaySeconds(m.job, m.failedTimes + 1) = "malformed"
  PROVE  Unreadable(m.job)
<1> DEFINE k == m.failedTimes + 1
<1>1. k \in DOMAIN Delays[m.job] /\ Delays[m.job][k] = "malformed"
  BY DEF GetDelaySeconds
<1>2. \A i \in 1..(k - 1) : Passed(m.job, i) BY AllPassed DEF Messages
<1> QED BY <1>1, <1>2 DEF Unreadable

\* A thread that has the job is alone with it.
LEMMA Alone ==
  ASSUME IInv, NEW w \in Threads, thread[w].msg # None
  PROVE  /\ thread[w].msg \in Messages /\ thread[w].msg.job \in Jobs
         /\ Copies(thread[w].msg.job) = {}
         /\ Holders(thread[w].msg.job) = {w}
         /\ \A j \in Jobs : j # thread[w].msg.job => w \notin Holders(j)
<1>1. thread[w].msg \in Messages BY DEF IInv, States
<1>2. thread[w].msg.job \in Jobs BY <1>1 DEF Messages
<1>3. w \in Holders(thread[w].msg.job) BY DEF Holders
<1> QED BY <1>1, <1>2, <1>3 DEF IInv, JobAccounted, Holders

\* A thread that is idle has no job.
LEMMA IdleHoldsNone ==
  ASSUME NEW w \in Threads, thread[w] = Idle, NEW j PROVE w \notin Holders(j)
BY DEF Idle, Holders

-----------------------------------------------------------------------------
(* The three ways a thread changes.                                        *)

\* Its new state t is right by itself, and the rest stays as it is: it has
\* the job it had ...
LEMMA GoesOn ==
  ASSUME IInv, NEW w \in Threads, thread[w].msg # None,
         NEW t \in [at : {"haskey", "get", "run", "send"}, msg : Messages,
                    done : SUBSET Nat, next : Nat],
         thread' = [thread EXCEPT ![w] = t], t.msg.job = thread[w].msg.job,
         t.done \subseteq TasksOf[t.msg.job], InThread(w)',
         succeeded' \in [Jobs -> SUBSET Nat],
         succeeded'[t.msg.job] \subseteq TasksOf[t.msg.job],
         \A j \in Jobs : j # t.msg.job => succeeded'[j] = succeeded[j],
         UNCHANGED <<queue, control, waited, lost>>
  PROVE  IInv'
<1> DEFINE j0 == t.msg.job
<1>1. /\ j0 \in Jobs /\ Copies(j0) = {} /\ Holders(j0) = {w}
      /\ \A j \in Jobs : j # j0 => w \notin Holders(j)
  BY Alone
<1>2. t.msg # None /\ t.at # "idle" OBVIOUS
<1>3. thread'[w] = t /\ \A v \in Threads : v # w => thread'[v] = thread[v]
  BY DEF IInv, States
<1>4. \A j : Holders(j)' = Holders(j)
  BY <1>2, <1>3 DEF Holders
<1>5. \A j : Copies(j)' = Copies(j)
  BY DEF Copies
<1>6. States'
  <2>1. thread' \in [Threads -> [at : {"idle", "haskey", "get", "run", "send"},
                                 msg : Messages \cup {None}, done : SUBSET Nat, next : Nat]]
    BY DEF IInv, States
  <2>2. \A v \in Threads :
           /\ thread'[v].at = "idle" <=> thread'[v].msg = None
           /\ thread'[v].msg # None => thread'[v].done \subseteq TasksOf[thread'[v].msg.job]
    <3> TAKE v \in Threads
    <3>1. CASE v = w BY <3>1, <1>2, <1>3
    <3>2. CASE v # w BY <3>2, <1>3 DEF IInv, States
    <3> QED BY <3>1, <3>2
  <2>3. \A j \in Jobs : succeeded'[j] \subseteq TasksOf[j] BY DEF IInv, States
  <2> QED BY <2>1, <2>2, <2>3 DEF IInv, States
<1>7. JobAccounted'
  <2>1. \A j \in Jobs : Unreadable(j)' = Unreadable(j) BY DEF Unreadable, Passed
  <2> QED BY <1>1, <1>4, <1>5, <2>1 DEF IInv, JobAccounted
<1>8. Carried'
  <2>1. ASSUME NEW m \in queue PROVE InQueue(m)'
    <3>1. m.job \in Jobs /\ m \in Messages BY DEF IInv, States, Messages
    <3>2. m.job # j0 BY <1>1 DEF Copies
    <3>3. Traced(m)' BY <3>1, TraceKept DEF IInv, Carried, InQueue
    <3> QED BY <3>1, <3>2, <3>3 DEF IInv, Carried, InQueue
  <2>2. ASSUME NEW v \in Threads, v # w PROVE InThread(v)'
    <3> SUFFICES ASSUME thread[v].msg # None PROVE InThread(v)'
      BY <1>3, <2>2 DEF InThread
    <3>1. thread'[v] = thread[v] BY <1>3, <2>2
    <3>2. thread[v].msg \in Messages /\ thread[v].msg.job \in Jobs BY Alone
    <3>3. thread[v].msg.job # j0 BY <1>1, <2>2 DEF Holders
    <3>4. Traced(thread[v].msg) BY DEF IInv, Carried, InThread
    <3>5. PICK m \in Messages : m = thread[v].msg BY <3>2
    <3>6. Traced(m)' BY <3>4, <3>5, TraceKept
    <3>7. thread'[v].msg = m BY <3>1, <3>5
    <3>8. Traced(thread[v].msg)' BY <3>6, <3>7 DEF Traced, Passed
    <3> QED BY <3>1, <3>2, <3>3, <3>8 DEF IInv, Carried, InThread
  <2> QED BY <2>1, <2>2 DEF Carried
<1> QED BY <1>6, <1>7, <1>8 DEF IInv

\* ... or it has sent it, or given it up.
LEMMA Leaves ==
  ASSUME IInv, NEW w \in Threads, thread[w].msg # None,
         thread' = [thread EXCEPT ![w] = Idle],
         \/ \E p \in Messages : /\ p.job = thread[w].msg.job /\ InQueue(p)
                                /\ queue' = queue \cup {p} /\ lost' = lost
         \/ /\ queue' = queue /\ lost' \in {lost, lost \cup {thread[w].msg.job}}
            /\ \/ thread[w].msg.job \in lost'
               \/ succeeded[thread[w].msg.job] = TasksOf[thread[w].msg.job]
               \/ Unreadable(thread[w].msg.job),
         UNCHANGED <<control, succeeded, waited>>
  PROVE  IInv'
<1>j. PICK j0 : j0 = thread[w].msg.job OBVIOUS
<1>1. /\ j0 \in Jobs /\ Copies(j0) = {} /\ Holders(j0) = {w}
      /\ \A j \in Jobs : j # j0 => w \notin Holders(j)
  BY Alone, <1>j
<1>2. thread'[w] = Idle /\ \A v \in Threads : v # w => thread'[v] = thread[v]
  BY DEF IInv, States
<1>3. thread'[w].msg = None /\ thread'[w].at = "idle" BY <1>2 DEF Idle
<1>4. Holders(j0)' = {} /\ \A j \in Jobs : j # j0 => Holders(j)' = Holders(j)
  BY <1>1, <1>2, <1>3 DEF Holders
<1>5. \A j \in Jobs : j # j0 => Copies(j)' = Copies(j)
  BY <1>j DEF Copies
<1>6. \/ \E p \in Messages : Copies(j0)' = {p}
      \/ Copies(j0)' = {} /\ (j0 \in lost' \/ succeeded[j0] = TasksOf[j0] \/ Unreadable(j0))
  BY <1>1, <1>j DEF Copies
<1>7. lost \subseteq lost' /\ lost' \subseteq Jobs BY <1>1, <1>j DEF IInv, States
<1>8. States'
  <2>1. Idle \in [at : {"idle", "haskey", "get", "run", "send"},
                  msg : Messages \cup {None}, done : SUBSET Nat, next : Nat]
    BY DEF Idle
  <2>2. thread' \in [Threads -> [at : {"idle", "haskey", "get", "run", "send"},
                                 msg : Messages \cup {None}, done : SUBSET Nat, next : Nat]]
    BY <2>1 DEF IInv, States
  <2>3. \A v \in Threads :
           /\ thread'[v].at = "idle" <=> thread'[v].msg = None
           /\ thread'[v].msg # None => thread'[v].done \subseteq TasksOf[thread'[v].msg.job]
    <3> TAKE v \in Threads
    <3>1. CASE v = w BY <3>1, <1>3
    <3>2. CASE v # w BY <3>2, <1>2 DEF IInv, States
    <3> QED BY <3>1, <3>2
  <2>4. queue' \subseteq Messages BY DEF IInv, States
  <2> QED BY <2>2, <2>3, <2>4, <1>7 DEF IInv, States
<1>9. JobAccounted'
  <2> SUFFICES ASSUME NEW j \in Jobs
               PROVE  /\ \A m \in Copies(j)', n \in Copies(j)' : m = n
                      /\ \A u \in Holders(j)', v \in Holders(j)' : u = v
                      /\ Copies(j)' = {} \/ Holders(j)' = {}
                      /\ Copies(j)' = {} /\ Holders(j)' = {} =>
                           j \in lost' \/ succeeded[j] = TasksOf[j] \/ Unreadable(j)
    BY DEF JobAccounted, Unreadable, Passed
  <2>1. CASE j = j0 BY <2>1, <1>4, <1>6
  <2>2. CASE j # j0
    <3>1. Copies(j)' = Copies(j) /\ Holders(j)' = Holders(j) BY <2>2, <1>4, <1>5
    <3> QED BY <3>1, <1>7 DEF IInv, JobAccounted
  <2> QED BY <2>1, <2>2
<1>10. Carried'
  <2>1. ASSUME NEW m \in queue' PROVE InQueue(m)'
    <3>1. m \in Messages /\ InQueue(m) BY DEF IInv, States, Carried
    <3>2. m.job \in Jobs BY <3>1 DEF Messages
    <3>3. Traced(m)' BY <3>1, TraceKept DEF InQueue
    <3> QED BY <3>1, <3>3 DEF InQueue
  <2>2. ASSUME NEW v \in Threads PROVE InThread(v)'
    <3>1. CASE v = w BY <3>1, <1>3 DEF InThread
    <3>2. CASE v # w
      <4>1. thread'[v] = thread[v] BY <3>2, <1>2
      <4>2. InThread(v) BY DEF IInv, Carried
      <4> QED BY <4>1, <4>2 DEF InThread, Traced, Passed
    <3> QED BY <3>1, <3>2
  <2> QED BY <2>1, <2>2 DEF Carried
<1> QED BY <1>8, <1>9, <1>10 DEF IInv

-----------------------------------------------------------------------------
(* The actions.                                                            *)

LEMMA ReceiveInv == ASSUME IInv, NEW w \in Threads, Receive(w) PROVE IInv'
<1>1. PICK m \in queue :
        /\ m.at = "ready" /\ queue' = queue \ {m}
        /\ thread' = [thread EXCEPT ![w] =
             IF w \in ControlThreads THEN [Work(m) EXCEPT !.at = "haskey"] ELSE Work(m)]
  BY DEF Receive
<1>2. /\ m \in Messages /\ m.job \in Jobs /\ m # None
      /\ Traced(m) /\ m.success = succeeded[m.job] /\ m.success \subseteq TasksOf[m.job]
  BY DEF IInv, States, Carried, InQueue, Messages
<1>3. thread[w].at = "idle" /\ thread[w].msg = None
      /\ UNCHANGED <<control, succeeded, waited, lost>>
  BY DEF Receive, IInv, States
<1>4. PICK t : t = IF w \in ControlThreads THEN [Work(m) EXCEPT !.at = "haskey"] ELSE Work(m)
  OBVIOUS
<1>5. /\ t \in [at : {"haskey", "run"}, msg : Messages, done : SUBSET Nat, next : Nat]
      /\ t.msg = m /\ t.done = m.success
  BY <1>2, <1>4 DEF Work, Messages
<1>6. thread'[w] = t /\ \A v \in Threads : v # w => thread'[v] = thread[v]
  BY <1>1, <1>4 DEF IInv, States
<1>7. Copies(m.job) = {m} /\ Holders(m.job) = {}
  <2>1. m \in Copies(m.job) BY DEF Copies
  <2> QED BY <2>1, <1>2 DEF IInv, JobAccounted
<1>8. Copies(m.job)' = {} /\ \A j \in Jobs : j # m.job => Copies(j)' = Copies(j)
  BY <1>1, <1>7 DEF Copies
<1>9. Holders(m.job)' = {w} /\ \A j \in Jobs : j # m.job => Holders(j)' = Holders(j)
  BY <1>2, <1>3, <1>5, <1>6, <1>7 DEF Holders
<1>10. States'
  <2>1. thread' \in [Threads -> [at : {"idle", "haskey", "get", "run", "send"},
                                 msg : Messages \cup {None}, done : SUBSET Nat, next : Nat]]
    BY <1>1, <1>4, <1>5 DEF IInv, States
  <2>2. \A v \in Threads :
           /\ thread'[v].at = "idle" <=> thread'[v].msg = None
           /\ thread'[v].msg # None => thread'[v].done \subseteq TasksOf[thread'[v].msg.job]
    <3> TAKE v \in Threads
    <3>1. CASE v = w BY <3>1, <1>2, <1>5, <1>6
    <3>2. CASE v # w BY <3>2, <1>6 DEF IInv, States
    <3> QED BY <3>1, <3>2
  <2> QED BY <2>1, <2>2, <1>1, <1>3 DEF IInv, States
<1>11. JobAccounted'
  <2> SUFFICES ASSUME NEW j \in Jobs
               PROVE  /\ \A p \in Copies(j)', n \in Copies(j)' : p = n
                      /\ \A u \in Holders(j)', v \in Holders(j)' : u = v
                      /\ Copies(j)' = {} \/ Holders(j)' = {}
                      /\ Copies(j)' = {} /\ Holders(j)' = {} =>
                           j \in lost \/ succeeded[j] = TasksOf[j] \/ Unreadable(j)
    BY <1>3 DEF JobAccounted, Unreadable, Passed
  <2>1. CASE j = m.job BY <2>1, <1>8, <1>9
  <2>2. CASE j # m.job BY <2>2, <1>8, <1>9 DEF IInv, JobAccounted
  <2> QED BY <2>1, <2>2
<1>12. Carried'
  <2>1. ASSUME NEW n \in queue' PROVE InQueue(n)'
    BY <1>1, <1>3 DEF IInv, Carried, InQueue, Traced, Passed
  <2>2. ASSUME NEW v \in Threads PROVE InThread(v)'
    <3>1. CASE v = w
      <4>1. Traced(m)' BY <1>2, <1>3 DEF Traced, Passed
      <4>2. m.success = succeeded[m.job] /\ m.at = "ready" BY <1>1, <1>2
      <4> QED BY <3>1, <1>3, <1>5, <1>6, <4>1, <4>2, InThreadThen
    <3>2. CASE v # w
      <4>1. thread'[v] = thread[v] BY <3>2, <1>6
      <4>2. InThread(v) BY DEF IInv, Carried
      <4> QED BY <4>1, <4>2, <1>3 DEF InThread, Traced, Passed
    <3> QED BY <3>1, <3>2
  <2> QED BY <2>1, <2>2 DEF Carried
<1> QED BY <1>10, <1>11, <1>12 DEF IInv

\* The thread w, when it has a job.
LEMMA ThreadFacts ==
  ASSUME IInv, NEW w \in Threads, thread[w].at # "idle"
  PROVE  /\ thread[w].msg # None /\ thread[w].msg \in Messages /\ thread[w].msg.job \in Jobs
         /\ thread[w] \in [at : {"haskey", "get", "run", "send"}, msg : Messages,
                           done : SUBSET Nat, next : Nat]
         /\ thread[w].done \subseteq TasksOf[thread[w].msg.job]
         /\ Traced(thread[w].msg)
         /\ thread[w].at = "run" => thread[w].done = succeeded[thread[w].msg.job]
         /\ thread[w].at # "run" => thread[w].msg.success = succeeded[thread[w].msg.job]
         /\ thread[w].at \in {"haskey", "get"} => thread[w].done = succeeded[thread[w].msg.job]
         /\ thread[w].at # "send" => thread[w].msg.at = "ready"
BY DEF IInv, States, Carried, InThread, Messages

LEMMA HasKeyInv == ASSUME IInv, NEW w \in Threads, HasKey(w) PROVE IInv'
<1>1. thread[w].at = "haskey" /\ UNCHANGED <<queue, control, succeeded, waited, lost>>
  BY DEF HasKey
<1>2. PICK t : t = [thread[w] EXCEPT !.at = IF control = "absent" THEN "run" ELSE "get"]
  OBVIOUS
<1>3. thread' = [thread EXCEPT ![w] = t] /\ thread'[w] = t
  BY <1>2 DEF HasKey, IInv, States
<1>4. /\ t \in [at : {"haskey", "get", "run", "send"}, msg : Messages,
                done : SUBSET Nat, next : Nat]
      /\ t.msg = thread[w].msg /\ t.done = thread[w].done /\ t.at \in {"run", "get"}
  BY <1>1, <1>2, ThreadFacts
<1>5. InThread(w)'
  <2>1. Traced(t.msg) BY <1>1, <1>4, ThreadFacts
  <2>2. Traced(t.msg)' BY <1>1, <2>1 DEF Traced, Passed
  <2>3. /\ thread[w].done = succeeded[t.msg.job] /\ t.msg.at = "ready"
        /\ t.msg.success = succeeded[t.msg.job]
    BY <1>1, <1>4, ThreadFacts
  <2> QED BY <1>1, <1>3, <1>4, <2>2, <2>3, InThreadThen
<1>6. /\ succeeded' \in [Jobs -> SUBSET Nat] /\ t.done \subseteq TasksOf[t.msg.job]
      /\ succeeded'[t.msg.job] \subseteq TasksOf[t.msg.job]
  BY <1>1, <1>4, ThreadFacts DEF IInv, States
<1>7. thread[w].msg # None BY <1>1, ThreadFacts
<1> QED BY <1>1, <1>3, <1>4, <1>5, <1>6, <1>7, GoesOn

\* A job that is deferred keeps what it has.
LEMMA DeferredTraced ==
  ASSUME NEW m \in Messages, Traced(m), m.at = "ready"
  PROVE  LET p == [m EXCEPT !.at = "scheduled"]
         IN p \in Messages /\ Traced(p) /\ p.job = m.job /\ p.success = m.success
<1> DEFINE p == [m EXCEPT !.at = "scheduled"]
<1>1. /\ p \in Messages /\ p.job = m.job /\ p.success = m.success
      /\ p.failedTimes = m.failedTimes /\ p.at = "scheduled"
  BY DEF Messages, Places
<1> HIDE DEF p
<1>2. Traced(p) BY <1>1 DEF Traced, Passed
<1> QED BY <1>1, <1>2 DEF p

LEMMA GetDelayControlInv == ASSUME IInv, NEW w \in Threads, GetDelayControl(w) PROVE IInv'
<1>1. thread[w].at = "get" /\ UNCHANGED <<queue, control, succeeded, waited>>
  BY DEF GetDelayControl
<1>2. thread[w].msg # None BY <1>1, ThreadFacts
<1>3. CASE NoInteger
  <2>1. thread' = [thread EXCEPT ![w] = Idle]
    BY <1>3 DEF GetDelayControl, Deferring, NoInteger
  <2>2. lost' = lost \cup {thread[w].msg.job}
    BY <1>3, Zenon DEF GetDelayControl
  <2> QED BY <1>1, <1>2, <2>1, <2>2, Leaves
<1>4. CASE ~NoInteger
  <2>1. PICK t : t = IF Deferring THEN [thread[w] EXCEPT !.at = "send", !.msg.at = "scheduled"]
                                  ELSE [thread[w] EXCEPT !.at = "run"]
    OBVIOUS
  <2>2. thread' = [thread EXCEPT ![w] = t] /\ thread'[w] = t /\ lost' = lost
    BY <1>4, <2>1 DEF GetDelayControl, IInv, States
  <2>3. /\ t \in [at : {"haskey", "get", "run", "send"}, msg : Messages,
                  done : SUBSET Nat, next : Nat]
        /\ t.done = thread[w].done /\ t.msg.job = thread[w].msg.job
        /\ Traced(t.msg) /\ t.msg.success = thread[w].msg.success
        /\ t.at = "send" \/ (t.at = "run" /\ t.msg.at = "ready")
    <3>1. CASE Deferring
      <4>1. PICK p : p = [thread[w].msg EXCEPT !.at = "scheduled"] OBVIOUS
      <4>2. /\ p \in Messages /\ Traced(p) /\ p.job = thread[w].msg.job
            /\ p.success = thread[w].msg.success
        BY <1>1, <4>1, ThreadFacts, DeferredTraced
      <4>3. t = [thread[w] EXCEPT !.at = "send", !.msg = p]
        BY <2>1, <3>1, <4>1, <1>1, ThreadFacts
      <4>4. /\ t.at = "send" /\ t.msg = p /\ t.done = thread[w].done
            /\ t \in [at : {"haskey", "get", "run", "send"}, msg : Messages,
                      done : SUBSET Nat, next : Nat]
        <5>1. thread[w] \in [at : {"haskey", "get", "run", "send"}, msg : Messages,
                             done : SUBSET Nat, next : Nat]
          BY <1>1, ThreadFacts
        <5> QED BY <4>2, <4>3, <5>1
      <4> QED BY <4>2, <4>4
    <3>2. CASE ~Deferring
      <4>1. t = [thread[w] EXCEPT !.at = "run"] BY <2>1, <3>2
      <4> QED BY <1>1, <4>1, ThreadFacts
    <3> QED BY <3>1, <3>2
  <2>4. Traced(t.msg)'
    BY <2>3, <1>1 DEF Traced, Passed
  <2>5. InThread(w)'
    <3>1. /\ thread[w].done = succeeded[t.msg.job]
          /\ t.msg.success = succeeded[t.msg.job]
      BY <1>1, <2>3, ThreadFacts
    <3> QED BY <1>1, <2>2, <2>3, <2>4, <3>1, InThreadThen
  <2>6. /\ succeeded' \in [Jobs -> SUBSET Nat] /\ t.done \subseteq TasksOf[t.msg.job]
        /\ succeeded'[t.msg.job] \subseteq TasksOf[t.msg.job]
    BY <1>1, <2>3, ThreadFacts DEF IInv, States
  <2> QED BY <1>1, <1>2, <2>2, <2>3, <2>5, <2>6, GoesOn
<1> QED BY <1>3, <1>4

LEMMA InvokeInv == ASSUME IInv, NEW w \in Threads, Invoke(w) PROVE IInv'
<1>1. thread[w].at = "run" /\ UNCHANGED <<queue, control, waited, lost>>
  BY DEF Invoke
<1>2. PICK u \in Pending(w), ok \in BOOLEAN :
        /\ thread' = [thread EXCEPT ![w].next = u + 1,
                                    ![w].done = IF ok THEN @ \cup {u} ELSE @]
        /\ succeeded' = IF ok THEN [succeeded EXCEPT ![thread[w].msg.job] = @ \cup {u}]
                              ELSE succeeded
  <2>1. PICK u \in Pending(w), answer \in {"ok", "bad"} :
          LET ok == Successful(thread[w].msg.job, u, answer)
          IN /\ thread' = [thread EXCEPT ![w].next = u + 1,
                                         ![w].done = IF ok THEN @ \cup {u} ELSE @]
             /\ succeeded' = IF ok THEN [succeeded EXCEPT ![thread[w].msg.job] = @ \cup {u}]
                                   ELSE succeeded
    BY DEF Invoke
  <2>2. Successful(thread[w].msg.job, u, answer) \in BOOLEAN
    BY Zenon DEF Successful
  <2> QED BY <2>1, <2>2
<1>3. u \in Nat /\ u \in TasksOf[thread[w].msg.job]
  BY <1>1, ThreadFacts DEF Pending
<1>4. PICK t : t = [thread[w] EXCEPT !.next = u + 1,
                                     !.done = IF ok THEN @ \cup {u} ELSE @]
  OBVIOUS
<1>5. thread' = [thread EXCEPT ![w] = t] /\ thread'[w] = t
  BY <1>2, <1>4 DEF IInv, States
<1>6. /\ t \in [at : {"haskey", "get", "run", "send"}, msg : Messages,
                done : SUBSET Nat, next : Nat]
      /\ t.msg = thread[w].msg /\ t.at = "run"
      /\ t.done = IF ok THEN thread[w].done \cup {u} ELSE thread[w].done
  <2>1. PICK d : d = IF ok THEN thread[w].done \cup {u} ELSE thread[w].done
    OBVIOUS
  <2>2. d \in SUBSET Nat BY <1>1, <1>3, <2>1, ThreadFacts
  <2>3. t = [thread[w] EXCEPT !.next = u + 1, !.done = d]
    <3>1. CASE ok
      <4>1. t = [thread[w] EXCEPT !.next = u + 1, !.done = @ \cup {u}] BY <1>4, <3>1
      <4> QED BY <2>1, <3>1, <4>1
    <3>2. CASE ~ok
      <4>1. d = thread[w].done BY <2>1, <3>2
      <4>2. t = [thread[w] EXCEPT !.next = u + 1, !.done = thread[w].done] BY <1>4, <3>2
      <4> QED BY <4>1, <4>2
    <3> QED BY <3>1, <3>2
  <2>4. PICK s : s = [thread[w] EXCEPT !.next = u + 1] OBVIOUS
  <2>5. /\ s \in [at : {"haskey", "get", "run", "send"}, msg : Messages,
                  done : SUBSET Nat, next : Nat]
        /\ s.msg = thread[w].msg /\ s.at = "run"
    BY <1>1, <1>3, <2>4, ThreadFacts
  <2>6. t = [s EXCEPT !.done = d] BY <2>3, <2>4
  <2> QED BY <2>1, <2>2, <2>5, <2>6
<1>7. /\ succeeded' \in [Jobs -> SUBSET Nat]
      /\ succeeded'[t.msg.job] = t.done
      /\ \A j \in Jobs : j # t.msg.job => succeeded'[j] = succeeded[j]
  BY <1>1, <1>2, <1>3, <1>6, ThreadFacts DEF IInv, States
<1>8. t.done \subseteq TasksOf[t.msg.job]
  BY <1>1, <1>3, <1>6, ThreadFacts
<1>9. InThread(w)'
  <2>1. PICK m : m = thread[w].msg OBVIOUS
  <2>2. Traced(m) /\ m.at = "ready" /\ waited' = waited BY <1>1, <2>1, ThreadFacts
  <2>3. Traced(m)' BY <2>2 DEF Traced, Passed
  <2>4. thread'[w].msg = m /\ thread'[w].at = "run" /\ thread'[w].done = succeeded'[m.job]
    BY <1>5, <1>6, <1>7, <2>1
  <2> QED BY <2>2, <2>3, <2>4 DEF InThread, Traced, Passed
<1>10. thread[w].msg # None BY <1>1, ThreadFacts
<1> QED BY <1>1, <1>5, <1>6, <1>7, <1>8, <1>9, <1>10, GoesOn

LEMMA EndOfTasksInv == ASSUME IInv, NEW w \in Threads, EndOfTasks(w) PROVE IInv'
<1> DEFINE n == Encode(thread[w].msg, thread[w].done)
<1>1. thread[w].at = "run" /\ UNCHANGED <<queue, control, succeeded, waited, lost>>
  BY DEF EndOfTasks
<1>2. thread[w].msg # None BY <1>1, ThreadFacts
<1>3. n.job = thread[w].msg.job
  BY <1>1, ThreadFacts DEF Encode, Messages
<1>c. n.failedTimes = thread[w].msg.failedTimes + 1
  BY <1>1, ThreadFacts DEF Encode, Messages
<1>4. CASE HasFailedTask(n.job, thread[w].done) /\ GetDelaySeconds(n.job, n.failedTimes) # "malformed"
  <2>1. PICK p : p = [n EXCEPT !.at = Destination(n)] OBVIOUS
  <2>2. /\ p \in Messages /\ Traced(p) /\ p.job = thread[w].msg.job
        /\ p.success = thread[w].done
    BY <1>1, <1>3, <1>c, <1>4, <2>1, ThreadFacts, NextAttempt
  <2>3. PICK t : t = [thread[w] EXCEPT !.at = "send", !.msg = p] OBVIOUS
  <2>4. thread' = [thread EXCEPT ![w] = t] /\ thread'[w] = t
    BY <1>4, <2>1, <2>3 DEF EndOfTasks, IInv, States
  <2>5. /\ t \in [at : {"haskey", "get", "run", "send"}, msg : Messages,
                  done : SUBSET Nat, next : Nat]
        /\ t.msg = p /\ t.done = thread[w].done /\ t.at = "send"
    BY <1>1, <2>2, <2>3, ThreadFacts
  <2>6. InThread(w)'
    <3>1. Traced(p)' BY <1>1, <2>2 DEF Traced, Passed
    <3>2. p.success = succeeded'[p.job] BY <1>1, <2>2, ThreadFacts
    <3> QED BY <2>4, <2>5, <3>1, <3>2 DEF InThread, Traced, Passed
  <2>7. /\ succeeded' \in [Jobs -> SUBSET Nat] /\ t.done \subseteq TasksOf[t.msg.job]
        /\ succeeded'[t.msg.job] \subseteq TasksOf[t.msg.job]
    BY <1>1, <2>2, <2>5, ThreadFacts DEF IInv, States
  <2> QED BY <1>1, <1>2, <2>2, <2>4, <2>5, <2>6, <2>7, GoesOn
<1>5. CASE ~HasFailedTask(n.job, thread[w].done)
  <2>1. thread' = [thread EXCEPT ![w] = Idle]
    BY <1>5 DEF EndOfTasks
  <2>2. succeeded[thread[w].msg.job] = TasksOf[thread[w].msg.job]
    <3>1. \A u \in TasksOf[thread[w].msg.job] : u \in thread[w].done
      BY <1>3, <1>5 DEF HasFailedTask
    <3>2. thread[w].done \subseteq TasksOf[thread[w].msg.job] BY <1>1, ThreadFacts
    <3>3. thread[w].done = succeeded[thread[w].msg.job] BY <1>1, ThreadFacts
    <3>4. thread[w].done = TasksOf[thread[w].msg.job] BY <3>1, <3>2
    <3> QED BY <3>3, <3>4
  <2>3. lost' \in {lost, lost \cup {thread[w].msg.job}} BY <1>1
  <2> QED BY <1>1, <1>2, <2>1, <2>2, <2>3, Leaves
<1>6. CASE GetDelaySeconds(n.job, n.failedTimes) = "malformed"
  <2>1. thread' = [thread EXCEPT ![w] = Idle]
    BY <1>6 DEF EndOfTasks
  <2>2. Unreadable(thread[w].msg.job)
    BY <1>1, <1>3, <1>c, <1>6, ThreadFacts, DroppedUnread
  <2>3. lost' \in {lost, lost \cup {thread[w].msg.job}} BY <1>1
  <2> QED BY <1>1, <1>2, <2>1, <2>2, <2>3, Leaves
<1> QED BY <1>4, <1>5, <1>6

LEMMA ProduceInv ==
  ASSUME IInv, NEW w \in Threads, Produce(w) \/ ProduceFails(w) \/ RedisFails(w)
  PROVE  IInv'
<1>1. /\ thread[w].at \in {"send", "haskey", "get"}
      /\ thread' = [thread EXCEPT ![w] = Idle]
      /\ UNCHANGED <<control, succeeded, waited>>
  BY DEF Produce, ProduceFails, RedisFails
<1>2. \/ thread[w].at = "send" /\ queue' = queue \cup {thread[w].msg} /\ lost' = lost
      \/ queue' = queue /\ lost' = lost \cup {thread[w].msg.job}
  BY DEF Produce, ProduceFails, RedisFails
<1>3. thread[w].msg # None BY <1>1, ThreadFacts
<1>4. CASE thread[w].at = "send" /\ queue' = queue \cup {thread[w].msg} /\ lost' = lost
  <2>1. thread[w].msg \in Messages /\ InQueue(thread[w].msg)
    BY <1>4, ThreadFacts DEF InQueue
  <2> QED BY <1>1, <1>3, <1>4, <2>1, Leaves
<1>5. CASE queue' = queue /\ lost' = lost \cup {thread[w].msg.job}
  <2>1. thread[w].msg.job \in lost' BY <1>5
  <2>2. lost' \in {lost, lost \cup {thread[w].msg.job}} BY <1>5
  <2> QED BY <1>1, <1>3, <1>5, <2>1, <2>2, Leaves
<1> QED BY <1>2, <1>4, <1>5

\* The delay of m has run out.
LEMMA DelayElapsedInv == ASSUME IInv, NEW m \in queue, DelayElapsed(m) PROVE IInv'
<1>1. m.at = "scheduled" /\ UNCHANGED <<thread, control, succeeded, lost>>
  BY DEF DelayElapsed
<1>2. PICK p : p = [m EXCEPT !.at = "ready"] OBVIOUS
<1>3. queue' = (queue \ {m}) \cup {p} /\ waited' = [waited EXCEPT ![m.job] = @ \cup {m.failedTimes}]
  BY <1>2 DEF DelayElapsed
<1>4. m \in Messages /\ m.job \in Jobs /\ m.failedTimes \in Nat /\ InQueue(m)
  BY DEF IInv, States, Carried, Messages
<1>5. /\ p \in Messages /\ p.job = m.job /\ p.success = m.success
      /\ p.failedTimes = m.failedTimes /\ p.at = "ready"
  BY <1>2, <1>4 DEF Messages, Places
<1>6. /\ waited' \in [Jobs -> SUBSET Nat] /\ \A j \in Jobs : waited[j] \subseteq waited'[j]
      /\ m.failedTimes \in waited'[m.job]
  BY <1>3, <1>4 DEF IInv, States
<1>7. \A n \in Messages : Traced(n) => Traced(n)'
  <2> TAKE n \in Messages
  <2> HAVE Traced(n)
  <2>1. n.job \in Jobs BY DEF Messages
  <2> QED BY <2>1, <1>6, TraceKept
<1>8. Traced(p)'
  <2>1. Traced(m)' BY <1>4, <1>7 DEF InQueue
  <2>2. m.failedTimes # 0 => /\ m.failedTimes <= Len(Delays[m.job])
                             /\ Delays[m.job][m.failedTimes] \in {"wait", "overflow"}
    BY <1>1, <1>4 DEF InQueue, Traced
  <2>3. m.failedTimes # 0 => Passed(m.job, m.failedTimes)' BY <1>6, <2>2 DEF Passed
  <2> QED BY <2>1, <2>2, <2>3, <1>5 DEF Traced, Passed
<1>9. States' BY <1>1, <1>3, <1>5, <1>6 DEF IInv, States
<1>10. Copies(m.job) = {m} /\ Copies(m.job)' = {p}
  <2>1. m \in Copies(m.job) BY DEF Copies
  <2>2. Copies(m.job) = {m} BY <2>1, <1>4 DEF IInv, JobAccounted
  <2> QED BY <2>2, <1>3, <1>5 DEF Copies
<1>11. \A j \in Jobs : j # m.job => Copies(j)' = Copies(j)
  BY <1>3, <1>5 DEF Copies
<1>12. \A j : Holders(j)' = Holders(j) BY <1>1 DEF Holders
<1>13. JobAccounted'
  <2> SUFFICES ASSUME NEW j \in Jobs
               PROVE  /\ \A q \in Copies(j)', n \in Copies(j)' : q = n
                      /\ \A u \in Holders(j)', v \in Holders(j)' : u = v
                      /\ Copies(j)' = {} \/ Holders(j)' = {}
                      /\ Copies(j)' = {} /\ Holders(j)' = {} =>
                           j \in lost \/ succeeded[j] = TasksOf[j] \/ Unreadable(j)
    BY <1>1, <1>6, UnreadableStays DEF JobAccounted
  <2>1. CASE j = m.job BY <2>1, <1>10, <1>12 DEF IInv, JobAccounted
  <2>2. CASE j # m.job BY <2>2, <1>11, <1>12 DEF IInv, JobAccounted
  <2> QED BY <2>1, <2>2
<1>14. Carried'
  <2>1. ASSUME NEW n \in queue' PROVE InQueue(n)'
    <3>1. CASE n = p BY <3>1, <1>1, <1>4, <1>5, <1>8 DEF InQueue
    <3>2. CASE n # p
      <4>1. n \in Messages /\ InQueue(n) BY <3>2, <1>3 DEF IInv, States, Carried
      <4> QED BY <4>1, <1>1, <1>7 DEF InQueue
    <3> QED BY <3>1, <3>2
  <2>2. ASSUME NEW v \in Threads PROVE InThread(v)'
    <3> SUFFICES ASSUME thread[v].msg # None PROVE InThread(v)'
      BY <1>1 DEF InThread
    <3>1. thread[v].msg \in Messages BY DEF IInv, States
    <3>2. PICK n \in Messages : n = thread[v].msg BY <3>1
    <3>3. Traced(n) BY <3>2 DEF IInv, Carried, InThread
    <3>4. Traced(n)' BY <3>3, <1>7
    <3>5. thread'[v] = thread[v] BY <1>1
    <3>6. Traced(thread[v].msg)' BY <3>2, <3>4, <3>5 DEF Traced, Passed
    <3> QED BY <3>5, <3>6, <1>1 DEF IInv, Carried, InThread
  <2> QED BY <2>1, <2>2 DEF Carried
<1> QED BY <1>9, <1>13, <1>14 DEF IInv

LEMMA CrashInv == ASSUME IInv, NEW dead \in SUBSET Threads, Crash(dead) PROVE IInv'
<1>1. /\ lost' = lost \cup {thread[w].msg.job : w \in {v \in dead : thread[v].msg # None}}
      /\ thread' = [w \in Threads |-> IF w \in dead THEN Idle ELSE thread[w]]
      /\ UNCHANGED <<queue, control, succeeded, waited>>
  BY DEF Crash
<1>2. /\ \A w \in dead : thread'[w] = Idle
      /\ \A w \in Threads : w \notin dead => thread'[w] = thread[w]
  BY <1>1
<1>3. Idle.msg = None /\ Idle.at = "idle"
      /\ Idle \in [at : {"idle", "haskey", "get", "run", "send"},
                   msg : Messages \cup {None}, done : SUBSET Nat, next : Nat]
  BY DEF Idle
<1>4. \A j \in Jobs : Holders(j)' = Holders(j) \ dead
  BY <1>2, <1>3 DEF Holders
<1>5. \A j : Copies(j)' = Copies(j) BY <1>1 DEF Copies
<1>6. lost \subseteq lost' /\ lost' \subseteq Jobs
  <2>1. \A w \in Threads : thread[w].msg # None => thread[w].msg.job \in Jobs BY Alone
  <2> QED BY <2>1, <1>1 DEF IInv, States
<1>7. \A j \in Jobs : Holders(j) \cap dead # {} => j \in lost'
  BY <1>1 DEF Holders
<1>8. States'
  <2>1. thread' \in [Threads -> [at : {"idle", "haskey", "get", "run", "send"},
                                 msg : Messages \cup {None}, done : SUBSET Nat, next : Nat]]
    BY <1>1, <1>3 DEF IInv, States
  <2>2. \A v \in Threads :
           /\ thread'[v].at = "idle" <=> thread'[v].msg = None
           /\ thread'[v].msg # None => thread'[v].done \subseteq TasksOf[thread'[v].msg.job]
    <3> TAKE v \in Threads
    <3>1. CASE v \in dead BY <3>1, <1>2, <1>3
    <3>2. CASE v \notin dead BY <3>2, <1>2 DEF IInv, States
    <3> QED BY <3>1, <3>2
  <2> QED BY <2>1, <2>2, <1>1, <1>6 DEF IInv, States
<1>9. JobAccounted'
  <2> SUFFICES ASSUME NEW j \in Jobs
               PROVE  /\ \A m \in Copies(j)', n \in Copies(j)' : m = n
                      /\ \A u \in Holders(j)', v \in Holders(j)' : u = v
                      /\ Copies(j)' = {} \/ Holders(j)' = {}
                      /\ Copies(j)' = {} /\ Holders(j)' = {} =>
                           j \in lost' \/ succeeded[j] = TasksOf[j] \/ Unreadable(j)
    BY <1>1 DEF JobAccounted, Unreadable, Passed
  <2> QED BY <1>4, <1>5, <1>6, <1>7 DEF IInv, JobAccounted
<1>10. Carried'
  <2>1. ASSUME NEW m \in queue' PROVE InQueue(m)'
    BY <1>1 DEF IInv, Carried, InQueue, Traced, Passed
  <2>2. ASSUME NEW v \in Threads PROVE InThread(v)'
    <3>1. CASE v \in dead BY <3>1, <1>2, <1>3 DEF InThread
    <3>2. CASE v \notin dead
      <4>1. thread'[v] = thread[v] BY <3>2, <1>2
      <4>2. InThread(v) BY DEF IInv, Carried
      <4> QED BY <4>1, <4>2, <1>1 DEF InThread, Traced, Passed
    <3> QED BY <3>1, <3>2
  <2> QED BY <2>1, <2>2 DEF Carried
<1> QED BY <1>8, <1>9, <1>10 DEF IInv

-----------------------------------------------------------------------------
(* Theorems.                                                               *)

\* The invariant is inductive.
THEOREM Invariance == Spec => []IInv
<1>1. Init => IInv
  <2> SUFFICES ASSUME Init PROVE IInv OBVIOUS
  <2>1. /\ queue = {[job |-> j, success |-> {}, failedTimes |-> 0, at |-> "ready"] : j \in Jobs}
        /\ \A w \in Threads : thread[w] = Idle
        /\ succeeded = [j \in Jobs |-> {}] /\ waited = [j \in Jobs |-> {}] /\ lost = {}
    BY DEF Init
  <2>2. Idle.msg = None /\ Idle.at = "idle"
        /\ Idle \in [at : {"idle", "haskey", "get", "run", "send"},
                     msg : Messages \cup {None}, done : SUBSET Nat, next : Nat]
    BY DEF Idle
  <2>3. States
    <3>1. queue \subseteq Messages BY <2>1 DEF Messages, Places
    <3>2. thread \in [Threads -> [at : {"idle", "haskey", "get", "run", "send"},
                                 msg : Messages \cup {None}, done : SUBSET Nat, next : Nat]]
      BY <2>2 DEF Init
    <3> QED BY <3>1, <3>2, <2>1, <2>2 DEF Init, States
  <2>4. JobAccounted
    <3>1. \A j \in Jobs : Holders(j) = {} BY <2>1, <2>2 DEF Holders
    <3>2. \A j \in Jobs : Copies(j) =
            {[job |-> j, success |-> {}, failedTimes |-> 0, at |-> "ready"]}
      BY <2>1 DEF Copies
    <3> QED BY <3>1, <3>2 DEF JobAccounted
  <2>5. Carried
    <3>1. ASSUME NEW m \in queue PROVE InQueue(m)
      <4>1. PICK j \in Jobs : m = [job |-> j, success |-> {}, failedTimes |-> 0, at |-> "ready"]
        BY <2>1
      <4>2. Len(Delays[j]) \in Nat OBVIOUS
      <4> QED BY <2>1, <4>1, <4>2 DEF InQueue, Traced
    <3>2. \A w \in Threads : InThread(w) BY <2>1, <2>2 DEF InThread
    <3> QED BY <3>1, <3>2 DEF Carried
  <2> QED BY <2>3, <2>4, <2>5 DEF IInv
<1>2. ASSUME IInv, [Next]_vars PROVE IInv'
  <2>1. CASE UNCHANGED vars \/ Switch
    <3>1. UNCHANGED <<queue, thread, succeeded, waited, lost>>
      BY <2>1 DEF vars, Switch
    <3>2. States' BY <1>2, <2>1, <3>1 DEF vars, Switch, IInv, States
    <3>3. JobAccounted'
      <4>1. \A j \in Jobs : /\ Copies(j)' = Copies(j) /\ Holders(j)' = Holders(j)
                             /\ Unreadable(j)' = Unreadable(j)
        BY <3>1 DEF Copies, Holders, Unreadable, Passed
      <4> QED BY <1>2, <3>1, <4>1 DEF IInv, JobAccounted
    <3>4. Carried'
      <4>1. \A m : Traced(m)' = Traced(m) BY <3>1 DEF Traced, Passed
      <4>2. \A m : InQueue(m)' = InQueue(m) BY <3>1, <4>1 DEF InQueue
      <4>3. \A w \in Threads : InThread(w)' = InThread(w) BY <3>1, <4>1 DEF InThread
      <4> QED BY <1>2, <3>1, <4>2, <4>3 DEF IInv, Carried
    <3> QED BY <3>2, <3>3, <3>4 DEF IInv
  <2>2. ASSUME NEW w \in Threads, Receive(w) PROVE IInv' BY <1>2, <2>2, ReceiveInv
  <2>3. ASSUME NEW w \in Threads, HasKey(w) PROVE IInv' BY <1>2, <2>3, HasKeyInv
  <2>4. ASSUME NEW w \in Threads, GetDelayControl(w) PROVE IInv'
    BY <1>2, <2>4, GetDelayControlInv
  <2>5. ASSUME NEW w \in Threads, Invoke(w) PROVE IInv' BY <1>2, <2>5, InvokeInv
  <2>6. ASSUME NEW w \in Threads, EndOfTasks(w) PROVE IInv' BY <1>2, <2>6, EndOfTasksInv
  <2>7. ASSUME NEW w \in Threads, Produce(w) \/ ProduceFails(w) \/ RedisFails(w) PROVE IInv'
    BY <1>2, <2>7, ProduceInv
  <2>8. ASSUME NEW m \in queue, DelayElapsed(m) PROVE IInv' BY <1>2, <2>8, DelayElapsedInv
  <2>9. ASSUME NEW dead \in SUBSET Threads, Crash(dead) PROVE IInv' BY <1>2, <2>9, CrashInv
  <2> QED BY <1>2, <2>1, <2>2, <2>3, <2>4, <2>5, <2>6, <2>7, <2>8, <2>9 DEF Next, Step
<1> QED BY <1>1, <1>2, PTL DEF Spec, Safety

\* The types of the state; no job was tried more often than its delays allow.
THEOREM TypeCorrect == Spec => []TypeOK
<1>1. IInv => TypeOK
  BY DEF IInv, States, Carried, InQueue, Traced, TypeOK
<1> QED BY <1>1, Invariance, PTL

\* A job is at one place until it is done, or until a swallowed exception
\* destroys its copy: a fault, a control key or a delay that is no number
\* (ExecuteTask.java:64-103, ServiceJob.java:108-137, MessageListenerBase.onMessage).
THEOREM JobAccountedHolds == Spec => []JobAccounted
<1>1. IInv => JobAccounted BY DEF IInv
<1> QED BY <1>1, Invariance, PTL

\* A task that has succeeded is not executed again (ExecuteTask.doWork).
THEOREM NoSuccessRepeatedHolds == Spec => []NoSuccessRepeated
<1>1. ASSUME IInv, NEW w \in Threads, thread[w].at = "run"
      PROVE  Pending(w) \cap succeeded[thread[w].msg.job] = {}
  BY <1>1, ThreadFacts DEF Pending
<1>2. IInv => NoSuccessRepeated BY <1>1 DEF NoSuccessRepeated
<1> QED BY <1>2, Invariance, PTL

\* A job in the fail queue failed in every attempt its delays allow
\* (ExecuteTask.java:85-97, ServiceJob.getDelaySeconds).
THEOREM FailedForGoodHolds == Spec => []FailedForGood
<1>1. IInv => FailedForGood
  BY DEF IInv, Carried, InQueue, Traced, Passed, FailedForGood
<1> QED BY <1>1, Invariance, PTL
=============================================================================

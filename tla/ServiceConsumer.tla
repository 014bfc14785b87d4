-------------------------- MODULE ServiceConsumer ---------------------------
(***************************************************************************)
(* The service consumer: jobs arrive as messages of two ActiveMQ queues,   *)
(* each job is a list of service calls ("tasks"), and a job with a failed  *)
(* task is sent again with the next of its delays, or to the fail queue    *)
(* when there is none.  The job travels in the body of its message: the    *)
(* successes and the count of failures survive only if they are sent.      *)
(*                                                                         *)
(* The listener container acknowledges a message before the listener runs  *)
(* (AUTO_ACKNOWLEDGE of DefaultMessageListenerContainer): from Receive to  *)
(* the produce, the only copy of a job is in the thread.                   *)
(***************************************************************************)
EXTENDS Naturals, Sequences, FiniteSets

CONSTANTS
  Jobs,           \* the jobs, each sent once by the application
  TasksOf,        \* per job, the positions of its taskList
  Delays,         \* per job, redelivoryDelays; see DelayClasses
  Controlled,     \* the jobs sent to delayedControlQueue
  Listed,         \* <<job, task>> with a successStatus
  Threads,        \* the threads of the listener containers
  ControlThreads, \* those of the container of delayedControlQueue
  None,           \* no message
  MaxFaults,      \* bound: failing calls and crashes
  MaxSwitches     \* bound: changes of the control key

(* What a delay amounts to: "wait" for a delay the broker observes;        *)
(* "overflow" if the product delaySeconds * 1000 is a negative int (25     *)
(* days and more), which the broker takes for no delay; "void" if          *)
(* getDelaySeconds is not positive; "malformed" if it throws: an empty      *)
(* entry, or a number that is no int.                                      *)
DelayClasses == {"wait", "overflow", "void", "malformed"}

(* Where the broker has a message: deliverable, waiting for its delay, or  *)
(* in the queue "fail.<destination>".                                      *)
Places == {"ready", "scheduled", "failed"}

Messages == [job : Jobs, success : SUBSET Nat, failedTimes : Nat, at : Places]

ASSUME ConsumerAssumption ==
  /\ \A j \in Jobs : TasksOf[j] \subseteq Nat /\ TasksOf[j] # {}
  /\ \A j \in Jobs : Delays[j] \in Seq(DelayClasses)
  /\ Controlled \subseteq Jobs
  /\ ControlThreads \subseteq Threads
  /\ None \notin Messages
  /\ MaxFaults \in Nat /\ MaxSwitches \in Nat

VARIABLES
  queue,     \* the messages the broker holds, of all queues
  thread,    \* per thread: what it does, its message, its copy of the job
  control,   \* the Redis key queue:control:delay
  succeeded, \* history: per job, the tasks recorded as successful
  waited,    \* history: per job, the failedTimes with which a delay ran out
  lost,      \* history: the jobs whose only copy a fault or the control key destroyed
  faults, switches

\* No key, a delay of zero, a delay, or what is no number.
Controls == {"absent", "zero", "on", "malformed"}

history == <<succeeded, waited>>
counters == <<faults, switches>>
vars == <<queue, thread, control, succeeded, waited, lost, faults, switches>>

Idle == [at |-> "idle", msg |-> None, done |-> {}, next |-> 1]

Init ==
  /\ queue = {[job |-> j, success |-> {}, failedTimes |-> 0, at |-> "ready"] : j \in Jobs}
  /\ thread = [w \in Threads |-> Idle]
  /\ control \in Controls
  /\ succeeded = [j \in Jobs |-> {}]
  /\ waited = [j \in Jobs |-> {}]
  /\ lost = {}
  /\ faults = 0 /\ switches = 0

-----------------------------------------------------------------------------
(* The job.                                                                *)

\* Mutant of GetDelaySeconds: the delay of the next failure, not of this one.
GetDelayOfNext(j, failedTimes) ==
  IF failedTimes + 1 \in DOMAIN Delays[j] THEN Delays[j][failedTimes + 1] ELSE "void"

\* The delay before the next attempt of a job that failed this often.
GetDelaySeconds(j, failedTimes) ==
  IF failedTimes \in DOMAIN Delays[j] THEN Delays[j][failedTimes] ELSE "void"

\* Mutant of HasFailedTask: the verdict on the last task stands for all.
HasLastFailed(j, done) == ~ \E t \in done : \A u \in TasksOf[j] : u <= t

HasFailedTask(j, done) == \E t \in TasksOf[j] : t \notin done

\* Mutant of Encode: the message goes back with the tasks it came with.
EncodeTimesOnly(m, done) == [m EXCEPT !.failedTimes = @ + 1]

\* The body of the next message: the tasks with their successes, failedTimes + 1.
Encode(m, done) == [m EXCEPT !.success = done, !.failedTimes = @ + 1]

\* Mutant of Destination: without the fail queue.
DestinationNeverFailed(m) ==
  IF GetDelaySeconds(m.job, m.failedTimes) = "wait" THEN "scheduled" ELSE "ready"

\* Where the produce of a failed job puts it.
Destination(m) ==
  CASE GetDelaySeconds(m.job, m.failedTimes) = "wait" -> "scheduled"
    [] GetDelaySeconds(m.job, m.failedTimes) = "overflow" -> "ready"
    [] OTHER -> "failed"

\* A service's answer counts as success if its status is 0 or 10000; a task
\* with a list of its own never succeeds (each entry is compared with the
\* text of the array).
Successful(j, t, answer) == answer = "ok" /\ <<j, t>> \notin Listed

-----------------------------------------------------------------------------
(* The threads.                                                            *)

Serves(w, j) == w \in ControlThreads <=> j \in Controlled

Work(m) == [at |-> "run", msg |-> m, done |-> m.success, next |-> 1]

\* The container takes and acknowledges a message and calls onMessage.
Receive(w) ==
  /\ thread[w].at = "idle"
  /\ \E m \in queue :
       /\ m.at = "ready" /\ Serves(w, m.job)
       /\ queue' = queue \ {m}
       /\ thread' = [thread EXCEPT ![w] =
            IF w \in ControlThreads THEN [Work(m) EXCEPT !.at = "haskey"] ELSE Work(m)]
  /\ UNCHANGED <<control, history, lost, counters>>

\* redisTemplate.hasKey(DELAY_CONTROL_KEY)
HasKey(w) ==
  /\ thread[w].at = "haskey"
  /\ thread' = [thread EXCEPT ![w].at = IF control = "absent" THEN "run" ELSE "get"]
  /\ UNCHANGED <<queue, control, history, lost, counters>>

\* Mutant of Deferring: a delay of zero is a delay.
DeferringAtZero == control \in {"zero", "on"}

\* delayInteger > 0
Deferring == control = "on"

\* Integer.valueOf of the value of the key throws if that is no number, or gone by now.
NoInteger == control \in {"absent", "malformed"}

\* The value of the key decides; processMessage catches what valueOf throws, and
\* drops the message.
GetDelayControl(w) ==
  /\ thread[w].at = "get"
  /\ thread' = [thread EXCEPT ![w] =
       CASE NoInteger -> Idle
         [] Deferring -> [@ EXCEPT !.at = "send", !.msg.at = "scheduled"]
         [] OTHER -> [@ EXCEPT !.at = "run"]]
  /\ lost' = IF NoInteger THEN lost \cup {thread[w].msg.job} ELSE lost
  /\ UNCHANGED <<queue, control, history, counters>>

\* The tasks the loop of doWork still has to execute.
Pending(w) == {t \in TasksOf[thread[w].msg.job] : t >= thread[w].next /\ t \notin thread[w].done}

\* executeTask of the next task that has not succeeded: the service answers
\* with a good or a bad status, or there is an exception (status -1).
Invoke(w) ==
  /\ thread[w].at = "run"
  /\ \E t \in Pending(w), answer \in {"ok", "bad"} :
       LET j == thread[w].msg.job
           ok == Successful(j, t, answer)
       IN /\ \A u \in Pending(w) : t <= u
          /\ thread' = [thread EXCEPT ![w].next = t + 1, ![w].done = IF ok THEN @ \cup {t} ELSE @]
          /\ succeeded' = IF ok THEN [succeeded EXCEPT ![j] = @ \cup {t}] ELSE succeeded
  /\ UNCHANGED <<queue, control, waited, lost, counters>>

\* The end of the loop: the job is finished, or it is encoded for another go.  When
\* getDelaySeconds throws, doWork logs it and has nothing to send.
EndOfTasks(w) ==
  /\ thread[w].at = "run" /\ Pending(w) = {}
  /\ LET m == Encode(thread[w].msg, thread[w].done)
     IN thread' = [thread EXCEPT ![w] =
          IF /\ HasFailedTask(m.job, thread[w].done)
             /\ GetDelaySeconds(m.job, m.failedTimes) # "malformed"
          THEN [@ EXCEPT !.at = "send", !.msg = [m EXCEPT !.at = Destination(m)]]
          ELSE Idle]
  /\ UNCHANGED <<queue, control, history, lost, counters>>

\* serviceProducer.produce
Produce(w) ==
  /\ thread[w].at = "send"
  /\ queue' = queue \cup {thread[w].msg}
  /\ thread' = [thread EXCEPT ![w] = Idle]
  /\ UNCHANGED <<control, history, lost, counters>>

\* produce throws, whether or not the broker has the message; doWork and
\* processMessage catch every Throwable, and the message is acknowledged.
ProduceFails(w) ==
  /\ thread[w].at = "send" /\ faults < MaxFaults
  /\ \/ queue' = queue \cup {thread[w].msg} /\ UNCHANGED lost
     \/ lost' = lost \cup {thread[w].msg.job} /\ UNCHANGED queue
  /\ thread' = [thread EXCEPT ![w] = Idle]
  /\ faults' = faults + 1
  /\ UNCHANGED <<control, history, switches>>

\* A Redis call of DelayedControlConsumerListener throws.
RedisFails(w) ==
  /\ thread[w].at \in {"haskey", "get"} /\ faults < MaxFaults
  /\ lost' = lost \cup {thread[w].msg.job}
  /\ thread' = [thread EXCEPT ![w] = Idle]
  /\ faults' = faults + 1
  /\ UNCHANGED <<queue, control, history, switches>>

-----------------------------------------------------------------------------
(* The environment.                                                        *)

\* The broker delivers a message whose delay has run out.
DelayElapsed(m) ==
  /\ m \in queue /\ m.at = "scheduled"
  /\ queue' = (queue \ {m}) \cup {[m EXCEPT !.at = "ready"]}
  /\ waited' = [waited EXCEPT ![m.job] = @ \cup {m.failedTimes}]
  /\ UNCHANGED <<thread, control, succeeded, lost, counters>>

\* An operator sets, changes or deletes the control key.
Switch ==
  /\ switches < MaxSwitches
  /\ control' \in Controls \ {control}
  /\ switches' = switches + 1
  /\ UNCHANGED <<queue, thread, history, lost, faults>>

\* A process dies with its threads, and starts again.
Crash(dead) ==
  /\ faults < MaxFaults
  /\ \E w \in dead : thread[w] # Idle
  /\ lost' = lost \cup {thread[w].msg.job : w \in {v \in dead : thread[v].msg # None}}
  /\ thread' = [w \in Threads |-> IF w \in dead THEN Idle ELSE thread[w]]
  /\ faults' = faults + 1
  /\ UNCHANGED <<queue, control, history, switches>>

Step(w) == HasKey(w) \/ GetDelayControl(w) \/ Invoke(w) \/ EndOfTasks(w) \/ Produce(w)

Next ==
  \/ \E w \in Threads : Receive(w) \/ Step(w) \/ ProduceFails(w) \/ RedisFails(w)
  \/ \E m \in queue : DelayElapsed(m)
  \/ Switch
  \/ \E dead \in SUBSET Threads : Crash(dead)

Safety == Init /\ [][Next]_vars

(* Threads run, each container has a thread to receive, delays run out.    *)
Fairness ==
  /\ \A w \in Threads : WF_vars(Step(w))
  /\ WF_vars(\E w \in ControlThreads : Receive(w))
  /\ WF_vars(\E w \in Threads \ ControlThreads : Receive(w))
  /\ \A j \in Jobs : WF_vars(\E m \in queue : m.job = j /\ DelayElapsed(m))

Spec == Safety /\ Fairness

-----------------------------------------------------------------------------
(* Properties.                                                             *)

\* Types; a failed job was tried at most once more than it has delays.
TypeOK ==
  /\ queue \subseteq Messages
  /\ \A m \in queue : m.success \subseteq TasksOf[m.job] /\ m.failedTimes <= Len(Delays[m.job]) + 1
  /\ thread \in [Threads -> [at : {"idle", "haskey", "get", "run", "send"},
                             msg : Messages \cup {None}, done : SUBSET Nat, next : Nat]]
  /\ \A w \in Threads :
       /\ thread[w].at = "idle" <=> thread[w].msg = None
       /\ thread[w].msg # None => thread[w].done \subseteq TasksOf[thread[w].msg.job]
  /\ control \in Controls
  /\ succeeded \in [Jobs -> SUBSET Nat] /\ \A j \in Jobs : succeeded[j] \subseteq TasksOf[j]
  /\ waited \in [Jobs -> SUBSET Nat]
  /\ lost \subseteq Jobs

Holders(j) == {w \in Threads : thread[w].msg # None /\ thread[w].msg.job = j}

Copies(j) == {m \in queue : m.job = j}

\* The delay before attempt i + 1 is over: it was waited for, or overflowed.
Passed(j, i) ==
  \/ Delays[j][i] = "wait" /\ i \in waited[j]
  \/ Delays[j][i] = "overflow"

\* j failed as often as it takes to get to a delay that cannot be read.
Unreadable(j) ==
  \E i \in DOMAIN Delays[j] : Delays[j][i] = "malformed" /\ \A k \in 1..(i - 1) : Passed(j, k)

\* A job is at one place: with the broker or in one thread.  It disappears
\* only when all its tasks have succeeded; or when the exception that doWork or
\* processMessage swallows destroyed the copy in the thread: produce or Redis failed,
\* the control key had no number, or the next of its delays could not be read
\* (ServiceJob.java:114, 117), all those before having passed.
JobAccounted ==
  \A j \in Jobs :
    /\ \A m \in Copies(j), n \in Copies(j) : m = n
    /\ \A v \in Holders(j), w \in Holders(j) : v = w
    /\ Copies(j) = {} \/ Holders(j) = {}
    /\ Copies(j) = {} /\ Holders(j) = {} =>
         j \in lost \/ succeeded[j] = TasksOf[j] \/ Unreadable(j)

\* A task that has succeeded is not executed again by a later attempt of its
\* job: doWork skips it, wherever the job has been in between.
NoSuccessRepeated ==
  \A w \in Threads :
    thread[w].at = "run" => Pending(w) \cap succeeded[thread[w].msg.job] = {}

\* A job is in the fail queue only if a task of it failed in every attempt,
\* and the attempts used up its delays: each was waited for, up to one that
\* is void or missing.
FailedForGood ==
  \A m \in queue :
    m.at = "failed" =>
      /\ succeeded[m.job] # TasksOf[m.job]
      /\ GetDelaySeconds(m.job, m.failedTimes) = "void"
      /\ \A i \in 1..(m.failedTimes - 1) : Passed(m.job, i)

Ended(j) == Holders(j) = {} /\ \A m \in Copies(j) : m.at = "failed"

\* Every job ends: done, in the fail queue, or dropped.  A job of
\* delayedControlQueue goes round as long as the control key says so.
JobEnds ==
  /\ \A j \in Jobs \ Controlled : <>Ended(j)
  /\ <>[](control # "on") => \A j \in Controlled : <>Ended(j)

\* "In sequential mode a task may not be executed before the one in front of
\* it has succeeded" (ServiceJob.java:15): doWork does not look at the mode.
SequentialOrder ==
  \A w \in Threads :
    thread[w].at = "run" =>
      \A t \in thread[w].done : \A u \in TasksOf[thread[w].msg.job] : u < t => u \in thread[w].done
=============================================================================

----------------------------- MODULE RedisLock -----------------------------
(***************************************************************************)
(* The distributed lock of dol-framework-core: RedisLock objects that      *)
(* acquire one or several Redis keys through the Lua scripts of            *)
(* StringRedisTemplateEX, RedisLockFactory's shutdown flag, the expiry of  *)
(* the keys, and the failures a caller can meet.                           *)
(*                                                                         *)
(* A lock object is used by one thread.  A script runs atomically in       *)
(* Redis, so a call is one step; when the connection breaks the caller     *)
(* gets an exception and cannot know whether the script ran.               *)
(*                                                                         *)
(* store[k] records the lock object that wrote k.  Redis itself only sees  *)
(* the token, TokenOf[store[k]]: every comparison below goes through       *)
(* Value.  The rest of what a client cannot see is kept in two history     *)
(* variables, lost and orphan.                                             *)
(***************************************************************************)
EXTENDS Naturals

CONSTANTS
  Locks,      \* the RedisLock objects built by all the nodes
  Keys,       \* the Redis keys
  Tokens,     \* the values of System.currentTimeMillis() at construction
  KeysOf,     \* the keys of a lock object, duplicates already removed
  TokenOf,    \* the token of a lock object: two of them may share one
  Nobody,     \* the entry of a key that is not set
  MaxFaults   \* bound: calls that fail, and crashes, in one behaviour

ASSUME LockAssumption ==
  /\ KeysOf \in [Locks -> (SUBSET Keys) \ {{}}]
  /\ TokenOf \in [Locks -> Tokens]
  /\ Nobody \notin Locks
  /\ Nobody \notin Tokens
  /\ MaxFaults \in Nat

VARIABLES
  store,      \* Redis: the lock object whose script set the key, or Nobody
  hasLock,    \* RedisLock.hasLock
  pc,         \* "idle", "waiting" (asleep in lock()), or "gone" (crashed)
  granted,    \* lock() or tryLock() returned true, unLock() not called since
  shutdown,   \* RedisLockFactory.shutdown
  faults,     \* how many calls have failed so far
  lost,       \* what took keys from a lock since it last acquired them
  orphan      \* locks that may have left keys that unLock() will not delete

vars == <<store, hasLock, pc, granted, shutdown, faults, lost, orphan>>

Causes == {"lapsed", "robbed", "unanswered"}

Init ==
  /\ store = [k \in Keys |-> Nobody]
  /\ hasLock = [l \in Locks |-> FALSE]
  /\ pc = [l \in Locks |-> "idle"]
  /\ granted = [l \in Locks |-> FALSE]
  /\ shutdown = FALSE
  /\ faults = 0
  /\ lost = [l \in Locks |-> {}]
  /\ orphan = {}

-----------------------------------------------------------------------------
(* The scripts.                                                            *)

\* What GET returns.
Value(k) == IF store[k] = Nobody THEN Nobody ELSE TokenOf[store[k]]

Held(l) == {k \in Keys : store[k] = l}

\* Mutant of CanSet: some key is free.
CanSetSome(l) == \E k \in KeysOf[l] : store[k] = Nobody

\* SET NX succeeds on every key of l.
CanSet(l) == \A k \in KeysOf[l] : store[k] = Nobody

\* Mutant of SetIfAbsent: the script does not undo what it has set.
SetWithoutUndo(l) ==
  [k \in Keys |-> IF store[k] = Nobody /\ k \in KeysOf[l] THEN l ELSE store[k]]

\* setIfAbsent(keys, value, timeout): a key that is taken makes the script
\* delete the ones it has just set, so that a failure changes nothing.
SetIfAbsent(l) ==
  [k \in Keys |-> IF CanSet(l) /\ k \in KeysOf[l] THEN l ELSE store[k]]

\* Mutant of DeleteIfEqual: a plain DEL.
DeletePlain(l) == [k \in Keys |-> IF k \in KeysOf[l] THEN Nobody ELSE store[k]]

\* deleteIfEqual(keys, value): the keys that hold the token of l, whoever
\* set them.
DeleteIfEqual(l) ==
  [k \in Keys |-> IF k \in KeysOf[l] /\ Value(k) = TokenOf[l]
                    THEN Nobody ELSE store[k]]

\* The locks other than l that lose a key when l's delete script runs.
Robbed(l) ==
  {m \in Locks \ {l} : \E k \in Keys : store[k] = m /\ DeleteIfEqual(l)[k] = Nobody}

-----------------------------------------------------------------------------
(* RedisLock.                                                              *)

\* Mutant of AcquireLock: the script's nil reaches hasLock.
AcquireLockNil(l) ==
  /\ store' = SetIfAbsent(l)
  /\ hasLock' = [hasLock EXCEPT ![l] = IF CanSet(l) THEN TRUE ELSE Nobody]
  /\ UNCHANGED <<granted, lost, orphan>>

\* acquireLock(), with the result that lock() and tryLock() return.
AcquireLock(l) ==
  /\ store' = SetIfAbsent(l)
  /\ hasLock' = [hasLock EXCEPT ![l] = CanSet(l)]
  /\ granted' = [granted EXCEPT ![l] = @ \/ CanSet(l)]
  /\ lost' = IF CanSet(l) THEN [lost EXCEPT ![l] = {}] ELSE lost
  /\ orphan' = CASE CanSet(l) -> orphan \ {l}
                 [] ~CanSet(l) /\ Held(l) # {} -> orphan \cup {l}
                 [] OTHER -> orphan

TryLock(l) ==
  /\ pc[l] = "idle"
  /\ AcquireLock(l)
  /\ UNCHANGED <<pc, shutdown, faults>>

\* Mutant of Turn: the loop does not look at the shutdown flag.
TurnWithoutShutdown(l) ==
  /\ AcquireLock(l)
  /\ pc' = [pc EXCEPT ![l] = IF CanSet(l) THEN "idle" ELSE "waiting"]
  /\ UNCHANGED <<shutdown, faults>>

\* One turn of the loop of lock(): the shutdown flag, then acquireLock(), then
\* Thread.sleep(200).  Once the factory is shut down lock() returns hasLock as
\* it stands.
Turn(l) ==
  \/ /\ shutdown
     /\ pc' = [pc EXCEPT ![l] = "idle"]
     /\ granted' = [granted EXCEPT ![l] = @ \/ hasLock[l]]
     /\ UNCHANGED <<store, hasLock, shutdown, faults, lost, orphan>>
  \/ /\ ~shutdown
     /\ AcquireLock(l)
     /\ pc' = [pc EXCEPT ![l] = IF CanSet(l) THEN "idle" ELSE "waiting"]
     /\ UNCHANGED <<shutdown, faults>>

Lock(l) == pc[l] = "idle" /\ Turn(l)

Retry(l) == pc[l] = "waiting" /\ Turn(l)

\* The sleep is interrupted.
Interrupted(l) ==
  /\ pc[l] = "waiting"
  /\ pc' = [pc EXCEPT ![l] = "idle"]
  /\ hasLock' = [hasLock EXCEPT ![l] = FALSE]
  /\ UNCHANGED <<store, granted, shutdown, faults, lost, orphan>>

\* setIfAbsent throws out of lock() or tryLock(): hasLock is not assigned.
\* Redis may have run the script.
AcquireFails(l) ==
  /\ pc[l] = "idle" \/ (pc[l] = "waiting" /\ ~shutdown)
  /\ faults < MaxFaults
  /\ \/ UNCHANGED <<store, orphan>>
     \/ /\ CanSet(l)
        /\ store' = SetIfAbsent(l)
        /\ orphan' = orphan \cup {l}
  /\ pc' = [pc EXCEPT ![l] = "idle"]
  /\ faults' = faults + 1
  /\ UNCHANGED <<hasLock, granted, shutdown, lost>>

UnLock(l) ==
  /\ pc[l] = "idle"
  /\ granted' = [granted EXCEPT ![l] = FALSE]
  /\ \/ /\ hasLock[l]
        /\ store' = DeleteIfEqual(l)
        /\ hasLock' = [hasLock EXCEPT ![l] = FALSE]
        /\ lost' = [m \in Locks |-> IF m \in Robbed(l) THEN lost[m] \cup {"robbed"}
                                                        ELSE lost[m]]
     \/ /\ ~hasLock[l]
        /\ UNCHANGED <<store, hasLock, lost>>
  /\ UNCHANGED <<pc, shutdown, faults, orphan>>

\* Mutant of UnLockFails: hasLock = false also when the script was not run.
UnLockFailsAndForgets(l) ==
  /\ pc[l] = "idle" /\ hasLock[l]
  /\ faults < MaxFaults
  /\ granted' = [granted EXCEPT ![l] = FALSE]
  /\ hasLock' = [hasLock EXCEPT ![l] = FALSE]
  /\ faults' = faults + 1
  /\ UNCHANGED <<store, pc, shutdown, lost, orphan>>

\* deleteIfEqual throws and unLock() swallows it: hasLock stays true.  Redis
\* may have run the script.
UnLockFails(l) ==
  /\ pc[l] = "idle"
  /\ hasLock[l]
  /\ faults < MaxFaults
  /\ granted' = [granted EXCEPT ![l] = FALSE]
  /\ \/ UNCHANGED <<store, lost>>
     \/ /\ store' = DeleteIfEqual(l)
        /\ lost' = [m \in Locks |->
                      CASE m = l -> lost[m] \cup {"unanswered"}
                        [] m \in Robbed(l) -> lost[m] \cup {"robbed"}
                        [] OTHER -> lost[m]]
  /\ faults' = faults + 1
  /\ UNCHANGED <<hasLock, pc, shutdown, orphan>>

-----------------------------------------------------------------------------
(* The environment.                                                        *)

\* The PX timeout of a key runs out.  Nothing tells the lock object.
Expire(k) ==
  /\ store[k] # Nobody
  /\ store' = [store EXCEPT ![k] = Nobody]
  /\ lost' = [lost EXCEPT ![store[k]] = @ \cup {"lapsed"}]
  /\ UNCHANGED <<hasLock, pc, granted, shutdown, faults, orphan>>

\* RedisLockFactory.destroy()
Destroy ==
  /\ ~shutdown
  /\ shutdown' = TRUE
  /\ UNCHANGED <<store, hasLock, pc, granted, faults, lost, orphan>>

\* The node of l dies with whatever l holds.
Crash(l) ==
  /\ pc[l] # "gone"
  /\ faults < MaxFaults
  /\ pc' = [pc EXCEPT ![l] = "gone"]
  /\ hasLock' = [hasLock EXCEPT ![l] = FALSE]
  /\ granted' = [granted EXCEPT ![l] = FALSE]
  /\ orphan' = IF Held(l) # {} THEN orphan \cup {l} ELSE orphan
  /\ faults' = faults + 1
  /\ UNCHANGED <<store, shutdown, lost>>

Next ==
  \/ \E l \in Locks :
       \/ TryLock(l) \/ Lock(l) \/ Retry(l) \/ Interrupted(l)
       \/ AcquireFails(l) \/ UnLock(l) \/ UnLockFails(l) \/ Crash(l)
  \/ \E k \in Keys : Expire(k)
  \/ Destroy

\* A sleeping thread wakes up and a timeout runs out: nothing else is promised.
Fairness ==
  /\ \A l \in Locks : WF_vars(Retry(l))
  /\ \A k \in Keys : WF_vars(Expire(k))

Safety == Init /\ [][Next]_vars

Spec == Safety /\ Fairness

-----------------------------------------------------------------------------
(* Properties.                                                             *)

TypeOK ==
  /\ store \in [Keys -> Locks \cup {Nobody}]
  /\ hasLock \in [Locks -> BOOLEAN]
  /\ pc \in [Locks -> {"idle", "waiting", "gone"}]
  /\ granted \in [Locks -> BOOLEAN]
  /\ shutdown \in BOOLEAN
  /\ faults \in 0..MaxFaults
  /\ lost \in [Locks -> SUBSET Causes]
  /\ orphan \in SUBSET Locks

\* What lock() promises (RedisLock.java:47): two clients whose locks share a
\* key are inside at once only after one of them lost a key, because it
\* expired, because a lock with the same token deleted it, or because an
\* unLock() that failed had in fact deleted it.
Exclusion ==
  \A l, m \in Locks :
    l # m /\ KeysOf[l] \cap KeysOf[m] # {} /\ granted[l] /\ granted[m]
      => lost[l] # {} \/ lost[m] # {}

\* A lock of several keys is taken whole (MULTI_SET_IF_ABSENT_SCRIPT,
\* StringRedisTemplateEX.java:94): it owns all its keys or none, as long as
\* none of them expired or was deleted by another lock.
AllOrNothing ==
  \A l \in Locks :
    Held(l) # {} => Held(l) = KeysOf[l] \/ lost[l] # {}

\* A key that nobody can release any more (it is set, and the object that set
\* it has hasLock = false) comes from a crash, from an acquisition whose answer
\* was lost, or from acquiring again a lock already held (RedisLock.java:63).
OrphanExplained ==
  \A l \in Locks : Held(l) # {} /\ ~hasLock[l] => l \in orphan

\* A lock is deleted under its holder's feet only by a lock object built in the
\* same millisecond (RedisLock.java:30 and 70): with distinct tokens an unLock()
\* that comes after the expiry never deletes the next holder's key.
RobbedByTwin ==
  \A l \in Locks :
    "robbed" \in lost[l] =>
      \E m \in Locks \ {l} : TokenOf[m] = TokenOf[l] /\ KeysOf[m] \cap KeysOf[l] # {}

\* The keys as leases held by tokens.
Leases == INSTANCE LeaseTable
            WITH Holders <- Tokens, Free <- Nobody, lease <- [k \in Keys |-> Value(k)]

LeaseSpec == Leases!Spec

\* A sleeping lock() is served, or another lock that shares a key with it has
\* acquired: keys left by a crash do not block the others for ever.
WaiterServed ==
  \A l \in Locks :
    pc[l] = "waiting" ~>
      \/ pc[l] # "waiting"
      \/ \E m \in Locks \ {l} : hasLock[m] /\ KeysOf[m] \cap KeysOf[l] # {}

\* After destroy() no lock() call keeps waiting (RedisLock.java:49).
ShutdownEndsWaiting ==
  \A l \in Locks : shutdown /\ pc[l] = "waiting" ~> pc[l] # "waiting"
=============================================================================

---------------------------- MODULE MapperFactory ----------------------------
(***************************************************************************)
(* The transactions of the mapper factories: one factory per database, one *)
(* thread-local status with a counter for all of them, and an interceptor  *)
(* that rolls back what a request has left behind.                         *)
(*                                                                         *)
(* Threads share nothing, so this is one of them.  It runs requests; within*)
(* a request units of work are nested: each begins a transaction at its    *)
(* factory and ends by a commit or a rollback at the same factory, or not  *)
(* at all.  The innermost open unit is the one with the highest number.    *)
(*                                                                         *)
(* Spring's contract says nothing of a status that is handed to the        *)
(* transaction manager of another database: here it is completed as asked  *)
(* for, or stays open.                                                     *)
(***************************************************************************)
EXTENDS Naturals, FiniteSets

CONSTANTS
  Factories,
  Listed,    \* those built by the constructor that calls addToList
  First,     \* the first of them in MAPPER_FACTORIES
  MaxUnits,  \* bound: units of work
  MaxFaults  \* bound: commits that throw

ASSUME FactoryAssumption ==
  /\ Listed \subseteq Factories
  /\ Listed # {} => First \in Listed
  /\ MaxUnits \in Nat /\ MaxFaults \in Nat

VARIABLES
  local,    \* transactionstatusLocal: its transaction, 0 for null
  counter,  \* the counter of that status
  txs, tx,  \* how many transactions there were; per transaction its factory and state
  units, unit, \* the same of the units: factory, transaction, verdict
  running,  \* a request is running
  threw,    \* history: the status was left behind by a request that threw
  faults

vars == <<local, counter, txs, tx, units, unit, running, threw, faults>>

Numbers == 1..MaxUnits

\* How a unit ended: by one of the two commits, which went well or threw, or by a
\* rollback.
Verdicts == {"none", "open", "commit", "failed", "commitstatus", "statusfailed", "rollback"}

Init ==
  /\ local = 0 /\ counter = 0
  /\ txs = 0 /\ tx = [t \in Numbers |-> [home |-> "none", state |-> "none"]]
  /\ units = 0
  /\ unit = [u \in Numbers |-> [factory |-> "none", tx |-> 0, verdict |-> "none"]]
  /\ running = FALSE /\ threw = FALSE
  /\ faults = 0

-----------------------------------------------------------------------------
(* Transactions.                                                           *)

Open == {u \in Numbers : unit[u].verdict = "open"}

Innermost(u) == u \in Open /\ \A v \in Open : v <= u

\* A unit ends, and its caller believes the verdict.
Ends(u, verdict) == unit' = [unit EXCEPT ![u].verdict = verdict]

\* commit or rollback of transaction t by the manager of factory f, if isCompleted
\* says that it is not over.
Complete(t, f, outcome) ==
  \/ tx[t].state = "open" /\ tx' = [tx EXCEPT ![t].state = outcome]
  \/ tx[t].state # "open" /\ UNCHANGED tx
  \/ f # tx[t].home /\ UNCHANGED tx

\* The manager's commit throws: nobody knows what the database did, but the
\* transaction is over.
CommitThrows(t, f) ==
  /\ tx[t].state = "open"
  /\ faults < MaxFaults /\ faults' = faults + 1
  /\ \E outcome \in {"committed", "rolledback"} : Complete(t, f, outcome)

\* transactionstatusLocal.remove()
RemoveLocal == local' = 0 /\ counter' = 0 /\ threw' = FALSE

\* A handler is called.
Request ==
  /\ ~running
  /\ running' = TRUE
  /\ UNCHANGED <<local, counter, txs, tx, units, unit, threw, faults>>

\* Whoever finds a status joins its transaction, whatever factory it is of.
BeginTransaction(f) ==
  /\ running /\ units < MaxUnits
  /\ units' = units + 1
  /\ counter' = counter + 1
  /\ IF local = 0
     THEN /\ txs' = txs + 1
          /\ tx' = [tx EXCEPT ![txs + 1] = [home |-> f, state |-> "open"]]
          /\ local' = txs + 1
     ELSE UNCHANGED <<txs, tx, local>>
  /\ unit' = [unit EXCEPT ![units + 1] = [factory |-> f, tx |-> local', verdict |-> "open"]]
  /\ UNCHANGED <<running, threw, faults>>

\* Mutant of Outermost: off by one.
OutermostOrNext == counter <= 2

\* The only case in which commitTransaction() commits; in the others the
\* counter stays as it is.
Outermost == counter < 2

\* commitTransaction()
CommitTransaction(u) ==
  /\ Innermost(u)
  /\ Ends(u, "commit")
  /\ IF local # 0 /\ Outermost
     THEN Complete(local, unit[u].factory, "committed") /\ RemoveLocal
     ELSE UNCHANGED <<local, counter, tx, threw>>
  /\ UNCHANGED <<txs, units, running, faults>>

\* Mutant of CommitFails: no finally.
CommitFailsAndKeeps(u) ==
  /\ Innermost(u) /\ local # 0 /\ Outermost
  /\ Ends(u, "failed")
  /\ CommitThrows(local, unit[u].factory)
  /\ UNCHANGED <<local, counter, threw, txs, units, running>>

\* commitTransaction() when the commit throws: the thread-local goes, in a finally.
CommitFails(u) ==
  /\ Innermost(u) /\ local # 0 /\ Outermost
  /\ Ends(u, "failed")
  /\ CommitThrows(local, unit[u].factory)
  /\ RemoveLocal
  /\ UNCHANGED <<txs, units, running>>

\* commitTransaction(transactionStatus), with the status the unit was given:
\* no look at the counter, and the thread-local goes, whatever is in it.
CommitStatus(u) ==
  /\ Innermost(u)
  /\ Ends(u, "commitstatus")
  /\ Complete(unit[u].tx, unit[u].factory, "committed")
  /\ RemoveLocal
  /\ UNCHANGED <<txs, units, running, faults>>

\* The same when the commit throws: there is no finally, and the thread-local
\* keeps what is in it.
CommitStatusFails(u) ==
  /\ Innermost(u)
  /\ Ends(u, "statusfailed")
  /\ CommitThrows(unit[u].tx, unit[u].factory)
  /\ UNCHANGED <<local, counter, threw, txs, units, running>>

\* rollbackTransaction(), which lets no exception out.
RollbackTransaction(u) ==
  /\ Innermost(u)
  /\ Ends(u, "rollback")
  /\ IF local # 0 /\ counter = 1
     THEN Complete(local, unit[u].factory, "rolledback") /\ RemoveLocal
     ELSE /\ counter' = IF local = 0 THEN counter ELSE counter - 1
          /\ UNCHANGED <<local, tx, threw>>
  /\ UNCHANGED <<txs, units, running, faults>>

-----------------------------------------------------------------------------
(* The end of a request.  Units may be open that nobody is going to end.   *)

Abandoned == unit' = [u \in Numbers |->
  IF u \in Open THEN [unit[u] EXCEPT !.verdict = "none"] ELSE unit[u]]

\* The handler is through, and postHandle (or the Dubbo filter) calls
\* checkAndRollbackTransaction: the first factory of the list takes what is
\* there, the others find nothing.
PostHandle ==
  /\ running /\ running' = FALSE
  /\ Abandoned
  /\ IF local # 0 /\ Listed # {}
     THEN Complete(local, First, "rolledback") /\ RemoveLocal
     ELSE UNCHANGED <<local, counter, tx, threw>>
  /\ UNCHANGED <<txs, units, faults>>

\* The handler throws: Spring MVC does not call postHandle.
Throw ==
  /\ running /\ running' = FALSE
  /\ Abandoned
  /\ threw' = (local # 0)
  /\ UNCHANGED <<local, counter, txs, tx, units, faults>>

Next ==
  \/ Request \/ PostHandle \/ Throw
  \/ \E f \in Factories : BeginTransaction(f)
  \/ \E u \in Numbers : CommitTransaction(u) \/ CommitFails(u) \/ CommitStatus(u)
                        \/ CommitStatusFails(u) \/ RollbackTransaction(u)

Spec == Init /\ [][Next]_vars

-----------------------------------------------------------------------------
(* Properties.                                                             *)

TypeOK ==
  /\ txs \in 0..units /\ units \in 0..MaxUnits
  /\ local \in 0..txs /\ counter \in Nat
  /\ tx \in [Numbers -> [home : Factories \cup {"none"},
                         state : {"none", "open", "committed", "rolledback"}]]
  /\ unit \in [Numbers -> [factory : Factories \cup {"none"}, tx : 0..MaxUnits,
                           verdict : Verdicts]]
  /\ running \in BOOLEAN /\ threw \in BOOLEAN
  /\ faults \in 0..MaxFaults

UnitsOf(t) == {u \in Numbers : u <= units /\ unit[u].tx = t}

StatusCommits == {u \in Numbers : unit[u].verdict \in {"commitstatus", "statusfailed"}}

\* As long as nobody uses commitTransaction(status): a unit that has its
\* transaction for itself gets what it asked for, and a transaction that
\* reaches the database as committed has one unit at most that did not ask
\* for a rollback.  So of nested units that all ask for a commit, none gets
\* it (line 157: a nested commit leaves the counter); and a nested rollback
\* is undone by the commit around it.
DecisionsKept ==
  StatusCommits = {} =>
    \A t \in Numbers :
      /\ \A u \in UnitsOf(t) :
           UnitsOf(t) = {u} /\ unit[u].factory = tx[t].home =>
             /\ unit[u].verdict = "commit" => tx[t].state = "committed"
             /\ unit[u].verdict = "rollback" => tx[t].state = "rolledback"
      /\ tx[t].state = "committed" =>
           \A u, v \in UnitsOf(t) :
             u # v => "rollback" \in {unit[u].verdict, unit[v].verdict}

\* The thread-local holds a transaction that is over only if
\* commitTransaction(status) threw for a unit of that very transaction (line 172:
\* 174 is then skipped, and the next unit joins it).  One that is open is in the
\* thread-local: unless the manager of another factory was to complete it
\* (lines 161 and 198 use this factory's manager on whatever is there), or
\* commitTransaction(status) dropped it unseen (line 174).  Between
\* requests the thread-local is empty, unless a request threw or no factory
\* is in the list that checkAndRollbackTransaction goes through.
OpenIsHeld ==
  /\ local # 0 => \/ tx[local].state = "open"
                  \/ \E u \in UnitsOf(local) : unit[u].verdict = "statusfailed"
  /\ \A t \in Numbers :
       tx[t].state = "open" =>
         \/ t = local
         \/ Listed # {} /\ First # tx[t].home
         \/ \E u \in UnitsOf(t) : unit[u].factory # tx[t].home
         \/ StatusCommits # {}
  /\ ~running /\ local # 0 => threw \/ Listed = {}
=============================================================================

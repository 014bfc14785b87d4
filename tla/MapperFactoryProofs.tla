------------------------- MODULE MapperFactoryProofs -------------------------
(***************************************************************************)
(* Proofs about MapperFactory, for every set of factories and any number   *)
(* of units.                                                               *)
(***************************************************************************)
EXTENDS MapperFactory, FiniteSetTheorems, TLAPS

USE FactoryAssumption DEF FactoryAssumption, Numbers, Verdicts

\* Transactions and units are numbered in the order of their beginning.
Numbered ==
  /\ \A t \in Numbers : t > txs => tx[t].state = "none"
  /\ \A u \in Numbers : u > units => unit[u].verdict = "none"
  /\ \A u \in Numbers : u <= units => unit[u].tx \in 1..txs
  /\ IF local = 0 THEN counter = 0 ELSE counter >= 1

\* The units of t that did not ask for a rollback.
Standing(t) == {u \in UnitsOf(t) : unit[u].verdict # "rollback"}

\* They are what the counter counts.
Counted == StatusCommits = {} /\ local # 0 => counter = Cardinality(Standing(local))

\* A unit that is open is in the transaction of the thread-local.
Joined == StatusCommits = {} => \A u \in Open : local # 0 /\ unit[u].tx = local

IInv == TypeOK /\ Numbered /\ Counted /\ Joined /\ DecisionsKept /\ OpenIsHeld

-----------------------------------------------------------------------------
(* Sets of units.                                                          *)

\* There are finitely many units.
LEMMA Finite ==
  ASSUME NEW t
  PROVE  IsFiniteSet(UnitsOf(t)) /\ IsFiniteSet(Standing(t))
<1>1. IsFiniteSet(Numbers) BY FS_Interval
<1>2. UnitsOf(t) \in SUBSET Numbers /\ Standing(t) \in SUBSET Numbers
  BY DEF UnitsOf, Standing
<1> QED BY <1>1, <1>2, FS_Subset

\* If the counter is less than two, at most one unit has not been rolled back.
LEMMA FewStanding ==
  ASSUME NEW t, Cardinality(Standing(t)) < 2, NEW u \in UnitsOf(t), NEW v \in UnitsOf(t), u # v
  PROVE  "rollback" \in {unit[u].verdict, unit[v].verdict}
<1> SUFFICES ASSUME u \in Standing(t), v \in Standing(t) PROVE FALSE
  BY DEF Standing
<1>1. {u, v} \in SUBSET Standing(t) OBVIOUS
<1>2. Cardinality({u, v}) <= Cardinality(Standing(t)) BY <1>1, Finite, FS_Subset
<1>3. Cardinality({u}) = 1 /\ IsFiniteSet({u}) BY FS_Singleton
<1>4. Cardinality({u} \cup {v}) = 2 BY <1>3, FS_AddElement
<1>5. {u} \cup {v} = {u, v} OBVIOUS
<1>6. Cardinality(Standing(t)) \in Nat BY Finite, FS_CardinalityType
<1> QED BY <1>2, <1>4, <1>5, <1>6

\* A unit that has its transaction for itself counts one.
LEMMA SingleStands ==
  ASSUME NEW t, NEW u, UnitsOf(t) = {u}, unit[u].verdict # "rollback"
  PROVE  Cardinality(Standing(t)) = 1
<1>1. Standing(t) = {u} BY DEF Standing
<1> QED BY <1>1, FS_Singleton

\* Without commitTransaction(status), what is in the thread-local is open.
LEMMA LocalOpen ==
  ASSUME IInv, StatusCommits = {}, local # 0
  PROVE  tx[local].state = "open"
<1>1. \A v \in UnitsOf(local) : unit[v].verdict # "statusfailed"
  BY DEF UnitsOf, StatusCommits
<1> QED BY <1>1 DEF IInv, OpenIsHeld

-----------------------------------------------------------------------------
(* Units that end.                                                         *)

\* When u ends, its verdict is all that changes about the units.
LEMMA EndsEffect ==
  ASSUME IInv, NEW u \in Numbers, Innermost(u),
         NEW verdict \in Verdicts \ {"none", "open"},
         Ends(u, verdict), UNCHANGED <<units, txs>>
  PROVE  /\ \A v \in Numbers : v # u => unit'[v] = unit[v]
         /\ unit'[u] = [unit[u] EXCEPT !.verdict = verdict]
         /\ \A v \in Numbers : unit'[v].tx = unit[v].tx /\ unit'[v].factory = unit[v].factory
         /\ unit'[u].verdict = verdict /\ unit[u].verdict = "open"
         /\ \A t : UnitsOf(t)' = UnitsOf(t)
         /\ u <= units /\ u \in UnitsOf(unit[u].tx) /\ unit[u].tx \in Numbers
         /\ StatusCommits' = IF verdict \in {"commitstatus", "statusfailed"}
                              THEN StatusCommits \cup {u} ELSE StatusCommits
         /\ Open' \subseteq Open \ {u}
         /\ unit' \in [Numbers -> [factory : Factories \cup {"none"}, tx : 0..MaxUnits,
                         verdict : Verdicts]]
<1>1. unit \in [Numbers -> [factory : Factories \cup {"none"}, tx : 0..MaxUnits,
                         verdict : Verdicts]]
  BY DEF IInv, TypeOK
<1>2. unit[u].verdict = "open" BY DEF Innermost, Open
<1>3. \A v \in Numbers : v # u => unit'[v] = unit[v]
  BY <1>1 DEF Ends
<1>4. unit'[u] = [unit[u] EXCEPT !.verdict = verdict]
  BY <1>1 DEF Ends
<1>5. \A v \in Numbers : unit'[v].tx = unit[v].tx /\ unit'[v].factory = unit[v].factory
  BY <1>1, <1>3, <1>4
<1>6. unit'[u].verdict = verdict BY <1>1, <1>4
<1>7. \A t : UnitsOf(t)' = UnitsOf(t)
  BY <1>5 DEF UnitsOf
<1>8. u <= units /\ u \in UnitsOf(unit[u].tx) /\ unit[u].tx \in Numbers
  BY <1>1, <1>2 DEF IInv, TypeOK, Numbered, UnitsOf
<1>9. StatusCommits' = IF verdict \in {"commitstatus", "statusfailed"}
                      THEN StatusCommits \cup {u} ELSE StatusCommits
  BY <1>2, <1>3, <1>6 DEF StatusCommits
<1>10. Open' \subseteq Open \ {u}
  BY <1>3, <1>6 DEF Open
<1>11. unit' \in [Numbers -> [factory : Factories \cup {"none"}, tx : 0..MaxUnits,
                         verdict : Verdicts]]
  BY <1>1 DEF Ends
<1> QED BY <1>2, <1>3, <1>4, <1>5, <1>6, <1>7, <1>8, <1>9, <1>10, <1>11

\* commit and rollback touch one transaction, which gets the state asked for
\* or, when it is over or in foreign hands, keeps the one it has.
LEMMA CompleteEffect ==
  ASSUME TypeOK, NEW t \in Numbers, NEW f, NEW outcome \in {"committed", "rolledback"},
         Complete(t, f, outcome)
  PROVE  /\ tx' \in [Numbers -> [home : Factories \cup {"none"},
                                 state : {"none", "open", "committed", "rolledback"}]]
         /\ \A s \in Numbers : s # t => tx'[s] = tx[s]
         /\ \A s \in Numbers : tx'[s].home = tx[s].home
         /\ \/ tx'[t].state = outcome
            \/ (f # tx[t].home \/ tx[t].state # "open") /\ tx'[t].state = tx[t].state
<1>1. tx \in [Numbers -> [home : Factories \cup {"none"},
                          state : {"none", "open", "committed", "rolledback"}]]
  BY DEF TypeOK
<1>2. CASE tx' = [tx EXCEPT ![t].state = outcome]
  <2>1. tx'[t] = [tx[t] EXCEPT !.state = outcome] BY <1>1, <1>2
  <2>2. \A s \in Numbers : s # t => tx'[s] = tx[s] BY <1>1, <1>2
  <2>3. tx'[t].home = tx[t].home /\ tx'[t].state = outcome BY <1>1, <2>1
  <2>4. tx' \in [Numbers -> [home : Factories \cup {"none"},
                             state : {"none", "open", "committed", "rolledback"}]]
    BY <1>1, <1>2
  <2> QED BY <2>2, <2>3, <2>4
<1>3. CASE (f # tx[t].home \/ tx[t].state # "open") /\ UNCHANGED tx
  BY <1>1, <1>3
<1> QED BY <1>2, <1>3 DEF Complete

\* A unit ends, and with it the transaction of the thread-local.
LEMMA EndsAndCompletes ==
  ASSUME IInv, NEW u \in Numbers, Innermost(u),
         NEW verdict \in {"commit", "rollback", "failed"}, Ends(u, verdict),
         NEW outcome \in {"committed", "rolledback"}, Complete(local, unit[u].factory, outcome),
         verdict = "commit" => outcome = "committed",
         verdict = "rollback" => outcome = "rolledback",
         local # 0, counter < 2, RemoveLocal,
         UNCHANGED <<txs, units, running>>, faults' \in 0..MaxFaults
  PROVE  IInv'
<1> USE DEF IInv
<1>1. local \in Numbers BY DEF TypeOK
<1>2. /\ tx' \in [Numbers -> [home : Factories \cup {"none"},
                              state : {"none", "open", "committed", "rolledback"}]]
      /\ \A s \in Numbers : s # local => tx'[s] = tx[s]
      /\ \A s \in Numbers : tx'[s].home = tx[s].home
      /\ \/ tx'[local].state = outcome
         \/ /\ unit[u].factory # tx[local].home \/ tx[local].state # "open"
            /\ tx'[local].state = tx[local].state
  BY <1>1, CompleteEffect
<1>3. /\ \A v \in Numbers : v # u => unit'[v] = unit[v]
      /\ \A v \in Numbers : unit'[v].tx = unit[v].tx /\ unit'[v].factory = unit[v].factory
      /\ unit'[u].verdict = verdict /\ unit[u].verdict = "open"
      /\ \A t : UnitsOf(t)' = UnitsOf(t)
      /\ u <= units /\ u \in UnitsOf(unit[u].tx)
      /\ StatusCommits' = StatusCommits
      /\ Open' \subseteq Open \ {u}
  BY EndsEffect
<1>4. local' = 0 /\ counter' = 0 /\ threw' = FALSE BY DEF RemoveLocal
<1>5. StatusCommits = {} => tx[local].state = "open" BY LocalOpen
<1>6. StatusCommits = {} => /\ unit[u].tx = local
                            /\ counter = Cardinality(Standing(local))
                            /\ u \in UnitsOf(local) /\ u \in Standing(local)
  BY <1>3 DEF Joined, Counted, Innermost, Standing
<1>7. TypeOK'
  <2>1. unit' \in [Numbers -> [factory : Factories \cup {"none"}, tx : 0..MaxUnits,
                     verdict : Verdicts]]
    BY EndsEffect
  <2>2. txs' \in 0..units' /\ units' \in 0..MaxUnits /\ local' \in 0..txs' /\ counter' \in Nat
    BY <1>4 DEF TypeOK
  <2>3. running' \in BOOLEAN /\ threw' \in BOOLEAN
    BY <1>4 DEF TypeOK
  <2> QED BY <2>1, <2>2, <2>3, <1>2 DEF TypeOK
<1>8. Numbered'
  <2>1. \A t \in Numbers : t > txs => tx'[t].state = "none"
    BY <1>1, <1>2 DEF TypeOK, Numbered
  <2> QED BY <2>1, <1>3, <1>4 DEF Numbered
<1>9. Counted' BY <1>4 DEF Counted
<1>10. Joined'
  <2> SUFFICES ASSUME StatusCommits' = {}, NEW v \in Open' PROVE FALSE
    BY DEF Joined
  <2>1. v \in Open /\ v # u /\ StatusCommits = {} BY <1>3
  <2>2. v \in Numbers /\ unit[v].verdict = "open" /\ unit[v].tx = local
    BY <2>1 DEF Open, Joined
  <2>3. v \in UnitsOf(local) BY <2>2 DEF UnitsOf, TypeOK, Numbered
  <2> QED BY <2>1, <2>2, <2>3, <1>3, <1>6, FewStanding
<1>11. DecisionsKept'
  <2> SUFFICES ASSUME StatusCommits = {}, NEW t \in Numbers
               PROVE  /\ \A w \in UnitsOf(t) :
                           UnitsOf(t) = {w} /\ unit'[w].factory = tx'[t].home =>
                             /\ unit'[w].verdict = "commit" => tx'[t].state = "committed"
                             /\ unit'[w].verdict = "rollback" => tx'[t].state = "rolledback"
                      /\ tx'[t].state = "committed" =>
                           \A w, v \in UnitsOf(t) :
                             w # v => "rollback" \in {unit'[w].verdict, unit'[v].verdict}
    BY <1>3 DEF DecisionsKept
  <2>1. UnitsOf(t) \subseteq Numbers BY DEF UnitsOf
  <2>2. CASE t # local
    <3>1. u \notin UnitsOf(t) BY <2>2, <1>6 DEF UnitsOf
    <3>2. \A w \in UnitsOf(t) : unit'[w] = unit[w] BY <3>1, <2>1, <1>3
    <3>3. tx'[t] = tx[t] BY <2>2, <1>2
    <3> QED BY <3>2, <3>3 DEF DecisionsKept
  <2>3. CASE t = local
    <3>1. UnitsOf(t) = {u} /\ unit'[u].factory = tx'[t].home =>
            /\ unit'[u].verdict = "commit" => tx'[t].state = "committed"
            /\ unit'[u].verdict = "rollback" => tx'[t].state = "rolledback"
      BY <2>3, <1>1, <1>2, <1>3, <1>5
    <3>2. tx'[t].state = "committed" =>
            \A w, v \in UnitsOf(t) : w # v => "rollback" \in {unit[w].verdict, unit[v].verdict}
      BY <2>3, <1>6, FewStanding
    <3>3. \A w \in UnitsOf(t) : unit[w].verdict = "rollback" => unit'[w].verdict = "rollback"
      BY <2>1, <1>3
    <3>4. \A w \in UnitsOf(t) : UnitsOf(t) = {w} => w = u
      BY <2>3, <1>6
    <3> QED BY <3>1, <3>2, <3>3, <3>4
  <2> QED BY <2>2, <2>3
<1>12. OpenIsHeld'
  <2> SUFFICES ASSUME NEW t \in Numbers, tx'[t].state = "open"
               PROVE  \/ Listed # {} /\ First # tx'[t].home
                      \/ \E v \in UnitsOf(t) : unit'[v].factory # tx'[t].home
                      \/ StatusCommits # {}
    BY <1>3, <1>4 DEF OpenIsHeld
  <2>1. UnitsOf(t) \subseteq Numbers BY DEF UnitsOf
  <2>2. CASE t # local
    <3>1. tx[t].state = "open" /\ tx'[t].home = tx[t].home BY <2>2, <1>2
    <3>2. \A v \in UnitsOf(t) : unit'[v].factory = unit[v].factory BY <2>1, <1>3
    <3> QED BY <2>2, <3>1, <3>2 DEF OpenIsHeld
  <2>3. CASE t = local
    <3>1. unit[u].factory # tx[local].home BY <2>3, <1>2
    <3> QED BY <2>3, <3>1, <1>1, <1>2, <1>3, <1>6
  <2> QED BY <2>2, <2>3
<1> QED BY <1>7, <1>8, <1>9, <1>10, <1>11, <1>12

\* A unit ends, and the transaction of the thread-local goes on.
LEMMA EndsOnly ==
  ASSUME IInv, NEW u \in Numbers, Innermost(u),
         NEW verdict \in {"commit", "rollback"}, Ends(u, verdict),
         local # 0 => /\ verdict = "commit" => counter >= 2 /\ counter' = counter
                      /\ verdict = "rollback" => counter # 1 /\ counter' = counter - 1,
         local = 0 => counter' = counter,
         UNCHANGED <<local, tx, threw, txs, units, running, faults>>
  PROVE  IInv'
<1> USE DEF IInv
<1>1. /\ \A v \in Numbers : v # u => unit'[v] = unit[v]
      /\ \A v \in Numbers : unit'[v].tx = unit[v].tx /\ unit'[v].factory = unit[v].factory
      /\ unit'[u].verdict = verdict /\ unit[u].verdict = "open"
      /\ \A t : UnitsOf(t)' = UnitsOf(t)
      /\ u <= units /\ u \in UnitsOf(unit[u].tx)
      /\ StatusCommits' = StatusCommits
      /\ Open' \subseteq Open \ {u}
  BY EndsEffect
<1>2. StatusCommits = {} => /\ local # 0 /\ local \in Numbers /\ unit[u].tx = local
                            /\ counter = Cardinality(Standing(local))
                            /\ u \in UnitsOf(local) /\ u \in Standing(local)
                            /\ tx[local].state = "open"
  BY <1>1, LocalOpen DEF Joined, Counted, Innermost, Standing, TypeOK
<1>3. local # 0 => counter' \in Nat /\ counter' >= 1
  BY DEF TypeOK, Numbered
<1>4. TypeOK'
  <2>1. unit' \in [Numbers -> [factory : Factories \cup {"none"}, tx : 0..MaxUnits,
                     verdict : Verdicts]]
    BY EndsEffect
  <2>2. counter' \in Nat BY <1>3 DEF TypeOK
  <2> QED BY <2>1, <2>2 DEF TypeOK
<1>5. Numbered' BY <1>1, <1>3 DEF Numbered
<1>6. Joined'
  <2> SUFFICES ASSUME StatusCommits = {}, NEW v \in Open'
               PROVE  local # 0 /\ unit'[v].tx = local
    BY <1>1 DEF Joined
  <2>1. v \in Open /\ v \in Numbers BY <1>1 DEF Open
  <2> QED BY <2>1, <1>1 DEF Joined
<1>7. Counted'
  <2> SUFFICES ASSUME StatusCommits = {}
               PROVE  counter' = Cardinality(Standing(local)')
    BY <1>1 DEF Counted
  <2>1. CASE verdict = "commit"
    <3>1. Standing(local)' = Standing(local)
      BY <2>1, <1>1 DEF Standing, UnitsOf
    <3> QED BY <2>1, <3>1, <1>2
  <2>2. CASE verdict = "rollback"
    <3>1. Standing(local)' = Standing(local) \ {u}
      BY <2>2, <1>1 DEF Standing, UnitsOf
    <3>2. Cardinality(Standing(local) \ {u}) = Cardinality(Standing(local)) - 1
      BY <1>2, Finite, FS_RemoveElement
    <3> QED BY <2>2, <3>1, <3>2, <1>2
  <2> QED BY <2>1, <2>2
<1>8. DecisionsKept'
  <2> SUFFICES ASSUME StatusCommits = {}, NEW t \in Numbers
               PROVE  /\ \A w \in UnitsOf(t) :
                           UnitsOf(t) = {w} /\ unit'[w].factory = tx[t].home =>
                             /\ unit'[w].verdict = "commit" => tx[t].state = "committed"
                             /\ unit'[w].verdict = "rollback" => tx[t].state = "rolledback"
                      /\ tx[t].state = "committed" =>
                           \A w, v \in UnitsOf(t) :
                             w # v => "rollback" \in {unit'[w].verdict, unit'[v].verdict}
    BY <1>1 DEF DecisionsKept
  <2>1. UnitsOf(t) \subseteq Numbers BY DEF UnitsOf
  <2>2. CASE t # local
    <3>1. u \notin UnitsOf(t) BY <2>2, <1>2 DEF UnitsOf
    <3>2. \A w \in UnitsOf(t) : unit'[w] = unit[w] BY <3>1, <2>1, <1>1
    <3> QED BY <3>2 DEF DecisionsKept
  <2>3. CASE t = local
    <3>1. UnitsOf(t) # {u}
      <4> SUFFICES ASSUME UnitsOf(t) = {u} PROVE FALSE OBVIOUS
      <4>1. counter = 1 BY <2>3, <1>1, <1>2, SingleStands
      <4> QED BY <4>1, <1>2
    <3>2. tx[t].state = "open" BY <2>3, <1>2
    <3>3. \A w \in UnitsOf(t) : UnitsOf(t) = {w} => w = u
      BY <2>3, <1>2
    <3> QED BY <3>1, <3>2, <3>3
  <2> QED BY <2>2, <2>3
<1>9. OpenIsHeld'
  <2>1. \A t : UnitsOf(t) \subseteq Numbers BY DEF UnitsOf
  <2>2. \A v \in Numbers : unit[v].verdict = "statusfailed" => unit'[v].verdict = "statusfailed"
    BY <1>1
  <2> QED BY <2>1, <2>2, <1>1 DEF OpenIsHeld
<1> QED BY <1>4, <1>5, <1>6, <1>7, <1>8, <1>9

\* commitTransaction(transactionStatus)
LEMMA CommitStatusInv ==
  ASSUME IInv, NEW u \in Numbers, CommitStatus(u)
  PROVE  IInv'
<1> USE DEF IInv
<1>1. Innermost(u) /\ Ends(u, "commitstatus") /\ UNCHANGED <<txs, units, running, faults>>
  BY DEF CommitStatus
<1>2. /\ \A v \in Numbers : v # u => unit'[v] = unit[v]
      /\ \A v \in Numbers : unit'[v].tx = unit[v].tx /\ unit'[v].factory = unit[v].factory
      /\ \A t : UnitsOf(t)' = UnitsOf(t)
      /\ u <= units /\ unit[u].tx \in Numbers /\ unit'[u].verdict = "commitstatus"
      /\ StatusCommits' = StatusCommits \cup {u}
      /\ unit' \in [Numbers -> [factory : Factories \cup {"none"}, tx : 0..MaxUnits,
                      verdict : Verdicts]]
  BY <1>1, EndsEffect
<1>3. StatusCommits' # {} BY <1>2
<1>4. local' = 0 /\ counter' = 0 /\ threw' = FALSE BY DEF CommitStatus, RemoveLocal
<1>5. /\ tx' \in [Numbers -> [home : Factories \cup {"none"},
                              state : {"none", "open", "committed", "rolledback"}]]
      /\ \A s \in Numbers : s # unit[u].tx => tx'[s] = tx[s]
  BY <1>2, CompleteEffect DEF CommitStatus
<1>6. TypeOK'
  <2>1. txs' \in 0..units' /\ units' \in 0..MaxUnits /\ local' \in 0..txs' /\ counter' \in Nat
    BY <1>1, <1>4 DEF TypeOK
  <2>2. running' \in BOOLEAN /\ threw' \in BOOLEAN /\ faults' \in 0..MaxFaults
    BY <1>1, <1>4 DEF TypeOK
  <2> QED BY <2>1, <2>2, <1>2, <1>5 DEF TypeOK
<1>7. Numbered'
  <2>1. unit[u].tx <= txs BY <1>2 DEF Numbered, TypeOK
  <2>2. \A t \in Numbers : t > txs => tx'[t].state = "none"
    <3> SUFFICES ASSUME NEW t \in Numbers, t > txs PROVE tx'[t].state = "none"
      OBVIOUS
    <3>1. t # unit[u].tx BY <2>1, <1>2 DEF TypeOK
    <3> QED BY <3>1, <1>5 DEF Numbered
  <2>3. \A v \in Numbers : v > units => v # u BY <1>2 DEF TypeOK
  <2>4. \A v \in Numbers : v > units => unit'[v].verdict = "none"
    BY <2>3, <1>2 DEF Numbered
  <2>5. \A v \in Numbers : v <= units => unit'[v].tx \in 1..txs
    BY <1>2 DEF Numbered
  <2> QED BY <2>2, <2>4, <2>5, <1>1, <1>4 DEF Numbered
<1>8. Counted' /\ Joined' /\ DecisionsKept'
  BY <1>3 DEF Counted, Joined, DecisionsKept
<1>9. OpenIsHeld' BY <1>3, <1>4 DEF OpenIsHeld
<1> QED BY <1>6, <1>7, <1>8, <1>9

\* commitTransaction(transactionStatus) throws: what it leaves in the thread-local is
\* accounted for by the verdict of its unit.
LEMMA CommitStatusFailsInv ==
  ASSUME IInv, NEW u \in Numbers, CommitStatusFails(u)
  PROVE  IInv'
<1> USE DEF IInv
<1>1. /\ Innermost(u) /\ Ends(u, "statusfailed") /\ UNCHANGED <<local, counter, threw, txs, units, running>>
      /\ faults' \in 0..MaxFaults
  BY DEF CommitStatusFails, CommitThrows, TypeOK
<1>2. /\ \A v \in Numbers : v # u => unit'[v] = unit[v]
      /\ \A v \in Numbers : unit'[v].tx = unit[v].tx /\ unit'[v].factory = unit[v].factory
      /\ \A t : UnitsOf(t)' = UnitsOf(t)
      /\ u <= units /\ unit[u].tx \in Numbers /\ unit'[u].verdict = "statusfailed"
      /\ u \in UnitsOf(unit[u].tx)
      /\ StatusCommits' = StatusCommits \cup {u}
      /\ unit' \in [Numbers -> [factory : Factories \cup {"none"}, tx : 0..MaxUnits,
                      verdict : Verdicts]]
  BY <1>1, EndsEffect
<1>3. StatusCommits' # {} BY <1>2
<1>5. /\ tx' \in [Numbers -> [home : Factories \cup {"none"},
                              state : {"none", "open", "committed", "rolledback"}]]
      /\ \A s \in Numbers : s # unit[u].tx => tx'[s] = tx[s]
  BY <1>2, CompleteEffect DEF CommitStatusFails, CommitThrows
<1>6. TypeOK'
  <2>1. txs' \in 0..units' /\ units' \in 0..MaxUnits /\ local' \in 0..txs' /\ counter' \in Nat
    BY <1>1 DEF TypeOK
  <2>2. running' \in BOOLEAN /\ threw' \in BOOLEAN /\ faults' \in 0..MaxFaults
    BY <1>1 DEF TypeOK
  <2> QED BY <2>1, <2>2, <1>2, <1>5 DEF TypeOK
<1>7. Numbered'
  <2>1. unit[u].tx <= txs BY <1>2 DEF Numbered, TypeOK
  <2>2. \A t \in Numbers : t > txs => tx'[t].state = "none"
    <3> SUFFICES ASSUME NEW t \in Numbers, t > txs PROVE tx'[t].state = "none"
      OBVIOUS
    <3>1. t # unit[u].tx BY <2>1, <1>2 DEF TypeOK
    <3> QED BY <3>1, <1>5 DEF Numbered
  <2>3. \A v \in Numbers : v > units => v # u BY <1>2 DEF TypeOK
  <2>4. \A v \in Numbers : v > units => unit'[v].verdict = "none"
    BY <2>3, <1>2 DEF Numbered
  <2>5. \A v \in Numbers : v <= units => unit'[v].tx \in 1..txs
    BY <1>2 DEF Numbered
  <2> QED BY <2>2, <2>4, <2>5, <1>1 DEF Numbered
<1>8. Counted' /\ Joined' /\ DecisionsKept'
  BY <1>3 DEF Counted, Joined, DecisionsKept
<1>9. OpenIsHeld'
  <2>1. \A v \in UnitsOf(local) : unit[v].verdict = "statusfailed" =>
          v \in UnitsOf(local)' /\ unit'[v].verdict = "statusfailed"
    BY <1>1, <1>2 DEF UnitsOf
  <2>2. local # 0 => \/ tx'[local].state = "open"
                     \/ \E v \in UnitsOf(local)' : unit'[v].verdict = "statusfailed"
    <3>1. CASE local = unit[u].tx
      <4>1. u \in UnitsOf(local)' BY <3>1, <1>1, <1>2 DEF UnitsOf
      <4> QED BY <4>1, <1>2
    <3>2. CASE local # unit[u].tx BY <3>2, <2>1, <1>1, <1>5 DEF OpenIsHeld, TypeOK
    <3> QED BY <3>1, <3>2
  <2> QED BY <2>2, <1>1, <1>3 DEF OpenIsHeld
<1> QED BY <1>6, <1>7, <1>8, <1>9

\* A unit begins, in a transaction of its own or in the one that is there.
LEMMA BeginInv ==
  ASSUME IInv, NEW f \in Factories, BeginTransaction(f)
  PROVE  IInv'
<1> USE DEF IInv
<1> DEFINE n == units + 1
<1>1. /\ n \in Numbers /\ units' = n /\ counter' = counter + 1 /\ running' = running
      /\ threw' = threw /\ faults' = faults /\ running
  BY DEF BeginTransaction, TypeOK
<1>m. PICK m \in Numbers : m = local'
  BY DEF BeginTransaction, TypeOK
<1>2. m \in 1..txs' /\ txs' \in 0..n /\ txs <= txs'
  BY <1>m DEF BeginTransaction, TypeOK
<1>3. unit' = [unit EXCEPT ![n] = [factory |-> f, tx |-> m, verdict |-> "open"]]
  BY <1>m DEF BeginTransaction
<1>4. /\ unit' \in [Numbers -> [factory : Factories \cup {"none"}, tx : 0..MaxUnits,
                      verdict : Verdicts]]
      /\ unit'[n] = [factory |-> f, tx |-> m, verdict |-> "open"]
      /\ \A v \in Numbers : v # n => unit'[v] = unit[v]
  BY <1>1, <1>2, <1>3 DEF TypeOK
<1>5. /\ tx' \in [Numbers -> [home : Factories \cup {"none"},
                              state : {"none", "open", "committed", "rolledback"}]]
      /\ \A t \in Numbers : (t # m \/ local # 0) => tx'[t] = tx[t]
      /\ local = 0 => tx'[m] = [home |-> f, state |-> "open"] /\ m = txs + 1 /\ txs' = txs + 1
      /\ local # 0 => m = local /\ txs' = txs
  <2>1. CASE local = 0
    <3>1. tx' = [tx EXCEPT ![txs + 1] = [home |-> f, state |-> "open"]]
          /\ m = txs + 1 /\ txs' = txs + 1
      BY <2>1, <1>m DEF BeginTransaction
    <3>2. [home |-> f, state |-> "open"] \in [home : Factories \cup {"none"},
                              state : {"none", "open", "committed", "rolledback"}]
      OBVIOUS
    <3>3. tx' \in [Numbers -> [home : Factories \cup {"none"},
                              state : {"none", "open", "committed", "rolledback"}]]
      BY <3>1, <3>2 DEF TypeOK
    <3>4. tx'[m] = [home |-> f, state |-> "open"] /\ \A t \in Numbers : t # m => tx'[t] = tx[t]
      BY <3>1, <1>2 DEF TypeOK
    <3> QED BY <2>1, <3>1, <3>3, <3>4
  <2>2. CASE local # 0
    BY <2>2, <1>m DEF BeginTransaction, TypeOK
  <2> QED BY <2>1, <2>2
<1>o. \A v \in Numbers : (v <= n <=> v <= units \/ v = n) /\ (v = n => v > units)
  BY DEF TypeOK
<1>6. \A t \in Numbers : UnitsOf(t)' = IF t = m THEN UnitsOf(t) \cup {n} ELSE UnitsOf(t)
  <2> SUFFICES ASSUME NEW t \in Numbers, NEW v \in Numbers
               PROVE  v \in UnitsOf(t)' <=> v \in UnitsOf(t) \/ (t = m /\ v = n)
    BY <1>1 DEF UnitsOf
  <2>1. v \in UnitsOf(t)' <=> v <= n /\ unit'[v].tx = t
    BY <1>1 DEF UnitsOf
  <2>2. CASE v = n
    <3>1. ~ (v <= units) BY <2>2, <1>o DEF TypeOK
    <3> QED BY <2>1, <2>2, <3>1, <1>o, <1>4 DEF UnitsOf
  <2>3. CASE v # n BY <2>1, <2>3, <1>o, <1>4 DEF UnitsOf
  <2> QED BY <2>2, <2>3
<1>7. \A t \in Numbers : n \notin UnitsOf(t) /\ UnitsOf(t) \subseteq Numbers
  BY DEF UnitsOf, TypeOK
<1>8. local = 0 => UnitsOf(m) = {}
  BY <1>5 DEF UnitsOf, TypeOK, Numbered
<1>9. StatusCommits' = StatusCommits
  <2>1. unit[n].verdict = "none" BY <1>1, <1>o DEF Numbered
  <2>2. unit'[n].verdict = "open" BY <1>4
  <2> QED BY <2>1, <2>2, <1>4 DEF StatusCommits
<1>10. TypeOK'
  <2>1. txs' \in 0..units' /\ units' \in 0..MaxUnits /\ local' \in 0..txs' /\ counter' \in Nat
    BY <1>1, <1>2, <1>m DEF TypeOK
  <2> QED BY <2>1, <1>1, <1>4, <1>5 DEF TypeOK
<1>11. Numbered'
  <2>1. \A t \in Numbers : t > txs' => tx'[t].state = "none"
    BY <1>2, <1>5 DEF TypeOK, Numbered
  <2>2. \A v \in Numbers : v > n => unit'[v].verdict = "none"
    BY <1>4 DEF TypeOK, Numbered
  <2>3. \A v \in Numbers : v <= n => unit'[v].tx \in 1..txs'
    <3> SUFFICES ASSUME NEW v \in Numbers, v <= n PROVE unit'[v].tx \in 1..txs'
      OBVIOUS
    <3>1. CASE v = n BY <3>1, <1>2, <1>4
    <3>2. CASE v # n
      <4>1. unit[v].tx \in 1..txs BY <3>2, <1>o DEF Numbered
      <4>2. unit'[v].tx = unit[v].tx BY <3>2, <1>4
      <4> QED BY <4>1, <4>2, <1>2 DEF TypeOK
    <3> QED BY <3>1, <3>2
  <2>4. counter' >= 1 /\ local' # 0 BY <1>1, <1>2, <1>m DEF TypeOK
  <2> QED BY <2>1, <2>2, <2>3, <2>4, <1>1 DEF Numbered
<1>12. Joined'
  <2> SUFFICES ASSUME StatusCommits = {}, NEW v \in Open' PROVE m # 0 /\ unit'[v].tx = m
    BY <1>m, <1>9 DEF Joined
  <2>1. CASE v = n BY <2>1, <1>2, <1>4
  <2>2. CASE v # n
    <3>1. v \in Open /\ unit'[v] = unit[v] BY <2>2, <1>4 DEF Open
    <3>2. local # 0 /\ unit[v].tx = local BY <3>1 DEF Joined
    <3> QED BY <3>1, <3>2, <1>5, <1>2
  <2> QED BY <2>1, <2>2
<1>13. Counted'
  <2> SUFFICES ASSUME StatusCommits = {} PROVE counter' = Cardinality(Standing(m)')
    BY <1>m, <1>9 DEF Counted
  <2>1. Standing(m)' = Standing(m) \cup {n}
    BY <1>2, <1>4, <1>6, <1>7 DEF Standing
  <2>2. n \notin Standing(m) BY <1>2, <1>7 DEF Standing
  <2>3. Cardinality(Standing(m) \cup {n}) = Cardinality(Standing(m)) + 1
    BY <2>2, Finite, FS_AddElement
  <2>4. CASE local # 0
    <3>1. counter = Cardinality(Standing(local)) BY <2>4 DEF Counted
    <3> QED BY <2>1, <2>3, <2>4, <3>1, <1>1, <1>5
  <2>5. CASE local = 0
    <3>1. Standing(m) = {} BY <2>5, <1>8 DEF Standing
    <3>2. Cardinality(Standing(m)) = 0 BY <3>1, FS_EmptySet
    <3>3. counter = 0 BY <2>5 DEF Numbered
    <3> QED BY <2>1, <2>3, <3>2, <3>3, <1>1
  <2> QED BY <2>4, <2>5
<1>14. \A t \in Numbers : \A v \in UnitsOf(t) : unit'[v] = unit[v]
  BY <1>4, <1>7
<1>15. DecisionsKept'
  <2> SUFFICES ASSUME StatusCommits = {}, NEW t \in Numbers
               PROVE  /\ \A w \in UnitsOf(t)' :
                           UnitsOf(t)' = {w} /\ unit'[w].factory = tx'[t].home =>
                             /\ unit'[w].verdict = "commit" => tx'[t].state = "committed"
                             /\ unit'[w].verdict = "rollback" => tx'[t].state = "rolledback"
                      /\ tx'[t].state = "committed" =>
                           \A w, v \in UnitsOf(t)' :
                             w # v => "rollback" \in {unit'[w].verdict, unit'[v].verdict}
    BY <1>9 DEF DecisionsKept
  <2>1. CASE t # m
    BY <2>1, <1>5, <1>6, <1>14 DEF DecisionsKept
  <2>2. CASE t = m
    <3>1. tx'[t].state = "open" BY <2>2, <1>2, <1>5, LocalOpen
    <3>2. \A w \in UnitsOf(t)' : UnitsOf(t)' = {w} => w = n
      BY <2>2, <1>6
    <3> QED BY <3>1, <3>2, <1>4
  <2> QED BY <2>1, <2>2
<1>16. OpenIsHeld'
  <2>1. \/ tx'[m].state = "open"
        \/ \E v \in UnitsOf(m)' : unit'[v].verdict = "statusfailed"
    <3>1. CASE local = 0 BY <3>1, <1>5
    <3>2. CASE local # 0 /\ tx[local].state = "open" BY <3>2, <1>2, <1>5
    <3>3. CASE local # 0 /\ \E v \in UnitsOf(local) : unit[v].verdict = "statusfailed"
      BY <3>3, <1>5, <1>6, <1>14
    <3> QED BY <3>1, <3>2, <3>3 DEF OpenIsHeld
  <2>2. ASSUME NEW t \in Numbers, tx'[t].state = "open", t # m
        PROVE  \/ Listed # {} /\ First # tx'[t].home
               \/ \E v \in UnitsOf(t)' : unit'[v].factory # tx'[t].home
               \/ StatusCommits' # {}
    <3>1. tx'[t] = tx[t] /\ t # local BY <2>2, <1>2, <1>5
    <3> QED BY <2>2, <3>1, <1>6, <1>9, <1>14 DEF OpenIsHeld
  <2> QED BY <2>1, <2>2, <1>1, <1>m DEF OpenIsHeld
<1> QED BY <1>10, <1>11, <1>12, <1>13, <1>15, <1>16

-----------------------------------------------------------------------------
(* Requests.                                                               *)

\* The units that are open when a request ends have no verdict.
LEMMA AbandonedEffect ==
  ASSUME IInv, Abandoned, UNCHANGED <<units, txs>>
  PROVE  /\ \A v \in Numbers : unit'[v].tx = unit[v].tx /\ unit'[v].factory = unit[v].factory
         /\ \A v \in Numbers : unit'[v].verdict =
              IF unit[v].verdict = "open" THEN "none" ELSE unit[v].verdict
         /\ \A t : UnitsOf(t)' = UnitsOf(t) /\ Standing(t)' = Standing(t)
         /\ StatusCommits' = StatusCommits
         /\ Open' = {}
         /\ unit' \in [Numbers -> [factory : Factories \cup {"none"}, tx : 0..MaxUnits,
                         verdict : Verdicts]]
<1>1. unit \in [Numbers -> [factory : Factories \cup {"none"}, tx : 0..MaxUnits,
                         verdict : Verdicts]]
  BY DEF IInv, TypeOK
<1>2. \A v \in Numbers : unit'[v] =
        IF unit[v].verdict = "open" THEN [unit[v] EXCEPT !.verdict = "none"] ELSE unit[v]
  BY DEF Abandoned, Open
<1>3. unit' \in [Numbers -> [factory : Factories \cup {"none"}, tx : 0..MaxUnits,
                         verdict : Verdicts]]
  BY <1>1 DEF Abandoned
<1>4. \A v \in Numbers : unit'[v].tx = unit[v].tx /\ unit'[v].factory = unit[v].factory
  BY <1>1, <1>2
<1>5. \A v \in Numbers : unit'[v].verdict =
        IF unit[v].verdict = "open" THEN "none" ELSE unit[v].verdict
  BY <1>1, <1>2
<1>6. \A t : UnitsOf(t)' = UnitsOf(t) BY <1>4 DEF UnitsOf
<1>7. \A t : Standing(t)' = Standing(t) BY <1>5, <1>6 DEF Standing, UnitsOf
<1>8. StatusCommits' = StatusCommits BY <1>5 DEF StatusCommits
<1>9. Open' = {} BY <1>5 DEF Open
<1> QED BY <1>3, <1>4, <1>5, <1>6, <1>7, <1>8, <1>9

\* The verdicts the others have stay what they are.
LEMMA AbandonedKeeps ==
  ASSUME IInv, Abandoned, UNCHANGED <<units, txs, tx>>
  PROVE  DecisionsKept'
<1>2. /\ \A v \in Numbers : unit'[v].factory = unit[v].factory
      /\ \A v \in Numbers : unit'[v].verdict =
           IF unit[v].verdict = "open" THEN "none" ELSE unit[v].verdict
      /\ \A t : UnitsOf(t)' = UnitsOf(t)
      /\ StatusCommits' = StatusCommits
  BY AbandonedEffect
<1> SUFFICES ASSUME StatusCommits = {}, NEW t \in Numbers
             PROVE  /\ \A w \in UnitsOf(t) :
                         UnitsOf(t) = {w} /\ unit'[w].factory = tx[t].home =>
                           /\ unit'[w].verdict = "commit" => tx[t].state = "committed"
                           /\ unit'[w].verdict = "rollback" => tx[t].state = "rolledback"
                    /\ tx[t].state = "committed" =>
                         \A w, v \in UnitsOf(t) :
                           w # v => "rollback" \in {unit'[w].verdict, unit'[v].verdict}
  BY <1>2 DEF DecisionsKept
<1>1. \A w \in UnitsOf(t) : /\ unit'[w].factory = unit[w].factory
                            /\ unit'[w].verdict = "commit" => unit[w].verdict = "commit"
                            /\ unit'[w].verdict = "rollback" <=> unit[w].verdict = "rollback"
  BY <1>2 DEF UnitsOf
<1> QED BY <1>1 DEF IInv, DecisionsKept

\* A commit that threw is not forgotten.
LEMMA AbandonedKeepsFailed ==
  ASSUME IInv, Abandoned, UNCHANGED <<units, txs>>, NEW t, NEW v \in UnitsOf(t),
         unit[v].verdict = "statusfailed"
  PROVE  v \in UnitsOf(t)' /\ unit'[v].verdict = "statusfailed"
BY AbandonedEffect DEF UnitsOf

\* The request ends well, and what it left behind is rolled back.
LEMMA PostHandleInv == ASSUME IInv, PostHandle PROVE IInv'
<1> USE DEF IInv
<1>1. Abandoned /\ running' = FALSE /\ UNCHANGED <<txs, units, faults>>
  BY DEF PostHandle
<1>2. /\ \A v \in Numbers : unit'[v].tx = unit[v].tx /\ unit'[v].factory = unit[v].factory
      /\ \A v \in Numbers : unit'[v].verdict =
           IF unit[v].verdict = "open" THEN "none" ELSE unit[v].verdict
      /\ \A t : UnitsOf(t)' = UnitsOf(t) /\ Standing(t)' = Standing(t)
      /\ StatusCommits' = StatusCommits /\ Open' = {}
      /\ unit' \in [Numbers -> [factory : Factories \cup {"none"}, tx : 0..MaxUnits,
                      verdict : Verdicts]]
  BY <1>1, AbandonedEffect
<1>3. \A t : UnitsOf(t) \subseteq Numbers BY DEF UnitsOf
<1>4. Joined' BY <1>2 DEF Joined
<1>5. CASE ~(local # 0 /\ Listed # {})
  <2>1. UNCHANGED <<local, counter, tx, threw>> BY <1>5 DEF PostHandle
  <2>2. TypeOK' BY <2>1, <1>1, <1>2 DEF TypeOK
  <2>3. Numbered' BY <2>1, <1>1, <1>2 DEF Numbered
  <2>4. Counted' BY <2>1, <1>2 DEF Counted
  <2>5. DecisionsKept' BY <2>1, <1>1, AbandonedKeeps
  <2>6. OpenIsHeld' BY <2>1, <1>2, <1>3, <1>5, AbandonedKeepsFailed DEF OpenIsHeld
  <2> QED BY <1>4, <2>2, <2>3, <2>4, <2>5, <2>6
<1>6. CASE local # 0 /\ Listed # {}
  <2>1. Complete(local, First, "rolledback") /\ local' = 0 /\ counter' = 0 /\ threw' = FALSE
    BY <1>6 DEF PostHandle, RemoveLocal
  <2>2. local \in Numbers /\ (StatusCommits = {} => tx[local].state = "open")
    BY <1>6, LocalOpen DEF TypeOK
  <2>3. /\ tx' \in [Numbers -> [home : Factories \cup {"none"},
                                state : {"none", "open", "committed", "rolledback"}]]
        /\ \A s \in Numbers : s # local => tx'[s] = tx[s]
        /\ \A s \in Numbers : tx'[s].home = tx[s].home
        /\ \/ tx'[local].state = "rolledback"
           \/ /\ First # tx[local].home \/ tx[local].state # "open"
              /\ tx'[local].state = tx[local].state
    BY <2>1, <2>2, CompleteEffect
  <2>4. TypeOK'
    <3>1. txs' \in 0..units' /\ units' \in 0..MaxUnits /\ local' \in 0..txs' /\ counter' \in Nat
      BY <1>1, <2>1 DEF TypeOK
    <3>2. running' \in BOOLEAN /\ threw' \in BOOLEAN /\ faults' \in 0..MaxFaults
      BY <1>1, <2>1 DEF TypeOK
    <3> QED BY <3>1, <3>2, <1>2, <2>3 DEF TypeOK
  <2>5. Numbered'
    <3>1. \A t \in Numbers : t > txs => t # local BY <1>6 DEF TypeOK
    <3>2. \A t \in Numbers : t > txs => tx'[t].state = "none" BY <3>1, <2>3 DEF Numbered
    <3> QED BY <3>2, <1>1, <1>2, <2>1 DEF Numbered
  <2>6. Counted' BY <2>1 DEF Counted
  <2>7. DecisionsKept'
    <3> SUFFICES ASSUME StatusCommits = {}, NEW t \in Numbers
                 PROVE  /\ \A w \in UnitsOf(t) :
                             UnitsOf(t) = {w} /\ unit'[w].factory = tx'[t].home =>
                               /\ unit'[w].verdict = "commit" => tx'[t].state = "committed"
                               /\ unit'[w].verdict = "rollback" => tx'[t].state = "rolledback"
                        /\ tx'[t].state = "committed" =>
                             \A w, v \in UnitsOf(t) :
                               w # v => "rollback" \in {unit'[w].verdict, unit'[v].verdict}
      BY <1>2 DEF DecisionsKept
    <3>1. \A w \in UnitsOf(t) : /\ unit'[w].factory = unit[w].factory
                                /\ unit'[w].verdict = "commit" => unit[w].verdict = "commit"
                                /\ unit'[w].verdict = "rollback" <=> unit[w].verdict = "rollback"
      BY <1>2, <1>3
    <3>2. tx'[t].home = tx[t].home BY <2>3
    <3>3. CASE t # local
      <4>1. tx'[t] = tx[t] BY <3>3, <2>3
      <4> QED BY <4>1, <3>1 DEF DecisionsKept
    <3>4. CASE t = local
      <4>1. tx[t].state = "open" BY <3>4, <2>2
      <4>2. \A w \in UnitsOf(t) :
              UnitsOf(t) = {w} /\ unit[w].factory = tx[t].home =>
                unit[w].verdict # "commit" /\ unit[w].verdict # "rollback"
        BY <4>1 DEF DecisionsKept
      <4>3. tx'[t].state # "committed" BY <3>4, <4>1, <2>3
      <4> QED BY <4>2, <4>3, <3>1, <3>2
    <3> QED BY <3>3, <3>4
  <2>8. OpenIsHeld'
    <3> SUFFICES ASSUME NEW t \in Numbers, tx'[t].state = "open"
                 PROVE  \/ Listed # {} /\ First # tx'[t].home
                        \/ \E v \in UnitsOf(t) : unit'[v].factory # tx'[t].home
                        \/ StatusCommits # {}
      BY <1>2, <2>1 DEF OpenIsHeld
    <3>1. CASE t = local BY <3>1, <1>6, <2>2, <2>3
    <3>2. CASE t # local
      <4>1. tx'[t] = tx[t] BY <3>2, <2>3
      <4> QED BY <3>2, <4>1, <1>2, <1>3 DEF OpenIsHeld
    <3> QED BY <3>1, <3>2
  <2> QED BY <1>4, <2>4, <2>5, <2>6, <2>7, <2>8
<1> QED BY <1>5, <1>6

\* A step that leaves transactions and units alone.
LEMMA SameUnits ==
  ASSUME IInv, UNCHANGED <<local, counter, txs, tx, units, unit, threw, faults>>,
         running' \in {running, TRUE}
  PROVE  IInv'
<1>1. TypeOK' BY DEF IInv, TypeOK
<1>2. Numbered' BY DEF IInv, Numbered
<1>3. /\ \A t : UnitsOf(t)' = UnitsOf(t) /\ Standing(t)' = Standing(t)
      /\ StatusCommits' = StatusCommits /\ Open' = Open
  BY DEF UnitsOf, Standing, StatusCommits, Open
<1>4. Counted' BY <1>3 DEF IInv, Counted
<1>5. Joined' BY <1>3 DEF IInv, Joined
<1>6. DecisionsKept' BY <1>3 DEF IInv, DecisionsKept
<1>7. OpenIsHeld' BY <1>3 DEF IInv, OpenIsHeld
<1> QED BY <1>1, <1>2, <1>4, <1>5, <1>6, <1>7 DEF IInv

\* A request begins, or throws.
LEMMA RequestInv == ASSUME IInv, Request \/ Throw PROVE IInv'
<1> USE DEF IInv
<1>1. CASE Request
  <2>1. UNCHANGED <<local, counter, txs, tx, units, unit, threw, faults>> /\ running' = TRUE
    BY <1>1 DEF Request
  <2> QED BY <2>1, SameUnits
<1>2. CASE Throw
  <2>1. /\ Abandoned /\ running' = FALSE /\ threw' = (local # 0)
        /\ UNCHANGED <<local, counter, txs, tx, units, faults>>
    BY <1>2 DEF Throw
  <2>2. /\ \A v \in Numbers : unit'[v].tx = unit[v].tx /\ unit'[v].factory = unit[v].factory
        /\ \A v \in Numbers : unit'[v].verdict =
             IF unit[v].verdict = "open" THEN "none" ELSE unit[v].verdict
        /\ \A t : UnitsOf(t)' = UnitsOf(t) /\ Standing(t)' = Standing(t)
        /\ StatusCommits' = StatusCommits /\ Open' = {}
        /\ unit' \in [Numbers -> [factory : Factories \cup {"none"}, tx : 0..MaxUnits,
                        verdict : Verdicts]]
    BY <2>1, AbandonedEffect
  <2>3. \A t : UnitsOf(t) \subseteq Numbers BY DEF UnitsOf
  <2>4. TypeOK'
    <3>1. threw' \in BOOLEAN BY <2>1, Zenon
    <3> QED BY <3>1, <2>1, <2>2 DEF TypeOK
  <2>5. Numbered' BY <2>1, <2>2 DEF Numbered
  <2>6. Counted' /\ Joined' BY <2>1, <2>2 DEF Counted, Joined
  <2>7. DecisionsKept' BY <2>1, AbandonedKeeps
  <2>8. OpenIsHeld'
    <3>1. local # 0 => threw' BY <2>1, Zenon
    <3> QED BY <3>1, <2>1, <2>2, <2>3, AbandonedKeepsFailed DEF OpenIsHeld
  <2> QED BY <2>4, <2>5, <2>6, <2>7, <2>8
<1> QED BY <1>1, <1>2

-----------------------------------------------------------------------------
(* Theorems.                                                               *)

\* The invariant is inductive.
THEOREM Invariance == Spec => []IInv
<1>1. Init => IInv
  <2> SUFFICES ASSUME Init PROVE IInv OBVIOUS
  <2>1. TypeOK
    <3>1. tx \in [Numbers -> [home : Factories \cup {"none"},
                              state : {"none", "open", "committed", "rolledback"}]]
      BY DEF Init
    <3>2. unit \in [Numbers -> [factory : Factories \cup {"none"}, tx : 0..MaxUnits,
                      verdict : Verdicts]]
      BY DEF Init
    <3>3. txs \in 0..units /\ units \in 0..MaxUnits /\ local \in 0..txs /\ counter \in Nat
      BY DEF Init
    <3>4. running \in BOOLEAN /\ threw \in BOOLEAN
      BY DEF Init
    <3>5. faults \in 0..MaxFaults BY DEF Init
    <3> QED BY <3>1, <3>2, <3>3, <3>4, <3>5 DEF TypeOK
  <2>2. Open = {} /\ StatusCommits = {} BY DEF Init, Open, StatusCommits
  <2>3. \A t \in Numbers : UnitsOf(t) = {} BY DEF Init, UnitsOf
  <2>4. Numbered BY DEF Init, Numbered
  <2>5. Counted /\ Joined BY <2>2 DEF Init, Counted, Joined
  <2>6. DecisionsKept /\ OpenIsHeld BY <2>3 DEF Init, DecisionsKept, OpenIsHeld
  <2> QED BY <2>1, <2>4, <2>5, <2>6 DEF IInv
<1>2. ASSUME IInv, [Next]_vars PROVE IInv'
  <2>1. CASE UNCHANGED vars
    BY <1>2, <2>1, SameUnits DEF vars
  <2>2. CASE Request \/ Throw BY <1>2, <2>2, RequestInv
  <2>3. CASE PostHandle BY <1>2, <2>3, PostHandleInv
  <2>4. ASSUME NEW f \in Factories, BeginTransaction(f) PROVE IInv'
    BY <1>2, <2>4, BeginInv
  <2>5. ASSUME NEW u \in Numbers, CommitTransaction(u) PROVE IInv'
    <3>1. Innermost(u) /\ Ends(u, "commit") /\ UNCHANGED <<txs, units, running, faults>>
      BY <2>5 DEF CommitTransaction
    <3>2. faults' \in 0..MaxFaults /\ counter \in Nat BY <1>2, <3>1 DEF IInv, TypeOK
    <3>3. CASE local # 0 /\ Outermost
      <4>1. Complete(local, unit[u].factory, "committed") /\ RemoveLocal
        BY <2>5, <3>3 DEF CommitTransaction
      <4> QED BY <1>2, <3>1, <3>2, <3>3, <4>1, EndsAndCompletes DEF Outermost
    <3>4. CASE ~(local # 0 /\ Outermost)
      <4>1. UNCHANGED <<local, counter, tx, threw>> BY <2>5, <3>4 DEF CommitTransaction
      <4>2. local # 0 => counter >= 2 BY <3>2, <3>4 DEF Outermost
      <4> QED BY <1>2, <3>1, <4>1, <4>2, EndsOnly
    <3> QED BY <3>3, <3>4
  <2>6. ASSUME NEW u \in Numbers, CommitFails(u) PROVE IInv'
    <3>1. /\ Innermost(u) /\ Ends(u, "failed") /\ UNCHANGED <<txs, units, running>> /\ RemoveLocal
          /\ local # 0 /\ counter < 2 /\ faults' = faults + 1 /\ faults < MaxFaults
      BY <2>6 DEF CommitFails, CommitThrows, Outermost
    <3>2. PICK outcome \in {"committed", "rolledback"} : Complete(local, unit[u].factory, outcome)
      BY <2>6 DEF CommitFails, CommitThrows
    <3>3. faults' \in 0..MaxFaults BY <1>2, <3>1 DEF IInv, TypeOK
    <3> QED BY <1>2, <3>1, <3>2, <3>3, EndsAndCompletes
  <2>7. ASSUME NEW u \in Numbers, CommitStatus(u) PROVE IInv'
    BY <1>2, <2>7, CommitStatusInv
  <2>9. ASSUME NEW u \in Numbers, CommitStatusFails(u) PROVE IInv'
    BY <1>2, <2>9, CommitStatusFailsInv
  <2>8. ASSUME NEW u \in Numbers, RollbackTransaction(u) PROVE IInv'
    <3>1. Innermost(u) /\ Ends(u, "rollback") /\ UNCHANGED <<txs, units, running, faults>>
      BY <2>8 DEF RollbackTransaction
    <3>2. faults' \in 0..MaxFaults BY <1>2, <3>1 DEF IInv, TypeOK
    <3>3. CASE local # 0 /\ counter = 1
      <4>1. Complete(local, unit[u].factory, "rolledback") /\ RemoveLocal
        BY <2>8, <3>3 DEF RollbackTransaction
      <4> QED BY <1>2, <3>1, <3>2, <3>3, <4>1, EndsAndCompletes
    <3>4. CASE ~(local # 0 /\ counter = 1)
      <4>1. /\ UNCHANGED <<local, tx, threw>>
            /\ counter' = IF local = 0 THEN counter ELSE counter - 1
        BY <2>8, <3>4 DEF RollbackTransaction
      <4> QED BY <1>2, <3>1, <3>4, <4>1, EndsOnly
    <3> QED BY <3>3, <3>4
  <2> QED BY <1>2, <2>1, <2>2, <2>3, <2>4, <2>5, <2>6, <2>7, <2>8, <2>9 DEF Next
<1> QED BY <1>1, <1>2, PTL DEF Spec

\* The types of the state, for every set of factories.
THEOREM TypeCorrect == Spec => []TypeOK
<1>1. IInv => TypeOK BY DEF IInv
<1> QED BY <1>1, Invariance, PTL

\* What becomes of the verdicts of nested units (MapperFactory.java:152-192).
THEOREM DecisionsKeptHolds == Spec => []DecisionsKept
<1>1. IInv => DecisionsKept BY DEF IInv
<1> QED BY <1>1, Invariance, PTL

\* Where an open transaction may be (MapperFactory.java:65-70, 152-203).
THEOREM OpenIsHeldHolds == Spec => []OpenIsHeld
<1>1. IInv => OpenIsHeld BY DEF IInv
<1> QED BY <1>1, Invariance, PTL
=============================================================================

----------------------------- MODULE LeaseTable -----------------------------
(***************************************************************************)
(* What the lock scripts of StringRedisTemplateEX promise: a table of      *)
(* leases.  A holder gets a set of keys at once and only when all of them  *)
(* are free, gives back only keys leased to it, and any lease may lapse.   *)
(***************************************************************************)
CONSTANTS
  Keys,     \* what is leased
  Holders,  \* who may hold a lease
  Free      \* the entry of a key that is not leased

VARIABLE lease  \* the holder of each key, or Free

Init == lease = [k \in Keys |-> Free]

Grant(h, K) ==
  /\ \A k \in K : lease[k] = Free
  /\ lease' = [k \in Keys |-> IF k \in K THEN h ELSE lease[k]]

Return(h, K) ==
  lease' = [k \in Keys |-> IF k \in K /\ lease[k] = h THEN Free ELSE lease[k]]

Lapse(k) ==
  /\ lease[k] # Free
  /\ lease' = [lease EXCEPT ![k] = Free]

Next ==
  \/ \E h \in Holders, K \in SUBSET Keys : Grant(h, K) \/ Return(h, K)
  \/ \E k \in Keys : Lapse(k)

Spec == Init /\ [][Next]_lease
=============================================================================

------------------------- MODULE MCServiceConsumer --------------------------
(* Job j1 has two tasks and three delays, of which one overflows and one   *)
(* is void; j2 goes through delayedControlQueue, has two tasks and two     *)
(* delays, of which the second cannot be read, and its second task lists   *)
(* the statuses that count as success.                                     *)
EXTENDS ServiceConsumer

CONSTANTS j1, j2, w1, w2, c1

MCTasksOf == [j \in Jobs |-> {1, 2}]

MCDelays == [j \in Jobs |->
  IF j = j1 THEN <<"wait", "overflow", "void">> ELSE <<"wait", "malformed">>]

MCListed == {<<j2, 2>>}
=============================================================================

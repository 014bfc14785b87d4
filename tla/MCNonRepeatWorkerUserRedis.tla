--------------------- MODULE MCNonRepeatWorkerUserRedis ---------------------
(* Two nodes with a thread and a Task object each.                         *)
(* n1 does not retry, n2 does.                                             *)
EXTENDS NonRepeatWorkerUserRedis

CONSTANTS n1, n2, d1, d2, w1, w2, o1, o2

MCHome == [x \in Threads \cup Objects |-> IF x \in {w1, o1} THEN n1 ELSE n2]

MCMaxRetryTimes == [n \in Nodes |-> IF n = n1 THEN 0 ELSE 2]
=============================================================================

--------------------------- MODULE MCRedisEhCache ---------------------------
(* The record is changed and read on n1; n2 hears of the changes, and      *)
(* refreshes ahead.  Version 1 is a record that does not exist.            *)
EXTENDS RedisEhCache

CONSTANTS n1, n2, r1

MCHome == [r \in Readers |-> n1]
=============================================================================

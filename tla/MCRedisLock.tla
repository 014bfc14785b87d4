---------------------------- MODULE MCRedisLock ----------------------------
(* Three lock objects over two keys: la and lc take both, lb takes one;    *)
(* la and lb were built in the same millisecond.                           *)
EXTENDS RedisLock, TLC

CONSTANTS la, lb, lc, a, b, t1, t2

MCLocks == {la, lb, lc}
MCKeys == {a, b}
MCTokens == {t1, t2}
MCKeysOf == la :> {a, b} @@ lb :> {a} @@ lc :> {b, a}
MCTokenOf == la :> t1 @@ lb :> t1 @@ lc :> t2
=============================================================================

---------------------------- MODULE MCCacheServer ----------------------------
(* CacheServer for TLC: two clients that save the same key or two keys,    *)
(* one of them with a restore key; and for the shared directory a daemon   *)
(* and a local run.                                                        *)
EXTENDS CacheServer

CONSTANTS daemon, run, c1, c2, k1, k2

OneHome == [c \in Client |-> daemon]
TwoHomes == [c \in Client |-> IF c = c1 THEN daemon ELSE run]

SameOrOther == {[c \in Client |-> k1], [c \in Client |-> IF c = c1 THEN k1 ELSE k2]}
=============================================================================

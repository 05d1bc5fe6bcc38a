----------------------------- MODULE MCCacheNode -----------------------------
(* Instances of CacheNode for TLC.                                         *)
EXTENDS CacheNode

CONSTANTS c1, c2, c3

Callers == {c1, c2, c3}

=============================================================================

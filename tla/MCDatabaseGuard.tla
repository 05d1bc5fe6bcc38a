--------------------------- MODULE MCDatabaseGuard ---------------------------
(* Instances of DatabaseGuard for TLC.                                     *)
EXTENDS DatabaseGuard

CONSTANTS c1, c2, c3

Callers == {c1, c2, c3}

=============================================================================

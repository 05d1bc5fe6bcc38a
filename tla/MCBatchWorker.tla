---------------------------- MODULE MCBatchWorker ----------------------------
(* Instances of BatchWorker for TLC.                                       *)
EXTENDS BatchWorker

Three == 1..3
Two == 1..2
Middle == {2}
Outer == {1, 3}
Nobody == {}

=============================================================================

-------------------------- MODULE MCQueuePrograms --------------------------
(***************************************************************************)
(* Instances of QueuePrograms, and so of LockBasedQueue, for TLC.          *)
(***************************************************************************)
EXTENDS QueuePrograms
MCValues == 0..3
=============================================================================

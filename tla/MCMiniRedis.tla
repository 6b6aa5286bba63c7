---------------------------- MODULE MCMiniRedis -----------------------------
(***************************************************************************)
(* An instance of MiniRedis for TLC: one process of client.rs with its two *)
(* tasks, one of another program.                                          *)
(***************************************************************************)
EXTENDS MiniRedis
CONSTANTS p1, t1, t2
MCTasks == [p \in {p1} |-> <<t1, t2>>]
=============================================================================

---------------------------- MODULE MCThreadPool ---------------------------
(***************************************************************************)
(* Instance of ThreadPool for TLC.                                         *)
(***************************************************************************)
EXTENDS ThreadPool
=============================================================================

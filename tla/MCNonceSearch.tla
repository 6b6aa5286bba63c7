---------------------------- MODULE MCNonceSearch ---------------------------
(***************************************************************************)
(* Instances of NonceSearch and Sha256Test for TLC: a process runs main or *)
(* test_sha.                                                               *)
(***************************************************************************)
EXTENDS NonceSearch, Sha256Test

MCLengths == 0..130
MCLines ==
  {Append(message, 10) : message \in {<<>>, Abc, AbcdToNopq, AbcdefghToStu}} \cup {<<>>, Abc}

\* main is not run in a process that runs test_sha.
MainNotRun ==
  /\ good = Nonces
  /\ cnt = [i \in Threads |-> i] /\ src = [i \in Threads |-> i]
  /\ pc = [i \in Threads |-> "search"]
  /\ holder = None /\ poisoned = FALSE
  /\ channel = <<>> /\ main = "exit" /\ target = None
TestNotRun ==
  /\ stage = "off" /\ input = <<>> /\ rest = <<>>
  /\ state = InitialState /\ w = <<>> /\ s = InitialState /\ round = 0

ProgramSpec ==
  /\ (Init /\ TestNotRun) \/ (MainNotRun /\ TestInit)
  /\ [][(Next /\ UNCHANGED testVars) \/ (TestNext /\ UNCHANGED vars)]_<<vars, testVars>>
  /\ WF_vars(Recv \/ Return \/ Exit)
  /\ \A i \in Threads : WF_vars(Thread(i))
=============================================================================

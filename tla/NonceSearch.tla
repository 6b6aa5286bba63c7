----------------------------- MODULE NonceSearch ----------------------------
(***************************************************************************)
(* SHA256/src/main.rs, main: four threads digest the nonces of their own   *)
(* residue class in turn, the first to find a digest that check_zero       *)
(* accepts sends it under a mutex, main prints the first it receives and   *)
(* ends the process, the others in the middle of whatever they do.         *)
(***************************************************************************)
EXTENDS Sha256Digest

CONSTANTS
  Workers,    \* how many threads (4 in the code)
  MaxNonce,   \* bound on the nonces: no nonce above it is accepted
  Lengths,    \* the lengths of data for which the padding is compared
  None

Threads == 0..(Workers - 1)
Nonces == 0..MaxNonce     \* counted from 0xd72f345a
ASSUME SearchBounds == Workers \in Nat \ {0} /\ MaxNonce \in Nat /\ MaxNonce >= Workers
ASSUME NoneIsNoNonce == None \notin Nonces
ASSUME DigestLengths == Lengths \subseteq Nat /\ 16 \in Lengths

VARIABLES
  good,        \* the nonces whose digest check_zero accepts
  cnt, src,    \* of each thread
  pc,          \* where it is
  holder, poisoned,   \* the mutex of the sender
  channel,     \* what has been sent and not received
  main,        \* "recv", "print", "return" (the receiver is gone) or "exit"
  target

vars == <<good, cnt, src, pc, holder, poisoned, channel, main, target>>

Init ==
  /\ good \in (SUBSET Nonces) \ {{}}
  /\ cnt = [i \in Threads |-> i] /\ src = [i \in Threads |-> i]
  /\ pc = [i \in Threads |-> "search"]
  /\ holder = None /\ poisoned = FALSE
  /\ channel = <<>> /\ main = "recv" /\ target = None

Runs(i, from) == main # "exit" /\ pc[i] = from

\* The step of another number of threads.
SearchShortStep(i) ==
  /\ Runs(i, "search")
  /\ IF src[i] \in good
     THEN pc' = [pc EXCEPT ![i] = "lock"] /\ UNCHANGED <<cnt, src>>
     ELSE /\ cnt[i] <= MaxNonce
          /\ src' = [src EXCEPT ![i] = cnt[i]]
          /\ cnt' = [cnt EXCEPT ![i] = @ + Workers - 1]
          /\ UNCHANGED pc
  /\ UNCHANGED <<good, holder, poisoned, channel, main, target>>

\* One turn of the loop: the first nonce of the class is digested twice.
\* A thread that has passed MaxNonce goes on for ever and is not followed further.
Search(i) ==
  /\ Runs(i, "search")
  /\ IF src[i] \in good
     THEN pc' = [pc EXCEPT ![i] = "lock"] /\ UNCHANGED <<cnt, src>>
     ELSE /\ cnt[i] <= MaxNonce
          /\ src' = [src EXCEPT ![i] = cnt[i]]
          /\ cnt' = [cnt EXCEPT ![i] = @ + Workers]
          /\ UNCHANGED pc
  /\ UNCHANGED <<good, holder, poisoned, channel, main, target>>

\* No mutex around the sender.
LockNothing(i) ==
  /\ Runs(i, "lock")
  /\ pc' = [pc EXCEPT ![i] = "send"] /\ holder' = i
  /\ UNCHANGED <<good, cnt, src, poisoned, channel, main, target>>

\* s.lock().unwrap() panics if another thread has panicked with the mutex.
Lock(i) ==
  /\ Runs(i, "lock") /\ holder = None
  /\ IF poisoned THEN pc' = [pc EXCEPT ![i] = "panicked"] /\ UNCHANGED holder
     ELSE pc' = [pc EXCEPT ![i] = "send"] /\ holder' = i
  /\ UNCHANGED <<good, cnt, src, poisoned, channel, main, target>>

\* send(..).unwrap() panics once the receiver is gone; the guard goes either way.
Send(i) ==
  /\ Runs(i, "send")
  /\ IF main = "return"
     THEN pc' = [pc EXCEPT ![i] = "panicked"] /\ poisoned' = TRUE /\ UNCHANGED channel
     ELSE /\ channel' = Append(channel, src[i])
          /\ pc' = [pc EXCEPT ![i] = "done"] /\ UNCHANGED poisoned
  /\ holder' = None
  /\ UNCHANGED <<good, cnt, src, main, target>>

\* main joins the threads first.
RecvAfterJoin ==
  /\ main = "recv" /\ channel # <<>> /\ \A i \in Threads : pc[i] \in {"done", "panicked"}
  /\ target' = Head(channel) /\ channel' = Tail(channel)
  /\ main' = "print"
  /\ UNCHANGED <<good, cnt, src, pc, holder, poisoned>>

Recv ==
  /\ main = "recv" /\ channel # <<>>
  /\ target' = Head(channel) /\ channel' = Tail(channel)
  /\ main' = "print"
  /\ UNCHANGED <<good, cnt, src, pc, holder, poisoned>>

\* main digests the target again, prints it, drops the receiver and returns.
Return ==
  /\ main = "print" /\ main' = "return"
  /\ UNCHANGED <<good, cnt, src, pc, holder, poisoned, channel, target>>

Exit ==
  /\ main = "return" /\ main' = "exit"
  /\ UNCHANGED <<good, cnt, src, pc, holder, poisoned, channel, target>>

Exited == main = "exit" /\ UNCHANGED vars

Thread(i) == Search(i) \/ Lock(i) \/ Send(i)
Next == (\E i \in Threads : Thread(i)) \/ Recv \/ Return \/ Exit \/ Exited

Spec == Init /\ [][Next]_vars /\ WF_vars(Recv \/ Return \/ Exit)
             /\ \A i \in Threads : WF_vars(Thread(i))
-----------------------------------------------------------------------------
\* Types; the mutex is held to send, and poisoned only when main has its result.
TypeOK ==
  /\ cnt \in [Threads -> 0..(MaxNonce + Workers)] /\ src \in [Threads -> Nonces]
  /\ pc \in [Threads -> {"search", "lock", "send", "done", "panicked"}]
  /\ \A i \in Threads : pc[i] = "send" <=> holder = i
  /\ holder \in Threads \cup {None}
  /\ channel \in Seq(Nonces) /\ target \in Nonces \cup {None}
  /\ main \in {"recv", "print", "return", "exit"}
  /\ poisoned \in BOOLEAN
  /\ (poisoned \/ \E i \in Threads : pc[i] = "panicked") => main \in {"return", "exit"}

\* What a thread sends is the least nonce of its class that is accepted: the classes
\* share no nonce and none is passed over, and main prints one of these.
LeastOfItsClass ==
  /\ \A i \in Threads : pc[i] # "search" =>
       src[i] \in good /\ \A n \in good : n % Workers = i => src[i] <= n
  /\ target # None =>
       target \in good /\ \A n \in good : n % Workers = target % Workers => target <= n

\* The digest main prints is of the blocks of FIPS 180-4, and so is that of data of any
\* other length: the boundaries are at 55, 56, 63, 64 and 119 bytes.  No data panics.
EveryLengthPadded == \A len \in Lengths : PaddedAsInTheStandard(len)
PaddingIsFips == main \in {"print", "return"} => EveryLengthPadded

\* main ends if there is anything to find, even though the threads that find nothing
\* never do.
MainEnds == <>(main = "exit")
=============================================================================

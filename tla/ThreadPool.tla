----------------------------- MODULE ThreadPool ----------------------------
(***************************************************************************)
(* WebServerDemoInRust: the ThreadPool of src/lib.rs and the main of       *)
(* src/bin/main.rs that feeds it one job per accepted connection.  Workers *)
(* share one receiver behind a mutex and block in recv while holding it.   *)
(* Dropping the pool sends a Terminate per worker and joins them in order. *)
(*                                                                         *)
(* A handler ends in one of three ways, fixed by the connection and the    *)
(* file system (`fate`): it answers, one of its unwraps panics, or its     *)
(* read never returns because the client stays silent.                     *)
(***************************************************************************)
EXTENDS Integers, Sequences, FiniteSets

CONSTANTS
  Size,     \* the argument of ThreadPool::new
  Take      \* how many connections main accepts

ASSUME SizeAssumption == Size \in Nat \ {0}   \* assert!(size > 0)
ASSUME TakeAssumption == Take \in Nat

VARIABLES
  fate,       \* how the handler of each connection ends
  chan,       \* the channel: job numbers and Terminate, the oldest first
  lock,       \* the worker that holds the receiver's mutex, or Free
  poisoned,   \* a worker panicked while it held the mutex
  wpc,        \* where each worker is
  msg,        \* the message each worker received last
  mpc,        \* where main is
  accepted,   \* connections accepted so far
  k,          \* loop counter of the two loops of ThreadPool::drop
  unwinding,  \* main is unwinding from a panic
  exited,     \* the process is over
  started,    \* history: the jobs in the order they were received
  finished    \* history: the jobs whose handler answered

mainVars == <<mpc, accepted, k, unwinding, exited>>
workerVars == <<lock, poisoned, wpc, msg, started, finished>>
vars == <<fate, chan, lock, poisoned, wpc, msg, mpc, accepted, k, unwinding, exited,
          started, finished>>

Workers == 1..Size
Jobs == 1..Take
Terminate == 0
Free == 0

Dead(w) == wpc[w] \in {"exited", "panicked"}
\* Each worker thread owns one Arc of the receiver and drops it when it ends.
ReceiverAlive == \E w \in Workers : ~Dead(w)
SenderAlive == mpc \notin {"returned", "panicked", "aborted"}

Init ==
  /\ fate \in [Jobs -> {"answers", "panics", "hangs"}]
  /\ chan = <<>> /\ lock = Free /\ poisoned = FALSE
  /\ wpc = [w \in Workers |-> "lock"]
  /\ msg = [w \in Workers |-> Terminate]
  /\ mpc = "accept" /\ accepted = 0 /\ k = 0
  /\ unwinding = FALSE /\ exited = FALSE
  /\ started = <<>> /\ finished = {}

-----------------------------------------------------------------------------
\* main: accept, execute, and at the end of its scope ThreadPool::drop.

\* The job overtakes those in the channel.
AcceptAhead ==
  /\ mpc = "accept" /\ accepted < Take /\ ReceiverAlive
  /\ accepted' = accepted + 1
  /\ chan' = <<accepted + 1>> \o chan
  /\ UNCHANGED <<fate, workerVars, mpc, k, unwinding, exited>>

\* A connection arrives and execute sends its job.
Accept ==
  /\ mpc = "accept" /\ accepted < Take /\ ReceiverAlive
  /\ accepted' = accepted + 1
  /\ chan' = Append(chan, accepted + 1)
  /\ UNCHANGED <<fate, workerVars, mpc, k, unwinding, exited>>

\* The panic ends main without the pool's drop.
AcceptPanicsWithoutDrop ==
  /\ mpc = "accept" /\ accepted < Take
  /\ mpc' = "panicked" /\ unwinding' = TRUE
  /\ UNCHANGED <<fate, chan, workerVars, accepted, k, exited>>

\* stream.unwrap() fails, or the send of execute does because every worker is
\* gone: main unwinds, which drops the pool.
AcceptPanics ==
  /\ mpc = "accept" /\ accepted < Take
  /\ mpc' = "terminate" /\ unwinding' = TRUE
  /\ UNCHANGED <<fate, chan, workerVars, accepted, k, exited>>

\* ThreadPool does not implement Drop: its fields just go.
LeaveWithoutDrop ==
  /\ mpc = "accept" /\ accepted = Take
  /\ mpc' = "returned"
  /\ UNCHANGED <<fate, chan, workerVars, accepted, k, unwinding, exited>>

LeaveMain ==
  /\ mpc = "accept" /\ accepted = Take
  /\ mpc' = "terminate"
  /\ UNCHANGED <<fate, chan, workerVars, accepted, k, unwinding, exited>>

\* A panic inside drop: the process aborts if main is unwinding already.
PanicInDrop ==
  /\ mpc' = IF unwinding THEN "aborted" ELSE "panicked"
  /\ exited' = unwinding

SendTerminate ==
  /\ mpc = "terminate" /\ k < Size /\ ReceiverAlive
  /\ chan' = Append(chan, Terminate)
  /\ k' = k + 1
  /\ UNCHANGED <<fate, workerVars, mpc, accepted, unwinding, exited>>

SendTerminateFails ==
  /\ mpc = "terminate" /\ k < Size /\ ~ReceiverAlive
  /\ PanicInDrop
  /\ UNCHANGED <<fate, chan, workerVars, accepted, k, unwinding>>

\* One Terminate too few.
BeginJoinEarly ==
  /\ mpc = "terminate" /\ k = Size - 1
  /\ mpc' = "join" /\ k' = 0
  /\ UNCHANGED <<fate, chan, workerVars, accepted, unwinding, exited>>

BeginJoin ==
  /\ mpc = "terminate" /\ k = Size
  /\ mpc' = "join" /\ k' = 0
  /\ UNCHANGED <<fate, chan, workerVars, accepted, unwinding, exited>>

\* Does not wait for the thread.
Detach ==
  /\ mpc = "join" /\ k < Size
  /\ k' = k + 1
  /\ UNCHANGED <<fate, chan, workerVars, mpc, accepted, unwinding, exited>>

Join ==
  /\ mpc = "join" /\ k < Size
  /\ wpc[k + 1] = "exited"
  /\ k' = k + 1
  /\ UNCHANGED <<fate, chan, workerVars, mpc, accepted, unwinding, exited>>

\* The worker panicked, so does the unwrap of its join.
JoinFails ==
  /\ mpc = "join" /\ k < Size
  /\ wpc[k + 1] = "panicked"
  /\ PanicInDrop
  /\ UNCHANGED <<fate, chan, workerVars, accepted, k, unwinding>>

\* drop is done; the fields go, the sender among them.
EndDrop ==
  /\ mpc = "join" /\ k = Size
  /\ mpc' = IF unwinding THEN "panicked" ELSE "returned"
  /\ UNCHANGED <<fate, chan, workerVars, accepted, k, unwinding, exited>>

\* The main thread is over and takes every other thread with it.
ProcessExit ==
  /\ mpc \in {"returned", "panicked"} /\ ~exited
  /\ exited' = TRUE
  /\ UNCHANGED <<fate, chan, workerVars, mpc, accepted, k, unwinding>>

-----------------------------------------------------------------------------
\* The loop of Worker::new.

\* The thread ends and drops its Arc; the last one drops the channel's content.
Die(w, how) ==
  /\ wpc' = [wpc EXCEPT ![w] = how]
  /\ chan' = IF \A v \in Workers \ {w} : Dead(v) THEN <<>> ELSE chan

\* receiver.lock().unwrap()
Lock(w) ==
  /\ ~exited /\ wpc[w] = "lock" /\ lock = Free
  /\ IF poisoned
     THEN Die(w, "panicked") /\ UNCHANGED lock
     ELSE wpc' = [wpc EXCEPT ![w] = "recv"] /\ lock' = w /\ UNCHANGED chan
  /\ UNCHANGED <<fate, poisoned, msg, started, finished, mainVars>>

\* The guard lives as long as the message it came with.
RecvKeepingLock(w) ==
  /\ ~exited /\ wpc[w] = "recv" /\ chan # <<>>
  /\ msg' = [msg EXCEPT ![w] = Head(chan)]
  /\ chan' = Tail(chan)
  /\ IF Head(chan) = Terminate
     THEN wpc' = [wpc EXCEPT ![w] = "stop"] /\ lock' = Free /\ UNCHANGED started
     ELSE wpc' = [wpc EXCEPT ![w] = "run"] /\ started' = Append(started, Head(chan))
          /\ UNCHANGED lock
  /\ UNCHANGED <<fate, poisoned, finished, mainVars>>

\* recv().unwrap(), blocking; the guard goes at the end of the statement.  recv
\* fails when the channel is empty and the sender gone, and the unwrap then
\* panics with the guard alive.
Recv(w) ==
  /\ ~exited /\ wpc[w] = "recv"
  /\ chan = <<>> => ~SenderAlive
  /\ lock' = Free
  /\ IF chan = <<>>
     THEN Die(w, "panicked") /\ poisoned' = TRUE /\ UNCHANGED <<msg, started>>
     ELSE /\ msg' = [msg EXCEPT ![w] = Head(chan)]
          /\ chan' = Tail(chan)
          /\ IF Head(chan) = Terminate
             THEN wpc' = [wpc EXCEPT ![w] = "stop"] /\ UNCHANGED started
             ELSE wpc' = [wpc EXCEPT ![w] = "run"] /\ started' = Append(started, Head(chan))
          /\ UNCHANGED poisoned
  /\ UNCHANGED <<fate, finished, mainVars>>

Answer(w) ==
  /\ ~exited /\ wpc[w] = "run" /\ fate[msg[w]] = "answers"
  /\ wpc' = [wpc EXCEPT ![w] = "lock"]
  /\ finished' = finished \cup {msg[w]}
  /\ UNCHANGED <<fate, chan, lock, poisoned, msg, started, mainVars>>

\* An unwrap of handle_connection panics, without the mutex.
JobPanics(w) ==
  /\ ~exited /\ wpc[w] = "run" /\ fate[msg[w]] = "panics"
  /\ Die(w, "panicked")
  /\ UNCHANGED <<fate, lock, poisoned, msg, started, finished, mainVars>>

\* read() on the connection of a silent client.
StayBlocked(w) ==
  /\ ~exited /\ wpc[w] = "run" /\ fate[msg[w]] = "hangs"
  /\ UNCHANGED vars

Stop(w) ==
  /\ ~exited /\ wpc[w] = "stop"
  /\ Die(w, "exited")
  /\ UNCHANGED <<fate, lock, poisoned, msg, started, finished, mainVars>>

-----------------------------------------------------------------------------
Drop == BeginJoin \/ SendTerminate \/ SendTerminateFails \/ Join \/ JoinFails \/ EndDrop
Main == LeaveMain \/ Drop \/ ProcessExit
Worker(w) == Lock(w) \/ Recv(w) \/ Answer(w) \/ JobPanics(w) \/ Stop(w)

Over == exited /\ UNCHANGED vars

Next ==
  \/ Accept \/ AcceptPanics \/ Main
  \/ \E w \in Workers : Worker(w) \/ StayBlocked(w)
  \/ Over

\* The threads are scheduled; connections come when clients make them.
Spec ==
  /\ Init /\ [][Next]_vars
  /\ WF_vars(Main) /\ \A w \in Workers : WF_vars(Worker(w))

-----------------------------------------------------------------------------
\* Types.
TypeOK ==
  /\ fate \in [Jobs -> {"answers", "panics", "hangs"}]
  /\ chan \in Seq(Jobs \cup {Terminate})
  /\ lock \in Workers \cup {Free}
  /\ poisoned \in BOOLEAN
  /\ wpc \in [Workers -> {"lock", "recv", "run", "stop", "exited", "panicked"}]
  /\ msg \in [Workers -> Jobs \cup {Terminate}]
  /\ mpc \in {"accept", "terminate", "join", "returned", "panicked", "aborted"}
  /\ accepted \in 0..Take
  /\ k \in 0..Size
  /\ unwinding \in BOOLEAN /\ exited \in BOOLEAN
  /\ started \in Seq(Jobs)
  /\ finished \subseteq Jobs

\* No job is lost, repeated or overtaken while a worker lives: the channel holds
\* exactly the jobs not received yet, in order, and every Terminate is behind
\* the last job.
Rest == [i \in 1..(accepted - Len(started)) |-> Len(started) + i]
ChannelHoldsTheRest ==
  /\ started = [i \in 1..Len(started) |-> i]
  /\ ReceiverAlive => /\ Len(Rest) <= Len(chan)
                      /\ SubSeq(chan, 1, Len(Rest)) = Rest
                      /\ \A i \in (Len(Rest) + 1)..Len(chan) : chan[i] = Terminate

\* When drop joins the workers each one that still takes messages has a
\* Terminate waiting for it, so none of them blocks in recv for ever.
EnoughTerminates == mpc = "join" =>
  Cardinality({w \in Workers : wpc[w] \in {"lock", "recv", "run"}})
    <= Cardinality({i \in DOMAIN chan : chan[i] = Terminate})

\* If drop gets through both loops, every accepted job has been answered, no
\* worker is left and nothing remains in the channel.
GracefulShutdown == mpc \in {"returned", "panicked"} /\ k = Size =>
  /\ finished = 1..accepted
  /\ \A w \in Workers : wpc[w] = "exited"
  /\ chan = <<>>

\* No worker panics while it holds the mutex: recv never finds the sender gone.
NeverPoisoned == ~poisoned

\* drop fails half way only when a job has panicked.
DropFailsAfterJobPanic == mpc \in {"panicked", "aborted"} /\ k < Size =>
  \E w \in Workers : wpc[w] = "panicked"

\* A handler that never returns keeps one worker, not the queue: as long as
\* fewer handlers hang than there are workers, and none panics, every accepted
\* job is started.
Hanging == {j \in Jobs : fate[j] = "hangs"}
HungJobDoesNotBlock == \A j \in Jobs :
  (/\ accepted >= j /\ Cardinality(Hanging) < Size
   /\ \A i \in Jobs : fate[i] # "panics") ~> (Len(started) >= j)

\* If no handler hangs the process ends once main leaves its loop, whatever
\* panics on the way.
ShutdownEnds == (mpc = "terminate" /\ Hanging = {}) ~> exited
=============================================================================

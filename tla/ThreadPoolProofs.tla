-------------------------- MODULE ThreadPoolProofs --------------------------
(***************************************************************************)
(* The invariant of ThreadPool, for any number of workers and connections, *)
(* what follows from it for jobs and for the shutdown; when neither can    *)
(* stall, and how many steps there are.                                    *)
(***************************************************************************)
EXTENDS ThreadPool, SequenceTheorems, FiniteSetTheorems, TLAPS

Pending == accepted - Len(started)       \* jobs sent and not received
Terminates == Len(chan) - Pending        \* while there is a receiver

Takers == {w \in Workers : wpc[w] \in {"lock", "recv", "run"}}
Stopped == {w \in Workers : wpc[w] \in {"stop", "exited"}}

\* The jobs received are the first ones; the channel holds the others and then
\* nothing but Terminate; it is emptied with the last receiver.
OrderInv ==
  /\ Pending \in Nat
  /\ \A i \in 1..Len(started) : started[i] = i
  /\ ReceiverAlive =>
       /\ Terminates \in Nat
       /\ \A i \in 1..Pending : chan[i] = Len(started) + i
       /\ \A i \in (Pending + 1)..Len(chan) : chan[i] = Terminate
  /\ ~ReceiverAlive => chan = <<>>

\* A worker is told to stop when no job is left and none can follow.
StopInv == Stopped # {} => Pending = 0 /\ mpc # "accept"

\* Until all Terminates are sent k counts them, wherever they are.
CountInv == mpc \in {"accept", "terminate"} =>
  /\ mpc = "accept" => k = 0
  /\ Cardinality(Stopped) <= k
  /\ ReceiverAlive =>
       /\ Cardinality(Stopped) + Terminates <= k
       /\ Cardinality(Takers) + k <= Size + Terminates

\* Then there is one for each worker that takes messages.
EnoughInv == mpc \notin {"accept", "terminate"} /\ ReceiverAlive =>
  Cardinality(Takers) <= Terminates

\* A job received is answered, or its worker is at it or has died of it.
FinishedInv ==
  /\ finished \subseteq 1..Len(started)
  /\ \A w \in Workers : wpc[w] = "run" => msg[w] \in 1..Len(started)
  /\ \A j \in 1..Len(started) : j \notin finished =>
       \E w \in Workers : wpc[w] \in {"run", "panicked"} /\ msg[w] = j

\* The workers that were joined.
JoinInv ==
  /\ mpc = "join" => \A w \in Workers : w <= k => wpc[w] = "exited"
  /\ mpc \in {"returned", "panicked"} /\ k = Size => \A w \in Workers : wpc[w] = "exited"

IInv ==
  /\ TypeOK /\ OrderInv /\ StopInv /\ CountInv /\ EnoughInv /\ FinishedInv /\ JoinInv
  /\ NeverPoisoned /\ DropFailsAfterJobPanic

-----------------------------------------------------------------------------
\* Sets of workers have sizes, and lose or gain one at a time.
LEMMA Sizes ==
  /\ \A S \in SUBSET Workers : IsFiniteSet(S) /\ Cardinality(S) \in 0..Size
  /\ \A S \in SUBSET Workers : \A w \in S :
       Cardinality(S \ {w}) = Cardinality(S) - 1 /\ Cardinality(S) > 0
  /\ \A S \in SUBSET Workers : \A w \in Workers \ S :
       Cardinality(S \cup {w}) = Cardinality(S) + 1
  /\ Cardinality({}) = 0 /\ Cardinality(Workers) = Size
<1>1. IsFiniteSet(Workers) /\ Cardinality(Workers) = Size
  BY SizeAssumption, FS_Interval DEF Workers
<1>2. ASSUME NEW S \in SUBSET Workers PROVE IsFiniteSet(S) /\ Cardinality(S) \in 0..Size
  BY <1>1, FS_Subset, FS_CardinalityType
<1>3. ASSUME NEW S \in SUBSET Workers, NEW w \in S
      PROVE  Cardinality(S \ {w}) = Cardinality(S) - 1 /\ Cardinality(S) > 0
  <2>1. Cardinality(S \ {w}) = Cardinality(S) - 1
    BY <1>2, FS_RemoveElement
  <2>2. Cardinality(S \ {w}) \in 0..Size /\ Cardinality(S) \in 0..Size
    BY <1>2
  <2> QED
    BY <2>1, <2>2
<1>4. ASSUME NEW S \in SUBSET Workers, NEW w \in Workers \ S
      PROVE  Cardinality(S \cup {w}) = Cardinality(S) + 1
  BY <1>2, FS_AddElement
<1> QED
  BY <1>1, <1>2, <1>3, <1>4, FS_EmptySet

\* What is known of sizes in a state.
LEMMA Counts ==
  ASSUME TypeOK
  PROVE  /\ Takers \in SUBSET Workers /\ Stopped \in SUBSET Workers
         /\ Cardinality(Takers) \in 0..Size /\ Cardinality(Stopped) \in 0..Size
         /\ Len(chan) \in Nat /\ Len(started) \in Nat /\ Size \in Nat \ {0} /\ Take \in Nat
         /\ Pending \in Int /\ Terminates \in Int
<1>1. Takers \in SUBSET Workers /\ Stopped \in SUBSET Workers
  BY DEF Takers, Stopped
<1>2. Len(chan) \in Nat /\ Len(started) \in Nat
  BY LenProperties DEF TypeOK
<1> QED
  BY <1>1, <1>2, Sizes, SizeAssumption, TakeAssumption DEF Pending, Terminates, TypeOK

\* A new pool has an empty channel and nobody has been told to stop.
LEMMA InitIInv == Init => IInv
<1> SUFFICES ASSUME Init PROVE IInv
  OBVIOUS
<1>1. TypeOK
  <2>1. <<>> \in Seq(Jobs \cup {Terminate}) /\ <<>> \in Seq(Jobs)
    BY EmptySeq
  <2>2. 0 \in 0..Take /\ 0 \in 0..Size
    BY SizeAssumption, TakeAssumption
  <2> QED
    BY <2>1, <2>2 DEF Init, TypeOK
<1>2. Pending = 0 /\ Terminates = 0 /\ Len(started) = 0
  <2>1. Len(chan) = 0 /\ Len(started) = 0 /\ accepted = 0
    BY EmptySeq DEF Init
  <2> QED
    BY <2>1 DEF Pending, Terminates
<1>3. OrderInv /\ FinishedInv /\ JoinInv /\ NeverPoisoned /\ DropFailsAfterJobPanic
  <2>1. 1 \in Workers /\ ReceiverAlive
    BY SizeAssumption DEF Init, Workers, ReceiverAlive, Dead
  <2> QED
    BY <1>2, <2>1 DEF Init, OrderInv, FinishedInv, JoinInv, NeverPoisoned, DropFailsAfterJobPanic
<1>4. StopInv /\ CountInv /\ EnoughInv
  <2>1. Stopped = {} /\ Cardinality(Stopped) = 0
    BY Sizes DEF Init, Stopped
  <2> QED
    BY <1>1, <1>2, <2>1, Counts DEF Init, StopInv, CountInv, EnoughInv
<1> QED
  BY <1>1, <1>3, <1>4 DEF IInv

-----------------------------------------------------------------------------
\* Steps of main.

\* What main's steps leave alone.
LEMMA WorkersUntouched ==
  ASSUME UNCHANGED workerVars
  PROVE  /\ Takers' = Takers /\ Stopped' = Stopped /\ ReceiverAlive' = ReceiverAlive
         /\ accepted' = accepted => Pending' = Pending
         /\ accepted' = accepted /\ chan' = chan => Terminates' = Terminates
BY DEF workerVars, Takers, Stopped, ReceiverAlive, Dead, Pending, Terminates

\* execute (lib.rs:71-77) appends a job, and only while main accepts.
LEMMA AcceptKeepsIInv == IInv /\ Accept => IInv'
<1> SUFFICES ASSUME IInv, Accept PROVE IInv'
  OBVIOUS
<1> USE DEF IInv
<1>0. UNCHANGED workerVars /\ ReceiverAlive /\ mpc = "accept" /\ mpc' = mpc /\ k' = k
      /\ accepted' = accepted + 1 /\ chan' = Append(chan, accepted + 1)
      /\ unwinding' = unwinding /\ exited' = exited /\ fate' = fate
  BY DEF Accept
<1>1. /\ Len(chan') = Len(chan) + 1 /\ chan' \in Seq(Jobs \cup {Terminate})
      /\ \A i \in 1..Len(chan) : chan'[i] = chan[i]
      /\ chan'[Len(chan) + 1] = accepted + 1
  <2>1. accepted + 1 \in Jobs \cup {Terminate} /\ chan \in Seq(Jobs \cup {Terminate})
    BY Counts DEF Accept, TypeOK, Jobs
  <2> QED
    BY <1>0, <2>1, AppendProperties
<1>2. TypeOK'
  BY <1>0, <1>1, Counts DEF TypeOK, Accept, workerVars
<1>3. Stopped = {} /\ Terminates = 0
  <2>1. Stopped = {}
    BY <1>0 DEF StopInv
  <2> QED
    BY <1>0, <2>1, Counts, Sizes DEF CountInv, OrderInv
<1>4. Pending' = Pending + 1 /\ Terminates' = Terminates
  BY <1>0, <1>1, Counts DEF Pending, Terminates, workerVars, TypeOK
<1>5. OrderInv'
  <2>1. Len(chan) = Pending /\ Len(started)' = Len(started)
    BY <1>0, <1>3, Counts DEF Terminates, workerVars
  <2>2. \A i \in 1..(Pending + 1) : chan'[i] = Len(started) + i
    <3>1. accepted + 1 = Len(started) + Pending + 1
      BY Counts DEF Pending, TypeOK
    <3>2. \A i \in 1..Pending : chan[i] = Len(started) + i
      BY <1>0 DEF OrderInv
    <3>3. chan'[Pending + 1] = Len(started) + (Pending + 1)
      BY <1>0, <1>1, <2>1, <3>1
    <3>4. \A i \in 1..Pending : chan'[i] = Len(started) + i
      BY <1>1, <2>1, <3>2
    <3>5. Pending \in Nat /\ \A i \in 1..(Pending + 1) : i \in 1..Pending \/ i = Pending + 1
      BY Counts DEF OrderInv
    <3> QED
      BY <3>3, <3>4, <3>5
  <2>3. started' = started /\ (ReceiverAlive' <=> ReceiverAlive)
    BY <1>0, WorkersUntouched DEF workerVars
  <2>4. Pending' \in Nat /\ Terminates' \in Nat
    BY <1>0, <1>4, <1>3 DEF OrderInv
  <2>5. (Pending' + 1)..Len(chan') = {}
    BY <2>1, <1>1, <1>4, Counts
  <2> QED
    BY <1>0, <1>4, <2>1, <2>2, <2>3, <2>4, <2>5 DEF OrderInv
<1>6. StopInv' /\ CountInv' /\ EnoughInv'
  BY <1>0, <1>3, <1>4, WorkersUntouched DEF StopInv, CountInv, EnoughInv
<1>7. FinishedInv' /\ JoinInv' /\ NeverPoisoned' /\ DropFailsAfterJobPanic'
  BY <1>0 DEF workerVars, FinishedInv, JoinInv, NeverPoisoned, DropFailsAfterJobPanic
<1> QED
  BY <1>2, <1>5, <1>6, <1>7

\* The first loop of drop (lib.rs:84-86).
LEMMA SendTerminateKeepsIInv == IInv /\ SendTerminate => IInv'
<1> SUFFICES ASSUME IInv, SendTerminate PROVE IInv'
  OBVIOUS
<1> USE DEF IInv
<1>0. UNCHANGED workerVars /\ ReceiverAlive /\ mpc = "terminate" /\ mpc' = mpc /\ k' = k + 1
      /\ accepted' = accepted /\ chan' = Append(chan, Terminate) /\ k < Size
      /\ unwinding' = unwinding /\ exited' = exited /\ fate' = fate
  BY DEF SendTerminate
<1>1. /\ Len(chan') = Len(chan) + 1 /\ chan' \in Seq(Jobs \cup {Terminate})
      /\ \A i \in 1..Len(chan) : chan'[i] = chan[i]
      /\ chan'[Len(chan) + 1] = Terminate
  <2>1. chan \in Seq(Jobs \cup {Terminate})
    BY DEF TypeOK
  <2> QED
    BY <1>0, <2>1, AppendProperties
<1>2. TypeOK'
  BY <1>0, <1>1, Counts DEF TypeOK, workerVars
<1>3. Pending' = Pending /\ Terminates' = Terminates + 1
  BY <1>0, <1>1, Counts DEF Pending, Terminates, workerVars
<1>4. OrderInv'
  <2>1. started' = started /\ (ReceiverAlive' <=> ReceiverAlive)
    BY <1>0, WorkersUntouched DEF workerVars
  <2>2. Pending' \in Nat /\ Terminates' \in Nat /\ Pending <= Len(chan)
    BY <1>0, <1>3, Counts DEF OrderInv, Terminates
  <2>3. \A i \in 1..Pending : chan'[i] = Len(started) + i
    BY <1>0, <1>1, <2>2, Counts DEF OrderInv
  <2>4. \A i \in (Pending + 1)..(Len(chan) + 1) : chan'[i] = Terminate
    BY <1>0, <1>1, <2>2, Counts DEF OrderInv
  <2> QED
    BY <1>0, <1>1, <1>3, <2>1, <2>2, <2>3, <2>4 DEF OrderInv
<1>5. StopInv' /\ CountInv' /\ EnoughInv'
  <2>1. Takers' = Takers /\ Stopped' = Stopped /\ k \in Nat
    BY <1>0, WorkersUntouched DEF TypeOK
  <2>2. Cardinality(Stopped) + Terminates <= k /\ Cardinality(Takers) + k <= Size + Terminates
    BY <1>0 DEF CountInv
  <2>3. Cardinality(Takers) \in Nat /\ Cardinality(Stopped) \in Nat /\ Terminates \in Int
        /\ Size \in Nat /\ Cardinality(Stopped) <= k
    BY <1>0, Counts DEF CountInv
  <2>4. Cardinality(Stopped') <= k' /\ Cardinality(Stopped') + Terminates' <= k'
        /\ Cardinality(Takers') + k' <= Size + Terminates'
    BY <1>0, <1>3, <2>1, <2>2, <2>3
  <2> QED
    BY <1>0, <1>3, <2>1, <2>4 DEF StopInv, CountInv, EnoughInv
<1>6. FinishedInv' /\ JoinInv' /\ NeverPoisoned' /\ DropFailsAfterJobPanic'
  BY <1>0 DEF workerVars, FinishedInv, JoinInv, NeverPoisoned, DropFailsAfterJobPanic
<1> QED
  BY <1>2, <1>4, <1>5, <1>6

\* The other steps of main send nothing.
Silent == AcceptPanics \/ LeaveMain \/ SendTerminateFails \/ BeginJoin \/ Join \/ JoinFails
          \/ EndDrop \/ ProcessExit

\* What they do to main's own state.
LEMMA SilentSteps ==
  ASSUME IInv, Silent
  PROVE  /\ UNCHANGED workerVars /\ UNCHANGED <<fate, chan, accepted>>
         /\ TypeOK' /\ mpc' # "accept"
<1>1. UNCHANGED workerVars /\ UNCHANGED <<fate, chan, accepted>>
  BY DEF Silent, AcceptPanics, LeaveMain, SendTerminateFails, BeginJoin, Join, JoinFails,
       EndDrop, ProcessExit
<1>2. mpc' # "accept"
  BY DEF Silent, AcceptPanics, LeaveMain, SendTerminateFails, BeginJoin, Join, JoinFails,
       EndDrop, ProcessExit, PanicInDrop
<1>3. mpc' \in {"accept", "terminate", "join", "returned", "panicked", "aborted"}
  BY DEF IInv, TypeOK, Silent, AcceptPanics, LeaveMain, SendTerminateFails, BeginJoin, Join,
       JoinFails, EndDrop, ProcessExit, PanicInDrop
<1>4. k' \in 0..Size /\ unwinding' \in BOOLEAN /\ exited' \in BOOLEAN
  <2>1. k' = k \/ k' = 0 \/ (k < Size /\ k' = k + 1)
    BY DEF Silent, AcceptPanics, LeaveMain, SendTerminateFails, BeginJoin, Join, JoinFails,
         EndDrop, ProcessExit
  <2>2. unwinding' \in {unwinding, TRUE} /\ exited' \in {exited, unwinding, TRUE}
    BY DEF Silent, AcceptPanics, LeaveMain, SendTerminateFails, BeginJoin, Join, JoinFails,
         EndDrop, ProcessExit, PanicInDrop
  <2>3. k \in 0..Size /\ unwinding \in BOOLEAN /\ exited \in BOOLEAN
    BY DEF IInv, TypeOK
  <2>4. k' \in 0..Size
    BY <2>1, <2>3, SizeAssumption
  <2> QED
    BY <2>2, <2>3, <2>4
<1> QED
  BY <1>1, <1>2, <1>3, <1>4 DEF IInv, TypeOK, workerVars

\* When every worker is gone before main has sent all Terminates, one has panicked.
LEMMA AllGoneEarly ==
  ASSUME IInv, mpc = "terminate", k < Size, ~ReceiverAlive
  PROVE  \E w \in Workers : wpc[w] = "panicked"
<1> SUFFICES ASSUME \A w \in Workers : wpc[w] # "panicked" PROVE FALSE
  OBVIOUS
<1>1. Stopped = Workers
  BY DEF ReceiverAlive, Dead, Stopped
<1>2. Cardinality(Stopped) <= k
  BY DEF IInv, CountInv
<1> QED
  BY <1>1, <1>2, Sizes, SizeAssumption DEF IInv, TypeOK

\* The panics of main (lib.rs:76, 85, 94), the ends of its loops and the joins (lib.rs:90-94).
LEMMA SilentKeepsIInv == IInv /\ Silent => IInv'
<1> SUFFICES ASSUME IInv, Silent PROVE IInv'
  OBVIOUS
<1> USE DEF IInv
<1>1. UNCHANGED workerVars /\ UNCHANGED <<fate, chan, accepted>> /\ mpc' # "accept" /\ TypeOK'
      /\ Takers' = Takers /\ Stopped' = Stopped /\ ReceiverAlive' = ReceiverAlive
      /\ Pending' = Pending /\ Terminates' = Terminates
  BY SilentSteps, WorkersUntouched
<1>2. OrderInv' /\ StopInv' /\ FinishedInv' /\ NeverPoisoned'
  BY <1>1 DEF workerVars, OrderInv, StopInv, FinishedInv, NeverPoisoned
<1>3. Cardinality(Takers) \in 0..Size /\ Cardinality(Stopped) \in 0..Size /\ k \in 0..Size
      /\ Terminates \in Int /\ Size \in Nat \ {0} /\ wpc' = wpc
  BY <1>1, Counts DEF TypeOK, workerVars
<1>4. CASE AcceptPanics \/ LeaveMain
  <2>1. mpc = "accept" /\ mpc' = "terminate" /\ k' = k /\ k = 0
    BY <1>4 DEF AcceptPanics, LeaveMain, CountInv
  <2>2. CountInv'
    <3>1. ReceiverAlive => Terminates \in Nat /\ Cardinality(Stopped) + Terminates <= k
      BY <2>1 DEF OrderInv, CountInv
    <3>2. Cardinality(Stopped) <= k
      BY <2>1 DEF CountInv
    <3>3. ReceiverAlive => Cardinality(Takers) + k <= Size + Terminates
      BY <2>1, <3>1, <1>3
    <3> QED
      BY <1>1, <2>1, <3>1, <3>2, <3>3 DEF CountInv
  <2> QED
    BY <1>1, <1>2, <2>1, <2>2 DEF EnoughInv, JoinInv, DropFailsAfterJobPanic
<1>5. CASE SendTerminateFails
  <2>1. mpc = "terminate" /\ mpc' \in {"panicked", "aborted"} /\ k' = k /\ k < Size /\ ~ReceiverAlive
    BY <1>5 DEF SendTerminateFails, PanicInDrop
  <2>2. \E w \in Workers : wpc[w] = "panicked"
    BY <2>1, AllGoneEarly
  <2>3. k # Size
    BY <2>1, <1>3
  <2> QED
    BY <1>1, <1>2, <1>3, <2>1, <2>2, <2>3 DEF CountInv, EnoughInv, JoinInv, DropFailsAfterJobPanic
<1>6. CASE BeginJoin
  <2>1. mpc = "terminate" /\ mpc' = "join" /\ k' = 0 /\ k = Size
    BY <1>6 DEF BeginJoin
  <2>2. ReceiverAlive => Cardinality(Takers) <= Terminates
    <3>1. ReceiverAlive => Cardinality(Takers) + k <= Size + Terminates
      BY <2>1 DEF CountInv
    <3> QED
      BY <2>1, <3>1, <1>3
  <2>3. \A w \in Workers : ~(w <= 0)
    BY DEF Workers
  <2> QED
    BY <1>1, <1>2, <2>1, <2>2, <2>3 DEF CountInv, EnoughInv, JoinInv, DropFailsAfterJobPanic
<1>7. CASE Join
  <2>1. mpc = "join" /\ mpc' = "join" /\ k' = k + 1 /\ wpc[k + 1] = "exited"
    BY <1>7 DEF Join
  <2>2. \A w \in Workers : w <= k + 1 => wpc[w] = "exited"
    BY <2>1, <1>3 DEF JoinInv, Workers
  <2> QED
    BY <1>1, <1>2, <1>3, <2>1, <2>2 DEF CountInv, EnoughInv, JoinInv, DropFailsAfterJobPanic
<1>8. CASE JoinFails
  <2>1. mpc = "join" /\ mpc' \in {"panicked", "aborted"} /\ k' = k /\ k < Size
        /\ wpc[k + 1] = "panicked"
    BY <1>8 DEF JoinFails, PanicInDrop
  <2>2. k + 1 \in Workers /\ k # Size
    BY <2>1, <1>3 DEF Workers
  <2> QED
    BY <1>1, <1>2, <1>3, <2>1, <2>2 DEF CountInv, EnoughInv, JoinInv, DropFailsAfterJobPanic
<1>9. CASE EndDrop
  <2>1. mpc = "join" /\ mpc' \in {"panicked", "returned"} /\ k' = k /\ k = Size
    BY <1>9 DEF EndDrop
  <2>2. \A w \in Workers : w <= k
    BY <2>1, <1>3 DEF Workers
  <2>3. ~(k < Size)
    BY <2>1, <1>3
  <2> QED
    BY <1>1, <1>2, <1>3, <2>1, <2>2, <2>3 DEF CountInv, EnoughInv, JoinInv, DropFailsAfterJobPanic
<1>10. CASE ProcessExit
  <2>1. mpc' = mpc /\ k' = k /\ mpc \in {"returned", "panicked"}
    BY <1>10 DEF ProcessExit
  <2> QED
    BY <1>1, <1>2, <1>3, <2>1 DEF CountInv, EnoughInv, JoinInv, DropFailsAfterJobPanic
<1> QED
  BY <1>4, <1>5, <1>6, <1>7, <1>8, <1>9, <1>10 DEF Silent

-----------------------------------------------------------------------------
\* Steps of the workers.

\* Jobs are numbers from 1, Terminate is not one of them.
LEMMA JobNumbers == Terminate \notin Jobs /\ \A j \in Jobs : j \in Nat /\ j >= 1 /\ j <= Take
  BY TakeAssumption DEF Terminate, Jobs

\* A live worker is a receiver.
LEMMA Alive ==
  ASSUME NEW w \in Workers, ~Dead(w)
  PROVE  ReceiverAlive
  BY DEF ReceiverAlive

\* receiver.lock() (lib.rs:20): no worker died with the mutex, so it is not poisoned.
LEMMA LockKeepsIInv == ASSUME IInv, NEW w \in Workers, Lock(w) PROVE IInv'
<1> USE DEF IInv
<1>1. wpc[w] = "lock" /\ wpc' = [wpc EXCEPT ![w] = "recv"] /\ lock' = w
      /\ UNCHANGED <<fate, chan, poisoned, msg, started, finished, mainVars>>
  BY DEF Lock, NeverPoisoned
<1>2. TypeOK'
  BY <1>1 DEF TypeOK, mainVars
<1>3. Takers' = Takers /\ Stopped' = Stopped /\ (ReceiverAlive' <=> ReceiverAlive)
  BY <1>1 DEF TypeOK, Takers, Stopped, ReceiverAlive, Dead
<1>4. Pending' = Pending /\ Terminates' = Terminates
  BY <1>1 DEF Pending, Terminates, mainVars
<1>5. OrderInv' /\ StopInv' /\ CountInv' /\ EnoughInv'
  BY <1>1, <1>3, <1>4 DEF OrderInv, StopInv, CountInv, EnoughInv, mainVars
<1>6. \A v \in Workers : v # w => wpc'[v] = wpc[v]
  BY <1>1 DEF TypeOK
<1>7. wpc'[w] = "recv"
  BY <1>1 DEF TypeOK
<1>8. FinishedInv'
  BY <1>1, <1>6, <1>7 DEF FinishedInv
<1>9. JoinInv' /\ NeverPoisoned' /\ DropFailsAfterJobPanic'
  BY <1>1, <1>6, <1>7 DEF JoinInv, NeverPoisoned, DropFailsAfterJobPanic, mainVars
<1> QED
  BY <1>2, <1>5, <1>8, <1>9

\* A worker in recv finds a message or a sender that is alive: while it takes
\* messages there is a Terminate for it.
LEMMA RecvFindsMessage ==
  ASSUME IInv, NEW w \in Workers, Recv(w)
  PROVE  chan # <<>>
<1> SUFFICES ASSUME chan = <<>> PROVE FALSE
  OBVIOUS
<1> USE DEF IInv
<1>1. wpc[w] = "recv" /\ mpc \in {"returned", "panicked", "aborted"}
  BY DEF Recv, SenderAlive
<1>2. ReceiverAlive /\ w \in Takers
  BY <1>1 DEF ReceiverAlive, Dead, Takers
<1>3. Cardinality(Takers) > 0 /\ Cardinality(Takers) <= Terminates
  BY <1>1, <1>2, Sizes, Counts DEF EnoughInv
<1>4. Len(chan) = 0 /\ Pending \in Nat
  BY EmptySeq DEF OrderInv
<1> QED
  BY <1>3, <1>4, Counts DEF Terminates

\* What recv does to the channel.
LEMMA RecvTail ==
  ASSUME IInv, NEW w \in Workers, Recv(w)
  PROVE  /\ ReceiverAlive /\ wpc[w] = "recv" /\ w \in Takers
         /\ Len(chan) > 0 /\ Head(chan) = chan[1] /\ chan' = Tail(chan)
         /\ chan' \in Seq(Jobs \cup {Terminate}) /\ Len(chan') = Len(chan) - 1
         /\ \A i \in 1..(Len(chan) - 1) : chan'[i] = chan[i + 1]
         /\ lock' = Free /\ msg' = [msg EXCEPT ![w] = Head(chan)]
         /\ UNCHANGED <<fate, poisoned, finished, mainVars>>
<1>1. chan # <<>> /\ chan \in Seq(Jobs \cup {Terminate})
  BY RecvFindsMessage DEF IInv, TypeOK
<1>2. /\ wpc[w] = "recv" /\ chan' = Tail(chan) /\ lock' = Free
      /\ msg' = [msg EXCEPT ![w] = Head(chan)]
      /\ UNCHANGED <<fate, poisoned, finished, mainVars>>
  BY <1>1 DEF Recv
<1>3. ReceiverAlive /\ w \in Takers
  BY <1>2, Alive DEF Dead, Takers
<1>4. Len(chan) > 0 /\ Head(chan) = chan[1]
  BY <1>1, EmptySeq
<1>5. Tail(chan) \in Seq(Jobs \cup {Terminate}) /\ Len(Tail(chan)) = Len(chan) - 1
      /\ \A i \in 1..Len(Tail(chan)) : Tail(chan)[i] = chan[i + 1]
  BY <1>1, HeadTailProperties
<1> QED
  BY <1>2, <1>3, <1>4, <1>5

\* A job is taken.
LEMMA TakeJobKeepsIInv ==
  ASSUME IInv, NEW w \in Workers, Recv(w), Head(chan) # Terminate
  PROVE  IInv'
<1> USE DEF IInv
<1>1. wpc' = [wpc EXCEPT ![w] = "run"] /\ started' = Append(started, Head(chan))
  BY RecvFindsMessage DEF Recv
<1>2. Pending \in Nat \ {0} /\ Terminates \in Nat /\ Head(chan) = Len(started) + 1
  <2>1. Pending \in Nat /\ Terminates \in Nat /\ Len(chan) \in Nat /\ Len(chan) > 0
        /\ Head(chan) = chan[1]
    BY RecvTail, Counts DEF OrderInv
  <2>2. Pending # 0
    <3>1. Pending = 0 => chan[1] = Terminate
      BY <2>1, RecvTail DEF OrderInv
    <3> QED
      BY <2>1, <3>1
  <2> QED
    BY <2>1, <2>2, RecvTail DEF OrderInv
<1>3. /\ started' \in Seq(Jobs) /\ Len(started') = Len(started) + 1
      /\ \A i \in 1..Len(started) : started'[i] = started[i]
      /\ started'[Len(started) + 1] = Len(started) + 1
  <2>1. Head(chan) \in Jobs /\ started \in Seq(Jobs)
    <3>1. Head(chan) \in Jobs \cup {Terminate}
      BY RecvFindsMessage, HeadTailProperties DEF TypeOK
    <3> QED
      BY <3>1 DEF TypeOK
  <2> QED
    BY <1>1, <1>2, <2>1, AppendProperties
<1>4. Pending' = Pending - 1 /\ Terminates' = Terminates
  <2>1. accepted' = accepted /\ accepted \in Int /\ Len(chan') = Len(chan) - 1
    BY RecvTail DEF mainVars, TypeOK
  <2> QED
    BY <1>3, <2>1, Counts DEF Pending, Terminates
<1>5. TypeOK'
  <2>1. Head(chan) \in Jobs \cup {Terminate}
    BY RecvFindsMessage, HeadTailProperties DEF TypeOK
  <2>2. msg' \in [Workers -> Jobs \cup {Terminate}] /\ lock' \in Workers \cup {Free}
        /\ wpc' \in [Workers -> {"lock", "recv", "run", "stop", "exited", "panicked"}]
    <3>1. msg' = [msg EXCEPT ![w] = Head(chan)] /\ lock' = Free
      BY RecvTail
    <3>2. /\ msg \in [Workers -> Jobs \cup {Terminate}]
          /\ wpc \in [Workers -> {"lock", "recv", "run", "stop", "exited", "panicked"}]
      BY DEF TypeOK
    <3> QED
      BY <1>1, <2>1, <3>1, <3>2
  <2>3. chan' \in Seq(Jobs \cup {Terminate}) /\ UNCHANGED <<fate, poisoned, finished, mainVars>>
    BY RecvTail
  <2> QED
    BY <1>3, <2>2, <2>3 DEF TypeOK, mainVars
<1>6. Takers' = Takers /\ Stopped' = Stopped /\ ReceiverAlive'
  <2>1. wpc[w] = "recv" /\ wpc'[w] = "run" /\ \A v \in Workers \ {w} : wpc'[v] = wpc[v]
    BY <1>1, RecvTail DEF TypeOK
  <2> QED
    BY <2>1 DEF Takers, Stopped, ReceiverAlive, Dead
<1>7. OrderInv'
  <2>1. Pending' \in Nat /\ Terminates' \in Nat /\ Len(chan') = Len(chan) - 1
    BY <1>2, <1>4, RecvTail
  <2>2. \A i \in 1..Len(started') : started'[i] = i
    BY <1>3, Counts DEF OrderInv
  <2>3. \A i \in 1..Pending' : chan'[i] = Len(started') + i
    <3> SUFFICES ASSUME NEW i \in 1..Pending' PROVE chan'[i] = Len(started') + i
      OBVIOUS
    <3>1. Pending <= Len(chan) /\ i + 1 \in 1..Pending /\ i \in 1..(Len(chan) - 1)
      BY <1>2, <1>4, Counts DEF Terminates
    <3>2. chan'[i] = chan[i + 1] /\ chan[i + 1] = Len(started) + (i + 1)
      BY <3>1, RecvTail DEF OrderInv
    <3> QED
      BY <1>3, <3>1, <3>2, Counts
  <2>4. \A i \in (Pending' + 1)..Len(chan') : chan'[i] = Terminate
    <3> SUFFICES ASSUME NEW i \in (Pending' + 1)..Len(chan') PROVE chan'[i] = Terminate
      OBVIOUS
    <3>1. i + 1 \in (Pending + 1)..Len(chan) /\ i \in 1..(Len(chan) - 1)
      BY <1>2, <1>4, <2>1, Counts
    <3> QED
      BY <3>1, RecvTail DEF OrderInv
  <2> QED
    BY <1>6, <2>1, <2>2, <2>3, <2>4 DEF OrderInv
<1>8. Stopped = {}
  BY <1>2 DEF StopInv
<1>9. StopInv' /\ CountInv' /\ EnoughInv'
  <2>1. mpc' = mpc /\ k' = k /\ ReceiverAlive
    BY RecvTail DEF mainVars
  <2> QED
    BY <1>4, <1>6, <1>8, <2>1 DEF StopInv, CountInv, EnoughInv
<1>10. FinishedInv'
  <2>1. /\ wpc'[w] = "run" /\ msg'[w] = Len(started) + 1 /\ finished' = finished
        /\ wpc[w] = "recv"
        /\ \A v \in Workers \ {w} : wpc'[v] = wpc[v] /\ msg'[v] = msg[v]
    BY <1>1, <1>2, RecvTail DEF TypeOK
  <2>2. Len(started) \in Nat /\ Len(started') = Len(started) + 1
    BY <1>3, Counts
  <2> QED
    BY <2>1, <2>2 DEF FinishedInv
<1>11. JoinInv' /\ NeverPoisoned' /\ DropFailsAfterJobPanic'
  <2>1. /\ wpc'[w] = "run" /\ wpc[w] = "recv"
        /\ \A v \in Workers \ {w} : wpc'[v] = wpc[v]
        /\ UNCHANGED <<poisoned, mainVars>>
    BY <1>1, RecvTail DEF TypeOK
  <2> QED
    BY <2>1 DEF JoinInv, NeverPoisoned, DropFailsAfterJobPanic, mainVars
<1> QED
  BY <1>5, <1>7, <1>9, <1>10, <1>11

\* A Terminate is taken: no job is left, and one worker less takes messages.
LEMMA TakeTerminateKeepsIInv ==
  ASSUME IInv, NEW w \in Workers, Recv(w), Head(chan) = Terminate
  PROVE  IInv'
<1> USE DEF IInv
<1>1. wpc' = [wpc EXCEPT ![w] = "stop"] /\ started' = started
  BY RecvFindsMessage DEF Recv
<1>2. Pending = 0 /\ Terminates = Len(chan) /\ Len(chan) \in Nat /\ Len(chan) > 0
  <2>1. Pending \in Nat /\ Terminates \in Nat /\ Len(chan) \in Nat /\ Len(chan) > 0
        /\ Head(chan) = chan[1] /\ Len(started) \in Nat
    BY RecvTail, Counts DEF OrderInv
  <2>2. Pending # 0 => chan[1] = Len(started) + 1
    BY <2>1, RecvTail DEF OrderInv
  <2> QED
    BY <2>1, <2>2 DEF Terminates, Terminate
<1>3. Pending' = 0 /\ Terminates' = Terminates - 1 /\ Len(chan') = Len(chan) - 1
  <2>1. accepted' = accepted /\ Len(chan') = Len(chan) - 1
    BY RecvTail DEF mainVars
  <2> QED
    BY <1>1, <1>2, <2>1 DEF Pending, Terminates
<1>4. TypeOK'
  <2>1. msg' \in [Workers -> Jobs \cup {Terminate}] /\ lock' \in Workers \cup {Free}
        /\ wpc' \in [Workers -> {"lock", "recv", "run", "stop", "exited", "panicked"}]
    BY <1>1, RecvTail DEF TypeOK
  <2>2. chan' \in Seq(Jobs \cup {Terminate}) /\ UNCHANGED <<fate, poisoned, finished, mainVars>>
    BY RecvTail
  <2> QED
    BY <1>1, <2>1, <2>2 DEF TypeOK, mainVars
<1>5. wpc[w] = "recv" /\ wpc'[w] = "stop" /\ \A v \in Workers \ {w} : wpc'[v] = wpc[v]
  BY <1>1, RecvTail DEF TypeOK
<1>6. Takers' = Takers \ {w} /\ Stopped' = Stopped \cup {w} /\ ReceiverAlive'
      /\ w \notin Stopped /\ w \in Takers
  BY <1>5 DEF Takers, Stopped, ReceiverAlive, Dead
<1>7. OrderInv'
  <2>1. \A i \in 1..Len(chan') : chan'[i] = Terminate
    <3> SUFFICES ASSUME NEW i \in 1..Len(chan') PROVE chan'[i] = Terminate
      OBVIOUS
    <3>1. i + 1 \in (Pending + 1)..Len(chan) /\ i \in 1..(Len(chan) - 1)
      BY <1>2, <1>3
    <3> QED
      BY <3>1, RecvTail DEF OrderInv
  <2> QED
    BY <1>1, <1>2, <1>3, <1>6, <2>1 DEF OrderInv
<1>8. mpc # "accept" /\ mpc' = mpc /\ k' = k /\ ReceiverAlive
  <2>1. mpc # "accept"
    <3>1. mpc = "accept" => Cardinality(Stopped) + Terminates <= 0
      BY RecvTail DEF CountInv
    <3> QED
      BY <1>2, <3>1, Counts
  <2> QED
    BY <2>1, RecvTail DEF mainVars
<1>9. /\ Cardinality(Takers') = Cardinality(Takers) - 1
      /\ Cardinality(Stopped') = Cardinality(Stopped) + 1
      /\ Cardinality(Takers) \in Nat /\ Cardinality(Stopped) \in Nat /\ Terminates \in Nat
      /\ k \in Nat /\ Size \in Nat
  <2>1. Takers \in SUBSET Workers /\ Stopped \in SUBSET Workers /\ w \in Workers \ Stopped
    BY <1>6, Counts
  <2>2. Cardinality(Takers \ {w}) = Cardinality(Takers) - 1
    BY <1>6, <2>1, Sizes
  <2>3. Cardinality(Stopped \cup {w}) = Cardinality(Stopped) + 1
    BY <2>1, Sizes
  <2>4. Cardinality(Takers) \in Nat /\ Cardinality(Stopped) \in Nat /\ k \in Nat /\ Size \in Nat
    BY Counts, SizeAssumption DEF TypeOK
  <2> QED
    BY <1>2, <1>6, <2>2, <2>3, <2>4
<1>10. StopInv'
  BY <1>3, <1>8 DEF StopInv
<1>11. CountInv'
  <2> SUFFICES ASSUME mpc = "terminate" PROVE CountInv'
    BY <1>8 DEF CountInv
  <2>1. Cardinality(Stopped) + Terminates <= k /\ Cardinality(Takers) + k <= Size + Terminates
    BY <1>8 DEF CountInv
  <2>2. /\ Cardinality(Stopped') <= k /\ Cardinality(Stopped') + Terminates' <= k
        /\ Cardinality(Takers') + k <= Size + Terminates'
    BY <1>2, <1>3, <1>9, <2>1
  <2> QED
    BY <1>8, <2>2 DEF CountInv
<1>12. EnoughInv'
  <2> SUFFICES ASSUME mpc # "terminate" PROVE EnoughInv'
    BY <1>8 DEF EnoughInv
  <2>1. Cardinality(Takers') <= Terminates'
    BY <1>3, <1>8, <1>9 DEF EnoughInv
  <2> QED
    BY <2>1 DEF EnoughInv
<1>13. FinishedInv'
  <2>1. finished' = finished /\ \A v \in Workers \ {w} : msg'[v] = msg[v]
    BY RecvTail DEF TypeOK
  <2> QED
    BY <1>1, <1>5, <2>1 DEF FinishedInv
<1>14. JoinInv' /\ NeverPoisoned' /\ DropFailsAfterJobPanic'
  <2>1. UNCHANGED <<poisoned, mainVars>>
    BY RecvTail
  <2> QED
    BY <1>5, <2>1 DEF JoinInv, NeverPoisoned, DropFailsAfterJobPanic, mainVars
<1> QED
  BY <1>4, <1>7, <1>10, <1>11, <1>12, <1>13, <1>14

\* The handler has answered.
LEMMA AnswerKeepsIInv == ASSUME IInv, NEW w \in Workers, Answer(w) PROVE IInv'
<1> USE DEF IInv
<1>1. /\ wpc[w] = "run" /\ finished' = finished \cup {msg[w]}
      /\ wpc' = [wpc EXCEPT ![w] = "lock"]
      /\ UNCHANGED <<fate, chan, lock, poisoned, msg, started, mainVars>>
  BY DEF Answer
<1>2. msg[w] \in 1..Len(started) /\ Len(started) \in Nat
  BY <1>1, Counts DEF FinishedInv
<1>3. msg[w] \in Jobs
  BY <1>2, JobNumbers DEF TypeOK, Terminate
<1>4. wpc'[w] = "lock" /\ \A v \in Workers \ {w} : wpc'[v] = wpc[v]
  BY <1>1 DEF TypeOK
<1>5. TypeOK'
  BY <1>1, <1>3 DEF TypeOK, mainVars
<1>6. Takers' = Takers /\ Stopped' = Stopped /\ (ReceiverAlive' <=> ReceiverAlive)
      /\ Pending' = Pending /\ Terminates' = Terminates
  BY <1>1, <1>4 DEF Takers, Stopped, ReceiverAlive, Dead, Pending, Terminates, mainVars
<1>7. OrderInv' /\ StopInv' /\ CountInv' /\ EnoughInv'
  BY <1>1, <1>6 DEF OrderInv, StopInv, CountInv, EnoughInv, mainVars
<1>8. FinishedInv'
  BY <1>1, <1>2, <1>4 DEF FinishedInv
<1>9. JoinInv' /\ NeverPoisoned' /\ DropFailsAfterJobPanic'
  BY <1>1, <1>4 DEF JoinInv, NeverPoisoned, DropFailsAfterJobPanic, mainVars
<1> QED
  BY <1>5, <1>7, <1>8, <1>9

\* A worker ends, of a job that panicked or because it was told to; the last one
\* takes the channel with it.
LEMMA DieKeepsIInv ==
  ASSUME IInv, NEW w \in Workers, JobPanics(w) \/ Stop(w)
  PROVE  IInv'
<1> USE DEF IInv
<1>1. PICK how \in {"panicked", "exited"} :
        /\ Die(w, how) /\ UNCHANGED <<fate, lock, poisoned, msg, started, finished, mainVars>>
        /\ (how = "panicked" /\ wpc[w] = "run") \/ (how = "exited" /\ wpc[w] = "stop")
  <2>1. CASE JobPanics(w)
    BY <2>1 DEF JobPanics
  <2>2. CASE Stop(w)
    BY <2>2 DEF Stop
  <2> QED
    BY <2>1, <2>2
<1>2. wpc'[w] = how /\ \A v \in Workers \ {w} : wpc'[v] = wpc[v]
  BY <1>1 DEF Die, TypeOK
<1>3. /\ ReceiverAlive
      /\ ReceiverAlive' => chan' = chan
      /\ ~ReceiverAlive' => chan' = <<>>
  BY <1>1, <1>2 DEF Die, ReceiverAlive, Dead
<1>4. TypeOK'
  <2>1. chan' \in Seq(Jobs \cup {Terminate})
    BY <1>3, EmptySeq DEF TypeOK
  <2>2. wpc' \in [Workers -> {"lock", "recv", "run", "stop", "exited", "panicked"}]
    BY <1>1 DEF Die, TypeOK
  <2> QED
    BY <1>1, <2>1, <2>2 DEF TypeOK, mainVars
<1>5. Stopped' = Stopped /\ Takers' \in {Takers, Takers \ {w}}
      /\ Pending' = Pending /\ (ReceiverAlive' => Terminates' = Terminates)
  <2>1. Stopped' = Stopped /\ Takers' \in {Takers, Takers \ {w}}
    BY <1>1, <1>2 DEF Stopped, Takers
  <2> QED
    BY <1>1, <1>3, <2>1 DEF Pending, Terminates, mainVars
<1>6. Cardinality(Takers') \in Nat /\ Cardinality(Takers') <= Cardinality(Takers)
      /\ Cardinality(Takers) \in Nat /\ Cardinality(Stopped) \in Nat /\ k \in Nat /\ Size \in Nat
      /\ Terminates \in Int
  <2>1. Cardinality(Takers \ {w}) <= Cardinality(Takers)
        /\ Cardinality(Takers \ {w}) \in Nat
    <3>1. IsFiniteSet(Takers) /\ Takers \ {w} \in SUBSET Takers /\ Takers \ {w} \in SUBSET Workers
      BY Sizes, Counts
    <3> QED
      BY <3>1, Sizes, FS_Subset
  <2>2. Cardinality(Takers) \in Nat /\ Cardinality(Stopped) \in Nat /\ k \in Nat /\ Size \in Nat
        /\ Terminates \in Int
    BY Counts, SizeAssumption DEF TypeOK
  <2> QED
    BY <1>5, <2>1, <2>2
<1>7. OrderInv'
  BY <1>1, <1>3, <1>5 DEF OrderInv
<1>8. StopInv'
  BY <1>1, <1>5 DEF StopInv, mainVars
<1>9. CountInv'
  <2> SUFFICES ASSUME mpc \in {"accept", "terminate"} PROVE CountInv'
    BY <1>1 DEF CountInv, mainVars
  <2>1. Cardinality(Stopped) + Terminates <= k /\ Cardinality(Takers) + k <= Size + Terminates
        /\ Cardinality(Stopped) <= k /\ (mpc = "accept" => k = 0)
    BY <1>3 DEF CountInv
  <2>2. Cardinality(Takers') + k <= Size + Terminates
    BY <1>6, <2>1
  <2> QED
    BY <1>1, <1>5, <2>1, <2>2 DEF CountInv, mainVars
<1>10. EnoughInv'
  <2> SUFFICES ASSUME mpc \notin {"accept", "terminate"}, ReceiverAlive' PROVE EnoughInv'
    BY <1>1 DEF EnoughInv, mainVars
  <2>1. Cardinality(Takers) <= Terminates
    BY <1>3 DEF EnoughInv
  <2>2. Cardinality(Takers') <= Terminates
    BY <1>6, <2>1
  <2> QED
    BY <1>5, <2>2 DEF EnoughInv
<1>11. FinishedInv'
  BY <1>1, <1>2 DEF FinishedInv
<1>12. JoinInv' /\ NeverPoisoned' /\ DropFailsAfterJobPanic'
  BY <1>1, <1>2 DEF JoinInv, NeverPoisoned, DropFailsAfterJobPanic, mainVars
<1> QED
  BY <1>4, <1>7, <1>8, <1>9, <1>10, <1>11, <1>12

-----------------------------------------------------------------------------
\* The invariant holds for any number of workers and connections.
THEOREM Invariance == Spec => []IInv
<1>1. Init => IInv
  BY InitIInv
<1>2. IInv /\ [Next]_vars => IInv'
  <2> SUFFICES ASSUME IInv, [Next]_vars PROVE IInv'
    OBVIOUS
  <2>1. CASE UNCHANGED vars
    <3>1. UNCHANGED workerVars /\ UNCHANGED mainVars /\ UNCHANGED <<fate, chan>>
      BY <2>1 DEF vars, workerVars, mainVars
    <3>2. Takers' = Takers /\ Stopped' = Stopped /\ ReceiverAlive' = ReceiverAlive
          /\ Pending' = Pending /\ Terminates' = Terminates
      BY <3>1, WorkersUntouched DEF mainVars
    <3> QED
      BY <3>1, <3>2 DEF IInv, TypeOK, OrderInv, StopInv, CountInv, EnoughInv, FinishedInv,
           JoinInv, NeverPoisoned, DropFailsAfterJobPanic, workerVars, mainVars
  <2>2. CASE Accept \/ SendTerminate \/ Silent
    BY <2>2, AcceptKeepsIInv, SendTerminateKeepsIInv, SilentKeepsIInv
  <2>3. ASSUME NEW w \in Workers, Worker(w) PROVE IInv'
    BY <2>3, LockKeepsIInv, TakeJobKeepsIInv, TakeTerminateKeepsIInv, AnswerKeepsIInv,
       DieKeepsIInv DEF Worker
  <2> QED
    BY <2>1, <2>2, <2>3 DEF Next, Main, Drop, Silent, StayBlocked, Over
<1> QED
  BY <1>1, <1>2, PTL DEF Spec

\* Every variable keeps its type; no worker receives from a closed channel.
THEOREM TypeCorrectness == Spec => [](TypeOK /\ NeverPoisoned)
<1>1. IInv => TypeOK /\ NeverPoisoned
  BY DEF IInv
<1> QED
  BY <1>1, Invariance, PTL

\* No job is lost, repeated or overtaken while a worker lives.
THEOREM JobsInOrder == Spec => []ChannelHoldsTheRest
<1>1. IInv => ChannelHoldsTheRest
  <2> SUFFICES ASSUME IInv PROVE ChannelHoldsTheRest
    OBVIOUS
  <2> USE DEF IInv
  <2>1. started = [i \in 1..Len(started) |-> i]
    <3>1. started \in [1..Len(started) -> Jobs]
      BY LenProperties DEF TypeOK
    <3> QED
      BY <3>1 DEF OrderInv
  <2>2. Pending \in Nat /\ Rest = [i \in 1..Pending |-> Len(started) + i]
    BY DEF OrderInv, Rest, Pending
  <2>3. Rest \in Seq(Nat) /\ Len(Rest) = Pending
    <3>1. Rest \in [1..Pending -> Nat]
      BY <2>2, Counts
    <3> QED
      BY <2>2, <3>1, SeqDef, LenProperties
  <2>4. ASSUME ReceiverAlive
        PROVE  /\ Len(Rest) <= Len(chan) /\ SubSeq(chan, 1, Len(Rest)) = Rest
               /\ \A i \in (Len(Rest) + 1)..Len(chan) : chan[i] = Terminate
    <3>1. Pending <= Len(chan)
      BY <2>2, <2>4, Counts DEF OrderInv, Terminates
    <3>2. \A i \in 1..Pending : chan[i] = Rest[i] /\ chan[i] \in Nat
      BY <2>2, <2>4, Counts DEF OrderInv
    <3>3. /\ SubSeq(chan, 1, Pending) \in Seq(Nat) /\ Len(SubSeq(chan, 1, Pending)) = Pending
          /\ \A i \in 1..Pending : SubSeq(chan, 1, Pending)[i] = chan[i]
      BY <2>2, <3>2, SubSeqProperties
    <3>4. SubSeq(chan, 1, Pending) = Rest
      BY <2>3, <3>2, <3>3, SeqEqual
    <3> QED
      BY <2>3, <2>4, <3>1, <3>4 DEF OrderInv
  <2> QED
    BY <2>1, <2>4 DEF ChannelHoldsTheRest
<1> QED
  BY <1>1, Invariance, PTL

\* While drop joins there is a Terminate for every worker that still takes messages.
THEOREM TerminatesSuffice == Spec => []EnoughTerminates
<1>1. IInv => EnoughTerminates
  <2> SUFFICES ASSUME IInv, mpc = "join"
               PROVE  Cardinality(Takers) <= Cardinality({i \in DOMAIN chan : chan[i] = Terminate})
    BY DEF EnoughTerminates, Takers
  <2> USE DEF IInv
  <2> DEFINE Found == {i \in DOMAIN chan : chan[i] = Terminate}
  <2>1. DOMAIN chan = 1..Len(chan) /\ Len(chan) \in Nat
    BY LenProperties DEF TypeOK
  <2>2. IsFiniteSet(Found) /\ Cardinality(Found) \in Nat
    <3>1. IsFiniteSet(1..Len(chan)) /\ Found \in SUBSET (1..Len(chan))
      BY <2>1, FS_Interval
    <3> QED
      BY <3>1, FS_Subset, FS_CardinalityType
  <2>3. CASE ReceiverAlive
    <3>1. Pending \in Nat /\ Terminates \in Nat /\ Cardinality(Takers) <= Terminates
      BY <2>3 DEF OrderInv, EnoughInv
    <3>2. (Pending + 1)..Len(chan) \in SUBSET Found
      BY <2>1, <2>3, <3>1 DEF OrderInv
    <3>3. Cardinality((Pending + 1)..Len(chan)) <= Cardinality(Found)
      BY <2>2, <3>2, FS_Subset
    <3>4. Cardinality((Pending + 1)..Len(chan)) = Terminates
      <4>1. Pending + 1 \in Int /\ Len(chan) \in Int /\ Terminates = Len(chan) - Pending
        BY <2>1, <3>1 DEF Terminates
      <4>2. Cardinality((Pending + 1)..Len(chan)) =
              IF Pending + 1 > Len(chan) THEN 0 ELSE Len(chan) - (Pending + 1) + 1
        BY <4>1, FS_Interval
      <4> QED
        BY <3>1, <4>1, <4>2
    <3> QED
      BY <2>2, <3>1, <3>3, <3>4, Counts
  <2>4. CASE ~ReceiverAlive
    <3>1. Takers = {}
      BY <2>4 DEF ReceiverAlive, Dead, Takers
    <3> QED
      BY <2>2, <3>1, Sizes
  <2> QED
    BY <2>3, <2>4
<1> QED
  BY <1>1, Invariance, PTL

\* A drop that gets through both loops leaves no job unanswered and no worker.
THEOREM Shutdown == Spec => []GracefulShutdown
<1>1. IInv => GracefulShutdown
  <2> SUFFICES ASSUME IInv, mpc \in {"returned", "panicked"}, k = Size
               PROVE  /\ finished = 1..accepted
                      /\ \A w \in Workers : wpc[w] = "exited"
                      /\ chan = <<>>
    BY DEF GracefulShutdown
  <2> USE DEF IInv
  <2>1. \A w \in Workers : wpc[w] = "exited"
    BY DEF JoinInv
  <2>2. chan = <<>>
    BY <2>1 DEF OrderInv, ReceiverAlive, Dead
  <2>3. Len(started) = accepted
    <3>1. 1 \in Workers
      BY SizeAssumption DEF Workers
    <3>2. Pending = 0
      BY <2>1, <3>1 DEF StopInv, Stopped
    <3> QED
      BY <3>2, Counts DEF Pending, TypeOK
  <2>4. finished = 1..Len(started)
    BY <2>1 DEF FinishedInv
  <2> QED
    BY <2>1, <2>2, <2>3, <2>4
<1> QED
  BY <1>1, Invariance, PTL

\* drop fails half way only when a job has panicked.
THEOREM DropFailure == Spec => []DropFailsAfterJobPanic
<1>1. IInv => DropFailsAfterJobPanic
  BY DEF IInv
<1> QED
  BY <1>1, Invariance, PTL

-----------------------------------------------------------------------------
(***************************************************************************)
(* Progress.  The guards of the threads that are scheduled, written out;   *)
(* at least one of them holds as long as there is something to be done,    *)
(* and the whole program takes a bounded number of steps.                  *)
(***************************************************************************)
MainReady ==
  \/ mpc = "accept" /\ accepted = Take
  \/ mpc = "terminate"
  \/ mpc = "join" /\ (k = Size \/ Dead(k + 1))
  \/ mpc \in {"returned", "panicked"} /\ ~exited

WorkerReady(w) == ~exited /\
  \/ wpc[w] = "lock" /\ lock = Free
  \/ wpc[w] = "recv" /\ (chan # <<>> \/ ~SenderAlive)
  \/ wpc[w] = "run" /\ fate[msg[w]] # "hangs"
  \/ wpc[w] = "stop"

\* The mutex is held in recv and nowhere else; two workers never run the same
\* job; a worker that panicked did so in its job; an abort ends the process.
LockInv == \A w \in Workers : wpc[w] = "recv" <=> lock = w
DistinctInv == \A v, w \in Workers :
  wpc[v] = "run" /\ wpc[w] = "run" /\ msg[v] = msg[w] => v = w
PanickedInv == \A w \in Workers : wpc[w] = "panicked" =>
  msg[w] \in Jobs /\ fate[msg[w]] = "panics"
AbortInv == mpc = "aborted" => exited
PInv == LockInv /\ DistinctInv /\ PanickedInv /\ AbortInv

\* A job that runs is one of those received.
LEMMA JobAtHand ==
  ASSUME IInv, NEW w \in Workers, wpc[w] = "run"
  PROVE  msg[w] \in Jobs /\ msg[w] \in 1..Len(started) /\ Len(started) \in Nat
<1>1. msg[w] \in 1..Len(started) /\ Len(started) \in Nat
  BY Counts DEF IInv, FinishedInv
<1> QED
  BY <1>1, JobNumbers DEF IInv, TypeOK, Terminate

\* No step of main touches what the workers share.
LEMMA MainKeepsPInv ==
  ASSUME IInv, PInv, Accept \/ SendTerminate \/ Silent
  PROVE  PInv'
<1>1. UNCHANGED workerVars /\ fate' = fate
  BY DEF Accept, SendTerminate, Silent, AcceptPanics, LeaveMain, SendTerminateFails,
       BeginJoin, Join, JoinFails, EndDrop, ProcessExit
<1>2. mpc' = "aborted" => exited'
  BY DEF PInv, AbortInv, Accept, SendTerminate, Silent, AcceptPanics, LeaveMain,
       SendTerminateFails, BeginJoin, Join, JoinFails, EndDrop, ProcessExit, PanicInDrop
<1> QED
  BY <1>1, <1>2 DEF PInv, LockInv, DistinctInv, PanickedInv, AbortInv, workerVars

\* The job received is none of those that run (lib.rs:20).
LEMMA RecvKeepsPInv == ASSUME IInv, PInv, NEW w \in Workers, Recv(w) PROVE PInv'
<1>1. /\ wpc[w] = "recv" /\ lock' = Free /\ msg' = [msg EXCEPT ![w] = Head(chan)]
      /\ UNCHANGED <<fate, mainVars>>
  BY RecvTail
<1>2. wpc' = [wpc EXCEPT ![w] = IF Head(chan) = Terminate THEN "stop" ELSE "run"]
  BY RecvFindsMessage DEF Recv
<1>3. wpc'[w] \in {"stop", "run"} /\ msg'[w] = Head(chan)
      /\ \A v \in Workers \ {w} : wpc'[v] = wpc[v] /\ msg'[v] = msg[v]
  BY <1>1, <1>2 DEF IInv, TypeOK
<1>4. LockInv'
  <2>1. \A v \in Workers \ {w} : wpc[v] # "recv"
    BY <1>1 DEF PInv, LockInv
  <2>2. Free \notin Workers
    BY DEF Free, Workers
  <2> QED
    BY <1>1, <1>3, <2>1, <2>2 DEF LockInv
<1>5. DistinctInv'
  <2>1. wpc'[w] = "run" => Head(chan) = Len(started) + 1
    <3>1. wpc'[w] = "run" => Head(chan) # Terminate
      BY <1>2 DEF IInv, TypeOK
    <3>2. Head(chan) = chan[1] /\ Len(chan) \in Nat /\ Len(chan) > 0 /\ ReceiverAlive
      BY RecvTail, Counts DEF IInv
    <3>3. Pending \in Nat
      BY DEF IInv, OrderInv
    <3>4. Pending = 0 => chan[1] = Terminate
      BY <3>2, <3>3 DEF IInv, OrderInv
    <3>5. Pending # 0 => chan[1] = Len(started) + 1
      BY <3>2, <3>3 DEF IInv, OrderInv
    <3> QED
      BY <3>1, <3>2, <3>4, <3>5
  <2>2. \A v \in Workers \ {w} : wpc[v] = "run" => msg[v] # Len(started) + 1
    BY JobAtHand
  <2> QED
    BY <1>3, <2>1, <2>2 DEF PInv, DistinctInv
<1>6. PanickedInv' /\ AbortInv'
  BY <1>1, <1>3 DEF PInv, PanickedInv, AbortInv, mainVars
<1> QED
  BY <1>4, <1>5, <1>6 DEF PInv

\* A step of a worker.
LEMMA WorkerKeepsPInv == ASSUME IInv, PInv, NEW w \in Workers, Worker(w) PROVE PInv'
<1>1. CASE Recv(w)
  BY <1>1, RecvKeepsPInv
<1>2. CASE Lock(w)
  <2>1. wpc[w] = "lock" /\ wpc' = [wpc EXCEPT ![w] = "recv"] /\ lock = Free /\ lock' = w
        /\ UNCHANGED <<fate, chan, msg, started, finished, mainVars>>
    BY <1>2 DEF Lock, IInv, NeverPoisoned
  <2>2. wpc'[w] = "recv" /\ \A v \in Workers \ {w} : wpc'[v] = wpc[v]
    BY <2>1 DEF IInv, TypeOK
  <2>3. Free \notin Workers
    BY DEF Free, Workers
  <2> QED
    BY <2>1, <2>2, <2>3 DEF PInv, LockInv, DistinctInv, PanickedInv, AbortInv, mainVars
<1>3. CASE Answer(w)
  <2>1. wpc[w] = "run" /\ wpc' = [wpc EXCEPT ![w] = "lock"]
        /\ UNCHANGED <<fate, lock, msg, mainVars>>
    BY <1>3 DEF Answer
  <2>2. wpc'[w] = "lock" /\ \A v \in Workers \ {w} : wpc'[v] = wpc[v]
    BY <2>1 DEF IInv, TypeOK
  <2> QED
    BY <2>1, <2>2 DEF PInv, LockInv, DistinctInv, PanickedInv, AbortInv, mainVars
<1>4. CASE JobPanics(w)
  <2>1. wpc[w] = "run" /\ fate[msg[w]] = "panics" /\ wpc' = [wpc EXCEPT ![w] = "panicked"]
        /\ UNCHANGED <<fate, lock, msg, mainVars>> /\ msg[w] \in Jobs
    BY <1>4, JobAtHand DEF JobPanics, Die
  <2>2. wpc'[w] = "panicked" /\ \A v \in Workers \ {w} : wpc'[v] = wpc[v]
    BY <2>1 DEF IInv, TypeOK
  <2> QED
    BY <2>1, <2>2 DEF PInv, LockInv, DistinctInv, PanickedInv, AbortInv, mainVars
<1>5. CASE Stop(w)
  <2>1. wpc[w] = "stop" /\ wpc' = [wpc EXCEPT ![w] = "exited"]
        /\ UNCHANGED <<fate, lock, msg, mainVars>>
    BY <1>5 DEF Stop, Die
  <2>2. wpc'[w] = "exited" /\ \A v \in Workers \ {w} : wpc'[v] = wpc[v]
    BY <2>1 DEF IInv, TypeOK
  <2> QED
    BY <2>1, <2>2 DEF PInv, LockInv, DistinctInv, PanickedInv, AbortInv, mainVars
<1> QED
  BY <1>1, <1>2, <1>3, <1>4, <1>5 DEF Worker

\* These hold in every state.
LEMMA ProgressInvariance == Spec => []PInv
<1>1. Init => PInv
  BY DEF Init, PInv, LockInv, DistinctInv, PanickedInv, AbortInv, Workers, Free
<1>2. IInv /\ PInv /\ [Next]_vars => PInv'
  <2> SUFFICES ASSUME IInv, PInv, [Next]_vars PROVE PInv'
    OBVIOUS
  <2>1. CASE UNCHANGED vars
    BY <2>1 DEF vars, PInv, LockInv, DistinctInv, PanickedInv, AbortInv
  <2>2. CASE Accept \/ SendTerminate \/ Silent
    BY <2>2, MainKeepsPInv
  <2>3. ASSUME NEW w \in Workers, Worker(w) PROVE PInv'
    BY <2>3, WorkerKeepsPInv
  <2> QED
    BY <2>1, <2>2, <2>3 DEF Next, Main, Drop, Silent, StayBlocked, Over
<1> QED
  BY <1>1, <1>2, Invariance, PTL DEF Spec

\* The worker that holds the mutex finds a message if jobs are pending or drop joins.
LEMMA HolderReady ==
  ASSUME IInv, PInv, ~exited, NEW w \in Workers, wpc[w] \in {"lock", "recv"},
         Pending # 0 \/ mpc = "join"
  PROVE  \E v \in Workers : WorkerReady(v)
<1>1. CASE wpc[w] = "lock" /\ lock = Free
  BY <1>1 DEF WorkerReady
<1>2. CASE ~(wpc[w] = "lock" /\ lock = Free)
  <2>1. PICK v \in Workers : wpc[v] = "recv"
    BY <1>2 DEF IInv, TypeOK, PInv, LockInv
  <2>2. ReceiverAlive /\ v \in Takers
    BY <2>1 DEF ReceiverAlive, Dead, Takers
  <2>3. Pending \in Nat /\ Terminates \in Nat /\ Len(chan) \in Nat
    BY <2>2, Counts DEF IInv, OrderInv
  <2>4. Pending = 0 => Terminates > 0
    <3>1. mpc = "join" => Cardinality(Takers) <= Terminates
      BY <2>2 DEF IInv, EnoughInv
    <3>2. Cardinality(Takers) > 0 /\ Cardinality(Takers) \in Nat
      <4>1. Takers \in SUBSET Workers /\ Cardinality(Takers) \in Nat
        BY Counts DEF IInv
      <4> QED
        BY <2>2, <4>1, Sizes
    <3> QED
      BY <3>1, <3>2, <2>3
  <2>5. Len(chan) > 0
    BY <2>3, <2>4 DEF Terminates
  <2>6. chan # <<>>
    BY <2>5, EmptySeq
  <2> QED
    BY <2>1, <2>6 DEF WorkerReady
<1> QED
  BY <1>1, <1>2

\* If no handler hangs, main or a worker can take a step from the end of the
\* accept loop until the process is over: drop (lib.rs:80-97) never deadlocks with
\* the workers, whatever panics.
THEOREM ShutdownNeverStalls ==
  Spec => [](mpc # "accept" /\ ~exited /\ Hanging = {} =>
               MainReady \/ \E w \in Workers : WorkerReady(w))
<1>1. IInv /\ PInv => (mpc # "accept" /\ ~exited /\ Hanging = {} =>
                         MainReady \/ \E w \in Workers : WorkerReady(w))
  <2> SUFFICES ASSUME IInv, PInv, mpc # "accept", ~exited, Hanging = {}, ~MainReady
               PROVE  \E w \in Workers : WorkerReady(w)
    OBVIOUS
  <2>1. mpc = "join" /\ k # Size /\ ~Dead(k + 1)
    BY DEF MainReady, PInv, AbortInv, IInv, TypeOK
  <2> DEFINE w == k + 1
  <2>2. w \in Workers
    BY <2>1, SizeAssumption DEF IInv, TypeOK, Workers
  <2>3. wpc[w] \in {"lock", "recv", "run", "stop"}
    BY <2>1, <2>2 DEF Dead, IInv, TypeOK
  <2> HIDE DEF w
  <2>4. CASE wpc[w] \in {"lock", "recv"}
    BY <2>1, <2>2, <2>4, HolderReady
  <2>5. CASE wpc[w] = "run"
    BY <2>2, <2>5, JobAtHand DEF Hanging, WorkerReady
  <2>6. CASE wpc[w] = "stop"
    BY <2>2, <2>6 DEF WorkerReady
  <2> QED
    BY <2>3, <2>4, <2>5, <2>6
<1> QED
  BY <1>1, Invariance, ProgressInvariance, PTL

\* With fewer hanging handlers than workers, and none that panics, some worker
\* can take a step as long as an accepted job has not been started: a hung
\* handler costs one worker, not the queue.
THEOREM JobsNeverStall ==
  Spec => [](/\ Len(started) < accepted /\ ~exited /\ Cardinality(Hanging) < Size
             /\ \A i \in Jobs : fate[i] # "panics"
             => \E w \in Workers : WorkerReady(w))
<1>1. IInv /\ PInv =>
        (/\ Len(started) < accepted /\ ~exited /\ Cardinality(Hanging) < Size
         /\ \A i \in Jobs : fate[i] # "panics"
         => \E w \in Workers : WorkerReady(w))
  <2> SUFFICES ASSUME IInv, PInv, Len(started) < accepted, ~exited,
                      Cardinality(Hanging) < Size, \A i \in Jobs : fate[i] # "panics",
                      \A w \in Workers : ~WorkerReady(w)
               PROVE  FALSE
    OBVIOUS
  <2>1. Pending # 0
    BY Counts DEF Pending, IInv, TypeOK
  <2>2. \A w \in Workers : wpc[w] \notin {"stop", "exited"}
    BY <2>1 DEF IInv, StopInv, Stopped
  <2>3. \A w \in Workers : wpc[w] # "panicked"
    BY DEF PInv, PanickedInv
  <2>4. \A w \in Workers : wpc[w] \notin {"lock", "recv"}
    BY <2>1, HolderReady
  <2>5. \A w \in Workers : wpc[w] = "run"
    BY <2>2, <2>3, <2>4 DEF IInv, TypeOK
  <2>6. \A w \in Workers : msg[w] \in Hanging
    BY <2>5, JobAtHand DEF WorkerReady, Hanging
  <2>7. msg \in Injection(Workers, Hanging)
    <3>1. msg \in [Workers -> Hanging]
      BY <2>6 DEF IInv, TypeOK
    <3>2. \A v, w \in Workers : msg[v] = msg[w] => v = w
      BY <2>5 DEF PInv, DistinctInv
    <3> QED
      BY <3>1, <3>2 DEF Injection, IsInjective
  <2>8. IsFiniteSet(Hanging) /\ Cardinality(Hanging) \in Nat
    <3>1. IsFiniteSet(Jobs) /\ Hanging \subseteq Jobs
      BY FS_Interval, TakeAssumption DEF Jobs, Hanging
    <3> QED
      BY <3>1, FS_Subset, FS_CardinalityType
  <2>9. Size <= Cardinality(Hanging)
    BY <2>7, <2>8, FS_Injection, Sizes
  <2> QED
    BY <2>8, <2>9, SizeAssumption
<1> QED
  BY <1>1, Invariance, ProgressInvariance, PTL

-----------------------------------------------------------------------------
\* What is left to do.  A worker's weight falls with every step but the receipt
\* of a job, and that one takes a message, which weighs more; a message to be
\* sent weighs more than one in the channel.
Weight(p) ==
  CASE p = "run" -> 3 [] p = "lock" -> 2 [] p \in {"recv", "stop"} -> 1 [] OTHER -> 0
One(p, states) == IF p \in states THEN 1 ELSE 0
Busy(pc, states) == Cardinality({w \in Workers : pc[w] \in states})
Effort(pc) == Busy(pc, {"lock", "recv", "run", "stop"}) + Busy(pc, {"lock", "run"})
              + Busy(pc, {"run"})

ToSend ==
  IF mpc = "accept" THEN Size + (Take - accepted)
  ELSE IF mpc = "terminate" THEN Size - k ELSE 0

MainLeft ==
  IF mpc = "accept" THEN Size + 4 + (Take - accepted)
  ELSE IF mpc = "terminate" THEN Size + 3
  ELSE IF mpc = "join" THEN (Size - k) + 2
  ELSE IF exited THEN 0 ELSE 1

Total(effort, messages, toSend, left) == effort + 3 * messages + 4 * toSend + left
Remaining == Total(Effort(wpc), Len(chan), ToSend, MainLeft)

\* How a step may change the parts for the total to fall.
LEMMA TotalFalls ==
  ASSUME NEW e \in Nat, NEW l \in Nat, NEW t \in Nat, NEW m \in Nat,
         NEW e2 \in Nat, NEW l2 \in Nat, NEW t2 \in Nat, NEW m2 \in Nat,
         \/ e2 < e /\ l2 <= l /\ t2 = t /\ m2 = m
         \/ e2 <= e + 2 /\ l2 = l - 1 /\ t2 = t /\ m2 = m
         \/ e2 = e /\ l2 = l + 1 /\ t2 = t - 1 /\ m2 <= m
         \/ e2 = e /\ l2 = l /\ t2 <= t /\ m2 < m
  PROVE  Total(e2, l2, t2, m2) < Total(e, l, t, m)
BY DEF Total

\* So many workers are where they are, and one that moves changes that by one.
LEMMA BusyRange == \A f, states : Busy(f, states) \in 0..Size
<1> SUFFICES ASSUME NEW f, NEW states PROVE Busy(f, states) \in 0..Size
  OBVIOUS
<1>1. {w \in Workers : f[w] \in states} \in SUBSET Workers
  OBVIOUS
<1> QED
  BY <1>1, Sizes DEF Busy

LEMMA BusyMoves ==
  ASSUME NEW f, NEW g, NEW w \in Workers, \A v \in Workers \ {w} : g[v] = f[v]
  PROVE  \A states : Busy(g, states) = Busy(f, states) + One(g[w], states) - One(f[w], states)
<1> SUFFICES ASSUME NEW states
             PROVE  Busy(g, states) = Busy(f, states) + One(g[w], states) - One(f[w], states)
  OBVIOUS
<1> DEFINE F == {v \in Workers : f[v] \in states}
           G == {v \in Workers : g[v] \in states}
<1>1. F \in SUBSET Workers /\ G \in SUBSET Workers
  OBVIOUS
<1>2. Busy(f, states) = Cardinality(F) /\ Busy(g, states) = Cardinality(G)
      /\ Cardinality(F) \in Int /\ Cardinality(G) \in Int
  BY <1>1, Sizes DEF Busy
<1>3. CASE g[w] \in states /\ f[w] \notin states
  <2>1. G = F \cup {w} /\ w \in Workers \ F
    BY <1>3
  <2>2. Cardinality(G) = Cardinality(F) + 1
    BY <1>1, <2>1, Sizes
  <2> QED
    BY <1>2, <1>3, <2>2 DEF One
<1>4. CASE g[w] \notin states /\ f[w] \in states
  <2>1. G = F \ {w} /\ w \in F
    BY <1>4
  <2>2. Cardinality(G) = Cardinality(F) - 1
    BY <1>1, <2>1, Sizes
  <2> QED
    BY <1>2, <1>4, <2>2 DEF One
<1>5. CASE g[w] \in states <=> f[w] \in states
  <2>1. G = F
    BY <1>5
  <2>2. One(g[w], states) = One(f[w], states) /\ One(g[w], states) \in Int
    BY <1>5 DEF One
  <2> HIDE DEF F, G
  <2> QED
    BY <1>2, <2>1, <2>2
<1> QED
  BY <1>3, <1>4, <1>5

\* The effort changes by the weights of the worker that moves.
LEMMA EffortMoves ==
  ASSUME NEW f, NEW g, NEW w \in Workers, \A v \in Workers \ {w} : g[v] = f[v]
  PROVE  /\ Effort(f) \in 0..(3 * Size) /\ Effort(g) \in 0..(3 * Size)
         /\ Effort(g) = Effort(f) + Weight(g[w]) - Weight(f[w])
<1> DEFINE A == {"lock", "recv", "run", "stop"}
           B == {"lock", "run"}
           C == {"run"}
<1>0. \A S : Busy(g, S) = Busy(f, S) + One(g[w], S) - One(f[w], S)
  BY BusyMoves
<1>1. /\ Busy(f, A) \in 0..Size /\ Busy(g, A) = Busy(f, A) + One(g[w], A) - One(f[w], A)
      /\ Busy(f, B) \in 0..Size /\ Busy(g, B) = Busy(f, B) + One(g[w], B) - One(f[w], B)
      /\ Busy(f, C) \in 0..Size /\ Busy(g, C) = Busy(f, C) + One(g[w], C) - One(f[w], C)
      /\ Busy(g, A) \in 0..Size /\ Busy(g, B) \in 0..Size /\ Busy(g, C) \in 0..Size
  <2> HIDE DEF A, B, C
  <2> QED
    BY <1>0, BusyRange
<1>2. \A q : Weight(q) = One(q, A) + One(q, B) + One(q, C)
  BY DEF Weight, One
<1>3. \A q : One(q, A) \in Int /\ One(q, B) \in Int /\ One(q, C) \in Int
  BY DEF One
<1>4. Effort(f) = Busy(f, A) + Busy(f, B) + Busy(f, C)
      /\ Effort(g) = Busy(g, A) + Busy(g, B) + Busy(g, C)
  BY DEF Effort
<1>5. Weight(g[w]) = One(g[w], A) + One(g[w], B) + One(g[w], C)
      /\ Weight(f[w]) = One(f[w], A) + One(f[w], B) + One(f[w], C)
      /\ One(g[w], A) \in Int /\ One(g[w], B) \in Int /\ One(g[w], C) \in Int
      /\ One(f[w], A) \in Int /\ One(f[w], B) \in Int /\ One(f[w], C) \in Int
  BY <1>2, <1>3
<1> HIDE DEF A, B, C
<1>6. Effort(f) \in 0..(3 * Size) /\ Effort(g) \in 0..(3 * Size)
  BY <1>1, <1>4, SizeAssumption
<1>7. Effort(g) = Effort(f) + Weight(g[w]) - Weight(f[w])
  BY <1>1, <1>4, <1>5, SizeAssumption
<1> QED
  BY <1>6, <1>7

\* The parts of Remaining are numbers.
LEMMA Parts ==
  ASSUME IInv
  PROVE  /\ Effort(wpc) \in 0..(3 * Size) /\ Len(chan) \in Nat /\ Size \in Nat \ {0}
         /\ Take \in Nat /\ accepted \in 0..Take /\ k \in 0..Size
         /\ ToSend \in 0..(Size + Take) /\ MainLeft \in 0..(Size + Take + 4)
<1>1. Effort(wpc) \in 0..(3 * Size)
  <2>1. 1 \in Workers
    BY SizeAssumption DEF Workers
  <2>2. wpc \in [Workers -> {"lock", "recv", "run", "stop", "exited", "panicked"}]
    BY DEF IInv, TypeOK
  <2> QED
    BY <2>1, <2>2, EffortMoves
<1>2. Len(chan) \in Nat /\ Size \in Nat \ {0} /\ Take \in Nat /\ accepted \in 0..Take
      /\ k \in 0..Size
  BY Counts DEF IInv, TypeOK
<1>3. ToSend \in 0..(Size + Take)
  BY <1>2 DEF ToSend
<1>4. MainLeft \in 0..(Size + Take + 4)
  BY <1>2 DEF MainLeft
<1> QED
  BY <1>1, <1>2, <1>3, <1>4

\* The same, as natural numbers.
LEMMA Numbers ==
  ASSUME IInv
  PROVE  /\ Effort(wpc) \in Nat /\ Len(chan) \in Nat /\ ToSend \in Nat /\ MainLeft \in Nat
         /\ Size \in Nat /\ Take \in Nat /\ accepted \in Nat /\ k \in Nat
         /\ accepted <= Take /\ k <= Size /\ Size > 0
<1>1. /\ Effort(wpc) \in Nat /\ ToSend \in Nat /\ MainLeft \in Nat
  BY Parts
<1> QED
  BY <1>1, Parts

\* A step of a worker.
LEMMA WorkerSpends ==
  ASSUME IInv, NEW w \in Workers, Worker(w)
  PROVE  Remaining' < Remaining
<1>1. UNCHANGED mainVars /\ ToSend' = ToSend /\ MainLeft' = MainLeft
  BY DEF Worker, Lock, Recv, Answer, JobPanics, Stop, mainVars, ToSend, MainLeft
<1>2. wpc \in [Workers -> {"lock", "recv", "run", "stop", "exited", "panicked"}]
  BY DEF IInv, TypeOK
<1>3. ASSUME NEW p, wpc' = [wpc EXCEPT ![w] = p]
      PROVE  /\ Effort(wpc') = Effort(wpc) + Weight(p) - Weight(wpc[w])
             /\ Effort(wpc') \in Nat /\ Effort(wpc) \in Nat
  <2>1. /\ Effort(wpc') = Effort(wpc) + Weight(p) - Weight(wpc[w])
        /\ Effort(wpc') \in 0..(3 * Size) /\ Effort(wpc) \in 0..(3 * Size)
    <3>1. wpc'[w] = p /\ \A v \in Workers \ {w} : wpc'[v] = wpc[v]
      BY <1>2, <1>3
    <3> QED
      BY <3>1, EffortMoves
  <2> QED
    BY <2>1
<1>4. ASSUME NEW p, Die(w, p), wpc[w] \in {"run", "stop"}, p \in {"exited", "panicked"}
      PROVE  Effort(wpc') < Effort(wpc) /\ Effort(wpc') \in Nat
             /\ Len(chan') \in Nat /\ Len(chan') <= Len(chan)
  <2>1. Effort(wpc') = Effort(wpc) + Weight(p) - Weight(wpc[w])
        /\ Effort(wpc') \in Nat /\ Effort(wpc) \in Nat
    BY <1>3, <1>4 DEF Die
  <2>2. Weight(p) = 0 /\ Weight(wpc[w]) \in {1, 3}
    BY <1>4 DEF Weight
  <2>3. Effort(wpc') < Effort(wpc)
    BY <2>1, <2>2
  <2>4. chan' = chan \/ Len(chan') = 0
    BY <1>4, EmptySeq DEF Die
  <2>5. Len(chan) \in Nat
    BY Numbers
  <2> QED
    BY <2>1, <2>3, <2>4, <2>5
<1>5. /\ Effort(wpc') \in Nat /\ Len(chan') \in Nat
      /\ \/ Effort(wpc') < Effort(wpc) /\ Len(chan') <= Len(chan)
         \/ Effort(wpc') <= Effort(wpc) + 2 /\ Len(chan') = Len(chan) - 1
  <2>1. CASE Lock(w)
    <3>1. wpc[w] = "lock" /\ wpc' = [wpc EXCEPT ![w] = "recv"] /\ chan' = chan
      BY <2>1 DEF Lock, IInv, NeverPoisoned
    <3>2. Effort(wpc') = Effort(wpc) + Weight("recv") - Weight("lock")
          /\ Effort(wpc') \in Nat /\ Effort(wpc) \in Nat
      BY <1>3, <3>1
    <3>3. Weight("recv") = 1 /\ Weight("lock") = 2
      BY DEF Weight
    <3>4. Effort(wpc') < Effort(wpc)
      BY <3>2, <3>3
    <3>5. Len(chan) \in Nat
      BY Numbers
    <3> QED
      BY <3>1, <3>2, <3>4, <3>5
  <2>2. CASE Recv(w)
    <3> DEFINE p == IF Head(chan) = Terminate THEN "stop" ELSE "run"
    <3>1. wpc[w] = "recv" /\ wpc' = [wpc EXCEPT ![w] = p] /\ Len(chan') = Len(chan) - 1
          /\ Len(chan) > 0
      BY <2>2, RecvFindsMessage, RecvTail DEF Recv
    <3>2. Effort(wpc') = Effort(wpc) + Weight(p) - Weight("recv")
          /\ Effort(wpc') \in Nat /\ Effort(wpc) \in Nat
      BY <1>3, <3>1
    <3>3. Weight("recv") = 1 /\ Weight(p) \in {1, 3}
      BY DEF Weight
    <3> HIDE DEF p
    <3>4. Effort(wpc') <= Effort(wpc) + 2
      BY <3>2, <3>3
    <3>5. Len(chan') \in Nat
      BY <3>1, Numbers
    <3> QED
      BY <3>1, <3>2, <3>4, <3>5
  <2>3. CASE Answer(w)
    <3>1. wpc[w] = "run" /\ wpc' = [wpc EXCEPT ![w] = "lock"] /\ chan' = chan
      BY <2>3 DEF Answer
    <3>2. Effort(wpc') = Effort(wpc) + Weight("lock") - Weight("run")
          /\ Effort(wpc') \in Nat /\ Effort(wpc) \in Nat
      BY <1>3, <3>1
    <3>3. Weight("run") = 3 /\ Weight("lock") = 2
      BY DEF Weight
    <3>4. Effort(wpc') < Effort(wpc)
      BY <3>2, <3>3
    <3>5. Len(chan) \in Nat
      BY Numbers
    <3> QED
      BY <3>1, <3>2, <3>4, <3>5
  <2>4. CASE JobPanics(w) \/ Stop(w)
    <3>1. PICK p \in {"exited", "panicked"} : Die(w, p) /\ wpc[w] \in {"run", "stop"}
      BY <2>4 DEF JobPanics, Stop
    <3> QED
      BY <1>4, <3>1
  <2> QED
    BY <2>1, <2>2, <2>3, <2>4 DEF Worker
<1>6. Remaining' = Total(Effort(wpc'), Len(chan'), ToSend, MainLeft)
  BY <1>1 DEF Remaining
<1>7. Effort(wpc) \in Nat /\ Len(chan) \in Nat /\ ToSend \in Nat /\ MainLeft \in Nat
  BY Numbers
<1> QED
  BY <1>5, <1>6, <1>7, TotalFalls DEF Remaining

\* A step of main that sends.
LEMMA SendSpends ==
  ASSUME IInv, Accept \/ SendTerminate
  PROVE  Remaining' < Remaining
<1>1. wpc' = wpc /\ mpc' = mpc /\ Len(chan') = Len(chan) + 1
  <2>1. chan \in Seq(Jobs \cup {Terminate})
    BY DEF IInv, TypeOK
  <2>2. accepted < Take => accepted + 1 \in Jobs \cup {Terminate}
    BY Numbers DEF Jobs
  <2>3. Terminate \in Jobs \cup {Terminate}
    OBVIOUS
  <2>4. \A x \in Jobs \cup {Terminate} : Len(Append(chan, x)) = Len(chan) + 1
    BY <2>1, AppendProperties
  <2> QED
    BY <2>2, <2>3, <2>4 DEF Accept, SendTerminate, workerVars
<1>2. ToSend' = ToSend - 1 /\ ToSend' \in Nat /\ MainLeft' \in Nat /\ MainLeft' <= MainLeft
  <2>1. CASE Accept
    <3>1. mpc = "accept" /\ mpc' = "accept" /\ accepted' = accepted + 1 /\ accepted < Take
      BY <2>1 DEF Accept
    <3>2. Size \in Nat /\ Take \in Nat /\ accepted \in Nat
      BY Numbers
    <3>3. /\ ToSend = Size + (Take - accepted) /\ MainLeft = Size + 4 + (Take - accepted)
          /\ ToSend' = Size + (Take - (accepted + 1))
          /\ MainLeft' = Size + 4 + (Take - (accepted + 1))
      BY <3>1 DEF ToSend, MainLeft
    <3> QED
      BY <3>1, <3>2, <3>3
  <2>2. CASE SendTerminate
    <3>1. mpc = "terminate" /\ mpc' = "terminate" /\ k' = k + 1 /\ k < Size
      BY <2>2 DEF SendTerminate
    <3>2. Size \in Nat /\ k \in Nat
      BY Numbers
    <3>3. /\ ToSend = Size - k /\ MainLeft = Size + 3
          /\ ToSend' = Size - (k + 1) /\ MainLeft' = Size + 3
      BY <3>1 DEF ToSend, MainLeft
    <3> QED
      BY <3>1, <3>2, <3>3
  <2> QED
    BY <2>1, <2>2
<1>3. Remaining' = Total(Effort(wpc), Len(chan'), ToSend', MainLeft')
  BY <1>1 DEF Remaining
<1>4. Effort(wpc) \in Nat /\ Len(chan) \in Nat /\ ToSend \in Nat /\ MainLeft \in Nat
  BY Numbers
<1>5. Len(chan') \in Nat
  BY <1>1, <1>4
<1> QED
  BY <1>1, <1>2, <1>3, <1>4, <1>5, TotalFalls DEF Remaining

\* Another step of main.
LEMMA SilentSpends ==
  ASSUME IInv, Silent
  PROVE  Remaining' < Remaining
<1>1. wpc' = wpc /\ chan' = chan /\ accepted' = accepted
  BY SilentSteps DEF workerVars
<1>2. ToSend' \in Nat /\ MainLeft' \in Nat /\ ToSend' <= ToSend /\ MainLeft' < MainLeft
  <2>0. Size \in Nat /\ Take \in Nat /\ accepted \in Nat /\ k \in Nat
        /\ accepted <= Take /\ k <= Size
    BY Numbers
  <2>0a. ToSend \in Nat /\ MainLeft \in Nat
    BY Numbers
  <2>1. CASE AcceptPanics \/ LeaveMain
    <3>1. mpc = "accept" /\ mpc' = "terminate" /\ k' = k /\ k = 0
      BY <2>1 DEF AcceptPanics, LeaveMain, IInv, CountInv
    <3> QED
      BY <2>0, <3>1 DEF ToSend, MainLeft
  <2>2. CASE SendTerminateFails \/ JoinFails \/ EndDrop
    <3>1. mpc \in {"terminate", "join"} /\ mpc' \in {"aborted", "panicked", "returned"}
      BY <2>2 DEF SendTerminateFails, JoinFails, EndDrop, PanicInDrop
    <3>2. ToSend' = 0 /\ MainLeft' \in {0, 1}
      BY <3>1 DEF ToSend, MainLeft
    <3>3. MainLeft >= 2
      BY <2>0, <3>1 DEF MainLeft
    <3> QED
      BY <3>2, <3>3, <2>0a
  <2>3. CASE BeginJoin
    <3>1. mpc = "terminate" /\ mpc' = "join" /\ k' = 0
      BY <2>3 DEF BeginJoin
    <3> QED
      BY <2>0, <3>1 DEF ToSend, MainLeft
  <2>4. CASE Join
    <3>1. mpc = "join" /\ mpc' = "join" /\ k' = k + 1
      BY <2>4 DEF Join
    <3> QED
      BY <2>0, <3>1 DEF ToSend, MainLeft
  <2>5. CASE ProcessExit
    <3>1. mpc' = mpc /\ mpc \in {"returned", "panicked"} /\ ~exited /\ exited'
      BY <2>5 DEF ProcessExit
    <3> QED
      BY <3>1 DEF ToSend, MainLeft
  <2> QED
    BY <2>1, <2>2, <2>3, <2>4, <2>5 DEF Silent
<1>3. Remaining' = Total(Effort(wpc), Len(chan), ToSend', MainLeft')
  BY <1>1 DEF Remaining
<1>4. Effort(wpc) \in Nat /\ Len(chan) \in Nat /\ ToSend \in Nat /\ MainLeft \in Nat
  BY Numbers
<1> QED
  BY <1>2, <1>3, <1>4, TotalFalls DEF Remaining

\* Every step spends some of Remaining, so the program makes no more steps than it
\* has at the start, for any number of workers and connections: no thread spins,
\* and the shutdown (lib.rs:80-97) is over after so many steps of main and the workers.
THEOREM StepsAreBounded ==
  Spec => [](Remaining \in 0..(7 * Size + 5 * Take + 4)) /\ [][Remaining' < Remaining]_vars
<1> DEFINE Bounded == Remaining \in 0..(7 * Size + 5 * Take + 4)
<1>1. Init => Bounded
  <2> SUFFICES ASSUME Init PROVE Bounded
    OBVIOUS
  <2>1. Effort(wpc) = 2 * Size
    <3>1. /\ {w \in Workers : wpc[w] \in {"lock", "recv", "run", "stop"}} = Workers
          /\ {w \in Workers : wpc[w] \in {"lock", "run"}} = Workers
          /\ {w \in Workers : wpc[w] \in {"run"}} = {}
      BY DEF Init
    <3>2. Effort(wpc) = Cardinality(Workers) + Cardinality(Workers) + Cardinality({})
      BY <3>1 DEF Effort, Busy
    <3> QED
      BY <3>2, Sizes, SizeAssumption
  <2>2. Len(chan) = 0 /\ ToSend = Size + Take /\ MainLeft = Size + 4 + Take
    BY SizeAssumption, TakeAssumption, EmptySeq DEF Init, ToSend, MainLeft
  <2> QED
    BY <2>1, <2>2, SizeAssumption, TakeAssumption DEF Remaining, Total
<1>2. IInv => Remaining \in Nat
  <2> SUFFICES ASSUME IInv PROVE Remaining \in Nat
    OBVIOUS
  <2>1. \A e, l, t, m \in Nat : Total(e, l, t, m) \in Nat
    BY DEF Total
  <2> QED
    BY <2>1, Numbers DEF Remaining
<1>2a. IInv' => (Remaining \in Nat)'
  BY <1>2, PTL
<1>3. IInv /\ [Next]_vars => [Remaining' < Remaining]_vars
  <2> SUFFICES ASSUME IInv, Next, ~UNCHANGED vars PROVE Remaining' < Remaining
    OBVIOUS
  <2>1. CASE Accept \/ SendTerminate \/ Silent
    BY <2>1, SendSpends, SilentSpends
  <2>2. ASSUME NEW w \in Workers, Worker(w) PROVE Remaining' < Remaining
    BY <2>2, WorkerSpends
  <2> QED
    BY <2>1, <2>2 DEF Next, Main, Drop, Silent, StayBlocked, Over
<1>4. IInv /\ IInv' /\ Bounded /\ [Next]_vars => Bounded'
  <2> SUFFICES ASSUME IInv, IInv', Bounded, [Next]_vars PROVE Bounded'
    OBVIOUS
  <2>1. Remaining' \in Nat
    BY <1>2a
  <2>2. CASE UNCHANGED vars
    BY <2>2 DEF vars, Remaining, ToSend, MainLeft
  <2>3. CASE Remaining' < Remaining
    BY <2>1, <2>3, SizeAssumption, TakeAssumption
  <2> QED
    BY <1>3, <2>2, <2>3
<1> QED
  BY <1>1, <1>3, <1>4, Invariance, PTL DEF Spec
=============================================================================

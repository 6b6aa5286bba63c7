--------------------------- MODULE QueuePrograms ---------------------------
(***************************************************************************)
(* The programs that use the queues, composed with LockBasedQueue: test()  *)
(* of lock_based_queue.rs (lock_free_queue.rs has the same one) and        *)
(* lock_based_test of benches/benchmark.rs (lock_free_test likewise).  The *)
(* third program, "free", is any other: threads that call as they please.  *)
(* LockFreeQueue promises its callers the same FifoQueue.                  *)
(***************************************************************************)
EXTENDS LockBasedQueue, SequencesExt

CONSTANTS
  Main,        \* the thread of the program; it spawns the others
  Partner,     \* the one thread that test() spawns
  Size,        \* what one thread enqueues: 100 in test(), `size` in the benchmark
  FreeValues,  \* what "free" enqueues
  FreeLength   \* bound on the values queued or under way in "free"

ASSUME ProgramThreads == Main \in Threads /\ Partner \in Threads \ {Main}
ASSUME ProgramSize == Size \in Nat /\ Values = 0..(2 * Size - 1)

VARIABLES
  program,     \* "test", "bench" or "free"
  at,          \* where each thread is in it
  todo,        \* the values it still has to enqueue
  left,        \* the dequeues it still has to make
  got          \* what was dequeued, but for the None that ends test()

progVars == <<program, at, todo, left, got>>

Pair == {Main, Partner}
Numbers(from) == [i \in 1..Size |-> from + i - 1]

\* The threads have been spawned; those of the benchmark enqueue at once.
Start(prog) ==
  /\ at = [t \in Threads |->
             CASE prog = "test" -> IF t \in Pair THEN "arrive" ELSE "done"
               [] prog = "bench" -> IF t = Main THEN "join" ELSE "enqueue"
               [] OTHER -> "free"]
  /\ todo = [t \in Threads |->
               CASE prog = "test" /\ t = Partner -> Numbers(0)
                 [] prog = "test" /\ t = Main -> Numbers(Size)
                 [] prog = "bench" /\ t # Main -> [i \in 1..Size |-> 1]
                 [] OTHER -> <<>>]
  /\ left = [t \in Threads |-> IF prog = "bench" /\ t # Main THEN Size ELSE 0]

ProgramInit ==
  /\ Init /\ got = <<>>
  /\ program \in {"test", "bench", "free"}
  /\ Start(program)

Advance(t, from, to) == at[t] = from /\ at' = [at EXCEPT ![t] = to]

\* barrier.wait() is a call, and a return once both threads have called.
Arrive(t) ==
  /\ Advance(t, "arrive", "barrier")
  /\ UNCHANGED <<vars, program, todo, left, got>>

\* Barrier::new(3): one more than there are threads to come.
PassWithAThird(t) ==
  /\ Advance(t, "barrier", "enqueue")
  /\ \A s \in Threads : at[s] \notin {"arrive", "done"}
  /\ UNCHANGED <<vars, program, todo, left, got>>

Pass(t) ==
  /\ Advance(t, "barrier", "enqueue")
  /\ \A s \in Pair : at[s] # "arrive"
  /\ UNCHANGED <<vars, program, todo, left, got>>

EnqueueNext(t) ==
  /\ at[t] = "enqueue" /\ todo[t] # <<>>
  /\ CallEnqueue(t) /\ arg'[t] = Head(todo[t])
  /\ todo' = [todo EXCEPT ![t] = Tail(@)]
  /\ UNCHANGED <<program, at, left, got>>

\* The end of the loop that enqueues.
EnqueuedAll(t) ==
  /\ todo[t] = <<>> /\ pc[t] = "idle"
  /\ Advance(t, "enqueue", IF program = "bench" THEN "dequeue"
                           ELSE IF t = Main THEN "join" ELSE "done")
  /\ UNCHANGED <<vars, program, todo, left, got>>

DequeueNext(t) ==
  /\ at[t] = "dequeue" /\ left[t] > 0
  /\ CallDequeue(t)
  /\ left' = [left EXCEPT ![t] = @ - 1]
  /\ UNCHANGED <<program, at, todo, got>>

DequeuedAll(t) ==
  /\ left[t] = 0 /\ pc[t] = "idle"
  /\ Advance(t, "dequeue", "done")
  /\ UNCHANGED <<vars, program, todo, left, got>>

\* The handle is dropped and its thread detached.
JoinNothing ==
  /\ Advance(Main, "join", IF program = "test" THEN "drain" ELSE "done")
  /\ UNCHANGED <<vars, program, todo, left, got>>

Join ==
  /\ \A t \in Threads \ {Main} : at[t] = "done"
  /\ Advance(Main, "join", IF program = "test" THEN "drain" ELSE "done")
  /\ UNCHANGED <<vars, program, todo, left, got>>

\* while let Some(v) = dequeue()
Drain == at[Main] = "drain" /\ CallDequeue(Main) /\ UNCHANGED progVars

\* A call returns to the program: the first None ends the loop of test().
ReturnTo(t) ==
  /\ Return(t)
  /\ IF op[t] = "dequeue" /\ at[t] \in {"dequeue", "drain"}
     THEN IF at[t] = "drain" /\ ret[t] = None
          THEN Advance(t, "drain", "done") /\ UNCHANGED got
          ELSE got' = Append(got, ret[t]) /\ UNCHANGED at
     ELSE UNCHANGED <<at, got>>
  /\ UNCHANGED <<program, todo, left>>

FreeCall(t) ==
  /\ at[t] = "free"
  /\ \/ /\ Cardinality(Enqueuing) + Len(inner) < FreeLength
        /\ CallEnqueue(t) /\ arg'[t] \in FreeValues
     \/ CallDequeue(t)
  /\ UNCHANGED progVars

Over == at[Main] = "done" /\ (\A t \in Threads : at[t] = "done") /\ UNCHANGED <<vars, progVars>>

Inside(t) == (ReadList(t) \/ PushBack(t) \/ PopFront(t) \/ Unlock(t)) /\ UNCHANGED progVars
LockStep(t) == Lock(t) /\ UNCHANGED progVars

ProgramStep(t) ==
  \/ Arrive(t) \/ Pass(t) \/ EnqueueNext(t) \/ EnqueuedAll(t) \/ DequeueNext(t)
  \/ DequeuedAll(t) \/ (t = Main /\ (Join \/ Drain))

ProgramNext ==
  \/ \E t \in Threads : ProgramStep(t) \/ Inside(t) \/ LockStep(t) \/ ReturnTo(t) \/ FreeCall(t)
  \/ Over

\* As in Spec; the programs' own steps are scheduled too, free calls need not be made.
ProgramSpec ==
  /\ ProgramInit /\ [][ProgramNext]_<<vars, progVars>>
  /\ \A t \in Threads :
       /\ WF_<<vars, progVars>>(ProgramStep(t) \/ Inside(t) \/ ReturnTo(t))
       /\ SF_<<vars, progVars>>(LockStep(t))

-----------------------------------------------------------------------------
\* Numbers of the same thread grow, so that no number is there twice.
SameThread(v, w) == v < Size <=> w < Size
Ordered(s) == \A i, j \in DOMAIN s : i < j /\ SameThread(s[i], s[j]) => s[i] < s[j]

\* What is put in comes out.  No dequeue of the benchmark finds the queue empty,
\* since a thread dequeues no more than it has enqueued before.  When a program is
\* over the queue is empty, and test() has printed all numbers, each thread's in order:
\* the barrier and the join keep the drain behind both loops (lock_based_queue.rs:52).
AllComeBack ==
  /\ None \notin ToSet(got)
  /\ at[Main] = "done" => inner = <<>> /\ \A t \in Threads : todo[t] = <<>>
  /\ at[Main] = "done" /\ program = "test" => ToSet(got) = Values /\ Ordered(got)

\* No call hangs, whoever calls, and both programs end: the barrier opens and every
\* join returns.
ProgramEnds ==
  /\ CallsReturn
  /\ (program # "free") => <>(at[Main] = "done")
=============================================================================

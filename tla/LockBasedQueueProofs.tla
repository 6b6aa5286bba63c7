------------------------ MODULE LockBasedQueueProofs ------------------------
(***************************************************************************)
(* The invariant of LockBasedQueue, that it implements FifoQueue, and what *)
(* comes out of the programs that use it, for any number of threads and    *)
(* values; that these programs never stall, and how much each thread has   *)
(* left to do.                                                             *)
(***************************************************************************)
EXTENDS QueuePrograms, SequenceTheorems, FiniteSetTheorems, TLAPS

\* A new list is empty and nobody holds the mutex (new, lock_based_queue.rs:9-13).
LEMMA InitIInv == Init => IInv
  BY LbqValues DEF Init, IInv, TypeOK, MutexInv, CallInv

\* A step is one of a thread, or changes nothing.
Action(t) == CallEnqueue(t) \/ CallDequeue(t) \/ Lock(t) \/ Step(t)

\* Types: what is popped or pushed is a value.
LEMMA ActionTypes ==
  ASSUME IInv, NEW t \in Threads, Action(t)
  PROVE  TypeOK'
<1> USE DEF IInv, TypeOK, Goto
<1>1. CASE CallEnqueue(t)
  BY <1>1 DEF CallEnqueue
<1>2. CASE CallDequeue(t)
  BY <1>2 DEF CallDequeue
<1>3. CASE Lock(t)
  BY <1>3 DEF Lock
<1>4. CASE ReadList(t)
  BY <1>4 DEF ReadList
<1>5. CASE PushBack(t)
  BY <1>5, arg[t] \in Values DEF PushBack, CallInv
<1>6. CASE PopFront(t)
  <2>1. seen[t] # <<>> => Head(seen[t]) \in Values /\ Tail(seen[t]) \in Seq(Values)
    OBVIOUS
  <2>2. inner' \in Seq(Values) /\ ret' \in [Threads -> Values \cup {None}]
    BY <1>6, <2>1 DEF PopFront
  <2> QED
    BY <1>6, <2>2 DEF PopFront
<1>7. CASE Unlock(t)
  BY <1>7 DEF Unlock
<1>8. CASE Return(t)
  BY <1>8 DEF Return
<1> QED
  BY <1>1, <1>2, <1>3, <1>4, <1>5, <1>6, <1>7, <1>8 DEF Action, Step

\* The mutex: a thread that writes holds it, so that another's copy of the list
\* cannot be in use.
LEMMA ActionMutex ==
  ASSUME IInv, NEW t \in Threads, Action(t)
  PROVE  MutexInv'
<1> USE LbqValues DEF IInv, TypeOK, MutexInv, Goto
<1>1. CASE CallEnqueue(t) \/ CallDequeue(t) \/ Return(t)
  BY <1>1 DEF CallEnqueue, CallDequeue, Return
<1>2. CASE Lock(t)
  BY <1>2 DEF Lock
<1>3. CASE ReadList(t)
  BY <1>3 DEF ReadList
<1>4. CASE PushBack(t) \/ PopFront(t)
  <2>1. owner = t /\ owner' = t /\ pc' = [pc EXCEPT ![t] = "unlock"] /\ seen' = seen
    BY <1>4 DEF PushBack, PopFront
  <2> QED
    BY <2>1
<1>5. CASE Unlock(t)
  BY <1>5 DEF Unlock
<1> QED
  BY <1>1, <1>2, <1>3, <1>4, <1>5 DEF Action, Step

\* Each call carries its own argument and result.
LEMMA ActionCalls ==
  ASSUME IInv, NEW t \in Threads, Action(t)
  PROVE  CallInv'
<1> USE LbqValues DEF IInv, TypeOK, CallInv, Goto
<1>1. CASE CallEnqueue(t)
  BY <1>1 DEF CallEnqueue
<1>2. CASE CallDequeue(t)
  BY <1>2 DEF CallDequeue
<1>3. CASE Lock(t) \/ ReadList(t) \/ Unlock(t)
  BY <1>3 DEF Lock, ReadList, Unlock
<1>4. CASE PushBack(t)
  BY <1>4 DEF PushBack
<1>5. CASE PopFront(t)
  BY <1>5 DEF PopFront
<1>6. CASE Return(t)
  BY <1>6 DEF Return
<1> QED
  BY <1>1, <1>2, <1>3, <1>4, <1>5, <1>6 DEF Action, Step

LEMMA NextKeepsIInv == IInv /\ [Next]_vars => IInv'
<1> SUFFICES ASSUME IInv, [Next]_vars PROVE IInv'
  OBVIOUS
<1>1. CASE UNCHANGED vars
  BY <1>1 DEF IInv, TypeOK, MutexInv, CallInv, vars
<1>2. ASSUME NEW t \in Threads, Action(t) PROVE IInv'
  BY <1>2, ActionTypes, ActionMutex, ActionCalls DEF IInv
<1> QED
  BY <1>1, <1>2 DEF Next, Action

\* The mutex is held exactly between lock and the end of the statement, and what a
\* thread writes is based on the list as it is.
THEOREM Invariance == Spec => []IInv
  BY InitIInv, NextKeepsIInv, PTL DEF Spec

-----------------------------------------------------------------------------
\* The refinement: an operation takes effect when it writes the list.

Calls == [t \in Threads |-> Operation(t)]

\* A step of a thread changes no other thread's operation.
LEMMA OthersKeepTheirs ==
  ASSUME IInv, NEW t \in Threads, Action(t)
  PROVE  Calls' = [Calls EXCEPT ![t] = Operation(t)']
<1>1. \A s \in Threads \ {t} :
        pc'[s] = pc[s] /\ op'[s] = op[s] /\ arg'[s] = arg[s] /\ ret'[s] = ret[s]
  BY DEF IInv, TypeOK, Action, Step, Goto, CallEnqueue, CallDequeue, Lock, ReadList,
       PushBack, PopFront, Unlock, Return
<1>2. \A s \in Threads \ {t} : Operation(s)' = Operation(s)
  BY <1>1 DEF Operation
<1> QED
  BY <1>2 DEF Calls

\* A call of enqueue or dequeue.
LEMMA CallsInvoke ==
  ASSUME IInv, NEW t \in Threads, CallEnqueue(t) \/ CallDequeue(t)
  PROVE  Fifo!InvokeEnqueue(t) \/ Fifo!InvokeDequeue(t)
<1> USE DEF IInv, TypeOK, Goto, Calls, Operation
<1>1. Calls' = [Calls EXCEPT ![t] = Operation(t)'] /\ Calls[t] = [op |-> "idle", val |-> None]
  BY OthersKeepTheirs DEF Action, CallEnqueue, CallDequeue
<1>2. CASE CallEnqueue(t)
  <2>1. PICK v \in Values : arg' = [arg EXCEPT ![t] = v]
    BY <1>2 DEF CallEnqueue
  <2>2. Operation(t)' = [op |-> "enqueue", val |-> v] /\ inner' = inner
    BY <1>2, <2>1 DEF CallEnqueue
  <2> QED
    BY <1>1, <2>2 DEF Fifo!InvokeEnqueue, Fifo!Call, Fifo!Idle
<1>3. CASE CallDequeue(t)
  <2>1. Operation(t)' = [op |-> "dequeue", val |-> None] /\ inner' = inner
    BY <1>3 DEF CallDequeue, CallInv
  <2> QED
    BY <1>1, <2>1 DEF Fifo!InvokeDequeue, Fifo!Call, Fifo!Idle
<1> QED
  BY <1>2, <1>3

\* push_back, with the mutex, appends to the list as it is.
LEMMA PushBackApplies ==
  ASSUME IInv, NEW t \in Threads, PushBack(t)
  PROVE  Fifo!ApplyEnqueue(t)
<1>1. Calls' = [Calls EXCEPT ![t] = Operation(t)']
  BY OthersKeepTheirs DEF Action, Step
<1>2. Calls[t] = [op |-> "enqueue", val |-> arg[t]]
  BY DEF PushBack, Goto, Calls, Operation
<1>3. inner' = Append(inner, arg[t])
  BY DEF PushBack, Goto, IInv, MutexInv
<1>4. Operation(t)' = [op |-> "return", val |-> None]
  BY DEF IInv, TypeOK, CallInv, PushBack, Goto, Operation
<1> QED
  BY <1>1, <1>2, <1>3, <1>4 DEF Fifo!ApplyEnqueue, Fifo!Call, Calls

\* pop_front, with the mutex, takes the first item of the list as it is.
LEMMA PopFrontApplies ==
  ASSUME IInv, NEW t \in Threads, PopFront(t)
  PROVE  Fifo!ApplyDequeue(t) \/ Fifo!ApplyDequeueEmpty(t)
<1>1. Calls' = [Calls EXCEPT ![t] = Operation(t)']
  BY OthersKeepTheirs DEF Action, Step
<1>2. Calls[t] = [op |-> "dequeue", val |-> arg[t]] /\ seen[t] = inner
  BY DEF PopFront, Goto, Calls, Operation, IInv, MutexInv
<1>3. Operation(t)' = [op |-> "return", val |-> ret'[t]]
  BY DEF IInv, TypeOK, PopFront, Goto, Operation
<1>4. CASE inner = <<>>
  <2>1. ret'[t] = None /\ inner' = inner
    BY <1>2, <1>4 DEF PopFront, IInv, TypeOK
  <2> QED
    BY <1>1, <1>2, <1>3, <1>4, <2>1 DEF Fifo!ApplyDequeueEmpty, Fifo!Call, Calls
<1>5. CASE inner # <<>>
  <2>1. ret'[t] = Head(inner) /\ inner' = Tail(inner)
    BY <1>2, <1>5 DEF PopFront, IInv, TypeOK
  <2> QED
    BY <1>1, <1>2, <1>3, <1>5, <2>1 DEF Fifo!ApplyDequeue, Fifo!Call, Calls
<1> QED
  BY <1>4, <1>5

\* The return of a call.
LEMMA ReturnReturns ==
  ASSUME IInv, NEW t \in Threads, Return(t)
  PROVE  Fifo!Return(t)
<1>1. Calls' = [Calls EXCEPT ![t] = Operation(t)']
  BY OthersKeepTheirs DEF Action, Step
<1>2. Calls[t].op = "return" /\ Operation(t)' = [op |-> "idle", val |-> None] /\ inner' = inner
  BY DEF IInv, TypeOK, Return, Goto, Calls, Operation
<1> QED
  BY <1>1, <1>2 DEF Fifo!Return, Fifo!Call, Fifo!Idle, Calls

\* Taking the mutex, reading the list and giving the mutex back have no effect that
\* a caller sees.
LEMMA OtherStepsStutter ==
  ASSUME IInv, NEW t \in Threads, Lock(t) \/ ReadList(t) \/ Unlock(t)
  PROVE  UNCHANGED <<inner, Calls>>
<1>1. inner' = inner /\ op' = op /\ arg' = arg /\ ret' = ret
  BY DEF Lock, ReadList, Unlock
<1>2. \/ pc[t] \in {"lock", "read"} /\ pc' = [pc EXCEPT ![t] = "read"]
      \/ pc[t] \in {"lock", "read"} /\ pc' = [pc EXCEPT ![t] = "write"]
      \/ pc[t] = "unlock" /\ pc' = [pc EXCEPT ![t] = "return"]
  BY DEF Lock, ReadList, Unlock, Goto
<1>3. \A s \in Threads : Operation(s)' = Operation(s)
  BY <1>1, <1>2 DEF IInv, TypeOK, Operation
<1> QED
  BY <1>1, <1>3 DEF Calls

LEMMA InitRefines == Init => Fifo!Init
  BY DEF Init, Operation, Fifo!Init, Fifo!Idle, Fifo!Call

LEMMA NextRefines == IInv /\ [Next]_vars => [Fifo!Next]_(Fifo!vars)
<1> SUFFICES ASSUME IInv, [Next]_vars PROVE [Fifo!Next]_(Fifo!vars)
  OBVIOUS
<1>1. ASSUME UNCHANGED <<inner, Calls>> PROVE [Fifo!Next]_(Fifo!vars)
  BY <1>1 DEF Fifo!vars, Calls
<1>2. CASE UNCHANGED vars
  <2>1. UNCHANGED <<inner, Calls>>
    BY <1>2 DEF vars, Calls, Operation
  <2> QED
    BY <1>1, <2>1
<1>3. ASSUME NEW t \in Threads, Action(t) PROVE [Fifo!Next]_(Fifo!vars)
  <2>1. CASE Lock(t) \/ ReadList(t) \/ Unlock(t)
    BY <1>1, <2>1, OtherStepsStutter
  <2>2. CASE CallEnqueue(t) \/ CallDequeue(t) \/ PushBack(t) \/ PopFront(t) \/ Return(t)
    BY <2>2, CallsInvoke, PushBackApplies, PopFrontApplies, ReturnReturns DEF Fifo!Next
  <2> QED
    BY <1>3, <2>1, <2>2 DEF Action, Step
<1> QED
  BY <1>2, <1>3 DEF Next, Action

\* Every history of calls and returns of the lock-based queue is one of the atomic
\* FIFO queue, for any number of threads, calls and values.
THEOREM LinearizableList == Spec => Linearizable
  BY InitRefines, NextRefines, Invariance, PTL DEF Spec, Fifo!Spec, Linearizable

-----------------------------------------------------------------------------
\* The programs that use the queue.

Places == {"arrive", "barrier", "enqueue", "join", "dequeue", "drain", "done", "free"}
Dequeuing == {t \in Threads : op[t] = "dequeue" /\ pc[t] \in {"lock", "read", "write"}}

\* Types, and where the calls of a thread are made.
ControlInv ==
  /\ program \in {"test", "bench", "free"} /\ at \in [Threads -> Places]
  /\ todo \in [Threads -> Seq(Values)] /\ left \in [Threads -> 0..Size]
  /\ got \in Seq(Values)
  /\ \A t \in Threads :
       /\ todo[t] # <<>> => at[t] \in {"arrive", "barrier", "enqueue"}
       /\ op[t] = "enqueue" => at[t] \in {"enqueue", "free"}
       /\ op[t] = "dequeue" => at[t] \in {"dequeue", "drain", "free"}

\* Where the threads of each program are: the last part of one starts when all others
\* are done.
PlacesInv ==
  /\ program = "free" => \A t \in Threads : at[t] = "free"
  /\ program = "test" =>
       /\ at[Main] \in {"arrive", "barrier", "enqueue", "join", "drain", "done"}
       /\ \A t \in Threads \ {Main} :
            /\ at[t] \in {"arrive", "barrier", "enqueue", "done"}
            /\ t # Partner \/ at[Main] \in {"drain", "done"} => at[t] = "done"
  /\ program = "bench" =>
       /\ at[Main] \in {"join", "done"}
       /\ \A t \in Threads \ {Main} :
            /\ at[t] \in {"enqueue", "dequeue", "done"}
            /\ at[t] = "enqueue" => left[t] = Size
            /\ at[t] = "done" => left[t] = 0
            /\ at[Main] = "done" => at[t] = "done"

\* What a thread has not pushed and not popped yet.
Unpushed(t) == Len(todo[t]) + IF t \in Enqueuing THEN 1 ELSE 0
Unpopped(t) == left[t] + IF t \in Dequeuing THEN 1 ELSE 0

\* test(): all that has been pushed, in order, first what has come out.
Pending == IF at[Main] = "drain" /\ pc[Main] \in {"unlock", "return"} /\ ret[Main] # None
           THEN <<ret[Main]>> ELSE <<>>
Line == got \o Pending \o inner

Ended ==
  \/ at[Main] = "drain" /\ pc[Main] \in {"unlock", "return"} /\ ret[Main] = None
  \/ at[Main] = "done"

Thread(v) == IF v < Size THEN Partner ELSE Main
End(t) == IF t = Partner THEN Size ELSE 2 * Size

TestInv == program = "test" =>
  /\ \A t \in Pair :
       /\ Unpushed(t) <= Size
       /\ \A i \in 1..Len(todo[t]) : todo[t][i] = End(t) - Len(todo[t]) + i - 1
       /\ t \in Enqueuing => arg[t] = End(t) - Unpushed(t)
  /\ Ordered(Line)
  /\ \A v \in Values : v \in ToSet(Line) <=> v < End(Thread(v)) - Unpushed(Thread(v))
  /\ Ended => inner = <<>>

\* The benchmark: a ticket for each value in the list, that of a thread which has pushed
\* it and not popped one for it.
Tickets == {p \in (Threads \ {Main}) \X (1..Size) : Unpushed(p[1]) < p[2] /\ p[2] <= Unpopped(p[1])}

BenchInv == program = "bench" =>
  /\ IsFiniteSet(Tickets) /\ Cardinality(Tickets) = Len(inner)
  /\ \A t \in Threads \ {Main} :
       /\ Unpushed(t) <= Size /\ Unpopped(t) <= Size
       /\ op[t] = "dequeue" /\ pc[t] \in {"unlock", "return"} => ret[t] # None

PInv == IInv /\ ControlInv /\ PlacesInv /\ TestInv /\ BenchInv

LEMMA SizeIsNat == Size \in Nat /\ Main \in Threads /\ Partner \in Threads /\ Main # Partner
  BY ProgramSize, ProgramThreads

-----------------------------------------------------------------------------
\* A step of a program is one of the queue or leaves the queue alone.
LEMMA ProgramStepIsStep == [ProgramNext]_<<vars, progVars>> => [Next]_vars
<1> SUFFICES ASSUME [ProgramNext]_<<vars, progVars>> PROVE [Next]_vars
  OBVIOUS
<1>1. ASSUME NEW t \in Threads, ProgramStep(t) PROVE [Next]_vars
  BY <1>1, SizeIsNat DEF ProgramStep, Arrive, Pass, EnqueueNext, EnqueuedAll, DequeueNext, DequeuedAll,
     Join, Drain, Next
<1>2. ASSUME NEW t \in Threads, Inside(t) \/ LockStep(t) \/ ReturnTo(t) \/ FreeCall(t)
      PROVE  [Next]_vars
  BY <1>2 DEF Inside, LockStep, ReturnTo, FreeCall, Next, Step
<1> QED
  BY <1>1, <1>2 DEF ProgramNext, Over

\* The queue's invariant and its promise to the callers hold in the programs.
THEOREM ProgramsKeepInvariant == ProgramSpec => []IInv
<1>1. ProgramInit => IInv
  BY InitIInv DEF ProgramInit
<1>2. IInv /\ [ProgramNext]_<<vars, progVars>> => IInv'
  BY ProgramStepIsStep, NextKeepsIInv
<1> QED
  BY <1>1, <1>2, PTL DEF ProgramSpec

\* Every history of the programs' calls is one of the atomic FIFO queue.
THEOREM ProgramsLinearizable == ProgramSpec => Linearizable
<1>1. ProgramInit => Fifo!Init
  BY InitRefines DEF ProgramInit
<1>2. IInv /\ [ProgramNext]_<<vars, progVars>> => [Fifo!Next]_(Fifo!vars)
  BY ProgramStepIsStep, NextRefines
<1> QED
  BY <1>1, <1>2, ProgramsKeepInvariant, PTL DEF ProgramSpec, Fifo!Spec, Linearizable

-----------------------------------------------------------------------------
\* A step is of one thread.
StepOf(t) == ProgramStep(t) \/ Inside(t) \/ LockStep(t) \/ ReturnTo(t) \/ FreeCall(t)

Local(t) == \A s \in Threads \ {t} :
  /\ at'[s] = at[s] /\ todo'[s] = todo[s] /\ left'[s] = left[s]
  /\ pc'[s] = pc[s] /\ op'[s] = op[s] /\ arg'[s] = arg[s] /\ ret'[s] = ret[s]

LEMMA StepIsLocal ==
  ASSUME IInv, ControlInv, NEW t \in Threads, StepOf(t)
  PROVE  Local(t) /\ program' = program
<1>1. /\ DOMAIN at = Threads /\ DOMAIN todo = Threads /\ DOMAIN left = Threads
      /\ DOMAIN pc = Threads /\ DOMAIN op = Threads /\ DOMAIN arg = Threads /\ DOMAIN ret = Threads
  BY DEF ControlInv, IInv, TypeOK
<1>2. CASE Arrive(t) \/ Pass(t) \/ EnqueuedAll(t) \/ DequeuedAll(t) \/ (t = Main /\ Join)
  BY <1>1, <1>2 DEF Arrive, Pass, EnqueuedAll, DequeuedAll, Join, Advance, Local, vars
<1>3. CASE EnqueueNext(t) \/ DequeueNext(t) \/ (t = Main /\ Drain)
  BY <1>1, <1>3 DEF EnqueueNext, DequeueNext, Drain, CallEnqueue, CallDequeue, Goto, Local, progVars
<1>4. CASE Inside(t) \/ LockStep(t)
  BY <1>1, <1>4 DEF Inside, LockStep, ReadList, PushBack, PopFront, Unlock, Lock, Goto, Local, progVars
<1>5. CASE ReturnTo(t)
  BY <1>1, <1>5 DEF ReturnTo, Return, Goto, Advance, Local
<1>6. CASE FreeCall(t)
  BY <1>1, <1>6 DEF FreeCall, CallEnqueue, CallDequeue, Goto, Local, progVars
<1> QED
  BY <1>2, <1>3, <1>4, <1>5, <1>6 DEF StepOf, ProgramStep

LEMMA OthersCount ==
  ASSUME NEW t \in Threads, Local(t), NEW s \in Threads \ {t}
  PROVE  /\ s \in Enqueuing' <=> s \in Enqueuing
         /\ Unpushed(s)' = Unpushed(s) /\ Unpopped(s)' = Unpopped(s)
<1>1. (s \in Enqueuing' <=> s \in Enqueuing) /\ (s \in Dequeuing' <=> s \in Dequeuing)
  BY DEF Local, Enqueuing, Dequeuing
<1> QED
  BY <1>1 DEF Local, Unpushed, Unpopped

LEMMA UnpushedIs ==
  ASSUME NEW t \in Threads, Len(todo[t]) \in Nat
  PROVE  /\ t \in Enqueuing => Unpushed(t) = Len(todo[t]) + 1
         /\ t \notin Enqueuing => Unpushed(t) = Len(todo[t])
<1>1. CASE t \in Enqueuing
  <2>1. Unpushed(t) = Len(todo[t]) + 1
    BY <1>1 DEF Unpushed
  <2> QED
    BY <1>1, <2>1
<1>2. CASE t \notin Enqueuing
  <2>1. Unpushed(t) = Len(todo[t]) + 0
    BY <1>2 DEF Unpushed
  <2> QED
    BY <1>2, <2>1
<1> QED
  BY <1>1, <1>2

LEMMA UnpoppedIs ==
  ASSUME NEW t \in Threads, left[t] \in Nat
  PROVE  /\ t \in Dequeuing => Unpopped(t) = left[t] + 1
         /\ t \notin Dequeuing => Unpopped(t) = left[t]
<1>1. CASE t \in Dequeuing
  <2>1. Unpopped(t) = left[t] + 1
    BY <1>1 DEF Unpopped
  <2> QED
    BY <1>1, <2>1
<1>2. CASE t \notin Dequeuing
  <2>1. Unpopped(t) = left[t] + 0
    BY <1>2 DEF Unpopped
  <2> QED
    BY <1>2, <2>1
<1> QED
  BY <1>1, <1>2

LEMMA CountsAreNat ==
  ASSUME ControlInv, NEW t \in Threads
  PROVE  Unpushed(t) \in Nat /\ Unpopped(t) \in Nat /\ Len(todo[t]) \in Nat /\ left[t] \in Nat
<1>1. todo[t] \in Seq(Values) /\ left[t] \in 0..Size
  BY DEF ControlInv
<1>2. Len(todo[t]) \in Nat /\ left[t] \in Nat
  BY <1>1, SizeIsNat
<1>3. Unpushed(t) = Len(todo[t]) \/ Unpushed(t) = Len(todo[t]) + 1
  BY <1>2, UnpushedIs
<1>4. Unpopped(t) = left[t] \/ Unpopped(t) = left[t] + 1
  BY <1>2, UnpoppedIs
<1> QED
  BY <1>2, <1>3, <1>4

\* The places of each program.
LEMMA WhereThreadsAre ==
  ASSUME ControlInv, PlacesInv, NEW t \in Threads
  PROVE  /\ at[t] = "free" => program = "free" /\ at[Main] = "free"
         /\ at[t] \in {"arrive", "barrier"} => program = "test" /\ t \in Pair
         /\ at[t] = "drain" => program = "test" /\ t = Main
         /\ at[t] = "dequeue" => program = "bench" /\ t # Main
         /\ at[t] = "join" => program \in {"test", "bench"} /\ t = Main
         /\ at[t] = "enqueue" => (program = "test" /\ t \in Pair) \/ (program = "bench" /\ t # Main)
         /\ at[Main] \in {"drain", "done"} /\ t # Main => at[t] = "done"
<1>1. program \in {"test", "bench", "free"} /\ Main \in Threads
  BY SizeIsNat DEF ControlInv
<1>2. CASE program = "free"
  BY <1>1, <1>2 DEF PlacesInv
<1>3. CASE program = "test"
  <2>1. at[Main] \in {"arrive", "barrier", "enqueue", "join", "drain", "done"}
    BY <1>3 DEF PlacesInv
  <2>2. t # Main => /\ at[t] \in {"arrive", "barrier", "enqueue", "done"}
                    /\ t # Partner \/ at[Main] \in {"drain", "done"} => at[t] = "done"
    BY <1>3 DEF PlacesInv
  <2>3. CASE t = Main
    <3>1. t \in Pair /\ at[t] \in {"arrive", "barrier", "enqueue", "join", "drain", "done"}
      BY <2>1, <2>3 DEF Pair
    <3> QED
      BY <1>3, <2>3, <3>1
  <2>4. CASE t # Main
    BY <1>3, <2>2, <2>4 DEF Pair
  <2> QED
    BY <2>3, <2>4
<1>4. CASE program = "bench"
  BY <1>4 DEF PlacesInv
<1> QED
  BY <1>1, <1>2, <1>3, <1>4

\* What comes back from a call.
LEMMA Returned ==
  ASSUME PInv, NEW t \in Threads, ReturnTo(t)
  PROVE  /\ pc[t] = "return" /\ pc'[t] = "idle" /\ op'[t] = "none" /\ arg'[t] = None /\ ret'[t] = None
         /\ inner' = inner /\ UNCHANGED <<program, todo, left>>
         /\ \/ op[t] = "enqueue" /\ at[t] \in {"enqueue", "free"} /\ UNCHANGED <<at, got>>
            \/ op[t] = "dequeue" /\ at[t] = "free" /\ UNCHANGED <<at, got>>
            \/ /\ op[t] = "dequeue" /\ at[t] = "drain" /\ ret[t] = None
               /\ at' = [at EXCEPT ![t] = "done"] /\ UNCHANGED got
            \/ /\ op[t] = "dequeue" /\ at[t] \in {"dequeue", "drain"} /\ ret[t] \in Values
               /\ got' = Append(got, ret[t]) /\ UNCHANGED at
<1>1. /\ pc[t] = "return" /\ pc'[t] = "idle" /\ op'[t] = "none" /\ arg'[t] = None /\ ret'[t] = None
      /\ inner' = inner /\ UNCHANGED <<program, todo, left>>
  BY DEF PInv, IInv, TypeOK, ReturnTo, Return, Goto
<1>2. op[t] = "enqueue" \/ op[t] = "dequeue"
  BY <1>1 DEF PInv, IInv, TypeOK, CallInv
<1>3. /\ op[t] = "enqueue" => at[t] \in {"enqueue", "free"}
      /\ op[t] = "dequeue" => at[t] \in {"dequeue", "drain", "free"}
      /\ ret[t] \in Values \cup {None}
  BY DEF PInv, IInv, TypeOK, ControlInv
<1>4. op[t] = "dequeue" /\ at[t] = "dequeue" => ret[t] # None
  <2>1. at[t] = "dequeue" => program = "bench" /\ t # Main
    BY WhereThreadsAre DEF PInv
  <2> QED
    BY <1>1, <2>1 DEF PInv, BenchInv
<1>5. IF op[t] = "dequeue" /\ at[t] \in {"dequeue", "drain"}
      THEN IF at[t] = "drain" /\ ret[t] = None
           THEN at' = [at EXCEPT ![t] = "done"] /\ UNCHANGED got
           ELSE got' = Append(got, ret[t]) /\ UNCHANGED at
      ELSE UNCHANGED <<at, got>>
  BY DEF ReturnTo, Advance
<1> QED
  BY <1>1, <1>2, <1>3, <1>4, <1>5

LEMMA ControlKept ==
  ASSUME PInv, NEW t \in Threads, StepOf(t)
  PROVE  ControlInv'
<1>1. IInv /\ IInv' /\ ControlInv /\ PlacesInv
  <2>1. [Next]_vars
    <3>1. [ProgramNext]_<<vars, progVars>>
      BY DEF StepOf, ProgramNext
    <3> QED
      BY <3>1, ProgramStepIsStep
  <2> QED
    BY <2>1, NextKeepsIInv DEF PInv
<1>2. Local(t) /\ program' = program
  BY <1>1, StepIsLocal
<1>3. /\ at \in [Threads -> Places] /\ todo \in [Threads -> Seq(Values)]
      /\ left \in [Threads -> 0..Size] /\ got \in Seq(Values)
  BY <1>1 DEF ControlInv
<1>4. ASSUME at' \in [Threads -> Places], todo' \in [Threads -> Seq(Values)],
             left' \in [Threads -> 0..Size], got' \in Seq(Values),
             todo'[t] # <<>> => at'[t] \in {"arrive", "barrier", "enqueue"},
             op'[t] = "enqueue" => at'[t] \in {"enqueue", "free"},
             op'[t] = "dequeue" => at'[t] \in {"dequeue", "drain", "free"}
      PROVE  ControlInv'
  BY <1>1, <1>2, <1>4 DEF ControlInv, Local
<1>5. /\ todo[t] # <<>> => at[t] \in {"arrive", "barrier", "enqueue"}
      /\ op[t] = "enqueue" => at[t] \in {"enqueue", "free"}
      /\ op[t] = "dequeue" => at[t] \in {"dequeue", "drain", "free"}
      /\ pc[t] = "idle" => op[t] = "none"
  BY <1>1 DEF ControlInv, IInv, CallInv
<1>6. \A to \in Places : [at EXCEPT ![t] = to] \in [Threads -> Places] /\ [at EXCEPT ![t] = to][t] = to
  BY <1>3
<1>7. CASE Arrive(t) \/ Pass(t)
  <2>1. \E to \in {"barrier", "enqueue"} : at' = [at EXCEPT ![t] = to]
    BY <1>7 DEF Arrive, Pass, Advance
  <2>2. at[t] \in {"arrive", "barrier"} /\ UNCHANGED <<todo, left, got, op>>
    BY <1>7 DEF Arrive, Pass, Advance, vars
  <2>3. at' \in [Threads -> Places] /\ at'[t] \in {"barrier", "enqueue"}
    BY <1>6, <2>1 DEF Places
  <2> QED
    BY <1>3, <1>4, <1>5, <2>2, <2>3
<1>8. CASE EnqueuedAll(t) \/ DequeuedAll(t) \/ (t = Main /\ Join)
  <2>1. \E to \in {"dequeue", "join", "drain", "done"} : at' = [at EXCEPT ![t] = to]
    BY <1>8 DEF EnqueuedAll, DequeuedAll, Join, Advance
  <2>2. UNCHANGED <<todo, left, got, op>>
    BY <1>8 DEF EnqueuedAll, DequeuedAll, Join, vars
  <2>3. todo[t] = <<>> /\ op[t] = "none"
    <3>1. CASE EnqueuedAll(t) \/ DequeuedAll(t)
      BY <1>5, <3>1 DEF EnqueuedAll, DequeuedAll, Advance
    <3>2. CASE t = Main /\ Join
      <4>1. at[t] = "join" /\ op[t] \in {"none", "enqueue", "dequeue"}
        BY <1>1, <3>2 DEF Join, Advance, IInv, TypeOK
      <4> QED
        BY <1>5, <4>1
    <3> QED
      BY <1>8, <3>1, <3>2
  <2>4. at' \in [Threads -> Places]
    BY <1>6, <2>1 DEF Places
  <2> QED
    BY <1>3, <1>4, <2>2, <2>3, <2>4
<1>9. CASE EnqueueNext(t)
  <2>1. /\ at[t] = "enqueue" /\ at' = at /\ left' = left /\ got' = got /\ op'[t] = "enqueue"
        /\ todo' = [todo EXCEPT ![t] = Tail(todo[t])] /\ todo[t] # <<>>
    BY <1>1, <1>9 DEF EnqueueNext, CallEnqueue, IInv, TypeOK
  <2>2. Tail(todo[t]) \in Seq(Values)
    BY <1>3, <2>1, HeadTailProperties
  <2>3. todo' \in [Threads -> Seq(Values)]
    BY <1>3, <2>1, <2>2
  <2> QED
    BY <1>3, <1>4, <2>1, <2>3
<1>10. CASE DequeueNext(t)
  <2>1. /\ at[t] = "dequeue" /\ at' = at /\ todo' = todo /\ got' = got /\ op'[t] = "dequeue"
        /\ left' = [left EXCEPT ![t] = left[t] - 1] /\ left[t] > 0
    BY <1>1, <1>10 DEF DequeueNext, CallDequeue, IInv, TypeOK
  <2>2. left[t] - 1 \in 0..Size
    BY <1>3, <2>1, SizeIsNat
  <2>3. left' \in [Threads -> 0..Size]
    BY <1>3, <2>1, <2>2
  <2> QED
    BY <1>3, <1>4, <1>5, <2>1, <2>3
<1>11. CASE t = Main /\ Drain
  <2>1. at[t] = "drain" /\ UNCHANGED <<at, todo, left, got>> /\ op'[t] = "dequeue"
    BY <1>1, <1>11 DEF Drain, CallDequeue, IInv, TypeOK, progVars
  <2> QED
    BY <1>3, <1>4, <1>5, <2>1
<1>12. CASE Inside(t) \/ LockStep(t)
  <2>1. UNCHANGED <<at, todo, left, got, op>>
    BY <1>12 DEF Inside, LockStep, ReadList, PushBack, PopFront, Unlock, Lock, progVars
  <2> QED
    BY <1>3, <1>4, <1>5, <2>1
<1>13. CASE ReturnTo(t)
  <2>1. op'[t] = "none" /\ UNCHANGED <<todo, left>>
    BY <1>13, Returned
  <2>2. /\ at' = at \/ (at' = [at EXCEPT ![t] = "done"] /\ at[t] = "drain")
        /\ got' = got \/ \E v \in Values : got' = Append(got, v)
    BY <1>13, Returned
  <2>3. got' \in Seq(Values)
    <3>1. \A v \in Values : Append(got, v) \in Seq(Values)
      BY <1>3, AppendProperties
    <3> QED
      BY <1>3, <2>2, <3>1
  <2>4. at' \in [Threads -> Places]
    BY <1>3, <1>6, <2>2 DEF Places
  <2>5. todo[t] # <<>> => at' = at
    BY <1>5, <2>2
  <2> QED
    BY <1>3, <1>4, <1>5, <2>1, <2>3, <2>4, <2>5
<1>14. CASE FreeCall(t)
  <2>1. at[t] = "free" /\ UNCHANGED <<at, todo, left, got>>
    BY <1>14 DEF FreeCall, progVars
  <2> QED
    BY <1>3, <1>4, <1>5, <2>1
<1> QED
  BY <1>7, <1>8, <1>9, <1>10, <1>11, <1>12, <1>13, <1>14 DEF StepOf, ProgramStep

\* A program goes on to its last part when all the other threads are done.
LEMMA PlacesKept ==
  ASSUME PInv, NEW t \in Threads, StepOf(t)
  PROVE  PlacesInv'
<1>1. IInv /\ ControlInv /\ PlacesInv /\ Local(t) /\ program' = program
  BY StepIsLocal DEF PInv
<1>2. DOMAIN at = Threads /\ Main \in Threads /\ Partner \in Threads /\ Main # Partner
  BY <1>1, SizeIsNat DEF ControlInv
<1>3. CASE UNCHANGED <<at, left>>
  BY <1>1, <1>3 DEF PlacesInv
<1>4. CASE Arrive(t) \/ Pass(t)
  <2>1. at[t] \in {"arrive", "barrier"} /\ at'[t] \in {"barrier", "enqueue"} /\ left' = left
    BY <1>2, <1>4 DEF Arrive, Pass, Advance
  <2>2. program = "test" /\ t \in Pair
    BY <1>1, <2>1, WhereThreadsAre
  <2>3. at'[Main] \in {"drain", "done"} => at[Main] = at'[Main] /\ t # Main
    BY <1>1, <1>2, <2>1 DEF Local
  <2>4. t # Main => t = Partner /\ at[Main] \notin {"drain", "done"}
    BY <1>1, <2>1, <2>2, WhereThreadsAre DEF Pair
  <2>5. at'[Main] \in {"arrive", "barrier", "enqueue", "join", "drain", "done"}
    BY <1>1, <1>2, <2>1, <2>2 DEF Local, PlacesInv
  <2>6. ASSUME NEW s \in Threads \ {Main}
        PROVE  /\ at'[s] \in {"arrive", "barrier", "enqueue", "done"}
               /\ s # Partner \/ at'[Main] \in {"drain", "done"} => at'[s] = "done"
    BY <1>1, <2>1, <2>2, <2>3, <2>4 DEF Local, PlacesInv
  <2> QED
    BY <1>1, <2>2, <2>5, <2>6 DEF PlacesInv
<1>5. CASE EnqueuedAll(t)
  <2>1. /\ at[t] = "enqueue" /\ left' = left
        /\ at'[t] = IF program = "bench" THEN "dequeue" ELSE IF t = Main THEN "join" ELSE "done"
    BY <1>2, <1>5 DEF EnqueuedAll, Advance
  <2>2. \/ program = "test" /\ t \in Pair
        \/ program = "bench" /\ t # Main
    BY <1>1, <2>1, WhereThreadsAre
  <2>3. at'[Main] \in {"drain", "done"} => at[Main] = at'[Main] /\ t # Main
    BY <1>1, <1>2, <2>1, <2>2 DEF Local
  <2>4. at[Main] \notin {"drain", "done"}
    BY <1>1, <2>1, WhereThreadsAre
  <2>5. CASE program = "test"
    <3>1. at'[Main] \in {"arrive", "barrier", "enqueue", "join", "drain", "done"}
      BY <1>1, <1>2, <2>1, <2>5 DEF Local, PlacesInv
    <3>2. ASSUME NEW s \in Threads \ {Main}
          PROVE  /\ at'[s] \in {"arrive", "barrier", "enqueue", "done"}
                 /\ s # Partner \/ at'[Main] \in {"drain", "done"} => at'[s] = "done"
      BY <1>1, <2>1, <2>3, <2>4, <2>5 DEF Local, PlacesInv
    <3> QED
      BY <1>1, <2>5, <3>1, <3>2 DEF PlacesInv
  <2>6. CASE program = "bench"
    BY <1>1, <1>2, <2>1, <2>2, <2>3, <2>4, <2>6 DEF Local, PlacesInv
  <2> QED
    BY <2>2, <2>5, <2>6
<1>6. CASE DequeuedAll(t)
  <2>1. at[t] = "dequeue" /\ left' = left /\ at'[t] = "done" /\ left[t] = 0
    BY <1>2, <1>6 DEF DequeuedAll, Advance
  <2>2. program = "bench" /\ t # Main
    BY <1>1, <2>1, WhereThreadsAre
  <2> QED
    BY <1>1, <1>2, <2>1, <2>2 DEF Local, PlacesInv
<1>7. CASE t = Main /\ Join
  <2>1. /\ at[Main] = "join" /\ at'[Main] = IF program = "test" THEN "drain" ELSE "done"
        /\ left' = left /\ \A s \in Threads \ {Main} : at[s] = "done"
    BY <1>2, <1>7 DEF Join, Advance
  <2>2. program \in {"test", "bench"}
    BY <1>1, <1>2, <2>1, WhereThreadsAre
  <2> QED
    BY <1>1, <1>7, <2>1, <2>2 DEF Local, PlacesInv
<1>8. CASE DequeueNext(t)
  <2>1. at' = at /\ at[t] = "dequeue"
    BY <1>8 DEF DequeueNext
  <2> QED
    BY <1>1, <2>1 DEF Local, PlacesInv
<1>9. CASE ReturnTo(t)
  <2>1. /\ left' = left
        /\ at' = at \/ (at' = [at EXCEPT ![t] = "done"] /\ at[t] = "drain")
    BY <1>9, Returned
  <2>2. CASE at[t] = "drain" /\ at'[t] = "done"
    <3>1. program = "test" /\ t = Main
      BY <1>1, <2>2, WhereThreadsAre
    <3> QED
      BY <1>1, <1>2, <2>1, <2>2, <3>1 DEF Local, PlacesInv
  <2> QED
    BY <1>2, <1>3, <2>1, <2>2
<1>10. EnqueueNext(t) \/ (t = Main /\ Drain) \/ Inside(t) \/ LockStep(t) \/ FreeCall(t)
       => UNCHANGED <<at, left>>
  BY DEF EnqueueNext, Drain, Inside, LockStep, FreeCall, progVars
<1> QED
  BY <1>3, <1>4, <1>5, <1>6, <1>7, <1>8, <1>9, <1>10 DEF StepOf, ProgramStep

-----------------------------------------------------------------------------
\* test(): what is printed.

LEMMA TestKept ==
  ASSUME NEW t \in Threads, TestInv, Local(t), program' = program,
         program = "test" =>
           /\ todo'[t] = todo[t] /\ (t \in Enqueuing' <=> t \in Enqueuing)
           /\ t \in Enqueuing => arg'[t] = arg[t]
           /\ Line' = Line /\ (Ended' => inner' = <<>>)
  PROVE  TestInv'
<1> SUFFICES ASSUME program = "test" PROVE TestInv'
  BY DEF TestInv
<1>1. \A s \in Threads : /\ todo'[s] = todo[s] /\ (s \in Enqueuing' <=> s \in Enqueuing)
                         /\ s \in Enqueuing => arg'[s] = arg[s]
                         /\ Unpushed(s)' = Unpushed(s)
  <2>1. Unpushed(t)' = Unpushed(t)
    BY DEF Unpushed
  <2> QED
    BY <2>1, OthersCount DEF Local
<1>2. Pair \subseteq Threads /\ \A v : Thread(v) \in Threads
  BY SizeIsNat DEF Pair, Thread
<1> QED
  BY <1>1, <1>2 DEF TestInv

\* The first of the line is taken by a call, and then printed.
LEMMA LineOfHead ==
  ASSUME NEW S, NEW a \in Seq(S), NEW b \in Seq(S), b # <<>>
  PROVE  (a \o <<Head(b)>>) \o Tail(b) = (a \o <<>>) \o b
<1>1. Head(b) \in S /\ Tail(b) \in Seq(S) /\ <<Head(b)>> \in Seq(S)
  BY HeadTailProperties
<1>2. <<Head(b)>> \o Tail(b) = b
  <2>1. /\ Len(b) \in Nat /\ Len(b) # 0 /\ Len(Tail(b)) = Len(b) - 1
        /\ \A i \in 1..(Len(b) - 1) : Tail(b)[i] = b[i + 1]
    BY EmptySeq, HeadTailProperties
  <2>2. /\ <<Head(b)>> \o Tail(b) \in Seq(S)
        /\ Len(<<Head(b)>> \o Tail(b)) = 1 + Len(Tail(b))
        /\ \A i \in 1..(1 + Len(Tail(b))) :
             (<<Head(b)>> \o Tail(b))[i] = IF i <= 1 THEN <<Head(b)>>[i] ELSE Tail(b)[i - 1]
    BY <1>1, ConcatProperties
  <2>3. \A i \in 1..Len(b) : (<<Head(b)>> \o Tail(b))[i] = b[i]
    <3> SUFFICES ASSUME NEW i \in 1..Len(b) PROVE (<<Head(b)>> \o Tail(b))[i] = b[i]
      OBVIOUS
    <3>1. i \in 1..(1 + Len(Tail(b)))
      BY <2>1
    <3>2. CASE i = 1
      <4>1. (<<Head(b)>> \o Tail(b))[1] = <<Head(b)>>[1]
        BY <2>2, <3>1, <3>2
      <4> QED
        BY <3>2, <4>1, HeadTailProperties
    <3>3. CASE i # 1
      <4>1. ~(i <= 1) /\ i - 1 \in 1..(Len(b) - 1) /\ (i - 1) + 1 = i
        BY <2>1, <3>3
      <4>2. (<<Head(b)>> \o Tail(b))[i] = Tail(b)[i - 1]
        BY <2>2, <3>1, <4>1
      <4> QED
        BY <2>1, <4>1, <4>2
    <3> QED
      BY <3>2, <3>3
  <2>4. Len(<<Head(b)>> \o Tail(b)) = Len(b)
    BY <2>1, <2>2
  <2> QED
    BY <2>2, <2>3, <2>4, SeqEqual
<1>3. (a \o <<Head(b)>>) \o Tail(b) = a \o (<<Head(b)>> \o Tail(b))
  BY <1>1, ConcatAssociative
<1>4. a \o <<>> = a
  BY ConcatEmptySeq
<1> QED
  BY <1>2, <1>3, <1>4

LEMMA ConcatAppend ==
  ASSUME NEW S, NEW a \in Seq(S), NEW b \in Seq(S), NEW v \in S
  PROVE  a \o Append(b, v) = Append(a \o b, v)
<1>1. <<v>> \in Seq(S) /\ a \o b \in Seq(S)
  BY ConcatProperties
<1>2. Append(b, v) = b \o <<v>> /\ Append(a \o b, v) = (a \o b) \o <<v>>
  BY <1>1, AppendIsConcat
<1>3. (a \o b) \o <<v>> = a \o (b \o <<v>>)
  BY <1>1, ConcatAssociative
<1> QED
  BY <1>2, <1>3

\* What the line is made of.
LEMMA LineIsSeq ==
  ASSUME IInv, ControlInv
  PROVE  Line \in Seq(Values) /\ Pending \in Seq(Values) /\ got \in Seq(Values)
         /\ inner \in Seq(Values) /\ got \o Pending \in Seq(Values)
<1>1. got \in Seq(Values) /\ inner \in Seq(Values)
  BY DEF ControlInv, IInv, TypeOK
<1>2. Pending \in Seq(Values)
  <2>1. CASE ret[Main] # None
    <3>1. ret[Main] \in Values
      BY <2>1, SizeIsNat DEF IInv, TypeOK
    <3> QED
      BY <3>1 DEF Pending
  <2>2. CASE ret[Main] = None
    BY <2>2 DEF Pending
  <2> QED
    BY <2>1, <2>2
<1>3. got \o Pending \in Seq(Values)
  BY <1>1, <1>2, ConcatProperties
<1>4. Line \in Seq(Values)
  BY <1>1, <1>3, ConcatProperties DEF Line
<1> QED
  BY <1>1, <1>2, <1>3, <1>4

\* A number is appended to those of its thread, which are less.
LEMMA OrderedAppend ==
  ASSUME NEW s \in Seq(Values), Ordered(s), NEW v \in Values,
         \A w \in ToSet(s) : SameThread(w, v) => w < v
  PROVE  Ordered(Append(s, v)) /\ ToSet(Append(s, v)) = ToSet(s) \cup {v}
<1>1. /\ Len(s) \in Nat /\ Len(Append(s, v)) = Len(s) + 1 /\ Append(s, v) \in Seq(Values)
      /\ \A i \in 1..Len(s) : Append(s, v)[i] = s[i]
      /\ Append(s, v)[Len(s) + 1] = v
  BY AppendProperties
<1>2. DOMAIN s = 1..Len(s) /\ DOMAIN Append(s, v) = 1..(Len(s) + 1)
  BY <1>1
<1>3. \A i : i \in 1..(Len(s) + 1) <=> i \in 1..Len(s) \/ i = Len(s) + 1
  BY <1>1
<1>4. ToSet(Append(s, v)) = ToSet(s) \cup {v}
  BY <1>1, <1>2, <1>3 DEF ToSet
<1>5. ASSUME NEW i \in DOMAIN Append(s, v), NEW j \in DOMAIN Append(s, v), i < j,
             SameThread(Append(s, v)[i], Append(s, v)[j])
      PROVE  Append(s, v)[i] < Append(s, v)[j]
  <2>1. i \in 1..Len(s) /\ Append(s, v)[i] = s[i]
    <3>1. i \in 1..(Len(s) + 1) /\ j \in 1..(Len(s) + 1)
      BY <1>2
    <3>2. i \in 1..Len(s)
      BY <1>1, <1>5, <3>1
    <3> QED
      BY <1>1, <3>2
  <2>2. CASE j \in 1..Len(s)
    BY <1>1, <1>2, <1>5, <2>1, <2>2 DEF Ordered
  <2>3. CASE j = Len(s) + 1
    <3>1. s[i] \in ToSet(s) /\ Append(s, v)[j] = v
      BY <1>1, <1>2, <2>1, <2>3 DEF ToSet
    <3> QED
      BY <1>5, <2>1, <3>1
  <2> QED
    BY <1>2, <1>3, <2>2, <2>3
<1> QED
  BY <1>4, <1>5 DEF Ordered

\* push_back by a thread of test().
LEMMA TestPush ==
  ASSUME PInv, NEW t \in Threads, PushBack(t), UNCHANGED progVars, program = "test"
  PROVE  TestInv'
<1>1. IInv /\ ControlInv /\ PlacesInv /\ Local(t) /\ program' = program
  BY StepIsLocal DEF PInv, StepOf, Inside
<1>2. /\ op[t] = "enqueue" /\ pc[t] = "write" /\ pc'[t] = "unlock" /\ seen[t] = inner
      /\ inner' = Append(inner, arg[t]) /\ UNCHANGED <<op, arg, ret, at, todo, left, got>>
  BY <1>1 DEF PushBack, Goto, IInv, TypeOK, MutexInv, progVars
<1>3. at[t] = "enqueue" /\ t \in Pair /\ at[Main] \notin {"drain", "done"}
  <2>1. at[t] = "enqueue"
    BY <1>1, <1>2, WhereThreadsAre DEF ControlInv
  <2> QED
    BY <1>1, <2>1, WhereThreadsAre
<1> DEFINE v == arg[t]
<1>4. t \in Enqueuing /\ t \notin Enqueuing'
  BY <1>2 DEF Enqueuing
<1>5. /\ Unpushed(t) \in Nat /\ Unpushed(t)' = Unpushed(t) - 1 /\ 1 <= Unpushed(t)
      /\ Unpushed(t) <= Size /\ v = End(t) - Unpushed(t)
  <2>1. Len(todo[t]) \in Nat /\ Unpushed(t) = Len(todo[t]) + 1
    BY <1>1, <1>4, CountsAreNat, UnpushedIs
  <2>2. Unpushed(t)' = Len(todo[t])
    <3>1. Unpushed(t)' = Len(todo[t]) + 0
      BY <1>2, <1>4 DEF Unpushed
    <3> QED
      BY <2>1, <3>1
  <2>3. Unpushed(t) <= Size /\ v = End(t) - Unpushed(t)
    BY <1>3, <1>4 DEF PInv, TestInv
  <2> QED
    BY <2>1, <2>2, <2>3
<1> HIDE DEF v
<1>6. v \in Values /\ Thread(v) = t
  <2>1. v \in Values
    BY <1>1, <1>2 DEF v, IInv, TypeOK, CallInv
  <2>2. CASE t = Partner
    <3>1. End(t) = Size
      BY <2>2 DEF End
    <3>2. v < Size
      BY <1>5, <3>1, SizeIsNat
    <3> QED
      BY <2>1, <2>2, <3>2 DEF Thread
  <2>3. CASE t = Main
    <3>1. End(t) = 2 * Size
      BY <2>3, SizeIsNat DEF End
    <3>2. ~(v < Size)
      BY <1>5, <3>1, SizeIsNat
    <3> QED
      BY <2>1, <2>3, <3>2 DEF Thread
  <2> QED
    BY <1>3, <2>1, <2>2, <2>3 DEF Pair
<1>7. Line' = Append(Line, v)
  <2>1. Pending' = Pending
    BY <1>1, <1>2, <1>3 DEF Pending, Local
  <2>2. got \o Pending \in Seq(Values) /\ inner \in Seq(Values)
    BY <1>1, LineIsSeq
  <2>3. Line' = (got \o Pending) \o Append(inner, v)
    BY <1>2, <2>1 DEF Line, v
  <2> QED
    BY <1>6, <2>2, <2>3, ConcatAppend DEF Line
<1>8. /\ Ordered(Line)
      /\ \A w \in Values : w \in ToSet(Line) <=> w < End(Thread(w)) - Unpushed(Thread(w))
      /\ \A s \in Pair : /\ Unpushed(s) <= Size
                         /\ \A i \in 1..Len(todo[s]) : todo[s][i] = End(s) - Len(todo[s]) + i - 1
                         /\ s \in Enqueuing => arg[s] = End(s) - Unpushed(s)
  BY DEF PInv, TestInv
<1>9. \A w \in Values : SameThread(w, v) => Thread(w) = t
  BY <1>6 DEF SameThread, Thread
<1>10. Line \in Seq(Values) /\ \A w \in ToSet(Line) : w \in Values
  <2>1. Line \in Seq(Values)
    BY <1>1, LineIsSeq
  <2> QED
    BY <2>1 DEF ToSet
<1>11. Ordered(Line') /\ ToSet(Line') = ToSet(Line) \cup {v}
  <2>1. \A w \in ToSet(Line) : SameThread(w, v) => w < v
    BY <1>5, <1>8, <1>9, <1>10
  <2> QED
    BY <1>6, <1>7, <1>8, <1>10, <2>1, OrderedAppend
<1>12. \A s \in Threads \ {t} : Unpushed(s)' = Unpushed(s) /\ (s \in Enqueuing' <=> s \in Enqueuing)
  BY <1>1, OthersCount
<1>13. \A s \in Pair : /\ Unpushed(s)' <= Size
                       /\ \A i \in 1..Len(todo'[s]) : todo'[s][i] = End(s) - Len(todo'[s]) + i - 1
                       /\ s \in Enqueuing' => arg'[s] = End(s) - Unpushed(s)'
  <2>1. ASSUME NEW s \in Pair, s # t
        PROVE  /\ Unpushed(s)' <= Size
               /\ s \in Enqueuing' => arg'[s] = End(s) - Unpushed(s)'
    <3>1. s \in Threads \ {t}
      BY <2>1, SizeIsNat DEF Pair
    <3> QED
      BY <1>2, <1>8, <1>12, <3>1
  <2>2. Unpushed(t)' <= Size
    BY <1>5, SizeIsNat
  <2> QED
    BY <1>2, <1>4, <1>8, <2>1, <2>2
<1>14. ASSUME NEW w \in Values
       PROVE  w \in ToSet(Line') <=> w < End(Thread(w)) - Unpushed(Thread(w))'
  <2>1. w \in Nat /\ End(t) \in Int
    BY SizeIsNat, ProgramSize DEF End
  <2>2. CASE Thread(w) = t
    <3>1. w \in ToSet(Line) <=> w < v
      BY <1>5, <1>8, <2>2
    <3>2. w < End(t) - Unpushed(t)' <=> w < v \/ w = v
      BY <1>5, <2>1
    <3> QED
      BY <1>11, <2>2, <3>1, <3>2
  <2>3. CASE Thread(w) # t
    <3>1. Thread(w) \in Threads \ {t} /\ w # v
      BY <1>6, <2>3, SizeIsNat DEF Thread
    <3>2. Unpushed(Thread(w))' = Unpushed(Thread(w))
      BY <1>12, <3>1
    <3> QED
      BY <1>8, <1>11, <3>1, <3>2
  <2> QED
    BY <2>2, <2>3
<1>15. ~Ended'
  BY <1>2, <1>3 DEF Ended
<1> QED
  BY <1>11, <1>13, <1>14, <1>15 DEF TestInv

\* A thread takes its next number.
LEMMA TestNext ==
  ASSUME PInv, NEW t \in Threads, EnqueueNext(t), program = "test"
  PROVE  TestInv'
<1>1. IInv /\ ControlInv /\ PlacesInv /\ Local(t) /\ program' = program
  BY StepIsLocal DEF PInv, StepOf, ProgramStep
<1>2. /\ at[t] = "enqueue" /\ pc[t] = "idle" /\ pc'[t] = "lock" /\ op'[t] = "enqueue"
      /\ arg'[t] = Head(todo[t]) /\ todo[t] # <<>> /\ todo'[t] = Tail(todo[t])
      /\ UNCHANGED <<inner, ret, at, left, got>>
  BY <1>1 DEF EnqueueNext, CallEnqueue, Goto, IInv, TypeOK, ControlInv
<1>3. t \in Pair /\ at[Main] \notin {"drain", "done"}
  BY <1>1, <1>2, WhereThreadsAre
<1>4. t \notin Enqueuing /\ t \in Enqueuing'
  BY <1>2 DEF Enqueuing
<1>5. /\ Len(todo[t]) \in Nat /\ Len(todo[t]) # 0 /\ Len(todo'[t]) = Len(todo[t]) - 1
      /\ \A i \in 1..(Len(todo[t]) - 1) : todo'[t][i] = todo[t][i + 1]
      /\ arg'[t] = todo[t][1]
  <2>1. todo[t] \in Seq(Values)
    BY <1>1 DEF ControlInv
  <2> QED
    BY <1>2, <2>1, EmptySeq, HeadTailProperties
<1>6. Unpushed(t) = Len(todo[t]) /\ Unpushed(t)' = Unpushed(t)
  <2>1. Unpushed(t) = Len(todo[t])
    BY <1>4, <1>5, UnpushedIs
  <2>2. Unpushed(t)' = Len(todo'[t]) + 1
    BY <1>4 DEF Unpushed
  <2> QED
    BY <1>5, <2>1, <2>2
<1>7. /\ Ordered(Line)
      /\ \A w \in Values : w \in ToSet(Line) <=> w < End(Thread(w)) - Unpushed(Thread(w))
      /\ \A s \in Pair : /\ Unpushed(s) <= Size
                         /\ \A i \in 1..Len(todo[s]) : todo[s][i] = End(s) - Len(todo[s]) + i - 1
                         /\ s \in Enqueuing => arg[s] = End(s) - Unpushed(s)
  BY DEF PInv, TestInv
<1>8. \A s \in Threads : Unpushed(s)' = Unpushed(s)
  BY <1>1, <1>6, OthersCount
<1>9. End(t) \in Int
  BY SizeIsNat DEF End
<1>10. \A i \in 1..Len(todo'[t]) : todo'[t][i] = End(t) - Len(todo'[t]) + i - 1
  <2> SUFFICES ASSUME NEW i \in 1..Len(todo'[t])
               PROVE  todo'[t][i] = End(t) - Len(todo'[t]) + i - 1
    OBVIOUS
  <2>1. i \in 1..(Len(todo[t]) - 1) /\ i + 1 \in 1..Len(todo[t])
    BY <1>5
  <2>2. todo'[t][i] = End(t) - Len(todo[t]) + (i + 1) - 1
    BY <1>3, <1>5, <1>7, <2>1
  <2> QED
    BY <1>5, <1>9, <2>1, <2>2
<1>11. arg'[t] = End(t) - Unpushed(t)'
  <2>1. todo[t][1] = End(t) - Len(todo[t]) + 1 - 1
    BY <1>3, <1>5, <1>7
  <2> QED
    BY <1>5, <1>6, <1>9, <2>1
<1>12. ASSUME NEW s \in Pair
       PROVE  /\ Unpushed(s)' <= Size
              /\ \A i \in 1..Len(todo'[s]) : todo'[s][i] = End(s) - Len(todo'[s]) + i - 1
              /\ s \in Enqueuing' => arg'[s] = End(s) - Unpushed(s)'
  <2>1. s \in Threads
    BY SizeIsNat DEF Pair
  <2>2. CASE s = t
    BY <1>7, <1>8, <1>10, <1>11, <2>1, <2>2
  <2>3. CASE s # t
    <3>1. todo'[s] = todo[s] /\ arg'[s] = arg[s] /\ (s \in Enqueuing' <=> s \in Enqueuing)
      BY <1>1, <2>1, <2>3, OthersCount DEF Local
    <3> QED
      BY <1>7, <1>8, <2>1, <3>1
  <2> QED
    BY <2>2, <2>3
<1>13. Line' = Line
  <2>1. Pending' = Pending
    BY <1>1, <1>2, <1>3 DEF Pending, Local
  <2> QED
    BY <1>2, <2>1 DEF Line
<1>14. \A w : Thread(w) \in Threads
  BY SizeIsNat DEF Thread
<1>15. ~Ended'
  BY <1>2, <1>3 DEF Ended
<1> QED
  BY <1>7, <1>8, <1>12, <1>13, <1>14, <1>15 DEF TestInv

\* The other steps leave the line alone.
LEMMA TestInvKept ==
  ASSUME PInv, NEW t \in Threads, StepOf(t)
  PROVE  TestInv'
<1>1. IInv /\ ControlInv /\ PlacesInv /\ TestInv /\ Local(t) /\ program' = program
  BY StepIsLocal DEF PInv
<1> SUFFICES ASSUME program = "test" PROVE TestInv'
  BY <1>1 DEF TestInv
<1>2. /\ op[t] = "enqueue" => at[t] = "enqueue"
      /\ op[t] = "dequeue" => at[t] = "drain" /\ t = Main
      /\ at[t] # "free" /\ at[t] # "dequeue"
      /\ pc[t] = "idle" <=> op[t] = "none"
      /\ op[t] \in {"none", "enqueue", "dequeue"}
      /\ DOMAIN at = Threads /\ DOMAIN pc = Threads /\ DOMAIN op = Threads /\ DOMAIN ret = Threads
  BY <1>1, WhereThreadsAre DEF ControlInv, IInv, TypeOK, CallInv
<1>3. Ended => inner = <<>>
  BY <1>1 DEF TestInv
<1>4. t \in Enqueuing <=> op[t] = "enqueue" /\ pc[t] \in {"lock", "read", "write"}
  BY DEF Enqueuing
<1>5. t \in Enqueuing' <=> op'[t] = "enqueue" /\ pc'[t] \in {"lock", "read", "write"}
  BY DEF Enqueuing
<1>6. t # Main => at'[Main] = at[Main] /\ pc'[Main] = pc[Main] /\ ret'[Main] = ret[Main]
  BY <1>1, SizeIsNat DEF Local
<1>7. CASE Arrive(t) \/ Pass(t) \/ EnqueuedAll(t) \/ (t = Main /\ Join)
  <2>1. /\ pc[t] = "idle"
        /\ UNCHANGED <<inner, pc, op, arg, ret, todo, got>>
        /\ at[t] \notin {"drain", "done"} /\ (t = Main => at'[t] # "done")
    BY <1>2, <1>7, WhereThreadsAre DEF Arrive, Pass, EnqueuedAll, Join, Advance, vars
  <2>2. Pending' = Pending
    <3>1. CASE t = Main
      BY <2>1, <3>1 DEF Pending
    <3>2. CASE t # Main
      BY <1>6, <3>2 DEF Pending
    <3> QED
      BY <3>1, <3>2
  <2>3. Line' = Line
    BY <2>1, <2>2 DEF Line
  <2>4. Ended' => Ended
    <3>1. CASE t = Main
      BY <2>1, <3>1 DEF Ended
    <3>2. CASE t # Main
      BY <1>6, <3>2 DEF Ended
    <3> QED
      BY <3>1, <3>2
  <2> QED
    BY <1>1, <1>3, <1>4, <1>5, <2>1, <2>3, <2>4, TestKept
<1>8. CASE (t = Main /\ Drain) \/ LockStep(t) \/ (ReadList(t) /\ UNCHANGED progVars)
          \/ (Unlock(t) /\ UNCHANGED progVars)
  <2>1. UNCHANGED <<inner, at, todo, got>> /\ arg'[t] = arg[t] /\ ret'[t] = ret[t]
    BY <1>8 DEF Drain, LockStep, Lock, ReadList, Unlock, CallDequeue, progVars
  <2>2. \/ pc[t] = "idle" /\ pc'[t] = "lock" /\ op[t] # "enqueue" /\ op'[t] = "dequeue"
        \/ /\ op'[t] = op[t]
           /\ \/ pc[t] = "lock" /\ pc'[t] = "read"
              \/ pc[t] = "read" /\ pc'[t] = "write"
              \/ pc[t] = "unlock" /\ pc'[t] = "return"
    BY <1>2, <1>8 DEF Drain, LockStep, Lock, ReadList, Unlock, CallDequeue, Goto
  <2>3. t \in Enqueuing' <=> t \in Enqueuing
    BY <1>4, <1>5, <2>2
  <2>4. pc'[t] \in {"unlock", "return"} <=> pc[t] \in {"unlock", "return"}
    BY <2>2
  <2>5. Pending' = Pending /\ (Ended' <=> Ended)
    <3>1. at'[Main] = at[Main] /\ ret'[Main] = ret[Main]
          /\ (pc'[Main] \in {"unlock", "return"} <=> pc[Main] \in {"unlock", "return"})
      BY <1>6, <2>1, <2>4
    <3> QED
      BY <3>1 DEF Pending, Ended
  <2>6. Line' = Line
    BY <2>1, <2>5 DEF Line
  <2> QED
    BY <1>1, <1>3, <2>1, <2>3, <2>5, <2>6, TestKept
<1>9. CASE PopFront(t) /\ UNCHANGED progVars
  <2>1. /\ op[t] = "dequeue" /\ op'[t] = "dequeue" /\ pc[t] = "write" /\ pc'[t] = "unlock"
        /\ UNCHANGED <<at, todo, got, arg>> /\ seen[t] = inner
        /\ IF inner = <<>> THEN ret'[t] = None /\ inner' = inner
           ELSE ret'[t] = Head(inner) /\ inner' = Tail(inner)
    BY <1>1, <1>2, <1>9 DEF PopFront, Goto, progVars, IInv, MutexInv
  <2>2. t = Main /\ at[Main] = "drain" /\ at'[Main] = "drain"
    BY <1>2, <2>1
  <2>3. got \in Seq(Values) /\ inner \in Seq(Values)
    BY <1>1, LineIsSeq
  <2>4. Pending = <<>>
    BY <2>1, <2>2 DEF Pending
  <2>5. CASE inner = <<>>
    <3>1. Pending' = <<>>
      BY <2>1, <2>2, <2>5 DEF Pending
    <3>2. Line' = Line
      BY <2>1, <2>4, <2>5, <3>1 DEF Line
    <3> QED
      BY <1>1, <1>4, <1>5, <2>1, <2>5, <3>2, TestKept
  <2>6. CASE inner # <<>>
    <3>1. ret'[Main] = Head(inner) /\ Head(inner) \in Values /\ Head(inner) # None
      BY <2>1, <2>2, <2>3, <2>6, HeadTailProperties, LbqValues
    <3>2. Pending' = <<Head(inner)>> /\ ~Ended'
      BY <2>1, <2>2, <3>1 DEF Pending, Ended
    <3>3. Line' = (got \o <<Head(inner)>>) \o Tail(inner)
      BY <2>1, <2>6, <3>2 DEF Line
    <3>4. Line' = Line
      BY <2>3, <2>4, <2>6, <3>3, LineOfHead DEF Line
    <3> QED
      BY <1>1, <1>4, <1>5, <2>1, <3>2, <3>4, TestKept
  <2> QED
    BY <2>5, <2>6
<1>10. CASE ReturnTo(t)
  <2>1. /\ pc[t] = "return" /\ pc'[t] = "idle" /\ op'[t] = "none"
        /\ inner' = inner /\ todo' = todo
    BY <1>10, Returned
  <2>2. t \notin Enqueuing /\ t \notin Enqueuing'
    BY <1>4, <1>5, <2>1
  <2>3. CASE op[t] = "enqueue"
    <3>1. at[t] = "enqueue" /\ UNCHANGED <<at, got>>
      BY <1>2, <1>10, <2>3, Returned
    <3>2. Pending' = Pending /\ (Ended' <=> Ended)
      BY <1>6, <3>1 DEF Pending, Ended
    <3>3. Line' = Line
      BY <2>1, <3>1, <3>2 DEF Line
    <3> QED
      BY <1>1, <1>3, <2>1, <2>2, <3>2, <3>3, TestKept
  <2>4. CASE op[t] = "dequeue"
    <3>1. t = Main /\ at[Main] = "drain"
      BY <1>2, <2>4
    <3>2. CASE ret[Main] = None
      <4>1. at'[Main] = "done" /\ got' = got
        BY <1>2, <1>10, <3>1, <3>2, LbqValues, Returned
      <4>2. Pending = <<>> /\ Pending' = <<>> /\ Ended
        BY <2>1, <3>1, <3>2, <4>1 DEF Pending, Ended
      <4>3. Line' = Line
        BY <2>1, <4>1, <4>2 DEF Line
      <4> QED
        BY <1>1, <1>3, <2>1, <2>2, <4>2, <4>3, TestKept
    <3>3. CASE ret[Main] # None
      <4>1. at' = at /\ got' = Append(got, ret[Main]) /\ ret[Main] \in Values
        BY <1>10, <2>4, <3>1, <3>3, Returned
      <4>2. Pending = <<ret[Main]>> /\ Pending' = <<>> /\ ~Ended'
        BY <2>1, <3>1, <3>3, <4>1 DEF Pending, Ended
      <4>3. got \in Seq(Values) /\ inner \in Seq(Values)
        BY <1>1, LineIsSeq
      <4>4. Append(got, ret[Main]) = got \o <<ret[Main]>> /\ Append(got, ret[Main]) \in Seq(Values)
        <5>1. \A b \in Seq(Values), v \in Values : Append(b, v) = b \o <<v>>
          BY AppendIsConcat
        <5>2. \A b \in Seq(Values), v \in Values : Append(b, v) \in Seq(Values)
          BY AppendProperties
        <5> QED
          BY <4>1, <4>3, <5>1, <5>2
      <4>5. Append(got, ret[Main]) \o <<>> = Append(got, ret[Main])
        BY <4>4, ConcatEmptySeq
      <4>6. Line' = Line
        BY <2>1, <4>1, <4>2, <4>4, <4>5 DEF Line
      <4> QED
        BY <1>1, <2>1, <2>2, <4>2, <4>6, TestKept
    <3> QED
      BY <3>2, <3>3
  <2> QED
    BY <1>2, <2>1, <2>3, <2>4
<1>11. ~DequeueNext(t) /\ ~DequeuedAll(t) /\ ~FreeCall(t)
  BY <1>2 DEF DequeueNext, DequeuedAll, FreeCall, Advance
<1>12. CASE EnqueueNext(t)
  BY <1>12, TestNext
<1>13. CASE PushBack(t) /\ UNCHANGED progVars
  BY <1>13, TestPush
<1> QED
  BY <1>7, <1>8, <1>9, <1>10, <1>11, <1>12, <1>13 DEF StepOf, ProgramStep, Inside

-----------------------------------------------------------------------------
\* The benchmark: no dequeue finds the list empty.

LEMMA BenchKept ==
  ASSUME NEW t \in Threads, BenchInv, Local(t), program' = program,
         program = "bench" /\ t # Main =>
           /\ inner' = inner /\ Unpushed(t)' = Unpushed(t) /\ Unpopped(t)' = Unpopped(t)
           /\ op'[t] = "dequeue" /\ pc'[t] \in {"unlock", "return"} => ret'[t] # None,
         t = Main => inner' = inner
  PROVE  BenchInv'
<1> SUFFICES ASSUME program = "bench" PROVE BenchInv'
  BY DEF BenchInv
<1>1. \A s \in Threads \ {Main} : Unpushed(s)' = Unpushed(s) /\ Unpopped(s)' = Unpopped(s)
  BY OthersCount
<1>2. Tickets' = Tickets
  <2>1. \A p \in (Threads \ {Main}) \X (1..Size) : p[1] \in Threads \ {Main}
    OBVIOUS
  <2> QED
    BY <1>1, <2>1 DEF Tickets
<1>3. inner' = inner
  OBVIOUS
<1>4. ASSUME NEW s \in Threads \ {Main}
      PROVE  op'[s] = "dequeue" /\ pc'[s] \in {"unlock", "return"} => ret'[s] # None
  BY DEF BenchInv, Local
<1> QED
  BY <1>1, <1>2, <1>3, <1>4 DEF BenchInv

LEMMA BenchPush ==
  ASSUME PInv, NEW t \in Threads \ {Main}, PushBack(t), UNCHANGED progVars, program = "bench"
  PROVE  BenchInv'
<1>1. IInv /\ ControlInv /\ PlacesInv /\ Local(t) /\ program' = program
  BY StepIsLocal DEF PInv, StepOf, Inside
<1>2. /\ op[t] = "enqueue" /\ op'[t] = "enqueue" /\ pc[t] = "write" /\ seen[t] = inner
      /\ pc'[t] = "unlock" /\ inner' = Append(inner, arg[t])
      /\ UNCHANGED <<at, todo, left, got>> /\ arg[t] \in Values /\ inner \in Seq(Values)
  BY <1>1 DEF PushBack, Goto, IInv, TypeOK, MutexInv, CallInv, progVars
<1>3. at[t] = "enqueue" /\ left[t] = Size
  <2>1. at[t] = "enqueue"
    BY <1>1, <1>2, WhereThreadsAre DEF ControlInv
  <2> QED
    BY <1>1, <2>1 DEF PlacesInv
<1>4. t \in Enqueuing /\ t \notin Enqueuing' /\ t \notin Dequeuing /\ t \notin Dequeuing'
  BY <1>2 DEF Enqueuing, Dequeuing
<1>5. /\ Unpushed(t) \in 1..Size /\ Unpushed(t)' = Unpushed(t) - 1
      /\ Unpopped(t) = Size /\ Unpopped(t)' = Size
  <2>1. Len(todo[t]) \in Nat /\ Unpushed(t) = Len(todo[t]) + 1 /\ Unpopped(t) = Size
    BY <1>1, <1>3, <1>4, CountsAreNat, UnpushedIs, UnpoppedIs, SizeIsNat
  <2>2. Unpushed(t)' = Len(todo[t])
    <3>1. Unpushed(t)' = Len(todo[t]) + 0
      BY <1>2, <1>4 DEF Unpushed
    <3> QED
      BY <2>1, <3>1
  <2>3. Unpopped(t)' = Size
    <3>1. Unpopped(t)' = left[t] + 0
      BY <1>2, <1>4 DEF Unpopped
    <3> QED
      BY <1>3, <3>1, SizeIsNat
  <2>4. Unpushed(t) <= Size
    BY DEF PInv, BenchInv
  <2> QED
    BY <2>1, <2>2, <2>3, <2>4, SizeIsNat
<1> DEFINE x == <<t, Unpushed(t)>>
<1>6. \A s \in Threads \ {Main, t} : Unpushed(s)' = Unpushed(s) /\ Unpopped(s)' = Unpopped(s)
  BY <1>1, OthersCount
<1>7. Tickets' = Tickets \cup {x} /\ x \notin Tickets
  <2>1. x \in (Threads \ {Main}) \X (1..Size)
    BY <1>5
  <2>2. ASSUME NEW s \in Threads \ {Main}, NEW k \in 1..Size
        PROVE  <<s, k>> \in Tickets' <=> <<s, k>> \in Tickets \/ <<s, k>> = x
    <3>1. /\ <<s, k>> \in Tickets' <=> Unpushed(s)' < k /\ k <= Unpopped(s)'
          /\ <<s, k>> \in Tickets <=> Unpushed(s) < k /\ k <= Unpopped(s)
      BY DEF Tickets
    <3>2. CASE s = t
      BY <1>5, <3>1, <3>2
    <3>3. CASE s # t
      BY <1>6, <3>1, <3>3
    <3> QED
      BY <3>2, <3>3
  <2>3. x \notin Tickets
    <3>1. x[1] = t /\ x[2] = Unpushed(t)
      OBVIOUS
    <3> QED
      BY <1>5, <3>1 DEF Tickets
  <2>4. Tickets \subseteq (Threads \ {Main}) \X (1..Size)
        /\ Tickets' \subseteq (Threads \ {Main}) \X (1..Size)
    BY DEF Tickets
  <2> HIDE DEF x
  <2>5. \A p \in (Threads \ {Main}) \X (1..Size) : p \in Tickets' <=> p \in Tickets \/ p = x
    BY <2>2
  <2> QED
    BY <2>1, <2>3, <2>4, <2>5
<1> HIDE DEF x
<1>8. IsFiniteSet(Tickets) /\ Cardinality(Tickets) = Len(inner)
  BY DEF PInv, BenchInv
<1>9. IsFiniteSet(Tickets') /\ Cardinality(Tickets') = Len(inner')
  <2>1. IsFiniteSet(Tickets') /\ Cardinality(Tickets') = Cardinality(Tickets) + 1
    BY <1>7, <1>8, FS_AddElement
  <2>2. Len(inner') = Len(inner) + 1
    BY <1>2, AppendProperties
  <2> QED
    BY <1>8, <2>1, <2>2
<1>10. ASSUME NEW s \in Threads \ {Main}
       PROVE  /\ Unpushed(s)' <= Size /\ Unpopped(s)' <= Size
              /\ op'[s] = "dequeue" /\ pc'[s] \in {"unlock", "return"} => ret'[s] # None
  <2>1. CASE s = t
    BY <1>2, <1>5, <2>1, SizeIsNat
  <2>2. CASE s # t
    BY <1>1, <1>6, <2>2 DEF PInv, BenchInv, Local
  <2> QED
    BY <2>1, <2>2
<1> QED
  BY <1>9, <1>10 DEF BenchInv

\* A thread in its second loop has a ticket, so the list is not empty.
LEMMA BenchPop ==
  ASSUME PInv, NEW t \in Threads \ {Main}, PopFront(t), UNCHANGED progVars, program = "bench"
  PROVE  BenchInv'
<1>1. IInv /\ ControlInv /\ PlacesInv /\ Local(t) /\ program' = program
  BY StepIsLocal DEF PInv, StepOf, Inside
<1>2. /\ op[t] = "dequeue" /\ op'[t] = "dequeue" /\ pc[t] = "write" /\ pc'[t] = "unlock"
      /\ UNCHANGED <<at, todo, left, got>> /\ inner \in Seq(Values)
      /\ inner # <<>> => ret'[t] = Head(inner) /\ inner' = Tail(inner)
  BY <1>1 DEF PopFront, Goto, IInv, TypeOK, MutexInv, progVars
<1>3. at[t] = "dequeue" /\ todo[t] = <<>>
  BY <1>1, <1>2, WhereThreadsAre DEF ControlInv
<1>4. t \notin Enqueuing /\ t \notin Enqueuing' /\ t \in Dequeuing /\ t \notin Dequeuing'
  BY <1>2 DEF Enqueuing, Dequeuing
<1>5. /\ Unpushed(t) = 0 /\ Unpushed(t)' = 0
      /\ Unpopped(t) \in 1..Size /\ Unpopped(t)' = Unpopped(t) - 1
  <2>1. Len(todo[t]) = 0 /\ left[t] \in Nat /\ Unpushed(t) = 0 /\ Unpopped(t) = left[t] + 1
    BY <1>1, <1>3, <1>4, CountsAreNat, UnpushedIs, UnpoppedIs
  <2>2. Unpushed(t)' = 0
    <3>1. Unpushed(t)' = Len(todo[t]) + 0
      BY <1>2, <1>4 DEF Unpushed
    <3> QED
      BY <2>1, <3>1
  <2>3. Unpopped(t)' = left[t]
    <3>1. Unpopped(t)' = left[t] + 0
      BY <1>2, <1>4 DEF Unpopped
    <3> QED
      BY <2>1, <3>1
  <2>4. Unpopped(t) <= Size
    BY DEF PInv, BenchInv
  <2> QED
    BY <2>1, <2>2, <2>3, <2>4, SizeIsNat
<1> DEFINE x == <<t, Unpopped(t)>>
<1>6. \A s \in Threads \ {Main, t} : Unpushed(s)' = Unpushed(s) /\ Unpopped(s)' = Unpopped(s)
  BY <1>1, OthersCount
<1>7. Tickets' = Tickets \ {x} /\ x \in Tickets
  <2>1. ASSUME NEW s \in Threads \ {Main}, NEW k \in 1..Size
        PROVE  <<s, k>> \in Tickets' <=> <<s, k>> \in Tickets /\ <<s, k>> # x
    <3>1. /\ <<s, k>> \in Tickets' <=> Unpushed(s)' < k /\ k <= Unpopped(s)'
          /\ <<s, k>> \in Tickets <=> Unpushed(s) < k /\ k <= Unpopped(s)
      BY DEF Tickets
    <3>2. CASE s = t
      BY <1>5, <3>1, <3>2
    <3>3. CASE s # t
      BY <1>6, <3>1, <3>3
    <3> QED
      BY <3>2, <3>3
  <2>2. x \in Tickets
    BY <1>5, SizeIsNat DEF Tickets
  <2>3. Tickets \subseteq (Threads \ {Main}) \X (1..Size)
        /\ Tickets' \subseteq (Threads \ {Main}) \X (1..Size)
    BY DEF Tickets
  <2> HIDE DEF x
  <2>4. \A p \in (Threads \ {Main}) \X (1..Size) : p \in Tickets' <=> p \in Tickets /\ p # x
    BY <2>1
  <2> QED
    BY <2>2, <2>3, <2>4
<1> HIDE DEF x
<1>8. IsFiniteSet(Tickets) /\ Cardinality(Tickets) = Len(inner)
  BY DEF PInv, BenchInv
<1>9. IsFiniteSet(Tickets') /\ Cardinality(Tickets') = Cardinality(Tickets) - 1
  BY <1>7, <1>8, FS_RemoveElement
<1>10. inner # <<>>
  <2> SUFFICES ASSUME inner = <<>> PROVE FALSE
    OBVIOUS
  <2>1. Cardinality(Tickets) = 0
    BY <1>8
  <2> QED
    BY <1>7, <1>8, <2>1, FS_EmptySet
<1>11. /\ ret'[t] \in Values /\ ret'[t] # None /\ Len(inner') = Len(inner) - 1
  <2>1. Head(inner) \in Values /\ Len(Tail(inner)) = Len(inner) - 1
    BY <1>2, <1>10, HeadTailProperties
  <2> QED
    BY <1>2, <1>10, <2>1, LbqValues
<1>12. ASSUME NEW s \in Threads \ {Main}
       PROVE  /\ Unpushed(s)' <= Size /\ Unpopped(s)' <= Size
              /\ op'[s] = "dequeue" /\ pc'[s] \in {"unlock", "return"} => ret'[s] # None
  <2>1. CASE s = t
    BY <1>5, <1>11, <2>1, SizeIsNat
  <2>2. CASE s # t
    BY <1>1, <1>6, <2>2 DEF PInv, BenchInv, Local
  <2> QED
    BY <2>1, <2>2
<1> QED
  BY <1>8, <1>9, <1>11, <1>12 DEF BenchInv

\* The other steps leave the list and what a thread has pushed and popped alone.
LEMMA BenchInvKept ==
  ASSUME PInv, NEW t \in Threads, StepOf(t)
  PROVE  BenchInv'
<1>1. IInv /\ ControlInv /\ PlacesInv /\ BenchInv /\ Local(t) /\ program' = program
  BY StepIsLocal DEF PInv
<1> SUFFICES ASSUME program = "bench" PROVE BenchInv'
  BY <1>1 DEF BenchInv
<1>2. /\ op[t] = "enqueue" => at[t] = "enqueue" /\ t # Main
      /\ op[t] = "dequeue" => at[t] = "dequeue" /\ t # Main
      /\ at[t] \notin {"free", "arrive", "barrier", "drain"}
      /\ pc[t] = "idle" <=> op[t] = "none"
      /\ op[t] \in {"none", "enqueue", "dequeue"}
      /\ DOMAIN at = Threads /\ DOMAIN pc = Threads /\ DOMAIN op = Threads /\ DOMAIN ret = Threads
  BY <1>1, WhereThreadsAre DEF ControlInv, IInv, TypeOK, CallInv
<1>3. op[t] = "dequeue" /\ pc[t] \in {"unlock", "return"} => ret[t] # None
  BY <1>1, <1>2 DEF BenchInv
<1>4. /\ t \in Enqueuing <=> op[t] = "enqueue" /\ pc[t] \in {"lock", "read", "write"}
      /\ t \in Dequeuing <=> op[t] = "dequeue" /\ pc[t] \in {"lock", "read", "write"}
  BY DEF Enqueuing, Dequeuing
<1>5. /\ t \in Enqueuing' <=> op'[t] = "enqueue" /\ pc'[t] \in {"lock", "read", "write"}
      /\ t \in Dequeuing' <=> op'[t] = "dequeue" /\ pc'[t] \in {"lock", "read", "write"}
  BY DEF Enqueuing, Dequeuing
<1>6. ASSUME todo'[t] = todo[t], left'[t] = left[t], t \in Enqueuing' <=> t \in Enqueuing,
             t \in Dequeuing' <=> t \in Dequeuing, inner' = inner,
             op'[t] = "dequeue" /\ pc'[t] \in {"unlock", "return"} => ret'[t] # None
      PROVE  BenchInv'
  <2>1. Unpushed(t)' = Unpushed(t) /\ Unpopped(t)' = Unpopped(t)
    BY <1>6 DEF Unpushed, Unpopped
  <2> QED
    BY <1>1, <1>6, <2>1, BenchKept
<1>7. CASE EnqueuedAll(t) \/ DequeuedAll(t) \/ (t = Main /\ Join)
  <2>1. UNCHANGED <<inner, pc, op, ret, todo, left>>
    BY <1>7 DEF EnqueuedAll, DequeuedAll, Join, vars
  <2> QED
    BY <1>3, <1>4, <1>5, <1>6, <2>1
<1>8. CASE LockStep(t) \/ (ReadList(t) /\ UNCHANGED progVars) \/ (Unlock(t) /\ UNCHANGED progVars)
  <2>1. UNCHANGED <<inner, op, ret, todo, left>>
    BY <1>8 DEF LockStep, Lock, ReadList, Unlock, progVars
  <2>2. \/ pc[t] = "lock" /\ pc'[t] = "read"
        \/ pc[t] = "read" /\ pc'[t] = "write"
        \/ pc[t] = "unlock" /\ pc'[t] = "return"
    BY <1>2, <1>8 DEF LockStep, Lock, ReadList, Unlock, Goto
  <2>3. /\ pc'[t] \in {"lock", "read", "write"} <=> pc[t] \in {"lock", "read", "write"}
        /\ pc'[t] \in {"unlock", "return"} => pc[t] \in {"unlock", "return"}
    BY <2>2
  <2> QED
    BY <1>3, <1>4, <1>5, <1>6, <2>1, <2>3
<1>9. CASE ReturnTo(t)
  <2>1. /\ pc[t] = "return" /\ pc'[t] = "idle" /\ op'[t] = "none"
        /\ inner' = inner /\ UNCHANGED <<todo, left>>
    BY <1>9, Returned
  <2> QED
    BY <1>4, <1>5, <1>6, <2>1
<1>10. CASE EnqueueNext(t)
  <2>1. /\ pc[t] = "idle" /\ pc'[t] = "lock" /\ op'[t] = "enqueue"
        /\ todo[t] # <<>> /\ todo'[t] = Tail(todo[t]) /\ left' = left /\ inner' = inner
    BY <1>1, <1>10 DEF EnqueueNext, CallEnqueue, Goto, IInv, TypeOK, ControlInv
  <2>2. todo[t] \in Seq(Values)
    BY <1>1 DEF ControlInv
  <2>3. /\ Len(todo[t]) \in Nat /\ Len(todo'[t]) = Len(todo[t]) - 1
    BY <2>1, <2>2, HeadTailProperties
  <2>4. /\ t \notin Enqueuing /\ t \in Enqueuing' /\ t \notin Dequeuing /\ t \notin Dequeuing'
    BY <1>2, <1>4, <1>5, <2>1
  <2>5. Unpushed(t)' = Unpushed(t)
    <3>1. Unpushed(t)' = Len(todo'[t]) + 1
      BY <2>4 DEF Unpushed
    <3> QED
      BY <2>3, <2>4, <3>1, UnpushedIs
  <2>6. Unpopped(t)' = Unpopped(t)
    BY <2>1, <2>4 DEF Unpopped
  <2> QED
    BY <1>1, <2>1, <2>5, <2>6, BenchKept
<1>11. CASE DequeueNext(t)
  <2>1. /\ pc[t] = "idle" /\ pc'[t] = "lock" /\ op'[t] = "dequeue"
        /\ todo' = todo /\ left'[t] = left[t] - 1 /\ inner' = inner
    BY <1>1, <1>11 DEF DequeueNext, CallDequeue, Goto, IInv, TypeOK, ControlInv
  <2>2. /\ t \notin Enqueuing /\ t \notin Enqueuing' /\ t \notin Dequeuing /\ t \in Dequeuing'
    BY <1>2, <1>4, <1>5, <2>1
  <2>3. left[t] \in Nat
    BY <1>1, CountsAreNat
  <2>4. Unpopped(t)' = Unpopped(t)
    <3>1. Unpopped(t)' = left'[t] + 1
      BY <2>2 DEF Unpopped
    <3> QED
      BY <2>1, <2>2, <2>3, <3>1, UnpoppedIs
  <2>5. Unpushed(t)' = Unpushed(t)
    BY <2>1, <2>2 DEF Unpushed
  <2> QED
    BY <1>1, <2>1, <2>4, <2>5, BenchKept
<1>12. ~Arrive(t) /\ ~Pass(t) /\ ~(t = Main /\ Drain) /\ ~FreeCall(t)
  BY <1>2 DEF Arrive, Pass, Drain, FreeCall, Advance
<1>13. CASE PushBack(t) /\ UNCHANGED progVars
  <2>1. t # Main
    BY <1>2, <1>13 DEF PushBack
  <2> QED
    BY <1>13, <2>1, BenchPush
<1>14. CASE PopFront(t) /\ UNCHANGED progVars
  <2>1. t # Main
    BY <1>2, <1>14 DEF PopFront
  <2> QED
    BY <1>14, <2>1, BenchPop
<1> QED
  BY <1>7, <1>8, <1>9, <1>10, <1>11, <1>12, <1>13, <1>14 DEF StepOf, ProgramStep, Inside

-----------------------------------------------------------------------------
LEMMA InitPrograms == ProgramInit => PInv
<1> SUFFICES ASSUME ProgramInit PROVE PInv
  OBVIOUS
<1> DEFINE first(t) == IF t = Partner THEN 0 ELSE Size
<1>1. /\ IInv /\ inner = <<>> /\ got = <<>> /\ program \in {"test", "bench", "free"}
      /\ pc = [t \in Threads |-> "idle"] /\ op = [t \in Threads |-> "none"] /\ Start(program)
  BY InitIInv DEF ProgramInit, Init
<1>2. Main \in Threads /\ Partner \in Threads /\ Main # Partner /\ Size \in Nat
  BY SizeIsNat
<1>3. at \in [Threads -> Places]
  <2>1. DOMAIN at = Threads
    BY <1>1 DEF Start
  <2>2. at = [t \in Threads |-> at[t]]
    BY <1>1 DEF Start
  <2>3. \A t \in Threads : at[t] \in Places
    BY <1>1 DEF Start, Places
  <2> QED
    BY <2>2, <2>3
<1>4. /\ Numbers(0) \in Seq(Values) /\ Numbers(Size) \in Seq(Values)
      /\ [i \in 1..Size |-> 1] \in Seq(Values)
  <2>1. \A i \in 1..Size : 0 + i - 1 \in Values /\ Size + i - 1 \in Values /\ 1 \in Values
    BY ProgramSize
  <2> QED
    BY <1>2, <2>1 DEF Numbers
<1>5. /\ Len(Numbers(0)) = Size /\ Len(Numbers(Size)) = Size /\ Len([i \in 1..Size |-> 1]) = Size
      /\ \A i \in 1..Size : Numbers(0)[i] = 0 + i - 1 /\ Numbers(Size)[i] = Size + i - 1
  BY <1>2 DEF Numbers
<1>6. ControlInv
  <2>1. todo \in [Threads -> Seq(Values)]
    <3>1. todo = [t \in Threads |-> todo[t]]
      BY <1>1 DEF Start
    <3>2. \A t \in Threads : todo[t] \in Seq(Values)
      BY <1>1, <1>4 DEF Start
    <3> QED
      BY <3>1, <3>2
  <2>2. left \in [Threads -> 0..Size]
    BY <1>1, <1>2 DEF Start
  <2>3. \A t \in Threads : todo[t] # <<>> => at[t] \in {"arrive", "barrier", "enqueue"}
    BY <1>1 DEF Start, Pair
  <2>4. \A t \in Threads : op[t] = "none"
    BY <1>1
  <2> QED
    BY <1>1, <1>3, <2>1, <2>2, <2>3, <2>4 DEF ControlInv
<1>7. PlacesInv
  BY <1>1, <1>2 DEF PlacesInv, Start, Pair
<1>8. \A t \in Threads : t \notin Enqueuing /\ t \notin Dequeuing
  BY <1>1 DEF Enqueuing, Dequeuing
<1>9. TestInv
  <2> SUFFICES ASSUME program = "test" PROVE TestInv
    BY DEF TestInv
  <2>1. /\ at[Main] = "arrive" /\ todo[Partner] = Numbers(0) /\ todo[Main] = Numbers(Size)
    BY <1>1, <1>2 DEF Start, Pair
  <2>2. Unpushed(Partner) = Size /\ Unpushed(Main) = Size
    BY <1>2, <1>5, <1>8, <2>1, UnpushedIs
  <2>3. End(Partner) = Size /\ End(Main) = 2 * Size
    BY <1>2 DEF End
  <2>4. Line = <<>> /\ ~Ended
    BY <1>1, <2>1 DEF Line, Pending, Ended
  <2>5. \A i \in 1..Size : /\ Numbers(0)[i] = Size - Size + i - 1
                           /\ Numbers(Size)[i] = 2 * Size - Size + i - 1
    BY <1>2, <1>5
  <2>6. \A s \in Pair : /\ Unpushed(s) <= Size /\ s \notin Enqueuing
                        /\ \A i \in 1..Len(todo[s]) : todo[s][i] = End(s) - Len(todo[s]) + i - 1
    BY <1>2, <1>5, <1>8, <2>1, <2>2, <2>3, <2>5 DEF Pair
  <2>7. Ordered(Line) /\ ToSet(Line) = {}
    BY <2>4 DEF Ordered, ToSet
  <2>8. ASSUME NEW v \in Values PROVE ~(v < End(Thread(v)) - Unpushed(Thread(v)))
    <3>1. v \in Nat
      BY <1>2, ProgramSize
    <3>2. CASE v < Size
      <4>1. Thread(v) = Partner
        BY <3>2 DEF Thread
      <4> QED
        BY <1>2, <2>2, <2>3, <3>1, <4>1
    <3>3. CASE ~(v < Size)
      <4>1. Thread(v) = Main
        BY <3>3 DEF Thread
      <4> QED
        BY <1>2, <2>2, <2>3, <3>1, <3>3, <4>1
    <3> QED
      BY <3>2, <3>3
  <2> QED
    BY <1>1, <2>6, <2>7, <2>8 DEF TestInv
<1>10. BenchInv
  <2> SUFFICES ASSUME program = "bench" PROVE BenchInv
    BY DEF BenchInv
  <2>1. \A t \in Threads \ {Main} : todo[t] = [i \in 1..Size |-> 1] /\ left[t] = Size
    BY <1>1 DEF Start
  <2>2. \A t \in Threads \ {Main} : Unpushed(t) = Size /\ Unpopped(t) = Size
    BY <1>2, <1>5, <1>8, <2>1, UnpushedIs, UnpoppedIs
  <2>3. Tickets = {}
    <3>1. \A p \in (Threads \ {Main}) \X (1..Size) : p[1] \in Threads \ {Main} /\ p[2] \in 1..Size
      OBVIOUS
    <3>2. \A p \in (Threads \ {Main}) \X (1..Size) : ~(Unpushed(p[1]) < p[2] /\ p[2] <= Unpopped(p[1]))
      BY <1>2, <2>2, <3>1
    <3> QED
      BY <3>2 DEF Tickets
  <2>4. IsFiniteSet(Tickets) /\ Cardinality(Tickets) = Len(inner)
    BY <1>1, <2>3, FS_EmptySet
  <2>5. \A t \in Threads : op[t] # "dequeue"
    BY <1>1
  <2> QED
    BY <1>2, <2>2, <2>4, <2>5 DEF BenchInv
<1> QED
  BY <1>1, <1>6, <1>7, <1>9, <1>10 DEF PInv

LEMMA NextKeepsPInv == PInv /\ [ProgramNext]_<<vars, progVars>> => PInv'
<1> SUFFICES ASSUME PInv, [ProgramNext]_<<vars, progVars>> PROVE PInv'
  OBVIOUS
<1>1. IInv'
  BY ProgramStepIsStep, NextKeepsIInv DEF PInv
<1>2. CASE UNCHANGED <<vars, progVars>>
  <2>1. /\ UNCHANGED <<inner, pc, op, arg, ret>>
        /\ UNCHANGED <<program, at, todo, left, got>>
    BY <1>2 DEF vars, progVars
  <2>2. Enqueuing' = Enqueuing /\ Dequeuing' = Dequeuing
    BY <2>1 DEF Enqueuing, Dequeuing
  <2>3. \A t : Unpushed(t)' = Unpushed(t) /\ Unpopped(t)' = Unpopped(t)
    BY <2>1, <2>2 DEF Unpushed, Unpopped
  <2>4. Line' = Line /\ (Ended' <=> Ended)
    BY <2>1 DEF Line, Pending, Ended
  <2>5. Tickets' = Tickets
    BY <2>3 DEF Tickets
  <2>6. ControlInv' /\ PlacesInv'
    BY <2>1 DEF PInv, ControlInv, PlacesInv
  <2>7. TestInv'
    BY <2>1, <2>2, <2>3, <2>4 DEF PInv, TestInv
  <2>8. BenchInv'
    BY <2>1, <2>3, <2>5 DEF PInv, BenchInv
  <2> QED
    BY <1>1, <2>6, <2>7, <2>8 DEF PInv
<1>3. ASSUME NEW t \in Threads, StepOf(t) PROVE PInv'
  BY <1>1, <1>3, ControlKept, PlacesKept, TestInvKept, BenchInvKept DEF PInv
<1> QED
  BY <1>2, <1>3 DEF ProgramNext, StepOf, Over

\* What the invariant says of a program that is over.
LEMMA NothingIsLost == PInv => AllComeBack
<1> SUFFICES ASSUME PInv PROVE AllComeBack
  OBVIOUS
<1>1. IInv /\ ControlInv /\ PlacesInv /\ got \in Seq(Values) /\ inner \in Seq(Values)
  BY LineIsSeq DEF PInv
<1>2. None \notin ToSet(got)
  BY <1>1, LbqValues DEF ToSet
<1>3. ASSUME at[Main] = "done" PROVE inner = <<>> /\ \A t \in Threads : todo[t] = <<>>
  <2>1. \A t \in Threads : at[t] = "done" /\ todo[t] = <<>> /\ op[t] = "none"
    <3> SUFFICES ASSUME NEW t \in Threads PROVE at[t] = "done" /\ todo[t] = <<>> /\ op[t] = "none"
      OBVIOUS
    <3>1. at[t] = "done"
      BY <1>1, <1>3, WhereThreadsAre
    <3> QED
      BY <1>1, <3>1 DEF ControlInv, IInv, TypeOK
  <2>2. program \in {"test", "bench"}
    BY <1>1, <1>3, SizeIsNat DEF ControlInv, PlacesInv
  <2>3. CASE program = "test"
    BY <1>3, <2>1, <2>3 DEF PInv, TestInv, Ended
  <2>4. CASE program = "bench"
    <3>1. \A t \in Threads \ {Main} : Unpopped(t) = 0
      <4> SUFFICES ASSUME NEW t \in Threads \ {Main} PROVE Unpopped(t) = 0
        OBVIOUS
      <4>1. left[t] = 0 /\ t \notin Dequeuing
        BY <1>1, <2>1, <2>4 DEF PlacesInv, Dequeuing
      <4> QED
        BY <4>1, UnpoppedIs
    <3>2. Tickets = {}
      <4>1. \A p \in (Threads \ {Main}) \X (1..Size) : p[1] \in Threads \ {Main} /\ p[2] \in 1..Size
        OBVIOUS
      <4>2. \A p \in (Threads \ {Main}) \X (1..Size) : ~(p[2] <= Unpopped(p[1]))
        BY <3>1, <4>1, SizeIsNat
      <4> QED
        BY <4>2 DEF Tickets
    <3>3. Len(inner) = 0
      BY <2>4, <3>2, FS_EmptySet DEF PInv, BenchInv
    <3> QED
      BY <1>1, <2>1, <3>3, EmptySeq
  <2> QED
    BY <2>2, <2>3, <2>4
<1>4. ASSUME at[Main] = "done", program = "test" PROVE ToSet(got) = Values /\ Ordered(got)
  <2>1. inner = <<>> /\ \A t \in Threads : todo[t] = <<>>
    BY <1>3, <1>4
  <2>2. Line = got
    <3>1. Pending = <<>>
      BY <1>4 DEF Pending
    <3>2. got \o <<>> = got
      BY <1>1, ConcatEmptySeq
    <3> QED
      BY <2>1, <3>1, <3>2 DEF Line
  <2>3. \A s \in Pair : s \in Threads /\ Unpushed(s) = 0
    <3> SUFFICES ASSUME NEW s \in Pair PROVE s \in Threads /\ Unpushed(s) = 0
      OBVIOUS
    <3>1. s \in Threads
      BY SizeIsNat DEF Pair
    <3>2. at[s] = "done"
      BY <1>1, <1>4, <3>1, WhereThreadsAre
    <3>3. op[s] # "enqueue"
      BY <1>1, <3>1, <3>2 DEF ControlInv
    <3>4. s \notin Enqueuing
      BY <3>3 DEF Enqueuing
    <3>5. Len(todo[s]) = 0
      BY <2>1, <3>1
    <3> QED
      BY <3>1, <3>4, <3>5, UnpushedIs
  <2>4. ASSUME NEW v \in Values PROVE v \in ToSet(got)
    <3>1. v \in ToSet(Line) <=> v < End(Thread(v)) - Unpushed(Thread(v))
      BY <1>4 DEF PInv, TestInv
    <3>2. Thread(v) \in Pair /\ Unpushed(Thread(v)) = 0
      BY <2>3 DEF Thread, Pair
    <3>3. v \in Nat /\ v < 2 * Size
      BY SizeIsNat, ProgramSize
    <3>4. v < End(Thread(v))
      <4>1. CASE v < Size
        BY <4>1, SizeIsNat DEF Thread, End
      <4>2. CASE ~(v < Size)
        BY <3>3, <4>2, SizeIsNat DEF Thread, End
      <4> QED
        BY <4>1, <4>2
    <3>5. End(Thread(v)) \in Int
      BY SizeIsNat DEF End
    <3> QED
      BY <2>2, <3>1, <3>2, <3>3, <3>4, <3>5
  <2>5. ToSet(got) \subseteq Values
    BY <1>1 DEF ToSet
  <2> QED
    BY <1>4, <2>2, <2>4, <2>5 DEF PInv, TestInv
<1> QED
  BY <1>2, <1>3, <1>4 DEF AllComeBack

\* For any number of threads and values: no dequeue of the benchmark finds the queue
\* empty, a program that is over leaves it empty, and test() prints every number, each
\* thread's in the order of its loop (lock_based_queue.rs:24-57, benchmark.rs:29-52).
THEOREM PutInComesOut == ProgramSpec => []AllComeBack
  BY InitPrograms, NextKeepsPInv, NothingIsLost, PTL DEF ProgramSpec

-----------------------------------------------------------------------------
(***************************************************************************)
(* Progress of the two programs.  The guards of a thread's steps, whether  *)
(* in the program or in a call; and what it has left to do.                *)
(***************************************************************************)
Room == Cardinality(Enqueuing) + Len(inner) < MaxLength

Ready(t) ==
  \/ at[t] = "arrive"
  \/ at[t] = "barrier" /\ \A s \in Pair : at[s] # "arrive"
  \/ at[t] = "enqueue" /\ pc[t] = "idle" /\ (todo[t] = <<>> \/ Room)
  \/ at[t] = "dequeue" /\ pc[t] = "idle"
  \/ t = Main /\ at[t] = "join" /\ \A s \in Threads \ {Main} : at[s] = "done"
  \/ t = Main /\ at[t] = "drain" /\ pc[t] = "idle"
  \/ pc[t] = "lock" /\ owner = None
  \/ pc[t] \in {"read", "write", "unlock", "return"}

\* test() enqueues no more than its two threads have to.
RoomInv == program = "test" => Len(inner) + Unpushed(Main) + Unpushed(Partner) <= 2 * Size

\* What a step does to the list and to what is not pushed.
LEMMA PushesAndPops ==
  ASSUME PInv, NEW t \in Threads, StepOf(t), program # "free"
  PROVE  /\ Len(inner') \in Nat /\ Unpushed(t)' \in Nat
         /\ \/ Unpushed(t)' = Unpushed(t) /\ Len(inner') <= Len(inner)
            \/ Unpushed(t)' = Unpushed(t) - 1 /\ Len(inner') = Len(inner) + 1
<1>1. IInv /\ ControlInv /\ PlacesInv /\ IInv' /\ ControlInv'
  <2>1. [Next]_vars
    <3>1. [ProgramNext]_<<vars, progVars>>
      BY DEF StepOf, ProgramNext
    <3> QED
      BY <3>1, ProgramStepIsStep
  <2> QED
    BY <2>1, NextKeepsIInv, ControlKept DEF PInv
<1>2. /\ inner \in Seq(Values) /\ inner' \in Seq(Values) /\ todo[t] \in Seq(Values)
      /\ todo'[t] \in Seq(Values)
      /\ Len(inner) \in Nat /\ Len(inner') \in Nat /\ Len(todo[t]) \in Nat /\ Len(todo'[t]) \in Nat
  <2>1. inner \in Seq(Values) /\ inner' \in Seq(Values) /\ todo[t] \in Seq(Values)
        /\ todo'[t] \in Seq(Values)
    BY <1>1 DEF IInv, TypeOK, ControlInv
  <2> QED
    BY <2>1, LenProperties
<1>3. /\ Unpushed(t)' \in Nat
      /\ t \in Enqueuing' => Unpushed(t)' = Len(todo'[t]) + 1
      /\ t \notin Enqueuing' => Unpushed(t)' = Len(todo'[t])
  <2>1. Unpushed(t)' = Len(todo'[t]) + IF t \in Enqueuing' THEN 1 ELSE 0
    BY DEF Unpushed
  <2>2. CASE t \in Enqueuing'
    BY <1>2, <2>1, <2>2
  <2>3. CASE t \notin Enqueuing'
    BY <1>2, <2>1, <2>3
  <2> QED
    BY <1>2, <2>2, <2>3
<1>4. CASE PushBack(t) /\ UNCHANGED progVars
  <2>1. op[t] = "enqueue" /\ pc[t] = "write" /\ pc'[t] = "unlock" /\ inner' = Append(inner, arg[t])
        /\ todo' = todo /\ arg[t] \in Values
    BY <1>1, <1>4 DEF PushBack, Goto, IInv, TypeOK, MutexInv, CallInv, progVars
  <2>2. t \in Enqueuing /\ t \notin Enqueuing'
    BY <2>1 DEF Enqueuing
  <2>3. Len(inner') = Len(inner) + 1
    BY <1>2, <2>1, AppendProperties
  <2>4. Unpushed(t) = Len(todo[t]) + 1 /\ Unpushed(t)' = Len(todo[t])
    BY <1>2, <1>3, <2>1, <2>2, UnpushedIs
  <2> QED
    BY <1>2, <2>3, <2>4
<1>5. CASE EnqueueNext(t)
  <2>1. op[t] = "none" /\ op'[t] = "enqueue" /\ pc[t] = "idle" /\ pc'[t] = "lock" /\ inner' = inner
        /\ todo'[t] = Tail(todo[t]) /\ todo[t] # <<>>
    BY <1>1, <1>5 DEF EnqueueNext, CallEnqueue, Goto, IInv, TypeOK, CallInv, ControlInv
  <2>2. t \notin Enqueuing /\ t \in Enqueuing'
    BY <2>1 DEF Enqueuing
  <2>3. Len(todo'[t]) = Len(todo[t]) - 1
    BY <1>2, <2>1, HeadTailProperties
  <2>4. Unpushed(t) = Len(todo[t]) /\ Unpushed(t)' = Len(todo'[t]) + 1
    BY <1>2, <1>3, <2>2, UnpushedIs
  <2> QED
    BY <1>2, <2>1, <2>3, <2>4
<1>6. CASE PopFront(t) /\ UNCHANGED progVars
  <2>1. op[t] = "dequeue" /\ op'[t] = "dequeue" /\ todo' = todo /\ seen[t] = inner
        /\ (inner' = inner \/ (inner # <<>> /\ inner' = Tail(inner)))
    BY <1>1, <1>6 DEF PopFront, Goto, IInv, TypeOK, MutexInv, progVars
  <2>2. t \notin Enqueuing /\ t \notin Enqueuing'
    BY <2>1 DEF Enqueuing
  <2>3. Len(inner') <= Len(inner)
    <3>1. inner # <<>> => Len(Tail(inner)) = Len(inner) - 1
      BY <1>2, HeadTailProperties
    <3> QED
      BY <1>2, <2>1, <3>1
  <2> QED
    BY <1>2, <1>3, <2>1, <2>2, <2>3, UnpushedIs
<1>7. CASE /\ inner' = inner /\ todo' = todo
           /\ t \in Enqueuing' <=> t \in Enqueuing
  BY <1>2, <1>3, <1>7, UnpushedIs
<1>8. StepOf(t) => \/ PushBack(t) /\ UNCHANGED progVars
                   \/ EnqueueNext(t)
                   \/ PopFront(t) /\ UNCHANGED progVars
                   \/ inner' = inner /\ todo' = todo /\ (t \in Enqueuing' <=> t \in Enqueuing)
  <2>1. CASE ProgramStep(t) /\ ~EnqueueNext(t)
    <3>1. CASE Arrive(t) \/ Pass(t) \/ EnqueuedAll(t) \/ DequeuedAll(t) \/ (t = Main /\ Join)
      BY <3>1 DEF Arrive, Pass, EnqueuedAll, DequeuedAll, Join, vars, Enqueuing
    <3>2. CASE DequeueNext(t) \/ (t = Main /\ Drain)
      <4>1. CallDequeue(t) /\ todo' = todo
        BY <3>2 DEF DequeueNext, Drain, progVars
      <4>2. op[t] = "none" /\ op'[t] = "dequeue" /\ inner' = inner
        BY <1>1, <4>1 DEF CallDequeue, Goto, IInv, TypeOK, CallInv
      <4> QED
        BY <4>1, <4>2 DEF Enqueuing
    <3> QED
      BY <2>1, <3>1, <3>2 DEF ProgramStep
  <2>2. CASE (ReadList(t) \/ Lock(t)) /\ UNCHANGED progVars
    <3>1. op' = op /\ pc[t] \in {"lock", "read", "write"} /\ pc'[t] \in {"lock", "read", "write"}
          /\ inner' = inner /\ todo' = todo
      BY <1>1, <2>2 DEF ReadList, Lock, Goto, IInv, TypeOK, progVars
    <3> QED
      BY <3>1 DEF Enqueuing
  <2>3. CASE (Unlock(t) /\ UNCHANGED progVars) \/ ReturnTo(t)
    <3>1. pc[t] \in {"unlock", "return"} /\ pc'[t] \in {"return", "idle"}
          /\ inner' = inner /\ todo' = todo
      BY <1>1, <2>3 DEF Unlock, ReturnTo, Return, Goto, IInv, TypeOK, progVars
    <3> QED
      BY <3>1 DEF Enqueuing
  <2>4. ~FreeCall(t)
    BY <1>1, WhereThreadsAre DEF FreeCall
  <2> QED
    BY <2>1, <2>2, <2>3, <2>4 DEF StepOf, Inside, LockStep
<1> QED
  BY <1>4, <1>5, <1>6, <1>7, <1>8

\* The two threads of test() never enqueue more than 2 * Size.
LEMMA RoomInvariance == ProgramSpec => []RoomInv
<1>1. ProgramInit => RoomInv
  <2> SUFFICES ASSUME ProgramInit, program = "test"
               PROVE  Len(inner) + Unpushed(Main) + Unpushed(Partner) <= 2 * Size
    BY DEF RoomInv
  <2>1. Len(inner) = 0
    BY EmptySeq DEF ProgramInit, Init
  <2>2. Unpushed(Main) <= Size /\ Unpushed(Partner) <= Size
    BY InitPrograms DEF PInv, TestInv, Pair
  <2>3. Unpushed(Main) \in Nat /\ Unpushed(Partner) \in Nat /\ Size \in Nat
    BY InitPrograms, SizeIsNat, CountsAreNat DEF PInv
  <2> QED
    BY <2>1, <2>2, <2>3
<1>2. PInv /\ RoomInv /\ [ProgramNext]_<<vars, progVars>> => RoomInv'
  <2> SUFFICES ASSUME PInv, RoomInv, [ProgramNext]_<<vars, progVars>> PROVE RoomInv'
    OBVIOUS
  <2>1. CASE UNCHANGED <<vars, progVars>>
    BY <2>1 DEF RoomInv, Unpushed, Enqueuing, vars, progVars
  <2>2. ASSUME NEW t \in Threads, StepOf(t) PROVE RoomInv'
    <3>1. Local(t) /\ program' = program
      BY <2>2, StepIsLocal DEF PInv
    <3> SUFFICES ASSUME program = "test"
                 PROVE  Len(inner') + Unpushed(Main)' + Unpushed(Partner)' <= 2 * Size
      BY <3>1 DEF RoomInv
    <3>2. Len(inner) + Unpushed(Main) + Unpushed(Partner) <= 2 * Size
      BY DEF RoomInv
    <3>3. \A r \in Threads : StepOf(r) =>
            /\ Len(inner') \in Nat /\ Unpushed(r)' \in Nat
            /\ \/ Unpushed(r)' = Unpushed(r) /\ Len(inner') <= Len(inner)
               \/ Unpushed(r)' = Unpushed(r) - 1 /\ Len(inner') = Len(inner) + 1
      BY PushesAndPops
    <3>4. /\ Unpushed(Main) \in Nat /\ Unpushed(Partner) \in Nat /\ Len(inner) \in Nat
          /\ Main \in Threads /\ Partner \in Threads /\ Main # Partner /\ Size \in Nat
      BY SizeIsNat, CountsAreNat, LenProperties DEF PInv, IInv, TypeOK
    <3>5. \A s \in Threads \ {t} : Unpushed(s)' = Unpushed(s)
      BY <3>1, OthersCount
    <3>6. CASE t = Main
      <4>1. Unpushed(Partner)' = Unpushed(Partner)
        BY <3>4, <3>5, <3>6
      <4>2. /\ Len(inner') \in Nat /\ Unpushed(Main)' \in Nat
            /\ \/ Unpushed(Main)' = Unpushed(Main) /\ Len(inner') <= Len(inner)
               \/ Unpushed(Main)' = Unpushed(Main) - 1 /\ Len(inner') = Len(inner) + 1
        BY <2>2, <3>3, <3>6
      <4> DEFINE all == 2 * Size
      <4>3. all \in Int /\ Len(inner) + Unpushed(Main) + Unpushed(Partner) <= all
        BY <3>2, <3>4
      <4> HIDE DEF all
      <4>4. Len(inner') + Unpushed(Main)' + Unpushed(Partner)' <= all
        BY <3>4, <4>1, <4>2, <4>3
      <4> QED
        BY <4>4 DEF all
    <3>7. CASE t = Partner
      <4>1. Unpushed(Main)' = Unpushed(Main)
        BY <3>4, <3>5, <3>7
      <4>2. /\ Len(inner') \in Nat /\ Unpushed(Partner)' \in Nat
            /\ \/ Unpushed(Partner)' = Unpushed(Partner) /\ Len(inner') <= Len(inner)
               \/ Unpushed(Partner)' = Unpushed(Partner) - 1 /\ Len(inner') = Len(inner) + 1
        BY <2>2, <3>3, <3>7
      <4> DEFINE all == 2 * Size
      <4>3. all \in Int /\ Len(inner) + Unpushed(Main) + Unpushed(Partner) <= all
        BY <3>2, <3>4
      <4> HIDE DEF all
      <4>4. Len(inner') + Unpushed(Main)' + Unpushed(Partner)' <= all
        BY <3>4, <4>1, <4>2, <4>3
      <4> QED
        BY <4>4 DEF all
    <3>8. CASE t \notin {Main, Partner}
      <4>1. at[t] = "done" /\ op[t] = "none"
        BY <2>2, <3>8 DEF PInv, PlacesInv, ControlInv, IInv, TypeOK
      <4>2. Unpushed(Main)' = Unpushed(Main) /\ Unpushed(Partner)' = Unpushed(Partner)
        BY <3>4, <3>5, <3>8
      <4>3. Len(inner') <= Len(inner)
        <5>1. t \notin Enqueuing /\ Unpushed(t) = 0
          <6>1. todo[t] = <<>>
            BY <4>1 DEF PInv, ControlInv
          <6>2. Len(todo[t]) = 0 /\ t \notin Enqueuing
            BY <4>1, <6>1, EmptySeq DEF Enqueuing
          <6> QED
            BY <6>2, UnpushedIs
        <5> QED
          BY <2>2, <3>3, <5>1
      <4>4. Len(inner') \in Nat
        BY <2>2, <3>3
      <4> QED
        BY <3>2, <3>4, <4>2, <4>3, <4>4
    <3> QED
      BY <3>6, <3>7, <3>8
  <2> QED
    BY <2>1, <2>2 DEF ProgramNext, StepOf, Over
<1>3. ProgramSpec => []PInv
  BY InitPrograms, NextKeepsPInv, PTL DEF ProgramSpec
<1> QED
  BY <1>1, <1>2, <1>3, PTL DEF ProgramSpec

\* What is queued or under way fits, so that a bound on the list that is no less than what
\* the threads have to enqueue never holds a program up.
BoundIsAmple == IsFiniteSet(Threads) /\ MaxLength >= 2 * Size /\ MaxLength >= (Cardinality(Threads) - 1) * Size

LEMMA TestHasRoom ==
  ASSUME PInv, RoomInv, BoundIsAmple, program = "test",
         NEW t \in Pair, pc[t] = "idle", todo[t] # <<>>
  PROVE  Room
<1>1. PICK o \in Pair : Pair = {t, o} /\ o # t
  BY SizeIsNat DEF Pair
<1>2. /\ t \in Threads /\ o \in Threads /\ Size \in Nat /\ MaxLength \in Nat
      /\ Len(inner) \in Nat /\ Unpushed(t) \in Nat /\ Unpushed(o) \in Nat
  BY <1>1, SizeIsNat, LbqBound, CountsAreNat, LenProperties DEF PInv, IInv, TypeOK, Pair
<1>3. Len(inner) + Unpushed(t) + Unpushed(o) <= MaxLength
  <2>1. Len(inner) + Unpushed(Main) + Unpushed(Partner) <= 2 * Size /\ 2 * Size <= MaxLength
    BY DEF RoomInv, BoundIsAmple
  <2>2. (t = Main /\ o = Partner) \/ (t = Partner /\ o = Main)
    <3>1. t \in {Main, Partner} /\ o \in {Main, Partner} /\ o # t
      BY <1>1 DEF Pair
    <3> QED
      BY <3>1
  <2> DEFINE all == 2 * Size
  <2>3. all \in Int /\ Len(inner) + Unpushed(Main) + Unpushed(Partner) <= all /\ all <= MaxLength
    BY <1>2, <2>1
  <2> HIDE DEF all
  <2>4. Unpushed(Main) \in Nat /\ Unpushed(Partner) \in Nat
    BY SizeIsNat, CountsAreNat DEF PInv
  <2>5. CASE t = Main /\ o = Partner
    BY <1>2, <2>3, <2>5
  <2>6. CASE t = Partner /\ o = Main
    BY <1>2, <2>3, <2>4, <2>6
  <2> QED
    BY <2>2, <2>5, <2>6
<1>4. Unpushed(t) >= 1
  <2>1. Len(todo[t]) \in Nat /\ Len(todo[t]) # 0
    BY <1>2, EmptySeq, LenProperties DEF PInv, ControlInv
  <2> QED
    BY <1>2, <2>1, UnpushedIs
<1>5. Enqueuing \subseteq {o}
  <2> SUFFICES ASSUME NEW s \in Enqueuing PROVE s = o
    OBVIOUS
  <2>1. s \in Threads /\ s # t /\ at[s] = "enqueue"
    BY DEF Enqueuing, PInv, ControlInv, PlacesInv
  <2>2. s \in Pair
    BY <2>1, WhereThreadsAre DEF PInv
  <2> QED
    BY <1>1, <2>1, <2>2
<1>6. CASE o \in Enqueuing
  <2>1. Enqueuing = {o}
    BY <1>5, <1>6
  <2>2. Cardinality(Enqueuing) = 1
    BY <2>1, FS_Singleton
  <2>3. Unpushed(o) >= 1
    BY <1>2, <1>6, CountsAreNat, UnpushedIs DEF PInv
  <2> QED
    BY <1>2, <1>3, <1>4, <2>2, <2>3 DEF Room
<1>7. CASE o \notin Enqueuing
  <2>1. Enqueuing = {}
    BY <1>5, <1>7
  <2>2. Cardinality(Enqueuing) = 0
    BY <2>1, FS_EmptySet
  <2> QED
    BY <1>2, <1>3, <1>4, <2>2 DEF Room
<1> QED
  BY <1>6, <1>7

\* Next to the tickets there is one for each thread that has a value to push.
LEMMA BenchHasRoom ==
  ASSUME PInv, BoundIsAmple, program = "bench",
         NEW t \in Threads \ {Main}, pc[t] = "idle", todo[t] # <<>>
  PROVE  Room
<1> DEFINE All == (Threads \ {Main}) \X (1..Size)
           W == Enqueuing \cup {t}
           f == [s \in W |-> <<s, Unpushed(s)>>]
           V == {<<s, Unpushed(s)>> : s \in W}
<1>1. Size \in Nat /\ MaxLength \in Nat /\ Len(inner) \in Nat
  BY SizeIsNat, LbqBound, LenProperties DEF PInv, IInv, TypeOK
<1>2. IsFiniteSet(All) /\ Cardinality(All) <= MaxLength
  <2>1. /\ IsFiniteSet(Threads \ {Main})
        /\ Cardinality(Threads \ {Main}) = Cardinality(Threads) - 1
    BY SizeIsNat, FS_RemoveElement DEF BoundIsAmple
  <2>2. IsFiniteSet(1..Size) /\ Cardinality(1..Size) = Size
    <3>1. /\ IsFiniteSet(1..Size)
          /\ Cardinality(1..Size) = IF 1 > Size THEN 0 ELSE Size - 1 + 1
      <4>1. 1 \in Int /\ Size \in Int
        BY <1>1
      <4> QED
        BY <4>1, FS_Interval
    <3> QED
      BY <1>1, <3>1
  <2>3. IsFiniteSet(All) /\ Cardinality(All) = (Cardinality(Threads) - 1) * Size
    <3>1. /\ IsFiniteSet(All)
          /\ Cardinality(All) = Cardinality(Threads \ {Main}) * Cardinality(1..Size)
      BY <2>1, <2>2, FS_Product
    <3> QED
      BY <2>1, <2>2, <3>1
  <2>4. (Cardinality(Threads) - 1) * Size <= MaxLength
    BY DEF BoundIsAmple
  <2> QED
    BY <2>3, <2>4
<1>3. t \notin Enqueuing
  BY DEF Enqueuing
<1>4. \A s \in W : s \in Threads \ {Main} /\ Unpushed(s) \in 1..Size
  <2> SUFFICES ASSUME NEW s \in W PROVE s \in Threads \ {Main} /\ Unpushed(s) \in 1..Size
    OBVIOUS
  <2>1. s \in Threads
    BY DEF Enqueuing
  <2>2. s # Main
    <3>1. s \in Enqueuing => op[s] = "enqueue"
      BY DEF Enqueuing
    <3>2. s \in Enqueuing => at[s] = "enqueue"
      BY <2>1, <3>1, SizeIsNat DEF PInv, ControlInv, PlacesInv
    <3> QED
      BY <3>2 DEF PInv, PlacesInv
  <2>3. Unpushed(s) \in Nat /\ Len(todo[s]) \in Nat /\ Unpushed(s) <= Size
    BY <2>1, <2>2, CountsAreNat DEF PInv, BenchInv
  <2>4. Unpushed(s) >= 1
    <3>1. CASE s \in Enqueuing
      BY <2>1, <2>3, <3>1, UnpushedIs
    <3>2. CASE s = t
      <4>1. Len(todo[t]) # 0
        BY EmptySeq DEF PInv, ControlInv
      <4> QED
        BY <1>3, <2>1, <2>3, <3>2, <4>1, UnpushedIs
    <3> QED
      BY <3>1, <3>2
  <2> QED
    BY <1>1, <2>1, <2>2, <2>3, <2>4
<1>5. V \subseteq All /\ Tickets \subseteq All
  BY <1>4 DEF Tickets
<1>6. V \cap Tickets = {}
  <2> SUFFICES ASSUME NEW s \in W, <<s, Unpushed(s)>> \in Tickets PROVE FALSE
    OBVIOUS
  <2>1. Unpushed(s) < Unpushed(s)
    BY DEF Tickets
  <2> QED
    BY <1>4, <2>1
<1>7. IsFiniteSet(W) /\ Cardinality(Enqueuing) \in Nat /\ Cardinality(W) = Cardinality(Enqueuing) + 1
  <2>1. Enqueuing \subseteq Threads
    BY DEF Enqueuing
  <2>2. IsFiniteSet(Enqueuing)
    BY <2>1, FS_Subset DEF BoundIsAmple
  <2> QED
    BY <1>3, <2>2, FS_AddElement, FS_CardinalityType
<1>8. /\ IsFiniteSet(V) /\ IsFiniteSet(Tickets)
      /\ Cardinality(V) \in Nat /\ Cardinality(Tickets) = Len(inner)
  <2>1. IsFiniteSet(V) /\ IsFiniteSet(Tickets)
    BY <1>2, <1>5, FS_Subset
  <2> QED
    BY <2>1, FS_CardinalityType DEF PInv, BenchInv
<1>9. Cardinality(W) <= Cardinality(V)
  <2>1. f \in Injection(W, V)
    BY DEF Injection, IsInjective
  <2> QED
    BY <1>8, <2>1, FS_Injection
<1>10. Cardinality(V \cup Tickets) = Cardinality(V) + Len(inner)
  <2>1. Cardinality(V \cap Tickets) = 0
    BY <1>6, FS_EmptySet
  <2> HIDE DEF V
  <2>2. Cardinality(V \cup Tickets) = Cardinality(V) + Cardinality(Tickets) - Cardinality(V \cap Tickets)
    BY <1>8, FS_Union
  <2> QED
    BY <1>1, <1>8, <2>1, <2>2
<1>11. Cardinality(V \cup Tickets) <= Cardinality(All)
  BY <1>2, <1>5, FS_Subset
<1>12. Cardinality(All) \in Nat
  BY <1>2, FS_CardinalityType
<1> HIDE DEF All, W, V, f
<1> QED
  BY <1>1, <1>2, <1>7, <1>8, <1>9, <1>10, <1>11, <1>12 DEF Room

LEMMA HasRoom ==
  ASSUME PInv, RoomInv, BoundIsAmple, NEW t \in Threads,
         at[t] = "enqueue", pc[t] = "idle", todo[t] # <<>>
  PROVE  Room
<1>1. (program = "test" /\ t \in Pair) \/ (program = "bench" /\ t # Main)
  BY WhereThreadsAre DEF PInv
<1> QED
  BY <1>1, TestHasRoom, BenchHasRoom

\* The mutex is free or its holder can go on; with all calls returned it is the program's
\* turn, and all others that have arrived let Main and Partner pass, and join.
LEMMA SomeoneIsReady ==
  ASSUME PInv, RoomInv, BoundIsAmple, program # "free", at[Main] # "done"
  PROVE  \E t \in Threads : Ready(t)
<1> SUFFICES ASSUME \A t \in Threads : ~Ready(t) PROVE FALSE
  OBVIOUS
<1>1. IInv /\ ControlInv /\ PlacesInv /\ Main \in Threads /\ Pair \subseteq Threads
  BY SizeIsNat DEF PInv, Pair
<1>2. \A t \in Threads : pc[t] = "idle"
  <2> SUFFICES ASSUME NEW t \in Threads, pc[t] # "idle" PROVE FALSE
    OBVIOUS
  <2>1. pc[t] = "lock" /\ owner # None
    BY <1>1 DEF Ready, IInv, TypeOK
  <2>2. PICK s \in Threads : owner = s
    BY <1>1, <2>1 DEF IInv, TypeOK
  <2>3. pc[s] \in {"read", "write", "unlock"}
    BY <1>1, <2>2 DEF IInv, MutexInv
  <2> QED
    BY <2>3 DEF Ready
<1>3. \A t \in Threads : at[t] \notin {"arrive", "dequeue"} /\ ~(t = Main /\ at[t] = "drain")
  BY <1>2 DEF Ready
<1>4. \A t \in Threads : at[t] # "barrier"
  BY <1>1, <1>3 DEF Ready
<1>5. \A t \in Threads : at[t] # "enqueue"
  BY <1>2, HasRoom DEF Ready
<1>6. \A t \in Threads \ {Main} : at[t] = "done"
  <2> SUFFICES ASSUME NEW t \in Threads \ {Main} PROVE at[t] = "done"
    OBVIOUS
  <2>1. at[t] \in Places /\ at[t] \notin {"free", "drain", "join"}
    BY <1>1, WhereThreadsAre DEF ControlInv
  <2> QED
    BY <1>3, <1>4, <1>5, <2>1 DEF Places
<1>7. at[Main] = "join"
  <2>1. at[Main] \in Places /\ at[Main] # "free"
    BY <1>1, WhereThreadsAre DEF ControlInv
  <2> QED
    BY <1>1, <1>3, <1>4, <1>5, <2>1 DEF Places
<1> QED
  BY <1>1, <1>6, <1>7 DEF Ready

\* In test() and in the benchmark, for any number of threads and values: until main() is
\* over some thread can take a step, so the barrier, the join and the mutex never leave
\* everybody waiting (lock_based_queue.rs:24-57, benchmark.rs:29-52); and a thread that is
\* about to enqueue is not kept from it by the bound on the list.
THEOREM ProgramsNeverStall ==
  ASSUME BoundIsAmple
  PROVE  ProgramSpec =>
           [](program # "free" /\ at[Main] # "done" =>
                /\ \E t \in Threads : Ready(t)
                /\ \A t \in Threads : at[t] = "enqueue" /\ pc[t] = "idle" /\ todo[t] # <<>> => Room)
<1>1. PInv /\ RoomInv =>
        (program # "free" /\ at[Main] # "done" =>
           /\ \E t \in Threads : Ready(t)
           /\ \A t \in Threads : at[t] = "enqueue" /\ pc[t] = "idle" /\ todo[t] # <<>> => Room)
  BY SomeoneIsReady, HasRoom
<1>2. ProgramSpec => []PInv
  BY InitPrograms, NextKeepsPInv, PTL DEF ProgramSpec
<1> QED
  BY <1>1, <1>2, RoomInvariance, PTL

-----------------------------------------------------------------------------
(***************************************************************************)
(* What a thread has left to do: n calls of its loops, each of at most 6   *)
(* steps; the k calls that drain a list of k values, and the one that      *)
(* finds it empty; and the places it has yet to come to.  a is where it is *)
(* in the program, c where in a call, r what that call returns.            *)
(***************************************************************************)
InCall(c) ==
  CASE c = "lock" -> 5 [] c = "read" -> 4 [] c = "write" -> 3 [] c = "unlock" -> 2
    [] c = "return" -> 1 [] OTHER -> 0

InDrain(c, r) ==
  CASE c = "lock" -> 6 [] c = "read" -> 5 [] c = "write" -> 4
    [] c = "unlock" -> IF r = None THEN 2 ELSE 9
    [] c = "return" -> IF r = None THEN 1 ELSE 8
    [] OTHER -> 7

ToCome(a) ==
  CASE a = "dequeue" -> 1
    [] a = "join" -> 12 * Size + 8 [] a = "enqueue" -> 12 * Size + 9
    [] a = "barrier" -> 12 * Size + 10 [] a = "arrive" -> 12 * Size + 11
    [] OTHER -> 0

Amount(a, c, r, n, k) ==
  IF a = "drain" THEN 6 * n + 6 * k + InDrain(c, r) ELSE 6 * n + InCall(c) + ToCome(a)

Work(t) == Amount(at[t], pc[t], ret[t], Len(todo[t]) + left[t], Len(inner))

\* The ways a thread goes on.
GoesOn(a, c, r, n, k, a2, c2, r2, n2, k2) ==
  \/ /\ n2 = n /\ c2 = c
     /\ \/ a = "arrive" /\ a2 = "barrier"
        \/ a = "barrier" /\ a2 = "enqueue"
        \/ a = "enqueue" /\ a2 \in {"dequeue", "join", "done"}
        \/ a \in {"dequeue", "join"} /\ a2 = "done"
        \/ a = "join" /\ a2 = "drain" /\ c = "idle" /\ k2 <= 2 * Size
  \/ /\ a2 = a /\ c = "idle" /\ c2 = "lock" /\ k2 = k
     /\ IF a = "drain" THEN n2 = n ELSE n2 = n - 1
  \/ /\ a2 = a /\ n2 = n /\ k2 = k /\ r2 = r
     /\ <<c, c2>> \in {<<"lock", "read">>, <<"read", "write">>, <<"unlock", "return">>}
  \/ /\ a2 = a /\ n2 = n /\ c = "write" /\ c2 = "unlock"
     /\ a = "drain" => (r2 = None /\ k2 = k) \/ k2 = k - 1
  \/ /\ a2 = a /\ n2 = n /\ c = "return" /\ c2 = "idle"
     /\ a = "drain" => r # None /\ k2 = k
  \/ a = "drain" /\ a2 = "done" /\ n2 = n /\ c = "return" /\ c2 = "idle"

LEMMA AmountIsNat ==
  ASSUME NEW a, NEW c, NEW r, NEW n \in Nat, NEW k \in Nat
  PROVE  Amount(a, c, r, n, k) \in Nat
<1>1. InCall(c) \in Nat
  BY DEF InCall
<1>2. InDrain(c, r) \in Nat
  BY DEF InDrain
<1>3. ToCome(a) \in Nat
  BY SizeIsNat DEF ToCome
<1> QED
  BY <1>1, <1>2, <1>3 DEF Amount

LEMMA AmountFalls ==
  ASSUME NEW a, NEW c, NEW r, NEW n \in Nat, NEW k \in Nat,
         NEW a2, NEW c2, NEW r2, NEW n2 \in Nat, NEW k2 \in Nat,
         GoesOn(a, c, r, n, k, a2, c2, r2, n2, k2)
  PROVE  Amount(a2, c2, r2, n2, k2) < Amount(a, c, r, n, k)
<1>1. InCall(c) \in Nat /\ InCall(c2) \in Nat /\ Size \in Nat
  BY SizeIsNat DEF InCall
<1>2. ToCome(a) \in Nat /\ ToCome(a2) \in Nat
  BY SizeIsNat DEF ToCome
<1>3. CASE n2 = n /\ c2 = c /\ a # "drain" /\ a2 # "drain" /\ ToCome(a2) < ToCome(a)
  BY <1>1, <1>2, <1>3 DEF Amount
<1>4. CASE n2 = n /\ c2 = "idle" /\ c = "idle" /\ a = "join" /\ a2 = "drain" /\ k2 <= 2 * Size
  <2>1. Amount(a, c, r, n, k) = 6 * n + 12 * Size + 8
    BY <1>1, <1>4 DEF Amount, ToCome, InCall
  <2>2. Amount(a2, c2, r2, n2, k2) = 6 * n + 6 * k2 + 7
    BY <1>4 DEF Amount, InDrain
  <2> QED
    BY <1>1, <1>4, <2>1, <2>2
<1>5. CASE a2 = a /\ c = "idle" /\ c2 = "lock" /\ a # "drain" /\ n2 = n - 1
  <2>1. InCall(c) = 0 /\ InCall(c2) = 5
    BY <1>5 DEF InCall
  <2> QED
    BY <1>2, <1>5, <2>1 DEF Amount
<1>6. CASE a2 = a /\ a # "drain" /\ n2 = n /\ InCall(c2) < InCall(c)
  BY <1>1, <1>2, <1>6 DEF Amount
<1>7. CASE a2 = a /\ a = "drain" /\ n2 = n /\ k2 = k /\ InDrain(c2, r2) < InDrain(c, r)
  <2>1. InDrain(c, r) \in Nat /\ InDrain(c2, r2) \in Nat
    BY DEF InDrain
  <2> QED
    BY <1>7, <2>1 DEF Amount
<1>8. CASE a2 = a /\ a = "drain" /\ n2 = n /\ k2 = k - 1 /\ c = "write" /\ c2 = "unlock"
  <2>1. InDrain(c, r) = 4 /\ InDrain(c2, r2) \in {2, 9}
    BY <1>8 DEF InDrain
  <2> QED
    BY <1>8, <2>1 DEF Amount
<1>9. CASE a = "drain" /\ a2 = "done" /\ n2 = n /\ c = "return" /\ c2 = "idle"
  <2>1. InDrain(c, r) \in {1, 8} /\ InCall(c2) = 0 /\ ToCome(a2) = 0
    BY <1>9 DEF InDrain, InCall, ToCome
  <2> QED
    BY <1>9, <2>1 DEF Amount
<1>10. \/ n2 = n /\ c2 = c /\ a # "drain" /\ a2 # "drain" /\ ToCome(a2) < ToCome(a)
       \/ n2 = n /\ c2 = "idle" /\ c = "idle" /\ a = "join" /\ a2 = "drain" /\ k2 <= 2 * Size
       \/ a2 = a /\ c = "idle" /\ c2 = "lock" /\ a # "drain" /\ n2 = n - 1
       \/ a2 = a /\ a # "drain" /\ n2 = n /\ InCall(c2) < InCall(c)
       \/ a2 = a /\ a = "drain" /\ n2 = n /\ k2 = k /\ InDrain(c2, r2) < InDrain(c, r)
       \/ a2 = a /\ a = "drain" /\ n2 = n /\ k2 = k - 1 /\ c = "write" /\ c2 = "unlock"
       \/ a = "drain" /\ a2 = "done" /\ n2 = n /\ c = "return" /\ c2 = "idle"
  <2>1. CASE n2 = n /\ c2 = c /\ \/ a = "arrive" /\ a2 = "barrier"
                                 \/ a = "barrier" /\ a2 = "enqueue"
                                 \/ a = "enqueue" /\ a2 \in {"dequeue", "join", "done"}
                                 \/ a \in {"dequeue", "join"} /\ a2 = "done"
    <3>1. a # "drain" /\ a2 # "drain" /\ ToCome(a2) < ToCome(a)
      BY <1>1, <2>1 DEF ToCome
    <3> QED
      BY <2>1, <3>1
  <2>2. CASE a2 = a /\ c = "idle" /\ c2 = "lock" /\ k2 = k /\ a = "drain" /\ n2 = n
    BY <2>2 DEF InDrain
  <2>3. CASE /\ a2 = a /\ n2 = n /\ k2 = k /\ r2 = r
             /\ <<c, c2>> \in {<<"lock", "read">>, <<"read", "write">>, <<"unlock", "return">>}
    <3>1. InCall(c2) < InCall(c)
      BY <2>3 DEF InCall
    <3>2. InDrain(c2, r2) < InDrain(c, r)
      BY <2>3 DEF InDrain
    <3> QED
      BY <2>3, <3>1, <3>2
  <2>4. CASE /\ a2 = a /\ n2 = n /\ c = "write" /\ c2 = "unlock"
             /\ a = "drain" => (r2 = None /\ k2 = k) \/ k2 = k - 1
    <3>1. InCall(c2) < InCall(c)
      BY <2>4 DEF InCall
    <3>2. r2 = None => InDrain(c2, r2) < InDrain(c, r)
      BY <2>4 DEF InDrain
    <3> QED
      BY <2>4, <3>1, <3>2
  <2>5. CASE /\ a2 = a /\ n2 = n /\ c = "return" /\ c2 = "idle"
             /\ a = "drain" => r # None /\ k2 = k
    <3>1. InCall(c2) < InCall(c)
      BY <2>5 DEF InCall
    <3>2. r # None => InDrain(c2, r2) < InDrain(c, r)
      BY <2>5 DEF InDrain
    <3> QED
      BY <2>5, <3>1, <3>2
  <2> QED
    BY <2>1, <2>2, <2>3, <2>4, <2>5 DEF GoesOn
<1> QED
  BY <1>3, <1>4, <1>5, <1>6, <1>7, <1>8, <1>9, <1>10

StepGoesOn(t) ==
  GoesOn(at[t], pc[t], ret[t], Len(todo[t]) + left[t], Len(inner),
         at'[t], pc'[t], ret'[t], Len(todo'[t]) + left'[t], Len(inner'))

\* The calls a thread of a program makes.
LEMMA CallsGoOn ==
  ASSUME PInv, NEW t \in Threads, EnqueueNext(t) \/ DequeueNext(t) \/ (t = Main /\ Drain)
  PROVE  StepGoesOn(t)
<1> DEFINE n == Len(todo[t]) + left[t]
           n2 == Len(todo'[t]) + left'[t]
<1>1. IInv /\ ControlInv
  BY DEF PInv
<1>2. todo[t] \in Seq(Values) /\ Len(todo[t]) \in Nat /\ left[t] \in Nat /\ at[t] \in Places
  BY <1>1, CountsAreNat DEF ControlInv
<1>3. pc[t] = "idle" /\ pc'[t] = "lock" /\ inner' = inner /\ at' = at
  BY <1>1 DEF EnqueueNext, DequeueNext, Drain, CallEnqueue, CallDequeue, Goto, IInv, TypeOK, progVars
<1>4. CASE EnqueueNext(t)
  <2>1. at[t] = "enqueue" /\ todo[t] # <<>> /\ todo'[t] = Tail(todo[t]) /\ left' = left
    BY <1>1, <1>4 DEF EnqueueNext, ControlInv
  <2>2. Len(todo'[t]) = Len(todo[t]) - 1
    BY <1>2, <2>1, HeadTailProperties
  <2>3. n2 = n - 1
    BY <1>2, <2>1, <2>2
  <2> HIDE DEF n, n2
  <2>4. GoesOn(at[t], pc[t], ret[t], n, Len(inner), at'[t], pc'[t], ret'[t], n2, Len(inner'))
    BY <1>3, <2>1, <2>3 DEF GoesOn
  <2> QED
    BY <2>4 DEF StepGoesOn, n, n2
<1>5. CASE DequeueNext(t)
  <2>1. at[t] = "dequeue" /\ todo' = todo /\ left'[t] = left[t] - 1
    BY <1>1, <1>5 DEF DequeueNext, ControlInv
  <2>2. n2 = n - 1
    BY <1>2, <2>1
  <2> HIDE DEF n, n2
  <2>3. GoesOn(at[t], pc[t], ret[t], n, Len(inner), at'[t], pc'[t], ret'[t], n2, Len(inner'))
    BY <1>3, <2>1, <2>2 DEF GoesOn
  <2> QED
    BY <2>3 DEF StepGoesOn, n, n2
<1>6. CASE t = Main /\ Drain
  <2>1. at[t] = "drain" /\ todo' = todo /\ left' = left
    BY <1>6 DEF Drain, progVars
  <2> QED
    BY <1>3, <2>1 DEF GoesOn, StepGoesOn
<1> QED
  BY <1>4, <1>5, <1>6

\* The steps between the calls.
LEMMA PlacesGoOn ==
  ASSUME PInv, RoomInv, NEW t \in Threads,
         Arrive(t) \/ Pass(t) \/ EnqueuedAll(t) \/ DequeuedAll(t) \/ (t = Main /\ Join)
  PROVE  StepGoesOn(t)
<1>1. IInv /\ ControlInv /\ PlacesInv
  BY DEF PInv
<1>2. pc' = pc /\ inner' = inner /\ todo' = todo /\ left' = left
  BY DEF Arrive, Pass, EnqueuedAll, DequeuedAll, Join, vars
<1>3. CASE ~(t = Main /\ Join)
  <2>1. \/ at[t] = "arrive" /\ at'[t] = "barrier"
        \/ at[t] = "barrier" /\ at'[t] = "enqueue"
        \/ at[t] = "enqueue" /\ at'[t] \in {"dequeue", "join", "done"}
        \/ at[t] = "dequeue" /\ at'[t] = "done"
    BY <1>1, <1>3 DEF Arrive, Pass, EnqueuedAll, DequeuedAll, Advance, ControlInv
  <2> QED
    BY <1>2, <2>1 DEF GoesOn, StepGoesOn
<1>4. CASE t = Main /\ Join
  <2>1. at[t] = "join" /\ at'[t] = IF program = "test" THEN "drain" ELSE "done"
    BY <1>1, <1>4 DEF Join, Advance, ControlInv
  <2>2. pc[t] = "idle"
    <3>1. op[t] = "none"
      BY <1>1, <2>1 DEF ControlInv, IInv, TypeOK
    <3> QED
      BY <1>1, <3>1 DEF IInv, CallInv
  <2>3. program = "test" => Len(inner) <= 2 * Size
    <3>1. Len(inner) \in Nat /\ Unpushed(Main) \in Nat /\ Unpushed(Partner) \in Nat /\ Size \in Nat
      BY <1>1, SizeIsNat, CountsAreNat, LenProperties DEF IInv, TypeOK
    <3> DEFINE all == 2 * Size
    <3>2. all \in Int /\ (program = "test" => Len(inner) + Unpushed(Main) + Unpushed(Partner) <= all)
      BY <3>1 DEF RoomInv
    <3> HIDE DEF all
    <3>3. program = "test" => Len(inner) <= all
      BY <3>1, <3>2
    <3> QED
      BY <3>3 DEF all
  <2> QED
    BY <1>2, <2>1, <2>2, <2>3 DEF GoesOn, StepGoesOn
<1> QED
  BY <1>3, <1>4

\* The steps of a call.
LEMMA InCallsGoOn ==
  ASSUME PInv, NEW t \in Threads, Inside(t) \/ LockStep(t) \/ ReturnTo(t)
  PROVE  StepGoesOn(t)
<1>1. IInv /\ ControlInv
  BY DEF PInv
<1>2. todo' = todo /\ left' = left
  BY DEF Inside, LockStep, ReturnTo, progVars
<1>3. CASE (ReadList(t) \/ Unlock(t) \/ Lock(t)) /\ UNCHANGED progVars
  <2>1. /\ <<pc[t], pc'[t]>> \in {<<"lock", "read">>, <<"read", "write">>, <<"unlock", "return">>}
        /\ inner' = inner /\ ret' = ret /\ at' = at
    BY <1>1, <1>3 DEF ReadList, Unlock, Lock, Goto, IInv, TypeOK, progVars
  <2> QED
    BY <1>2, <2>1 DEF GoesOn, StepGoesOn
<1>4. CASE PushBack(t) /\ UNCHANGED progVars
  <2>1. op[t] = "enqueue" /\ pc[t] = "write" /\ pc'[t] = "unlock" /\ at' = at
    BY <1>1, <1>4 DEF PushBack, Goto, IInv, TypeOK, progVars
  <2>2. at[t] # "drain"
    BY <1>1, <2>1 DEF ControlInv
  <2> QED
    BY <1>2, <2>1, <2>2 DEF GoesOn, StepGoesOn
<1>5. CASE PopFront(t) /\ UNCHANGED progVars
  <2>1. pc[t] = "write" /\ pc'[t] = "unlock" /\ at' = at /\ seen[t] = inner /\ inner \in Seq(Values)
    BY <1>1, <1>5 DEF PopFront, Goto, IInv, TypeOK, MutexInv, progVars
  <2>2. (ret'[t] = None /\ Len(inner') = Len(inner)) \/ Len(inner') = Len(inner) - 1
    <3>1. CASE inner = <<>>
      BY <1>1, <1>5, <2>1, <3>1 DEF PopFront, IInv, TypeOK
    <3>2. CASE inner # <<>>
      <4>1. inner' = Tail(inner)
        BY <1>5, <2>1, <3>2 DEF PopFront
      <4> QED
        BY <2>1, <3>2, <4>1, HeadTailProperties
    <3> QED
      BY <3>1, <3>2
  <2> QED
    BY <1>2, <2>1, <2>2 DEF GoesOn, StepGoesOn
<1>6. CASE ReturnTo(t)
  <2>1. pc[t] = "return" /\ pc'[t] = "idle" /\ inner' = inner
    BY <1>1, <1>6 DEF ReturnTo, Return, Goto, IInv, TypeOK
  <2>2. CASE at[t] = "drain"
    <3>1. op[t] = "dequeue"
      BY <1>1, <2>1, <2>2 DEF IInv, TypeOK, CallInv, ControlInv
    <3>2. IF ret[t] = None THEN at'[t] = "done" ELSE at' = at
      BY <1>1, <1>6, <2>2, <3>1 DEF ReturnTo, Advance, ControlInv
    <3> QED
      BY <1>2, <2>1, <2>2, <3>2 DEF GoesOn, StepGoesOn
  <2>3. CASE at[t] # "drain"
    <3>1. at' = at
      BY <1>6, <2>3 DEF ReturnTo
    <3> QED
      BY <1>2, <2>1, <2>3, <3>1 DEF GoesOn, StepGoesOn
  <2> QED
    BY <2>2, <2>3
<1> QED
  BY <1>3, <1>4, <1>5, <1>6 DEF Inside, LockStep

LEMMA WorkFalls ==
  ASSUME PInv, RoomInv, program # "free", NEW t \in Threads, StepOf(t)
  PROVE  Work(t)' < Work(t)
<1>1. ~FreeCall(t)
  BY WhereThreadsAre DEF FreeCall, PInv
<1>2. StepGoesOn(t)
  BY <1>1, CallsGoOn, PlacesGoOn, InCallsGoOn DEF StepOf, ProgramStep
<1>3. /\ Len(todo[t]) + left[t] \in Nat /\ Len(todo'[t]) + left'[t] \in Nat
      /\ Len(inner) \in Nat /\ Len(inner') \in Nat
  <2>1. PInv'
    BY NextKeepsPInv DEF StepOf, ProgramNext
  <2>2. /\ todo[t] \in Seq(Values) /\ todo'[t] \in Seq(Values) /\ left[t] \in 0..Size /\ left'[t] \in 0..Size
        /\ inner \in Seq(Values) /\ inner' \in Seq(Values)
    BY <2>1 DEF PInv, ControlInv, IInv, TypeOK
  <2>3. /\ Len(todo[t]) \in Nat /\ Len(todo'[t]) \in Nat
        /\ Len(inner) \in Nat /\ Len(inner') \in Nat
    BY <2>2, LenProperties
  <2>4. left[t] \in Nat /\ left'[t] \in Nat
    BY <2>2, SizeIsNat
  <2> QED
    BY <2>3, <2>4
<1> QED
  BY <1>2, <1>3, AmountFalls DEF Work, StepGoesOn

\* The list matters to Main when it drains it; all others are done by then.
LEMMA OthersWork ==
  ASSUME PInv, program # "free", NEW s \in Threads, StepOf(s), NEW t \in Threads \ {s}
  PROVE  Work(t)' = Work(t)
<1>1. IInv /\ ControlInv /\ PlacesInv /\ Local(s)
  BY StepIsLocal DEF PInv
<1>2. /\ at'[t] = at[t] /\ todo'[t] = todo[t] /\ left'[t] = left[t]
      /\ pc'[t] = pc[t] /\ ret'[t] = ret[t]
  BY <1>1 DEF Local
<1>3. CASE at[t] # "drain"
  BY <1>2, <1>3 DEF Work, Amount
<1>4. CASE at[t] = "drain"
  <2>1. t = Main /\ at[s] = "done"
    BY <1>1, <1>4, WhereThreadsAre
  <2>2. op[s] = "none" /\ pc[s] = "idle"
    BY <1>1, <2>1 DEF ControlInv, IInv, TypeOK, CallInv
  <2>3. ~ProgramStep(s) /\ ~FreeCall(s)
    BY <2>1 DEF ProgramStep, Arrive, Pass, EnqueueNext, EnqueuedAll, DequeueNext, DequeuedAll, Advance,
       FreeCall
  <2>4. ~Inside(s) /\ ~LockStep(s) /\ ~ReturnTo(s)
    BY <2>2 DEF Inside, LockStep, ReturnTo, ReadList, PushBack, PopFront, Unlock, Lock, Return, Goto
  <2> QED
    BY <2>3, <2>4 DEF StepOf
<1> QED
  BY <1>3, <1>4

\* Each step of a thread of test() or of the benchmark brings it nearer to its end, and
\* no step of another takes it away again, so each makes finitely many: the loops of
\* lock_based_queue.rs:31-54 and benchmark.rs:36-46 end, that which drains the queue with them.
THEOREM ProgramsComeNearer ==
  ProgramSpec =>
    /\ [](program # "free" => \A t \in Threads : Work(t) \in Nat)
    /\ [][program # "free" =>
            \A t \in Threads : IF StepOf(t) THEN Work(t)' < Work(t) ELSE Work(t)' = Work(t)]_<<vars, progVars>>
<1>1. PInv => \A t \in Threads : Work(t) \in Nat
  <2> SUFFICES ASSUME PInv, NEW t \in Threads PROVE Work(t) \in Nat
    OBVIOUS
  <2>1. Len(todo[t]) + left[t] \in Nat /\ Len(inner) \in Nat
    BY CountsAreNat, LenProperties DEF PInv, IInv, TypeOK
  <2> QED
    BY <2>1, AmountIsNat DEF Work
<1>2. PInv /\ RoomInv /\ [ProgramNext]_<<vars, progVars>> =>
        [program # "free" =>
            \A t \in Threads : IF StepOf(t) THEN Work(t)' < Work(t) ELSE Work(t)' = Work(t)]_<<vars, progVars>>
  <2> SUFFICES ASSUME PInv, RoomInv, ProgramNext, program # "free", NEW t \in Threads
               PROVE  IF StepOf(t) THEN Work(t)' < Work(t) ELSE Work(t)' = Work(t)
    OBVIOUS
  <2>1. CASE StepOf(t)
    BY <2>1, WorkFalls
  <2>2. CASE ~StepOf(t)
    <3>1. CASE UNCHANGED <<vars, progVars>>
      BY <2>2, <3>1 DEF Work, vars, progVars
    <3>2. ASSUME NEW s \in Threads, StepOf(s) PROVE Work(t)' = Work(t)
      <4>1. t # s
        BY <2>2, <3>2
      <4> QED
        BY <3>2, <4>1, OthersWork
    <3> QED
      BY <2>2, <3>1, <3>2 DEF ProgramNext, StepOf, Over
  <2> QED
    BY <2>1, <2>2
<1>3. ProgramSpec => []PInv
  BY InitPrograms, NextKeepsPInv, PTL DEF ProgramSpec
<1> QED
  BY <1>1, <1>2, <1>3, RoomInvariance, PTL DEF ProgramSpec
=============================================================================

----------------------------- MODULE FifoQueue -----------------------------
(***************************************************************************)
(* What queue/ promises its callers, whichever implementation they take: a *)
(* first-in first-out queue whose operations take effect at one instant    *)
(* between the call and the return.  LockBasedQueue and LockFreeQueue are  *)
(* shown to implement it.                                                  *)
(*                                                                         *)
(* call[t] is the operation thread t is in: not yet in effect ("enqueue",  *)
(* "dequeue"), or in effect and about to return call[t].val ("return").    *)
(***************************************************************************)
EXTENDS Sequences

CONSTANTS
  Threads,   \* the threads that share the queue
  Values,    \* the values of type T
  None       \* Option::None, not in Values

VARIABLES
  items,     \* the values in the queue, the oldest first
  call       \* the operation in progress of each thread

vars == <<items, call>>

Call(op, v) == [op |-> op, val |-> v]
Idle == Call("idle", None)

Init ==
  /\ items = <<>>
  /\ call = [t \in Threads |-> Idle]

InvokeEnqueue(t) ==
  /\ call[t] = Idle
  /\ \E v \in Values : call' = [call EXCEPT ![t] = Call("enqueue", v)]
  /\ UNCHANGED items

ApplyEnqueue(t) ==
  /\ call[t].op = "enqueue"
  /\ items' = Append(items, call[t].val)
  /\ call' = [call EXCEPT ![t] = Call("return", None)]

InvokeDequeue(t) ==
  /\ call[t] = Idle
  /\ call' = [call EXCEPT ![t] = Call("dequeue", None)]
  /\ UNCHANGED items

ApplyDequeue(t) ==
  /\ call[t].op = "dequeue"
  /\ items # <<>>
  /\ items' = Tail(items)
  /\ call' = [call EXCEPT ![t] = Call("return", Head(items))]

ApplyDequeueEmpty(t) ==
  /\ call[t].op = "dequeue"
  /\ items = <<>>
  /\ call' = [call EXCEPT ![t] = Call("return", None)]
  /\ UNCHANGED items

Return(t) ==
  /\ call[t].op = "return"
  /\ call' = [call EXCEPT ![t] = Idle]
  /\ UNCHANGED items

Next == \E t \in Threads :
  \/ InvokeEnqueue(t) \/ ApplyEnqueue(t)
  \/ InvokeDequeue(t) \/ ApplyDequeue(t) \/ ApplyDequeueEmpty(t)
  \/ Return(t)

Spec == Init /\ [][Next]_vars
=============================================================================

--------------------------- MODULE LockBasedQueue --------------------------
(***************************************************************************)
(* queue/src/lock_based_queue.rs: a LinkedList behind a Mutex.  enqueue is *)
(* lock, push_back, drop of the guard; dequeue is lock, pop_front, drop of *)
(* the guard.  push_back and pop_front are library code that reads the     *)
(* list and then writes it: two steps, which only the mutex keeps apart    *)
(* from another thread's.  Neither panics, so the mutex is never poisoned  *)
(* and the unwrap of lock() never fails.                                   *)
(***************************************************************************)
EXTENDS Integers, Sequences, FiniteSets

CONSTANTS
  Threads,    \* the threads that share the queue through an Arc
  Values,     \* the values of type T
  None,       \* Option::None, and the owner of a free mutex
  MaxLength   \* bound: enqueue is not called when the list may outgrow it

ASSUME LbqValues == None \notin Values /\ None \notin Threads
ASSUME LbqBound == MaxLength \in Nat

VARIABLES
  inner,      \* the list the mutex protects
  owner,      \* the thread that holds the mutex, or None
  pc,         \* what each thread does next
  op,         \* the operation each thread is in
  arg,        \* the argument of enqueue
  seen,       \* what push_back or pop_front read
  ret         \* what dequeue returns

vars == <<inner, owner, pc, op, arg, seen, ret>>

Goto(t, from, to) == pc[t] = from /\ pc' = [pc EXCEPT ![t] = to]

Init ==
  /\ inner = <<>> /\ owner = None
  /\ pc = [t \in Threads |-> "idle"]
  /\ op = [t \in Threads |-> "none"]
  /\ arg = [t \in Threads |-> None]
  /\ seen = [t \in Threads |-> <<>>]
  /\ ret = [t \in Threads |-> None]

Enqueuing == {t \in Threads : op[t] = "enqueue" /\ pc[t] \in {"lock", "read", "write"}}

CallEnqueue(t) ==
  /\ Cardinality(Enqueuing) + Len(inner) < MaxLength
  /\ Goto(t, "idle", "lock")
  /\ op' = [op EXCEPT ![t] = "enqueue"]
  /\ \E v \in Values : arg' = [arg EXCEPT ![t] = v]
  /\ UNCHANGED <<inner, owner, seen, ret>>

CallDequeue(t) ==
  /\ Goto(t, "idle", "lock")
  /\ op' = [op EXCEPT ![t] = "dequeue"]
  /\ UNCHANGED <<inner, owner, arg, seen, ret>>

\* Goes on without the mutex.
LockSkipped(t) ==
  /\ Goto(t, "lock", "read")
  /\ UNCHANGED <<inner, owner, op, arg, seen, ret>>

\* self.inner.lock()
Lock(t) ==
  /\ Goto(t, "lock", "read")
  /\ owner = None
  /\ owner' = t
  /\ UNCHANGED <<inner, op, arg, seen, ret>>

ReadList(t) ==
  /\ Goto(t, "read", "write")
  /\ seen' = [seen EXCEPT ![t] = inner]
  /\ UNCHANGED <<inner, owner, op, arg, ret>>

PushBack(t) ==
  /\ op[t] = "enqueue" /\ Goto(t, "write", "unlock")
  /\ inner' = Append(seen[t], arg[t])
  /\ UNCHANGED <<owner, op, arg, seen, ret>>

PopFront(t) ==
  /\ op[t] = "dequeue" /\ Goto(t, "write", "unlock")
  /\ IF seen[t] = <<>>
     THEN ret' = [ret EXCEPT ![t] = None] /\ UNCHANGED inner
     ELSE ret' = [ret EXCEPT ![t] = Head(seen[t])] /\ inner' = Tail(seen[t])
  /\ UNCHANGED <<owner, op, arg, seen>>

\* The guard is a temporary of the statement and is dropped at its end.
Unlock(t) ==
  /\ Goto(t, "unlock", "return")
  /\ owner' = None
  /\ UNCHANGED <<inner, op, arg, seen, ret>>

Return(t) ==
  /\ Goto(t, "return", "idle")
  /\ op' = [op EXCEPT ![t] = "none"]
  /\ arg' = [arg EXCEPT ![t] = None]
  /\ seen' = [seen EXCEPT ![t] = <<>>]
  /\ ret' = [ret EXCEPT ![t] = None]
  /\ UNCHANGED <<inner, owner>>

Step(t) == ReadList(t) \/ PushBack(t) \/ PopFront(t) \/ Unlock(t) \/ Return(t)

Next == \E t \in Threads : CallEnqueue(t) \/ CallDequeue(t) \/ Lock(t) \/ Step(t)

\* Every thread is scheduled, and the mutex does not pass over a waiting thread
\* for ever (std's Mutex gives no order, so weak fairness would not be enough).
Spec ==
  /\ Init /\ [][Next]_vars
  /\ \A t \in Threads : WF_vars(Step(t)) /\ SF_vars(Lock(t))

-----------------------------------------------------------------------------
\* Types.
TypeOK ==
  /\ inner \in Seq(Values)
  /\ owner \in Threads \cup {None}
  /\ pc \in [Threads -> {"idle", "lock", "read", "write", "unlock", "return"}]
  /\ op \in [Threads -> {"none", "enqueue", "dequeue"}]
  /\ arg \in [Threads -> Values \cup {None}]
  /\ seen \in [Threads -> Seq(Values)]
  /\ ret \in [Threads -> Values \cup {None}]

\* The mutex is held exactly between Lock and Unlock, so that no update is based
\* on a list another thread has changed since it was read; and the arguments and
\* results in flight are those of the thread's own call.
MutexInv == \A t \in Threads :
  /\ pc[t] \in {"read", "write", "unlock"} <=> owner = t
  /\ pc[t] = "write" => seen[t] = inner

CallInv == \A t \in Threads :
  /\ pc[t] = "idle" <=> op[t] = "none"
  /\ op[t] = "enqueue" <=> arg[t] # None
  /\ pc[t] \in {"idle", "lock", "read", "write"} \/ op[t] = "enqueue" => ret[t] = None

IInv == TypeOK /\ MutexInv /\ CallInv

\* Every call returns: nobody keeps the mutex, nobody waits for it for ever.
CallsReturn == \A t \in Threads : (pc[t] # "idle") ~> (pc[t] = "idle")

\* An operation takes effect when it writes the list.
Operation(t) ==
  CASE pc[t] = "idle" -> [op |-> "idle", val |-> None]
    [] pc[t] \in {"lock", "read", "write"} -> [op |-> op[t], val |-> arg[t]]
    [] OTHER -> [op |-> "return", val |-> ret[t]]

Fifo == INSTANCE FifoQueue WITH items <- inner, call <- [t \in Threads |-> Operation(t)]

\* Every history of calls and returns is one of the atomic FIFO queue: no update
\* is lost, none is seen twice.
Linearizable == Fifo!Spec
=============================================================================

--------------------------- MODULE LockFreeQueue ---------------------------
(***************************************************************************)
(* queue/src/lock_free_queue.rs: a linked list with a dummy node, `head`   *)
(* and `tail` being atomic pointers, every load and compare_exchange one   *)
(* action.  No node's memory is ever given back (the code leaks every Box  *)
(* and only runs drop_in_place), so an address names one node for good:    *)
(* nodes are taken from `fresh` and never return to it.                    *)
(*                                                                         *)
(* The load of tail (line 61) and of head (line 89) before each loop are   *)
(* overwritten by the loop's first statement and change nothing.           *)
(***************************************************************************)
EXTENDS Integers, Sequences

CONSTANTS
  Threads,     \* the threads that share the queue through an Arc
  Enqueuers,   \* those that call enqueue
  Dequeuers,   \* those that call dequeue
  Live,        \* those the scheduler never abandons (used by LiveSpec alone)
  Nodes,       \* the heap; bounds the number of calls of enqueue
  Dummy,       \* the node that LockFreeQueue::new allocates
  Null,        \* ptr::null_mut()
  Values,      \* the values of type T
  None,        \* Option::None
  NeedsDrop    \* whether T has a destructor (String: yes, i32: no)

ASSUME ThreadsAssumption ==
  Enqueuers \subseteq Threads /\ Dequeuers \subseteq Threads /\ Live \subseteq Threads
ASSUME NodesAssumption == Dummy \in Nodes /\ Null \notin Nodes
ASSUME ValuesAssumption == None \notin Values
ASSUME NeedsDropAssumption == NeedsDrop \in BOOLEAN

VARIABLES
  head, tail,  \* the two atomic pointers of the queue
  next,        \* Node.next
  value,       \* Node.value, an Option<T>
  fresh,       \* the nodes not allocated yet
  drops,       \* how often the queue ran the destructor of a node's value
  pc,          \* what each thread does next
  p, q, n,     \* locals: p, q of the code, n the operand (*p).next of a CAS
  ret,         \* what the operation returns
  phase,       \* the queue: "shared", "dropping" (in Drop::drop), "dropped"
  cur,         \* local of Drop::drop
  chain,       \* history: the linked nodes in the order they were linked
  popped       \* history: how often head moved

shared == <<head, tail>>
heap == <<next, value, fresh, drops>>
locals == <<p, q, n>>
owner == <<phase, cur>>
history == <<chain, popped>>
vars == <<head, tail, next, value, fresh, drops, pc, p, q, n, ret, phase, cur,
          chain, popped>>

Option == Values \cup {None}
Pointer == Nodes \cup {Null}

EnqueuePcs == {"enq_load", "enq_link", "enq_next", "enq_help", "enq_swing"}
DequeuePcs == {"deq_load", "deq_empty", "deq_next", "deq_head", "deq_take", "deq_drop"}

Goto(t, from, to) == pc[t] = from /\ pc' = [pc EXCEPT ![t] = to]

-----------------------------------------------------------------------------
\* LockFreeQueue::new
Init ==
  /\ head = Dummy /\ tail = Dummy
  /\ next = [x \in Nodes |-> Null]
  /\ value = [x \in Nodes |-> None]
  /\ fresh = Nodes \ {Dummy}
  /\ drops = [x \in Nodes |-> 0]
  /\ pc = [t \in Threads |-> "idle"]
  /\ p = [t \in Threads |-> Null]
  /\ q = [t \in Threads |-> Null]
  /\ n = [t \in Threads |-> Null]
  /\ ret = [t \in Threads |-> None]
  /\ phase = "shared" /\ cur = Null
  /\ chain = <<Dummy>> /\ popped = 0

-----------------------------------------------------------------------------
\* enqueue, in the order of its statements.

CallEnqueue(t) ==
  /\ phase = "shared" /\ t \in Enqueuers
  /\ Goto(t, "idle", "enq_load")
  /\ \E x \in fresh, v \in Values :
       /\ fresh' = fresh \ {x}
       /\ value' = [value EXCEPT ![x] = v]
       /\ next' = [next EXCEPT ![x] = Null]
       /\ q' = [q EXCEPT ![t] = x]
  /\ UNCHANGED <<shared, drops, p, n, ret, owner, history>>

LoadTail(t) ==
  /\ Goto(t, "enq_load", "enq_link")
  /\ p' = [p EXCEPT ![t] = tail]
  /\ UNCHANGED <<shared, heap, q, n, ret, owner, history>>

\* A store instead of the compare_exchange.
LinkBlindly(t) ==
  /\ Goto(t, "enq_link", "enq_swing")
  /\ next' = [next EXCEPT ![p[t]] = q[t]]
  /\ chain' = Append(chain, q[t])
  /\ UNCHANGED <<shared, value, fresh, drops, locals, ret, owner, popped>>

\* compare_exchange(null, q) on (*p).next: it succeeds ...
Link(t) ==
  /\ Goto(t, "enq_link", "enq_swing")
  /\ next[p[t]] = Null
  /\ next' = [next EXCEPT ![p[t]] = q[t]]
  /\ chain' = Append(chain, q[t])
  /\ UNCHANGED <<shared, value, fresh, drops, locals, ret, owner, popped>>

\* Tries again and leaves tail to the thread that linked its node.
LinkFailsWithoutHelp(t) ==
  /\ Goto(t, "enq_link", "enq_load")
  /\ next[p[t]] # Null
  /\ UNCHANGED <<shared, heap, locals, ret, owner, history>>

\* ... or fails, and another thread's node is already there.
LinkFails(t) ==
  /\ Goto(t, "enq_link", "enq_next")
  /\ next[p[t]] # Null
  /\ UNCHANGED <<shared, heap, locals, ret, owner, history>>

\* The second operand of the compare_exchange on tail is loaded first.
LoadTailNext(t) ==
  /\ Goto(t, "enq_next", "enq_help")
  /\ n' = [n EXCEPT ![t] = next[p[t]]]
  /\ UNCHANGED <<shared, heap, p, q, ret, owner, history>>

\* compare_exchange(p, n) on tail; its result is ignored.
HelpTail(t) ==
  /\ Goto(t, "enq_help", "enq_load")
  /\ tail' = IF tail = p[t] THEN n[t] ELSE tail
  /\ UNCHANGED <<head, heap, locals, ret, owner, history>>

\* A store instead of the compare_exchange.
SwingTailBlindly(t) ==
  /\ Goto(t, "enq_swing", "return")
  /\ tail' = q[t]
  /\ UNCHANGED <<head, heap, locals, ret, owner, history>>

\* compare_exchange(p, q) on tail; its result is ignored.
SwingTail(t) ==
  /\ Goto(t, "enq_swing", "return")
  /\ tail' = IF tail = p[t] THEN q[t] ELSE tail
  /\ UNCHANGED <<head, heap, locals, ret, owner, history>>

-----------------------------------------------------------------------------
\* dequeue, in the order of its statements.

CallDequeue(t) ==
  /\ phase = "shared" /\ t \in Dequeuers
  /\ Goto(t, "idle", "deq_load")
  /\ UNCHANGED <<shared, heap, locals, ret, owner, history>>

LoadHead(t) ==
  /\ Goto(t, "deq_load", "deq_empty")
  /\ p' = [p EXCEPT ![t] = head]
  /\ UNCHANGED <<shared, heap, q, n, ret, owner, history>>

FindEmpty(t) ==
  /\ Goto(t, "deq_empty", "return")
  /\ next[p[t]] = Null
  /\ ret' = [ret EXCEPT ![t] = None]
  /\ UNCHANGED <<shared, heap, locals, owner, history>>

FindNonEmpty(t) ==
  /\ Goto(t, "deq_empty", "deq_next")
  /\ next[p[t]] # Null
  /\ UNCHANGED <<shared, heap, locals, ret, owner, history>>

LoadHeadNext(t) ==
  /\ Goto(t, "deq_next", "deq_head")
  /\ n' = [n EXCEPT ![t] = next[p[t]]]
  /\ UNCHANGED <<shared, heap, p, q, ret, owner, history>>

\* A store instead of the compare_exchange.
MoveHeadBlindly(t) ==
  /\ Goto(t, "deq_head", "deq_take")
  /\ head' = n[t]
  /\ popped' = popped + 1
  /\ UNCHANGED <<tail, heap, locals, ret, owner, chain>>

\* compare_exchange(p, n) on head: it succeeds and p belongs to t ...
MoveHead(t) ==
  /\ Goto(t, "deq_head", "deq_take")
  /\ head = p[t]
  /\ head' = n[t]
  /\ popped' = popped + 1
  /\ UNCHANGED <<tail, heap, locals, ret, owner, chain>>

\* ... or fails because another dequeue moved head.
MoveHeadFails(t) ==
  /\ Goto(t, "deq_head", "deq_load")
  /\ head # p[t]
  /\ UNCHANGED <<shared, heap, locals, ret, owner, history>>

\* (*(*p).next).value.take(): the value leaves the node that is the new dummy.
TakeValue(t) ==
  /\ Goto(t, "deq_take", "deq_drop")
  /\ ret' = [ret EXCEPT ![t] = value[next[p[t]]]]
  /\ value' = [value EXCEPT ![next[p[t]]] = None]
  /\ UNCHANGED <<shared, next, fresh, drops, locals, owner, history>>

\* drop_in_place on a node runs the destructor of the value it still holds and
\* leaves its memory as it is.
DropInPlace(x) ==
  drops' = IF NeedsDrop /\ value[x] # None THEN [drops EXCEPT ![x] = @ + 1] ELSE drops

DropOldDummy(t) ==
  /\ Goto(t, "deq_drop", "return")
  /\ DropInPlace(p[t])
  /\ UNCHANGED <<shared, next, value, fresh, locals, ret, owner, history>>

\* The caller has its result and the locals are gone.
Return(t) ==
  /\ Goto(t, "return", "idle")
  /\ p' = [p EXCEPT ![t] = Null]
  /\ q' = [q EXCEPT ![t] = Null]
  /\ n' = [n EXCEPT ![t] = Null]
  /\ ret' = [ret EXCEPT ![t] = None]
  /\ UNCHANGED <<shared, heap, owner, history>>

-----------------------------------------------------------------------------
\* Drop::drop has `&mut self`: no thread is inside an operation.

\* The walk starts at the wrong end.
BeginDropAtTail ==
  /\ phase = "shared"
  /\ \A t \in Threads : pc[t] = "idle"
  /\ phase' = "dropping" /\ cur' = tail
  /\ UNCHANGED <<shared, heap, pc, locals, ret, history>>

BeginDrop ==
  /\ phase = "shared"
  /\ \A t \in Threads : pc[t] = "idle"
  /\ phase' = "dropping" /\ cur' = head
  /\ UNCHANGED <<shared, heap, pc, locals, ret, history>>

DropNode ==
  /\ phase = "dropping" /\ cur # Null
  /\ DropInPlace(cur)
  /\ cur' = next[cur]
  /\ UNCHANGED <<shared, next, value, fresh, pc, locals, ret, phase, history>>

EndDrop ==
  /\ phase = "dropping" /\ cur = Null
  /\ phase' = "dropped"
  /\ UNCHANGED <<shared, heap, pc, locals, ret, cur, history>>

\* The queue is gone; nothing is left to do.
Gone == phase = "dropped" /\ UNCHANGED vars

-----------------------------------------------------------------------------
EnqueueStep(t) ==
  \/ LoadTail(t) \/ Link(t) \/ LinkFails(t) \/ LoadTailNext(t) \/ HelpTail(t)
  \/ SwingTail(t)

DequeueStep(t) ==
  \/ LoadHead(t) \/ FindEmpty(t) \/ FindNonEmpty(t) \/ LoadHeadNext(t)
  \/ MoveHead(t) \/ MoveHeadFails(t) \/ TakeValue(t) \/ DropOldDummy(t)

\* The steps of a call in progress; whether to call at all is the user's choice.
Step(t) == EnqueueStep(t) \/ DequeueStep(t) \/ Return(t)

Next ==
  \/ \E t \in Threads : CallEnqueue(t) \/ CallDequeue(t) \/ Step(t)
  \/ BeginDrop \/ DropNode \/ EndDrop \/ Gone

Spec == Init /\ [][Next]_vars

\* The scheduler runs the threads of Live; any other may stop for ever, in the
\* middle of an operation too.
LiveSpec == Spec /\ \A t \in Live : WF_vars(Step(t))

-----------------------------------------------------------------------------
\* Types.
TypeOK ==
  /\ head \in Nodes /\ tail \in Nodes
  /\ next \in [Nodes -> Pointer]
  /\ value \in [Nodes -> Option]
  /\ fresh \subseteq Nodes
  /\ drops \in [Nodes -> Nat]
  /\ pc \in [Threads -> {"idle", "return"} \cup EnqueuePcs \cup DequeuePcs]
  /\ p \in [Threads -> Pointer]
  /\ q \in [Threads -> Pointer]
  /\ n \in [Threads -> Pointer]
  /\ ret \in [Threads -> Option]
  /\ phase \in {"shared", "dropping", "dropped"}
  /\ cur \in Pointer
  /\ chain \in Seq(Nodes)
  /\ popped \in Nat

\* The list the pointers form is the history: the nodes in the order they were
\* linked, each once, the last one open; head is the node number popped + 1.
Linked == {chain[i] : i \in DOMAIN chain}
Last == Len(chain)

ListInv ==
  /\ Last >= 1
  /\ \A i, j \in 1..Last : chain[i] = chain[j] => i = j
  /\ \A i \in 1..(Last - 1) : next[chain[i]] = chain[i + 1]
  /\ \A x \in Nodes : (x \notin Linked \/ x = chain[Last]) => next[x] = Null
  /\ Linked \cap fresh = {}
  /\ popped < Last /\ head = chain[popped + 1]

\* The values not dequeued yet are in their nodes.
ValuesInv == \A i \in (popped + 2)..Last : value[chain[i]] \in Values

\* A node is private to the thread that allocated it until it is linked.
BeforeLink(t) == pc[t] \in {"enq_load", "enq_link", "enq_next", "enq_help"}

PrivateInv == \A t \in Threads : BeforeLink(t) =>
  /\ q[t] \in Nodes /\ q[t] \notin fresh /\ q[t] \notin Linked
  /\ value[q[t]] \in Values
  /\ \A s \in Threads : BeforeLink(s) /\ q[s] = q[t] => s = t

\* A thread's copy of tail or head may be old, but an old copy has a successor:
\* if it has none it is the current tail or head.
EnqueueOK(t) ==
  /\ pc[t] \in EnqueuePcs \ {"enq_load"} => p[t] \in Linked
  /\ pc[t] \in {"enq_link", "enq_next", "enq_help"} /\ next[p[t]] = Null => p[t] = tail
  /\ pc[t] \in {"enq_next", "enq_help"} => next[p[t]] # Null
  /\ pc[t] = "enq_help" => n[t] = next[p[t]]
  /\ pc[t] = "enq_swing" => q[t] = next[p[t]] /\ q[t] # Null

EnqueueInv == \A t \in Threads : EnqueueOK(t)

DequeueOK(t) ==
  /\ pc[t] \in {"deq_empty", "deq_next", "deq_head"} =>
       \E i \in 1..(popped + 1) : p[t] = chain[i]
  /\ pc[t] \in {"deq_next", "deq_head"} => next[p[t]] # Null
  /\ pc[t] = "deq_head" => n[t] = next[p[t]]
  /\ pc[t] \in {"deq_take", "deq_drop"} => \E i \in 1..popped : p[t] = chain[i]
  /\ pc[t] = "deq_take" => value[next[p[t]]] \in Values
  /\ pc[t] \in {"deq_take", "deq_drop"} =>
       \A s \in Threads : pc[s] \in {"deq_take", "deq_drop"} /\ p[s] = p[t] => s = t

DequeueInv == \A t \in Threads : DequeueOK(t)

\* tail is the last node or the one before it, whatever the enqueues in
\* progress do: every enqueue reaches the end of the list in at most one help.
TailNearEnd == next[tail] = Null \/ next[next[tail]] = Null

TailInv == tail \in Linked /\ TailNearEnd

IInv == /\ TypeOK /\ ListInv /\ ValuesInv /\ PrivateInv /\ TailInv /\ EnqueueInv
        /\ DequeueInv

-----------------------------------------------------------------------------
\* head and tail never go back and never skip a node, and a link once set is
\* never changed, although every CAS works from a copy that may be old.
ForwardOnly == [][/\ head' \in {head, next[head]}
                  /\ tail' \in {tail, next[tail]}
                  /\ \A x \in Nodes : next[x] # Null => next'[x] = next[x]]_vars

\* A value handed to a caller of dequeue is alive: the queue never ran its
\* destructor.  A value is handed out when head moves to its node.  It takes a
\* single dequeuer: two get in each other's way (DropOldDummy before TakeValue).
HandedOut == {chain[i] : i \in 2..(popped + 1)}
HandedOutIntact == \A x \in HandedOut : drops[x] = 0

\* However many dequeuers there are, the queue runs a value's destructor at most
\* once, never that of the value taken last, whose node is the dummy, and before
\* Drop::drop never that of a value still queued.  When the queue is gone every
\* value was either handed out or destroyed, wherever the walk starts.
ReleasedOnce ==
  /\ \A x \in Nodes : drops[x] <= 1
  /\ drops[head] = 0
  /\ phase = "shared" => \A i \in (popped + 2)..Last : drops[chain[i]] = 0
  /\ phase = "dropped" /\ NeedsDrop =>
       \A x \in Linked \ (HandedOut \cup {Dummy}) : drops[x] = 1

\* A call that a live thread started returns, even if every other thread stops
\* for ever in the middle of its own call.
NonBlocking == \A t \in Live : (pc[t] # "idle") ~> (pc[t] = "idle")

-----------------------------------------------------------------------------
\* enqueue takes effect at its successful CAS on next, dequeue at its
\* successful CAS on head, an empty dequeue at its load of next.
Contents == [i \in 1..(Last - popped - 1) |-> value[chain[popped + 1 + i]]]

Operation(t) ==
  CASE pc[t] = "idle" -> [op |-> "idle", val |-> None]
    [] BeforeLink(t) -> [op |-> "enqueue", val |-> value[q[t]]]
    [] pc[t] \in {"deq_load", "deq_empty", "deq_next", "deq_head"} ->
         [op |-> "dequeue", val |-> None]
    [] pc[t] = "deq_take" -> [op |-> "return", val |-> value[next[p[t]]]]
    [] OTHER -> [op |-> "return", val |-> ret[t]]

Operations == [t \in Threads |-> Operation(t)]

Fifo == INSTANCE FifoQueue WITH items <- Contents, call <- Operations

\* Every history of calls and returns is one of the atomic FIFO queue.
Linearizable == Fifo!Spec
=============================================================================

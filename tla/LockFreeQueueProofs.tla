------------------------ MODULE LockFreeQueueProofs ------------------------
(***************************************************************************)
(* Proofs about LockFreeQueue for every set of threads, nodes and values:  *)
(* the inductive invariant IInv and what follows from it; that the queue   *)
(* implements FifoQueue, its linearization points being the ones named in  *)
(* LockFreeQueue; which destructors it runs: none twice, none is           *)
(* forgotten, and a single dequeuer is never handed a value whose          *)
(* destructor has run; and how many steps a call may take.                 *)
(***************************************************************************)
EXTENDS LockFreeQueue, SequenceTheorems, FiniteSetTheorems, TLAPS

\* The frame of a step that touches no shared variable of the list.
LocalStep == UNCHANGED <<head, tail, next, value, fresh, chain, popped>>

-----------------------------------------------------------------------------
\* Lemmas about the list.

\* A linked node has a position in the chain, and its link is the next one.
LEMMA Positions ==
  ASSUME TypeOK, ListInv
  PROVE  /\ Last \in Nat
         /\ Linked \subseteq Nodes
         /\ \A i \in 1..Last : chain[i] \in Nodes
         /\ \A x \in Linked : next[x] # Null =>
              \E i \in 1..(Last - 1) : x = chain[i] /\ next[x] = chain[i + 1]
<1>1. Last \in Nat /\ DOMAIN chain = 1..Last
  BY DEF TypeOK, Last
<1>2. /\ \A i \in 1..Last : chain[i] \in Nodes
      /\ Linked \subseteq Nodes
  BY DEF TypeOK, Last, Linked
<1>3. ASSUME NEW x \in Linked, next[x] # Null
      PROVE  \E i \in 1..(Last - 1) : x = chain[i] /\ next[x] = chain[i + 1]
  <2>1. PICK i \in 1..Last : x = chain[i]
    BY <1>1 DEF Linked
  <2>2. i # Last
    BY <1>2, <1>3, <2>1 DEF ListInv
  <2>3. i \in 1..(Last - 1)
    BY <1>1, <2>2
  <2> QED
    BY <2>1, <2>3 DEF ListInv
<1> QED
  BY <1>1, <1>2, <1>3

\* The last node is the only one without a successor, and the successor of a
\* linked node is linked.
LEMMA Successors ==
  ASSUME TypeOK, ListInv
  PROVE  \A x \in Linked : /\ next[x] = Null <=> x = chain[Last]
                           /\ next[x] # Null => next[x] \in Linked
<1> USE NodesAssumption
<1>1. ASSUME NEW x \in Linked, next[x] = Null PROVE x = chain[Last]
  <2>1. PICK i \in 1..Last : x = chain[i]
    BY Positions DEF Linked, Last, TypeOK
  <2>2. i \in 1..(Last - 1) => next[x] = chain[i + 1] /\ i + 1 \in 1..Last
    BY Positions, <2>1 DEF ListInv
  <2>3. \A j \in 1..Last : chain[j] # Null
    BY Positions
  <2>4. i = Last
    BY <1>1, <2>1, <2>2, <2>3, Positions
  <2> QED
    BY <2>1, <2>4
<1>2. ASSUME NEW x \in Linked, x = chain[Last] PROVE next[x] = Null
  BY <1>2, Positions DEF ListInv
<1>3. ASSUME NEW x \in Linked, next[x] # Null PROVE next[x] \in Linked
  <2>1. PICK i \in 1..(Last - 1) : next[x] = chain[i + 1]
    BY <1>3, Positions
  <2>2. i + 1 \in DOMAIN chain
    BY <2>1, Positions DEF TypeOK, Last
  <2> QED
    BY <2>1, <2>2 DEF Linked
<1> QED
  BY <1>1, <1>2, <1>3

\* The nodes head has left are followed by linked nodes.
LEMMA PassedSuccessors ==
  ASSUME TypeOK, ListInv
  PROVE  \A i \in 1..popped : /\ i \in 1..Last /\ i + 1 \in 1..Last
                              /\ chain[i] \in Linked
                              /\ next[chain[i]] = chain[i + 1]
                              /\ next[chain[i]] \in Linked
<1>1. Last \in Nat /\ popped \in Nat /\ popped < Last
  BY Positions DEF TypeOK, ListInv
<1>2. \A i \in 1..popped : i \in 1..(Last - 1) /\ i \in 1..Last /\ i + 1 \in 1..Last
  BY <1>1
<1>3. \A i \in 1..Last : chain[i] \in Linked
  BY Positions DEF TypeOK, Linked, Last
<1>4. \A i \in 1..(Last - 1) : next[chain[i]] = chain[i + 1]
  BY DEF ListInv
<1> QED
  BY <1>2, <1>3, <1>4

\* A step outside the list keeps what is said of the list alone.
LEMMA LocalStepKeepsList ==
  ASSUME ListInv, ValuesInv, TailInv, LocalStep
  PROVE  ListInv' /\ ValuesInv' /\ TailInv'
BY DEF LocalStep, ListInv, ValuesInv, TailInv, TailNearEnd, Linked, Last

-----------------------------------------------------------------------------
\* The initial state.

\* LockFreeQueue::new builds a well-formed list of the dummy node.
LEMMA InitIInv == Init => IInv
<1> SUFFICES ASSUME Init PROVE IInv
  OBVIOUS
<1> USE NodesAssumption, ValuesAssumption DEF Init
<1>1. TypeOK
  BY DEF TypeOK, Option, Pointer
<1>2. Linked = {Dummy} /\ Last = 1 /\ chain[1] = Dummy
  BY DEF Linked, Last
<1>3. ListInv
  BY <1>2 DEF ListInv
<1>4. ValuesInv
  BY <1>2 DEF ValuesInv
<1>5. PrivateInv /\ EnqueueInv /\ DequeueInv
  BY DEF PrivateInv, EnqueueInv, EnqueueOK, DequeueInv, DequeueOK, BeforeLink, EnqueuePcs
<1>6. TailInv
  BY <1>2 DEF TailInv, TailNearEnd
<1> QED
  BY <1>1, <1>3, <1>4, <1>5, <1>6 DEF IInv

-----------------------------------------------------------------------------
\* The steps that read the list, one lemma for those of each operation.

\* The loads and failed compare_exchanges of enqueue keep IInv: in particular a
\* tail without a successor is still the tail when the link is attempted.
LEMMA EnqueueReads ==
  ASSUME NEW t \in Threads, IInv,
         LoadTail(t) \/ LinkFails(t) \/ LoadTailNext(t)
  PROVE  IInv'
<1> USE NodesAssumption DEF Goto, shared, heap, locals, owner, history
<1>1. ListInv' /\ ValuesInv' /\ TailInv'
  BY LocalStepKeepsList DEF LocalStep, IInv, LoadTail, LinkFails, LoadTailNext
<1>2. CASE LoadTail(t)
  <2>1. TypeOK'
    BY <1>2 DEF IInv, LoadTail, TypeOK, EnqueuePcs, Pointer
  <2>2. PrivateInv'
    BY <1>2 DEF IInv, LoadTail, TypeOK, PrivateInv, BeforeLink, Linked
  <2>3. EnqueueInv'
    BY <1>2 DEF IInv, LoadTail, TypeOK, TailInv, EnqueueInv, EnqueueOK, EnqueuePcs, Linked
  <2>4. DequeueInv'
    BY <1>2 DEF IInv, LoadTail, TypeOK, DequeueInv, DequeueOK
  <2> QED
    BY <1>1, <2>1, <2>2, <2>3, <2>4 DEF IInv
<1>3. CASE LinkFails(t)
  <2>1. TypeOK'
    BY <1>3 DEF IInv, LinkFails, TypeOK, EnqueuePcs
  <2>2. PrivateInv'
    BY <1>3 DEF IInv, LinkFails, TypeOK, PrivateInv, BeforeLink, Linked
  <2>3. EnqueueInv'
    BY <1>3 DEF IInv, LinkFails, TypeOK, EnqueueInv, EnqueueOK, EnqueuePcs, Linked
  <2>4. DequeueInv'
    BY <1>3 DEF IInv, LinkFails, TypeOK, DequeueInv, DequeueOK
  <2> QED
    BY <1>1, <2>1, <2>2, <2>3, <2>4 DEF IInv
<1>4. CASE LoadTailNext(t)
  <2>0. p[t] \in Nodes
    BY <1>4, Positions DEF IInv, LoadTailNext, EnqueueInv, EnqueueOK, EnqueuePcs
  <2>1. TypeOK'
    BY <1>4, <2>0 DEF IInv, LoadTailNext, TypeOK, EnqueuePcs
  <2>2. PrivateInv'
    BY <1>4 DEF IInv, LoadTailNext, TypeOK, PrivateInv, BeforeLink, Linked
  <2>3. EnqueueInv'
    BY <1>4 DEF IInv, LoadTailNext, TypeOK, EnqueueInv, EnqueueOK, EnqueuePcs, Linked
  <2>4. DequeueInv'
    BY <1>4 DEF IInv, LoadTailNext, TypeOK, DequeueInv, DequeueOK
  <2> QED
    BY <1>1, <2>1, <2>2, <2>3, <2>4 DEF IInv
<1> QED
  BY <1>2, <1>3, <1>4

\* The loads and failed compare_exchange of dequeue keep IInv: a head with a
\* successor keeps it until the compare_exchange.
LEMMA DequeueReads ==
  ASSUME NEW t \in Threads, IInv,
         \/ CallDequeue(t) \/ LoadHead(t) \/ FindEmpty(t) \/ FindNonEmpty(t)
         \/ LoadHeadNext(t) \/ MoveHeadFails(t)
  PROVE  IInv'
<1> USE NodesAssumption DEF Goto, shared, heap, locals, owner, history
<1>1. ListInv' /\ ValuesInv' /\ TailInv'
  BY LocalStepKeepsList
     DEF LocalStep, IInv, CallDequeue, LoadHead, FindEmpty, FindNonEmpty, LoadHeadNext,
         MoveHeadFails
<1>2. PrivateInv'
  BY DEF IInv, TypeOK, PrivateInv, BeforeLink, Linked, CallDequeue, LoadHead, FindEmpty,
         FindNonEmpty, LoadHeadNext, MoveHeadFails
<1>3. EnqueueInv'
  BY DEF IInv, TypeOK, EnqueueInv, EnqueueOK, EnqueuePcs, Linked, CallDequeue, LoadHead, FindEmpty,
         FindNonEmpty, LoadHeadNext, MoveHeadFails
<1>4. CASE CallDequeue(t) \/ FindEmpty(t) \/ FindNonEmpty(t) \/ MoveHeadFails(t)
  <2>1. TypeOK'
    BY <1>4 DEF IInv, TypeOK, Option, DequeuePcs, CallDequeue, FindEmpty, FindNonEmpty,
                MoveHeadFails
  <2>2. \A s \in Threads \ {t} : pc'[s] = pc[s]
    BY <1>4 DEF IInv, TypeOK, CallDequeue, FindEmpty, FindNonEmpty, MoveHeadFails
  <2>3. pc'[t] \in {"deq_load", "return", "deq_next"}
        /\ (pc'[t] = "deq_next" => pc[t] = "deq_empty" /\ next[p[t]] # Null)
    BY <1>4 DEF IInv, TypeOK, CallDequeue, FindEmpty, FindNonEmpty, MoveHeadFails
  <2>4. UNCHANGED <<p, n, next, value, chain, popped>>
    BY <1>4 DEF CallDequeue, FindEmpty, FindNonEmpty, MoveHeadFails
  <2>5. DequeueInv'
    BY <2>2, <2>3, <2>4 DEF IInv, DequeueInv, DequeueOK
  <2> QED
    BY <1>1, <1>2, <1>3, <2>1, <2>5 DEF IInv
<1>5. CASE LoadHead(t)
  <2>1. TypeOK'
    BY <1>5 DEF IInv, TypeOK, DequeuePcs, Pointer, LoadHead
  <2>2. DequeueInv'
    BY <1>5 DEF IInv, TypeOK, DequeueInv, DequeueOK, ListInv, LoadHead
  <2> QED
    BY <1>1, <1>2, <1>3, <2>1, <2>2 DEF IInv
<1>6. CASE LoadHeadNext(t)
  <2>1. PICK i \in 1..(popped + 1) : p[t] = chain[i]
    BY <1>6 DEF IInv, DequeueInv, DequeueOK, LoadHeadNext
  <2>2. p[t] \in Nodes
    BY <2>1, Positions DEF IInv, TypeOK, ListInv
  <2>3. TypeOK'
    BY <1>6, <2>2 DEF IInv, TypeOK, DequeuePcs, LoadHeadNext
  <2>4. DequeueInv'
    BY <1>6 DEF IInv, TypeOK, DequeueInv, DequeueOK, LoadHeadNext
  <2> QED
    BY <1>1, <1>2, <1>3, <2>3, <2>4 DEF IInv
<1> QED
  BY <1>4, <1>5, <1>6

\* Returning forgets the locals.
LEMMA ReturnKeepsIInv == ASSUME NEW t \in Threads, IInv, Return(t) PROVE IInv'
<1> USE DEF Return, Goto, shared, heap, locals, owner, history
<1>1. ListInv' /\ ValuesInv' /\ TailInv'
  BY LocalStepKeepsList DEF LocalStep, IInv
<1>2. TypeOK'
  BY DEF IInv, TypeOK, Option, Pointer
<1>3. PrivateInv'
  BY DEF IInv, TypeOK, PrivateInv, BeforeLink, Linked
<1>4. EnqueueInv'
  BY DEF IInv, TypeOK, EnqueueInv, EnqueueOK, EnqueuePcs, Linked
<1>5. DequeueInv'
  BY DEF IInv, TypeOK, DequeueInv, DequeueOK
<1> QED
  BY <1>1, <1>2, <1>3, <1>4, <1>5 DEF IInv

-----------------------------------------------------------------------------
\* The steps that write the list.

\* A new node is not in the chain and no other thread has it.
LEMMA CallEnqueueKeepsIInv == ASSUME NEW t \in Threads, IInv, CallEnqueue(t) PROVE IInv'
<1> USE NodesAssumption, ValuesAssumption DEF Goto, shared, locals, owner, history
<1>0. PICK x \in fresh, v \in Values :
        /\ fresh' = fresh \ {x}
        /\ value' = [value EXCEPT ![x] = v]
        /\ next' = [next EXCEPT ![x] = Null]
        /\ q' = [q EXCEPT ![t] = x]
  BY DEF CallEnqueue
<1>1. x \in Nodes /\ x \notin Linked /\ next[x] = Null
  BY DEF IInv, TypeOK, ListInv
<1>2. next' = next /\ Linked' = Linked /\ Last' = Last
  BY <1>0, <1>1 DEF IInv, TypeOK, CallEnqueue, Linked, Last
<1>3. TypeOK'
  BY <1>0, <1>1, <1>2 DEF IInv, CallEnqueue, TypeOK, Option, Pointer, EnqueuePcs
<1>4. ListInv'
  BY <1>0, <1>1, <1>2 DEF IInv, CallEnqueue, TypeOK, ListInv
<1>5. ValuesInv'
  <2>1. \A i \in (popped + 2)..Last : chain[i] # x
    BY <1>1, Positions DEF IInv, TypeOK, Linked, Last
  <2> QED
    BY <1>0, <1>2, <2>1, Positions DEF IInv, CallEnqueue, TypeOK, ValuesInv
<1>6. PrivateInv'
  <2>1. \A s \in Threads : BeforeLink(s) => q[s] # x
    BY <1>0 DEF IInv, PrivateInv
  <2>2. \A s \in Threads \ {t} : BeforeLink(s)' <=> BeforeLink(s)
    BY DEF IInv, TypeOK, CallEnqueue, BeforeLink
  <2>3. q' [t] = x /\ \A s \in Threads \ {t} : q'[s] = q[s]
    BY <1>0 DEF IInv, TypeOK
  <2>4. value'[x] \in Values /\ \A y \in Nodes \ {x} : value'[y] = value[y]
    BY <1>0, <1>1 DEF IInv, TypeOK
  <2> QED
    BY <1>0, <1>1, <1>2, <2>1, <2>2, <2>3, <2>4 DEF IInv, PrivateInv
<1>7. TailInv'
  BY <1>2 DEF IInv, CallEnqueue, TailInv, TailNearEnd
<1>8. EnqueueInv'
  BY <1>0, <1>2 DEF IInv, CallEnqueue, TypeOK, EnqueueInv, EnqueueOK, EnqueuePcs
<1>9. DequeueInv'
  <2>1. \A i \in 1..popped : next[chain[i]] \in Linked
    BY PassedSuccessors DEF IInv
  <2>2. \A y \in Linked : value'[y] = value[y]
    BY <1>0, <1>1, Positions DEF IInv, TypeOK
  <2> QED
    BY <1>0, <1>2, <2>1, <2>2 DEF IInv, CallEnqueue, TypeOK, DequeueInv, DequeueOK
<1> QED
  BY <1>3, <1>4, <1>5, <1>6, <1>7, <1>8, <1>9 DEF IInv

\* What the successful compare_exchange on (*p).next changes: p is the last node,
\* the node of the caller comes behind it.
LEMMA LinkEffect ==
  ASSUME NEW t \in Threads, IInv, Link(t)
  PROVE  /\ p[t] \in Linked /\ p[t] = chain[Last] /\ p[t] = tail
         /\ q[t] \in Nodes \ Linked /\ q[t] \notin fresh
         /\ value[q[t]] \in Values /\ next[q[t]] = Null
         /\ chain' \in Seq(Nodes) /\ Last' = Last + 1
         /\ \A i \in 1..Last : chain'[i] = chain[i]
         /\ chain'[Last + 1] = q[t]
         /\ Linked' = Linked \cup {q[t]}
         /\ next' \in [Nodes -> Pointer]
         /\ next'[p[t]] = q[t]
         /\ \A x \in Nodes \ {p[t]} : next'[x] = next[x]
<1> USE DEF IInv, Link, Goto
<1>1. /\ p[t] \in Linked /\ p[t] = tail
      /\ q[t] \in Nodes \ Linked /\ q[t] \notin fresh /\ value[q[t]] \in Values
  BY DEF EnqueueInv, EnqueueOK, PrivateInv, EnqueuePcs, BeforeLink
<1>2. p[t] = chain[Last] /\ next[q[t]] = Null
  BY <1>1, Successors DEF ListInv
<1>3. /\ chain' \in Seq(Nodes) /\ Last' = Last + 1
      /\ \A i \in 1..Last : chain'[i] = chain[i]
      /\ chain'[Last + 1] = q[t]
  BY <1>1 DEF TypeOK, Last
<1>4. Linked' = Linked \cup {q[t]}
  <2>1. Last \in Nat /\ DOMAIN chain = 1..Last /\ DOMAIN chain' = 1..(Last + 1)
    BY <1>3 DEF TypeOK, Last
  <2>2. 1..(Last + 1) = (1..Last) \cup {Last + 1}
    BY <2>1
  <2> QED
    BY <1>3, <2>1, <2>2 DEF Linked
<1>5. /\ next' \in [Nodes -> Pointer] /\ next'[p[t]] = q[t]
      /\ \A x \in Nodes \ {p[t]} : next'[x] = next[x]
  BY <1>1, Positions DEF TypeOK, Pointer
<1> QED
  BY <1>1, <1>2, <1>3, <1>4, <1>5

\* The node that enqueue links becomes the last of the list (lines 66-70).
LEMMA LinkKeepsIInv == ASSUME NEW t \in Threads, IInv, Link(t) PROVE IInv'
<1> USE NodesAssumption DEF Goto, shared, locals, owner
<1>0. /\ Last \in Nat /\ Last >= 1 /\ popped \in Nat /\ popped < Last
      /\ Linked \subseteq Nodes
      /\ \A i \in 1..Last : chain[i] \in Linked
  BY Positions DEF IInv, TypeOK, ListInv, Linked, Last
<1>1. \A x \in Linked : next[x] = Null <=> x = p[t]
  BY LinkEffect, Successors DEF IInv
<1>2. TypeOK'
  BY LinkEffect DEF IInv, Link, TypeOK, EnqueuePcs
<1>3. ListInv'
  <2>1. \A i, j \in 1..(Last + 1) : chain'[i] = chain'[j] => i = j
    BY <1>0, LinkEffect DEF IInv, ListInv
  <2>2. \A i \in 1..Last : next'[chain'[i]] = chain'[i + 1]
    <3>1. ASSUME NEW i \in 1..(Last - 1) PROVE next'[chain'[i]] = chain'[i + 1]
      <4>1. i \in 1..Last /\ i + 1 \in 1..Last /\ i # Last
        BY <1>0
      <4>2. chain[i] \in Nodes \ {p[t]}
        BY <1>0, <4>1, LinkEffect DEF IInv, ListInv
      <4> QED
        BY <4>1, <4>2, LinkEffect DEF IInv, ListInv
    <3>2. next'[chain'[Last]] = chain'[Last + 1]
      BY <1>0, LinkEffect
    <3>3. \A i \in 1..Last : i \in 1..(Last - 1) \/ i = Last
      BY <1>0
    <3> QED
      BY <3>1, <3>2, <3>3
  <2>3. \A x \in Nodes : (x \notin Linked' \/ x = chain'[Last']) => next'[x] = Null
    <3>1. \A x \in Nodes : x \notin Linked => next[x] = Null
      BY DEF IInv, ListInv
    <3>2. q[t] # p[t] /\ chain'[Last'] = q[t]
      BY LinkEffect
    <3> QED
      BY <3>1, <3>2, LinkEffect
  <2>4. Linked' \cap fresh' = {}
    <3>1. fresh' = fresh /\ Linked \cap fresh = {}
      BY DEF IInv, ListInv, Link
    <3> QED
      BY <3>1, LinkEffect
  <2>5. popped' < Last' /\ head' = chain'[popped' + 1]
    <3>1. popped' = popped /\ head' = chain[popped + 1]
      BY DEF IInv, ListInv, Link
    <3>2. popped + 1 \in 1..Last /\ popped < Last + 1
      BY <1>0
    <3> QED
      BY <3>1, <3>2, LinkEffect
  <2>6. \A i \in 1..(Last' - 1) : next'[chain'[i]] = chain'[i + 1]
    BY <1>0, <2>2, LinkEffect
  <2> QED
    BY <1>0, <2>1, <2>3, <2>4, <2>5, <2>6, LinkEffect DEF ListInv
<1>4. ValuesInv'
  <2>1. ASSUME NEW i \in (popped + 2)..(Last + 1) PROVE value[chain'[i]] \in Values
    <3>1. i \in (popped + 2)..Last \/ i = Last + 1
      BY <1>0
    <3>2. i \in (popped + 2)..Last => i \in 1..Last
      BY <1>0
    <3> QED
      BY <3>1, <3>2, LinkEffect DEF IInv, ValuesInv
  <2> QED
    BY <2>1, LinkEffect DEF Link, ValuesInv
<1>5. PrivateInv'
  <2>1. \A s \in Threads : BeforeLink(s)' => BeforeLink(s) /\ s # t
    BY DEF IInv, TypeOK, Link, BeforeLink
  <2>2. BeforeLink(t) /\ UNCHANGED <<q, value, fresh>>
    BY DEF Link, BeforeLink
  <2>3. PrivateInv
    BY DEF IInv
  <2> QED
    BY <2>1, <2>2, <2>3, LinkEffect DEF PrivateInv
<1>6. TailInv'
  <2>1. tail' = tail /\ tail = p[t] /\ tail \in Linked'
    <3>1. tail' = tail
      BY DEF Link
    <3>2. tail = p[t] /\ p[t] \in Linked /\ Linked \subseteq Linked'
      BY LinkEffect
    <3> QED
      BY <3>1, <3>2
  <2>2. next'[q[t]] = Null
    BY LinkEffect
  <2>3. next'[tail] = q[t]
    BY <2>1, LinkEffect
  <2> QED
    BY <2>1, <2>2, <2>3 DEF TailInv, TailNearEnd
<1>7. EnqueueInv'
  <2>1. \A x \in Linked : next'[x] # Null
    BY <1>0, <1>1, LinkEffect
  <2>2. \A x \in Linked : next[x] # Null => next'[x] = next[x]
    BY <1>0, <1>1, LinkEffect
  <2>3. \A s \in Threads \ {t} : pc'[s] = pc[s]
    BY DEF IInv, TypeOK, Link
  <2>4. pc'[t] = "enq_swing"
    BY DEF IInv, TypeOK, Link
  <2>5. Linked \subseteq Linked' /\ UNCHANGED <<p, q, n>>
    BY LinkEffect DEF Link
  <2>6. ASSUME NEW s \in Threads \ {t}, pc[s] \in EnqueuePcs \ {"enq_load"} 
        PROVE  p[s] \in Linked /\ (pc[s] = "enq_swing" => next[p[s]] # Null)
    BY <2>6 DEF IInv, EnqueueInv, EnqueueOK
  <2>7. ASSUME NEW s \in Threads \ {t}
        PROVE  EnqueueOK(s)'
    BY <2>1, <2>2, <2>3, <2>5, <2>6 DEF IInv, EnqueueInv, EnqueueOK, EnqueuePcs
  <2>8. EnqueueOK(t)'
    BY <2>1, <2>4, <2>5, LinkEffect DEF EnqueueOK, EnqueuePcs
  <2> QED
    BY <2>7, <2>8 DEF EnqueueInv, EnqueueOK
<1>8. DequeueInv'
  <2>1. \A i \in 1..(popped + 1) : i \in 1..Last /\ chain'[i] = chain[i]
    BY <1>0, LinkEffect
  <2>2. \A x \in Linked : next[x] # Null => next'[x] = next[x] /\ next'[x] # Null
    BY <1>0, <1>1, LinkEffect
  <2>3. \A i \in 1..popped : i \in 1..(popped + 1) /\ next[chain[i]] # Null
    BY <1>0, PassedSuccessors DEF IInv
  <2>4. \A s \in Threads : pc'[s] \in DequeuePcs => pc'[s] = pc[s]
    BY DEF IInv, TypeOK, Link, DequeuePcs
  <2>5. UNCHANGED <<p, n, value, popped>>
    BY DEF Link
  <2> QED
    BY <1>0, <2>1, <2>2, <2>3, <2>4, <2>5 DEF IInv, DequeueInv, DequeueOK, DequeuePcs
<1> QED
  BY <1>2, <1>3, <1>4, <1>5, <1>6, <1>7, <1>8 DEF IInv

\* The compare_exchanges on tail move it to its successor or not at all.
LEMMA TailMoves ==
  ASSUME NEW t \in Threads, IInv, HelpTail(t) \/ SwingTail(t)
  PROVE  tail' = tail \/ (next[tail] # Null /\ tail' = next[tail])
BY DEF IInv, EnqueueInv, EnqueueOK, HelpTail, SwingTail, Goto

\* Swinging tail, one's own node's or another's, keeps the invariant (73-78, 84-85).
LEMMA TailMovesKeepIInv ==
  ASSUME NEW t \in Threads, IInv, HelpTail(t) \/ SwingTail(t)
  PROVE  IInv'
<1> USE NodesAssumption DEF Goto, heap, locals, owner, history
<1>0. UNCHANGED <<head, next, value, fresh, chain, popped, p, q, n>>
  BY DEF HelpTail, SwingTail
<1>1. /\ \A s \in Threads \ {t} : pc'[s] = pc[s]
      /\ \/ pc[t] = "enq_help" /\ pc'[t] = "enq_load"
         \/ pc[t] = "enq_swing" /\ pc'[t] = "return"
  BY DEF IInv, TypeOK, HelpTail, SwingTail
<1>2. tail \in Linked /\ Linked \subseteq Nodes
  BY Positions DEF IInv, TailInv
<1>3. tail' \in Linked /\ TailNearEnd'
  BY <1>0, <1>2, TailMoves, Successors DEF IInv, TailInv, TailNearEnd
<1>4. Linked' = Linked
  BY <1>0 DEF Linked
<1>5. TypeOK'
  BY <1>2, <1>3 DEF IInv, TypeOK, EnqueuePcs, HelpTail, SwingTail
<1>6. ListInv' /\ ValuesInv' /\ TailInv'
  BY <1>0, <1>3, <1>4 DEF IInv, ListInv, ValuesInv, TailInv, Last
<1>7. PrivateInv'
  BY <1>0, <1>1, <1>4 DEF IInv, PrivateInv, BeforeLink
<1>8. EnqueueInv'
  <2>1. ASSUME NEW s \in Threads PROVE EnqueueOK(s)'
    BY <1>0, <1>1, <1>4, TailMoves DEF IInv, EnqueueInv, EnqueueOK, EnqueuePcs
  <2> QED
    BY <2>1 DEF EnqueueInv
<1>9. DequeueInv'
  BY <1>0, <1>1 DEF IInv, DequeueInv, DequeueOK
<1> QED
  BY <1>5, <1>6, <1>7, <1>8, <1>9 DEF IInv

\* The successful compare_exchange on head: the node of the oldest value is the
\* new dummy, and no other dequeue got the old one.
LEMMA MoveHeadEffect ==
  ASSUME NEW t \in Threads, IInv, MoveHead(t)
  PROVE  /\ popped + 1 \in 1..(Last - 1) /\ popped + 2 \in 1..Last
         /\ p[t] = chain[popped + 1] /\ next[p[t]] # Null
         /\ n[t] = chain[popped + 2] /\ next[p[t]] = chain[popped + 2]
         /\ head' = chain[popped + 2] /\ popped' = popped + 1
<1>0. Last \in Nat /\ popped \in Nat /\ popped < Last
  BY Positions DEF IInv, TypeOK, ListInv
<1>1. p[t] = chain[popped + 1] /\ next[p[t]] # Null /\ n[t] = next[p[t]]
  BY DEF IInv, ListInv, DequeueInv, DequeueOK, MoveHead, Goto
<1>2. popped + 1 # Last
  BY <1>1, Positions, Successors, <1>0 DEF IInv, Linked, TypeOK, ListInv, Last
<1>3. popped + 1 \in 1..(Last - 1) /\ popped + 2 \in 1..Last
  BY <1>0, <1>2
<1>4. next[chain[popped + 1]] = chain[popped + 2]
  <2>1. next[chain[popped + 1]] = chain[(popped + 1) + 1]
    BY <1>3 DEF IInv, ListInv
  <2>2. (popped + 1) + 1 = popped + 2
    BY <1>0
  <2> QED
    BY <2>1, <2>2
<1> QED
  BY <1>1, <1>3, <1>4 DEF MoveHead

\* The dequeue whose CAS on head succeeds owns the node it has left (97-108).
LEMMA MoveHeadKeepsIInv == ASSUME NEW t \in Threads, IInv, MoveHead(t) PROVE IInv'
<1> USE NodesAssumption DEF Goto, heap, locals, owner
<1>0. UNCHANGED <<tail, next, value, fresh, chain, p, q, n>>
  BY DEF MoveHead
<1>1. /\ \A s \in Threads \ {t} : pc'[s] = pc[s]
      /\ pc[t] = "deq_head" /\ pc'[t] = "deq_take"
  BY DEF IInv, TypeOK, MoveHead
<1>2. Last \in Nat /\ popped \in Nat /\ popped < Last
  BY Positions DEF IInv, TypeOK, ListInv
<1>3. Linked' = Linked /\ Last' = Last
  BY <1>0 DEF Linked, Last
<1>4. TypeOK'
  <2>1. head' \in Nodes
    BY MoveHeadEffect, Positions DEF IInv
  <2>2. popped' \in Nat
    BY <1>2, MoveHeadEffect
  <2> QED
    BY <2>1, <2>2 DEF IInv, TypeOK, DequeuePcs, MoveHead
<1>5. ListInv'
  <2>1. popped' < Last' /\ head' = chain'[popped' + 1]
    <3>1. popped' + 1 = popped + 2 /\ popped' < Last
      BY <1>2, MoveHeadEffect
    <3> QED
      BY <1>0, <1>3, <3>1, MoveHeadEffect
  <2> QED
    BY <1>0, <1>3, <2>1 DEF IInv, ListInv
<1>6. ValuesInv'
  <2>1. \A i \in (popped' + 2)..Last : i \in (popped + 2)..Last
    BY <1>2, MoveHeadEffect
  <2> QED
    BY <1>0, <1>3, <2>1 DEF IInv, ValuesInv
<1>7. PrivateInv' /\ TailInv'
  BY <1>0, <1>1, <1>3 DEF IInv, PrivateInv, BeforeLink, TailInv, TailNearEnd
<1>8. EnqueueInv'
  BY <1>0, <1>1, <1>3 DEF IInv, EnqueueInv, EnqueueOK, EnqueuePcs
<1>9. DequeueInv'
  <2>1. \A i \in 1..(popped + 1) : i \in 1..(popped' + 1) /\ i \in 1..popped'
    BY <1>2, MoveHeadEffect
  <2>2. \A i \in 1..popped : i \in 1..popped' /\ i \in 1..Last /\ i # popped + 1
    BY <1>2, MoveHeadEffect
  <2>3. \A i \in 1..popped : chain[i] # p[t]
    BY <1>2, <2>2, MoveHeadEffect DEF IInv, ListInv
  <2>4. \A s \in Threads : pc[s] \in {"deq_take", "deq_drop"} => p[s] # p[t]
    BY <2>3 DEF IInv, DequeueInv, DequeueOK
  <2>5. popped + 1 \in 1..popped' /\ popped + 2 \in (popped + 2)..Last
    BY <1>2, MoveHeadEffect
  <2>6. ASSUME NEW s \in Threads \ {t} PROVE DequeueOK(s)'
    <3>1. DequeueOK(s)
      BY DEF IInv, DequeueInv
    <3> QED
      BY <1>0, <1>1, <2>1, <2>2, <2>4, <3>1 DEF DequeueOK
  <2>7. DequeueOK(t)'
    <3>1. value[next[p[t]]] \in Values
      BY <2>5, MoveHeadEffect DEF IInv, ValuesInv
    <3>2. \E i \in 1..popped' : p[t] = chain[i]
      BY <2>5, MoveHeadEffect
    <3> QED
      BY <1>0, <1>1, <2>4, <3>1, <3>2 DEF DequeueOK
  <2> QED
    BY <2>6, <2>7 DEF DequeueInv
<1> QED
  BY <1>4, <1>5, <1>6, <1>7, <1>8, <1>9 DEF IInv

\* take() empties the new dummy, a node no other thread reads a value from.
LEMMA TakeValueKeepsIInv == ASSUME NEW t \in Threads, IInv, TakeValue(t) PROVE IInv'
<1> USE NodesAssumption DEF Goto, shared, locals, owner, history
<1> DEFINE y == next[p[t]]
<1>0. UNCHANGED <<head, tail, next, fresh, drops, p, q, n, phase, cur, chain, popped>>
  BY DEF TakeValue
<1>1. /\ \A s \in Threads \ {t} : pc'[s] = pc[s]
      /\ pc[t] = "deq_take" /\ pc'[t] = "deq_drop"
  BY DEF IInv, TypeOK, TakeValue
<1>2. Linked' = Linked /\ Last' = Last
  BY <1>0 DEF Linked, Last
<1>3. PICK i \in 1..popped : p[t] = chain[i]
  BY <1>1 DEF IInv, DequeueInv, DequeueOK
<1>4. i + 1 \in 1..Last /\ y = chain[i + 1] /\ y \in Linked /\ y \in Nodes
  BY <1>3, PassedSuccessors, Positions DEF IInv
<1>5. /\ value' = [value EXCEPT ![y] = None]
      /\ \A x \in Nodes \ {y} : value'[x] = value[x]
  BY <1>4 DEF IInv, TypeOK, TakeValue
<1>6. TypeOK'
  <2>1. value[y] \in Option
    BY <1>4 DEF IInv, TypeOK
  <2> QED
    BY <1>0, <1>1, <1>5, <2>1 DEF IInv, TypeOK, Option, DequeuePcs, TakeValue
<1>7. ListInv' /\ TailInv'
  BY <1>0, <1>2 DEF IInv, ListInv, TailInv, TailNearEnd
<1>8. ValuesInv'
  <2>1. Last \in Nat /\ popped \in Nat /\ popped < Last
    BY Positions DEF IInv, TypeOK, ListInv
  <2>2. \A j \in (popped + 2)..Last : j \in 1..Last /\ j # i + 1
    BY <2>1
  <2>3. \A j \in (popped + 2)..Last : chain[j] \in Nodes \ {y}
    BY <1>4, <2>2, Positions DEF IInv, ListInv
  <2> QED
    BY <1>0, <1>2, <1>5, <2>3 DEF IInv, ValuesInv
<1>9. PrivateInv'
  <2>1. \A s \in Threads : BeforeLink(s)' => BeforeLink(s)
    BY <1>1 DEF BeforeLink
  <2> QED
    BY <1>0, <1>2, <1>4, <1>5, <2>1 DEF IInv, PrivateInv
<1>10. EnqueueInv'
  BY <1>0, <1>1, <1>2 DEF IInv, EnqueueInv, EnqueueOK, EnqueuePcs
<1>11. DequeueInv'
  <2>1. ASSUME NEW s \in Threads \ {t}, pc[s] = "deq_take"
        PROVE  next[p[s]] \in Nodes \ {y}
    <3>1. p[s] # p[t]
      BY <1>1, <2>1 DEF IInv, DequeueInv, DequeueOK
    <3>2. PICK j \in 1..popped : p[s] = chain[j]
      BY <2>1 DEF IInv, DequeueInv, DequeueOK
    <3>3. j + 1 # i + 1 /\ j + 1 \in 1..Last /\ next[p[s]] = chain[j + 1]
      BY <1>3, <3>1, <3>2, PassedSuccessors DEF IInv
    <3> QED
      BY <1>4, <3>3, Positions DEF IInv, ListInv
  <2>2. ASSUME NEW s \in Threads PROVE DequeueOK(s)'
    <3>1. DequeueOK(s)
      BY DEF IInv, DequeueInv
    <3>2. pc'[s] = "deq_take" => s # t /\ pc[s] = "deq_take"
      BY <1>1
    <3>3. \A r \in Threads : pc'[r] \in {"deq_take", "deq_drop"} <=> pc[r] \in {"deq_take", "deq_drop"}
      BY <1>1
    <3>4. pc'[s] \in {"deq_empty", "deq_next", "deq_head"} => pc'[s] = pc[s]
      BY <1>1
    <3> QED
      BY <1>0, <1>5, <2>1, <3>1, <3>2, <3>3, <3>4 DEF DequeueOK
  <2> QED
    BY <2>2 DEF DequeueInv
<1> QED
  BY <1>6, <1>7, <1>8, <1>9, <1>10, <1>11 DEF IInv

-----------------------------------------------------------------------------
\* The steps that run destructors.

\* A destructor is run once more, or not at all (112).
LEMMA DropInPlaceType ==
  ASSUME NEW x \in Nodes, drops \in [Nodes -> Nat], DropInPlace(x)
  PROVE  drops' \in [Nodes -> Nat]
BY DEF DropInPlace

\* The invariant does not depend on which destructors have run (112).
LEMMA DropOldDummyKeepsIInv ==
  ASSUME NEW t \in Threads, IInv, DropOldDummy(t)
  PROVE  IInv'
<1> USE DEF DropOldDummy, Goto, shared, locals, owner, history
<1>1. ListInv' /\ ValuesInv' /\ TailInv'
  BY LocalStepKeepsList DEF LocalStep, IInv
<1>2. p[t] \in Nodes
  BY PassedSuccessors, Positions DEF IInv, DequeueInv, DequeueOK
<1>3. TypeOK'
  BY <1>2, DropInPlaceType DEF IInv, TypeOK
<1>4. PrivateInv'
  BY DEF IInv, TypeOK, PrivateInv, BeforeLink, Linked
<1>5. EnqueueInv'
  BY DEF IInv, TypeOK, EnqueueInv, EnqueueOK, EnqueuePcs, Linked
<1>6. DequeueInv'
  BY DEF IInv, TypeOK, DequeueInv, DequeueOK
<1> QED
  BY <1>1, <1>3, <1>4, <1>5, <1>6 DEF IInv

\* Drop::drop walks the list and changes none of it.
LEMMA DropKeepsIInv == ASSUME IInv, BeginDrop \/ DropNode \/ EndDrop PROVE IInv'
<1> USE NodesAssumption DEF shared, heap, locals, history
<1>1. UNCHANGED <<head, tail, next, value, fresh, pc, p, q, n, ret, chain, popped>>
  BY DEF BeginDrop, DropNode, EndDrop
<1>2. TypeOK'
  <2>1. drops' \in [Nodes -> Nat]
    BY DropInPlaceType DEF IInv, TypeOK, Pointer, BeginDrop, DropNode, EndDrop
  <2>2. cur' \in Pointer /\ phase' \in {"shared", "dropping", "dropped"}
    BY DEF IInv, TypeOK, Pointer, BeginDrop, DropNode, EndDrop
  <2> QED
    BY <1>1, <2>1, <2>2 DEF IInv, TypeOK
<1>3. ListInv' /\ ValuesInv' /\ TailInv'
  BY <1>1, LocalStepKeepsList DEF LocalStep, IInv
<1>4. PrivateInv' /\ EnqueueInv' /\ DequeueInv'
  BY <1>1 DEF IInv, PrivateInv, EnqueueInv, EnqueueOK, DequeueInv, DequeueOK, BeforeLink, Linked
<1> QED
  BY <1>2, <1>3, <1>4 DEF IInv

-----------------------------------------------------------------------------
\* IInv is inductive.
LEMMA NextKeepsIInv == IInv /\ [Next]_vars => IInv'
<1> SUFFICES ASSUME IInv, [Next]_vars PROVE IInv'
  OBVIOUS
<1>1. CASE UNCHANGED vars
  BY <1>1 DEF vars, IInv, TypeOK, ListInv, ValuesInv, PrivateInv, TailInv, TailNearEnd,
              EnqueueInv, EnqueueOK, DequeueInv, DequeueOK, BeforeLink, Linked, Last
<1>2. ASSUME NEW t \in Threads, CallEnqueue(t) \/ CallDequeue(t) \/ Step(t) PROVE IInv'
  BY <1>2, EnqueueReads, DequeueReads, ReturnKeepsIInv, CallEnqueueKeepsIInv, LinkKeepsIInv,
     TailMovesKeepIInv, MoveHeadKeepsIInv, TakeValueKeepsIInv, DropOldDummyKeepsIInv
     DEF Step, EnqueueStep, DequeueStep
<1>3. CASE BeginDrop \/ DropNode \/ EndDrop
  BY <1>3, DropKeepsIInv
<1> QED
  BY <1>1, <1>2, <1>3 DEF Next, Gone

\* Whatever the threads do, the list, the values in it and every thread's copies
\* of its pointers are as IInv says (enqueue, dequeue and Drop::drop).
THEOREM Invariance == Spec => []IInv
BY InitIInv, NextKeepsIInv, PTL DEF Spec

\* The types of all variables, whatever the interleaving; in particular head and
\* tail always point to a node, so no dereference is of a null pointer.
THEOREM TypeCorrectness == Spec => []TypeOK
<1>1. IInv => TypeOK
  BY DEF IInv
<1> QED
  BY <1>1, Invariance, PTL

\* tail is at most one node behind the end of the list (the help of enqueue
\* needs no loop).
THEOREM TailNeverFarBehind == Spec => []TailNearEnd
<1>1. IInv => TailNearEnd
  BY DEF IInv, TailInv
<1> QED
  BY <1>1, Invariance, PTL

\* head and tail advance one node at a time and a link is set once, although
\* every compare_exchange works from a copy that may be old.
THEOREM Forward == Spec => ForwardOnly
<1> DEFINE Advance == /\ head' \in {head, next[head]}
                      /\ tail' \in {tail, next[tail]}
                      /\ \A x \in Nodes : next[x] # Null => next'[x] = next[x]
<1>1. ASSUME IInv, Next PROVE Advance
  <2>1. ASSUME NEW t \in Threads, CallEnqueue(t) PROVE Advance
    <3>1. PICK x \in fresh : next' = [next EXCEPT ![x] = Null]
      BY <2>1 DEF CallEnqueue
    <3>2. next[x] = Null
      BY <1>1 DEF IInv, TypeOK, ListInv
    <3> QED
      BY <1>1, <2>1, <3>1, <3>2 DEF IInv, TypeOK, CallEnqueue, shared
  <2>2. ASSUME NEW t \in Threads, Link(t) PROVE Advance
    BY <1>1, <2>2 DEF IInv, TypeOK, Link, shared
  <2>3. ASSUME NEW t \in Threads, HelpTail(t) \/ SwingTail(t) PROVE Advance
    BY <1>1, <2>3, TailMoves DEF HelpTail, SwingTail, heap
  <2>4. ASSUME NEW t \in Threads, MoveHead(t) PROVE Advance
    BY <1>1, <2>4 DEF IInv, DequeueInv, DequeueOK, MoveHead, Goto, heap
  <2>5. ASSUME UNCHANGED <<head, tail, next>> PROVE Advance
    BY <2>5
  <2> QED
    BY <1>1, <2>1, <2>2, <2>3, <2>4, <2>5
       DEF Next, Step, EnqueueStep, DequeueStep, LoadTail, LinkFails, LoadTailNext,
           CallDequeue, LoadHead, FindEmpty, FindNonEmpty, LoadHeadNext, MoveHeadFails,
           TakeValue, DropOldDummy, Return, BeginDrop, DropNode, EndDrop, Gone, vars,
           shared, heap
<1>2. IInv /\ [Next]_vars => [Advance]_vars
  BY <1>1
<1> QED
  BY <1>2, Invariance, PTL DEF Spec, ForwardOnly

-----------------------------------------------------------------------------
\* The refinement of FifoQueue.

\* Only a dequeue that has taken a value has a result other than None.
RetOK(t) == pc[t] \notin {"deq_drop", "return"} => ret[t] = None
RetInv == \A t \in Threads : RetOK(t)

\* That is inductive: a result is set by TakeValue and cleared by Return.
LEMMA RetInvInductive ==
  ASSUME IInv, RetInv, [Next]_vars
  PROVE  RetInv'
<1>1. CASE UNCHANGED vars
  BY <1>1 DEF RetInv, RetOK, vars
<1>2. ASSUME NEW t \in Threads, CallEnqueue(t) \/ CallDequeue(t) \/ Step(t) PROVE RetInv'
  <2>1. /\ \A s \in Threads \ {t} : pc'[s] = pc[s] /\ ret'[s] = ret[s]
        /\ \/ pc'[t] \in {"deq_drop", "return"}
           \/ ret'[t] = None
           \/ ret'[t] = ret[t] /\ pc[t] \notin {"deq_drop", "return"}
    BY <1>2 DEF IInv, TypeOK, Goto, CallEnqueue, CallDequeue, Step, EnqueueStep, DequeueStep,
         LoadTail, Link, LinkFails, LoadTailNext, HelpTail, SwingTail, LoadHead, FindEmpty,
         FindNonEmpty, LoadHeadNext, MoveHead, MoveHeadFails, TakeValue, DropOldDummy, Return
  <2> QED
    BY <2>1 DEF RetInv, RetOK
<1>3. CASE BeginDrop \/ DropNode \/ EndDrop
  BY <1>3 DEF RetInv, RetOK, BeginDrop, DropNode, EndDrop
<1> QED
  BY <1>1, <1>2, <1>3 DEF Next, Gone

-----------------------------------------------------------------------------
\* The refinement mapping.

\* The contents are the values behind the dummy, oldest first.
ContentsOK ==
  /\ Contents \in Seq(Values)
  /\ Len(Contents) = Last - popped - 1
  /\ \A i \in 1..(Last - popped - 1) : Contents[i] = value[chain[popped + 1 + i]]

\* The list invariant makes the contents a sequence of values.
LEMMA ContentsType == IInv => ContentsOK
<1> SUFFICES ASSUME IInv PROVE ContentsOK
  OBVIOUS
<1>1. Last \in Nat /\ popped \in Nat /\ popped < Last
  BY Positions DEF IInv, TypeOK, ListInv
<1>2. ASSUME NEW i \in 1..(Last - popped - 1) PROVE value[chain[popped + 1 + i]] \in Values
  <2>1. popped + 1 + i \in (popped + 2)..Last
    BY <1>1
  <2> QED
    BY <2>1 DEF IInv, ValuesInv
<1>3. Contents \in [1..(Last - popped - 1) -> Values] /\ Last - popped - 1 \in Nat
  BY <1>1, <1>2 DEF Contents
<1> QED
  BY <1>1, <1>3 DEF Contents, ContentsOK

\* Two threads in different calls do not disturb each other's operation.
LEMMA OneOperationChanges ==
  ASSUME NEW t \in Threads, \A s \in Threads \ {t} : Operation(s)' = Operation(s)
  PROVE  Operations' = [Operations EXCEPT ![t] = Operation(t)']
BY DEF Operations

\* A step that changes no thread's operation leaves the abstract calls alone.
LEMMA NoOperationChanges ==
  ASSUME \A s \in Threads : Operation(s)' = Operation(s)
  PROVE  Operations' = Operations
BY DEF Operations

\* The operation a thread is in depends on its own locals and on the value it
\* inserts or takes.
LEMMA SameOperation ==
  ASSUME NEW s \in Threads, pc'[s] = pc[s], ret'[s] = ret[s], q'[s] = q[s], p'[s] = p[s],
         BeforeLink(s) => value'[q[s]] = value[q[s]],
         pc[s] = "deq_take" => value'[next'[p[s]]] = value[next[p[s]]]
  PROVE  Operation(s)' = Operation(s)
BY DEF Operation, BeforeLink

\* A dequeue that has moved head takes the value of a linked node that is not
\* the tail's end.
LEMMA TakenNode ==
  ASSUME IInv, NEW s \in Threads, pc[s] = "deq_take"
  PROVE  p[s] \in Linked /\ next[p[s]] # Null /\ next[p[s]] \in Linked
<1>1. PICK i \in 1..popped : p[s] = chain[i]
  BY DEF IInv, DequeueInv, DequeueOK
<1> QED
  BY <1>1, PassedSuccessors, Positions, NodesAssumption DEF IInv

-----------------------------------------------------------------------------
\* Every step of the code is a step of the abstract queue or none.

\* The call of enqueue (59-60) is the abstract invocation.
LEMMA CallEnqueueInvokes ==
  ASSUME IInv, RetInv, NEW t \in Threads, CallEnqueue(t)
  PROVE  Fifo!InvokeEnqueue(t)
<1> USE NodesAssumption DEF Goto, shared, locals, owner, history
<1>0. PICK x \in fresh, v \in Values :
        /\ value' = [value EXCEPT ![x] = v]
        /\ next' = [next EXCEPT ![x] = Null]
        /\ q' = [q EXCEPT ![t] = x]
  BY DEF CallEnqueue
<1>1. x \in Nodes /\ x \notin Linked /\ next[x] = Null
  BY DEF IInv, TypeOK, ListInv
<1>2. next' = next
  BY <1>0, <1>1 DEF IInv, TypeOK
<1>3. \A y \in Linked : value'[y] = value[y]
  BY <1>0, <1>1, Positions DEF IInv, TypeOK
<1>4. UNCHANGED Contents
  <2>1. Last \in Nat /\ popped \in Nat /\ popped < Last
    BY Positions DEF IInv, TypeOK, ListInv
  <2>2. \A i \in 1..(Last - popped - 1) : popped + 1 + i \in 1..Last
    BY <2>1
  <2>3. \A i \in 1..Last : chain[i] \in Linked
    BY Positions DEF IInv, TypeOK, Linked, Last
  <2>4. UNCHANGED <<chain, popped, Last>>
    BY DEF CallEnqueue, Last
  <2> QED
    BY <1>3, <2>2, <2>3, <2>4 DEF Contents
<1>5. ASSUME NEW s \in Threads \ {t} PROVE Operation(s)' = Operation(s)
  <2>1. pc'[s] = pc[s] /\ ret'[s] = ret[s] /\ q'[s] = q[s] /\ p'[s] = p[s]
    BY <1>0 DEF IInv, TypeOK, CallEnqueue
  <2>2. BeforeLink(s) => value'[q[s]] = value[q[s]]
    <3>1. BeforeLink(s) => q[s] \in Nodes /\ q[s] # x
      BY DEF IInv, PrivateInv
    <3> QED
      BY <1>0, <3>1 DEF IInv, TypeOK
  <2>3. pc[s] = "deq_take" => value'[next'[p[s]]] = value[next[p[s]]]
    BY <1>2, <1>3, TakenNode
  <2> QED
    BY <2>1, <2>2, <2>3, SameOperation
<1>6. Operation(t)' = [op |-> "enqueue", val |-> v]
  <2>1. pc'[t] = "enq_load" /\ q'[t] = x /\ value'[x] = v
    BY <1>0, <1>1 DEF IInv, TypeOK, CallEnqueue
  <2> QED
    BY <2>1 DEF Operation, BeforeLink
<1>7. Operations[t] = [op |-> "idle", val |-> None]
  BY DEF Operations, Operation, BeforeLink, CallEnqueue
<1> QED
  BY <1>4, <1>5, <1>6, <1>7, OneOperationChanges DEF Fifo!InvokeEnqueue, Fifo!Idle, Fifo!Call

\* The link is the instant an enqueue takes effect.
LEMMA LinkApplies ==
  ASSUME IInv, RetInv, NEW t \in Threads, Link(t)
  PROVE  Fifo!ApplyEnqueue(t)
<1> USE NodesAssumption DEF Goto, shared, locals, owner
<1> DEFINE v == value[q[t]]
<1>0. Last \in Nat /\ popped \in Nat /\ popped < Last
  BY Positions DEF IInv, TypeOK, ListInv
<1>1. UNCHANGED <<value, popped, p, q, ret>> /\ v \in Values
  BY LinkEffect DEF Link
<1>2. Contents' = Append(Contents, v)
  <2>1. ContentsOK /\ ContentsOK'
    <3>1. IInv'
      BY LinkKeepsIInv
    <3>2. (IInv => ContentsOK)'
      BY ContentsType, PTL
    <3> QED
      BY <3>1, <3>2, ContentsType
  <2>2. Len(Contents') = Len(Contents) + 1
    BY <1>0, <1>1, <2>1, LinkEffect DEF ContentsOK
  <2>3. ASSUME NEW i \in 1..Len(Contents) PROVE Contents'[i] = Contents[i]
    <3>1. i \in 1..(Last - popped - 1) /\ i \in 1..(Last' - popped' - 1)
      BY <1>0, <1>1, <2>1, LinkEffect DEF ContentsOK
    <3>2. popped + 1 + i \in 1..Last
      BY <1>0, <3>1
    <3> QED
      BY <1>1, <2>1, <3>1, <3>2, LinkEffect DEF ContentsOK
  <2>4. Contents'[Len(Contents) + 1] = v
    <3>1. Len(Contents) + 1 \in 1..(Last' - popped' - 1) /\ popped + 1 + (Len(Contents) + 1) = Last + 1
      BY <1>0, <1>1, <2>1, LinkEffect DEF ContentsOK
    <3>2. Contents'[Len(Contents) + 1] = value[chain'[popped + 1 + (Len(Contents) + 1)]]
      BY <1>1, <2>1, <3>1 DEF ContentsOK
    <3> QED
      BY <3>1, <3>2, LinkEffect
  <2>5. Append(Contents, v) \in Seq(Values)
    BY <1>1, <2>1 DEF ContentsOK
  <2>6. Len(Append(Contents, v)) = Len(Contents) + 1
        /\ \A i \in 1..Len(Contents) : Append(Contents, v)[i] = Contents[i]
        /\ Append(Contents, v)[Len(Contents) + 1] = v
    BY <1>1, <2>1, AppendProperties DEF ContentsOK
  <2>7. Len(Contents) \in Nat /\ Contents' \in Seq(Values)
    BY <2>1 DEF ContentsOK
  <2>8. \A i \in 1..Len(Contents') : i \in 1..Len(Contents) \/ i = Len(Contents) + 1
    BY <2>2, <2>7
  <2>9. \A i \in 1..Len(Contents') : Contents'[i] = Append(Contents, v)[i]
    BY <2>3, <2>4, <2>6, <2>8
  <2> QED
    BY <2>2, <2>5, <2>6, <2>7, <2>9, SeqEqual
<1>3. ASSUME NEW s \in Threads \ {t} PROVE Operation(s)' = Operation(s)
  <2>1. pc'[s] = pc[s]
    BY DEF IInv, TypeOK, Link
  <2>2. pc[s] = "deq_take" => next'[p[s]] = next[p[s]]
    BY TakenNode, LinkEffect, Positions DEF IInv, ListInv
  <2> QED
    BY <1>1, <2>1, <2>2, SameOperation
<1>4. Operation(t) = [op |-> "enqueue", val |-> v]
  BY DEF Operation, BeforeLink, Link
<1>5. Operation(t)' = [op |-> "return", val |-> None]
  <2>1. pc'[t] = "enq_swing" /\ ret'[t] = None
    BY <1>1 DEF IInv, TypeOK, Link, RetInv, RetOK
  <2> QED
    BY <2>1 DEF Operation, BeforeLink
<1>6. Operations[t] = Operation(t)
  BY DEF Operations
<1> QED
  BY <1>2, <1>3, <1>4, <1>5, <1>6, OneOperationChanges DEF Fifo!ApplyEnqueue, Fifo!Call

\* Moving head is the instant a dequeue that finds a value takes effect.
LEMMA MoveHeadApplies ==
  ASSUME IInv, RetInv, NEW t \in Threads, MoveHead(t)
  PROVE  Fifo!ApplyDequeue(t)
<1> USE NodesAssumption DEF Goto, heap, locals, owner
<1> DEFINE v == value[chain[popped + 2]]
<1>0. Last \in Nat /\ popped \in Nat /\ popped < Last
  BY Positions DEF IInv, TypeOK, ListInv
<1>1. UNCHANGED <<value, next, chain, Last, p, q, ret>>
  BY DEF MoveHead, Last
<1>2. Contents # <<>> /\ Head(Contents) = v /\ Contents' = Tail(Contents)
  <2>1. ContentsOK /\ ContentsOK'
    <3>1. IInv'
      BY MoveHeadKeepsIInv
    <3>2. (IInv => ContentsOK)'
      BY ContentsType, PTL
    <3> QED
      BY <3>1, <3>2, ContentsType
  <2>2. Contents \in Seq(Values) /\ Contents' \in Seq(Values) /\ Len(Contents) \in Nat
    BY <2>1 DEF ContentsOK
  <2>3. Len(Contents) >= 1 /\ Len(Contents') = Len(Contents) - 1
    BY <1>0, <1>1, <2>1, MoveHeadEffect DEF ContentsOK
  <2>4. Contents # <<>>
    BY <2>2, <2>3, EmptySeq
  <2>5. Head(Contents) = v
    <3>1. Head(Contents) = Contents[1]
      BY <2>2, <2>4, HeadTailProperties
    <3>2. 1 \in 1..(Last - popped - 1) /\ popped + 1 + 1 = popped + 2
      BY <1>0, MoveHeadEffect
    <3> QED
      BY <2>1, <3>1, <3>2 DEF ContentsOK
  <2>6. /\ Tail(Contents) \in Seq(Values) /\ Len(Tail(Contents)) = Len(Contents) - 1
        /\ \A i \in 1..(Len(Contents) - 1) : Tail(Contents)[i] = Contents[i + 1]
    BY <2>2, <2>4, HeadTailProperties
  <2>7. ASSUME NEW i \in 1..Len(Contents') PROVE Contents'[i] = Tail(Contents)[i]
    <3>1. /\ i \in 1..(Last' - popped' - 1) /\ i + 1 \in 1..(Last - popped - 1)
          /\ i \in 1..(Len(Contents) - 1)
          /\ popped' + 1 + i = popped + 1 + (i + 1)
      BY <1>0, <1>1, <2>1, <2>3, MoveHeadEffect DEF ContentsOK
    <3>2. Contents'[i] = value[chain[popped' + 1 + i]]
      BY <1>1, <2>1, <3>1 DEF ContentsOK
    <3>3. Contents[i + 1] = value[chain[popped + 1 + (i + 1)]]
      BY <2>1, <3>1 DEF ContentsOK
    <3> QED
      BY <2>6, <3>1, <3>2, <3>3
  <2> QED
    BY <2>2, <2>3, <2>4, <2>5, <2>6, <2>7, SeqEqual
<1>3. ASSUME NEW s \in Threads \ {t} PROVE Operation(s)' = Operation(s)
  <2>1. pc'[s] = pc[s]
    BY DEF IInv, TypeOK, MoveHead
  <2> QED
    BY <1>1, <2>1, SameOperation
<1>4. Operation(t) = [op |-> "dequeue", val |-> None]
  BY DEF Operation, BeforeLink, MoveHead
<1>5. Operation(t)' = [op |-> "return", val |-> v]
  <2>1. pc'[t] = "deq_take" /\ value'[next'[p'[t]]] = v
    BY <1>1, MoveHeadEffect DEF IInv, TypeOK, MoveHead
  <2> QED
    BY <2>1 DEF Operation, BeforeLink
<1>6. Operations[t] = Operation(t)
  BY DEF Operations
<1> QED
  BY <1>2, <1>3, <1>4, <1>5, <1>6, OneOperationChanges DEF Fifo!ApplyDequeue, Fifo!Call

\* Reading a null link is the instant a dequeue of an empty queue takes effect:
\* the dummy it was read from, however long ago, is still the dummy.
LEMMA FindEmptyApplies ==
  ASSUME IInv, RetInv, NEW t \in Threads, FindEmpty(t)
  PROVE  Fifo!ApplyDequeueEmpty(t)
<1> USE NodesAssumption DEF Goto, shared, heap, locals, owner, history
<1>0. Last \in Nat /\ popped \in Nat /\ popped < Last
  BY Positions DEF IInv, TypeOK, ListInv
<1>1. UNCHANGED <<value, next, chain, popped, Last, p, q, Contents>>
  BY DEF FindEmpty, Last, Contents
<1>2. Contents = <<>>
  <2>1. PICK i \in 1..(popped + 1) : p[t] = chain[i]
    BY DEF IInv, DequeueInv, DequeueOK, FindEmpty
  <2>2. i \notin 1..popped
    BY <2>1, PassedSuccessors, Positions DEF IInv, FindEmpty
  <2>3. i = popped + 1 /\ i \in 1..Last /\ i \in DOMAIN chain
    BY <1>0, <2>2 DEF IInv, TypeOK, Last
  <2>4. i = Last
    <3>1. chain[i] = chain[Last]
      BY <2>1, <2>3, Successors DEF IInv, Linked, FindEmpty
    <3>2. Last \in 1..Last
      BY <1>0
    <3> QED
      BY <2>3, <3>1, <3>2 DEF IInv, ListInv
  <2>5. Len(Contents) = 0 /\ Contents \in Seq(Values)
    BY <1>0, <2>3, <2>4, ContentsType DEF ContentsOK
  <2> QED
    BY <2>5, EmptySeq
<1>3. ASSUME NEW s \in Threads \ {t} PROVE Operation(s)' = Operation(s)
  <2>1. pc'[s] = pc[s] /\ ret'[s] = ret[s]
    BY DEF IInv, TypeOK, FindEmpty
  <2> QED
    BY <1>1, <2>1, SameOperation
<1>4. Operation(t) = [op |-> "dequeue", val |-> None]
  BY DEF Operation, BeforeLink, FindEmpty
<1>5. Operation(t)' = [op |-> "return", val |-> None]
  <2>1. pc'[t] = "return" /\ ret'[t] = None
    BY DEF IInv, TypeOK, FindEmpty
  <2> QED
    BY <2>1 DEF Operation, BeforeLink
<1>6. Operations[t] = Operation(t)
  BY DEF Operations
<1> QED
  BY <1>1, <1>2, <1>3, <1>4, <1>5, <1>6, OneOperationChanges
     DEF Fifo!ApplyDequeueEmpty, Fifo!Call

\* The call of dequeue (88) is the abstract invocation.
LEMMA CallDequeueInvokes ==
  ASSUME IInv, RetInv, NEW t \in Threads, CallDequeue(t)
  PROVE  Fifo!InvokeDequeue(t)
<1> USE DEF Goto, shared, heap, locals, owner, history
<1>1. UNCHANGED <<value, next, chain, popped, p, q, ret, Contents>>
  BY DEF CallDequeue, Contents, Last
<1>2. ASSUME NEW s \in Threads \ {t} PROVE Operation(s)' = Operation(s)
  <2>1. pc'[s] = pc[s]
    BY DEF IInv, TypeOK, CallDequeue
  <2> QED
    BY <1>1, <2>1, SameOperation
<1>3. Operation(t)' = [op |-> "dequeue", val |-> None]
  <2>1. pc'[t] = "deq_load"
    BY DEF IInv, TypeOK, CallDequeue
  <2> QED
    BY <2>1 DEF Operation, BeforeLink
<1>4. Operations[t] = [op |-> "idle", val |-> None]
  BY DEF Operations, Operation, BeforeLink, CallDequeue
<1> QED
  BY <1>1, <1>2, <1>3, <1>4, OneOperationChanges
     DEF Fifo!InvokeDequeue, Fifo!Idle, Fifo!Call

\* A return of the code is a return of the abstract queue.
LEMMA ReturnReturns ==
  ASSUME IInv, RetInv, NEW t \in Threads, Return(t)
  PROVE  Fifo!Return(t)
<1> USE DEF Goto, shared, heap, owner, history
<1>1. UNCHANGED <<value, next, chain, popped, Contents>>
  BY DEF Return, Contents, Last
<1>2. ASSUME NEW s \in Threads \ {t} PROVE Operation(s)' = Operation(s)
  <2>1. pc'[s] = pc[s] /\ ret'[s] = ret[s] /\ q'[s] = q[s] /\ p'[s] = p[s]
    BY DEF IInv, TypeOK, Return
  <2> QED
    BY <1>1, <2>1, SameOperation
<1>3. Operation(t)' = [op |-> "idle", val |-> None]
  <2>1. pc'[t] = "idle"
    BY DEF IInv, TypeOK, Return
  <2> QED
    BY <2>1 DEF Operation, BeforeLink
<1>4. Operations[t].op = "return"
  BY DEF Operations, Operation, BeforeLink, Return
<1> QED
  BY <1>1, <1>2, <1>3, <1>4, OneOperationChanges DEF Fifo!Return, Fifo!Idle, Fifo!Call

\* Taking the value moves it from the node to the result, nothing else.
LEMMA TakeValueStutters ==
  ASSUME IInv, RetInv, NEW t \in Threads, TakeValue(t)
  PROVE  UNCHANGED <<Contents, Operations>>
<1> USE DEF Goto, shared, locals, owner, history
<1> DEFINE y == next[p[t]]
<1>0. Last \in Nat /\ popped \in Nat /\ popped < Last
  BY Positions DEF IInv, TypeOK, ListInv
<1>1. UNCHANGED <<next, chain, popped, Last, p, q>>
  BY DEF TakeValue, Last
<1>2. pc[t] = "deq_take" /\ pc'[t] = "deq_drop" /\ ret'[t] = value[y]
  BY DEF IInv, TypeOK, TakeValue
<1>3. PICK i \in 1..popped : p[t] = chain[i] /\ y = chain[i + 1] /\ i + 1 \in 1..Last
  BY <1>2, PassedSuccessors DEF IInv, DequeueInv, DequeueOK
<1>4. y \in Linked /\ y \in Nodes /\ \A x \in Nodes \ {y} : value'[x] = value[x]
  BY <1>2, TakenNode, Positions DEF IInv, TypeOK, TakeValue
<1>5. UNCHANGED Contents
  <2>1. \A j \in 1..(Last - popped - 1) :
          popped + 1 + j \in 1..Last /\ popped + 1 + j # i + 1
    BY <1>0
  <2>2. \A j \in 1..(Last - popped - 1) : chain[popped + 1 + j] \in Nodes \ {y}
    BY <1>3, <2>1, Positions DEF IInv, ListInv
  <2> QED
    BY <1>1, <1>4, <2>2 DEF Contents
<1>6. ASSUME NEW s \in Threads \ {t} PROVE Operation(s)' = Operation(s)
  <2>1. pc'[s] = pc[s] /\ ret'[s] = ret[s]
    BY DEF IInv, TypeOK, TakeValue
  <2>2. BeforeLink(s) => value'[q[s]] = value[q[s]]
    BY <1>4 DEF IInv, PrivateInv
  <2>3. pc[s] = "deq_take" => value'[next[p[s]]] = value[next[p[s]]]
    <3>1. SUFFICES ASSUME pc[s] = "deq_take" PROVE next[p[s]] \in Nodes \ {y}
      BY <1>4
    <3>2. p[s] # p[t]
      BY <1>2, <3>1 DEF IInv, DequeueInv, DequeueOK
    <3>3. PICK j \in 1..popped : p[s] = chain[j]
      BY <3>1 DEF IInv, DequeueInv, DequeueOK
    <3>4. j + 1 # i + 1 /\ j + 1 \in 1..Last /\ next[p[s]] = chain[j + 1]
      BY <1>3, <3>2, <3>3, PassedSuccessors DEF IInv
    <3> QED
      BY <1>3, <3>4, Positions DEF IInv, ListInv
  <2> QED
    BY <1>1, <2>1, <2>2, <2>3, SameOperation
<1>7. Operation(t)' = Operation(t)
  BY <1>2 DEF Operation, BeforeLink
<1> QED
  BY <1>5, <1>6, <1>7, NoOperationChanges

\* So do the steps that only read, move tail or run a destructor.
LEMMA OtherStepsStutter ==
  ASSUME IInv, RetInv, NEW t \in Threads,
         \/ LoadTail(t) \/ LinkFails(t) \/ LoadTailNext(t) \/ HelpTail(t) \/ SwingTail(t)
         \/ LoadHead(t) \/ FindNonEmpty(t) \/ LoadHeadNext(t) \/ MoveHeadFails(t)
         \/ DropOldDummy(t)
  PROVE  UNCHANGED <<Contents, Operations>>
<1> USE DEF IInv, TypeOK, Goto, shared, heap, locals, owner, history, LoadTail, LinkFails,
        LoadTailNext, HelpTail, SwingTail, LoadHead, FindNonEmpty, LoadHeadNext,
        MoveHeadFails, DropOldDummy
<1>1. UNCHANGED <<value, next, chain, popped, q, ret>>
  OBVIOUS
<1>2. \A s \in Threads \ {t} : pc'[s] = pc[s] /\ p'[s] = p[s]
  OBVIOUS
<1>3. \/ BeforeLink(t) /\ BeforeLink(t)'
      \/ /\ pc[t] \in {"deq_load", "deq_empty", "deq_next", "deq_head"}
         /\ pc'[t] \in {"deq_load", "deq_empty", "deq_next", "deq_head"}
      \/ pc[t] \in {"enq_swing", "deq_drop"} /\ pc'[t] = "return"
  BY DEF BeforeLink
<1> HIDE DEF IInv, TypeOK, Goto, shared, heap, locals, owner, history, LoadTail, LinkFails,
        LoadTailNext, HelpTail, SwingTail, LoadHead, FindNonEmpty, LoadHeadNext,
        MoveHeadFails, DropOldDummy
<1>4. UNCHANGED Contents
  BY <1>1 DEF Contents, Last
<1>5. \A s \in Threads \ {t} : Operation(s)' = Operation(s)
  BY <1>1, <1>2, SameOperation
<1>6. Operation(t)' = Operation(t)
  BY <1>1, <1>3 DEF Operation, BeforeLink
<1> QED
  BY <1>4, <1>5, <1>6, NoOperationChanges

\* Drop::drop (30-43) is no operation of the abstract queue.
LEMMA DropStutters ==
  ASSUME BeginDrop \/ DropNode \/ EndDrop \/ UNCHANGED vars
  PROVE  UNCHANGED <<Contents, Operations>>
<1>1. UNCHANGED <<pc, p, q, ret, value, next, chain, popped>>
  BY DEF BeginDrop, DropNode, EndDrop, vars, shared, heap, locals, history
<1> QED
  BY <1>1 DEF Contents, Operations, Operation, BeforeLink, Last

-----------------------------------------------------------------------------
\* A new queue (46-57) is an empty abstract queue.
LEMMA InitRefines == Init => Fifo!Init /\ RetInv
<1> SUFFICES ASSUME Init PROVE Fifo!Init /\ RetInv
  OBVIOUS
<1>1. Contents = <<>>
  <2>1. Len(Contents) = 0 /\ Contents \in Seq(Values)
    BY InitIInv, ContentsType DEF Init, ContentsOK, Last
  <2> QED
    BY <2>1, EmptySeq
<1>2. Operations = [t \in Threads |-> [op |-> "idle", val |-> None]]
  BY DEF Init, Operations, Operation, BeforeLink
<1>3. RetInv
  BY DEF Init, RetInv, RetOK
<1> QED
  BY <1>1, <1>2, <1>3 DEF Fifo!Init, Fifo!Idle, Fifo!Call

\* Every step of the code is an abstract step or none.
LEMMA StepRefines == IInv /\ RetInv /\ [Next]_vars => [Fifo!Next]_(Fifo!vars)
<1> SUFFICES ASSUME IInv, RetInv, [Next]_vars PROVE [Fifo!Next]_(Fifo!vars)
  OBVIOUS
<1>1. ASSUME UNCHANGED <<Contents, Operations>> PROVE [Fifo!Next]_(Fifo!vars)
  BY <1>1 DEF Fifo!vars
<1>2. ASSUME NEW t \in Threads,
             \/ Fifo!InvokeEnqueue(t) \/ Fifo!ApplyEnqueue(t) \/ Fifo!InvokeDequeue(t)
             \/ Fifo!ApplyDequeue(t) \/ Fifo!ApplyDequeueEmpty(t) \/ Fifo!Return(t)
      PROVE  [Fifo!Next]_(Fifo!vars)
  BY <1>2 DEF Fifo!Next
<1>3. ASSUME NEW t \in Threads, CallEnqueue(t) \/ CallDequeue(t) \/ Step(t)
      PROVE  [Fifo!Next]_(Fifo!vars)
  BY <1>1, <1>2, <1>3, CallEnqueueInvokes, LinkApplies, CallDequeueInvokes, FindEmptyApplies,
     MoveHeadApplies, ReturnReturns, TakeValueStutters, OtherStepsStutter
     DEF Step, EnqueueStep, DequeueStep
<1>4. CASE BeginDrop \/ DropNode \/ EndDrop \/ UNCHANGED vars
  BY <1>1, <1>4, DropStutters
<1> QED
  BY <1>3, <1>4 DEF Next, Gone

\* Every history of calls and returns of enqueue and dequeue is one of the atomic
\* FIFO queue, for any number of threads, calls and values.
THEOREM LinearizableQueue == Spec => Linearizable
<1>1. Init => RetInv /\ Fifo!Init
  BY InitRefines
<1>2. IInv /\ RetInv /\ [Next]_vars => RetInv'
  BY RetInvInductive
<1>3. IInv /\ RetInv /\ [Next]_vars => [Fifo!Next]_(Fifo!vars)
  BY StepRefines
<1> QED
  BY <1>1, <1>2, <1>3, Invariance, PTL DEF Spec, Fifo!Spec, Linearizable

-----------------------------------------------------------------------------
\* The destructors.

\* A dequeue has moved head past chain[i] and not taken the value behind it yet.
Taking(i) == \E t \in Threads : pc[t] = "deq_take" /\ p[t] = chain[i]

\* Drop::drop runs when no operation does.
AloneInv == phase # "shared" => \A t \in Threads : pc[t] = "idle"

\* The values head has passed are gone, but for those about to be taken.
TakenInv ==
  /\ chain[1] = Dummy /\ value[Dummy] = None
  /\ \A i \in 2..(popped + 1) : value[chain[i]] # None => Taking(i - 1)

\* A node's destructor has not run before the node is passed, nor before the dequeue
\* that passed it comes to that.
NotYetInv ==
  /\ \A x \in Nodes : drops[x] \in {0, 1}
  /\ \A x \in Nodes : x \notin Linked => drops[x] = 0
  /\ phase = "shared" => \A i \in (popped + 1)..Last : drops[chain[i]] = 0
  /\ \A t \in Threads : pc[t] \in {"deq_take", "deq_drop"} => drops[p[t]] = 0

\* The walk of Drop::drop has come to the k-th node, or past the last.
WalkedTo(k) ==
  /\ cur = IF k = Last + 1 THEN Null ELSE chain[k]
  /\ drops[chain[popped + 1]] = 0
  /\ \A i \in (popped + 2)..Last :
       IF i < k THEN NeedsDrop => drops[chain[i]] = 1 ELSE drops[chain[i]] = 0
  /\ phase = "dropped" => k = Last + 1
WalkInv == phase # "shared" => \E k \in (popped + 1)..(Last + 1) : WalkedTo(k)

DropsInv == AloneInv /\ TakenInv /\ NotYetInv /\ WalkInv

-----------------------------------------------------------------------------
\* The numbers and positions that all steps use.
LEMMA Bounds ==
  ASSUME IInv
  PROVE  /\ Last \in Nat /\ popped \in Nat /\ popped < Last /\ popped + 1 \in 1..Last
         /\ \A i \in 1..Last : chain[i] \in Nodes /\ chain[i] \in Linked
         /\ \A i, j \in 1..Last : chain[i] = chain[j] => i = j
         /\ head = chain[popped + 1]
         /\ \A i \in (popped + 1)..Last : i \in 1..Last
         /\ \A i \in (popped + 2)..Last : i \in 1..Last
         /\ \A i \in 1..popped : i \in 1..Last /\ i \notin (popped + 1)..Last
         /\ \A i \in 2..(popped + 1) : i \in 1..Last /\ i - 1 \in 1..Last
<1>1. /\ Last \in Nat /\ popped \in Nat /\ popped < Last
      /\ \A i \in 1..Last : chain[i] \in Nodes
  BY Positions DEF IInv, TypeOK, ListInv
<1>2. \A i \in 1..Last : chain[i] \in Linked
  BY <1>1 DEF IInv, TypeOK, Linked, Last
<1>3. (\A i, j \in 1..Last : chain[i] = chain[j] => i = j) /\ head = chain[popped + 1]
  BY DEF IInv, ListInv
<1> QED
  BY <1>1, <1>2, <1>3

\* LockFreeQueue::new has run no destructor.
LEMMA InitDropsInv == Init => DropsInv
<1> SUFFICES ASSUME Init PROVE DropsInv
  OBVIOUS
<1> USE NodesAssumption DEF Init
<1>1. Last = 1 /\ chain[1] = Dummy /\ popped = 0
  BY DEF Last
<1>2. AloneInv /\ WalkInv
  BY DEF AloneInv, WalkInv
<1>3. TakenInv
  BY <1>1 DEF TakenInv
<1>4. NotYetInv
  BY <1>1 DEF NotYetInv
<1> QED
  BY <1>2, <1>3, <1>4 DEF DropsInv

\* A step of t on the way to or from anything but a passed node: the loads and failed
\* compare_exchanges, those on tail, and calls and returns.
Quiet(t) ==
  /\ UNCHANGED <<value, drops, phase, cur, chain, popped>>
  /\ phase = "shared"
  /\ {pc[t], pc'[t]} \cap {"deq_take", "deq_drop"} = {}
  /\ \A s \in Threads \ {t} : pc'[s] = pc[s] /\ p'[s] = p[s]

LEMMA QuietKeepsDropsInv ==
  ASSUME NEW t \in Threads, DropsInv, Quiet(t)
  PROVE  DropsInv'
<1> USE DEF Quiet
<1>1. Linked' = Linked /\ Last' = Last
  BY DEF Linked, Last
<1>2. AloneInv' /\ WalkInv'
  BY DEF AloneInv, WalkInv
<1>3. TakenInv'
  <2>1. \A i : Taking(i) => Taking(i)'
    BY DEF Taking
  <2> QED
    BY <2>1 DEF DropsInv, TakenInv
<1>4. NotYetInv'
  BY <1>1 DEF DropsInv, NotYetInv
<1> QED
  BY <1>2, <1>3, <1>4 DEF DropsInv

\* Which steps are of that kind.
LEMMA QuietSteps ==
  ASSUME NEW t \in Threads, IInv, DropsInv,
         \/ LoadTail(t) \/ LinkFails(t) \/ LoadTailNext(t) \/ HelpTail(t) \/ SwingTail(t)
         \/ CallDequeue(t) \/ LoadHead(t) \/ FindEmpty(t) \/ FindNonEmpty(t)
         \/ LoadHeadNext(t) \/ MoveHeadFails(t) \/ Return(t)
  PROVE  Quiet(t)
<1> USE DEF Goto, shared, heap, locals, owner, history
<1>1. UNCHANGED <<value, drops, phase, cur, chain, popped>>
  BY DEF LoadTail, LinkFails, LoadTailNext, HelpTail, SwingTail, CallDequeue, LoadHead,
         FindEmpty, FindNonEmpty, LoadHeadNext, MoveHeadFails, Return
<1>2. /\ pc \in [Threads -> {"idle", "return"} \cup EnqueuePcs \cup DequeuePcs]
      /\ p \in [Threads -> Pointer]
  BY DEF IInv, TypeOK
<1>3. phase = "shared"
  BY DEF DropsInv, AloneInv, LoadTail, LinkFails, LoadTailNext, HelpTail, SwingTail,
         CallDequeue, LoadHead, FindEmpty, FindNonEmpty, LoadHeadNext, MoveHeadFails, Return
<1>4. {pc[t], pc'[t]} \cap {"deq_take", "deq_drop"} = {}
  BY <1>2 DEF LoadTail, LinkFails, LoadTailNext, HelpTail, SwingTail, CallDequeue, LoadHead,
         FindEmpty, FindNonEmpty, LoadHeadNext, MoveHeadFails, Return
<1>5. \A s \in Threads \ {t} : pc'[s] = pc[s] /\ p'[s] = p[s]
  BY <1>2 DEF LoadTail, LinkFails, LoadTailNext, HelpTail, SwingTail, CallDequeue, LoadHead,
         FindEmpty, FindNonEmpty, LoadHeadNext, MoveHeadFails, Return
<1> QED
  BY <1>1, <1>3, <1>4, <1>5 DEF Quiet

\* enqueue's allocation and its link concern no node that has been passed.
LEMMA EnqueueKeepsDropsInv ==
  ASSUME NEW t \in Threads, IInv, DropsInv, CallEnqueue(t) \/ Link(t), IInv'
  PROVE  DropsInv'
<1> USE DEF Goto, shared, locals, owner, history
<1>1. UNCHANGED <<drops, phase, cur, popped>> /\ phase = "shared"
  BY DEF DropsInv, AloneInv, CallEnqueue, Link
<1>2. /\ pc[t] \notin {"deq_take", "deq_drop"} /\ pc'[t] \notin {"deq_take", "deq_drop"}
      /\ \A s \in Threads \ {t} : pc'[s] = pc[s]
      /\ p' = p
  BY DEF IInv, TypeOK, CallEnqueue, Link
<1>3. /\ \A i \in 1..Last : chain'[i] = chain[i] /\ value'[chain[i]] = value[chain[i]]
      /\ Last' \in {Last, Last + 1}
      /\ Linked \subseteq Linked'
      /\ Last' = Last + 1 => chain'[Last'] = q[t] /\ q[t] \notin Linked
  <2>1. CASE CallEnqueue(t)
    <3>1. PICK x \in fresh, v \in Values : value' = [value EXCEPT ![x] = v] /\ chain' = chain
      BY <2>1 DEF CallEnqueue
    <3>2. \A i \in 1..Last : chain[i] # x
      BY <3>1, Bounds DEF IInv, ListInv
    <3>3. Last' = Last /\ Linked' = Linked /\ Last \in Nat
      BY <3>1, Bounds DEF Last, Linked
    <3>4. \A i \in 1..Last : value'[chain[i]] = value[chain[i]]
      BY <3>1, <3>2, Bounds DEF IInv, TypeOK
    <3> QED
      BY <3>1, <3>3, <3>4
  <2>2. CASE Link(t)
    <3>1. chain' = Append(chain, q[t]) /\ value' = value
      BY <2>2 DEF Link
    <3>2. q[t] \in Nodes /\ q[t] \notin Linked
      BY <2>2 DEF IInv, PrivateInv, BeforeLink, Link
    <3>3. chain \in Seq(Nodes) /\ Last \in Nat
      BY Bounds DEF IInv, TypeOK
    <3>4. Last' = Last + 1 /\ chain'[Last'] = q[t] /\ \A i \in 1..Last : chain'[i] = chain[i]
      BY <3>1, <3>2, <3>3 DEF Last
    <3>5. Linked \subseteq Linked'
      BY <3>1, <3>2, <3>3 DEF Linked
    <3> QED
      BY <3>1, <3>2, <3>4, <3>5
  <2> QED
    BY <2>1, <2>2
<1>4. AloneInv' /\ WalkInv'
  BY <1>1 DEF AloneInv, WalkInv
<1>5. TakenInv'
  <2>1. 1 \in 1..Last /\ \A i \in 2..(popped + 1) : i \in 1..Last /\ i - 1 \in 1..Last
    BY Bounds
  <2>2. \A i \in 1..Last : Taking(i) => Taking(i)'
    BY <1>2, <1>3 DEF Taking
  <2> QED
    BY <1>1, <1>3, <2>1, <2>2 DEF DropsInv, TakenInv
<1>6. NotYetInv'
  <2>1. \A x \in Nodes : x \notin Linked' => drops'[x] = 0
    BY <1>1, <1>3 DEF DropsInv, NotYetInv
  <2>2. ASSUME NEW i \in (popped + 1)..Last' PROVE drops[chain'[i]] = 0
    <3>1. CASE i \in 1..Last
      BY <1>1, <1>3, <3>1, Bounds DEF DropsInv, NotYetInv
    <3>2. CASE i \notin 1..Last
      <4>1. i = Last' /\ Last' = Last + 1
        BY <1>3, <3>2, Bounds
      <4>2. q[t] \in Nodes /\ chain'[i] = q[t] /\ q[t] \notin Linked
        <5>1. chain'[Last'] \in Nodes
          BY <4>1, Bounds DEF IInv, TypeOK, Last
        <5> QED
          BY <1>3, <4>1, <5>1
      <4> QED
        BY <4>2 DEF DropsInv, NotYetInv
    <3> QED
      BY <3>1, <3>2
  <2>3. \A s \in Threads : pc'[s] \in {"deq_take", "deq_drop"} => drops'[p'[s]] = 0
    BY <1>1, <1>2 DEF DropsInv, NotYetInv
  <2> QED
    BY <1>1, <2>1, <2>2, <2>3 DEF DropsInv, NotYetInv
<1> QED
  BY <1>4, <1>5, <1>6 DEF DropsInv

\* The dequeue that moves head is about to take the value behind it.
LEMMA MoveHeadKeepsDropsInv ==
  ASSUME NEW t \in Threads, IInv, DropsInv, MoveHead(t), IInv'
  PROVE  DropsInv'
<1> USE DEF Goto, heap, locals, owner, history
<1>1. /\ UNCHANGED <<value, drops, phase, cur, chain, p>> /\ popped' = popped + 1
      /\ phase = "shared"
  BY DEF DropsInv, AloneInv, MoveHead
<1>2. /\ pc[t] = "deq_head" /\ pc'[t] = "deq_take"
      /\ \A s \in Threads \ {t} : pc'[s] = pc[s]
  BY DEF IInv, TypeOK, MoveHead
<1>3. p[t] = chain[popped + 1]
  BY Bounds DEF MoveHead
<1>4. Linked' = Linked /\ Last' = Last
  BY <1>1 DEF Linked, Last
<1>5. AloneInv' /\ WalkInv'
  BY <1>1 DEF AloneInv, WalkInv
<1>6. TakenInv'
  <2>1. \A i : Taking(i) => Taking(i)'
    BY <1>1, <1>2 DEF Taking
  <2>2. \A i : i = popped + 1 => Taking(i)'
    BY <1>1, <1>2, <1>3 DEF Taking
  <2>3. \A i \in 2..(popped' + 1) : i \in 2..(popped + 1) \/ i - 1 = popped + 1
    BY <1>1, Bounds
  <2> QED
    BY <1>1, <2>1, <2>2, <2>3 DEF DropsInv, TakenInv
<1>7. NotYetInv'
  <2>1. \A i \in (popped' + 1)..Last' : i \in (popped + 1)..Last
    BY <1>1, <1>4, Bounds
  <2>2. drops[p[t]] = 0
    BY <1>1, <1>3, Bounds DEF DropsInv, NotYetInv
  <2> QED
    BY <1>1, <1>2, <1>4, <2>1, <2>2 DEF DropsInv, NotYetInv
<1> QED
  BY <1>5, <1>6, <1>7 DEF DropsInv

\* take() leaves nothing to destroy in the new dummy.
LEMMA TakeValueKeepsDropsInv ==
  ASSUME NEW t \in Threads, IInv, DropsInv, TakeValue(t)
  PROVE  DropsInv'
<1> USE DEF Goto, shared, locals, owner, history
<1>1. UNCHANGED <<drops, phase, cur, chain, popped, p>> /\ phase = "shared"
  BY DEF DropsInv, AloneInv, TakeValue
<1>2. /\ pc[t] = "deq_take" /\ pc'[t] = "deq_drop"
      /\ \A s \in Threads \ {t} : pc'[s] = pc[s]
  BY DEF IInv, TypeOK, TakeValue
<1>3. PICK k \in 1..popped : p[t] = chain[k]
  BY <1>2 DEF IInv, DequeueInv, DequeueOK
<1>4. next[p[t]] = chain[k + 1] /\ k + 1 \in 1..Last /\ k \in 1..Last
  BY <1>3, PassedSuccessors DEF IInv
<1>5. /\ value'[chain[k + 1]] = None
      /\ \A i \in 1..Last : i # k + 1 => value'[chain[i]] = value[chain[i]]
  BY <1>4, Bounds DEF IInv, TypeOK, TakeValue
<1>6. Linked' = Linked /\ Last' = Last
  BY <1>1 DEF Linked, Last
<1>7. AloneInv' /\ WalkInv'
  BY <1>1 DEF AloneInv, WalkInv
<1>8. TakenInv'
  <2>1. \A i \in 1..Last : i # k /\ Taking(i) => Taking(i)'
    BY <1>1, <1>2, <1>3, <1>4, Bounds DEF Taking
  <2>2. \A i \in 2..(popped + 1) : i # k + 1 => i - 1 \in 1..Last /\ i - 1 # k
    BY Bounds
  <2>3. 1 \in 1..Last /\ \A i \in 2..(popped + 1) : i \in 1..Last
    BY Bounds
  <2>4. ASSUME NEW i \in 2..(popped + 1), value'[chain[i]] # None PROVE Taking(i - 1)'
    <3>1. i # k + 1 /\ value[chain[i]] # None
      BY <1>5, <2>3, <2>4
    <3> QED
      BY <2>1, <2>2, <3>1 DEF DropsInv, TakenInv
  <2>5. chain[1] = Dummy /\ value'[Dummy] = None
    BY <1>5, <2>3, Bounds DEF DropsInv, TakenInv
  <2> QED
    BY <1>1, <2>4, <2>5 DEF TakenInv
<1>9. NotYetInv'
  BY <1>1, <1>2, <1>6 DEF DropsInv, NotYetInv
<1> QED
  BY <1>7, <1>8, <1>9 DEF DropsInv

\* drop_in_place in dequeue is on a passed node, which no other dequeue has.
LEMMA DropOldDummyKeepsDropsInv ==
  ASSUME NEW t \in Threads, IInv, DropsInv, DropOldDummy(t)
  PROVE  DropsInv'
<1> USE DEF Goto, shared, locals, owner, history
<1>1. UNCHANGED <<value, phase, cur, chain, popped, p>> /\ phase = "shared"
  BY DEF DropsInv, AloneInv, DropOldDummy
<1>2. /\ pc[t] = "deq_drop" /\ pc'[t] = "return"
      /\ \A s \in Threads \ {t} : pc'[s] = pc[s]
  BY DEF IInv, TypeOK, DropOldDummy
<1>3. PICK k \in 1..popped : p[t] = chain[k]
  BY <1>2 DEF IInv, DequeueInv, DequeueOK
<1>4. k \in 1..Last /\ k \notin (popped + 1)..Last /\ p[t] \in Nodes /\ p[t] \in Linked
  BY <1>3, Bounds
<1>5. drops[p[t]] = 0
  BY <1>2 DEF DropsInv, NotYetInv
<1>6. /\ drops'[p[t]] \in {0, 1}
      /\ \A x \in Nodes : x # p[t] => drops'[x] = drops[x]
  BY <1>4, <1>5 DEF IInv, TypeOK, DropOldDummy, DropInPlace
<1>7. Linked' = Linked /\ Last' = Last
  BY <1>1 DEF Linked, Last
<1>8. AloneInv' /\ WalkInv'
  BY <1>1 DEF AloneInv, WalkInv
<1>9. TakenInv'
  <2>1. \A i : Taking(i) => Taking(i)'
    BY <1>1, <1>2 DEF Taking
  <2> QED
    BY <1>1, <2>1 DEF DropsInv, TakenInv
<1>10. NotYetInv'
  <2>1. \A x \in Nodes : drops'[x] \in {0, 1} /\ (x \notin Linked => drops'[x] = 0)
    BY <1>4, <1>6 DEF DropsInv, NotYetInv
  <2>2. \A i \in (popped + 1)..Last : chain[i] \in Nodes /\ chain[i] # p[t]
    BY <1>3, <1>4, Bounds
  <2>3. \A i \in (popped + 1)..Last : drops'[chain[i]] = 0
    BY <1>1, <1>6, <2>2 DEF DropsInv, NotYetInv
  <2>4. ASSUME NEW s \in Threads, pc'[s] \in {"deq_take", "deq_drop"} PROVE drops'[p[s]] = 0
    <3>1. s # t /\ pc[s] \in {"deq_take", "deq_drop"}
      BY <1>2, <2>4
    <3>2. p[s] # p[t]
      BY <1>2, <3>1 DEF IInv, DequeueInv, DequeueOK
    <3>3. PICK j \in 1..popped : p[s] = chain[j]
      BY <3>1 DEF IInv, DequeueInv, DequeueOK
    <3>4. p[s] \in Nodes
      BY <3>3, Bounds
    <3> QED
      BY <1>6, <3>1, <3>2, <3>4 DEF DropsInv, NotYetInv
  <2> QED
    BY <1>1, <1>7, <2>1, <2>3, <2>4 DEF NotYetInv
<1> QED
  BY <1>8, <1>9, <1>10 DEF DropsInv

\* The walk of Drop::drop runs the destructor of each value still queued.
LEMMA WalkKeepsDropsInv ==
  ASSUME IInv, DropsInv, BeginDrop \/ DropNode \/ EndDrop
  PROVE  DropsInv'
<1> USE NodesAssumption DEF shared, heap, locals, history
<1>1. UNCHANGED <<head, next, value, pc, p, chain, popped>>
  BY DEF BeginDrop, DropNode, EndDrop
<1>2. Linked' = Linked /\ Last' = Last
  BY <1>1 DEF Linked, Last
<1>3. (\A t \in Threads : pc[t] = "idle") /\ phase' # "shared"
  BY DEF DropsInv, AloneInv, BeginDrop, DropNode, EndDrop, IInv, TypeOK
<1>4. AloneInv' /\ TakenInv'
  <2>1. \A i : Taking(i)' = Taking(i)
    BY <1>1 DEF Taking
  <2> QED
    BY <1>1, <1>3, <2>1 DEF DropsInv, AloneInv, TakenInv
<1>5. CASE BeginDrop
  <2>1. drops' = drops /\ cur' = chain[popped + 1] /\ phase = "shared" /\ phase' = "dropping"
    BY <1>5, Bounds DEF BeginDrop
  <2>2. popped + 1 \in (popped + 1)..(Last + 1) /\ popped + 1 # Last + 1
    BY Bounds
  <2>3. \A k : k = popped + 1 => WalkedTo(k)'
    <3>1. \A i \in (popped + 1)..Last : drops[chain[i]] = 0
      BY <2>1 DEF DropsInv, NotYetInv
    <3>2. \A i \in (popped + 2)..Last : i \in (popped + 1)..Last /\ ~(i < popped + 1)
      BY Bounds
    <3>3. popped + 1 \in (popped + 1)..Last
      BY Bounds
    <3> QED
      BY <1>1, <1>2, <2>1, <2>2, <3>1, <3>2, <3>3 DEF WalkedTo
  <2>4. WalkInv'
    BY <1>1, <1>2, <2>2, <2>3 DEF WalkInv
  <2>5. NotYetInv'
    BY <1>1, <1>2, <1>3, <2>1 DEF DropsInv, NotYetInv
  <2> QED
    BY <1>4, <2>4, <2>5 DEF DropsInv
<1>6. CASE DropNode
  <2>1. phase = "dropping" /\ phase' = "dropping" /\ cur # Null /\ cur' = next[cur] /\ DropInPlace(cur)
    BY <1>6 DEF DropNode
  <2>2. PICK k \in (popped + 1)..(Last + 1) : WalkedTo(k)
    BY <2>1 DEF DropsInv, WalkInv
  <2>3. k \in 1..Last /\ k \in (popped + 1)..Last /\ cur = chain[k] /\ k # Last + 1
    BY <2>1, <2>2, Bounds DEF WalkedTo
  <2>4. cur \in Nodes /\ cur \in Linked
    BY <2>3, Bounds
  <2>5. cur' = IF k + 1 = Last + 1 THEN Null ELSE chain[k + 1]
    <3>1. CASE k = Last
      BY <2>1, <2>3, <2>4, <3>1, Bounds DEF IInv, ListInv
    <3>2. CASE k # Last
      <4>1. k \in 1..(Last - 1)
        BY <2>3, <3>2, Bounds
      <4> QED
        BY <2>1, <2>3, <4>1, Bounds DEF IInv, ListInv
    <3> QED
      BY <3>1, <3>2
  <2>6. \A i \in 1..Last : i # k => drops'[chain[i]] = drops[chain[i]]
    BY <2>1, <2>3, <2>4, Bounds DEF IInv, TypeOK, DropInPlace
  <2>7. k = popped + 1 => drops' = drops
    <3> SUFFICES ASSUME k = popped + 1 PROVE value[chain[k]] = None
      BY <2>1, <2>3 DEF DropInPlace
    <3>1. \A i : ~Taking(i)
      BY <1>3 DEF Taking
    <3>2. CASE popped = 0
      BY <3>2 DEF DropsInv, TakenInv
    <3>3. CASE popped # 0
      <4>1. popped + 1 \in 2..(popped + 1)
        BY <3>3, Bounds
      <4> QED
        BY <3>1, <4>1 DEF DropsInv, TakenInv
    <3> QED
      BY <3>2, <3>3
  <2>8. k # popped + 1 => drops[cur] = 0 /\ (drops'[cur] = IF NeedsDrop THEN 1 ELSE 0)
    <3> SUFFICES ASSUME k # popped + 1
                 PROVE  drops[cur] = 0 /\ (drops'[cur] = IF NeedsDrop THEN 1 ELSE 0)
      OBVIOUS
    <3>1. k \in (popped + 2)..Last
      BY <2>3, Bounds
    <3>2. value[cur] \in Values
      BY <2>3, <3>1 DEF IInv, ValuesInv
    <3>3. drops[cur] = 0
      BY <2>2, <2>3, <3>1 DEF WalkedTo
    <3> QED
      BY <2>1, <2>4, <3>2, <3>3, ValuesAssumption DEF IInv, TypeOK, DropInPlace
  <2>9. NotYetInv'
    <3>1. \A x \in Nodes : x # cur => drops'[x] = drops[x]
      BY <2>1 DEF IInv, TypeOK, DropInPlace
    <3>2. drops'[cur] \in {0, 1}
      BY <2>4, <2>7, <2>8 DEF DropsInv, NotYetInv
    <3>3. \A x \in Nodes : drops'[x] \in {0, 1} /\ (x \notin Linked => drops'[x] = 0)
      BY <2>4, <3>1, <3>2 DEF DropsInv, NotYetInv
    <3> QED
      BY <1>1, <1>2, <1>3, <3>3 DEF NotYetInv
  <2>10. \A m : m = k + 1 => WalkedTo(m)'
    <3>1. popped + 1 \in 1..Last
      BY Bounds
    <3>2. drops'[chain[popped + 1]] = 0
      BY <2>2, <2>6, <2>7, <3>1 DEF WalkedTo
    <3>3. ASSUME NEW i \in (popped + 2)..Last
          PROVE  IF i < k + 1 THEN NeedsDrop => drops'[chain[i]] = 1 ELSE drops'[chain[i]] = 0
      <4>1. i \in 1..Last /\ i \in Int /\ k \in Int
        BY <2>3, Bounds
      <4>2. CASE i = k
        <5>1. k # popped + 1
          BY <4>2, Bounds
        <5> QED
          BY <2>3, <2>8, <4>1, <4>2, <5>1
      <4>3. CASE i # k
        <5>1. drops'[chain[i]] = drops[chain[i]] /\ (i < k + 1 <=> i < k)
          BY <2>6, <4>1, <4>3
        <5> QED
          BY <2>2, <5>1 DEF WalkedTo
      <4> QED
        BY <4>2, <4>3
    <3> QED
      BY <1>1, <1>2, <2>1, <2>5, <3>2, <3>3 DEF WalkedTo
  <2>11. k + 1 \in (popped + 1)..(Last + 1)
    BY <2>3, Bounds
  <2>12. WalkInv'
    BY <1>1, <1>2, <2>10, <2>11 DEF WalkInv
  <2> QED
    BY <1>4, <2>9, <2>12 DEF DropsInv
<1>7. CASE EndDrop
  <2>1. drops' = drops /\ cur' = cur /\ cur = Null /\ phase = "dropping" /\ phase' = "dropped"
    BY <1>7 DEF EndDrop
  <2>2. PICK k \in (popped + 1)..(Last + 1) : WalkedTo(k)
    BY <2>1 DEF DropsInv, WalkInv
  <2>3. k = Last + 1
    <3> SUFFICES ASSUME k # Last + 1 PROVE FALSE
      OBVIOUS
    <3>1. k \in 1..Last
      BY Bounds
    <3> QED
      BY <2>1, <2>2, <3>1, Bounds DEF WalkedTo
  <2>4. WalkedTo(k)'
    BY <1>1, <1>2, <2>1, <2>2, <2>3 DEF WalkedTo
  <2>5. WalkInv'
    BY <1>1, <1>2, <2>4 DEF WalkInv
  <2>6. NotYetInv'
    BY <1>1, <1>2, <1>3, <2>1 DEF DropsInv, NotYetInv
  <2> QED
    BY <1>4, <2>5, <2>6 DEF DropsInv
<1> QED
  BY <1>5, <1>6, <1>7

\* DropsInv is inductive together with IInv.
LEMMA NextKeepsDropsInv == IInv /\ DropsInv /\ [Next]_vars => DropsInv'
<1> SUFFICES ASSUME IInv, DropsInv, [Next]_vars PROVE DropsInv'
  OBVIOUS
<1>1. CASE UNCHANGED vars
  BY <1>1 DEF vars, DropsInv, AloneInv, TakenInv, Taking, NotYetInv, WalkInv, WalkedTo, Linked, Last
<1>2. ASSUME NEW t \in Threads, CallEnqueue(t) \/ CallDequeue(t) \/ Step(t) PROVE DropsInv'
  <2>1. Next
    BY <1>2 DEF Next
  <2>2. IInv'
    BY <2>1, NextKeepsIInv
  <2> QED
    BY <1>2, <2>2, QuietSteps, QuietKeepsDropsInv, EnqueueKeepsDropsInv, MoveHeadKeepsDropsInv,
       TakeValueKeepsDropsInv, DropOldDummyKeepsDropsInv DEF Step, EnqueueStep, DequeueStep
<1>3. CASE BeginDrop \/ DropNode \/ EndDrop
  BY <1>3, WalkKeepsDropsInv
<1> QED
  BY <1>1, <1>2, <1>3 DEF Next, Gone

LEMMA DropsInvariance == Spec => [](IInv /\ DropsInv)
<1>1. Init => IInv /\ DropsInv
  BY InitIInv, InitDropsInv
<1>2. IInv /\ DropsInv /\ [Next]_vars => (IInv /\ DropsInv)'
  BY NextKeepsIInv, NextKeepsDropsInv
<1> QED
  BY <1>1, <1>2, PTL DEF Spec

\* For any number of threads: no destructor runs twice, none on a value still queued
\* before Drop::drop, and when Drop::drop is over every value has been handed out or
\* destroyed (lock_free_queue.rs:30-43 and 112).
THEOREM Released == Spec => []ReleasedOnce
<1>1. IInv /\ DropsInv => ReleasedOnce
  <2> SUFFICES ASSUME IInv, DropsInv PROVE ReleasedOnce
    OBVIOUS
  <2>1. \A x \in Nodes : drops[x] <= 1
    BY DEF DropsInv, NotYetInv
  <2>2. popped + 1 \in (popped + 1)..Last /\ \A i \in (popped + 2)..Last : i \in (popped + 1)..Last
    BY Bounds
  <2>3. drops[head] = 0
    <3>1. CASE phase = "shared"
      BY <2>2, <3>1, Bounds DEF DropsInv, NotYetInv
    <3>2. CASE phase # "shared"
      BY <3>2, Bounds DEF DropsInv, WalkInv, WalkedTo
    <3> QED
      BY <3>1, <3>2
  <2>4. phase = "shared" => \A i \in (popped + 2)..Last : drops[chain[i]] = 0
    BY <2>2 DEF DropsInv, NotYetInv
  <2>5. ASSUME phase = "dropped", NeedsDrop, NEW x \in Linked \ (HandedOut \cup {Dummy})
        PROVE  drops[x] = 1
    <3>1. PICK i \in 1..Last : x = chain[i]
      BY DEF Linked, Last, IInv, TypeOK
    <3>2. i \notin 2..(popped + 1)
      BY <3>1 DEF HandedOut
    <3>3. i # 1
      BY <3>1 DEF DropsInv, TakenInv
    <3>4. i \in (popped + 2)..Last /\ i < Last + 1
      BY <3>1, <3>2, <3>3, Bounds
    <3> QED
      BY <2>5, <3>1, <3>4, Bounds DEF DropsInv, WalkInv, WalkedTo
  <2> QED
    BY <2>1, <2>3, <2>4, <2>5 DEF ReleasedOnce
<1> QED
  BY <1>1, DropsInvariance, PTL

-----------------------------------------------------------------------------
\* Nothing head has passed is destroyed, if only dequeuers dequeue.
IntactInv ==
  /\ \A t \in Threads : pc[t] \in DequeuePcs => t \in Dequeuers
  /\ \A i \in 1..(popped + 1) : drops[chain[i]] = 0

\* The destructor finds no value: only one thread can be between MoveHead and Return.
LEMMA OldDummyIsEmpty ==
  ASSUME \A s, t \in Dequeuers : s = t, IInv, DropsInv, IntactInv,
         NEW t \in Threads, pc[t] = "deq_drop"
  PROVE  value[p[t]] = None
<1>1. PICK k \in 1..popped : p[t] = chain[k]
  BY DEF IInv, DequeueInv, DequeueOK
<1>2. CASE k = 1
  BY <1>1, <1>2 DEF DropsInv, TakenInv
<1>3. CASE k # 1
  <2>1. k \in 2..(popped + 1)
    BY <1>3, Bounds
  <2>2. ~Taking(k - 1)
    BY DEF Taking, IntactInv, DequeuePcs
  <2> QED
    BY <1>1, <2>1, <2>2 DEF DropsInv, TakenInv
<1> QED
  BY <1>2, <1>3

\* The walk of Drop::drop destroys nothing head has passed.
LEMMA WalkLeavesPassed ==
  ASSUME IInv, DropsInv, DropNode, NEW i \in 1..(popped + 1)
  PROVE  drops'[chain[i]] = drops[chain[i]]
<1>1. phase = "dropping" /\ cur # Null /\ DropInPlace(cur) /\ \A t \in Threads : pc[t] = "idle"
  BY DEF DropNode, DropsInv, AloneInv
<1>2. PICK k \in (popped + 1)..(Last + 1) : WalkedTo(k)
  BY <1>1 DEF DropsInv, WalkInv
<1>3. k \in 1..Last /\ cur = chain[k]
  BY <1>1, <1>2, Bounds DEF WalkedTo
<1>4. i \in 1..Last
  BY Bounds
<1>5. CASE k # i
  <2>1. chain[i] # cur /\ chain[i] \in Nodes
    BY <1>3, <1>4, <1>5, Bounds
  <2> QED
    BY <1>1, <2>1 DEF IInv, TypeOK, DropInPlace
<1>6. CASE k = i
  <2>1. i = popped + 1 /\ \A j : ~Taking(j)
    BY <1>1, <1>6, Bounds DEF Taking
  <2>2. value[cur] = None
    <3>1. CASE i = 1
      BY <1>3, <1>6, <3>1 DEF DropsInv, TakenInv
    <3>2. CASE i # 1
      <4>1. i \in 2..(popped + 1)
        BY <3>2, Bounds
      <4> QED
        BY <1>3, <1>6, <2>1, <4>1 DEF DropsInv, TakenInv
    <3> QED
      BY <3>1, <3>2
  <2> QED
    BY <1>1, <2>2 DEF DropInPlace
<1> QED
  BY <1>5, <1>6

LEMMA NextKeepsIntactInv ==
  ASSUME \A s, t \in Dequeuers : s = t, IInv, DropsInv, IntactInv, [Next]_vars
  PROVE  IntactInv'
<1>1. CASE UNCHANGED vars
  BY <1>1 DEF vars, IntactInv
<1>2. ASSUME Next PROVE \A t \in Threads : pc'[t] \in DequeuePcs => t \in Dequeuers
  <2> USE DEF IntactInv, Goto, DequeuePcs, EnqueuePcs
  <2>1. ASSUME NEW t \in Threads, CallEnqueue(t) \/ CallDequeue(t) \/ EnqueueStep(t) \/ Return(t)
        PROVE  \A s \in Threads : pc'[s] \in DequeuePcs => s \in Dequeuers
    BY <2>1 DEF IInv, TypeOK, CallEnqueue, CallDequeue, EnqueueStep, LoadTail, Link, LinkFails,
       LoadTailNext, HelpTail, SwingTail, Return
  <2>2. ASSUME NEW t \in Threads, DequeueStep(t)
        PROVE  \A s \in Threads : pc'[s] \in DequeuePcs => s \in Dequeuers
    BY <2>2 DEF IInv, TypeOK, DequeueStep, LoadHead, FindEmpty, FindNonEmpty, LoadHeadNext,
       MoveHead, MoveHeadFails, TakeValue, DropOldDummy
  <2>3. CASE BeginDrop \/ DropNode \/ EndDrop \/ Gone
    BY <2>3 DEF BeginDrop, DropNode, EndDrop, Gone, vars
  <2> QED
    BY <1>2, <2>1, <2>2, <2>3 DEF Next, Step
<1>3. ASSUME Next PROVE \A i \in 1..(popped' + 1) : drops'[chain'[i]] = 0
  <2> USE DEF heap, shared, locals, owner, history
  <2>1. ASSUME NEW t \in Threads, MoveHead(t)
        PROVE  \A i \in 1..(popped' + 1) : drops'[chain'[i]] = 0
    <3>1. popped' = popped + 1 /\ UNCHANGED <<drops, chain>> /\ phase = "shared"
      BY <2>1 DEF MoveHead, Goto, DropsInv, AloneInv
    <3>2. IInv'
      BY <1>3, NextKeepsIInv
    <3>3. popped' < Last' /\ Last' = Last /\ popped \in Nat /\ Last \in Nat
      BY <3>1, <3>2, Bounds DEF IInv, ListInv, Last
    <3>4. drops[chain[popped + 2]] = 0
      <4>1. popped + 2 \in (popped + 1)..Last
        BY <3>1, <3>3
      <4> QED
        BY <3>1, <4>1 DEF DropsInv, NotYetInv
    <3>5. \A i \in 1..(popped' + 1) : i \in 1..(popped + 1) \/ i = popped + 2
      BY <3>1, <3>3
    <3> QED
      BY <3>1, <3>4, <3>5 DEF IntactInv
  <2>2. ASSUME NEW t \in Threads, DropOldDummy(t)
        PROVE  \A i \in 1..(popped' + 1) : drops'[chain'[i]] = 0
    <3>1. pc[t] = "deq_drop" /\ DropInPlace(p[t]) /\ UNCHANGED <<chain, popped>>
      BY <2>2 DEF DropOldDummy, Goto
    <3>2. value[p[t]] = None
      BY <3>1, OldDummyIsEmpty
    <3> QED
      BY <3>1, <3>2 DEF IntactInv, DropInPlace
  <2>3. CASE DropNode
    BY <2>3, WalkLeavesPassed DEF DropNode, IntactInv
  <2>4. ASSUME NEW t \in Threads, Link(t)
        PROVE  \A i \in 1..(popped' + 1) : drops'[chain'[i]] = 0
    <3>1. chain' = Append(chain, q[t]) /\ UNCHANGED <<drops, popped>>
      BY <2>4 DEF Link
    <3>2. chain \in Seq(Nodes) /\ \A i \in 1..(popped + 1) : i \in 1..Len(chain)
      BY Bounds DEF IInv, TypeOK, Last
    <3>3. \A i \in 1..(popped + 1) : chain'[i] = chain[i]
      BY <3>1, <3>2
    <3> QED
      BY <3>1, <3>3 DEF IntactInv
  <2>5. ASSUME UNCHANGED <<drops, chain, popped>>
        PROVE  \A i \in 1..(popped' + 1) : drops'[chain'[i]] = 0
    BY <2>5 DEF IntactInv
  <2>6. ASSUME NEW t \in Threads,
               \/ CallEnqueue(t) \/ CallDequeue(t) \/ LoadTail(t) \/ LinkFails(t)
               \/ LoadTailNext(t) \/ HelpTail(t) \/ SwingTail(t) \/ LoadHead(t)
               \/ FindEmpty(t) \/ FindNonEmpty(t) \/ LoadHeadNext(t)
               \/ MoveHeadFails(t) \/ TakeValue(t) \/ Return(t)
        PROVE  UNCHANGED <<drops, chain, popped>>
    BY <2>6 DEF CallEnqueue, CallDequeue, LoadTail, LinkFails, LoadTailNext, HelpTail,
       SwingTail, LoadHead, FindEmpty, FindNonEmpty, LoadHeadNext, MoveHeadFails, TakeValue,
       Return
  <2>7. CASE BeginDrop \/ EndDrop \/ Gone
    BY <2>5, <2>7 DEF BeginDrop, EndDrop, Gone, vars
  <2> QED
    BY <1>3, <2>1, <2>2, <2>3, <2>4, <2>5, <2>6, <2>7 DEF Next, Step, EnqueueStep, DequeueStep
<1> QED
  BY <1>1, <1>2, <1>3 DEF IntactInv

\* For any number of enqueuers and at most one dequeuer: no value handed to a caller of
\* dequeue has had its destructor run (lock_free_queue.rs:99-114).
THEOREM OneDequeuerIntact ==
  ASSUME \A s, t \in Dequeuers : s = t
  PROVE  Spec => []HandedOutIntact
<1>1. Init => IntactInv
  BY NodesAssumption DEF Init, IntactInv, DequeuePcs, Last
<1>2. IInv /\ DropsInv /\ IntactInv /\ [Next]_vars => IntactInv'
  BY NextKeepsIntactInv
<1>3. IInv /\ IntactInv => HandedOutIntact
  BY DEF IntactInv, HandedOutIntact, HandedOut
<1> QED
  BY <1>1, <1>2, <1>3, DropsInvariance, PTL DEF Spec

-----------------------------------------------------------------------------
(***************************************************************************)
(* Progress.  No step of a call waits for anything: what is left to show   *)
(* for NonBlocking is that a call is over after a bounded number of its    *)
(* thread's own steps, whatever the others do meanwhile, and although both *)
(* loops start again whenever a compare_exchange fails.  A failure means   *)
(* that the thread's copy of tail or head has been overtaken: each turn of *)
(* a loop begins at least one node further on in the list than the turn    *)
(* before, and the list cannot be longer than the heap.                    *)
(***************************************************************************)

\* The position of a node in the list.
Place(c, x) == CHOOSE i \in 1..Len(c) : c[i] = x

\* The position at which the present turn of a thread's loop begins.
Reached(t) ==
  CASE pc[t] = "enq_load" -> Place(chain, tail)
    [] pc[t] = "deq_load" -> popped + 1
    [] OTHER -> Place(chain, p[t])

\* The steps that this turn still has.
Turn(t) ==
  CASE pc[t] \in {"enq_load", "deq_load"} -> 5
    [] pc[t] \in {"enq_link", "deq_empty"} -> 4
    [] pc[t] \in {"enq_next", "deq_next"} -> 3
    [] OTHER -> 2

\* A bound on the steps to the end of the call.
Distance(t) ==
  CASE pc[t] = "idle" -> 0
    [] pc[t] = "return" -> 1
    [] pc[t] \in {"enq_swing", "deq_drop"} -> 2
    [] pc[t] = "deq_take" -> 3
    [] OTHER -> 5 * (Cardinality(Nodes) - Reached(t)) + Turn(t)

\* A thread's copy of tail is never ahead of tail.
CopyOK(t) == pc[t] \in {"enq_link", "enq_next", "enq_help"} =>
  Place(chain, p[t]) <= Place(chain, tail)
CopyInv == \A t \in Threads : CopyOK(t)

\* A sequence without repetitions has each element at one place.
LEMMA PlaceIsIndex ==
  ASSUME NEW c \in Seq(Nodes), \A i, j \in 1..Len(c) : c[i] = c[j] => i = j
  PROVE  \A i \in 1..Len(c) : Place(c, c[i]) = i
BY DEF Place

\* Appending a new element moves no other.
LEMMA PlaceStays ==
  ASSUME NEW c \in Seq(Nodes), \A i, j \in 1..Len(c) : c[i] = c[j] => i = j,
         NEW d \in Seq(Nodes), \A i, j \in 1..Len(d) : d[i] = d[j] => i = j,
         Len(c) <= Len(d), \A i \in 1..Len(c) : d[i] = c[i]
  PROVE  \A i \in 1..Len(c) : Place(d, c[i]) = Place(c, c[i])
<1> SUFFICES ASSUME NEW i \in 1..Len(c) PROVE Place(d, c[i]) = Place(c, c[i])
  OBVIOUS
<1>1. i \in 1..Len(d) /\ d[i] = c[i]
  BY LenProperties
<1>2. Place(d, d[i]) = i
  BY <1>1, PlaceIsIndex
<1>3. Place(c, c[i]) = i
  BY PlaceIsIndex
<1> QED
  BY <1>1, <1>2, <1>3

\* Where the nodes that matter are.
LEMMA Where ==
  ASSUME IInv
  PROVE  /\ Last \in Nat /\ Last >= 1 /\ popped \in Nat /\ popped < Last
         /\ chain \in Seq(Nodes) /\ \A i, j \in 1..Last : chain[i] = chain[j] => i = j
         /\ \A i \in 1..Last : Place(chain, chain[i]) = i
         /\ \A x \in Linked : Place(chain, x) \in 1..Last /\ chain[Place(chain, x)] = x
         /\ \A x \in Linked : next[x] # Null =>
              Place(chain, x) < Last /\ Place(chain, next[x]) = Place(chain, x) + 1
<1>1. /\ Last \in Nat /\ Last >= 1 /\ popped \in Nat /\ popped < Last
      /\ chain \in Seq(Nodes) /\ \A i, j \in 1..Last : chain[i] = chain[j] => i = j
  BY Positions DEF IInv, TypeOK, ListInv
<1>2. \A i \in 1..Last : Place(chain, chain[i]) = i
  BY <1>1, PlaceIsIndex DEF Last
<1>3. \A x \in Linked : Place(chain, x) \in 1..Last /\ chain[Place(chain, x)] = x
  BY <1>1, <1>2 DEF Linked, Last
<1>4. ASSUME NEW x \in Linked, next[x] # Null
      PROVE  Place(chain, x) < Last /\ Place(chain, next[x]) = Place(chain, x) + 1
  <2>1. PICK i \in 1..(Last - 1) : x = chain[i] /\ next[x] = chain[i + 1]
    BY <1>4, Positions DEF IInv
  <2>2. i \in 1..Last /\ i + 1 \in 1..Last
    BY <1>1
  <2>3. Place(chain, x) = i /\ Place(chain, next[x]) = i + 1
    BY <1>2, <2>1, <2>2
  <2> QED
    BY <1>1, <2>3
<1> QED
  BY <1>1, <1>2, <1>3, <1>4

\* The list has no more nodes than the heap.
LEMMA ListFitsHeap ==
  ASSUME IsFiniteSet(Nodes), IInv
  PROVE  Cardinality(Nodes) \in Nat /\ Last <= Cardinality(Nodes)
<1>1. Cardinality(Nodes) \in Nat
  BY FS_CardinalityType
<1>2. chain \in [1..Last -> Nodes]
  BY Where, LenProperties DEF Last
<1>3. chain \in Injection(1..Last, Nodes)
  BY <1>2, Where DEF Injection, IsInjective
<1>4. Cardinality(1..Last) <= Cardinality(Nodes)
  BY <1>3, FS_Injection
<1>5. Cardinality(1..Last) = Last
  <2>1. Last \in Int /\ 1 \in Int /\ Last >= 1
    BY Where
  <2> QED
    BY <2>1, FS_Interval
<1> QED
  BY <1>1, <1>4, <1>5

\* The list only grows, at its end.
LEMMA ChainGrows ==
  ASSUME IInv, [Next]_vars
  PROVE  chain' = chain \/ \E t \in Threads : Link(t)
<1>1. ASSUME NEW t \in Threads, CallEnqueue(t) \/ CallDequeue(t) \/ Step(t)
      PROVE  chain' = chain \/ Link(t)
  BY <1>1 DEF CallEnqueue, CallDequeue, Step, EnqueueStep, DequeueStep, LoadTail, LinkFails,
     LoadTailNext, HelpTail, SwingTail, LoadHead, FindEmpty, FindNonEmpty, LoadHeadNext,
     MoveHead, MoveHeadFails, TakeValue, DropOldDummy, Return, history
<1>2. BeginDrop \/ DropNode \/ EndDrop \/ Gone \/ UNCHANGED vars => chain' = chain
  BY DEF BeginDrop, DropNode, EndDrop, Gone, history, vars
<1> QED
  BY <1>1, <1>2 DEF Next

\* A linked node stays linked, and where it is.
LEMMA PlacesStay ==
  ASSUME IInv, [Next]_vars
  PROVE  /\ IInv' /\ Last <= Last'
         /\ \A x \in Linked : x \in Linked' /\ Place(chain', x) = Place(chain, x)
<1>1. IInv'
  BY NextKeepsIInv
<1>2. /\ chain' \in Seq(Nodes) /\ Last' \in Nat
      /\ \A i, j \in 1..Last' : chain'[i] = chain'[j] => i = j
  BY <1>1, Positions DEF IInv, TypeOK, ListInv, Last
<1>3. Last <= Last' /\ \A i \in 1..Last : chain'[i] = chain[i]
  <2>1. CASE chain' = chain
    BY <2>1, Where DEF Last
  <2>2. ASSUME NEW t \in Threads, Link(t)
        PROVE  Last <= Last' /\ \A i \in 1..Last : chain'[i] = chain[i]
    BY <2>2, LinkEffect, Where
  <2> QED
    BY <2>1, <2>2, ChainGrows
<1>4. \A i \in 1..Last : Place(chain', chain[i]) = Place(chain, chain[i])
  <2> DEFINE c == chain  d == chain'
  <2>1. c \in Seq(Nodes) /\ \A i, j \in 1..Len(c) : c[i] = c[j] => i = j
    BY Where DEF Last
  <2>2. d \in Seq(Nodes) /\ \A i, j \in 1..Len(d) : d[i] = d[j] => i = j
    BY <1>2 DEF Last
  <2>3. Len(c) <= Len(d) /\ \A i \in 1..Len(c) : d[i] = c[i]
    BY <1>3 DEF Last
  <2> HIDE DEF c, d
  <2>4. \A i \in 1..Len(c) : Place(d, c[i]) = Place(c, c[i])
    BY <2>1, <2>2, <2>3, PlaceStays
  <2> QED
    BY <2>4 DEF c, d, Last
<1>5. ASSUME NEW x \in Linked
      PROVE  x \in Linked' /\ Place(chain', x) = Place(chain, x)
  <2>1. PICK i \in 1..Last : x = chain[i]
    BY Where DEF Linked, Last
  <2>2. i \in 1..Last' /\ chain'[i] = x
    BY <1>2, <1>3, <2>1, Where
  <2>3. x \in Linked'
    BY <1>2, <2>2, LenProperties DEF Linked, Last
  <2> QED
    BY <1>4, <2>1, <2>3
<1> QED
  BY <1>1, <1>3, <1>5

\* The same for tail and head after a step.
LEMMA PlaceInNewList ==
  ASSUME IInv, [Next]_vars
  PROVE  Place(chain', tail') \in Nat
<1>1. IInv'
  BY PlacesStay
<1>2. tail' \in Linked'
  BY <1>1 DEF IInv, TailInv
<1>3. Len(chain') \in Nat /\ \A i, j \in 1..Len(chain') : chain'[i] = chain'[j] => i = j
      /\ chain' \in Seq(Nodes)
  BY <1>1 DEF IInv, TypeOK, ListInv, Last
<1>4. \A i \in 1..Len(chain') : Place(chain', chain'[i]) = i
  BY <1>3, PlaceIsIndex
<1> QED
  BY <1>2, <1>3, <1>4, LenProperties DEF Linked

\* head never goes back.
LEMMA HeadAdvances ==
  ASSUME IInv, [Next]_vars
  PROVE  popped' \in {popped, popped + 1}
<1>1. ASSUME NEW t \in Threads, CallEnqueue(t) \/ CallDequeue(t) \/ Step(t)
      PROVE  popped' \in {popped, popped + 1}
  BY <1>1 DEF CallEnqueue, CallDequeue, Step, EnqueueStep, DequeueStep, LoadTail, Link, LinkFails,
     LoadTailNext, HelpTail, SwingTail, LoadHead, FindEmpty, FindNonEmpty, LoadHeadNext,
     MoveHead, MoveHeadFails, TakeValue, DropOldDummy, Return, history
<1>2. BeginDrop \/ DropNode \/ EndDrop \/ Gone \/ UNCHANGED vars => popped' = popped
  BY DEF BeginDrop, DropNode, EndDrop, Gone, history, vars
<1> QED
  BY <1>1, <1>2 DEF Next

\* tail never goes back; a thread that helps leaves it beyond its own copy.
LEMMA TailAdvances ==
  ASSUME IInv, [Next]_vars
  PROVE  /\ tail \in Linked /\ Place(chain, tail) <= Place(chain', tail')
         /\ \A t \in Threads : HelpTail(t) /\ CopyOK(t) =>
              Place(chain, p[t]) < Place(chain', tail')
<1>1. /\ tail \in Linked /\ Place(chain, tail) \in Nat
      /\ \A x \in Linked : Place(chain', x) = Place(chain, x)
  BY Where, PlacesStay DEF IInv, TailInv
<1>2. ASSUME NEW t \in Threads, HelpTail(t) \/ SwingTail(t)
      PROVE  Place(chain, tail) <= Place(chain', tail')
  <2>1. CASE tail' = tail
    BY <1>1, <2>1
  <2>2. CASE next[tail] # Null /\ tail' = next[tail]
    <3>1. Place(chain, tail') = Place(chain, tail) + 1 /\ tail' \in Linked
      BY <1>1, <2>2, Where, Successors DEF IInv
    <3> QED
      BY <1>1, <3>1
  <2> QED
    BY <1>2, <2>1, <2>2, TailMoves
<1>3. tail' = tail \/ \E t \in Threads : HelpTail(t) \/ SwingTail(t)
  <2>1. ASSUME NEW t \in Threads, CallEnqueue(t) \/ CallDequeue(t) \/ Step(t)
        PROVE  tail' = tail \/ HelpTail(t) \/ SwingTail(t)
    BY <2>1 DEF CallEnqueue, CallDequeue, Step, EnqueueStep, DequeueStep, LoadTail, Link,
       LinkFails, LoadTailNext, LoadHead, FindEmpty, FindNonEmpty, LoadHeadNext,
       MoveHead, MoveHeadFails, TakeValue, DropOldDummy, Return, shared
  <2>2. BeginDrop \/ DropNode \/ EndDrop \/ Gone \/ UNCHANGED vars => tail' = tail
    BY DEF BeginDrop, DropNode, EndDrop, Gone, shared, vars
  <2> QED
    BY <2>1, <2>2 DEF Next
<1>4. Place(chain, tail) <= Place(chain', tail')
  BY <1>1, <1>2, <1>3
<1>5. ASSUME NEW t \in Threads, HelpTail(t), CopyOK(t)
      PROVE  Place(chain, p[t]) < Place(chain', tail')
  <2>1. pc[t] = "enq_help" /\ p[t] \in Linked /\ next[p[t]] # Null /\ n[t] = next[p[t]]
        /\ Place(chain, p[t]) <= Place(chain, tail)
    BY <1>5 DEF HelpTail, Goto, IInv, EnqueueInv, EnqueueOK, EnqueuePcs, CopyOK
  <2>2. Place(chain, p[t]) \in Nat
    BY <2>1, Where
  <2>3. CASE tail = p[t]
    <3>1. tail' = next[p[t]]
      BY <1>5, <2>1, <2>3 DEF HelpTail
    <3>2. Place(chain, tail') = Place(chain, p[t]) + 1 /\ tail' \in Linked
      BY <2>1, <3>1, Where, Successors DEF IInv
    <3> QED
      BY <1>1, <2>2, <3>2
  <2>4. CASE tail # p[t]
    <3>1. tail' = tail
      BY <1>5, <2>4 DEF HelpTail
    <3>2. Place(chain, p[t]) # Place(chain, tail)
      BY <1>1, <2>1, <2>4, Where
    <3> QED
      BY <1>1, <2>1, <2>2, <3>1, <3>2
  <2> QED
    BY <2>3, <2>4
<1> QED
  BY <1>1, <1>4, <1>5

\* What a step does to where a thread is and to its copy of tail or head.
LEMMA ThreadMoves ==
  ASSUME IInv, [Next]_vars, NEW t \in Threads
  PROVE  \/ Step(t)
         \/ pc[t] = "idle" /\ pc'[t] \in {"idle", "enq_load", "deq_load"}
         \/ pc'[t] = pc[t] /\ p'[t] = p[t]
<1>1. ASSUME NEW s \in Threads, CallEnqueue(s) \/ CallDequeue(s) \/ Step(s), s # t
      PROVE  pc'[t] = pc[t] /\ p'[t] = p[t]
  BY <1>1 DEF IInv, TypeOK, CallEnqueue, CallDequeue, Step, EnqueueStep, DequeueStep, LoadTail,
     Link, LinkFails, LoadTailNext, HelpTail, SwingTail, LoadHead, FindEmpty, FindNonEmpty,
     LoadHeadNext, MoveHead, MoveHeadFails, TakeValue, DropOldDummy, Return, Goto, locals
<1>2. CallEnqueue(t) \/ CallDequeue(t) => pc[t] = "idle" /\ pc'[t] \in {"enq_load", "deq_load"}
  BY DEF IInv, TypeOK, CallEnqueue, CallDequeue, Goto
<1>3. BeginDrop \/ DropNode \/ EndDrop \/ Gone \/ UNCHANGED vars => pc'[t] = pc[t] /\ p'[t] = p[t]
  BY DEF BeginDrop, DropNode, EndDrop, Gone, locals, vars
<1> QED
  BY <1>1, <1>2, <1>3 DEF Next

\* Every step leaves every copy behind tail, since none takes tail back.
LEMMA NextKeepsCopyInv == IInv /\ CopyInv /\ [Next]_vars => CopyInv'
<1> SUFFICES ASSUME IInv, CopyInv, [Next]_vars, NEW t \in Threads,
                    pc'[t] \in {"enq_link", "enq_next", "enq_help"}
             PROVE  Place(chain', p'[t]) <= Place(chain', tail')
  BY DEF CopyInv, CopyOK
<1>1. CASE LoadTail(t)
  <2>1. p'[t] = tail /\ tail' = tail /\ chain' = chain
    BY <1>1 DEF LoadTail, shared, history, IInv, TypeOK
  <2>2. Place(chain, tail) \in Nat
    BY Where DEF IInv, TailInv
  <2> QED
    BY <2>1, <2>2
<1>2. CASE pc[t] \in {"enq_link", "enq_next", "enq_help"} /\ p'[t] = p[t]
  <2>1. p[t] \in Linked /\ Place(chain, p[t]) <= Place(chain, tail)
    BY <1>2 DEF IInv, EnqueueInv, EnqueueOK, EnqueuePcs, CopyInv, CopyOK
  <2>2. Place(chain, tail) <= Place(chain', tail') /\ Place(chain', p[t]) = Place(chain, p[t])
    BY <2>1, TailAdvances, PlacesStay
  <2>3. Place(chain, p[t]) \in Nat /\ Place(chain, tail) \in Nat /\ Place(chain', tail') \in Nat
    BY <2>1, TailAdvances, PlaceInNewList, Where
  <2> QED
    BY <1>2, <2>1, <2>2, <2>3
<1>3. Step(t) => LoadTail(t) \/ (pc[t] \in {"enq_link", "enq_next", "enq_help"} /\ p'[t] = p[t])
  BY DEF IInv, TypeOK, Step, EnqueueStep, DequeueStep, LoadTail,
     Link, LinkFails, LoadTailNext, HelpTail, SwingTail, LoadHead, FindEmpty, FindNonEmpty,
     LoadHeadNext, MoveHead, MoveHeadFails, TakeValue, DropOldDummy, Return, Goto, locals
<1> QED
  BY <1>1, <1>2, <1>3, ThreadMoves

\* The places of the two loops.
Looping == {"enq_load", "enq_link", "enq_next", "enq_help",
            "deq_load", "deq_empty", "deq_next", "deq_head"}

\* How far a thread in a loop is from the end of its call.
LEMMA InLoop ==
  ASSUME IsFiniteSet(Nodes), IInv, NEW t \in Threads, pc[t] \in Looping
  PROVE  /\ Reached(t) \in 1..Last /\ Turn(t) \in 2..5
         /\ Distance(t) = 5 * (Cardinality(Nodes) - Reached(t)) + Turn(t)
         /\ Distance(t) \in 2..(5 * Cardinality(Nodes))
<1>1. Reached(t) \in 1..Last
  <2>1. CASE pc[t] = "enq_load"
    BY <2>1, Where DEF Reached, IInv, TailInv
  <2>2. CASE pc[t] = "deq_load"
    BY <2>2, Where DEF Reached
  <2>3. CASE pc[t] \in {"enq_link", "enq_next", "enq_help"}
    <3>1. p[t] \in Linked
      BY <2>3 DEF IInv, EnqueueInv, EnqueueOK, EnqueuePcs
    <3> QED
      BY <2>3, <3>1, Where DEF Reached
  <2>4. CASE pc[t] \in {"deq_empty", "deq_next", "deq_head"}
    <3>1. PICK i \in 1..(popped + 1) : p[t] = chain[i]
      BY <2>4 DEF IInv, DequeueInv, DequeueOK
    <3>2. i \in 1..Last /\ Place(chain, p[t]) = i
      BY <3>1, Where
    <3> QED
      BY <2>4, <3>2 DEF Reached
  <2> QED
    BY <2>1, <2>2, <2>3, <2>4 DEF Looping
<1>2. Turn(t) \in 2..5
  BY DEF Turn
<1>3. Distance(t) = 5 * (Cardinality(Nodes) - Reached(t)) + Turn(t)
  BY DEF Distance, Looping
<1> QED
  BY <1>1, <1>2, <1>3, Where, ListFitsHeap

\* Five steps for each node are enough from anywhere.
LEMMA DistanceIsBounded ==
  ASSUME IsFiniteSet(Nodes), IInv
  PROVE  \A t \in Threads : Distance(t) \in 0..(5 * Cardinality(Nodes))
<1> SUFFICES ASSUME NEW t \in Threads PROVE Distance(t) \in 0..(5 * Cardinality(Nodes))
  OBVIOUS
<1>1. Cardinality(Nodes) \in Nat /\ Cardinality(Nodes) >= 1
  BY ListFitsHeap, Where
<1>2. CASE pc[t] \in Looping
  <2>1. Distance(t) \in 2..(5 * Cardinality(Nodes))
    BY <1>2, InLoop
  <2> QED
    BY <1>1, <2>1
<1>3. CASE pc[t] \notin Looping
  <2>1. pc[t] \in {"idle", "return", "enq_swing", "deq_drop", "deq_take"}
    BY <1>3 DEF IInv, TypeOK, EnqueuePcs, DequeuePcs, Looping
  <2> QED
    BY <1>1, <2>1 DEF Distance
<1> QED
  BY <1>2, <1>3

\* A thread's own step shortens its way.
LEMMA OwnStep ==
  ASSUME IsFiniteSet(Nodes), IInv, CopyInv, [Next]_vars, NEW t \in Threads, Step(t)
  PROVE  Distance(t)' < Distance(t)
<1> DEFINE N == Cardinality(Nodes)
<1>1. N \in Nat /\ Last \in Nat /\ Last <= N
  BY ListFitsHeap, Where
<1>2. \A x \in Linked : Place(chain, x) \in 1..Last /\ Place(chain', x) = Place(chain, x)
  BY Where, PlacesStay
<1> HIDE DEF N
<1>3. CASE LoadTail(t)
  <2>1. pc[t] = "enq_load" /\ pc'[t] = "enq_link" /\ p'[t] = tail /\ chain' = chain
    BY <1>3 DEF LoadTail, Goto, history, IInv, TypeOK
  <2>2. Place(chain, tail) \in 1..Last
    BY <1>2 DEF IInv, TailInv
  <2>3. Distance(t) = 5 * (N - Place(chain, tail)) + 5
        /\ Distance(t)' = 5 * (N - Place(chain, tail)) + 4
    BY <2>1 DEF Distance, Reached, Turn, N
  <2> QED
    BY <1>1, <2>2, <2>3
<1>4. CASE Link(t)
  <2>1. pc[t] = "enq_link" /\ pc'[t] = "enq_swing"
    BY <1>4 DEF Link, Goto, IInv, TypeOK
  <2>2. Reached(t) \in 1..Last /\ Distance(t) = 5 * (N - Reached(t)) + 4
    BY <2>1, InLoop DEF Looping, Turn, N
  <2>3. Distance(t)' = 2
    BY <2>1 DEF Distance
  <2> QED
    BY <1>1, <2>2, <2>3
<1>5. CASE LinkFails(t) \/ LoadTailNext(t) \/ FindNonEmpty(t) \/ LoadHeadNext(t)
  <2>1. /\ p'[t] = p[t] /\ chain' = chain /\ Place(chain, p[t]) \in 1..Last
        /\ \/ pc[t] = "enq_link" /\ pc'[t] = "enq_next"
           \/ pc[t] = "enq_next" /\ pc'[t] = "enq_help"
           \/ pc[t] = "deq_empty" /\ pc'[t] = "deq_next"
           \/ pc[t] = "deq_next" /\ pc'[t] = "deq_head"
    <3>1. /\ p'[t] = p[t] /\ chain' = chain
          /\ \/ pc[t] = "enq_link" /\ pc'[t] = "enq_next"
             \/ pc[t] = "enq_next" /\ pc'[t] = "enq_help"
             \/ pc[t] = "deq_empty" /\ pc'[t] = "deq_next"
             \/ pc[t] = "deq_next" /\ pc'[t] = "deq_head"
      BY <1>5 DEF LinkFails, LoadTailNext, FindNonEmpty, LoadHeadNext, Goto, history, locals,
         IInv, TypeOK
    <3>2. Reached(t) \in 1..Last /\ Reached(t) = Place(chain, p[t])
      BY <3>1, InLoop DEF Looping, Reached
    <3> QED
      BY <3>1, <3>2
  <2>2. /\ Distance(t) = 5 * (N - Place(chain, p[t])) + Turn(t)
        /\ Distance(t)' = 5 * (N - Place(chain, p[t])) + Turn(t)'
    BY <2>1 DEF Distance, Reached, N
  <2>3. Turn(t) \in 2..5 /\ Turn(t)' = Turn(t) - 1
    BY <2>1 DEF Turn
  <2> QED
    BY <1>1, <2>1, <2>2, <2>3
<1>6. CASE HelpTail(t)
  <2>1. pc[t] = "enq_help" /\ pc'[t] = "enq_load" /\ p[t] \in Linked
    BY <1>6 DEF HelpTail, Goto, IInv, TypeOK, EnqueueInv, EnqueueOK, EnqueuePcs
  <2>2. Place(chain, p[t]) \in 1..Last /\ Place(chain, p[t]) < Place(chain', tail')
    BY <1>2, <1>6, <2>1, TailAdvances DEF CopyInv
  <2>3. Place(chain', tail') \in Nat
    <3>1. chain' = chain /\ tail' \in Linked
      <4>1. tail' = tail \/ (next[tail] # Null /\ tail' = next[tail])
        BY <1>6, TailMoves
      <4> QED
        BY <1>6, <4>1, Successors DEF HelpTail, history, IInv, TailInv
    <3> QED
      BY <1>2, <3>1
  <2>4. Distance(t) = 5 * (N - Place(chain, p[t])) + 2
        /\ Distance(t)' = 5 * (N - Place(chain', tail')) + 5
    BY <2>1 DEF Distance, Reached, Turn, N
  <2> QED
    BY <1>1, <2>2, <2>3, <2>4
<1>7. CASE LoadHead(t)
  <2>1. pc[t] = "deq_load" /\ pc'[t] = "deq_empty" /\ p'[t] = chain[popped + 1] /\ chain' = chain
    BY <1>7 DEF LoadHead, Goto, history, IInv, TypeOK, ListInv
  <2>2. popped + 1 \in 1..Last /\ Place(chain, chain[popped + 1]) = popped + 1
    BY Where
  <2>3. Distance(t) = 5 * (N - (popped + 1)) + 5 /\ Distance(t)' = 5 * (N - (popped + 1)) + 4
    BY <2>1, <2>2 DEF Distance, Reached, Turn, N
  <2> QED
    BY <1>1, <2>2, <2>3
<1>8. CASE MoveHead(t)
  <2>1. pc[t] = "deq_head" /\ pc'[t] = "deq_take"
    BY <1>8 DEF MoveHead, Goto, IInv, TypeOK
  <2>2. popped + 1 \in 1..(Last - 1) /\ p[t] = chain[popped + 1]
    BY <1>8, MoveHeadEffect
  <2>3. Place(chain, p[t]) = popped + 1
    <3>1. popped + 1 \in 1..Last
      BY <1>1, <2>2
    <3>2. \A i \in 1..Last : Place(chain, chain[i]) = i
      BY Where
    <3> QED
      BY <2>2, <3>1, <3>2
  <2>4. Distance(t) = 5 * (N - (popped + 1)) + 2 /\ Distance(t)' = 3
    BY <2>1, <2>3 DEF Distance, Reached, Turn, N
  <2> QED
    BY <1>1, <2>2, <2>4
<1>9. CASE MoveHeadFails(t)
  <2>1. pc[t] = "deq_head" /\ pc'[t] = "deq_load" /\ head # p[t] /\ popped' = popped
    BY <1>9 DEF MoveHeadFails, Goto, history, IInv, TypeOK
  <2>2. PICK i \in 1..(popped + 1) : p[t] = chain[i]
    BY <2>1 DEF IInv, DequeueInv, DequeueOK
  <2>3. i \in 1..Last /\ Place(chain, p[t]) = i /\ i # popped + 1 /\ popped + 1 \in 1..Last
    BY <2>1, <2>2, Where DEF IInv, ListInv
  <2>4. Distance(t) = 5 * (N - i) + 2 /\ Distance(t)' = 5 * (N - (popped + 1)) + 5
    BY <2>1, <2>3 DEF Distance, Reached, Turn, N
  <2>5. popped \in Nat /\ i \in Nat /\ i + 1 <= popped + 1
    BY <2>2, <2>3, Where
  <2> QED
    BY <1>1, <2>4, <2>5
<1>10. CASE FindEmpty(t)
  <2>1. pc[t] = "deq_empty" /\ pc'[t] = "return"
    BY <1>10 DEF FindEmpty, Goto, IInv, TypeOK
  <2>2. Distance(t) \in Int /\ Distance(t) >= 2 /\ Distance(t)' = 1
    BY <1>1, <2>1, InLoop DEF Looping, Distance, N
  <2> QED
    BY <2>2
<1>11. CASE SwingTail(t) \/ TakeValue(t) \/ DropOldDummy(t) \/ Return(t)
  <2>1. \/ pc[t] = "enq_swing" /\ pc'[t] = "return"
        \/ pc[t] = "deq_take" /\ pc'[t] = "deq_drop"
        \/ pc[t] = "deq_drop" /\ pc'[t] = "return"
        \/ pc[t] = "return" /\ pc'[t] = "idle"
    BY <1>11 DEF SwingTail, TakeValue, DropOldDummy, Return, Goto, IInv, TypeOK
  <2> QED
    BY <2>1 DEF Distance
<1> QED
  BY <1>3, <1>4, <1>5, <1>6, <1>7, <1>8, <1>9, <1>10, <1>11 DEF Step, EnqueueStep, DequeueStep

\* No other thread's step lengthens it.
LEMMA OthersStep ==
  ASSUME IsFiniteSet(Nodes), IInv, [Next]_vars,
         NEW t \in Threads, pc'[t] = pc[t], p'[t] = p[t]
  PROVE  Distance(t)' <= Distance(t)
<1> DEFINE N == Cardinality(Nodes)
<1>1. N \in Nat /\ Last \in Nat /\ Last <= N /\ popped \in Nat
  BY ListFitsHeap, Where
<1> HIDE DEF N
<1>2. CASE pc[t] \in Looping
  <2>1. Reached(t) \in Nat /\ Reached(t)' \in Nat /\ Reached(t) <= Reached(t)'
    <3>0. Reached(t) \in Nat
      BY <1>1, <1>2, InLoop
    <3>1. CASE pc[t] = "enq_load"
      <4>1. Reached(t) = Place(chain, tail) /\ Reached(t)' = Place(chain', tail')
        BY <3>1 DEF Reached
      <4>2. Place(chain', tail') \in Nat /\ Place(chain, tail) <= Place(chain', tail')
        BY TailAdvances, PlacesStay, PlaceInNewList
      <4> QED
        BY <3>0, <4>1, <4>2
    <3>2. CASE pc[t] = "deq_load"
      <4>1. Reached(t) = popped + 1 /\ Reached(t)' = popped' + 1
        BY <3>2 DEF Reached
      <4> QED
        BY <1>1, <4>1, HeadAdvances
    <3>3. CASE pc[t] \in Looping \ {"enq_load", "deq_load"}
      <4>1. Reached(t) = Place(chain, p[t]) /\ Reached(t)' = Place(chain', p[t])
        BY <3>3 DEF Reached, Looping
      <4>2. p[t] \in Linked
        <5>1. CASE pc[t] \in {"enq_link", "enq_next", "enq_help"}
          BY <5>1 DEF IInv, EnqueueInv, EnqueueOK, EnqueuePcs
        <5>2. CASE pc[t] \in {"deq_empty", "deq_next", "deq_head"}
          <6>1. PICK i \in 1..(popped + 1) : p[t] = chain[i]
            BY <5>2 DEF IInv, DequeueInv, DequeueOK
          <6>2. i \in 1..Last
            BY <6>1, Where
          <6> QED
            BY <6>1, <6>2, Where, LenProperties DEF Linked, Last
        <5> QED
          BY <3>3, <5>1, <5>2 DEF Looping
      <4> QED
        BY <3>0, <4>1, <4>2, PlacesStay
    <3> QED
      BY <1>2, <3>1, <3>2, <3>3
  <2>2. Turn(t)' = Turn(t) /\ Turn(t) \in Nat
    BY DEF Turn
  <2>3. /\ Distance(t) = 5 * (N - Reached(t)) + Turn(t)
        /\ Distance(t)' = 5 * (N - Reached(t)') + Turn(t)'
    BY <1>2 DEF Distance, Looping, N
  <2> QED
    BY <1>1, <2>1, <2>2, <2>3
<1>3. CASE pc[t] \notin Looping
  <2>1. pc[t] \in {"idle", "return", "enq_swing", "deq_drop", "deq_take"}
    BY <1>3 DEF IInv, TypeOK, EnqueuePcs, DequeuePcs, Looping
  <2> QED
    BY <2>1 DEF Distance
<1> QED
  BY <1>2, <1>3

\* For a finite heap: no call takes more than five steps of its own thread for each
\* node, counting the turns that fail, and no step of another thread puts its end off;
\* so nobody who stops, wherever it is, keeps anybody else from returning
\* (lock_free_queue.rs:61-85 and 89-115).
THEOREM CallsAreBounded ==
  ASSUME IsFiniteSet(Nodes)
  PROVE  Spec => /\ [](\A t \in Threads : Distance(t) \in 0..(5 * Cardinality(Nodes)))
                 /\ [][\A t \in Threads :
                         IF Step(t) THEN Distance(t)' < Distance(t)
                         ELSE pc[t] # "idle" => Distance(t)' <= Distance(t)]_vars
<1> DEFINE Bounded == \A t \in Threads : Distance(t) \in 0..(5 * Cardinality(Nodes))
           Shorter == \A t \in Threads :
                        IF Step(t) THEN Distance(t)' < Distance(t)
                        ELSE pc[t] # "idle" => Distance(t)' <= Distance(t)
<1>1. Init => CopyInv
  BY DEF Init, CopyInv, CopyOK
<1>2. IInv /\ CopyInv /\ [Next]_vars => CopyInv'
  BY NextKeepsCopyInv
<1>3. IInv => Bounded
  BY DistanceIsBounded
<1>4. IInv /\ CopyInv /\ [Next]_vars => [Shorter]_vars
  <2> SUFFICES ASSUME IInv, CopyInv, Next, NEW t \in Threads
               PROVE  IF Step(t) THEN Distance(t)' < Distance(t)
                      ELSE pc[t] # "idle" => Distance(t)' <= Distance(t)
    BY DEF Shorter
  <2>1. Step(t) => Distance(t)' < Distance(t)
    BY OwnStep
  <2>2. pc[t] # "idle" /\ ~Step(t) => Distance(t)' <= Distance(t)
    BY ThreadMoves, OthersStep
  <2> QED
    BY <2>1, <2>2
<1> HIDE DEF Bounded, Shorter
<1>5. Spec => []Bounded /\ [][Shorter]_vars
  BY <1>1, <1>2, <1>3, <1>4, Invariance, PTL DEF Spec
<1> QED
  BY <1>5 DEF Bounded, Shorter
=============================================================================

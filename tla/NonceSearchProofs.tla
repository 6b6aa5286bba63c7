------------------------- MODULE NonceSearchProofs --------------------------
(***************************************************************************)
(* The invariant of NonceSearch for any number of threads and any set of   *)
(* accepted nonces: the classes the threads search, and how near they are  *)
(* to what they look for; and the padding, for data of any length.         *)
(***************************************************************************)
EXTENDS NonceSearch, SequenceTheorems, TLAPS

\* Division with remainder, for any divisor.
LEMMA DivMod == ASSUME NEW a \in Nat, NEW w \in Nat \ {0}
  PROVE /\ a \div w \in Nat /\ a % w \in 0..(w - 1)
        /\ a = w * (a \div w) + (a % w)
 BY SMTT(30)

\* A number below the divisor is its own remainder.
LEMMA Small == ASSUME NEW w \in Nat \ {0}, NEW i \in 0..(w-1) PROVE i % w = i
 BY SMTT(30)

\* A positive multiple of the divisor.
LEMMA Mul == ASSUME NEW w \in Nat \ {0}, NEW d \in Nat \ {0} PROVE w * d >= w
 BY SMTT(30)
\* The difference of two products.
LEMMA Dist == ASSUME NEW w \in Nat \ {0}, NEW d \in Int, NEW e \in Int PROVE w * d - w * e = w * (d - e) /\ w * d \in Int
 OBVIOUS

\* Two nonces of one class are a multiple of the number of threads apart.
LEMMA Gap == ASSUME NEW w \in Nat \ {0}, NEW a \in Nat, NEW b \in Nat, a % w = b % w, a > b PROVE a >= b + w
<1> DEFINE qa == a \div w  qb == b \div w  ra == a % w
<1>1. a = w * qa + ra /\ qa \in Int /\ ra \in Int
  BY DivMod
<1>2. b = w * qb + ra /\ qb \in Int
  BY DivMod
<1> HIDE DEF qa, qb, ra
<1>3. a - b = w * (qa - qb)
  BY <1>1, <1>2, Dist
<1>4. qa - qb >= 1
  <2> SUFFICES ASSUME qa - qb <= 0 PROVE FALSE
    BY <1>1, <1>2
  <2>1. w * (qa - qb) <= 0
    BY <1>1, <1>2
  <2> QED
    BY <1>3, <2>1
<1>5. w * (qa - qb) >= w
  BY <1>1, <1>2, <1>4, Mul
<1> QED
  BY <1>3, <1>5

\* The step of a thread stays in its class.
LEMMA Shift == ASSUME NEW w \in Nat \ {0}, NEW a \in Nat PROVE (a + w) % w = a % w
<1> DEFINE q == a \div w  r == a % w  p == (a + w) \div w  s == (a + w) % w
<1>1. a = w * q + r /\ q \in Int /\ r \in 0..(w - 1)
  BY DivMod
<1>2. a + w = w * p + s /\ p \in Int /\ s \in 0..(w - 1)
  <2>1. a + w \in Nat
    OBVIOUS
  <2> DEFINE c == a + w
  <2>2. c \in Nat
    BY <2>1
  <2> HIDE DEF c
  <2>3. c = w * (c \div w) + (c % w) /\ c \div w \in Nat /\ c % w \in 0..(w - 1)
    BY <2>2, DivMod
  <2> QED
    BY <2>3 DEF c
<1> HIDE DEF q, r, p, s
<1>3. w * (p - q) = w + r - s
  BY <1>1, <1>2, Dist
<1>4. p - q = 1
  <2>1. ~(p - q <= 0)
    <3> SUFFICES ASSUME p - q <= 0 PROVE FALSE
      OBVIOUS
    <3>1. w * (p - q) <= 0
      BY <1>1, <1>2
    <3> QED
      BY <1>1, <1>2, <1>3, <3>1
  <2>2. ~(p - q >= 2)
    <3> SUFFICES ASSUME p - q >= 2 PROVE FALSE
      OBVIOUS
    <3>1. w * (p - q) >= w * 2
      BY <1>1, <1>2
    <3> QED
      BY <1>1, <1>2, <1>3, <3>1
  <2> QED
    BY <1>1, <1>2, <2>1, <2>2
<1>5. w * (p - q) = w
  BY <1>4
<1>6. s = r
  BY <1>1, <1>2, <1>3, <1>5
<1> QED
  BY <1>6 DEF s, r

-----------------------------------------------------------------------------
\* A thread stays in its class, and has passed over no nonce that is accepted.
ClassInv == \A i \in Threads :
  /\ src[i] % Workers = i /\ cnt[i] % Workers = i
  /\ pc[i] = "search" => \A n \in good : n % Workers = i =>
       n >= src[i] /\ (n > src[i] => n >= cnt[i])

\* What is sent and not received is the least of its class.
SentInv == \A j \in 1..Len(channel) :
  channel[j] \in good /\ \A n \in good : n % Workers = channel[j] % Workers => channel[j] <= n

IInv == TypeOK /\ good \subseteq Nonces /\ ClassInv /\ SentInv /\ LeastOfItsClass

\* Threads are nonces too: their numbers are where they begin.
LEMMA Numbers ==
  /\ Workers \in Nat \ {0} /\ MaxNonce \in Nat /\ MaxNonce >= Workers
  /\ Threads \subseteq Nonces /\ None \notin Nonces /\ None \notin Threads
  /\ \A i \in Threads : i \in Nat /\ i \in 0..(Workers - 1)
  /\ \A n \in Nonces : n \in Nat /\ n <= MaxNonce
BY SearchBounds, NoneIsNoNonce DEF Threads, Nonces

\* Each thread begins with the least number of its class.
LEMMA InitIInv == Init => IInv
<1> SUFFICES ASSUME Init PROVE IInv
  OBVIOUS
<1>1. TypeOK
  <2>1. <<>> \in Seq(Nonces)
    BY EmptySeq
  <2>2. \A i \in Threads : i \in Nonces /\ i \in 0..(MaxNonce + Workers)
    BY Numbers
  <2> QED
    BY <2>1, <2>2, Numbers DEF Init, TypeOK
<1>2. good \subseteq Nonces
  BY DEF Init
<1>3. ClassInv
  <2>1. \A i \in Threads : i % Workers = i
    BY Numbers, Small
  <2>2. ASSUME NEW i \in Threads, NEW n \in good, n % Workers = i PROVE n >= i
    <3>1. n \in Nat /\ i \in Nat /\ Workers \in Nat \ {0} /\ i % Workers = i /\ i < Workers
      BY <1>2, <2>1, Numbers
    <3>2. n < i => i >= n + Workers
      BY <2>2, <3>1, Gap
    <3> QED
      BY <3>1, <3>2
  <2> QED
    BY <2>1, <2>2 DEF Init, ClassInv
<1>4. SentInv
  <2>1. Len(channel) = 0
    BY EmptySeq DEF Init
  <2> QED
    BY <2>1 DEF SentInv
<1>5. LeastOfItsClass
  BY DEF Init, LeastOfItsClass
<1> QED
  BY <1>1, <1>2, <1>3, <1>4, <1>5 DEF IInv

\* One turn of a thread's loop (main.rs:172-177).
LEMMA SearchKeepsIInv == ASSUME IInv, NEW i \in Threads, Search(i) PROVE IInv'
<1> USE DEF IInv
<1>1. /\ main # "exit" /\ pc[i] = "search"
      /\ UNCHANGED <<good, holder, poisoned, channel, main, target>>
  BY DEF Search, Runs
<1>2. CASE src[i] \in good
  <2>1. pc' = [pc EXCEPT ![i] = "lock"] /\ cnt' = cnt /\ src' = src
    BY <1>2 DEF Search
  <2>2. pc'[i] = "lock" /\ \A j \in Threads \ {i} : pc'[j] = pc[j]
    BY <2>1 DEF TypeOK
  <2>3. TypeOK'
    BY <1>1, <2>1, <2>2 DEF TypeOK
  <2>4. ClassInv' /\ SentInv' /\ good' \subseteq Nonces
    BY <1>1, <2>1, <2>2 DEF ClassInv, SentInv
  <2>5. LeastOfItsClass'
    BY <1>1, <1>2, <2>1, <2>2 DEF LeastOfItsClass, ClassInv
  <2> QED
    BY <2>3, <2>4, <2>5
<1>3. CASE src[i] \notin good
  <2>1. /\ cnt[i] <= MaxNonce /\ pc' = pc /\ src' = [src EXCEPT ![i] = cnt[i]]
        /\ cnt' = [cnt EXCEPT ![i] = cnt[i] + Workers]
    BY <1>3 DEF Search
  <2>2. cnt[i] \in Nat /\ cnt[i] \in Nonces /\ cnt[i] + Workers \in 0..(MaxNonce + Workers)
    BY <2>1, Numbers DEF TypeOK, Nonces
  <2>3. /\ src'[i] = cnt[i] /\ cnt'[i] = cnt[i] + Workers
        /\ \A j \in Threads \ {i} : src'[j] = src[j] /\ cnt'[j] = cnt[j]
    BY <2>1 DEF TypeOK
  <2>4. TypeOK'
    BY <1>1, <2>1, <2>2 DEF TypeOK
  <2>5. cnt'[i] % Workers = i /\ src'[i] % Workers = i
    BY <2>2, <2>3, Numbers, Shift DEF ClassInv
  <2>6. ASSUME NEW n \in good, n % Workers = i
        PROVE  n >= cnt[i] /\ (n > cnt[i] => n >= cnt[i] + Workers)
    <3>1. n \in Nat /\ src[i] \in Nat /\ n # src[i] /\ Workers \in Nat \ {0}
      BY <1>3, Numbers DEF TypeOK
    <3>2. n >= cnt[i]
      BY <1>1, <2>2, <2>6, <3>1 DEF ClassInv
    <3>3. n % Workers = cnt[i] % Workers
      BY <2>6 DEF ClassInv
    <3> QED
      BY <2>2, <3>1, <3>2, <3>3, Gap
  <2>7. ClassInv'
    BY <1>1, <2>1, <2>3, <2>5, <2>6 DEF ClassInv
  <2>8. SentInv' /\ good' \subseteq Nonces
    BY <1>1 DEF SentInv
  <2>9. LeastOfItsClass'
    BY <1>1, <2>1, <2>3 DEF LeastOfItsClass
  <2> QED
    BY <2>4, <2>7, <2>8, <2>9
<1> QED
  BY <1>2, <1>3

\* The mutex around the sender (main.rs:179).
LEMMA LockKeepsIInv == ASSUME IInv, NEW i \in Threads, Lock(i) PROVE IInv'
<1> USE DEF IInv
<1>1. /\ main # "exit" /\ pc[i] = "lock" /\ holder = None
      /\ UNCHANGED <<good, cnt, src, poisoned, channel, main, target>>
      /\ \/ poisoned /\ pc' = [pc EXCEPT ![i] = "panicked"] /\ holder' = None
         \/ ~poisoned /\ pc' = [pc EXCEPT ![i] = "send"] /\ holder' = i
  BY DEF Lock, Runs
<1>2. pc'[i] \in {"panicked", "send"} /\ \A j \in Threads \ {i} : pc'[j] = pc[j]
  BY <1>1 DEF TypeOK
<1>3. TypeOK'
  BY <1>1, <1>2, Numbers DEF TypeOK
<1>4. ClassInv' /\ SentInv' /\ good' \subseteq Nonces
  BY <1>1, <1>2 DEF ClassInv, SentInv
<1>5. LeastOfItsClass'
  BY <1>1, <1>2 DEF LeastOfItsClass
<1> QED
  BY <1>3, <1>4, <1>5

\* The send, with or without a receiver (main.rs:179).
LEMMA SendKeepsIInv == ASSUME IInv, NEW i \in Threads, Send(i) PROVE IInv'
<1> USE DEF IInv
<1>1. /\ main # "exit" /\ pc[i] = "send" /\ holder' = None /\ holder = i
      /\ UNCHANGED <<good, cnt, src, main, target>>
      /\ \/ main = "return" /\ pc' = [pc EXCEPT ![i] = "panicked"] /\ poisoned' = TRUE
            /\ channel' = channel
         \/ main # "return" /\ pc' = [pc EXCEPT ![i] = "done"] /\ poisoned' = poisoned
            /\ channel' = Append(channel, src[i])
  BY DEF Send, Runs, TypeOK
<1>2. pc'[i] \in {"panicked", "done"} /\ \A j \in Threads \ {i} : pc'[j] = pc[j] /\ pc[j] # "send"
  BY <1>1 DEF TypeOK
<1>3. src[i] \in Nonces /\ channel \in Seq(Nonces)
  BY DEF TypeOK
<1>4. Append(channel, src[i]) \in Seq(Nonces) /\ Len(channel) \in Nat
      /\ Len(Append(channel, src[i])) = Len(channel) + 1
      /\ \A j \in 1..Len(channel) : Append(channel, src[i])[j] = channel[j]
      /\ Append(channel, src[i])[Len(channel) + 1] = src[i]
  BY <1>3, AppendProperties, LenProperties
<1>5. TypeOK'
  <2>1. channel' \in Seq(Nonces) /\ pc' \in [Threads -> {"search", "lock", "send", "done", "panicked"}]
        /\ poisoned' \in BOOLEAN
    BY <1>1, <1>4 DEF TypeOK
  <2>2. \A j \in Threads : pc'[j] = "send" <=> holder' = j
    BY <1>1, <1>2, Numbers
  <2>3. (poisoned' \/ \E j \in Threads : pc'[j] = "panicked") => main' \in {"return", "exit"}
    BY <1>1, <1>2 DEF TypeOK
  <2> QED
    BY <1>1, <2>1, <2>2, <2>3 DEF TypeOK
<1>6. ClassInv' /\ good' \subseteq Nonces
  BY <1>1, <1>2 DEF ClassInv
<1>7. SentInv'
  <2>1. CASE channel' = channel
    BY <1>1, <2>1 DEF SentInv
  <2>2. CASE channel' = Append(channel, src[i])
    <3>1. src[i] \in good /\ \A n \in good : n % Workers = src[i] % Workers => src[i] <= n
      BY <1>1 DEF LeastOfItsClass, ClassInv
    <3>2. \A j \in 1..Len(channel') : j \in 1..Len(channel) \/ j = Len(channel) + 1
      BY <1>4, <2>2
    <3> QED
      BY <1>1, <1>4, <2>2, <3>1, <3>2 DEF SentInv
  <2> QED
    BY <1>1, <2>1, <2>2
<1>8. LeastOfItsClass'
  BY <1>1, <1>2 DEF LeastOfItsClass
<1> QED
  BY <1>5, <1>6, <1>7, <1>8

\* main takes the first of them (main.rs:183), and ends.
LEMMA MainKeepsIInv == IInv /\ (Recv \/ Return \/ Exit) => IInv'
<1> SUFFICES ASSUME IInv, Recv \/ Return \/ Exit PROVE IInv'
  OBVIOUS
<1> USE DEF IInv
<1>1. CASE Recv
  <2>1. /\ channel # <<>> /\ target' = Head(channel) /\ channel' = Tail(channel)
        /\ main = "recv" /\ main' = "print"
        /\ UNCHANGED <<good, cnt, src, pc, holder, poisoned>>
    BY <1>1 DEF Recv
  <2>2. /\ Head(channel) \in Nonces /\ Tail(channel) \in Seq(Nonces)
        /\ Len(Tail(channel)) = Len(channel) - 1 /\ Len(channel) \in Nat \ {0}
        /\ \A j \in 1..(Len(channel) - 1) : Tail(channel)[j] = channel[j + 1]
        /\ Head(channel) = channel[1]
    <3>1. channel \in Seq(Nonces)
      BY DEF TypeOK
    <3> QED
      BY <2>1, <3>1, HeadTailProperties, EmptySeq
  <2>3. TypeOK'
    BY <2>1, <2>2 DEF TypeOK
  <2>4. SentInv'
    <3> SUFFICES ASSUME NEW j \in 1..Len(channel')
                 PROVE  channel'[j] \in good /\ \A n \in good :
                          n % Workers = channel'[j] % Workers => channel'[j] <= n
      BY <2>1 DEF SentInv
    <3>1. j + 1 \in 1..Len(channel) /\ channel'[j] = channel[j + 1]
      BY <2>1, <2>2
    <3> QED
      BY <3>1 DEF SentInv
  <2>5. LeastOfItsClass'
    <3>1. Head(channel) \in good /\ \A n \in good :
            n % Workers = Head(channel) % Workers => Head(channel) <= n
      BY <2>2 DEF SentInv
    <3> QED
      BY <2>1, <3>1 DEF LeastOfItsClass
  <2> QED
    BY <2>1, <2>3, <2>4, <2>5 DEF ClassInv
<1>2. CASE Return \/ Exit
  <2>1. UNCHANGED <<good, cnt, src, pc, holder, poisoned, channel, target>>
        /\ main' \in {"return", "exit"}
    BY <1>2 DEF Return, Exit
  <2>2. TypeOK'
    BY <2>1 DEF TypeOK
  <2> QED
    BY <2>1, <2>2 DEF ClassInv, SentInv, LeastOfItsClass
<1> QED
  BY <1>1, <1>2

-----------------------------------------------------------------------------
\* The invariant holds for any number of threads and any set of accepted nonces.
THEOREM Invariance == Spec => []IInv
<1>1. Init => IInv
  BY InitIInv
<1>2. IInv /\ [Next]_vars => IInv'
  <2> SUFFICES ASSUME IInv, [Next]_vars PROVE IInv'
    OBVIOUS
  <2>1. CASE UNCHANGED vars
    BY <2>1 DEF IInv, TypeOK, ClassInv, SentInv, LeastOfItsClass, vars
  <2>2. ASSUME NEW i \in Threads, Thread(i) PROVE IInv'
    BY <2>2, SearchKeepsIInv, LockKeepsIInv, SendKeepsIInv DEF Thread
  <2>3. CASE Recv \/ Return \/ Exit
    BY <2>3, MainKeepsIInv
  <2> QED
    BY <2>1, <2>2, <2>3 DEF Next, Exited
<1> QED
  BY <1>1, <1>2, PTL DEF Spec

\* Types; a thread panics, on the mutex or on the send, only after main has its result.
THEOREM TypeCorrectness == Spec => []TypeOK
<1>1. IInv => TypeOK
  BY DEF IInv
<1> QED
  BY <1>1, Invariance, PTL

\* What is sent, and what main prints, is the least accepted nonce of its class.
THEOREM LeastIsFound == Spec => []LeastOfItsClass
<1>1. IInv => LeastOfItsClass
  BY DEF IInv
<1> QED
  BY <1>1, Invariance, PTL

-----------------------------------------------------------------------------
(***************************************************************************)
(* Progress.  The guards of the steps of main and of a thread, and how far *)
(* a thread is from its send: an accepted nonce is that many turns away.   *)
(***************************************************************************)
MainReady == (main = "recv" /\ channel # <<>>) \/ main \in {"print", "return"}
ThreadReady(i) == main # "exit" /\
  \/ pc[i] = "search" /\ (src[i] \in good \/ cnt[i] <= MaxNonce)
  \/ pc[i] = "lock" /\ holder = None
  \/ pc[i] = "send"

Distance(n) == LET i == n % Workers IN
  CASE pc[i] = "search" -> (n + Workers - cnt[i]) + 3
    [] pc[i] = "lock" -> 2 [] pc[i] = "send" -> 1 [] OTHER -> 0

MainLeft == CASE main = "recv" -> 3 [] main = "print" -> 2 [] main = "return" -> 1 [] OTHER -> 0

\* There is a nonce to find; what a thread has sent main has received or will; the
\* first nonce of the class is digested twice, and after that cnt is one turn ahead.
Received == channel # <<>> \/ main # "recv"
FindInv ==
  /\ good # {}
  /\ \A i \in Threads : pc[i] \in {"done", "panicked"} => Received
  /\ \A i \in Threads : cnt[i] <= src[i] + Workers

\* They hold in every state.
LEMMA FindInvariance == Spec => []FindInv
<1>1. Init => FindInv
  <2> SUFFICES ASSUME Init PROVE FindInv
    OBVIOUS
  <2>1. good # {} /\ \A i \in Threads : pc[i] = "search"
    BY DEF Init
  <2>2. \A i \in Threads : cnt[i] = i /\ src[i] = i /\ i \in Nat
    BY Numbers DEF Init
  <2>3. Workers \in Nat
    BY Numbers
  <2>4. \A i \in Threads : cnt[i] <= src[i] + Workers
    BY <2>2, <2>3
  <2> QED
    BY <2>1, <2>4 DEF FindInv
<1>2. IInv /\ FindInv /\ [Next]_vars => FindInv'
  <2> SUFFICES ASSUME IInv, FindInv, [Next]_vars PROVE FindInv'
    OBVIOUS
  <2>0. TypeOK
    BY DEF IInv
  <2>1. CASE UNCHANGED vars
    BY <2>1 DEF vars, FindInv, Received
  <2>2. ASSUME NEW i \in Threads, Search(i) PROVE FindInv'
    <3>1. /\ UNCHANGED <<good, channel, main>>
          /\ \A j \in Threads : pc'[j] \in {"done", "panicked"} => pc[j] = pc'[j]
      BY <2>0, <2>2 DEF Search, TypeOK
    <3>2. \A j \in Threads : cnt'[j] <= src'[j] + Workers
      <4>1. CASE cnt' = cnt /\ src' = src
        BY <4>1 DEF FindInv
      <4>2. CASE src' = [src EXCEPT ![i] = cnt[i]] /\ cnt' = [cnt EXCEPT ![i] = @ + Workers]
        <5>1. src'[i] = cnt[i] /\ cnt'[i] = cnt[i] + Workers /\ cnt[i] + Workers \in Int
          BY <2>0, <4>2, Numbers DEF TypeOK
        <5>2. \A j \in Threads \ {i} : src'[j] = src[j] /\ cnt'[j] = cnt[j]
          BY <2>0, <4>2 DEF TypeOK
        <5> QED
          BY <5>1, <5>2 DEF FindInv
      <4> QED
        BY <2>2, <4>1, <4>2 DEF Search
    <3> QED
      BY <3>1, <3>2 DEF FindInv, Received
  <2>3. ASSUME NEW i \in Threads, Lock(i) PROVE FindInv'
    <3>1. /\ UNCHANGED <<good, channel, main, cnt, src>>
          /\ \A j \in Threads \ {i} : pc[j] = pc'[j]
          /\ pc'[i] = "send" \/ poisoned
      BY <2>0, <2>3 DEF Lock, TypeOK
    <3>2. poisoned => Received
      BY <2>0 DEF TypeOK, Received
    <3> QED
      BY <3>1, <3>2 DEF FindInv, Received
  <2>4. ASSUME NEW i \in Threads, Send(i) PROVE FindInv'
    <3>1. UNCHANGED <<good, cnt, src, main>>
      BY <2>4 DEF Send
    <3>2. CASE main = "return"
      BY <3>1, <3>2 DEF FindInv, Received
    <3>3. CASE main # "return"
      <4>1. channel' = Append(channel, src[i]) /\ channel \in Seq(Nonces) /\ src[i] \in Nonces
        BY <2>0, <2>4, <3>3 DEF Send, TypeOK
      <4>2. channel' # <<>>
        BY <4>1, AppendProperties, EmptySeq
      <4> QED
        BY <3>1, <4>2 DEF FindInv, Received
    <3> QED
      BY <3>2, <3>3
  <2>5. CASE Recv \/ Return \/ Exit
    BY <2>5 DEF Recv, Return, Exit, FindInv, Received
  <2> QED
    BY <2>1, <2>2, <2>3, <2>4, <2>5 DEF Next, Thread, Exited
<1> QED
  BY <1>1, <1>2, Invariance, PTL DEF Spec

\* The thread that looks for an accepted nonce n.
LEMMA Seeker ==
  ASSUME IInv, FindInv, NEW n \in good
  PROVE  /\ n \in Nat /\ n <= MaxNonce /\ n % Workers \in Threads
         /\ pc[n % Workers] = "search" =>
              /\ cnt[n % Workers] \in Nat /\ src[n % Workers] \in Nat
              /\ n >= src[n % Workers] /\ cnt[n % Workers] <= n + Workers
              /\ src[n % Workers] \in good \/ cnt[n % Workers] <= n
<1>1. n \in Nat /\ n <= MaxNonce /\ Workers \in Nat \ {0}
  BY Numbers DEF IInv
<1>2. n % Workers \in Threads
  BY <1>1, DivMod DEF Threads
<1> DEFINE i == n % Workers
<1>3. cnt[i] \in Nat /\ src[i] \in Nat
  BY <1>2, Numbers DEF IInv, TypeOK
<1>4. cnt[i] <= src[i] + Workers
  BY <1>2 DEF FindInv
<1>5. pc[i] = "search" => n >= src[i] /\ (n > src[i] => n >= cnt[i])
  BY <1>2 DEF IInv, ClassInv
<1> HIDE DEF i
<1>6. pc[i] = "search" => cnt[i] <= n + Workers /\ (src[i] \in good \/ cnt[i] <= n)
  BY <1>1, <1>3, <1>4, <1>5
<1> QED
  BY <1>1, <1>2, <1>3, <1>5, <1>6 DEF i

\* Until the process ends main or a thread can take a step that leads there, even
\* when every other thread has no nonce to find and goes on for ever: the thread of
\* an accepted nonce searches, waits for a thread that sends, or has sent.
THEOREM SearchNeverStalls ==
  Spec => [](main # "exit" =>
               MainReady \/ \A n \in good : \E i \in Threads :
                              ThreadReady(i) /\ (i = n % Workers \/ holder = i))
<1>1. ASSUME IInv, FindInv, main # "exit", ~MainReady, NEW n \in good
      PROVE  \E i \in Threads : ThreadReady(i) /\ (i = n % Workers \/ holder = i)
  <2> DEFINE i == n % Workers
  <2>1. i \in Threads
    BY <1>1, Seeker
  <2>2. pc[i] \in {"search", "lock", "send"}
    <3>1. main = "recv" /\ channel = <<>>
      BY <1>1 DEF MainReady, IInv, TypeOK
    <3>2. pc[i] \notin {"done", "panicked"}
      BY <1>1, <2>1, <3>1 DEF FindInv, Received
    <3>3. pc \in [Threads -> {"search", "lock", "send", "done", "panicked"}]
      BY <1>1 DEF IInv, TypeOK
    <3> QED
      BY <2>1, <3>2, <3>3
  <2>3. CASE pc[i] = "search"
    <3>1. src[i] \in good \/ cnt[i] <= MaxNonce
      <4>1. n <= MaxNonce /\ n \in Nat /\ cnt[i] \in Nat /\ (src[i] \in good \/ cnt[i] <= n)
        BY <1>1, <2>3, Seeker
      <4>2. MaxNonce \in Nat
        BY Numbers
      <4> QED
        BY <4>1, <4>2
    <3> QED
      BY <1>1, <2>1, <2>3, <3>1 DEF ThreadReady
  <2>4. CASE pc[i] = "lock" /\ holder = None
    BY <1>1, <2>1, <2>4 DEF ThreadReady
  <2>5. CASE holder # None
    <3>1. holder \in Threads /\ pc[holder] = "send"
      BY <1>1, <2>5 DEF IInv, TypeOK
    <3> QED
      BY <1>1, <3>1 DEF ThreadReady
  <2>6. CASE pc[i] = "send"
    BY <1>1, <2>1, <2>6 DEF ThreadReady
  <2> QED
    BY <2>2, <2>3, <2>4, <2>5, <2>6
<1>2. IInv /\ FindInv =>
        (main # "exit" =>
           MainReady \/ \A n \in good : \E i \in Threads :
                          ThreadReady(i) /\ (i = n % Workers \/ holder = i))
  BY <1>1
<1> QED
  BY <1>2, Invariance, FindInvariance, PTL

\* What is left for an accepted nonce to be sent and for main to end: every step of its
\* thread, or of main, spends some of it, and no other step changes it.  When nothing
\* is left for the nonce there is a message.
THEOREM NonceComesNearer ==
  ASSUME NEW n \in Nonces
  PROVE  Spec => /\ [](n \in good => /\ Distance(n) \in 0..(n + Workers + 3)
                                     /\ Distance(n) = 0 => Received)
                 /\ [][(n \in good) => IF Thread(n % Workers) THEN Distance(n)' < Distance(n)
                                       ELSE Distance(n)' = Distance(n)]_vars
                 /\ [][IF Recv \/ Return \/ Exit THEN MainLeft' < MainLeft
                       ELSE MainLeft' = MainLeft]_vars
<1> DEFINE i == n % Workers
           Near == n \in good => /\ Distance(n) \in 0..(n + Workers + 3)
                                 /\ Distance(n) = 0 => Received
           Nearer == n \in good => IF Thread(n % Workers) THEN Distance(n)' < Distance(n)
                                   ELSE Distance(n)' = Distance(n)
           Shorter == IF Recv \/ Return \/ Exit THEN MainLeft' < MainLeft
                      ELSE MainLeft' = MainLeft
<1>0. Workers \in Nat
  BY Numbers
<1>1. IInv /\ FindInv => Near
  <2> SUFFICES ASSUME IInv, FindInv, n \in good
               PROVE  Distance(n) \in 0..(n + Workers + 3) /\ (Distance(n) = 0 => Received)
    OBVIOUS
  <2>1. /\ n \in Nat /\ i \in Threads
        /\ pc[i] = "search" => cnt[i] \in Nat /\ cnt[i] <= n + Workers
    BY Seeker
  <2>2. pc[i] \in {"search", "lock", "send", "done", "panicked"}
    BY <2>1 DEF IInv, TypeOK
  <2>3. pc[i] \in {"done", "panicked"} => Received
    BY <2>1 DEF FindInv
  <2>4. Distance(n) = IF pc[i] = "search" THEN (n + Workers - cnt[i]) + 3
                      ELSE IF pc[i] = "lock" THEN 2 ELSE IF pc[i] = "send" THEN 1 ELSE 0
    BY <2>2 DEF Distance
  <2> HIDE DEF i
  <2> QED
    BY <1>0, <2>1, <2>2, <2>3, <2>4
<1>2. IInv /\ FindInv /\ [Next]_vars => [Nearer]_vars
  <2> SUFFICES ASSUME IInv, FindInv, Next, n \in good
               PROVE  IF Thread(i) THEN Distance(n)' < Distance(n)
                      ELSE Distance(n)' = Distance(n)
    OBVIOUS
  <2>0. TypeOK
    BY DEF IInv
  <2>1. /\ n \in Nat /\ i \in Threads
        /\ pc[i] = "search" => cnt[i] \in Nat /\ cnt[i] <= n + Workers
    BY Seeker
  <2>2. CASE Thread(i)
    <3>1. CASE Search(i)
      <4>1. pc[i] = "search" /\ Distance(n) = (n + Workers - cnt[i]) + 3
        BY <3>1 DEF Search, Runs, Distance
      <4>2. CASE src[i] \in good
        <5>1. pc'[i] = "lock"
          BY <2>0, <2>1, <3>1, <4>2 DEF Search, TypeOK
        <5>2. Distance(n)' = 2
          BY <5>1 DEF Distance
        <5> HIDE DEF i
        <5> QED
          BY <1>0, <2>1, <2>2, <4>1, <5>2
      <4>3. CASE src[i] \notin good
        <5>1. pc'[i] = "search" /\ cnt'[i] = cnt[i] + Workers
          BY <2>0, <2>1, <3>1, <4>1, <4>3 DEF Search, TypeOK
        <5>2. Distance(n)' = (n + Workers - (cnt[i] + Workers)) + 3
          BY <5>1 DEF Distance
        <5>3. Workers > 0
          BY Numbers
        <5> HIDE DEF i
        <5> QED
          BY <1>0, <2>1, <2>2, <4>1, <5>2, <5>3
      <4> QED
        BY <2>2, <4>2, <4>3
    <3>2. CASE Lock(i)
      <4>1. pc[i] = "lock" /\ pc'[i] \in {"panicked", "send"}
        BY <2>0, <2>1, <3>2 DEF Lock, Runs, TypeOK
      <4>2. Distance(n) = 2 /\ Distance(n)' \in {0, 1}
        BY <4>1 DEF Distance
      <4> QED
        BY <2>2, <4>2
    <3>3. CASE Send(i)
      <4>1. pc[i] = "send" /\ pc'[i] \in {"panicked", "done"}
        BY <2>0, <2>1, <3>3 DEF Send, Runs, TypeOK
      <4>2. Distance(n) = 1 /\ Distance(n)' = 0
        BY <4>1 DEF Distance
      <4> QED
        BY <2>2, <4>2
    <3> QED
      BY <2>2, <3>1, <3>2, <3>3 DEF Thread
  <2>3. CASE ~Thread(i)
    <3>1. pc'[i] = pc[i] /\ cnt'[i] = cnt[i]
      <4>1. ASSUME NEW j \in Threads, Thread(j) PROVE pc'[i] = pc[i] /\ cnt'[i] = cnt[i]
        <5>1. j # i
          BY <2>3, <4>1
        <5> QED
          BY <2>0, <2>1, <4>1, <5>1 DEF Thread, Search, Lock, Send, TypeOK
      <4>2. CASE Recv \/ Return \/ Exit \/ Exited
        BY <4>2 DEF Recv, Return, Exit, Exited, vars
      <4> QED
        BY <4>1, <4>2 DEF Next
    <3>2. Distance(n)' = Distance(n)
      BY <3>1 DEF Distance
    <3> QED
      BY <2>3, <3>2
  <2> QED
    BY <2>2, <2>3
<1>3. IInv /\ FindInv /\ [Next]_vars => [Shorter]_vars
  <2> SUFFICES ASSUME Next PROVE Shorter
    OBVIOUS
  <2>1. CASE Recv \/ Return \/ Exit
    BY <2>1 DEF Recv, Return, Exit, MainLeft
  <2>2. CASE ~(Recv \/ Return \/ Exit)
    <3>1. main' = main
      BY <2>2 DEF Next, Thread, Search, Lock, Send, Exited, vars
    <3> QED
      BY <2>2, <3>1 DEF MainLeft
  <2> QED
    BY <2>1, <2>2
<1> QED
  BY <1>1, <1>2, <1>3, Invariance, FindInvariance, PTL DEF Spec

-----------------------------------------------------------------------------
\* The padding, for data of any length.  A sequence of n elements, whatever they are:
HasLen(s, n) == n \in Nat /\ s = [i \in 1..n |-> s[i]]

LEMMA LenIs ==
  ASSUME NEW s, NEW n, HasLen(s, n)
  PROVE  Len(s) = n /\ DOMAIN s = 1..n /\ s \in Seq({s[i] : i \in 1..n})
<1> DEFINE S == {s[i] : i \in 1..n}
<1>1. n \in Nat /\ DOMAIN s = 1..n /\ s \in [1..n -> S]
  BY DEF HasLen
<1> HIDE DEF S
<1>2. s \in Seq(S)
  BY <1>1, SeqDef
<1>3. Len(s) \in Nat /\ DOMAIN s = 1..Len(s)
  BY <1>2, LenProperties
<1>4. Len(s) = n
  BY <1>1, <1>3
<1> QED
  BY <1>1, <1>2, <1>4 DEF S

LEMMA SameElements ==
  ASSUME NEW s, NEW t, NEW n, HasLen(s, n), HasLen(t, n), \A i \in 1..n : s[i] = t[i]
  PROVE  s = t
<1>1. [i \in 1..n |-> s[i]] = [i \in 1..n |-> t[i]]
  OBVIOUS
<1> QED
  BY <1>1 DEF HasLen

IsConcat(u, s, t, a, b) ==
  /\ HasLen(u, a + b)
  /\ \A i \in 1..(a + b) : u[i] = IF i <= a THEN s[i] ELSE t[i - a]

LEMMA ConcatIs ==
  ASSUME NEW s, NEW t, NEW a \in Nat, NEW b \in Nat, HasLen(s, a), HasLen(t, b)
  PROVE  IsConcat(s \o t, s, t, a, b)
<1> DEFINE A == {s[i] : i \in 1..a}
           B == {t[i] : i \in 1..b}
           S == A \cup B
<1>1. a \in Nat /\ b \in Nat /\ Len(s) = a /\ Len(t) = b
  BY LenIs DEF HasLen
<1>2. s \in Seq(S) /\ t \in Seq(S)
  <2>1. s \in Seq(A) /\ t \in Seq(B)
    BY LenIs
  <2>2. A \subseteq S /\ B \subseteq S
    OBVIOUS
  <2> HIDE DEF A, B, S
  <2> QED
    BY <2>1, <2>2, SeqMonotonic
<1> HIDE DEF S
<1>3. /\ s \o t \in Seq(S) /\ Len(s \o t) = a + b
      /\ \A i \in 1..(a + b) : (s \o t)[i] = IF i <= a THEN s[i] ELSE t[i - a]
  BY <1>1, <1>2, ConcatProperties
<1>4. a + b \in Nat /\ s \o t \in [1..(a + b) -> S]
  BY <1>1, <1>3, LenProperties
<1> QED
  BY <1>3, <1>4 DEF HasLen, IsConcat

LEMMA SubSeqIs ==
  ASSUME NEW s, NEW m \in Int, NEW k \in Nat
  PROVE  /\ HasLen(SubSeq(s, m, m + k - 1), k)
         /\ \A i \in 1..k : SubSeq(s, m, m + k - 1)[i] = s[m + i - 1]
<1> DEFINE S == {s[i] : i \in m..(m + k - 1)}
           r == SubSeq(s, m, m + k - 1)
<1>1. m + k - 1 \in Int /\ \A i \in m..(m + k - 1) : s[i] \in S
  OBVIOUS
<1> HIDE DEF S
<1>2. /\ r \in Seq(S)
      /\ Len(r) = IF m <= m + k - 1 THEN (m + k - 1) - m + 1 ELSE 0
      /\ \A i \in 1..((m + k - 1) - m + 1) : r[i] = s[m + i - 1]
  BY <1>1, SubSeqProperties
<1> HIDE DEF r
<1>3. Len(r) = k /\ \A i \in 1..k : r[i] = s[m + i - 1]
  <2>1. (m + k - 1) - m + 1 = k
    OBVIOUS
  <2> QED
    BY <1>2, <2>1
<1>4. r \in [1..k -> S]
  BY <1>2, <1>3, LenProperties
<1> QED
  BY <1>3, <1>4 DEF HasLen, r

\* Where the blocks come from.
LEMMA BlocksAre ==
  ASSUME NEW s, NEW n \in Nat
  PROVE  /\ HasLen(Blocks(s, 1, n), n)
         /\ \A b \in 1..n : /\ HasLen(Blocks(s, 1, n)[b], 64)
                            /\ \A i \in 1..64 : Blocks(s, 1, n)[b][i] = s[64 * (b - 1) + i]
<1>1. HasLen(Blocks(s, 1, n), n)
  BY DEF Blocks, HasLen
<1>2. ASSUME NEW b \in 1..n
      PROVE  /\ HasLen(Blocks(s, 1, n)[b], 64)
             /\ \A i \in 1..64 : Blocks(s, 1, n)[b][i] = s[64 * (b - 1) + i]
  <2> DEFINE m == 1 + 64 * (b - 1)
  <2>1. Blocks(s, 1, n)[b] = SubSeq(s, m, 1 + 64 * b - 1)
    BY DEF Blocks
  <2>2. m \in Int /\ 1 + 64 * b - 1 = m + 64 - 1 /\ \A i \in 1..64 : m + i - 1 = 64 * (b - 1) + i
    OBVIOUS
  <2> HIDE DEF m
  <2>3. Blocks(s, 1, n)[b] = SubSeq(s, m, m + 64 - 1)
    BY <2>1, <2>2
  <2>4. /\ HasLen(SubSeq(s, m, m + 64 - 1), 64)
        /\ \A i \in 1..64 : SubSeq(s, m, m + 64 - 1)[i] = s[m + i - 1]
    BY <2>2, SubSeqIs
  <2> QED
    BY <2>2, <2>3, <2>4
<1> QED
  BY <1>1, <1>2

\* digest leaves 1 to 64 bytes for the last block.
LEMMA BlockNumIs ==
  ASSUME NEW len \in Nat \ {0}
  PROVE  BlockNum(len) \in Nat /\ len - 64 * BlockNum(len) \in 1..64
BY DEF BlockNum

\* How many blocks deal_remain deals with.
LastBlocks(r) == IF r < 56 THEN 1 ELSE 2

\* The number of zeros in the standard.
LEMMA ZerosAre ==
  ASSUME NEW len \in Nat \ {0}, NEW n \in Nat, NEW r \in 1..64, len = 64 * n + r
  PROVE  LET k == CHOOSE k \in 0..63 : (len + 1 + k + 8) % 64 = 0
         IN  k \in 0..63 /\ len + 9 + k = 64 * (n + LastBlocks(r))
<1> DEFINE m == 64 * (n + LastBlocks(r)) - len - 9
           k == CHOOSE k \in 0..63 : (len + 1 + k + 8) % 64 = 0
<1>1. m \in 0..63 /\ (len + 1 + m + 8) % 64 = 0
  BY DEF LastBlocks
<1>2. \A k1, k2 \in 0..63 : (len + 1 + k1 + 8) % 64 = 0 /\ (len + 1 + k2 + 8) % 64 = 0 => k1 = k2
  OBVIOUS
<1>3. k \in 0..63 /\ (len + 1 + k + 8) % 64 = 0
  BY <1>1
<1> HIDE DEF k
<1>4. k = m
  BY <1>1, <1>2, <1>3
<1>5. k \in 0..63 /\ len + 9 + k = 64 * (n + LastBlocks(r))
  BY <1>1, <1>4 DEF LastBlocks
<1> QED
  BY <1>5 DEF k

IsOverwrite(u, s, n, at, t, k) ==
  /\ HasLen(u, n)
  /\ \A i \in 1..n : u[i] = IF i - at \in 1..k THEN t[i - at] ELSE s[i]

LEMMA OverwriteIs ==
  ASSUME NEW s, NEW n \in Nat, HasLen(s, n), NEW at \in Nat, NEW t, NEW k \in Nat, HasLen(t, k)
  PROVE  IsOverwrite(Overwrite(s, at, t), s, n, at, t, k)
<1>1. DOMAIN s = 1..n /\ DOMAIN t = 1..k /\ n \in Nat
  BY LenIs DEF HasLen
<1> QED
  BY <1>1 DEF Overwrite, HasLen, IsOverwrite

\* The last blocks: what is pending, the 0x80, zeros, and the length in 8 bytes.
IsLast(u, pending, r, n, be) ==
  /\ HasLen(u, 64 * n)
  /\ \A i \in 1..(64 * n) : u[i] = IF i <= r THEN pending[i]
                                   ELSE IF i = r + 1 THEN Byte(128)
                                   ELSE IF i <= 64 * n - 8 THEN Byte(0)
                                   ELSE be[i - (64 * n - 8)]

\* The standard's m bytes.
IsFips(u, len, m, be) ==
  /\ HasLen(u, m)
  /\ \A i \in 1..m : u[i] = IF i <= len THEN <<"data", i>>
                            ELSE IF i = len + 1 THEN Byte(128)
                            ELSE IF i <= m - 8 THEN Byte(0)
                            ELSE be[i - (m - 8)]

\* What deal_remain makes of r pending bytes, the first of a block.
LEMMA LastAre ==
  ASSUME NEW pending, HasLen(pending, 64), NEW r \in 1..64, NEW bits,
         \A i \in 1..64 : i > r => pending[i] = Byte(0)
  PROVE  LET n == LastBlocks(r)
             padded == Overwrite(pending \o Zeros(64 * (n - 1)), r, <<Byte(128)>>)
         IN  IsLast(Overwrite(padded, 64 * n - 8, BigEndian(bits)), pending, r, n, BigEndian(bits))
<1> DEFINE n == LastBlocks(r)
           z == Zeros(64 * (n - 1))
           one == <<Byte(128)>>
           be == BigEndian(bits)
           pz == pending \o z
           padded == Overwrite(pz, r, one)
           last == Overwrite(padded, 64 * n - 8, be)
<1>1. n \in {1, 2} /\ 64 * (n - 1) \in Nat /\ 64 * n \in Nat /\ 64 + 64 * (n - 1) = 64 * n
      /\ 64 * n - 8 \in Nat /\ r + 1 <= 64 * n - 8
  BY DEF LastBlocks
<1>2. HasLen(z, 64 * (n - 1)) /\ \A i \in 1..(64 * (n - 1)) : z[i] = Byte(0)
  BY <1>1 DEF Zeros, HasLen
<1>3. HasLen(one, 1) /\ one[1] = Byte(128)
  BY DEF HasLen
<1>4. HasLen(be, 8)
  BY DEF BigEndian, HasLen
<1> HIDE DEF n, z, one, be
<1>5. /\ HasLen(pz, 64 * n)
      /\ \A i \in 1..(64 * n) : pz[i] = IF i <= 64 THEN pending[i] ELSE z[i - 64]
  <2>1. /\ HasLen(pz, 64 + 64 * (n - 1))
        /\ \A i \in 1..(64 + 64 * (n - 1)) : pz[i] = IF i <= 64 THEN pending[i] ELSE z[i - 64]
    <3> DEFINE a == 64
               b == 64 * (n - 1)
    <3>1. a \in Nat /\ b \in Nat /\ HasLen(pending, a) /\ HasLen(z, b)
      BY <1>1, <1>2
    <3> HIDE DEF a, b
    <3>2. IsConcat(pz, pending, z, a, b)
      BY <3>1, ConcatIs
    <3> HIDE DEF pz
    <3> QED
      BY <3>2 DEF a, b, IsConcat
  <2> HIDE DEF pz
  <2> QED
    BY <1>1, <2>1
<1> HIDE DEF pz
<1>6. \A i \in 1..(64 * n) : pz[i] = IF i <= r THEN pending[i] ELSE Byte(0)
  <2> SUFFICES ASSUME NEW i \in 1..(64 * n)
               PROVE  pz[i] = IF i <= r THEN pending[i] ELSE Byte(0)
    OBVIOUS
  <2>1. i \in Int /\ (i <= 64 => i \in 1..64) /\ (~(i <= 64) => i - 64 \in 1..(64 * (n - 1)) /\ ~(i <= r))
    BY <1>1
  <2>2. CASE i <= 64
    BY <1>5, <2>1, <2>2
  <2>3. CASE ~(i <= 64)
    BY <1>2, <1>5, <2>1, <2>3
  <2> QED
    BY <2>2, <2>3
<1>7. /\ HasLen(padded, 64 * n)
      /\ \A i \in 1..(64 * n) : padded[i] = IF i - r \in 1..1 THEN one[i - r] ELSE pz[i]
  <2> DEFINE a == 64 * n
             b == 1
  <2>1. a \in Nat /\ r \in Nat /\ b \in Nat /\ HasLen(pz, a) /\ HasLen(one, b)
    BY <1>1, <1>3, <1>5
  <2> HIDE DEF a, b
  <2>2. IsOverwrite(padded, pz, a, r, one, b)
    BY <2>1, OverwriteIs
  <2> HIDE DEF padded
  <2> QED
    BY <2>2 DEF a, b, IsOverwrite
<1>8. \A i \in 1..(64 * n) : padded[i] = IF i <= r THEN pending[i]
                                         ELSE IF i = r + 1 THEN Byte(128) ELSE Byte(0)
  <2> SUFFICES ASSUME NEW i \in 1..(64 * n)
               PROVE  padded[i] = IF i <= r THEN pending[i]
                                  ELSE IF i = r + 1 THEN Byte(128) ELSE Byte(0)
    OBVIOUS
  <2>1. i \in Int /\ (i - r \in 1..1 <=> i = r + 1)
    BY <1>1
  <2>2. CASE i = r + 1
    <3>1. i - r = 1 /\ ~(i <= r)
      BY <2>2
    <3> QED
      BY <1>3, <1>7, <2>1, <2>2, <3>1
  <2>3. CASE i # r + 1
    BY <1>6, <1>7, <2>1, <2>3
  <2> QED
    BY <2>2, <2>3
<1> HIDE DEF padded
<1>9. /\ HasLen(last, 64 * n)
      /\ \A i \in 1..(64 * n) : last[i] = IF i - (64 * n - 8) \in 1..8
                                          THEN be[i - (64 * n - 8)] ELSE padded[i]
  <2> DEFINE a == 64 * n
             b == 8
             e == 64 * n - 8
  <2>1. a \in Nat /\ e \in Nat /\ b \in Nat /\ HasLen(padded, a) /\ HasLen(be, b)
    BY <1>1, <1>4, <1>7
  <2> HIDE DEF a, b, e
  <2>2. IsOverwrite(Overwrite(padded, e, be), padded, a, e, be, b)
    BY <2>1, OverwriteIs
  <2>3. IsOverwrite(last, padded, a, e, be, b)
    BY <2>2 DEF e
  <2> HIDE DEF last
  <2> QED
    BY <2>3 DEF a, b, e, IsOverwrite
<1>10. \A i \in 1..(64 * n) : i \in Int /\ (i - (64 * n - 8) \in 1..8 <=> ~(i <= 64 * n - 8))
  BY <1>1
<1> HIDE DEF last
<1>11. \A i \in 1..(64 * n) :
          last[i] = IF i <= r THEN pending[i]
                    ELSE IF i = r + 1 THEN Byte(128)
                    ELSE IF i <= 64 * n - 8 THEN Byte(0)
                    ELSE be[i - (64 * n - 8)]
  BY <1>1, <1>8, <1>9, <1>10
<1> QED
  BY <1>9, <1>11 DEF last, padded, pz, z, n, one, be, IsLast

\* The standard's padding, in n + LastBlocks(r) blocks.
LEMMA FipsAre ==
  ASSUME NEW len \in Nat \ {0}, NEW n \in Nat, NEW r \in 1..64, len = 64 * n + r
  PROVE  IsFips(FipsPadded(len), len, 64 * (n + LastBlocks(r)), BigEndian(8 * len))
<1> DEFINE m == 64 * (n + LastBlocks(r))
           k == CHOOSE k \in 0..63 : (len + 1 + k + 8) % 64 = 0
           data == Bytes(len)
           one == <<Byte(128)>>
           z == Zeros(k)
           be == BigEndian(8 * len)
           d1 == data \o one
           d2 == d1 \o z
           d3 == d2 \o be
           a == 1
           b == 8
           l1 == len + a
           l2 == l1 + k
<1>1. k \in 0..63 /\ len + 9 + k = m
  BY ZerosAre
<1>2. HasLen(data, len) /\ \A i \in 1..len : data[i] = <<"data", i>>
  BY DEF Bytes, HasLen
<1>3. HasLen(one, a) /\ one[1] = Byte(128)
  BY DEF HasLen
<1> HIDE DEF k, one
<1>4. k \in Nat /\ HasLen(z, k) /\ \A i \in 1..k : z[i] = Byte(0)
  BY <1>1 DEF Zeros, HasLen
<1>5. HasLen(be, b)
  BY DEF BigEndian, HasLen
<1>6. a \in Nat /\ b \in Nat /\ len \in Nat /\ l1 \in Nat /\ l2 \in Nat /\ m \in Nat /\ l2 + b = m
  BY <1>1
<1> HIDE DEF a, b, data, z, be
<1>7. IsConcat(d1, data, one, len, a)
  BY <1>2, <1>3, <1>6, ConcatIs
<1>8. HasLen(d1, l1)
  BY <1>7 DEF IsConcat
<1> HIDE DEF d1, l1
<1>9. IsConcat(d2, d1, z, l1, k)
  BY <1>4, <1>6, <1>8, ConcatIs
<1>10. HasLen(d2, l2)
  BY <1>9 DEF IsConcat
<1> HIDE DEF d2, l2
<1>11. IsConcat(d3, d2, be, l2, b)
  BY <1>5, <1>6, <1>10, ConcatIs
<1>12. HasLen(d3, m)
  BY <1>6, <1>11 DEF IsConcat
<1>13. FipsPadded(len) = d3
  BY DEF FipsPadded, d3, d2, d1, data, one, z, be, k
<1> HIDE DEF d3
<1>14. a = 1 /\ b = 8 /\ l1 = len + 1 /\ l2 = m - 8 /\ l2 = len + 1 + k
  BY <1>6 DEF a, b, l1, l2
<1> HIDE DEF m
<1>15. ASSUME NEW i \in 1..m
       PROVE  d3[i] = IF i <= len THEN <<"data", i>>
                      ELSE IF i = len + 1 THEN Byte(128)
                      ELSE IF i <= m - 8 THEN Byte(0)
                      ELSE be[i - (m - 8)]
  <2>1. i \in Int /\ i >= 1
    BY <1>6
  <2>2. CASE ~(i <= m - 8)
    <3>1. i \in 1..(l2 + b) /\ ~(i <= l2) /\ ~(i <= len) /\ i # len + 1
      BY <1>4, <1>6, <1>14, <2>1, <2>2
    <3>2. d3[i] = be[i - l2]
      BY <1>11, <3>1 DEF IsConcat
    <3> QED
      BY <1>14, <2>2, <3>1, <3>2
  <2>3. CASE i <= m - 8
    <3>1. i \in 1..(l2 + b) /\ i <= l2 /\ i \in 1..(l1 + k)
      BY <1>4, <1>6, <1>14, <2>1, <2>3
    <3>2. d3[i] = d2[i]
      BY <1>11, <3>1 DEF IsConcat
    <3>3. CASE ~(i <= l1)
      <4>1. i - l1 \in 1..k /\ ~(i <= len) /\ i # len + 1
        BY <1>4, <1>14, <2>1, <3>1, <3>3
      <4>2. d2[i] = z[i - l1]
        BY <1>9, <3>1, <3>3 DEF IsConcat
      <4> QED
        BY <1>4, <2>3, <3>2, <4>1, <4>2
    <3>4. CASE i <= l1
      <4>1. i \in 1..(len + a) /\ (~(i <= len) => i = len + 1 /\ i - len = 1)
        BY <1>14, <2>1, <3>4
      <4>2. d2[i] = d1[i] /\ d1[i] = IF i <= len THEN data[i] ELSE one[i - len]
        BY <1>7, <1>9, <3>1, <3>4, <4>1 DEF IsConcat
      <4>3. i <= len => d1[i] = <<"data", i>>
        BY <1>2, <2>1, <4>2
      <4>4. ~(i <= len) => d1[i] = Byte(128)
        BY <1>3, <4>1, <4>2
      <4> QED
        BY <2>3, <3>2, <4>1, <4>2, <4>3, <4>4
    <3> QED
      BY <3>3, <3>4
  <2> QED
    BY <2>2, <2>3
<1> QED
  BY <1>12, <1>13, <1>15 DEF m, be, IsFips

\* What deal_block leaves in pending, and the blocks it has dealt with.
LEMMA DealBlockIs ==
  ASSUME NEW len \in Nat \ {0}
  PROVE  LET n == BlockNum(len)
             sha == DealBlock(Default, Bytes(len))
         IN  /\ sha.dealt = Blocks(Bytes(len), 1, n)
             /\ sha.completed_data_blocks = n /\ sha.num_pending = len - 64 * n
             /\ HasLen(sha.pending, 64)
             /\ \A i \in 1..64 : sha.pending[i] = IF i <= len - 64 * n THEN <<"data", 64 * n + i>>
                                                  ELSE Byte(0)
<1> DEFINE n == BlockNum(len)
           data == Bytes(len)
           sha == DealBlock(Default, data)
           r == len - 64 * n
           z == Zeros(64)
           left == SubSeq(data, 64 * n + 1, len)
           c == 64
           o == 0
<1>1. n \in Nat /\ r \in 1..64 /\ len \in Nat
  BY BlockNumIs
<1>2. HasLen(data, len) /\ \A i \in 1..len : data[i] = <<"data", i>>
  BY DEF Bytes, HasLen
<1>3. Len(data) = len
  BY <1>2, LenIs
<1> HIDE DEF n, data
<1>4. /\ sha.dealt = <<>> \o Blocks(data, 1, n)
      /\ sha.completed_data_blocks = 0 + n /\ sha.num_pending = len - 64 * n
      /\ sha.pending = Overwrite(z, 0, left)
  BY <1>3 DEF DealBlock, Default, n
<1> HIDE DEF sha
<1>5. <<>> \o Blocks(data, 1, n) = Blocks(data, 1, n)
  <2>1. HasLen(Blocks(data, 1, n), n)
    BY <1>1, BlocksAre
  <2>2. Blocks(data, 1, n) \in Seq({Blocks(data, 1, n)[i] : i \in 1..n})
    BY <2>1, LenIs
  <2> QED
    BY <2>2, ConcatEmptySeq
<1>6. HasLen(left, r) /\ \A i \in 1..r : left[i] = <<"data", 64 * n + i>>
  <2> DEFINE m == 64 * n + 1
             q == SubSeq(data, m, m + r - 1)
  <2>1. m \in Int /\ r \in Nat /\ len = m + r - 1 /\ \A i \in 1..r : m + i - 1 = 64 * n + i
    BY <1>1
  <2>2. left = q
    BY <2>1
  <2>3. \A i \in 1..r : 64 * n + i \in 1..len
    BY <1>1
  <2> HIDE DEF m, r
  <2>4. HasLen(q, r) /\ \A i \in 1..r : q[i] = data[m + i - 1]
    <3>1. m \in Int /\ r \in Nat
      BY <2>1
    <3> HIDE DEF HasLen
    <3> QED
      BY <3>1, SubSeqIs, Zenon
  <2> HIDE DEF left, q
  <2>5. \A i \in 1..r : left[i] = data[64 * n + i]
    BY <2>1, <2>2, <2>4
  <2>6. \A i \in 1..r : left[i] = <<"data", 64 * n + i>>
    BY <1>2, <2>3, <2>5
  <2> QED
    BY <2>2, <2>4, <2>6
<1>7. HasLen(z, c) /\ \A i \in 1..64 : z[i] = Byte(0)
  BY DEF Zeros, HasLen
<1> HIDE DEF left, z
<1>8. IsOverwrite(sha.pending, z, c, o, left, r)
  <2>1. c \in Nat /\ o \in Nat /\ r \in Nat
    BY <1>1
  <2>2. sha.pending = Overwrite(z, o, left)
    BY <1>4
  <2> HIDE DEF c, o, r
  <2>3. IsOverwrite(Overwrite(z, o, left), z, c, o, left, r)
    BY <1>6, <1>7, <2>1, OverwriteIs
  <2> QED
    BY <2>2, <2>3
<1> DEFINE p == sha.pending
<1> HIDE DEF p
<1>9. /\ HasLen(p, 64)
      /\ \A i \in 1..64 : p[i] = IF i - 0 \in 1..r THEN left[i - 0] ELSE z[i]
  BY <1>8 DEF IsOverwrite, p
<1>10. \A i \in 1..64 : p[i] = IF i <= len - 64 * n THEN <<"data", 64 * n + i>> ELSE Byte(0)
  <2> SUFFICES ASSUME NEW i \in 1..64
               PROVE  p[i] = IF i <= len - 64 * n THEN <<"data", 64 * n + i>> ELSE Byte(0)
    OBVIOUS
  <2>1. i - 0 = i /\ (i \in 1..r <=> i <= len - 64 * n)
    BY <1>1
  <2> QED
    BY <1>6, <1>7, <1>9, <2>1
<1>11. sha.completed_data_blocks = n
  BY <1>1, <1>4
<1> QED
  BY <1>4, <1>5, <1>9, <1>10, <1>11 DEF p, sha, n, data

\* fips is n blocks of data, and then t blocks that are last.
Continues(fips, data, last, n, t) ==
  /\ n \in Nat /\ t \in Nat
  /\ \A i \in 1..(64 * n) : fips[i] = data[i]
  /\ \A i \in 1..(64 * t) : fips[64 * n + i] = last[i]

\* Cutting into blocks commutes with appending, at a multiple of 64.
LEMMA BlocksAgree ==
  ASSUME NEW n, NEW t, NEW data, NEW last, NEW fips, Continues(fips, data, last, n, t)
  PROVE  Blocks(data, 1, n) \o Blocks(last, 1, t) = Blocks(fips, 1, n + t)
<1> DEFINE first == Blocks(data, 1, n)
           rest == Blocks(last, 1, t)
           all == Blocks(fips, 1, n + t)
           both == first \o rest
<1>0. n \in Nat /\ t \in Nat /\ n + t \in Nat
  BY DEF Continues
<1>1. /\ HasLen(first, n)
      /\ \A b \in 1..n : HasLen(first[b], 64) /\ \A i \in 1..64 : first[b][i] = data[64 * (b - 1) + i]
  BY <1>0, BlocksAre
<1>2. /\ HasLen(rest, t)
      /\ \A b \in 1..t : HasLen(rest[b], 64) /\ \A i \in 1..64 : rest[b][i] = last[64 * (b - 1) + i]
  BY <1>0, BlocksAre
<1>4. /\ HasLen(all, n + t)
      /\ \A b \in 1..(n + t) :
           HasLen(all[b], 64) /\ \A i \in 1..64 : all[b][i] = fips[64 * (b - 1) + i]
  <2> DEFINE u == n + t
  <2>1. u \in Nat
    BY <1>0
  <2> HIDE DEF u
  <2>2. /\ HasLen(Blocks(fips, 1, u), u)
        /\ \A b \in 1..u : /\ HasLen(Blocks(fips, 1, u)[b], 64)
                           /\ \A i \in 1..64 : Blocks(fips, 1, u)[b][i] = fips[64 * (b - 1) + i]
    BY <2>1, BlocksAre
  <2> QED
    BY <2>2 DEF u
<1> HIDE DEF first, rest, all
<1>5. IsConcat(both, first, rest, n, t)
  BY <1>0, <1>1, <1>2, ConcatIs
<1> HIDE DEF both
<1>6. ASSUME NEW b \in 1..(n + t) PROVE both[b] = all[b]
  <2>1. HasLen(all[b], 64) /\ \A i \in 1..64 : all[b][i] = fips[64 * (b - 1) + i]
    BY <1>4
  <2>2. CASE b <= n
    <3>1. b \in 1..n /\ \A i \in 1..64 : 64 * (b - 1) + i \in 1..(64 * n)
      BY <1>0, <2>2
    <3>2. both[b] = first[b]
      BY <1>5, <2>2 DEF IsConcat
    <3>3. HasLen(first[b], 64) /\ \A i \in 1..64 : first[b][i] = data[64 * (b - 1) + i]
      BY <1>1, <3>1
    <3>4. \A i \in 1..64 : first[b][i] = all[b][i]
      BY <2>1, <3>1, <3>3 DEF Continues
    <3> QED
      BY <2>1, <3>2, <3>3, <3>4, SameElements
  <2>3. CASE ~(b <= n)
    <3> DEFINE c == b - n
    <3>1. /\ c \in 1..t
          /\ \A i \in 1..64 : /\ 64 * (c - 1) + i \in 1..(64 * t)
                             /\ 64 * (b - 1) + i = 64 * n + (64 * (c - 1) + i)
      BY <1>0, <2>3
    <3>2. both[b] = rest[c]
      BY <1>5, <2>3 DEF IsConcat
    <3> HIDE DEF c
    <3>3. HasLen(rest[c], 64) /\ \A i \in 1..64 : rest[c][i] = last[64 * (c - 1) + i]
      BY <1>2, <3>1
    <3>4. \A i \in 1..64 : rest[c][i] = all[b][i]
      <4>1. \A j \in 1..(64 * t) : fips[64 * n + j] = last[j]
        BY DEF Continues
      <4> QED
        BY <2>1, <3>1, <3>3, <4>1
    <3> QED
      BY <2>1, <3>2, <3>3, <3>4, SameElements
  <2> QED
    BY <2>2, <2>3
<1>7. both = all
  BY <1>4, <1>5, <1>6, SameElements DEF IsConcat
<1> QED
  BY <1>7 DEF both, first, rest, all

\* digest is given the standard's blocks, and its last two are no exception.
LEMMA Padding == ASSUME NEW len \in Nat PROVE PaddedAsInTheStandard(len)
<1>1. CASE len = 0
  <2>1. HasLen(Bytes(0), 0)
    BY DEF Bytes, HasLen
  <2>2. Len(Bytes(0)) = 0
    BY <2>1, LenIs
  <2>3. BlockNum(0) < 0
    BY DEF BlockNum
  <2> QED
    BY <1>1, <2>2, <2>3 DEF PaddedAsInTheStandard, Digest
<1>2. CASE len # 0
  <2> DEFINE n == BlockNum(len)
             r == len - 64 * n
             t == LastBlocks(r)
             data == Bytes(len)
             sha == DealBlock(Default, data)
             be == BigEndian(8 * len)
             padded == Overwrite(sha.pending \o Zeros(64 * (t - 1)), r, <<Byte(128)>>)
             last == Overwrite(padded, 64 * t - 8, be)
             fips == FipsPadded(len)
             first == Blocks(data, 1, n)
             rest == Blocks(last, 1, t)
             all == Blocks(fips, 1, n + t)
  <2>1. n \in Nat /\ r \in 1..64 /\ len = 64 * n + r /\ len \in Nat \ {0}
    BY <1>2, BlockNumIs
  <2>2. t \in {1, 2} /\ r + 1 <= 64 * t - 8 /\ t \in Nat /\ n + t \in Nat
    BY <2>1 DEF LastBlocks
  <2>3. /\ sha.dealt = first
        /\ sha.completed_data_blocks = n /\ sha.num_pending = r
        /\ HasLen(sha.pending, 64)
        /\ \A i \in 1..64 : sha.pending[i] = IF i <= r THEN <<"data", 64 * n + i>> ELSE Byte(0)
    BY <2>1, DealBlockIs
  <2>4. /\ HasLen(last, 64 * t)
        /\ \A i \in 1..(64 * t) :
             last[i] = IF i <= r THEN sha.pending[i]
                       ELSE IF i = r + 1 THEN Byte(128)
                       ELSE IF i <= 64 * t - 8 THEN Byte(0)
                       ELSE be[i - (64 * t - 8)]
    <3>1. HasLen(sha.pending, 64) /\ \A i \in 1..64 : i > r => sha.pending[i] = Byte(0)
      BY <2>1, <2>3
    <3>2. r \in 1..64
      BY <2>1
    <3> DEFINE bits == 8 * len
               p == sha.pending
    <3> HIDE DEF r, p, bits
    <3>3. HasLen(p, 64) /\ \A i \in 1..64 : i > r => p[i] = Byte(0)
      BY <3>1 DEF p
    <3>4. IsLast(last, p, r, t, be)
      BY <3>2, <3>3, LastAre DEF bits, p
    <3> HIDE DEF last, t, be
    <3> QED
      BY <3>4 DEF IsLast, p
  <2>5. /\ HasLen(fips, 64 * (n + t))
        /\ \A i \in 1..(64 * (n + t)) :
             fips[i] = IF i <= len THEN <<"data", i>>
                       ELSE IF i = len + 1 THEN Byte(128)
                       ELSE IF i <= 64 * (n + t) - 8 THEN Byte(0)
                       ELSE be[i - (64 * (n + t) - 8)]
    <3>1. n \in Nat /\ r \in 1..64 /\ len = 64 * n + r /\ len \in Nat \ {0}
      BY <2>1
    <3> HIDE DEF r, n
    <3>2. IsFips(fips, len, 64 * (n + t), be)
      BY <3>1, FipsAre
    <3> HIDE DEF fips, t, be
    <3> QED
      BY <3>2 DEF IsFips
  <2>6. Digest(data) = first \o rest
    <3>1. HasLen(data, len)
      BY <2>1 DEF Bytes, HasLen
    <3>0. ~(BlockNum(len) < 0)
      BY <2>1
    <3> HIDE DEF sha, data
    <3>2. Len(data) = len /\ ~(BlockNum(len) < 0)
      BY <3>0, <3>1, LenIs
    <3>3. Digest(data) = DealRemain(sha)
      BY <3>2 DEF Digest, sha
    <3>4. sha.completed_data_blocks * 512 + sha.num_pending * 8 = 8 * len
      BY <2>1, <2>3
    <3> HIDE DEF r, n
    <3>5. DealRemain(sha) = sha.dealt \o rest
      <4> DEFINE bits == sha.completed_data_blocks * 512 + sha.num_pending * 8
                 np == sha.num_pending
                 k == LastBlocks(np)
                 pd == Overwrite(sha.pending \o Zeros(64 * (k - 1)), np, <<Byte(128)>>)
      <4>1. DealRemain(sha)
              = sha.dealt \o Blocks(Overwrite(pd, 64 * k - 8, BigEndian(bits)), 1, k)
        BY DEF DealRemain, LastBlocks
      <4>2. bits = 8 * len /\ np = r
        BY <2>3, <3>4
      <4> HIDE DEF bits, np
      <4> QED
        BY <4>1, <4>2
    <3> QED
      BY <2>3, <3>3, <3>5
  <2>7. all = FipsBlocks(len)
    <3>1. Len(fips) = 64 * (n + t)
      BY <2>5, LenIs
    <3> HIDE DEF fips, t, n
    <3>2. Len(fips) \div 64 = n + t
      BY <2>2, <3>1
    <3> QED
      BY <3>2 DEF FipsBlocks, fips
  <2>8. \A i \in 1..(64 * n) : fips[i] = data[i]
    <3>1. \A i \in 1..(64 * n) : i <= len /\ i \in 1..len /\ i \in 1..(64 * (n + t))
      BY <2>1, <2>2
    <3>2. \A i \in 1..len : data[i] = <<"data", i>>
      BY DEF Bytes
    <3> HIDE DEF fips, data, n, t
    <3> QED
      BY <2>5, <3>1, <3>2
  <2>9. \A i \in 1..(64 * t) : fips[64 * n + i] = last[i]
    <3> SUFFICES ASSUME NEW i \in 1..(64 * t) PROVE fips[64 * n + i] = last[i]
      OBVIOUS
    <3> HIDE DEF fips, data, n, t, last, be, sha
    <3> DEFINE j == 64 * n + i
    <3>1. /\ i \in Int /\ j \in 1..(64 * (n + t))
          /\ (j <= len <=> i <= r) /\ (j = len + 1 <=> i = r + 1)
          /\ (j <= 64 * (n + t) - 8 <=> i <= 64 * t - 8)
          /\ j - (64 * (n + t) - 8) = i - (64 * t - 8)
          /\ (i <= r => i \in 1..64)
      BY <2>1, <2>2
    <3> HIDE DEF j, r
    <3>2. fips[j] = IF j <= len THEN <<"data", j>>
                    ELSE IF j = len + 1 THEN Byte(128)
                    ELSE IF j <= 64 * (n + t) - 8 THEN Byte(0)
                    ELSE be[j - (64 * (n + t) - 8)]
      BY <2>5, <3>1
    <3>3. last[i] = IF i <= r THEN sha.pending[i]
                    ELSE IF i = r + 1 THEN Byte(128)
                    ELSE IF i <= 64 * t - 8 THEN Byte(0)
                    ELSE be[i - (64 * t - 8)]
      BY <2>4
    <3>4. i <= r => sha.pending[i] = <<"data", j>>
      BY <2>3, <3>1 DEF j
    <3>5. fips[j] = last[i]
      BY <3>1, <3>2, <3>3, <3>4
    <3> QED
      BY <3>5 DEF j
  <2>10. first \o rest = all
    <3>1. n \in Nat /\ t \in Nat
      BY <2>1, <2>2
    <3> HIDE DEF fips, data, n, t, last
    <3>2. Continues(fips, data, last, n, t)
      BY <3>1, <2>8, <2>9 DEF Continues
    <3> QED
      BY <3>2, BlocksAgree
  <2> QED
    BY <1>2, <2>6, <2>7, <2>10 DEF PaddedAsInTheStandard
<1> QED
  BY <1>1, <1>2

\* For data of every length, digest hands deal_one exactly the blocks of FIPS 180-4, but
\* for no data at all, of which it panics: no length between two block sizes, and none
\* at which the 0x80 or the length needs a block of its own, is dealt with differently.
THEOREM PaddingForEveryLength == Spec => []PaddingIsFips
<1>1. PaddingIsFips
  BY Padding, DigestLengths DEF PaddingIsFips, EveryLengthPadded
<1> QED
  BY <1>1, PTL
=============================================================================

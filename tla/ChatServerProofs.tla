------------------------- MODULE ChatServerProofs --------------------------
(***************************************************************************)
(* The invariant of ChatServer for any number of connections, until main   *)
(* has accepted one before the thread of the last has read its argument;   *)
(* what a client is sent, and how far it is from the answer it waits for.  *)
(***************************************************************************)
EXTENDS ChatServer, SequenceTheorems, FiniteSetTheorems, WellFoundedInduction, TLAPS

\* What holds whatever happens: descriptors are used when there are any.
SockInv ==
  /\ \A f \in Fds : fd[f] # None => peer[fd[f]] # "none"
  /\ mpc # "accept" => accepted \in Conns /\ clntSock \in Fds
  /\ \A t \in Conns : /\ tpc[t] = "start" => clntSock \in Fds
                      /\ tpc[t] \in Serving => connFd[t] \in Fds
BInv == TypeOK /\ SockInv

\* An open descriptor is that of one connection, whose thread has not left it; the
\* thread is there unless main is about to create it.
FdInv ==
  /\ \A f, g \in Fds : fd[f] # None /\ fd[f] = fd[g] => f = g
  /\ \A f \in Fds : fd[f] # None =>
       /\ peer[fd[f]] # "none" /\ tpc[fd[f]] \notin {"leave", "gone"}
       /\ tpc[fd[f]] = "none" => mpc # "accept" /\ accepted = fd[f]

\* The variable of main is the descriptor of the connection main deals with, and still
\* that of the thread that has not read it yet.
MainInv ==
  /\ mpc # "accept" => /\ accepted \in Conns /\ clntSock \in Fds /\ fd[clntSock] = accepted
                       /\ tpc[accepted] = "none" /\ Starting = {}
  /\ \A t \in Conns : tpc[t] = "start" => clntSock \in Fds /\ fd[clntSock] = t

ThreadInv == \A t \in Conns :
  tpc[t] \in Serving => connFd[t] \in Fds /\ fd[connFd[t]] = t

\* The vector holds a connection once.
VectorInv ==
  /\ \A i \in 1..Len(clients) : fd[clients[i].sock] = clients[i].addr
  /\ \A i, j \in 1..Len(clients) : clients[i].addr = clients[j].addr => i = j
  /\ mpc = "push" => \A i \in 1..Len(clients) : clients[i].addr # accepted

IInv == TypeOK /\ SockInv /\ FdInv /\ MainInv /\ ThreadInv /\ VectorInv

-----------------------------------------------------------------------------
\* What the operators on sequences return.

LEMMA MinIsLeast ==
  ASSUME NEW S \in SUBSET Nat, S # {}
  PROVE  Min(S) \in S /\ \A y \in S : Min(S) <= y
<1> DEFINE R == {ss \in Nat \X Nat : ss[1] < ss[2]}
<1>1. IsWellFoundedOn(R, Nat)
  BY NatLessThanWellFounded DEF OpToRel
<1>2. \A y, z \in Nat : y < z => <<y, z>> \in R
  OBVIOUS
<1>3. \E x \in S : \A y \in S : ~(<<y, x>> \in R)
  <2> HIDE DEF R
  <2> QED
    BY <1>1, WFMin
<1>4. PICK x \in S : \A y \in S : x <= y
  <2> HIDE DEF R
  <2>1. PICK x \in S : \A y \in S : ~(<<y, x>> \in R)
    BY <1>3
  <2>2. \A y \in S : ~(y < x)
    BY <1>2, <2>1, Zenon
  <2>3. \A y \in S : x <= y
    BY <2>2
  <2> QED
    BY <2>3
<1> QED
  BY <1>4 DEF Min

\* The least index with a property, or 0.
FirstIn(I) == IF I # {} THEN Min(I) ELSE 0

LEMMA FirstInProperties ==
  ASSUME NEW n \in Nat, NEW I \in SUBSET (1..n)
  PROVE  /\ FirstIn(I) \in 0..n
         /\ FirstIn(I) = 0 => I = {}
         /\ FirstIn(I) # 0 => FirstIn(I) \in I
<1>1. I \in SUBSET Nat
  OBVIOUS
<1>2. CASE I = {}
  BY <1>2 DEF FirstIn
<1>3. CASE I # {}
  <2>1. Min(I) \in I
    BY <1>1, <1>3, MinIsLeast
  <2>2. FirstIn(I) = Min(I)
    BY <1>3 DEF FirstIn
  <2>3. FirstIn(I) \in I /\ FirstIn(I) \in 1..n
    BY <2>1, <2>2
  <2> QED
    BY <1>3, <2>3
<1> QED
  BY <1>2, <1>3

LEMMA RemoveAtProperties ==
  ASSUME NEW S, NEW s \in Seq(S), NEW i \in 1..Len(s)
  PROVE  /\ RemoveAt(s, i) \in Seq(S)
         /\ Len(RemoveAt(s, i)) = Len(s) - 1
         /\ \A j \in 1..(Len(s) - 1) : RemoveAt(s, i)[j] = IF j < i THEN s[j] ELSE s[j + 1]
<1> DEFINE a == SubSeq(s, 1, i - 1)
           b == SubSeq(s, i + 1, Len(s))
<1>1. Len(s) \in Nat /\ i \in Int /\ \A j \in 1..Len(s) : s[j] \in S
  OBVIOUS
<1>2. a \in Seq(S) /\ Len(a) = i - 1 /\ \A j \in 1..(i - 1) : a[j] = s[j]
  <2>1. i - 1 \in Int /\ 1 \in Int /\ \A j \in 1..(i - 1) : s[j] \in S
    BY <1>1
  <2> QED
    BY <1>1, <2>1, SubSeqProperties
<1>3. b \in Seq(S) /\ Len(b) = Len(s) - i /\ \A j \in 1..(Len(s) - i) : b[j] = s[i + j]
  <2>1. i + 1 \in Int /\ Len(s) \in Int /\ \A j \in (i + 1)..Len(s) : s[j] \in S
    BY <1>1
  <2>2. /\ b \in Seq(S) /\ Len(b) = IF i + 1 <= Len(s) THEN Len(s) - (i + 1) + 1 ELSE 0
        /\ \A j \in 1..(Len(s) - (i + 1) + 1) : b[j] = s[(i + 1) + j - 1]
    BY <2>1, SubSeqProperties
  <2>3. \A j \in 1..(Len(s) - i) : j \in 1..(Len(s) - (i + 1) + 1) /\ (i + 1) + j - 1 = i + j
    BY <1>1
  <2> HIDE DEF b
  <2>4. \A j \in 1..(Len(s) - i) : b[j] = s[i + j]
    BY <2>2, <2>3
  <2>5. Len(b) = Len(s) - i
    BY <1>1, <2>2
  <2> QED
    BY <2>2, <2>4, <2>5
<1>4. RemoveAt(s, i) = a \o b
  BY DEF RemoveAt
<1> HIDE DEF a, b
<1>5. /\ a \o b \in Seq(S) /\ Len(a \o b) = Len(a) + Len(b)
      /\ \A j \in 1..(Len(a) + Len(b)) : (a \o b)[j] = IF j <= Len(a) THEN a[j] ELSE b[j - Len(a)]
  BY <1>2, <1>3, ConcatProperties
<1>6. ASSUME NEW j \in 1..(Len(s) - 1) PROVE (a \o b)[j] = IF j < i THEN s[j] ELSE s[j + 1]
  <2>1. j \in 1..(Len(a) + Len(b)) /\ j \in Int
    BY <1>1, <1>2, <1>3
  <2>2. CASE j < i
    BY <1>1, <1>2, <1>5, <2>1, <2>2
  <2>3. CASE ~(j < i)
    <3>1. j - (i - 1) \in 1..(Len(s) - i) /\ i + (j - (i - 1)) = j + 1 /\ ~(j <= i - 1)
      BY <1>1, <2>1, <2>3
    <3> QED
      BY <1>2, <1>3, <1>5, <2>1, <2>3, <3>1
  <2> QED
    BY <2>2, <2>3
<1> QED
  BY <1>1, <1>2, <1>3, <1>4, <1>5, <1>6

-----------------------------------------------------------------------------
\* The entries of the vector.
Entry == [sock : Fds, addr : Conns]

LEMMA Entries ==
  ASSUME TypeOK
  PROVE  /\ clients \in Seq(Entry) /\ Len(clients) \in Nat /\ DOMAIN clients = 1..Len(clients)
         /\ \A k \in 1..Len(clients) : /\ clients[k] \in Entry
                                      /\ clients[k].sock \in Fds /\ clients[k].addr \in Conns
<1>1. clients \in Seq(Entry)
  BY DEF TypeOK, Entry
<1>2. Len(clients) \in Nat /\ DOMAIN clients = 1..Len(clients)
  BY <1>1
<1>3. \A k \in 1..Len(clients) : clients[k] \in Entry
  BY <1>1, ElementOfSeq
<1>4. \A e \in Entry : e.sock \in Fds /\ e.addr \in Conns
  BY DEF Entry
<1> QED
  BY <1>1, <1>2, <1>3, <1>4

\* The network after a send is one, and no connection is unmade by it.
Nets == [got : [Conns -> Seq(Messages)], peer : [Conns -> {"none", "open", "closed", "reset"}],
         up : BOOLEAN]

LEMMA SendKeepsNet ==
  ASSUME NEW s \in Nets, NEW x \in Fds, NEW m \in Messages, fd \in [Fds -> Conns \cup {None}],
         fd[x] # None => s.peer[fd[x]] # "none"
  PROVE  /\ Send(s, x, m) \in Nets
         /\ \A c \in Conns : s.peer[c] # "none" => Send(s, x, m).peer[c] # "none"
<1>1. CASE fd[x] = None
  BY <1>1 DEF Send
<1>2. CASE fd[x] # None
  <2>1. fd[x] \in Conns /\ s.peer[fd[x]] \in {"open", "closed", "reset"}
    BY <1>2 DEF Nets
  <2>2. CASE s.peer[fd[x]] = "open"
    <3>1. Send(s, x, m) = [s EXCEPT !.got[fd[x]] = Append(@, m)]
      BY <1>2, <2>2 DEF Send
    <3>2. Append(s.got[fd[x]], m) \in Seq(Messages)
      BY <2>1, AppendProperties DEF Nets
    <3>3. Send(s, x, m) = [got |-> [s.got EXCEPT ![fd[x]] = Append(s.got[fd[x]], m)],
                           peer |-> s.peer, up |-> s.up]
      BY <3>1 DEF Nets
    <3>4. [s.got EXCEPT ![fd[x]] = Append(s.got[fd[x]], m)] \in [Conns -> Seq(Messages)]
      BY <2>1, <3>2 DEF Nets
    <3> QED
      BY <3>3, <3>4 DEF Nets
  <2>3. CASE s.peer[fd[x]] = "closed"
    <3>1. Send(s, x, m) = [s EXCEPT !.peer[fd[x]] = "reset"]
      BY <1>2, <2>3 DEF Send
    <3>2. Send(s, x, m) = [got |-> s.got, peer |-> [s.peer EXCEPT ![fd[x]] = "reset"],
                           up |-> s.up]
      BY <3>1 DEF Nets
    <3> QED
      BY <2>1, <3>2 DEF Nets
  <2>4. CASE s.peer[fd[x]] = "reset"
    <3>1. Send(s, x, m) = [s EXCEPT !.up = FALSE]
      BY <1>2, <2>4 DEF Send
    <3> QED
      BY <2>1, <3>1 DEF Nets
  <2> QED
    BY <2>1, <2>2, <2>3, <2>4
<1> QED
  BY <1>1, <1>2

\* What a send changes.
Sends ==
  /\ got' \in [Conns -> Seq(Messages)] /\ up' \in BOOLEAN
  /\ peer' \in [Conns -> {"none", "open", "closed", "reset"}]
  /\ \A c \in Conns : peer[c] # "none" => peer'[c] # "none"

LEMMA OneSend ==
  ASSUME BInv, NEW x \in Fds, NEW m \in Messages, BecomeNet(Send(Net, x, m))
  PROVE  Sends
<1>1. Net \in Nets /\ Net.peer = peer
  BY DEF Net, Nets, BInv, TypeOK
<1>2. fd \in [Fds -> Conns \cup {None}] /\ (fd[x] # None => Net.peer[fd[x]] # "none")
  BY <1>1 DEF BInv, TypeOK, SockInv
<1>3. /\ Send(Net, x, m) \in Nets
      /\ \A c \in Conns : Net.peer[c] # "none" => Send(Net, x, m).peer[c] # "none"
  BY <1>1, <1>2, SendKeepsNet
<1> QED
  BY <1>1, <1>3 DEF BecomeNet, Nets, Sends

\* SEND_MSG goes to an entry with the address; anywhere only when the vector is undefined.
LEMMA ForwardIs ==
  ASSUME BInv, NEW t \in Conns, Forward(t)
  PROVE  /\ mes[t].to \in Conns
         /\ \E f \in {0} \cup Fds :
              /\ Repost(t, f)
              /\ \/ raced \/ f = 0
                 \/ \E k \in 1..Len(clients) : clients[k].addr = mes[t].to /\ clients[k].sock = f
<1> DEFINE I == {k \in 1..Len(clients) : clients[k].addr = mes[t].to}
           i == FirstIn(I)
<1>1. mes[t].to \in Conns
  <2>1. mes[t] \in Requests \cup {Bye, Unset, Zero} /\ mes[t].type = "send"
    BY DEF BInv, TypeOK, Forward
  <2>2. mes[t] \in [type : {"send"}, to : Targets]
    BY <2>1 DEF Requests, Byte, Bye, Unset, Zero
  <2> QED
    BY <2>2, ChatConns
<1>2. \/ Repost(t, IF i = 0 THEN 0 ELSE clients[i].sock)
      \/ raced /\ \E f \in {0} \cup Fds : Repost(t, f)
  BY DEF Forward, SelectInSeq, FirstIn
<1>3. Len(clients) \in Nat /\ \A k \in 1..Len(clients) : clients[k].sock \in Fds
  BY Entries DEF BInv
<1>4. i # 0 => i \in 1..Len(clients) /\ clients[i].addr = mes[t].to
  <2>1. I \in SUBSET (1..Len(clients))
    OBVIOUS
  <2>2. i \in 0..Len(clients) /\ (i # 0 => i \in I)
    <3> HIDE DEF I
    <3> QED
      BY <1>3, <2>1, FirstInProperties
  <2> HIDE DEF i
  <2> QED
    BY <1>3, <2>2
<1> HIDE DEF I, i
<1>5. CASE i = 0
  BY <1>1, <1>2, <1>5
<1>6. CASE i # 0
  <2>1. clients[i].sock \in Fds
    BY <1>3, <1>4, <1>6
  <2> QED
    BY <1>1, <1>2, <1>4, <1>6, <2>1
<1> QED
  BY <1>5, <1>6

LEMMA ForwardSends ==
  ASSUME BInv, NEW t \in Conns, Forward(t)
  PROVE  Sends
<1> DEFINE m == [kind |-> "repost", to |-> mes[t].to]
           r == [kind |-> "send"]
<1>1. connFd[t] \in Fds
  BY DEF BInv, SockInv, Forward, Goto, Serving
<1>2. PICK f \in {0} \cup Fds : Repost(t, f)
  BY ForwardIs
<1>3. m \in Messages /\ r \in Messages
  BY ForwardIs DEF Messages
<1> DEFINE s == IF f = 0 THEN Net ELSE Send(Net, f, m)
<1>4. BecomeNet(IF s.up THEN Send(s, connFd[t], r) ELSE s)
  BY <1>2 DEF Repost
<1>5. Net \in Nets /\ Net.peer = peer
  BY DEF Net, Nets, BInv, TypeOK
<1>6. /\ fd \in [Fds -> Conns \cup {None}]
      /\ \A x \in Fds : fd[x] # None => fd[x] \in Conns /\ peer[fd[x]] # "none"
  BY DEF BInv, TypeOK, SockInv
<1> HIDE DEF m, r
<1>7. s \in Nets /\ \A c \in Conns : peer[c] # "none" => s.peer[c] # "none"
  BY <1>3, <1>5, <1>6, SendKeepsNet
<1> HIDE DEF s
<1>8. fd[connFd[t]] # None => s.peer[fd[connFd[t]]] # "none"
  BY <1>1, <1>6, <1>7
<1>9. /\ Send(s, connFd[t], r) \in Nets
      /\ \A c \in Conns : s.peer[c] # "none" => Send(s, connFd[t], r).peer[c] # "none"
  BY <1>1, <1>3, <1>6, <1>7, <1>8, SendKeepsNet
<1>10. CASE s.up
  BY <1>4, <1>7, <1>9, <1>10 DEF BecomeNet, Nets, Sends
<1>11. CASE ~s.up
  BY <1>4, <1>7, <1>11 DEF BecomeNet, Nets, Sends
<1> QED
  BY <1>10, <1>11

-----------------------------------------------------------------------------
LEMMA InitIInv == Init => IInv
<1> SUFFICES ASSUME Init PROVE IInv
  OBVIOUS
<1> USE DEF Init
<1>1. TypeOK
  <2>1. /\ fd \in [Fds -> Conns \cup {None}] /\ clients \in Seq([sock : Fds, addr : Conns])
        /\ clntSock \in {0} \cup Fds /\ accepted \in Conns \cup {None} /\ mtx \in Conns \cup {None}
        /\ mpc = "accept" /\ connFd \in [Conns -> {0} \cup Fds]
    OBVIOUS
  <2>2. /\ mes \in [Conns -> Requests \cup {Bye, Unset, Zero}]
        /\ inbox \in [Conns -> Seq(Requests \cup {Bye})]
        /\ sent \in [Conns -> Seq(Requests)] /\ got \in [Conns -> Seq(Messages)]
    OBVIOUS
  <2>3. /\ tpc \in [Conns -> {"none", "start", "hello", "recv", "lock", "switch", "unlock",
                             "leave", "gone"}]
        /\ peer \in [Conns -> {"none", "open", "closed", "reset"}]
        /\ up \in BOOLEAN /\ late \in BOOLEAN /\ raced \in BOOLEAN
    OBVIOUS
  <2> QED
    BY <2>1, <2>2, <2>3 DEF TypeOK
<1>2. SockInv /\ FdInv /\ MainInv /\ ThreadInv /\ VectorInv
  BY DEF SockInv, FdInv, MainInv, ThreadInv, VectorInv, Serving, Starting
<1> QED
  BY <1>1, <1>2 DEF IInv

\* A thread's step that is neither the first nor a DISCONNECT nor the last.
Tame(t) ==
  /\ UNCHANGED <<fd, clients, mainVars, connFd>>
  /\ tpc'[t] \in Serving /\ tpc[t] \in Serving
  /\ \A s \in Conns \ {t} : tpc'[s] = tpc[s]
  /\ \A c \in Conns : peer[c] # "none" => peer'[c] # "none"

\* The steps of that kind, and what they do to the types.
LEMMA TameSteps ==
  ASSUME BInv, NEW t \in Conns,
         \/ SayHello(t) \/ Recv(t) \/ Lock(t) \/ Answer(t) \/ Forward(t) \/ Ignore(t)
         \/ Unlock(t) /\ tpc[t] = "unlock"
  PROVE  BInv' /\ Tame(t)
<1> USE DEF Goto, mainVars, history
<1> SUFFICES TypeOK' /\ Tame(t)
  <2>1. \A f \in Fds : fd[f] # None => fd[f] \in Conns
    BY DEF BInv, TypeOK
  <2>2. Tame(t) => SockInv'
    BY <2>1 DEF BInv, SockInv, Tame, Serving
  <2> QED
    BY <2>2 DEF BInv
<1>1. TypeOK
  BY DEF BInv
<1>2. \A to : tpc' = [tpc EXCEPT ![t] = to] =>
              tpc'[t] = to /\ \A s \in Conns \ {t} : tpc'[s] = tpc[s]
  BY <1>1 DEF TypeOK
<1>3. ASSUME Sends, UNCHANGED <<fd, clients, mainVars, mtx, connFd, mes, inbox, sent, history>>,
             NEW a \in Serving, NEW b \in Serving, Goto(t, a, b)
      PROVE  TypeOK' /\ Tame(t)
  <2>1. tpc' \in [Conns -> {"none", "start", "hello", "recv", "lock", "switch", "unlock",
                            "leave", "gone"}]
    BY <1>1, <1>3 DEF TypeOK, Serving
  <2>2. TypeOK'
    BY <1>1, <1>3, <2>1 DEF TypeOK, Sends
  <2> QED
    BY <1>2, <1>3, <2>2 DEF Tame, Sends
<1>4. CASE SayHello(t)
  <2>1. connFd[t] \in Fds /\ [kind |-> "hello"] \in Messages
    BY <1>4 DEF BInv, SockInv, SayHello, Serving, Messages
  <2>2. Sends
    BY <1>4, <2>1, OneSend DEF SayHello
  <2> QED
    BY <1>3, <1>4, <2>2 DEF SayHello, Serving
<1>5. CASE Answer(t)
  <2>1. connFd[t] \in Fds /\ [kind |-> "ask"] \in Messages
    BY <1>5 DEF BInv, SockInv, Answer, Serving, Messages
  <2>2. Sends
    BY <1>5, <2>1, OneSend DEF Answer
  <2> QED
    BY <1>3, <1>5, <2>2 DEF Answer, Serving
<1>6. CASE Forward(t)
  <2>1. Sends
    BY <1>6, ForwardSends
  <2> QED
    BY <1>3, <1>6, <2>1 DEF Forward, Serving
<1>7. CASE Ignore(t)
  <2>1. Sends
    BY <1>1, <1>7 DEF Ignore, Sends, TypeOK
  <2> QED
    BY <1>3, <1>7, <2>1 DEF Ignore, Serving
<1>8. CASE Lock(t)
  <2>1. TypeOK'
    BY <1>1, <1>8 DEF Lock, TypeOK
  <2> QED
    BY <1>2, <1>8, <2>1 DEF Lock, Tame, Serving
<1>9. CASE Unlock(t) /\ tpc[t] = "unlock"
  <2>1. TypeOK'
    BY <1>1, <1>9 DEF Unlock, TypeOK
  <2> QED
    BY <1>2, <1>9, <2>1 DEF Unlock, Tame, Serving
<1>10. CASE Recv(t)
  <2>1. tpc' \in [Conns -> {"none", "start", "hello", "recv", "lock", "switch", "unlock",
                            "leave", "gone"}]
    BY <1>1, <1>10 DEF Recv, TypeOK
  <2>2. fd[connFd[t]] \in Conns
    <3>1. connFd[t] \in Fds
      BY <1>10 DEF BInv, SockInv, Recv, Serving
    <3> QED
      BY <1>1, <1>10, <3>1 DEF Recv, TypeOK
  <2> DEFINE R == Requests \cup {Bye}
             c == fd[connFd[t]]
  <2>3. inbox \in [Conns -> Seq(R)] /\ mes \in [Conns -> R \cup {Unset, Zero}]
    BY <1>1 DEF TypeOK
  <2>4. /\ \/ /\ inbox[c] # <<>>
              /\ mes' \in {[mes EXCEPT ![t] = Head(inbox[c])], [mes EXCEPT ![t] = Zero]}
              /\ inbox' = [inbox EXCEPT ![c] = Tail(inbox[c])]
           \/ UNCHANGED <<mes, inbox>>
    BY <1>10 DEF Recv
  <2> HIDE DEF R, c
  <2>5. inbox[c] # <<>> => Head(inbox[c]) \in R /\ Tail(inbox[c]) \in Seq(R)
    BY <2>2, <2>3, HeadTailProperties DEF c
  <2>6. inbox' \in [Conns -> Seq(R)] /\ mes' \in [Conns -> R \cup {Unset, Zero}]
    BY <2>3, <2>4, <2>5
  <2>7. TypeOK'
    <3>1. /\ UNCHANGED <<fd, clients, clntSock, accepted, mpc, mtx, connFd>>
          /\ UNCHANGED <<sent, got, peer, up, late, raced>>
      BY <1>10 DEF Recv
    <3> QED
      BY <1>1, <2>1, <2>6, <3>1 DEF TypeOK, R
  <2> QED
    BY <1>2, <1>10, <2>7 DEF Recv, Tame, Serving
<1> QED
  BY <1>4, <1>5, <1>6, <1>7, <1>8, <1>9, <1>10

-----------------------------------------------------------------------------
\* What holds whatever happens: the other steps.

LEMMA RemovedEntry ==
  ASSUME TypeOK, NEW t \in Conns, Disconnect(t)
  PROVE  clients' \in Seq(Entry)
<1> DEFINE I == {k \in 1..Len(clients) : clients[k].sock = connFd[t]}
           i == FirstIn(I)
<1>1. clients' = IF i = 0 THEN clients ELSE RemoveAt(clients, i)
  BY DEF Disconnect, SelectInSeq, FirstIn
<1>2. clients \in Seq(Entry) /\ Len(clients) \in Nat /\ I \in SUBSET (1..Len(clients))
  BY Entries
<1>3. i \in 0..Len(clients)
  <2> HIDE DEF I
  <2> QED
    BY <1>2, FirstInProperties
<1> HIDE DEF i
<1>4. i # 0 => i \in 1..Len(clients)
  BY <1>2, <1>3
<1> QED
  BY <1>1, <1>2, <1>4, RemoveAtProperties

LEMMA ThreadKeepsBInv ==
  ASSUME BInv, NEW t \in Conns,
         ReadArgument(t) \/ Disconnect(t) \/ (Unlock(t) /\ tpc[t] # "unlock")
  PROVE  BInv'
<1> USE DEF Goto, mainVars, history
<1>1. CASE ReadArgument(t)
  <2>1. clntSock \in Fds
    BY <1>1 DEF BInv, SockInv, ReadArgument
  <2>2. TypeOK'
    BY <1>1, <2>1 DEF BInv, TypeOK, ReadArgument
  <2>3. /\ tpc'[t] = "hello" /\ connFd'[t] \in Fds
        /\ \A s \in Conns \ {t} : tpc'[s] = tpc[s] /\ connFd'[s] = connFd[s]
        /\ UNCHANGED <<fd, peer, mpc, accepted, clntSock>>
    BY <1>1, <2>1 DEF BInv, TypeOK, ReadArgument
  <2> QED
    BY <2>1, <2>2, <2>3 DEF BInv, SockInv
<1>2. CASE Disconnect(t)
  <2>1. connFd[t] \in Fds /\ TypeOK /\ None \notin Conns
    BY <1>2, ChatConns DEF BInv, SockInv, Disconnect, Serving
  <2>2. clients' \in Seq([sock : Fds, addr : Conns])
    BY <1>2, <2>1, RemovedEntry DEF Entry
  <2>3. TypeOK'
    BY <1>2, <2>1, <2>2 DEF TypeOK, Disconnect
  <2>4. /\ tpc'[t] = "leave" /\ \A s \in Conns \ {t} : tpc'[s] = tpc[s]
        /\ \A x \in Fds : fd'[x] # None => fd'[x] = fd[x]
        /\ UNCHANGED <<peer, mpc, accepted, clntSock, connFd>>
    BY <1>2, <2>1 DEF TypeOK, Disconnect
  <2> QED
    BY <2>3, <2>4 DEF BInv, SockInv, Serving
<1>3. CASE Unlock(t) /\ tpc[t] # "unlock"
  <2>1. TypeOK'
    BY <1>3 DEF BInv, TypeOK, Unlock
  <2>2. /\ tpc'[t] = "gone" /\ \A s \in Conns \ {t} : tpc'[s] = tpc[s]
        /\ UNCHANGED <<fd, peer, mpc, accepted, clntSock, connFd>>
    BY <1>3 DEF BInv, TypeOK, Unlock
  <2> QED
    BY <2>1, <2>2 DEF BInv, SockInv, Serving
<1> QED
  BY <1>1, <1>2, <1>3

LEMMA MainKeepsBInv == ASSUME BInv, Main \/ Crash PROVE BInv'
<1> USE DEF mainVars, history
<1>1. CASE Accept
  <2>1. PICK c \in Backlog, f \in Fds : fd' = [fd EXCEPT ![f] = c] /\ clntSock' = f /\ accepted' = c
    BY <1>1 DEF Accept
  <2>2. c \in Conns /\ peer[c] # "none"
    BY DEF Backlog
  <2>3. TypeOK'
    BY <1>1, <2>1, <2>2 DEF BInv, TypeOK, Accept
  <2>4. fd'[f] = c /\ (\A x \in Fds \ {f} : fd'[x] = fd[x]) /\ UNCHANGED <<tpc, connFd, peer>>
    BY <1>1, <2>1 DEF BInv, TypeOK, Accept
  <2> QED
    BY <2>1, <2>2, <2>3, <2>4 DEF BInv, SockInv
<1>2. CASE PushBack
  <2>1. clntSock \in Fds /\ accepted \in Conns
    BY <1>2 DEF BInv, SockInv, PushBack
  <2> DEFINE e == [sock |-> clntSock, addr |-> accepted]
  <2>2. e \in Entry /\ clients \in Seq(Entry)
    BY <2>1, Entries DEF Entry, BInv
  <2>3. clients' = <<>> \/ clients' = Append(clients, e)
    BY <1>2 DEF PushBack
  <2> HIDE DEF e
  <2>4. clients' \in Seq(Entry)
    <3>1. Append(clients, e) \in Seq(Entry) /\ <<>> \in Seq(Entry)
      BY <2>2, AppendProperties
    <3> QED
      BY <2>3, <3>1
  <2>5. raced' \in BOOLEAN
    BY <1>2 DEF PushBack, BInv, TypeOK
  <2>6. TypeOK'
    BY <1>2, <2>4, <2>5 DEF BInv, TypeOK, PushBack, Entry
  <2>7. mpc' = "create" /\ UNCHANGED <<fd, peer, tpc, accepted, clntSock, connFd>>
    BY <1>2 DEF PushBack
  <2> QED
    BY <2>1, <2>6, <2>7 DEF BInv, SockInv
<1>3. CASE CreateThread
  <2>1. accepted \in Conns /\ clntSock \in Fds
    BY <1>3 DEF BInv, SockInv, CreateThread
  <2>2. TypeOK'
    BY <1>3, <2>1 DEF BInv, TypeOK, CreateThread
  <2>3. /\ tpc'[accepted] = "start" /\ \A s \in Conns \ {accepted} : tpc'[s] = tpc[s]
        /\ mpc' = "accept" /\ UNCHANGED <<fd, peer, clntSock, connFd>>
    BY <1>3, <2>1 DEF BInv, TypeOK, CreateThread
  <2> QED
    BY <2>1, <2>2, <2>3 DEF BInv, SockInv, Serving
<1>4. CASE Crash
  <2>1. TypeOK' /\ UNCHANGED <<fd, peer, tpc, mpc, accepted, clntSock, connFd>>
    BY <1>4 DEF Crash, BInv, TypeOK
  <2> QED
    BY <2>1 DEF BInv, SockInv
<1> QED
  BY <1>1, <1>2, <1>3, <1>4 DEF Main

LEMMA ClientKeepsBInv == ASSUME BInv, NEW c \in Conns, Client(c) PROVE BInv'
<1> USE DEF mainVars, history
<1>2. TypeOK'
  <2>1. CASE Connect(c)
    BY <2>1 DEF BInv, TypeOK, Connect
  <2>2. CASE Request(c)
    <3>1. PICK r \in Requests : /\ sent' = [sent EXCEPT ![c] = Append(@, r)]
                               /\ inbox' = [inbox EXCEPT ![c] = Append(@, r)]
      BY <2>2 DEF Request
    <3>2. sent' \in [Conns -> Seq(Requests)] /\ inbox' \in [Conns -> Seq(Requests \cup {Bye})]
      BY <3>1, AppendProperties DEF BInv, TypeOK
    <3> QED
      BY <2>2, <3>2 DEF BInv, TypeOK, Request
  <2>3. CASE Leave(c)
    <3>1. inbox' = inbox \/ inbox' = [inbox EXCEPT ![c] = Append(@, Bye)]
      BY <2>3 DEF Leave
    <3> DEFINE R == Requests \cup {Bye}
    <3>2. inbox \in [Conns -> Seq(R)] /\ Bye \in R
      BY DEF BInv, TypeOK
    <3> HIDE DEF R
    <3>3. Append(inbox[c], Bye) \in Seq(R)
      BY <3>2, AppendProperties
    <3>4. inbox' \in [Conns -> Seq(R)]
      BY <3>1, <3>2, <3>3
    <3> QED
      BY <2>3, <3>4 DEF BInv, TypeOK, Leave, R
  <2> QED
    BY <2>1, <2>2, <2>3 DEF Client
<1>3. /\ UNCHANGED <<fd, clntSock, accepted, mpc, tpc, connFd>>
      /\ \A d \in Conns : peer[d] # "none" => peer'[d] # "none"
  BY DEF Client, Connect, Request, Leave, BInv, TypeOK
<1>4. \A x \in Fds : fd[x] # None => fd[x] \in Conns
  BY DEF BInv, TypeOK
<1> QED
  BY <1>2, <1>3, <1>4 DEF BInv, SockInv

LEMMA NextKeepsBInv == BInv /\ [Next]_vars => BInv'
<1> SUFFICES ASSUME BInv, [Next]_vars PROVE BInv'
  OBVIOUS
<1>1. CASE UNCHANGED vars
  BY <1>1 DEF vars, BInv, TypeOK, SockInv
<1>2. ASSUME NEW t \in Conns, Thread(t) PROVE BInv'
  BY <1>2, TameSteps, ThreadKeepsBInv DEF Thread, Switch
<1> QED
  BY <1>1, <1>2, MainKeepsBInv, ClientKeepsBInv DEF Next, Quiet

LEMMA BInvariance == Spec => []BInv
<1>1. Init => BInv
  BY InitIInv DEF IInv, BInv
<1> QED
  BY <1>1, NextKeepsBInv, PTL DEF Spec

-----------------------------------------------------------------------------
\* The rest of the invariant.

LEMMA TameKeepsIInv ==
  ASSUME IInv, BInv', NEW t \in Conns, Tame(t)
  PROVE  IInv'
<1> USE DEF Tame, mainVars, Serving
<1>1. Starting' = Starting
  BY DEF Starting
<1>2. FdInv'
  <2>1. \A f \in Fds : fd[f] # None => fd[f] \in Conns
    BY DEF IInv, TypeOK
  <2>2. \A c \in Conns : /\ tpc[c] \notin {"leave", "gone"} => tpc'[c] \notin {"leave", "gone"}
                         /\ tpc'[c] = "none" => tpc[c] = "none"
    OBVIOUS
  <2> QED
    BY <2>1, <2>2 DEF IInv, FdInv
<1>3. MainInv'
  BY <1>1 DEF IInv, MainInv
<1>4. ThreadInv'
  BY DEF IInv, ThreadInv
<1>5. VectorInv'
  BY DEF IInv, VectorInv
<1> QED
  BY <1>2, <1>3, <1>4, <1>5 DEF IInv, BInv

\* The first step of a thread reads a variable that main has not overwritten.
LEMMA ReadArgumentKeepsIInv ==
  ASSUME IInv, BInv', NEW t \in Conns, ReadArgument(t)
  PROVE  IInv'
<1> USE DEF ReadArgument, Goto, mainVars
<1>1. clntSock \in Fds /\ fd[clntSock] = t
  BY DEF IInv, MainInv
<1>3. /\ tpc[t] = "start" /\ tpc'[t] = "hello" /\ connFd'[t] = clntSock
      /\ \A s \in Conns \ {t} : tpc'[s] = tpc[s] /\ connFd'[s] = connFd[s]
      /\ UNCHANGED <<fd, clients, clntSock, accepted, mpc, peer>>
  BY DEF IInv, TypeOK
<1>4. Starting' \subseteq Starting
  BY <1>3 DEF Starting
<1>5. FdInv'
  BY <1>3 DEF IInv, FdInv, TypeOK
<1>6. MainInv'
  BY <1>3, <1>4 DEF IInv, MainInv
<1>7. ThreadInv'
  BY <1>1, <1>3 DEF IInv, ThreadInv, Serving
<1>8. VectorInv'
  BY <1>3 DEF IInv, VectorInv
<1> QED
  BY <1>5, <1>6, <1>7, <1>8 DEF IInv, BInv

\* DISCONNECT takes out the only entry with the descriptor it closes.
LEMMA DisconnectKeepsIInv ==
  ASSUME IInv, BInv', NEW t \in Conns, Disconnect(t)
  PROVE  IInv'
<1> USE DEF Goto, mainVars
<1> DEFINE I == {k \in 1..Len(clients) : clients[k].sock = connFd[t]}
           i == FirstIn(I)
<1>1. connFd[t] \in Fds /\ fd[connFd[t]] = t
  BY DEF IInv, ThreadInv, Disconnect, Serving
<1>2. clients' = IF i = 0 THEN clients ELSE RemoveAt(clients, i)
  BY DEF Disconnect, SelectInSeq, FirstIn
<1>3. /\ clients \in Seq(Entry) /\ Len(clients) \in Nat
      /\ \A k \in 1..Len(clients) : clients[k].sock \in Fds /\ clients[k].addr \in Conns
  BY Entries DEF IInv
<1>4. /\ i \in 0..Len(clients)
      /\ i = 0 => \A k \in 1..Len(clients) : clients[k].sock # connFd[t]
      /\ i # 0 => clients[i].sock = connFd[t]
  <2>1. I \in SUBSET (1..Len(clients))
    OBVIOUS
  <2>2. i \in 0..Len(clients) /\ (i = 0 => I = {}) /\ (i # 0 => i \in I)
    <3> HIDE DEF I
    <3> QED
      BY <1>3, <2>1, FirstInProperties
  <2> QED
    BY <2>2
<1> HIDE DEF I, i
<1>5. /\ clients' \in Seq(Entry) /\ Len(clients') \in Nat
      /\ \A k \in 1..Len(clients') : \E j \in 1..Len(clients) :
           clients'[k] = clients[j] /\ j # i /\ j = IF i # 0 /\ ~(k < i) THEN k + 1 ELSE k
  <2>1. CASE i = 0
    BY <1>2, <1>3, <2>1
  <2>2. CASE i # 0
    <3>1. i \in 1..Len(clients)
      BY <1>4, <2>2
    <3>2. /\ clients' \in Seq(Entry) /\ Len(clients') = Len(clients) - 1
          /\ \A k \in 1..(Len(clients) - 1) :
               clients'[k] = IF k < i THEN clients[k] ELSE clients[k + 1]
      BY <1>2, <1>3, <2>2, <3>1, RemoveAtProperties
    <3>3. ASSUME NEW k \in 1..Len(clients')
          PROVE  \E j \in 1..Len(clients) :
                   clients'[k] = clients[j] /\ j # i /\ j = IF i # 0 /\ ~(k < i) THEN k + 1 ELSE k
      <4>1. k \in 1..(Len(clients) - 1) /\ k \in 1..Len(clients) /\ k + 1 \in 1..Len(clients)
        BY <1>3, <3>2
      <4>2. CASE k < i
        BY <3>2, <4>1, <4>2
      <4>3. CASE ~(k < i)
        <5>1. k + 1 # i /\ clients'[k] = clients[k + 1]
          BY <1>3, <3>1, <3>2, <4>1, <4>3
        <5> QED
          BY <2>2, <4>1, <4>3, <5>1
      <4> QED
        BY <4>2, <4>3
    <3> QED
      BY <1>3, <3>1, <3>2, <3>3
  <2> QED
    BY <2>1, <2>2
<1>6. /\ tpc[t] = "switch" /\ tpc'[t] = "leave" /\ \A s \in Conns \ {t} : tpc'[s] = tpc[s]
      /\ fd'[connFd[t]] = None /\ \A x \in Fds \ {connFd[t]} : fd'[x] = fd[x]
      /\ UNCHANGED <<clntSock, accepted, mpc, peer, connFd>>
  BY <1>1 DEF IInv, TypeOK, Disconnect
<1>8. Starting' \subseteq Starting
  BY <1>6 DEF Starting
<1>9. \A x \in Fds \ {connFd[t]} : fd[x] # t
  BY <1>1, ChatConns DEF IInv, FdInv
<1>10. FdInv'
  <2>1. \A x \in Fds : fd'[x] # None =>
          x # connFd[t] /\ fd'[x] = fd[x] /\ fd[x] # t /\ fd[x] \in Conns
    BY <1>6, <1>9 DEF IInv, TypeOK
  <2>2. \A x \in Fds : fd'[x] # None => tpc'[fd'[x]] = tpc[fd[x]]
    BY <1>6, <2>1
  <2> QED
    BY <1>6, <2>1, <2>2 DEF IInv, FdInv
<1>11. \A x \in Fds : fd[x] # t => fd'[x] = fd[x]
  BY <1>1, <1>6
<1>12. MainInv'
  BY <1>6, <1>8, <1>11 DEF IInv, MainInv
<1>13. ThreadInv'
  BY <1>6, <1>11 DEF IInv, ThreadInv, Serving
<1>14. VectorInv'
  <2>1. ASSUME NEW j \in 1..Len(clients), j # i PROVE fd'[clients[j].sock] = clients[j].addr
    <3>1. fd[clients[j].sock] = clients[j].addr /\ clients[j].sock \in Fds /\ clients[j].addr \in Conns
      BY <1>3 DEF IInv, VectorInv
    <3>2. clients[j].sock # connFd[t]
      <4> SUFFICES ASSUME clients[j].sock = connFd[t] PROVE FALSE
        OBVIOUS
      <4>1. i \in 1..Len(clients) /\ clients[i].sock = connFd[t]
        BY <1>4
      <4>2. clients[i].addr = clients[j].addr
        BY <3>1, <4>1 DEF IInv, VectorInv
      <4> QED
        BY <2>1, <4>1, <4>2 DEF IInv, VectorInv
    <3> QED
      BY <1>6, <3>1, <3>2
  <2>2. \A k \in 1..Len(clients') : fd'[clients'[k].sock] = clients'[k].addr
    BY <1>5, <2>1
  <2>3. ASSUME NEW k \in 1..Len(clients'), NEW l \in 1..Len(clients'),
               clients'[k].addr = clients'[l].addr
        PROVE  k = l
    <3>1. PICK a \in 1..Len(clients) :
            clients'[k] = clients[a] /\ a # i /\ a = IF i # 0 /\ ~(k < i) THEN k + 1 ELSE k
      BY <1>5
    <3>2. PICK b \in 1..Len(clients) :
            clients'[l] = clients[b] /\ b # i /\ b = IF i # 0 /\ ~(l < i) THEN l + 1 ELSE l
      BY <1>5
    <3>3. a = b
      BY <2>3, <3>1, <3>2 DEF IInv, VectorInv
    <3>4. i \in Int /\ k \in Int /\ l \in Int
      BY <1>3, <1>4
    <3> QED
      BY <3>1, <3>2, <3>3, <3>4
  <2>4. mpc' = "push" => \A k \in 1..Len(clients') : clients'[k].addr # accepted'
    BY <1>5, <1>6 DEF IInv, VectorInv
  <2> QED
    BY <2>2, <2>3, <2>4 DEF VectorInv
<1> QED
  BY <1>10, <1>12, <1>13, <1>14 DEF IInv, BInv

\* The end of a thread whose descriptor is closed.
LEMMA EndKeepsIInv ==
  ASSUME IInv, BInv', NEW t \in Conns, Unlock(t), tpc[t] # "unlock"
  PROVE  IInv'
<1> USE DEF Unlock, Goto, mainVars
<1>2. /\ tpc[t] = "leave" /\ tpc'[t] = "gone" /\ \A s \in Conns \ {t} : tpc'[s] = tpc[s]
      /\ UNCHANGED <<fd, clients, clntSock, accepted, mpc, peer, connFd>>
  BY DEF IInv, TypeOK
<1>3. Starting' \subseteq Starting
  BY <1>2 DEF Starting
<1>4. FdInv'
  BY <1>2 DEF IInv, FdInv, TypeOK
<1>5. MainInv'
  BY <1>2, <1>3 DEF IInv, MainInv
<1>6. ThreadInv'
  BY <1>2 DEF IInv, ThreadInv, Serving
<1>7. VectorInv'
  BY <1>2 DEF IInv, VectorInv
<1> QED
  BY <1>4, <1>5, <1>6, <1>7 DEF IInv, BInv

-----------------------------------------------------------------------------
\* main.

\* accept gives a connection a descriptor that nobody has.
LEMMA AcceptKeepsIInv ==
  ASSUME IInv, BInv', ~late', Accept
  PROVE  IInv'
<1>1. PICK c \in Backlog, f \in Fds :
        /\ fd[f] = None /\ fd' = [fd EXCEPT ![f] = c]
        /\ clntSock' = f /\ accepted' = c
  BY DEF Accept
<1>2. /\ c \in Conns /\ peer[c] # "none" /\ tpc[c] = "none" /\ \A x \in Fds : fd[x] # c
  BY DEF Backlog
<1>3. /\ mpc = "accept" /\ mpc' = "push" /\ Starting = {}
      /\ UNCHANGED <<clients, tpc, connFd, peer>>
  BY DEF Accept
<1>4. fd'[f] = c /\ \A x \in Fds \ {f} : fd'[x] = fd[x]
  BY <1>1 DEF IInv, TypeOK
<1>6. c # None
  BY <1>2, ChatConns
<1>7. FdInv'
  BY <1>1, <1>2, <1>3, <1>4, <1>6 DEF IInv, FdInv
<1>8. MainInv'
  BY <1>1, <1>2, <1>3, <1>4 DEF MainInv, Starting
<1>9. \A x \in Fds : fd[x] # None => fd'[x] = fd[x]
  BY <1>1, <1>4
<1>10. ThreadInv'
  BY <1>3, <1>9, ChatConns DEF IInv, ThreadInv
<1>11. VectorInv'
  BY <1>1, <1>2, <1>3, <1>9, Entries, ChatConns DEF IInv, VectorInv
<1> QED
  BY <1>7, <1>8, <1>10, <1>11 DEF IInv, BInv

\* push_back, or the end of what can be said of the vector.
LEMMA PushBackKeepsIInv ==
  ASSUME IInv, BInv', PushBack
  PROVE  IInv'
<1>1. mpc = "push" /\ mpc' = "create" /\ UNCHANGED <<fd, clntSock, accepted, tpc, connFd, peer>>
  BY DEF PushBack
<1> DEFINE e == [sock |-> clntSock, addr |-> accepted]
<1>2. clients' = <<>> \/ clients' = Append(clients, e)
  BY DEF PushBack
<1>3. clntSock \in Fds /\ accepted \in Conns /\ fd[clntSock] = accepted
  BY <1>1 DEF IInv, MainInv
<1>4. e \in Entry /\ e.sock = clntSock /\ e.addr = accepted
  BY <1>3 DEF Entry
<1> HIDE DEF e
<1>5. clients \in Seq(Entry) /\ Len(clients) \in Nat
  BY Entries DEF IInv
<1>6. Starting' = Starting
  BY <1>1 DEF Starting
<1>7. FdInv' /\ ThreadInv'
  BY <1>1 DEF IInv, FdInv, ThreadInv
<1>8. MainInv'
  BY <1>1, <1>6 DEF IInv, MainInv
<1>9. VectorInv'
  <2>1. CASE clients' = <<>>
    BY <2>1 DEF VectorInv
  <2>2. CASE clients' = Append(clients, e)
    <3>1. /\ Len(clients') = Len(clients) + 1 /\ clients'[Len(clients) + 1] = e
          /\ \A k \in 1..Len(clients) : clients'[k] = clients[k]
      BY <1>4, <1>5, <2>2, AppendProperties
    <3>2. \A k \in 1..Len(clients') : k \in 1..Len(clients) \/ k = Len(clients) + 1
      BY <1>5, <3>1
    <3> QED
      BY <1>1, <1>3, <1>4, <3>1, <3>2 DEF IInv, VectorInv
  <2> QED
    BY <1>2, <2>1, <2>2
<1> QED
  BY <1>7, <1>8, <1>9 DEF IInv, BInv

\* pthread_create.
LEMMA CreateThreadKeepsIInv ==
  ASSUME IInv, BInv', CreateThread
  PROVE  IInv'
<1>1. /\ mpc = "create" /\ mpc' = "accept" /\ UNCHANGED <<fd, clients, clntSock, connFd, peer>>
      /\ tpc' = [tpc EXCEPT ![accepted] = "start"]
  BY DEF CreateThread
<1>2. /\ accepted \in Conns /\ clntSock \in Fds /\ fd[clntSock] = accepted
      /\ tpc[accepted] = "none" /\ Starting = {}
  BY <1>1 DEF IInv, MainInv
<1>3. tpc'[accepted] = "start" /\ \A s \in Conns \ {accepted} : tpc'[s] = tpc[s]
  BY <1>1, <1>2 DEF IInv, TypeOK
<1>5. FdInv'
  BY <1>1, <1>2, <1>3 DEF IInv, FdInv, TypeOK
<1>6. MainInv'
  BY <1>1, <1>2, <1>3 DEF IInv, MainInv, Starting
<1>7. ThreadInv'
  BY <1>1, <1>2, <1>3 DEF IInv, ThreadInv, Serving
<1>8. VectorInv'
  BY <1>1 DEF IInv, VectorInv
<1> QED
  BY <1>5, <1>6, <1>7, <1>8 DEF IInv, BInv

\* The clients, and the end of the server.
LEMMA ClientKeepsIInv ==
  ASSUME IInv, BInv', (\E c \in Conns : Client(c)) \/ Crash
  PROVE  IInv'
<1>1. /\ UNCHANGED <<fd, clients, clntSock, accepted, mpc, tpc, connFd>>
      /\ \A d \in Conns : peer[d] # "none" => peer'[d] # "none"
  BY DEF Client, Connect, Request, Leave, Crash, mainVars, IInv, TypeOK
<1>2. Starting' = Starting
  BY <1>1 DEF Starting
<1>3. FdInv' /\ MainInv' /\ ThreadInv' /\ VectorInv'
  BY <1>1, <1>2 DEF IInv, TypeOK, FdInv, MainInv, ThreadInv, VectorInv
<1> QED
  BY <1>3 DEF IInv, BInv

-----------------------------------------------------------------------------
\* `late` is a history: it stays.
LEMMA LateStays == ASSUME [Next]_vars, ~late' PROVE late = FALSE \/ late \notin BOOLEAN
BY DEF Next, Main, Accept, PushBack, Crash, CreateThread, Thread, Switch, ReadArgument, SayHello,
   Recv, Lock, Disconnect, Answer, Forward, Ignore, Unlock, Client, Connect, Request, Leave, Quiet,
   vars, history

LEMMA NextKeepsIInv == IInv /\ ~late' /\ [Next]_vars => IInv'
<1> SUFFICES ASSUME IInv, ~late', [Next]_vars PROVE IInv'
  OBVIOUS
<1>1. BInv'
  BY NextKeepsBInv DEF IInv, BInv
<1>2. CASE UNCHANGED vars
  BY <1>2 DEF vars, mainVars, IInv, TypeOK, SockInv, FdInv, MainInv, ThreadInv, VectorInv, Starting
<1>3. ASSUME NEW t \in Conns, Thread(t) PROVE IInv'
  <2>1. BInv
    BY DEF IInv, BInv
  <2> QED
    BY <1>1, <1>3, <2>1, TameSteps, TameKeepsIInv, ReadArgumentKeepsIInv, DisconnectKeepsIInv,
       EndKeepsIInv DEF Thread, Switch
<1>4. CASE Main
  BY <1>1, <1>4, AcceptKeepsIInv, PushBackKeepsIInv, CreateThreadKeepsIInv DEF Main
<1> QED
  BY <1>1, <1>2, <1>3, <1>4, ClientKeepsIInv DEF Next, Quiet

LEMMA Invariance == Spec => [](~late => IInv)
<1>1. (~late => IInv) /\ BInv /\ [Next]_vars => (~late => IInv)'
  BY LateStays, NextKeepsIInv DEF BInv, TypeOK
<1>2. Init => (~late => IInv)
  BY InitIInv
<1> QED
  BY <1>1, <1>2, BInvariance, PTL DEF Spec

\* For any number of clients: a thread reads and closes the descriptor of the connection
\* it was started for (server.cpp:27, :55), as long as main has not been back in accept
\* before a new thread had read its argument (:174-186).
THEOREM OwnDescriptor == Spec => []OwnUnlessLate
<1>1. (~late => IInv) => OwnUnlessLate
  BY DEF IInv, ThreadInv, OwnConnection, OwnUnlessLate
<1> QED
  BY <1>1, Invariance, PTL

\* For any number of clients: the vector leads to open descriptors of the clients it
\* names, and none outlives its thread (server.cpp:43-58, :181), as long as no thread has
\* read the wrong argument and no push_back has overlapped a critical section.
THEOREM OpenEntries == Spec => []ListedAreOpen
<1>1. BInv /\ (~late => IInv) => ListedAreOpen
  <2> SUFFICES ASSUME BInv, ~late => IInv PROVE ListedAreOpen
    OBVIOUS
  <2>1. ~late => \A f \in Fds : fd[f] # None => tpc[fd[f]] # "gone"
    BY DEF IInv, FdInv
  <2>2. ~late => \A i \in DOMAIN clients : /\ fd[clients[i].sock] = clients[i].addr
                                           /\ clients[i].sock \in Fds /\ clients[i].addr # None
    BY Entries, ChatConns DEF IInv, VectorInv
  <2>3. ~late => \A i \in DOMAIN clients : tpc[clients[i].addr] # "gone"
    BY <2>1, <2>2
  <2> QED
    BY <2>1, <2>2, <2>3 DEF BInv, ListedAreOpen, Listed
<1> QED
  BY <1>1, BInvariance, Invariance, PTL

-----------------------------------------------------------------------------
\* What a client gets are the answers to its own requests.

\* What c is forwarded is addressed to it.
Addressed(s, c) == \A k \in DOMAIN s : s[k].kind = "repost" => s[k].to = c

\* The client of c has been answered all its requests but r.
Outstanding(c, r) ==
  Cardinality(RepliesIn(got[c])) + 1 = Len(sent[c]) /\ r = sent[c][Len(sent[c])]

\* A request under way is in one place, the connection or the thread's buffer, and it is
\* the last of its client and the only one that has no answer.
AnswerOf(c) ==
  /\ Answers(got[c], sent[c]) /\ Cardinality(RepliesIn(got[c])) <= Len(sent[c])
  /\ Len(inbox[c]) <= 1
  /\ inbox[c] # <<>> => /\ Head(inbox[c]) = Bye => peer[c] \in {"closed", "reset"}
                        /\ Head(inbox[c]) \in Requests => Outstanding(c, Head(inbox[c]))
  /\ tpc[c] \in {"lock", "switch"} /\ mes[c] \in Requests =>
       Outstanding(c, mes[c]) /\ (inbox[c] # <<>> => Head(inbox[c]) \notin Requests)
  /\ tpc[c] \in {"none", "start", "hello", "recv"} => mes[c] \in {Zero, Unset}
  /\ raced \/ Addressed(got[c], c)

AnswerInv == \A c \in Conns : AnswerOf(c)

AInv == IInv /\ AnswerInv

\* What a message more does to the answers in a sequence.
LEMMA RepliesAppended ==
  ASSUME NEW s \in Seq(Messages), NEW m \in Messages
  PROVE  /\ Len(s) \in Nat /\ Append(s, m) \in Seq(Messages) /\ Len(Append(s, m)) = Len(s) + 1
         /\ \A k \in 1..Len(s) : Append(s, m)[k] = s[k]
         /\ Append(s, m)[Len(s) + 1] = m
         /\ RepliesIn(s) \subseteq 1..Len(s) /\ IsFiniteSet(RepliesIn(s))
         /\ RepliesIn(Append(s, m)) =
              IF m.kind \in {"ask", "send"} THEN RepliesIn(s) \cup {Len(s) + 1} ELSE RepliesIn(s)
<1>1. /\ Len(s) \in Nat /\ Append(s, m) \in Seq(Messages) /\ Len(Append(s, m)) = Len(s) + 1
      /\ \A k \in 1..Len(s) : Append(s, m)[k] = s[k]
      /\ Append(s, m)[Len(s) + 1] = m
  BY AppendProperties
<1>2. DOMAIN s = 1..Len(s) /\ DOMAIN Append(s, m) = 1..(Len(s) + 1)
  BY <1>1
<1>3. RepliesIn(s) \subseteq 1..Len(s)
  BY <1>2 DEF RepliesIn
<1>4. IsFiniteSet(RepliesIn(s))
  <2>1. IsFiniteSet(1..Len(s))
    BY <1>1, FS_Interval
  <2> QED
    BY <1>3, <2>1, FS_Subset
<1>5. \A k : k \in 1..(Len(s) + 1) <=> k \in 1..Len(s) \/ k = Len(s) + 1
  BY <1>1
<1>6. \A k : k \in RepliesIn(Append(s, m)) <=>
             k \in RepliesIn(s) \/ (k = Len(s) + 1 /\ m.kind \in {"ask", "send"})
  BY <1>1, <1>2, <1>5 DEF RepliesIn
<1> QED
  BY <1>1, <1>3, <1>4, <1>6

LEMMA NoReplyAppended ==
  ASSUME NEW s \in Seq(Messages), NEW m \in Messages, m.kind \notin {"ask", "send"}
  PROVE  RepliesIn(Append(s, m)) = RepliesIn(s)
BY RepliesAppended

\* The answers up to an old one are the same.
LEMMA CountKept ==
  ASSUME NEW s \in Seq(Messages), NEW m \in Messages, NEW k \in 1..Len(s)
  PROVE  {i \in RepliesIn(Append(s, m)) : i <= k} = {i \in RepliesIn(s) : i <= k}
<1>1. k < Len(s) + 1 /\ ~(Len(s) + 1 <= k)
  OBVIOUS
<1> QED
  BY <1>1, RepliesAppended

LEMMA AddressedKept ==
  ASSUME NEW s \in Seq(Messages), NEW m \in Messages, NEW c, Addressed(s, c),
         m.kind = "repost" => m.to = c
  PROVE  Addressed(Append(s, m), c)
<1>1. /\ \A k \in DOMAIN Append(s, m) : k \in DOMAIN s \/ k = Len(s) + 1
      /\ \A k \in DOMAIN s : Append(s, m)[k] = s[k]
      /\ Append(s, m)[Len(s) + 1] = m
  BY AppendProperties
<1> QED
  BY <1>1 DEF Addressed

LEMMA OtherMessage ==
  ASSUME NEW s \in Seq(Messages), NEW m \in Messages, NEW q, Answers(s, q),
         m.kind \notin {"ask", "send"}
  PROVE  Answers(Append(s, m), q) /\ RepliesIn(Append(s, m)) = RepliesIn(s)
<1>1. /\ RepliesIn(Append(s, m)) = RepliesIn(s) /\ RepliesIn(s) \subseteq 1..Len(s)
      /\ \A k \in 1..Len(s) : Append(s, m)[k] = s[k]
  BY RepliesAppended
<1> QED
  BY <1>1 DEF Answers

LEMMA Answered ==
  ASSUME NEW s \in Seq(Messages), NEW m \in Messages, NEW q \in Seq(Requests), Answers(s, q),
         m.kind \in {"ask", "send"}, Cardinality(RepliesIn(s)) + 1 = Len(q),
         m.kind = q[Len(q)].type
  PROVE  Answers(Append(s, m), q) /\ Cardinality(RepliesIn(Append(s, m))) = Len(q)
<1> DEFINE s1 == Append(s, m)
<1>1. /\ Len(s) \in Nat /\ RepliesIn(s) \subseteq 1..Len(s) /\ IsFiniteSet(RepliesIn(s))
      /\ RepliesIn(s1) = RepliesIn(s) \cup {Len(s) + 1}
      /\ s1[Len(s) + 1] = m /\ \A k \in 1..Len(s) : s1[k] = s[k]
  BY RepliesAppended
<1>2. \A k \in 1..Len(s) : {i \in RepliesIn(s1) : i <= k} = {i \in RepliesIn(s) : i <= k}
  BY CountKept
<1> HIDE DEF s1
<1>3. Len(s) + 1 \notin RepliesIn(s)
  BY <1>1
<1>4. Cardinality(RepliesIn(s1)) = Cardinality(RepliesIn(s)) + 1
  BY <1>1, <1>3, FS_AddElement
<1>5. {i \in RepliesIn(s1) : i <= Len(s) + 1} = RepliesIn(s1)
  BY <1>1
<1>6. Len(q) \in Nat
  OBVIOUS
<1>7. ASSUME NEW k \in RepliesIn(s1)
      PROVE  /\ Cardinality({i \in RepliesIn(s1) : i <= k}) <= Len(q)
             /\ s1[k].kind = q[Cardinality({i \in RepliesIn(s1) : i <= k})].type
  <2>1. CASE k = Len(s) + 1
    <3>1. Cardinality({i \in RepliesIn(s1) : i <= k}) = Len(q)
      BY <1>4, <1>5, <2>1
    <3>2. s1[k] = m
      BY <1>1, <2>1
    <3> QED
      BY <1>6, <3>1, <3>2
  <2>2. CASE k # Len(s) + 1
    <3>1. k \in RepliesIn(s) /\ k \in 1..Len(s)
      BY <1>1, <2>2
    <3> QED
      BY <1>1, <1>2, <3>1 DEF Answers
  <2> QED
    BY <2>1, <2>2
<1>8. Answers(s1, q)
  BY <1>7 DEF Answers
<1> QED
  BY <1>4, <1>8 DEF s1

LEMMA AskedMore ==
  ASSUME NEW s \in Seq(Messages), NEW q \in Seq(Requests), NEW r \in Requests, Answers(s, q),
         Cardinality(RepliesIn(s)) <= Len(q)
  PROVE  Answers(s, Append(q, r))
<1>1. /\ Len(q) \in Nat /\ Len(Append(q, r)) = Len(q) + 1
      /\ \A k \in 1..Len(q) : Append(q, r)[k] = q[k]
  BY AppendProperties
<1>2. RepliesIn(s) \subseteq 1..Len(s) /\ Len(s) \in Nat
  BY DEF RepliesIn
<1>3. IsFiniteSet(RepliesIn(s))
  <2>1. IsFiniteSet(1..Len(s))
    BY <1>2, FS_Interval
  <2> QED
    BY <1>2, <2>1, FS_Subset
<1>4. ASSUME NEW k \in RepliesIn(s)
      PROVE  Cardinality({i \in RepliesIn(s) : i <= k}) \in 1..Len(q)
  <2> DEFINE C == {i \in RepliesIn(s) : i <= k}
  <2>1. k \in C /\ C \subseteq RepliesIn(s)
    BY <1>2
  <2>2. IsFiniteSet(C)
    BY <1>3, <2>1, FS_Subset
  <2> HIDE DEF C
  <2>3. Cardinality(C) \in Nat /\ Cardinality(C) # 0
    BY <2>1, <2>2, FS_CardinalityType, FS_EmptySet
  <2>4. Cardinality(C) <= Len(q)
    BY <2>1, <1>4 DEF Answers, C
  <2> QED
    BY <1>1, <2>3, <2>4 DEF C
<1>5. ASSUME NEW k \in RepliesIn(s), NEW n, n = Cardinality({i \in RepliesIn(s) : i <= k})
      PROVE  n <= Len(Append(q, r)) /\ s[k].kind = Append(q, r)[n].type
  <2>1. n \in 1..Len(q) /\ s[k].kind = q[n].type
    BY <1>4, <1>5 DEF Answers
  <2> QED
    BY <1>1, <2>1
<1> QED
  BY <1>5 DEF Answers

-----------------------------------------------------------------------------
\* What becomes of the network when m is sent to c, which may have closed its end.
Delivers(s, z, c, m) ==
  /\ \A d \in Conns : z.got[d] = s.got[d] \/ (d = c /\ z.got[d] = Append(s.got[d], m))
  /\ \A d \in Conns : z.peer[d] = s.peer[d] \/ {s.peer[d], z.peer[d]} \subseteq {"closed", "reset"}

\* A client that is there, and a server too, after m was sent to the client has got it.
Reaches(s, z, c, m) ==
  c \in Conns /\ z.peer[c] = "open" /\ z.up => z.got[c] = Append(s.got[c], m)

LEMMA SendDelivers ==
  ASSUME NEW s \in Nets, NEW x \in Fds, NEW m \in Messages, fd \in [Fds -> Conns \cup {None}],
         fd[x] # None => s.peer[fd[x]] # "none"
  PROVE  Delivers(s, Send(s, x, m), fd[x], m) /\ Reaches(s, Send(s, x, m), fd[x], m)
<1>1. CASE fd[x] = None
  BY <1>1, ChatConns DEF Send, Delivers, Reaches
<1>2. CASE fd[x] # None
  <2>1. fd[x] \in Conns /\ s.peer[fd[x]] \in {"open", "closed", "reset"}
    BY <1>2 DEF Nets
  <2>2. CASE s.peer[fd[x]] = "open"
    <3>1. Send(s, x, m) = [s EXCEPT !.got[fd[x]] = Append(@, m)]
      BY <1>2, <2>2 DEF Send
    <3>2. Send(s, x, m) = [got |-> [s.got EXCEPT ![fd[x]] = Append(s.got[fd[x]], m)],
                           peer |-> s.peer, up |-> s.up]
      BY <3>1 DEF Nets
    <3>3. Delivers(s, Send(s, x, m), fd[x], m)
      BY <2>1, <3>2 DEF Nets, Delivers
    <3>4. Send(s, x, m).got[fd[x]] = Append(s.got[fd[x]], m)
      BY <2>1, <3>2 DEF Nets
    <3> QED
      BY <3>3, <3>4 DEF Reaches
  <2>3. CASE s.peer[fd[x]] = "closed"
    <3>1. Send(s, x, m) = [s EXCEPT !.peer[fd[x]] = "reset"]
      BY <1>2, <2>3 DEF Send
    <3>2. Send(s, x, m) = [got |-> s.got, peer |-> [s.peer EXCEPT ![fd[x]] = "reset"],
                           up |-> s.up]
      BY <3>1 DEF Nets
    <3>3. Delivers(s, Send(s, x, m), fd[x], m)
      BY <2>1, <2>3, <3>2 DEF Nets, Delivers
    <3>4. Send(s, x, m).peer[fd[x]] = "reset"
      BY <2>1, <3>2 DEF Nets
    <3> QED
      BY <3>3, <3>4 DEF Reaches
  <2>4. CASE s.peer[fd[x]] = "reset"
    <3>1. Send(s, x, m) = [s EXCEPT !.up = FALSE]
      BY <1>2, <2>4 DEF Send
    <3> QED
      BY <2>1, <3>1 DEF Nets, Delivers, Reaches
  <2> QED
    BY <2>1, <2>2, <2>3, <2>4
<1> QED
  BY <1>1, <1>2

\* The same for the variables.
NetKept == \A d \in Conns : peer'[d] = peer[d] \/ {peer[d], peer'[d]} \subseteq {"closed", "reset"}

LEMMA OneDelivery ==
  ASSUME IInv, NEW x \in Fds, NEW m \in Messages, BecomeNet(Send(Net, x, m))
  PROVE  /\ NetKept
         /\ \A d \in Conns : got'[d] = got[d] \/ (d = fd[x] /\ got'[d] = Append(got[d], m))
         /\ \A d \in Conns : d = fd[x] /\ peer'[d] = "open" /\ up' => got'[d] = Append(got[d], m)
<1>1. Net \in Nets /\ Net.peer = peer /\ Net.got = got
  BY DEF Net, Nets, IInv, TypeOK
<1>2. fd \in [Fds -> Conns \cup {None}] /\ (fd[x] # None => Net.peer[fd[x]] # "none")
  BY <1>1 DEF IInv, TypeOK, FdInv
<1>3. Delivers(Net, Send(Net, x, m), fd[x], m) /\ Reaches(Net, Send(Net, x, m), fd[x], m)
  BY <1>1, <1>2, SendDelivers
<1> QED
  BY <1>1, <1>3 DEF BecomeNet, Delivers, Reaches, NetKept

\* A message is forwarded to the client it names, if anyone and while the vector is
\* defined, and the sender has its answer.
Forwarded(t, g) == \A d \in Conns :
  /\ \/ g[d] = got[d]
     \/ (raced \/ d = mes[t].to) /\ g[d] = Append(got[d], [kind |-> "repost", to |-> mes[t].to])
  /\ got'[d] = g[d] \/ (d = t /\ got'[d] = Append(g[d], [kind |-> "send"]))
  /\ d = t /\ peer'[d] = "open" /\ up' => got'[d] = Append(g[d], [kind |-> "send"])

LEMMA ForwardDelivers ==
  ASSUME IInv, NEW t \in Conns, Forward(t)
  PROVE  /\ NetKept
         /\ mes[t].to \in Conns
         /\ \E g \in [Conns -> Seq(Messages)] : Forwarded(t, g)
<1> DEFINE m == [kind |-> "repost", to |-> mes[t].to]
           r == [kind |-> "send"]
<1>1. connFd[t] \in Fds /\ fd[connFd[t]] = t /\ BInv
  BY DEF IInv, BInv, ThreadInv, Forward, Goto, Serving
<1>2. PICK f \in {0} \cup Fds :
        /\ Repost(t, f)
        /\ \/ raced \/ f = 0
           \/ \E k \in 1..Len(clients) : clients[k].addr = mes[t].to /\ clients[k].sock = f
  BY <1>1, ForwardIs
<1>3. mes[t].to \in Conns /\ m \in Messages /\ r \in Messages
  BY <1>1, ForwardIs DEF Messages
<1> DEFINE s == IF f = 0 THEN Net ELSE Send(Net, f, m)
<1>4. BecomeNet(IF s.up THEN Send(s, connFd[t], r) ELSE s)
  BY <1>2 DEF Repost
<1>5. raced \/ f = 0 \/ fd[f] = mes[t].to
  BY <1>2 DEF IInv, VectorInv
<1>7. Net \in Nets /\ Net.peer = peer /\ Net.got = got
  BY DEF Net, Nets, IInv, TypeOK
<1>8. /\ fd \in [Fds -> Conns \cup {None}]
      /\ \A x \in Fds : fd[x] # None => fd[x] \in Conns /\ peer[fd[x]] # "none"
  BY DEF IInv, TypeOK, FdInv
<1> HIDE DEF m, r
<1>9. /\ s \in Nets /\ \A c \in Conns : peer[c] # "none" => s.peer[c] # "none"
      /\ f = 0 => s = Net
      /\ f # 0 => Delivers(Net, s, fd[f], m)
  <2>1. CASE f = 0
    BY <1>7, <2>1
  <2>2. CASE f # 0
    <3>1. f \in Fds /\ (fd[f] # None => Net.peer[fd[f]] # "none")
      BY <1>7, <1>8, <2>2
    <3> QED
      BY <1>3, <1>7, <1>8, <2>2, <3>1, SendKeepsNet, SendDelivers
  <2> QED
    BY <2>1, <2>2
<1>10. /\ \A d \in Conns : \/ s.got[d] = got[d]
                           \/ (raced \/ d = mes[t].to) /\ s.got[d] = Append(got[d], m)
       /\ \A d \in Conns : s.peer[d] = peer[d] \/ {peer[d], s.peer[d]} \subseteq {"closed", "reset"}
  <2>1. CASE f = 0
    BY <1>7, <1>9, <2>1
  <2>2. CASE f # 0
    BY <1>5, <1>7, <1>9, <2>2 DEF Delivers
  <2> QED
    BY <2>1, <2>2
<1> HIDE DEF s
<1>11. fd[connFd[t]] # None => s.peer[fd[connFd[t]]] # "none"
  BY <1>1, <1>8, <1>9
<1>12. Delivers(s, Send(s, connFd[t], r), t, r) /\ Reaches(s, Send(s, connFd[t], r), t, r)
  BY <1>1, <1>3, <1>8, <1>9, <1>11, SendDelivers
<1>13. \/ got' = s.got /\ peer' = s.peer /\ ~up'
       \/ /\ got' = Send(s, connFd[t], r).got /\ peer' = Send(s, connFd[t], r).peer
          /\ up' = Send(s, connFd[t], r).up
  BY <1>4 DEF BecomeNet
<1>14. /\ \A d \in Conns : got'[d] = s.got[d] \/ (d = t /\ got'[d] = Append(s.got[d], r))
       /\ \A d \in Conns : peer'[d] = s.peer[d] \/ {s.peer[d], peer'[d]} \subseteq {"closed", "reset"}
       /\ peer'[t] = "open" /\ up' => got'[t] = Append(s.got[t], r)
  BY <1>12, <1>13 DEF Delivers, Reaches
<1>15. NetKept
  BY <1>10, <1>14 DEF NetKept
<1>16. s.got \in [Conns -> Seq(Messages)]
  BY <1>9 DEF Nets
<1>17. Forwarded(t, s.got)
  BY <1>10, <1>14 DEF m, r, Forwarded
<1> QED
  BY <1>3, <1>15, <1>16, <1>17

-----------------------------------------------------------------------------
\* A client that gets no answer and asks nothing.
NotAnswered(c, m) ==
  /\ sent'[c] = sent[c] /\ inbox'[c] = inbox[c] /\ mes'[c] = mes[c]
  /\ got'[c] = got[c] \/ got'[c] = Append(got[c], m)
  /\ raced => raced'
  /\ peer[c] \in {"closed", "reset"} => peer'[c] \in {"closed", "reset"}
  /\ tpc'[c] \in {"lock", "switch"} => tpc[c] \in {"lock", "switch"}
  /\ tpc'[c] \in {"none", "start", "hello", "recv"} => tpc[c] \in {"none", "start", "hello", "recv"}

LEMMA NotAnsweredKeeps ==
  ASSUME AInv, NEW c \in Conns, NEW m \in Messages, m.kind \notin {"ask", "send"},
         m.kind = "repost" => raced \/ m.to = c, NotAnswered(c, m)
  PROVE  AnswerOf(c)'
<1> USE DEF NotAnswered
<1>1. AnswerOf(c) /\ got[c] \in Seq(Messages)
  BY DEF AInv, AnswerInv, IInv, TypeOK
<1>2. /\ RepliesIn(got'[c]) = RepliesIn(got[c]) /\ Answers(got'[c], sent[c])
      /\ raced' \/ Addressed(got'[c], c)
  <2>1. CASE got'[c] = got[c]
    BY <1>1, <2>1 DEF AnswerOf
  <2>2. CASE got'[c] = Append(got[c], m)
    BY <1>1, <2>2, OtherMessage, AddressedKept DEF AnswerOf
  <2> QED
    BY <2>1, <2>2
<1>3. \A r : Outstanding(c, r)' = Outstanding(c, r)
  BY <1>2 DEF Outstanding
<1> QED
  BY <1>1, <1>2, <1>3 DEF AnswerOf

\* Nothing is said to c.
LEMMA SilenceKeeps ==
  ASSUME AInv, NEW c \in Conns, NotAnswered(c, [kind |-> "hello"])
  PROVE  AnswerOf(c)'
<1>1. [kind |-> "hello"] \in Messages
  BY DEF Messages
<1> QED
  BY <1>1, NotAnsweredKeeps

\* A request in a thread's buffer.
LEMMA RequestsAre ==
  ASSUME IInv, NEW t \in Conns
  PROVE  /\ mes[t].type \in {"ask", "send"} <=> mes[t] \in Requests
         /\ \A r \in Requests : r # Bye /\ r # Zero /\ r # Unset /\ r.type \in {"ask", "send"}
<1>1. mes[t] \in Requests \cup {Bye, Unset, Zero}
  BY DEF IInv, TypeOK
<1>2. \A r \in Requests : r.type \in {"ask", "send"}
  BY DEF Requests, Byte
<1>3. Bye.type = "disconnect" /\ Unset.type = "uninitialised" /\ Zero.type = "zero"
  BY DEF Bye, Unset, Zero, Byte
<1> QED
  BY <1>1, <1>2, <1>3

\* A thread that has a request answers it, once.
LEMMA AnswerKeeps ==
  ASSUME AInv, NEW t \in Conns, tpc[t] = "switch", mes[t] \in Requests, tpc'[t] = "unlock",
         NEW g \in Seq(Messages), NEW x \in Messages, NEW m \in Messages,
         g = got[t] \/ g = Append(got[t], x), x.kind = "repost", raced \/ x.to = t, raced' = raced,
         got'[t] = g \/ got'[t] = Append(g, m), m.kind = mes[t].type,
         NetKept, sent'[t] = sent[t], inbox'[t] = inbox[t]
  PROVE  AnswerOf(t)'
<1>1. /\ AnswerOf(t) /\ got[t] \in Seq(Messages) /\ sent[t] \in Seq(Requests)
      /\ inbox[t] \in Seq(Requests \cup {Bye})
  BY DEF AInv, AnswerInv, IInv, TypeOK
<1>2. Outstanding(t, mes[t]) /\ (inbox[t] # <<>> => Head(inbox[t]) \notin Requests)
  BY <1>1 DEF AnswerOf
<1>3. m.kind \in {"ask", "send"}
  BY RequestsAre DEF AInv
<1>4. /\ RepliesIn(g) = RepliesIn(got[t]) /\ Answers(g, sent[t])
      /\ raced \/ Addressed(g, t)
  <2>1. CASE g = got[t]
    BY <1>1, <2>1 DEF AnswerOf
  <2>2. CASE g = Append(got[t], x)
    BY <1>1, <2>2, OtherMessage, AddressedKept DEF AnswerOf
  <2> QED
    BY <2>1, <2>2
<1>5. Cardinality(RepliesIn(g)) + 1 = Len(sent[t]) /\ mes[t] = sent[t][Len(sent[t])]
  BY <1>2, <1>4 DEF Outstanding
<1>6. /\ Answers(got'[t], sent[t]) /\ Cardinality(RepliesIn(got'[t])) <= Len(sent[t])
      /\ raced' \/ Addressed(got'[t], t)
  <2>1. CASE got'[t] = g
    BY <1>1, <1>4, <2>1 DEF AnswerOf
  <2>2. CASE got'[t] = Append(g, m)
    <3>1. /\ Answers(Append(g, m), sent[t])
          /\ Cardinality(RepliesIn(Append(g, m))) = Len(sent[t])
      BY <1>1, <1>3, <1>4, <1>5, Answered
    <3>2. (raced \/ Addressed(Append(g, m), t)) /\ Len(sent[t]) \in Nat
      BY <1>1, <1>3, <1>4, AddressedKept
    <3> QED
      BY <2>2, <3>1, <3>2
  <2> QED
    BY <2>1, <2>2
<1>7. /\ Len(inbox[t]) <= 1
      /\ inbox[t] # <<>> /\ Head(inbox[t]) = Bye => peer'[t] \in {"closed", "reset"}
  BY <1>1 DEF AnswerOf, NetKept
<1> QED
  BY <1>2, <1>6, <1>7 DEF AnswerOf

LEMMA TailOfOne ==
  ASSUME NEW S, NEW s \in Seq(S), s # <<>>, Len(s) <= 1
  PROVE  Tail(s) = <<>> /\ Len(Tail(s)) = 0
<1>1. Len(s) \in Nat /\ Len(s) # 0
  BY EmptySeq
<1>2. Tail(s) \in Seq(S) /\ Len(Tail(s)) = Len(s) - 1
  BY HeadTailProperties
<1>3. Len(Tail(s)) = 0
  BY <1>1, <1>2
<1> QED
  BY <1>2, <1>3, EmptySeq

\* recv moves a request from the connection to the buffer, or loses it there.
LEMMA RecvKeeps ==
  ASSUME AInv, NEW t \in Conns, Recv(t)
  PROVE  AnswerOf(t)'
<1>1. /\ AnswerOf(t) /\ inbox[t] \in Seq(Requests \cup {Bye}) /\ tpc[t] = "recv"
      /\ tpc \in [Conns -> {"none", "start", "hello", "recv", "lock", "switch", "unlock",
                           "leave", "gone"}]
      /\ DOMAIN mes = Conns /\ DOMAIN inbox = Conns
  BY DEF AInv, AnswerInv, IInv, TypeOK, Recv, Goto
<1>2. fd[connFd[t]] = t
  BY <1>1 DEF AInv, IInv, ThreadInv, Serving
<1>3. tpc'[t] = "lock" /\ UNCHANGED <<sent, got, peer, raced>>
  BY <1>1 DEF Recv, Goto, history
<1>4. mes[t] \in {Zero, Unset} /\ Zero \notin Requests /\ Unset \notin Requests
  BY <1>1, RequestsAre DEF AnswerOf, AInv
<1>5. CASE inbox[t] = <<>>
  <2>1. mes' = mes /\ inbox' = inbox
    BY <1>2, <1>5 DEF Recv
  <2>2. inbox'[t] = <<>> /\ mes'[t] \notin Requests /\ Len(inbox'[t]) <= 1
    BY <1>1, <1>4, <1>5, <2>1 DEF AnswerOf
  <2> QED
    BY <1>1, <1>3, <2>2 DEF AnswerOf
<1>6. CASE inbox[t] # <<>>
  <2>1. /\ mes'[t] = Head(inbox[t]) \/ mes'[t] = Zero
        /\ inbox'[t] = Tail(inbox[t])
    BY <1>1, <1>2, <1>6 DEF Recv
  <2>2. Len(inbox[t]) <= 1
    BY <1>1 DEF AnswerOf
  <2>3. Tail(inbox[t]) = <<>> /\ Len(Tail(inbox[t])) = 0
    BY <1>1, <1>6, <2>2, TailOfOne
  <2>4. inbox'[t] = <<>> /\ Len(inbox'[t]) = 0
    BY <2>1, <2>3
  <2>5. mes'[t] \in Requests => Outstanding(t, mes'[t])
    BY <1>1, <1>4, <1>6, <2>1 DEF AnswerOf
  <2>6. \A r : Outstanding(t, r)' = Outstanding(t, r)
    BY <1>3 DEF Outstanding
  <2> QED
    BY <1>1, <1>3, <2>4, <2>5, <2>6 DEF AnswerOf
<1> QED
  BY <1>5, <1>6

\* A client asks only when nothing it asked is under way.
LEMMA NothingUnderWay ==
  ASSUME AInv, NEW c \in Conns, peer[c] = "open", ~Waiting(c)
  PROVE  /\ inbox[c] = <<>> /\ Cardinality(RepliesIn(got[c])) = Len(sent[c])
         /\ Cardinality(RepliesIn(got[c])) \in Nat
         /\ tpc[c] \in {"lock", "switch"} => mes[c] \notin Requests
<1>1. /\ AnswerOf(c) /\ inbox[c] \in Seq(Requests \cup {Bye}) /\ got[c] \in Seq(Messages)
      /\ sent[c] \in Seq(Requests)
  BY DEF AInv, AnswerInv, IInv, TypeOK
<1>2. Cardinality(RepliesIn(got[c])) \in Nat /\ Len(sent[c]) \in Nat
  <2>1. [kind |-> "hello"] \in Messages
    BY DEF Messages
  <2>2. IsFiniteSet(RepliesIn(got[c]))
    BY <1>1, <2>1, RepliesAppended
  <2> QED
    BY <1>1, <2>2, FS_CardinalityType
<1>3. Cardinality(RepliesIn(got[c])) = Len(sent[c])
  BY <1>1, <1>2 DEF AnswerOf, Waiting
<1>4. \A r : ~Outstanding(c, r)
  BY <1>2, <1>3 DEF Outstanding
<1>5. inbox[c] = <<>>
  <2> SUFFICES ASSUME inbox[c] # <<>> PROVE FALSE
    OBVIOUS
  <2>1. Head(inbox[c]) \in Requests \cup {Bye}
    BY <1>1
  <2> QED
    BY <1>1, <1>4, <2>1 DEF AnswerOf
<1> QED
  BY <1>1, <1>2, <1>3, <1>4, <1>5 DEF AnswerOf

LEMMA RequestKeeps ==
  ASSUME AInv, NEW c \in Conns, Request(c)
  PROVE  AnswerOf(c)'
<1>1. PICK r \in Requests : /\ sent' = [sent EXCEPT ![c] = Append(@, r)]
                           /\ inbox' = [inbox EXCEPT ![c] = Append(@, r)]
  BY DEF Request
<1>2. /\ AnswerOf(c) /\ got[c] \in Seq(Messages) /\ sent[c] \in Seq(Requests)
      /\ DOMAIN sent = Conns /\ DOMAIN inbox = Conns
  BY DEF AInv, AnswerInv, IInv, TypeOK
<1>3. /\ inbox[c] = <<>> /\ Cardinality(RepliesIn(got[c])) = Len(sent[c])
      /\ Cardinality(RepliesIn(got[c])) \in Nat
      /\ tpc[c] \in {"lock", "switch"} => mes[c] \notin Requests
  BY NothingUnderWay DEF Request
<1>4. UNCHANGED <<tpc, mes, got, peer, raced>>
  BY DEF Request, mainVars, history
<1>5. /\ sent'[c] = Append(sent[c], r) /\ Len(sent'[c]) = Len(sent[c]) + 1
      /\ sent'[c][Len(sent[c]) + 1] = r
  BY <1>1, <1>2, AppendProperties
<1>6. inbox'[c] = <<r>> /\ Len(inbox'[c]) = 1 /\ Head(inbox'[c]) = r /\ inbox'[c] # <<>>
  BY <1>1, <1>2, <1>3
<1>7. Answers(got[c], sent'[c])
  BY <1>2, <1>3, <1>5, AskedMore DEF AnswerOf
<1>8. Outstanding(c, r)'
  BY <1>3, <1>4, <1>5 DEF Outstanding
<1>9. r # Bye
  BY RequestsAre DEF AInv
<1> QED
  BY <1>2, <1>3, <1>4, <1>5, <1>6, <1>7, <1>8, <1>9 DEF AnswerOf

LEMMA LeaveKeeps ==
  ASSUME AInv, NEW c \in Conns, Leave(c)
  PROVE  AnswerOf(c)'
<1>1. /\ AnswerOf(c) /\ DOMAIN inbox = Conns /\ DOMAIN peer = Conns
  BY DEF AInv, AnswerInv, IInv, TypeOK
<1>2. peer[c] = "open" /\ peer'[c] = "closed" /\ UNCHANGED <<tpc, mes, got, sent, raced>>
  BY <1>1 DEF Leave, mainVars, history
<1>3. \A r : Outstanding(c, r)' = Outstanding(c, r)
  BY <1>2 DEF Outstanding
<1>4. CASE inbox' = inbox
  BY <1>1, <1>2, <1>3, <1>4 DEF AnswerOf
<1>5. CASE ~Waiting(c) /\ inbox' = [inbox EXCEPT ![c] = Append(@, Bye)]
  <2>1. inbox[c] = <<>> /\ (tpc[c] \in {"lock", "switch"} => mes[c] \notin Requests)
    BY <1>2, <1>5, NothingUnderWay
  <2>2. inbox'[c] = <<Bye>> /\ Len(inbox'[c]) = 1 /\ Head(inbox'[c]) = Bye
    BY <1>1, <1>5, <2>1
  <2>3. Bye \notin Requests
    BY RequestsAre DEF AInv
  <2> QED
    BY <1>1, <1>2, <2>1, <2>2, <2>3 DEF AnswerOf
<1> QED
  BY <1>4, <1>5 DEF Leave

LEMMA InitAnswer == Init => AnswerInv
<1> SUFFICES ASSUME Init, NEW c \in Conns PROVE AnswerOf(c)
  BY DEF AnswerInv
<1>1. /\ got[c] = <<>> /\ sent[c] = <<>> /\ inbox[c] = <<>> /\ tpc[c] = "none"
      /\ mes[c] = Unset
  BY DEF Init
<1>2. RepliesIn(got[c]) = {}
  BY <1>1 DEF RepliesIn
<1>3. Cardinality(RepliesIn(got[c])) = 0 /\ Len(sent[c]) = 0 /\ Len(inbox[c]) = 0
  BY <1>1, <1>2, FS_EmptySet
<1>4. Answers(got[c], sent[c])
  BY <1>2 DEF Answers
<1>5. Addressed(got[c], c)
  BY <1>1 DEF Addressed
<1> QED
  BY <1>1, <1>3, <1>4, <1>5 DEF AnswerOf

-----------------------------------------------------------------------------
\* Where a thread's step leaves the others.
Elsewhere(t) == \A c \in Conns \ {t} :
  /\ sent'[c] = sent[c] /\ inbox'[c] = inbox[c] /\ mes'[c] = mes[c] /\ tpc'[c] = tpc[c]
  /\ peer'[c] = peer[c] \/ {peer[c], peer'[c]} \subseteq {"closed", "reset"}

LEMMA HistoryKept == ASSUME NEW t \in Conns, Thread(t) \/ Client(t) PROVE UNCHANGED <<late, raced>>
BY DEF Thread, Switch, ReadArgument, SayHello, Recv, Lock, Disconnect, Answer, Forward, Ignore,
   Unlock, Client, Connect, Request, Leave, history

LEMMA ElsewhereKept ==
  ASSUME IInv, NEW t \in Conns, Thread(t)
  PROVE  Elsewhere(t)
<1>1. /\ DOMAIN inbox = Conns /\ DOMAIN mes = Conns /\ DOMAIN tpc = Conns
      /\ \A s : tpc' = [tpc EXCEPT ![t] = s] => \A c \in Conns \ {t} : tpc'[c] = tpc[c]
  BY DEF IInv, TypeOK
<1>2. CASE SayHello(t)
  <2>1. connFd[t] \in Fds /\ [kind |-> "hello"] \in Messages
    BY <1>2 DEF IInv, ThreadInv, SayHello, Goto, Serving, Messages
  <2>2. NetKept
    BY <1>2, <2>1, OneDelivery DEF SayHello
  <2> QED
    BY <1>1, <1>2, <2>2 DEF SayHello, Goto, NetKept, Elsewhere
<1>3. CASE Answer(t)
  <2>1. connFd[t] \in Fds /\ [kind |-> "ask"] \in Messages
    BY <1>3 DEF IInv, ThreadInv, Answer, Goto, Serving, Messages
  <2>2. NetKept
    BY <1>3, <2>1, OneDelivery DEF Answer
  <2> QED
    BY <1>1, <1>3, <2>2 DEF Answer, Goto, NetKept, Elsewhere
<1>4. CASE Forward(t)
  <2>1. NetKept
    BY <1>4, ForwardDelivers
  <2> QED
    BY <1>1, <1>4, <2>1 DEF Forward, Goto, NetKept, Elsewhere
<1>5. CASE Recv(t)
  <2>1. fd[connFd[t]] = t
    BY <1>5 DEF IInv, ThreadInv, Recv, Goto, Serving
  <2> QED
    BY <1>1, <1>5, <2>1 DEF Recv, Goto, Elsewhere
<1>6. CASE ReadArgument(t) \/ Lock(t) \/ Disconnect(t) \/ Ignore(t)
  BY <1>1, <1>6 DEF ReadArgument, Lock, Disconnect, Ignore, Goto, Elsewhere
<1>7. CASE Unlock(t)
  BY <1>1, <1>7 DEF Unlock, Goto, Elsewhere
<1> QED
  BY <1>2, <1>3, <1>4, <1>5, <1>6, <1>7 DEF Thread, Switch

\* A thread answers its own client, or forwards to another what it names.
LEMMA ThreadKeeps ==
  ASSUME AInv, NEW t \in Conns, Thread(t), NEW c \in Conns
  PROVE  AnswerOf(c)'
<1>1. /\ IInv /\ DOMAIN tpc = Conns /\ DOMAIN mes = Conns
      /\ Elsewhere(t) /\ raced' = raced
  BY ElsewhereKept, HistoryKept DEF AInv, IInv, TypeOK
<1> DEFINE hello == [kind |-> "hello"]
<1>2. /\ hello \in Messages /\ hello.kind \notin {"ask", "send"} /\ hello.kind # "repost"
      /\ [kind |-> "ask"] \in Messages
  BY DEF Messages
<1>3. \A a, b : Goto(t, a, b) => tpc[t] = a /\ tpc'[t] = b
  BY <1>1 DEF Goto
<1>4. CASE SayHello(t)
  <2>1. connFd[t] \in Fds /\ fd[connFd[t]] = t
    BY <1>4 DEF AInv, IInv, ThreadInv, SayHello, Goto, Serving
  <2>2. NetKept /\ (got'[c] = got[c] \/ got'[c] = Append(got[c], hello))
    BY <1>1, <1>2, <1>4, <2>1, OneDelivery DEF SayHello
  <2>3. UNCHANGED <<sent, inbox, mes>> /\ Goto(t, "hello", "recv")
    BY <1>4 DEF SayHello
  <2>4. NotAnswered(c, hello)
    BY <1>1, <1>3, <2>2, <2>3 DEF NotAnswered, NetKept, Elsewhere
  <2> QED
    BY <1>2, <2>4, NotAnsweredKeeps
<1>5. CASE Answer(t)
  <2>1. connFd[t] \in Fds /\ fd[connFd[t]] = t
    BY <1>5 DEF AInv, IInv, ThreadInv, Answer, Goto, Serving
  <2>2. /\ NetKept
        /\ \A d \in Conns : \/ got'[d] = got[d]
                            \/ d = t /\ got'[d] = Append(got[d], [kind |-> "ask"])
    BY <1>1, <1>2, <1>5, <2>1, OneDelivery DEF Answer
  <2>3. UNCHANGED <<sent, inbox, mes>> /\ tpc[t] = "switch" /\ tpc'[t] = "unlock"
        /\ mes[t].type = "ask"
    BY <1>3, <1>5 DEF Answer
  <2>4. CASE c = t
    <3>1. mes[t] \in Requests /\ got[t] \in Seq(Messages)
      BY <2>3, RequestsAre DEF AInv, IInv, TypeOK
    <3>2. /\ got'[t] = got[t] \/ got'[t] = Append(got[t], [kind |-> "ask"])
          /\ [kind |-> "repost", to |-> t] \in Messages
      BY <2>2 DEF Messages
    <3> QED
      BY <1>1, <1>2, <2>2, <2>3, <2>4, <3>1, <3>2, AnswerKeeps
  <2>5. CASE c # t
    <3>1. NotAnswered(c, hello)
      BY <1>1, <2>2, <2>3, <2>5 DEF NotAnswered, NetKept, Elsewhere
    <3> QED
      BY <1>2, <3>1, NotAnsweredKeeps
  <2> QED
    BY <2>4, <2>5
<1>6. CASE Forward(t)
  <2>1. PICK g \in [Conns -> Seq(Messages)] : Forwarded(t, g)
    BY <1>1, <1>6, ForwardDelivers
  <2>2. NetKept /\ mes[t].to \in Conns
    BY <1>1, <1>6, ForwardDelivers
  <2>3. UNCHANGED <<sent, inbox, mes>> /\ tpc[t] = "switch" /\ tpc'[t] = "unlock"
        /\ mes[t].type = "send"
    BY <1>3, <1>6 DEF Forward
  <2> DEFINE m == [kind |-> "send"]
             x == [kind |-> "repost", to |-> IF raced THEN mes[t].to ELSE c]
  <2>4. /\ x \in Messages /\ x.kind = "repost" /\ (raced \/ x.to = c) /\ m \in Messages
        /\ m.kind = "send"
    BY <2>2 DEF Messages
  <2>5. /\ g[c] = got[c] \/ g[c] = Append(got[c], x)
        /\ got'[c] = g[c] \/ (c = t /\ got'[c] = Append(g[c], m))
        /\ g[c] \in Seq(Messages)
    BY <2>1 DEF Forwarded
  <2> HIDE DEF x, m
  <2>6. CASE c = t
    <3>1. mes[t] \in Requests
      BY <2>3, RequestsAre DEF AInv
    <3> QED
      BY <1>1, <2>2, <2>3, <2>4, <2>5, <2>6, <3>1, AnswerKeeps
  <2>7. CASE c # t
    <3>1. NotAnswered(c, x)
      BY <1>1, <2>2, <2>3, <2>5, <2>7 DEF NotAnswered, NetKept, Elsewhere
    <3> QED
      BY <2>4, <3>1, NotAnsweredKeeps
  <2> QED
    BY <2>6, <2>7
<1>7. CASE Recv(t)
  <2>1. CASE c = t
    BY <1>7, <2>1, RecvKeeps
  <2>2. CASE c # t
    <3>1. UNCHANGED <<sent, got>>
      BY <1>7 DEF Recv
    <3>2. NotAnswered(c, hello)
      BY <1>1, <2>2, <3>1 DEF NotAnswered, Elsewhere
    <3> QED
      BY <3>2, SilenceKeeps
  <2> QED
    BY <2>1, <2>2
<1>8. CASE ReadArgument(t) \/ Lock(t) \/ Disconnect(t) \/ Ignore(t)
  <2>1. UNCHANGED <<sent, inbox, mes, got, peer>>
    BY <1>8 DEF ReadArgument, Lock, Disconnect, Ignore
  <2>2. \/ tpc[t] = "start" /\ tpc'[t] = "hello"
        \/ tpc[t] = "lock" /\ tpc'[t] = "switch"
        \/ tpc'[t] \in {"leave", "unlock"}
    BY <1>3, <1>8 DEF ReadArgument, Lock, Disconnect, Ignore
  <2>3. NotAnswered(c, hello)
    BY <1>1, <2>1, <2>2 DEF NotAnswered, Elsewhere
  <2> QED
    BY <2>3, SilenceKeeps
<1>9. CASE Unlock(t)
  <2>1. UNCHANGED <<sent, inbox, got, peer>> /\ mes'[t] = Zero
    BY <1>1, <1>9 DEF Unlock
  <2>2. tpc'[t] \in {"recv", "gone"}
    BY <1>3, <1>9 DEF Unlock
  <2>3. CASE c # t
    <3>1. NotAnswered(c, hello)
      BY <1>1, <2>1, <2>3 DEF NotAnswered, Elsewhere
    <3> QED
      BY <3>1, SilenceKeeps
  <2>4. CASE c = t
    <3>1. \A r : Outstanding(t, r)' = Outstanding(t, r)
      BY <2>1 DEF Outstanding
    <3>2. AnswerOf(t)
      BY DEF AInv, AnswerInv
    <3> QED
      BY <1>1, <2>1, <2>2, <2>4, <3>1, <3>2 DEF AnswerOf
  <2> QED
    BY <2>3, <2>4
<1> QED
  BY <1>4, <1>5, <1>6, <1>7, <1>8, <1>9 DEF Thread, Switch

LEMMA ClientKeeps ==
  ASSUME AInv, NEW d \in Conns, Client(d), NEW c \in Conns
  PROVE  AnswerOf(c)'
<1>1. /\ DOMAIN inbox = Conns /\ DOMAIN sent = Conns /\ DOMAIN peer = Conns
      /\ raced' = raced
  BY HistoryKept DEF AInv, IInv, TypeOK
<1>2. CASE Connect(d)
  <2>1. UNCHANGED <<sent, inbox, mes, got, tpc>> /\ peer[d] = "none"
        /\ peer' = [peer EXCEPT ![d] = "open"]
    BY <1>2 DEF Connect
  <2>2. NotAnswered(c, [kind |-> "hello"])
    BY <1>1, <2>1 DEF NotAnswered
  <2> QED
    BY <2>2, SilenceKeeps
<1>3. CASE c # d /\ (Request(d) \/ Leave(d))
  <2>1. UNCHANGED <<mes, got, tpc>> /\ sent'[c] = sent[c] /\ inbox'[c] = inbox[c]
        /\ peer'[c] = peer[c]
    BY <1>1, <1>3 DEF Request, Leave
  <2>2. NotAnswered(c, [kind |-> "hello"])
    BY <1>1, <2>1 DEF NotAnswered
  <2> QED
    BY <2>2, SilenceKeeps
<1>4. CASE c = d /\ (Request(d) \/ Leave(d))
  BY <1>4, RequestKeeps, LeaveKeeps
<1> QED
  BY <1>2, <1>3, <1>4 DEF Client

LEMMA MainKeeps ==
  ASSUME AInv, Main \/ Crash, NEW c \in Conns
  PROVE  AnswerOf(c)'
<1>1. UNCHANGED <<sent, inbox, mes, got, peer>> /\ (raced => raced')
  <2>1. UNCHANGED <<sent, inbox, mes, got, peer>>
    BY DEF Main, Accept, PushBack, CreateThread, Crash
  <2>2. raced => raced'
    <3>1. CASE PushBack
      BY <3>1, Zenon DEF PushBack
    <3>2. CASE ~PushBack
      BY <3>2 DEF Main, Accept, CreateThread, Crash, history
    <3> QED
      BY <3>1, <3>2
  <2> QED
    BY <2>1, <2>2
<1>2. tpc'[c] = tpc[c] \/ (tpc'[c] = "start" /\ tpc[c] = "none")
  <2>1. CASE Accept \/ PushBack \/ Crash
    BY <2>1 DEF Accept, PushBack, Crash
  <2>2. CASE CreateThread
    <3>1. tpc[accepted] = "none" /\ DOMAIN tpc = Conns
      BY <2>2 DEF AInv, IInv, MainInv, TypeOK, CreateThread
    <3>2. tpc' = [tpc EXCEPT ![accepted] = "start"]
      BY <2>2 DEF CreateThread
    <3> QED
      BY <3>1, <3>2
  <2> QED
    BY <2>1, <2>2 DEF Main
<1>3. NotAnswered(c, [kind |-> "hello"])
  BY <1>1, <1>2 DEF NotAnswered
<1> QED
  BY <1>3, SilenceKeeps

LEMMA NextKeepsAInv == AInv /\ ~late' /\ [Next]_vars => AInv'
<1> SUFFICES ASSUME AInv, ~late', [Next]_vars PROVE AInv'
  OBVIOUS
<1>1. IInv'
  BY NextKeepsIInv DEF AInv
<1>2. ASSUME NEW c \in Conns PROVE AnswerOf(c)'
  <2>1. CASE UNCHANGED vars
    <3>1. UNCHANGED <<sent, inbox, mes, got, peer, tpc, raced>>
      BY <2>1 DEF vars
    <3>2. NotAnswered(c, [kind |-> "hello"])
      BY <3>1 DEF NotAnswered
    <3> QED
      BY <3>2, SilenceKeeps
  <2>2. CASE Main \/ Crash
    BY <2>2, MainKeeps
  <2>3. CASE \E t \in Conns : Thread(t) \/ Client(t)
    BY <2>3, ThreadKeeps, ClientKeeps
  <2> QED
    BY <2>1, <2>2, <2>3 DEF Next, Quiet
<1> QED
  BY <1>1, <1>2 DEF AInv, AnswerInv

LEMMA AInvariance == Spec => [](~late => AInv)
<1>1. (~late => AInv) /\ BInv /\ [Next]_vars => (~late => AInv)'
  BY LateStays, NextKeepsAInv DEF BInv, TypeOK
<1>2. Init => (~late => AInv)
  BY InitIInv, InitAnswer DEF AInv
<1> QED
  BY <1>1, <1>2, BInvariance, PTL DEF Spec

\* For any number of clients and requests: what a client is sent are the answers to its
\* own requests, in the order it made them (server.cpp:59-151), as long as main has not
\* been back in accept too early; and of the messages that are passed on only those
\* addressed to it, as long as no push_back has overlapped a critical section.
THEOREM AnswersAreOwn == Spec => []AnswersMatch
<1>1. (~late => AInv) => AnswersMatch
  BY DEF AInv, AnswerInv, AnswerOf, AnswersMatch, Addressed, Reposts
<1> QED
  BY <1>1, AInvariance, PTL
-----------------------------------------------------------------------------
(***************************************************************************)
(* How an answer comes: the thread of a client that waits for one has the  *)
(* request before it, unless it was a first request of one byte, and who   *)
(* holds the mutex can go on and leave it.                                 *)
(***************************************************************************)
Holding == {"switch", "unlock", "leave"}
MutexInv == \A t \in Conns : mtx = t <=> tpc[t] \in Holding

\* The thread reads the requests of c for what they are.
Whole(c) == RepliesIn(got[c]) # {} \/ (sent[c] # <<>> /\ sent[c][1].type = "send")

HeardOf(c) ==
  /\ Len(sent[c]) <= Cardinality(RepliesIn(got[c])) + 1
  /\ peer[c] = "none" => tpc[c] = "none" /\ sent[c] = <<>>
  /\ RepliesIn(got[c]) # {} => mes[c] # Unset /\ tpc[c] \notin {"none", "start", "hello"}
  /\ peer[c] = "open" /\ up =>
       /\ sent[c] = <<>> => tpc[c] \in {"none", "start", "hello", "recv"}
       /\ Whole(c) => /\ tpc[c] \notin {"leave", "gone"}
                      /\ tpc[c] \in {"lock", "switch"} => mes[c] \in Requests
                      /\ tpc[c] \notin {"lock", "switch"} /\ Waiting(c) => inbox[c] # <<>>

HeardInv == \A c \in Conns : HeardOf(c)

SInv == AInv /\ MutexInv /\ HeardInv

LEMMA MutexKept == ASSUME IInv, MutexInv, [Next]_vars PROVE MutexInv'
<1>1. /\ DOMAIN tpc = Conns /\ mtx \in Conns \cup {None} /\ None \notin Conns
      /\ \A t \in Conns : tpc[t] \in {"none", "start", "hello", "recv", "lock", "switch", "unlock",
                                      "leave", "gone"}
  BY ChatConns DEF IInv, TypeOK
<1>2. CASE UNCHANGED vars \/ Accept \/ PushBack \/ Crash \/ \E d \in Conns : Client(d)
  <2>1. UNCHANGED <<tpc, mtx>>
    BY <1>2 DEF vars, Accept, PushBack, Crash, Client, Connect, Request, Leave
  <2> QED
    BY <2>1 DEF MutexInv
<1>3. CASE CreateThread
  <2>1. mtx' = mtx /\ tpc' = [tpc EXCEPT ![accepted] = "start"] /\ tpc[accepted] = "none"
    BY <1>3 DEF CreateThread, IInv, MainInv
  <2> QED
    BY <1>1, <2>1 DEF MutexInv, Holding
<1>4. ASSUME NEW t \in Conns, ReadArgument(t) \/ SayHello(t) \/ Recv(t) \/ Switch(t)
      PROVE  MutexInv'
  <2>1. mtx' = mtx /\ \E b : /\ tpc' = [tpc EXCEPT ![t] = b]
                             /\ tpc[t] \in Holding <=> b \in Holding
    <3>1. CASE ReadArgument(t) \/ SayHello(t) \/ Recv(t)
      BY <3>1 DEF ReadArgument, SayHello, Recv, Goto, Holding
    <3>2. CASE Switch(t)
      <4>1. mtx' = mtx /\ (Goto(t, "switch", "leave") \/ Goto(t, "switch", "unlock"))
        BY <3>2 DEF Switch, Disconnect, Answer, Forward, Ignore
      <4> QED
        BY <4>1 DEF Goto, Holding
    <3> QED
      BY <1>4, <3>1, <3>2
  <2>2. \A s \in Conns \ {t} : tpc'[s] = tpc[s]
    BY <1>1, <2>1
  <2>3. tpc'[t] \in Holding <=> tpc[t] \in Holding
    BY <1>1, <2>1
  <2> QED
    BY <2>1, <2>2, <2>3 DEF MutexInv
<1>5. ASSUME NEW t \in Conns, Unlock(t) PROVE MutexInv'
  <2>1. mtx' = None /\ tpc[t] \in Holding /\ \E b : tpc' = [tpc EXCEPT ![t] = b] /\ b \notin Holding
    BY <1>5 DEF Unlock, Goto, Holding
  <2>2. mtx = t
    BY <2>1 DEF MutexInv
  <2> QED
    BY <1>1, <2>1, <2>2 DEF MutexInv
<1>6. ASSUME NEW t \in Conns, Lock(t) PROVE MutexInv'
  <2>1. mtx = None /\ mtx' = t /\ tpc' = [tpc EXCEPT ![t] = "switch"]
    BY <1>6 DEF Lock, Goto
  <2> QED
    BY <1>1, <2>1 DEF MutexInv, Holding
<1> QED
  BY <1>2, <1>3, <1>4, <1>5, <1>6 DEF Next, Main, Quiet, Thread

-----------------------------------------------------------------------------
\* Nothing happens to c but that it is forwarded a message, or its end closes.
Untouched(c) ==
  /\ RepliesIn(got'[c]) = RepliesIn(got[c]) /\ sent'[c] = sent[c] /\ inbox'[c] = inbox[c]
  /\ mes'[c] = mes[c] /\ tpc'[c] = tpc[c]
  /\ peer'[c] = peer[c] \/ {peer[c], peer'[c]} \subseteq {"closed", "reset"}
  /\ up' => up

LEMMA UntouchedKeeps == ASSUME NEW c \in Conns, HeardOf(c), Untouched(c) PROVE HeardOf(c)'
BY DEF HeardOf, Untouched, Waiting, Whole

LEMMA CountsOf ==
  ASSUME IInv, NEW c \in Conns
  PROVE  /\ Cardinality(RepliesIn(got[c])) \in Nat /\ Len(sent[c]) \in Nat
         /\ Cardinality(RepliesIn(got[c])) = 0 <=> RepliesIn(got[c]) = {}
         /\ Len(sent[c]) = 0 <=> sent[c] = <<>>
<1>1. got[c] \in Seq(Messages) /\ sent[c] \in Seq(Requests) /\ [kind |-> "hello"] \in Messages
  BY DEF IInv, TypeOK, Messages
<1>2. IsFiniteSet(RepliesIn(got[c]))
  BY <1>1, RepliesAppended
<1> QED
  BY <1>1, <1>2, FS_CardinalityType, FS_EmptySet, EmptySeq

\* The end of a thread's turn: its client has its answer, or is gone, or the server is.
LEMMA ReplyKeepsHeard ==
  ASSUME AInv, NEW t \in Conns, HeardOf(t), tpc[t] = "switch", mes[t] \in Requests, tpc'[t] = "unlock",
         mes'[t] = mes[t], sent'[t] = sent[t], peer[t] # "none", peer'[t] # "none",
         NEW g \in Seq(Messages), NEW m \in Messages, RepliesIn(g) = RepliesIn(got[t]),
         m.kind \in {"ask", "send"}, got'[t] = g \/ got'[t] = Append(g, m),
         peer'[t] = "open" /\ up' => got'[t] = Append(g, m)
  PROVE  HeardOf(t)'
<1>1. /\ Cardinality(RepliesIn(got[t])) \in Nat /\ Len(sent[t]) \in Nat
      /\ Cardinality(RepliesIn(got[t])) + 1 = Len(sent[t])
  BY CountsOf DEF AInv, AnswerInv, AnswerOf, Outstanding
<1>2. got'[t] = Append(g, m) => Cardinality(RepliesIn(got'[t])) = Len(sent[t])
  <2>1. /\ RepliesIn(Append(g, m)) = RepliesIn(g) \cup {Len(g) + 1} /\ IsFiniteSet(RepliesIn(g))
        /\ RepliesIn(g) \subseteq 1..Len(g) /\ Len(g) \in Nat
    BY RepliesAppended
  <2>2. Len(g) + 1 \notin RepliesIn(g)
    BY <2>1
  <2>3. Cardinality(RepliesIn(Append(g, m))) = Cardinality(RepliesIn(g)) + 1
    BY <2>1, <2>2, FS_AddElement
  <2> QED
    BY <1>1, <2>3
<1>3. got'[t] = g => Cardinality(RepliesIn(got'[t])) = Cardinality(RepliesIn(got[t]))
  OBVIOUS
<1>4. peer'[t] = "open" /\ up' => ~Waiting(t)'
  BY <1>1, <1>2 DEF Waiting
<1>5. Len(sent'[t]) <= Cardinality(RepliesIn(got'[t])) + 1
  BY <1>1, <1>2, <1>3
<1>6. mes'[t] # Unset /\ sent'[t] # <<>>
  BY <1>1, RequestsAre, CountsOf DEF AInv
<1> QED
  BY <1>4, <1>5, <1>6 DEF HeardOf

\* What a thread does to its own client.
LEMMA AnswerKeepsHeard ==
  ASSUME AInv, NEW t \in Conns, HeardOf(t), Answer(t) \/ Forward(t)
  PROVE  HeardOf(t)'
<1>1. /\ IInv /\ DOMAIN tpc = Conns /\ got[t] \in Seq(Messages)
      /\ UNCHANGED <<sent, mes>> /\ tpc[t] = "switch" /\ tpc' = [tpc EXCEPT ![t] = "unlock"]
      /\ mes[t].type \in {"ask", "send"}
  BY DEF AInv, IInv, TypeOK, Answer, Forward, Goto
<1>2. tpc'[t] = "unlock" /\ mes[t] \in Requests
  BY <1>1, RequestsAre
<1>3. connFd[t] \in Fds /\ fd[connFd[t]] = t
  BY <1>1 DEF IInv, ThreadInv, Serving
<1>4. peer[t] # "none"
  BY <1>1, <1>3, ChatConns DEF IInv, FdInv
<1>5. CASE Answer(t)
  <2> DEFINE m == [kind |-> "ask"]
  <2>1. m \in Messages /\ m.kind \in {"ask", "send"}
    BY DEF Messages
  <2>2. BecomeNet(Send(Net, connFd[t], m))
    BY <1>5 DEF Answer
  <2> HIDE DEF m
  <2>3. /\ NetKept /\ (got'[t] = got[t] \/ got'[t] = Append(got[t], m))
        /\ peer'[t] = "open" /\ up' => got'[t] = Append(got[t], m)
    BY <1>1, <1>3, <2>1, <2>2, OneDelivery
  <2>4. peer'[t] # "none"
    BY <1>4, <2>3 DEF NetKept
  <2> QED
    BY <1>1, <1>2, <1>4, <2>1, <2>3, <2>4, ReplyKeepsHeard
<1>6. CASE Forward(t)
  <2>1. NetKept
    BY <1>1, <1>6, ForwardDelivers
  <2>2. PICK g \in [Conns -> Seq(Messages)] : Forwarded(t, g)
    BY <1>1, <1>6, ForwardDelivers
  <2> DEFINE m == [kind |-> "send"]
             x == [kind |-> "repost", to |-> mes[t].to]
  <2>3. /\ m \in Messages /\ m.kind \in {"ask", "send"}
        /\ x \in Messages /\ x.kind \notin {"ask", "send"}
    BY <1>1, <1>6, ForwardDelivers DEF Messages
  <2>4. /\ g[t] \in Seq(Messages) /\ (g[t] = got[t] \/ g[t] = Append(got[t], x))
        /\ got'[t] = g[t] \/ got'[t] = Append(g[t], m)
        /\ peer'[t] = "open" /\ up' => got'[t] = Append(g[t], m)
    BY <2>2 DEF Forwarded
  <2> HIDE DEF m, x
  <2>5. RepliesIn(g[t]) = RepliesIn(got[t])
    BY <1>1, <2>3, <2>4, NoReplyAppended
  <2>6. peer'[t] # "none"
    BY <1>4, <2>1 DEF NetKept
  <2> QED
    BY <1>1, <1>2, <1>4, <2>3, <2>4, <2>5, <2>6, ReplyKeepsHeard
<1> QED
  BY <1>5, <1>6

LEMMA HelloKeepsHeard ==
  ASSUME AInv, NEW t \in Conns, HeardOf(t), SayHello(t)
  PROVE  HeardOf(t)'
<1>1. /\ IInv /\ got[t] \in Seq(Messages) /\ tpc[t] = "hello" /\ tpc'[t] = "recv" /\ up
      /\ UNCHANGED <<sent, inbox, mes>>
      /\ BecomeNet(Send(Net, connFd[t], [kind |-> "hello"]))
  BY DEF AInv, IInv, TypeOK, SayHello, Goto
<1>2. connFd[t] \in Fds /\ fd[connFd[t]] = t /\ [kind |-> "hello"] \in Messages
  BY <1>1 DEF IInv, ThreadInv, Serving, Messages
<1>3. NetKept /\ (got'[t] = got[t] \/ got'[t] = Append(got[t], [kind |-> "hello"]))
  BY <1>1, <1>2, OneDelivery
<1>4. RepliesIn(got'[t]) = RepliesIn(got[t])
  BY <1>1, <1>2, <1>3, NoReplyAppended
<1>5. RepliesIn(got[t]) = {} /\ peer[t] # "none"
  BY <1>1 DEF HeardOf
<1> QED
  BY <1>1, <1>3, <1>4, <1>5 DEF HeardOf, NetKept, Whole, Waiting

LEMMA RecvKeepsHeard ==
  ASSUME AInv, NEW t \in Conns, HeardOf(t), Recv(t)
  PROVE  HeardOf(t)'
<1>1. /\ inbox[t] \in Seq(Requests \cup {Bye}) /\ tpc[t] = "recv" /\ tpc'[t] = "lock"
      /\ DOMAIN mes = Conns /\ UNCHANGED <<sent, got, peer, up>> /\ AnswerOf(t)
  BY DEF AInv, AnswerInv, IInv, TypeOK, Recv, Goto
<1>2. fd[connFd[t]] = t
  BY <1>1 DEF AInv, IInv, ThreadInv, Serving
<1>3. \A r \in Requests \cup {Bye} : r # Unset
  BY RequestsAre DEF AInv, Bye, Unset, Byte
<1>4. inbox[t] # <<>> => Head(inbox[t]) \in Requests \cup {Bye}
  BY <1>1
<1>5. /\ Cardinality(RepliesIn(got[t])) \in Nat /\ Len(sent[t]) \in Nat
      /\ Cardinality(RepliesIn(got[t])) = 0 <=> RepliesIn(got[t]) = {}
      /\ Len(sent[t]) = 0 <=> sent[t] = <<>>
  BY CountsOf DEF AInv
<1>6. \/ inbox[t] # <<>> /\ mes'[t] = Head(inbox[t])
      \/ inbox[t] # <<>> /\ mes[t] = Unset /\ Head(inbox[t]).type # "send"
      \/ inbox[t] = <<>> /\ peer[t] # "open" /\ mes'[t] = mes[t]
  BY <1>1, <1>2 DEF Recv
<1>7. RepliesIn(got[t]) # {} => mes'[t] # Unset
  BY <1>3, <1>4, <1>6 DEF HeardOf
<1>8. peer[t] # "none"
  BY <1>1 DEF HeardOf
<1>9. ASSUME peer[t] = "open" PROVE sent[t] # <<>> /\ (Whole(t) => mes'[t] \in Requests)
  <2>1. inbox[t] # <<>> /\ Head(inbox[t]) \in Requests
    BY <1>1, <1>4, <1>6, <1>9 DEF AnswerOf
  <2>2. Outstanding(t, Head(inbox[t]))
    BY <1>1, <2>1 DEF AnswerOf
  <2>3. sent[t] # <<>>
    BY <1>5, <2>2 DEF Outstanding
  <2>4. CASE RepliesIn(got[t]) # {}
    BY <1>6, <2>1, <2>3, <2>4, <1>9 DEF HeardOf
  <2>5. CASE RepliesIn(got[t]) = {}
    <3>1. Head(inbox[t]) = sent[t][1]
      BY <1>5, <2>2, <2>5 DEF Outstanding
    <3> QED
      BY <1>6, <2>1, <2>3, <2>5, <3>1, <1>9 DEF Whole
  <2> QED
    BY <2>4, <2>5
<1> QED
  BY <1>1, <1>7, <1>8, <1>9 DEF HeardOf, Whole

LEMMA OwnStepKeepsHeard ==
  ASSUME AInv, NEW t \in Conns, HeardOf(t), Thread(t)
  PROVE  HeardOf(t)'
<1>1. /\ DOMAIN tpc = Conns /\ DOMAIN mes = Conns
      /\ \A a, b : Goto(t, a, b) => tpc[t] = a /\ tpc'[t] = b /\ up
      /\ \A r \in Requests : r # Bye /\ r # Zero /\ r # Unset /\ r.type \in {"ask", "send"}
  BY RequestsAre DEF AInv, IInv, TypeOK, Goto
<1>2. CASE ReadArgument(t)
  <2>1. UNCHANGED <<sent, got, mes, inbox, peer, up>> /\ tpc[t] = "start" /\ tpc'[t] = "hello"
    BY <1>1, <1>2 DEF ReadArgument
  <2> QED
    BY <2>1 DEF HeardOf, Waiting, Whole
<1>3. CASE Lock(t)
  <2>1. UNCHANGED <<sent, got, mes, inbox, peer, up>> /\ tpc[t] = "lock" /\ tpc'[t] = "switch"
    BY <1>1, <1>3 DEF Lock
  <2> QED
    BY <2>1 DEF HeardOf, Waiting, Whole
<1>4. CASE Disconnect(t) \/ Ignore(t)
  <2>1. UNCHANGED <<sent, got, mes, inbox, peer, up>> /\ tpc[t] = "switch"
        /\ tpc'[t] \in {"leave", "unlock"} /\ up
    BY <1>1, <1>4 DEF Disconnect, Ignore
  <2>2. mes[t] \notin Requests
    BY <1>1, <1>4 DEF Disconnect, Ignore
  <2> QED
    BY <2>1, <2>2 DEF HeardOf, Waiting, Whole
<1>5. CASE Unlock(t)
  <2>1. /\ UNCHANGED <<sent, got, inbox, peer, up>> /\ mes'[t] = Zero /\ up
        /\ \/ tpc[t] = "unlock" /\ tpc'[t] = "recv"
           \/ tpc[t] = "leave" /\ tpc'[t] = "gone"
    BY <1>1, <1>5 DEF Unlock
  <2>2. Zero # Unset
    BY DEF Zero, Unset, Byte
  <2> QED
    BY <2>1, <2>2 DEF HeardOf, Waiting, Whole
<1> QED
  BY <1>2, <1>3, <1>4, <1>5, AnswerKeepsHeard, HelloKeepsHeard, RecvKeepsHeard DEF Thread, Switch

\* What a thread does to another client.
LEMMA OtherStepKeepsHeard ==
  ASSUME AInv, NEW t \in Conns, Thread(t), NEW c \in Conns \ {t}, HeardOf(c)
  PROVE  HeardOf(c)'
<1>1. IInv /\ Elsewhere(t) /\ got[c] \in Seq(Messages)
  BY ElsewhereKept DEF AInv, IInv, TypeOK
<1>2. RepliesIn(got'[c]) = RepliesIn(got[c])
  <2>1. CASE Answer(t) \/ SayHello(t)
    <3>1. PICK m \in {[kind |-> "ask"], [kind |-> "hello"]} : BecomeNet(Send(Net, connFd[t], m))
      BY <2>1 DEF Answer, SayHello
    <3>2. m \in Messages
      BY DEF Messages
    <3>3. connFd[t] \in Fds /\ fd[connFd[t]] = t
      BY <2>1 DEF AInv, IInv, ThreadInv, Answer, SayHello, Goto, Serving
    <3>4. got'[c] = got[c]
      BY <1>1, <3>1, <3>2, <3>3, OneDelivery
    <3> QED
      BY <3>4
  <2>2. CASE Forward(t)
    <3>1. PICK g \in [Conns -> Seq(Messages)] : Forwarded(t, g)
      BY <1>1, <2>2, ForwardDelivers
    <3> DEFINE x == [kind |-> "repost", to |-> mes[t].to]
    <3>2. x \in Messages /\ x.kind \notin {"ask", "send"}
      BY <1>1, <2>2, ForwardDelivers DEF Messages
    <3>3. got'[c] = got[c] \/ got'[c] = Append(got[c], x)
      BY <3>1 DEF Forwarded
    <3> HIDE DEF x
    <3> QED
      BY <1>1, <3>2, <3>3, NoReplyAppended
  <2>3. CASE ReadArgument(t) \/ Lock(t) \/ Recv(t) \/ Disconnect(t) \/ Ignore(t) \/ Unlock(t)
    BY <2>3 DEF ReadArgument, Lock, Recv, Disconnect, Ignore, Unlock
  <2> QED
    BY <2>1, <2>2, <2>3 DEF Thread, Switch
<1>3. up
  BY DEF Thread, Switch, ReadArgument, SayHello, Recv, Disconnect, Answer, Forward, Ignore, Unlock,
     Lock, Goto
<1>4. Untouched(c)
  BY <1>1, <1>2, <1>3 DEF Elsewhere, Untouched
<1> QED
  BY <1>4, UntouchedKeeps

LEMMA ClientKeepsHeard ==
  ASSUME AInv, NEW d \in Conns, Client(d), NEW c \in Conns, HeardOf(c)
  PROVE  HeardOf(c)'
<1>1. /\ DOMAIN inbox = Conns /\ DOMAIN sent = Conns /\ DOMAIN peer = Conns /\ IInv
      /\ UNCHANGED <<got, mes, tpc, up>>
  BY DEF AInv, IInv, TypeOK, Client, Connect, Request, Leave
<1>2. CASE c # d
  <2>1. sent'[c] = sent[c] /\ inbox'[c] = inbox[c] /\ peer'[c] = peer[c]
    BY <1>1, <1>2 DEF Client, Connect, Request, Leave
  <2>2. Untouched(c)
    BY <1>1, <2>1 DEF Untouched
  <2> QED
    BY <2>2, UntouchedKeeps
<1>3. CASE c = d /\ Connect(d)
  <2>1. peer[c] = "none" /\ peer'[c] = "open" /\ UNCHANGED <<sent, inbox>>
    BY <1>1, <1>3 DEF Connect
  <2>2. tpc[c] = "none" /\ sent[c] = <<>> /\ RepliesIn(got[c]) = {}
    BY <2>1 DEF HeardOf
  <2> QED
    BY <1>1, <2>1, <2>2 DEF HeardOf, Whole
<1>4. CASE c = d /\ Request(d)
  <2>1. PICK r \in Requests : sent' = [sent EXCEPT ![c] = Append(@, r)]
                              /\ inbox' = [inbox EXCEPT ![c] = Append(@, r)]
    BY <1>4 DEF Request
  <2>2. sent[c] \in Seq(Requests) /\ inbox[c] \in Seq(Requests \cup {Bye})
    BY <1>1 DEF IInv, TypeOK
  <2>3. Len(sent'[c]) = Len(sent[c]) + 1 /\ inbox'[c] # <<>>
    BY <1>1, <2>1, <2>2, AppendProperties
  <2>4. ~Waiting(c) /\ peer[c] = "open" /\ peer' = peer
    BY <1>4 DEF Request
  <2>5. /\ Cardinality(RepliesIn(got[c])) \in Nat /\ Len(sent[c]) \in Nat
        /\ Cardinality(RepliesIn(got[c])) = 0 <=> RepliesIn(got[c]) = {}
        /\ Len(sent[c]) = 0 <=> sent[c] = <<>>
    BY <1>1, CountsOf
  <2>6. Len(sent'[c]) <= Cardinality(RepliesIn(got[c])) + 1 /\ sent'[c] # <<>>
    BY <2>3, <2>4, <2>5 DEF Waiting
  <2>7. up => \/ tpc[c] \in {"none", "start", "hello", "recv"}
              \/ tpc[c] \notin {"leave", "gone"} /\ (tpc[c] \in {"lock", "switch"} => mes[c] \in Requests)
    <3>1. CASE sent[c] = <<>>
      BY <2>4, <3>1 DEF HeardOf
    <3>2. CASE sent[c] # <<>>
      <4>1. Whole(c)
        BY <2>4, <2>5, <3>2 DEF Waiting, Whole
      <4> QED
        BY <2>4, <4>1 DEF HeardOf
    <3> QED
      BY <3>1, <3>2
  <2> QED
    BY <1>1, <2>3, <2>4, <2>6, <2>7 DEF HeardOf
<1>5. CASE c = d /\ Leave(d)
  <2>1. peer[c] = "open" /\ peer'[c] = "closed" /\ sent' = sent
    BY <1>1, <1>5 DEF Leave
  <2> QED
    BY <1>1, <2>1 DEF HeardOf
<1> QED
  BY <1>2, <1>3, <1>4, <1>5 DEF Client

LEMMA MainKeepsHeard ==
  ASSUME AInv, Main \/ Crash, NEW c \in Conns, HeardOf(c)
  PROVE  HeardOf(c)'
<1>1. UNCHANGED <<sent, inbox, mes, got, peer>> /\ up /\ DOMAIN tpc = Conns
  BY DEF Main, Accept, PushBack, CreateThread, Crash, AInv, IInv, TypeOK
<1>2. CASE tpc'[c] = tpc[c]
  <2>1. Untouched(c)
    BY <1>1, <1>2 DEF Untouched
  <2> QED
    BY <2>1, UntouchedKeeps
<1>3. CASE tpc'[c] # tpc[c]
  <2>1. CreateThread
    BY <1>3 DEF Main, Accept, PushBack, Crash
  <2>2. /\ c = accepted /\ tpc[c] = "none" /\ tpc'[c] = "start" /\ up'
        /\ clntSock \in Fds /\ fd[clntSock] = c
    BY <1>1, <1>3, <2>1 DEF CreateThread, AInv, IInv, MainInv
  <2>3. peer[c] # "none"
    BY <2>2, ChatConns DEF AInv, IInv, FdInv
  <2>4. RepliesIn(got[c]) = {}
    BY <2>2 DEF HeardOf
  <2> QED
    BY <1>1, <2>2, <2>3, <2>4 DEF HeardOf, Whole, Waiting
<1> QED
  BY <1>2, <1>3

LEMMA NextKeepsSInv == SInv /\ ~late' /\ [Next]_vars => SInv'
<1> SUFFICES ASSUME SInv, ~late', [Next]_vars PROVE SInv'
  OBVIOUS
<1>1. AInv' /\ MutexInv'
  BY NextKeepsAInv, MutexKept DEF SInv, AInv
<1>2. ASSUME NEW c \in Conns PROVE HeardOf(c)'
  <2>1. AInv /\ HeardOf(c)
    BY DEF SInv, HeardInv
  <2>2. CASE UNCHANGED vars
    <3>1. Untouched(c)
      BY <2>2 DEF vars, Untouched
    <3> QED
      BY <2>1, <3>1, UntouchedKeeps
  <2>3. CASE Main \/ Crash
    BY <2>1, <2>3, MainKeepsHeard
  <2>4. ASSUME NEW t \in Conns, Thread(t) PROVE HeardOf(c)'
    BY <2>1, <2>4, OwnStepKeepsHeard, OtherStepKeepsHeard
  <2>5. ASSUME NEW t \in Conns, Client(t) PROVE HeardOf(c)'
    BY <2>1, <2>5, ClientKeepsHeard
  <2> QED
    BY <2>2, <2>3, <2>4, <2>5 DEF Next, Quiet
<1> QED
  BY <1>1, <1>2 DEF SInv, HeardInv

LEMMA InitSInv == Init => SInv
<1> SUFFICES ASSUME Init PROVE SInv
  OBVIOUS
<1>1. AInv
  BY InitIInv, InitAnswer DEF AInv
<1>2. MutexInv
  BY ChatConns DEF Init, MutexInv, Holding
<1>3. ASSUME NEW c \in Conns PROVE HeardOf(c)
  <2>1. /\ RepliesIn(got[c]) = {} /\ sent[c] = <<>> /\ Len(sent[c]) = 0 /\ tpc[c] = "none"
        /\ peer[c] = "none"
    BY DEF Init, RepliesIn
  <2>2. Cardinality(RepliesIn(got[c])) = 0
    BY <2>1, FS_EmptySet
  <2> QED
    BY <2>1, <2>2 DEF HeardOf
<1> QED
  BY <1>1, <1>2, <1>3 DEF SInv, HeardInv

LEMMA SInvariance == Spec => [](~late => SInv)
<1>1. (~late => SInv) /\ BInv /\ [Next]_vars => (~late => SInv)'
  BY LateStays, NextKeepsSInv DEF BInv, TypeOK
<1>2. Init => (~late => SInv)
  BY InitSInv
<1> QED
  BY <1>1, <1>2, BInvariance, PTL DEF Spec

-----------------------------------------------------------------------------
\* A client with a thread waits for an answer, and its first request was not of one byte.
Due(c) == FirstIsWhole(c) /\ Waiting(c) /\ tpc[c] # "none" /\ peer[c] = "open" /\ up

ThreadReady(t) ==
  /\ up
  /\ \/ tpc[t] \in {"start", "hello"} \cup Holding
     \/ /\ tpc[t] = "recv"
        /\ LET c == fd[connFd[t]] IN c # None /\ (inbox[c] # <<>> \/ peer[c] # "open")

LEMMA DueIs ==
  ASSUME SInv, NEW c \in Conns, Due(c)
  PROVE  /\ tpc[c] \in {"start", "hello", "recv", "lock", "switch", "unlock"}
         /\ tpc[c] \in {"lock", "switch"} => mes[c] \in Requests /\ inbox[c] = <<>>
         /\ tpc[c] \notin {"lock", "switch"} => inbox[c] # <<>>
<1>1. HeardOf(c) /\ AnswerOf(c) /\ IInv /\ inbox[c] \in Seq(Requests \cup {Bye})
      /\ tpc[c] \in {"none", "start", "hello", "recv", "lock", "switch", "unlock", "leave", "gone"}
  BY DEF SInv, HeardInv, AInv, AnswerInv, IInv, TypeOK
<1>2. Whole(c)
  <2>1. /\ Cardinality(RepliesIn(got[c])) \in Nat /\ Len(sent[c]) \in Nat
        /\ Cardinality(RepliesIn(got[c])) = 0 <=> RepliesIn(got[c]) = {}
    BY <1>1, CountsOf
  <2>2. Len(sent[c]) > 1 => RepliesIn(got[c]) # {}
    BY <1>1, <2>1 DEF HeardOf
  <2> QED
    BY <2>2 DEF Due, FirstIsWhole, Whole
<1>3. tpc[c] \in {"lock", "switch"} => inbox[c] = <<>>
  <2> SUFFICES ASSUME tpc[c] \in {"lock", "switch"}, inbox[c] # <<>> PROVE FALSE
    OBVIOUS
  <2>1. Head(inbox[c]) \in Requests \cup {Bye}
    BY <1>1
  <2> QED
    BY <1>1, <1>2, <2>1 DEF HeardOf, AnswerOf, Due
<1> QED
  BY <1>1, <1>2, <1>3 DEF HeardOf, Due

DueInv == \A c \in Conns : Due(c) => (tpc[c] \notin {"lock", "switch"} => inbox[c] # <<>>)

LEMMA DueHolds == SInv => DueInv
BY DueIs DEF DueInv

\* For any number of clients, as long as main has not been back in accept too early:
\* while a client waits for an answer its own thread can take a step or, if it waits for
\* the mutex, the mutex is free or the thread that holds it can take a step
\* (server.cpp:25-156).  No client that has vanished or is silent, and no raced vector,
\* leaves the mutex taken.  A first request of one byte, which may never be answered
\* (:32-41), is left out.
THEOREM AnswersNeverStall ==
  Spec => [](~late => \A c \in Conns : Due(c) =>
                \/ ThreadReady(c)
                \/ tpc[c] = "lock" /\ (mtx = None \/ (mtx \in Conns /\ ThreadReady(mtx))))
<1>1. SInv => \A c \in Conns : Due(c) =>
                 \/ ThreadReady(c)
                 \/ tpc[c] = "lock" /\ (mtx = None \/ (mtx \in Conns /\ ThreadReady(mtx)))
  <2> SUFFICES ASSUME SInv, NEW c \in Conns, Due(c)
               PROVE  \/ ThreadReady(c)
                      \/ tpc[c] = "lock" /\ (mtx = None \/ (mtx \in Conns /\ ThreadReady(mtx)))
    OBVIOUS
  <2>1. up /\ mtx \in Conns \cup {None} /\ c # None
    BY ChatConns DEF Due, SInv, AInv, IInv, TypeOK
  <2>2. CASE tpc[c] = "lock"
    <3>1. mtx # None => mtx \in Conns /\ tpc[mtx] \in Holding
      BY <2>1 DEF SInv, MutexInv
    <3> QED
      BY <2>1, <2>2, <3>1 DEF ThreadReady
  <2>3. CASE tpc[c] = "recv"
    <3>1. fd[connFd[c]] = c
      BY <2>3 DEF SInv, AInv, IInv, ThreadInv, Serving
    <3> QED
      BY <2>1, <2>3, <3>1, DueIs DEF ThreadReady
  <2>4. CASE tpc[c] \in {"start", "hello", "switch", "unlock"}
    BY <2>1, <2>4 DEF ThreadReady, Holding
  <2> QED
    BY <2>2, <2>3, <2>4, DueIs
<1> QED
  BY <1>1, SInvariance, PTL

\* The steps to an answer, and those that the holder of the mutex takes with it.
StepsLeft(c) == CASE tpc[c] = "start" -> 6 [] tpc[c] = "hello" -> 5 [] tpc[c] = "unlock" -> 4
                  [] tpc[c] = "recv" -> 3 [] tpc[c] = "lock" -> 2 [] tpc[c] = "switch" -> 1
                  [] OTHER -> 0
HolderLeft == IF mtx = None THEN 0 ELSE IF tpc[mtx] = "switch" THEN 2 ELSE 1

\* Steps of others leave a thread where it is.
LEMMA ThreadStays ==
  ASSUME IInv, [Next]_vars, NEW c \in Conns, ~Thread(c)
  PROVE  tpc'[c] = tpc[c] \/ tpc[c] = "none"
<1>1. DOMAIN tpc = Conns
  BY DEF IInv, TypeOK
<1>2. CASE UNCHANGED vars \/ Accept \/ PushBack \/ Crash \/ \E d \in Conns : Client(d)
  BY <1>2 DEF vars, Accept, PushBack, Crash, Client, Connect, Request, Leave
<1>3. CASE CreateThread
  <2>1. tpc' = [tpc EXCEPT ![accepted] = "start"] /\ tpc[accepted] = "none"
    BY <1>3 DEF CreateThread, IInv, MainInv
  <2> QED
    BY <1>1, <2>1
<1>4. ASSUME NEW t \in Conns, Thread(t) PROVE tpc'[c] = tpc[c]
  <2>1. c # t
    BY <1>4
  <2> QED
    BY <1>4, <2>1, ElsewhereKept DEF Elsewhere
<1> QED
  BY <1>2, <1>3, <1>4 DEF Next, Main, Quiet

\* The program counter of a thread that takes a step.
LEMMA ThreadGoes ==
  ASSUME IInv, NEW t \in Conns, Thread(t)
  PROVE  \/ tpc[t] = "unlock" /\ tpc'[t] = "recv"
         \/ tpc[t] = "recv" /\ tpc'[t] = "lock"
         \/ tpc[t] = "lock" /\ tpc'[t] = "switch"
         \/ tpc[t] = "switch" /\ tpc'[t] \in {"leave", "unlock"}
         \/ tpc[t] = "start" /\ tpc'[t] = "hello"
         \/ tpc[t] = "hello" /\ tpc'[t] = "recv"
         \/ tpc[t] = "leave"
<1>1. DOMAIN tpc = Conns
  BY DEF IInv, TypeOK
<1>2. \A a, b : Goto(t, a, b) => tpc[t] = a /\ tpc'[t] = b
  BY <1>1 DEF Goto
<1> QED
  BY <1>2 DEF Thread, Switch, ReadArgument, SayHello, Recv, Disconnect, Answer, Forward, Ignore,
     Unlock, Lock

LEMMA DueAfter ==
  ASSUME SInv', NEW c \in Conns, Due(c)'
  PROVE  tpc'[c] \notin {"lock", "switch"} => inbox'[c] # <<>>
<1>1. SInv' => DueInv'
  BY DueHolds, PTL
<1> QED
  BY <1>1 DEF DueInv

LEMMA OnTheWayTo ==
  ASSUME SInv, SInv', [Next]_vars, NEW c \in Conns, Due(c), Due(c)'
  PROVE  IF Thread(c) THEN StepsLeft(c)' < StepsLeft(c) ELSE StepsLeft(c)' = StepsLeft(c)
<1>1. /\ tpc[c] \in {"start", "hello", "recv", "lock", "switch", "unlock"}
      /\ tpc[c] \in {"lock", "switch"} => mes[c] \in Requests /\ inbox[c] = <<>>
  BY DueIs
<1>2. CASE ~Thread(c)
  <2>1. tpc'[c] = tpc[c]
    BY <1>1, <1>2, ThreadStays DEF SInv, AInv
  <2> QED
    BY <1>2, <2>1 DEF StepsLeft
<1>3. CASE Thread(c)
  <2>1. tpc[c] # "switch"
    <3> SUFFICES ASSUME tpc[c] = "switch" PROVE FALSE
      OBVIOUS
    <3>1. mes[c] \in Requests /\ mes[c] # Bye /\ mes[c] # Zero /\ mes[c] # Unset
          /\ mes[c].type \in {"ask", "send"}
      BY <1>1, RequestsAre DEF SInv, AInv
    <3>2. Answer(c) \/ Forward(c)
      BY <1>3, <3>1 DEF Thread, Switch, ReadArgument, SayHello, Recv, Disconnect, Ignore, Unlock,
         Lock, Goto
    <3>3. inbox' = inbox /\ tpc'[c] = "unlock"
      BY <3>2 DEF Answer, Forward, Goto, SInv, AInv, IInv, TypeOK
    <3> QED
      BY <1>1, <3>3, DueAfter
  <2> QED
    BY <1>1, <1>3, <2>1, ThreadGoes DEF StepsLeft, SInv, AInv
<1> QED
  BY <1>2, <1>3

LEMMA MutexComesFree ==
  ASSUME SInv, [Next]_vars, mtx # None
  PROVE  IF Thread(mtx) THEN HolderLeft' < HolderLeft ELSE mtx' = mtx /\ HolderLeft' = HolderLeft
<1> DEFINE t == mtx
<1>1. IInv /\ t \in Conns /\ tpc[t] \in Holding
  BY DEF SInv, AInv, IInv, TypeOK, MutexInv
<1>2. CASE Thread(t)
  <2>1. CASE tpc[t] = "switch"
    <3>1. mtx' = mtx /\ tpc'[t] # "switch"
      <4>1. Switch(t)
        BY <1>2, <2>1 DEF Thread, ReadArgument, SayHello, Recv, Lock, Unlock, Goto
      <4>2. tpc'[t] \in {"leave", "unlock"}
        BY <1>1, <1>2, <2>1, ThreadGoes
      <4> QED
        BY <4>1, <4>2 DEF Switch, Disconnect, Answer, Forward, Ignore
    <3> QED
      BY <2>1, <3>1, <1>2 DEF HolderLeft
  <2>2. CASE tpc[t] # "switch"
    <3>1. Unlock(t)
      BY <1>1, <1>2, <2>2 DEF Holding, Thread, Switch, ReadArgument, SayHello, Recv, Lock,
         Disconnect, Answer, Forward, Ignore, Goto
    <3>2. mtx' = None
      BY <3>1 DEF Unlock
    <3> QED
      BY <1>2, <2>2, <3>2 DEF HolderLeft
  <2> QED
    BY <2>1, <2>2
<1>3. CASE ~Thread(t)
  <2>2. tpc'[t] = tpc[t]
    BY <1>1, <1>3, ThreadStays DEF Holding
  <2>3. mtx' = mtx
    <3>1. CASE UNCHANGED vars \/ Main \/ Crash \/ \E d \in Conns : Client(d)
      BY <3>1 DEF vars, Main, Accept, PushBack, CreateThread, Crash, Client, Connect, Request, Leave
    <3>2. ASSUME NEW s \in Conns, Thread(s) PROVE mtx' = mtx
      <4>1. s # t
        BY <1>3, <3>2
      <4>2. tpc[s] \notin Holding
        BY <1>1, <4>1 DEF SInv, MutexInv
      <4>3. ~Unlock(s)
        BY <4>2 DEF Unlock, Goto, Holding
      <4> QED
        BY <3>2, <4>3 DEF Thread, Switch, ReadArgument, SayHello, Recv, Lock, Disconnect, Answer,
           Forward, Ignore
    <3> QED
      BY <3>1, <3>2 DEF Next, Quiet
  <2> QED
    BY <1>3, <2>2, <2>3 DEF HolderLeft
<1> QED
  BY <1>2, <1>3

\* For any number of clients, as long as main has not been back in accept too early: of
\* six steps of its own thread at most, each brings the answer nearer and nobody else's
\* step puts it off; and a thread that has the mutex needs two steps to give it back, and
\* nobody takes it away (server.cpp:25-156).  How often others get the mutex first is not
\* bounded: std::mutex keeps no queue.
THEOREM AnswersComeNearer ==
  Spec => /\ [](~late => \A c \in Conns : Due(c) => StepsLeft(c) \in 1..6)
          /\ [][~late' =>
                  /\ \A c \in Conns : Due(c) =>
                       ~Due(c)' \/ IF Thread(c) THEN StepsLeft(c)' < StepsLeft(c)
                                   ELSE StepsLeft(c)' = StepsLeft(c)
                  /\ mtx # None => IF Thread(mtx) THEN HolderLeft' < HolderLeft
                                   ELSE mtx' = mtx /\ HolderLeft' = HolderLeft]_vars
<1> DEFINE OnTheWay == \A c \in Conns : Due(c) => StepsLeft(c) \in 1..6
           Comes(c) == Due(c) => ~Due(c)' \/ IF Thread(c) THEN StepsLeft(c)' < StepsLeft(c)
                                             ELSE StepsLeft(c)' = StepsLeft(c)
           Frees == mtx # None => IF Thread(mtx) THEN HolderLeft' < HolderLeft
                                  ELSE mtx' = mtx /\ HolderLeft' = HolderLeft
           Progress == ~late' => (\A c \in Conns : Comes(c)) /\ Frees
<1>1. SInv => OnTheWay
  BY DueIs DEF StepsLeft
<1>2. ASSUME SInv, SInv', [Next]_vars, NEW c \in Conns PROVE Comes(c)
  BY <1>2, OnTheWayTo
<1>3. ASSUME SInv, [Next]_vars PROVE Frees
  BY <1>3, MutexComesFree
<1>4. ASSUME BInv, ~late => SInv, [Next]_vars, ~late' PROVE (\A c \in Conns : Comes(c)) /\ Frees
  <2>1. SInv
    BY <1>4, LateStays DEF BInv, TypeOK
  <2>2. SInv'
    BY <1>4, <2>1, NextKeepsSInv
  <2> QED
    BY <1>2, <1>3, <1>4, <2>1, <2>2
<1>5. BInv /\ (~late => SInv) /\ [Next]_vars => [Progress]_vars
  <2> HIDE DEF Comes, Frees
  <2> QED
    BY <1>4
<1>6. (~late => SInv) => (~late => OnTheWay)
  <2> HIDE DEF OnTheWay
  <2> QED
    BY <1>1
<1> QED
  BY <1>5, <1>6, SInvariance, BInvariance, PTL DEF Spec
=============================================================================

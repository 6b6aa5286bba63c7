-------------------------- MODULE ChatClientProofs --------------------------
(***************************************************************************)
(* Proofs about ChatClient for any message types, and any number of        *)
(* processes, requests and reposts: whose reply the user is shown, where   *)
(* it is, and that it comes nearer.                                        *)
(***************************************************************************)
EXTENDS ChatClient, SequenceTheorems, WellFoundedInduction, TLAPS

\* A connection carries hello, once and first, and then replies and reposts; without a
\* helper there is no connection, and without a process neither.
Passed == Types \cup {"repost"}
StreamInv ==
  /\ ~alive \/ helper = "none" => stream = <<>> /\ asked = <<>>
  /\ alive /\ helper = "hello" =>
       stream # <<>> /\ stream[1] = Hello /\ \A i \in 2..Len(stream) : stream[i].type \in Passed
  /\ alive /\ helper = "loop" => \A i \in 1..Len(stream) : stream[i].type \in Passed
  /\ \A i \in 1..Len(asked) : asked[i].type \in Types

\* The one reply is on its way, if there is to be one.
WayInv == alive /\ ~coalesced =>
  IF user = "wait" /\ fate = "due" THEN OneOnItsWay ELSE NoneOnItsWay

IInv == TypeOK /\ StreamInv /\ WayInv /\ OwnReply

\* A server that has ended has nothing left to answer; a request is gone only with it.
EndInv == /\ ~up => asked = <<>>
          /\ alive /\ user = "wait" /\ fate = "gone" => ~up

-----------------------------------------------------------------------------
\* What the operators on sequences return.

LEMMA MinIsLeast ==
  ASSUME NEW S \in SUBSET Nat, S # {}
  PROVE  Min(S) \in S /\ \A y \in S : Min(S) <= y
<1> DEFINE R == {ss \in Nat \X Nat : ss[1] < ss[2]}
<1>1. IsWellFoundedOn(R, Nat)
  BY NatLessThanWellFounded DEF OpToRel
<1>2. \A y, z \in Nat : y < z => <<y, z>> \in R
  OBVIOUS
<1>3. \E x \in S : \A y \in S : ~(<<y, x>> \in R)
  <2> HIDE DEF R
  <2> QED
    BY <1>1, WFMin
<1>4. PICK x \in S : \A y \in S : x <= y
  <2> HIDE DEF R
  <2>1. PICK x \in S : \A y \in S : ~(<<y, x>> \in R)
    BY <1>3
  <2>2. \A y \in S : ~(y < x)
    BY <1>2, <2>1, Zenon
  <2>3. \A y \in S : x <= y
    BY <2>2
  <2> QED
    BY <2>3
<1> QED
  BY <1>4 DEF Min

\* The position of the first message of a type, 0 if there is none.
FirstOf(type) == SelectInSeq(msgq, LAMBDA m : m.type = type)

LEMMA FirstOfIs ==
  ASSUME NEW type, msgq \in Seq(Messages), FirstOf(type) # 0
  PROVE  FirstOf(type) \in 1..Len(msgq) /\ msgq[FirstOf(type)].type = type
<1> DEFINE I == {i \in 1..Len(msgq) : msgq[i].type = type}
<1>1. FirstOf(type) = IF I # {} THEN Min(I) ELSE 0
  BY DEF FirstOf, SelectInSeq
<1>2. I \in SUBSET Nat
  OBVIOUS
<1> HIDE DEF I
<1>3. I # {} /\ FirstOf(type) = Min(I)
  BY <1>1
<1>4. FirstOf(type) \in I
  BY <1>2, <1>3, MinIsLeast
<1> QED
  BY <1>4 DEF I

LEMMA RemoveAtType ==
  ASSUME NEW S, NEW s \in Seq(S), NEW i \in 1..Len(s)
  PROVE  RemoveAt(s, i) \in Seq(S) /\ Len(RemoveAt(s, i)) = Len(s) - 1
<1>1. Len(s) \in Nat /\ i \in Int /\ \A j \in 1..Len(s) : s[j] \in S
  OBVIOUS
<1>2. SubSeq(s, 1, i - 1) \in Seq(S) /\ Len(SubSeq(s, 1, i - 1)) = i - 1
  <2>1. i - 1 \in Int /\ 1 \in Int /\ \A j \in 1..(i - 1) : s[j] \in S
    BY <1>1
  <2> QED
    BY <1>1, <2>1, SubSeqProperties
<1>3. SubSeq(s, i + 1, Len(s)) \in Seq(S) /\ Len(SubSeq(s, i + 1, Len(s))) = Len(s) - i
  <2>1. i + 1 \in Int /\ Len(s) \in Int /\ \A j \in (i + 1)..Len(s) : s[j] \in S
    BY <1>1
  <2>2. /\ SubSeq(s, i + 1, Len(s)) \in Seq(S)
        /\ Len(SubSeq(s, i + 1, Len(s))) = IF i + 1 <= Len(s) THEN Len(s) - (i + 1) + 1 ELSE 0
    BY <2>1, SubSeqProperties
  <2> QED
    BY <1>1, <2>2
<1> DEFINE a == SubSeq(s, 1, i - 1)
           b == SubSeq(s, i + 1, Len(s))
<1>4. RemoveAt(s, i) = a \o b
  BY DEF RemoveAt
<1>5. Len(a) = i - 1 /\ Len(b) = Len(s) - i /\ a \in Seq(S) /\ b \in Seq(S)
  BY <1>2, <1>3
<1> HIDE DEF a, b
<1>6. a \o b \in Seq(S) /\ Len(a \o b) = Len(a) + Len(b)
  BY <1>5, ConcatProperties
<1> QED
  BY <1>1, <1>4, <1>5, <1>6

\* The frames behind the first.
LEMMA Behind ==
  ASSUME NEW S, NEW s \in Seq(S), s # <<>>
  PROVE  /\ Len(s) \in Nat \ {0} /\ Tail(s) \in Seq(S) /\ Len(Tail(s)) = Len(s) - 1
         /\ Head(s) = s[1] /\ Head(s) \in S
         /\ \A i \in 1..(Len(s) - 1) : Tail(s)[i] = s[i + 1] /\ i + 1 \in 2..Len(s)
OBVIOUS

LEMMA Appended ==
  ASSUME NEW S, NEW s \in Seq(S), NEW x \in S
  PROVE  /\ Append(s, x) \in Seq(S) /\ Len(Append(s, x)) = Len(s) + 1 /\ Append(s, x) # <<>>
         /\ Len(s) \in Nat
         /\ \A i \in 1..Len(s) : Append(s, x)[i] = s[i]
         /\ Append(s, x)[Len(s) + 1] = x
         /\ s = <<>> => Append(s, x) = <<x>>
<1>1. /\ Append(s, x) \in Seq(S) /\ Len(Append(s, x)) = Len(s) + 1 /\ Append(s, x) # <<>>
      /\ Len(s) \in Nat
      /\ \A i \in 1..Len(s) : Append(s, x)[i] = s[i]
      /\ Append(s, x)[Len(s) + 1] = x
  OBVIOUS
<1>2. Append(<<>>, x) = <<x>>
  OBVIOUS
<1>3. s = <<>> => Append(s, x) = <<x>>
  BY <1>2
<1> QED
  BY <1>1, <1>3

LEMMA OneMessage ==
  /\ \A x : Head(<<x>>) = x /\ Tail(<<x>>) = <<>> /\ <<x>> # <<>> /\ Len(<<x>>) = 1
            /\ <<x>>[1] = x
  /\ Len(<<>>) = 0
OBVIOUS

\* Counters stay below their bounds.
LEMMA Counters ==
  /\ 0 \in 0..MaxStarts /\ 0 \in 0..MaxRequests /\ 0 \in 0..MaxReposts
  /\ \A i \in 0..MaxStarts : i < MaxStarts => i + 1 \in 0..MaxStarts
  /\ \A i \in 0..MaxRequests : i < MaxRequests => i + 1 \in 0..MaxRequests
  /\ \A i \in 0..MaxReposts : i < MaxReposts => i + 1 \in 0..MaxReposts
  /\ Hello \in Messages /\ Repost \in Messages /\ NoReply \in Messages
  /\ \A S : <<>> \in Seq(S)
<1>1. 0 \in 0..MaxRequests
  BY ClientBounds
<1>2. Hello \in Messages /\ Repost \in Messages /\ NoReply \in Messages
  BY <1>1 DEF Messages, Hello, Repost, NoReply, Reply
<1> QED
  BY <1>2, ClientBounds

LEMMA InitIInv == Init => IInv
<1> SUFFICES ASSUME Init PROVE IInv
  OBVIOUS
<1>1. TypeOK
  BY Counters DEF Init, TypeOK
<1>2. StreamInv /\ WayInv /\ OwnReply
  BY DEF Init, StreamInv, WayInv, OwnReply
<1> QED
  BY <1>1, <1>2 DEF IInv

-----------------------------------------------------------------------------
\* The process.

LEMMA StartKeepsIInv == ASSUME IInv, Start PROVE IInv'
<1> USE DEF IInv, Start, NewProcess, netVars
<1>1. TypeOK'
  BY Counters DEF TypeOK
<1>2. stream = <<>> /\ asked = <<>>
  BY DEF StreamInv
<1>3. StreamInv' /\ OwnReply'
  BY <1>2 DEF StreamInv, OwnReply
<1>4. WayInv'
  BY <1>2 DEF WayInv, NoneOnItsWay, RepliesIn
<1> QED
  BY <1>1, <1>3, <1>4

LEMMA EndsKeepsIInv == ASSUME IInv, Ends PROVE IInv'
<1> USE DEF IInv, Ends, procVars, counters
<1>1. TypeOK'
  BY Counters DEF TypeOK
<1>2. StreamInv'
  BY DEF StreamInv
<1> QED
  BY <1>1, <1>2 DEF WayInv, OwnReply

LEMMA ConnectServerKeepsIInv == ASSUME IInv, ConnectServer PROVE IInv'
<1> USE DEF IInv, ConnectServer, Menu, counters
<1>1. helper = "none" /\ stream = <<>> /\ asked = <<>>
  BY DEF TypeOK, StreamInv
<1>2. TypeOK'
  <2>1. Hello \in Messages /\ <<Hello>> \in Seq(Messages)
    BY Counters
  <2> QED
    BY <2>1 DEF TypeOK
<1>3. StreamInv'
  <2>1. Len(<<Hello>>) = 1 /\ <<Hello>>[1] = Hello /\ <<Hello>> # <<>>
    BY OneMessage
  <2>2. CASE up
    <3>1. \A i \in 2..Len(<<Hello>>) : FALSE
      BY <2>1
    <3>2. stream' = <<Hello>> /\ helper' = "hello" /\ asked' = <<>> /\ alive'
      BY <1>1, <2>2
    <3>3. /\ stream' # <<>> /\ stream'[1] = Hello
          /\ \A i \in 2..Len(stream') : stream'[i].type \in Passed
      BY <2>1, <3>1, <3>2
    <3> QED
      BY <3>2, <3>3 DEF StreamInv
  <2>3. CASE ~up
    BY <1>1, <2>3 DEF StreamInv, TypeOK
  <2> QED
    BY <2>2, <2>3
<1>4. WayInv'
  <2>1. RepliesIn(<<Hello>>) = {} /\ RepliesIn(<<>>) = {}
    BY ClientTypes DEF RepliesIn, Hello, Reply
  <2>2. stream' \in {<<>>, <<Hello>>}
    BY <1>1
  <2>3. RepliesIn(stream') = {}
    BY <2>1, <2>2
  <2> QED
    BY <2>3 DEF WayInv, NoneOnItsWay
<1>5. OwnReply'
  BY DEF OwnReply
<1> QED
  BY <1>2, <1>3, <1>4, <1>5

LEMMA DisconnectServerKeepsIInv == ASSUME IInv, DisconnectServer PROVE IInv'
<1> USE DEF IInv, DisconnectServer, Menu, counters
<1>1. TypeOK' /\ StreamInv' /\ OwnReply'
  BY DEF TypeOK, StreamInv, OwnReply
<1>2. WayInv'
  BY DEF WayInv, NoneOnItsWay, RepliesIn
<1> QED
  BY <1>1, <1>2

LEMMA RequestKeepsIInv == ASSUME IInv, Request PROVE IInv'
<1> USE DEF IInv
<1>1. PICK type \in Types : /\ want' = Reply(type, serial + 1)
                            /\ asked' = IF up THEN Append(asked, want') ELSE asked
  BY DEF Request
<1>2. /\ alive /\ user = "menu" /\ sockfd = "open" /\ serial < MaxRequests
      /\ serial' = serial + 1 /\ user' = "wait" /\ fate' = IF up THEN "due" ELSE "gone"
      /\ UNCHANGED <<msgq, alive, got, sockfd, helper, coalesced, stream, fresh>>
      /\ UNCHANGED <<starts, reposts, up>>
  BY DEF Request, Menu
<1>3. want' \in Messages /\ want'.type \in Types
  BY <1>1, <1>2, ClientBounds DEF TypeOK, Messages, Reply
<1>4. TypeOK'
  BY <1>1, <1>2, <1>3, ClientBounds DEF TypeOK
<1>5. StreamInv'
  <2>1. \A i \in 1..Len(asked') : asked'[i].type \in Types
    <3>1. CASE ~up
      BY <1>1, <3>1 DEF StreamInv
    <3>2. CASE up
      <4>1. asked' = Append(asked, want')
        BY <1>1, <3>2
      <4>2. asked \in Seq(Messages)
        BY DEF TypeOK
      <4>3. /\ Len(asked') = Len(asked) + 1 /\ Len(asked) \in Nat
            /\ \A i \in 1..Len(asked) : asked'[i] = asked[i]
            /\ asked'[Len(asked) + 1] = want'
        BY <1>3, <4>1, <4>2, Appended
      <4>4. \A i \in 1..(Len(asked) + 1) : i \in 1..Len(asked) \/ i = Len(asked) + 1
        BY <4>3
      <4> QED
        BY <1>3, <4>3, <4>4 DEF StreamInv
    <3> QED
      BY <3>1, <3>2
  <2>2. helper # "none"
    BY <1>2 DEF TypeOK
  <2> QED
    BY <1>2, <2>1, <2>2 DEF StreamInv
<1>6. WayInv'
  <2>1. SUFFICES ASSUME ~coalesced PROVE IF up THEN OneOnItsWay' ELSE NoneOnItsWay'
    BY <1>2 DEF WayInv
  <2>2. NoneOnItsWay
    BY <1>2, <2>1 DEF WayInv
  <2>3. CASE up
    <3>1. asked' = <<want'>>
      BY <1>1, <1>3, <2>2, <2>3, Appended DEF NoneOnItsWay, TypeOK
    <3> QED
      BY <1>2, <2>2, <2>3, <3>1 DEF OneOnItsWay, NoneOnItsWay
  <2>4. CASE ~up
    BY <1>1, <1>2, <2>2, <2>4 DEF NoneOnItsWay
  <2> QED
    BY <2>3, <2>4
<1>7. OwnReply'
  BY <1>2 DEF OwnReply
<1> QED
  BY <1>4, <1>5, <1>6, <1>7

\* What msgrcv takes is the only message of the queue, the reply to the request.
LEMMA MsgRcvKeepsIInv == ASSUME IInv, MsgRcv PROVE IInv'
<1> DEFINE i == FirstOf(want.type)
<1> USE DEF IInv
<1>1. /\ alive /\ user = "wait" /\ i # 0 /\ got' = msgq[i] /\ msgq' = RemoveAt(msgq, i)
      /\ user' = "menu"
      /\ UNCHANGED <<alive, want, sockfd, helper, coalesced, netVars, counters, up, fate>>
  BY DEF MsgRcv, FirstOf
<1>2. msgq \in Seq(Messages)
  BY DEF TypeOK
<1>3. i \in 1..Len(msgq)
  BY <1>1, <1>2, FirstOfIs
<1> HIDE DEF i
<1>4. /\ msgq' \in Seq(Messages) /\ Len(msgq') = Len(msgq) - 1 /\ got' \in Messages
      /\ Len(msgq) \in Nat \ {0}
  <2>1. msgq' \in Seq(Messages) /\ Len(msgq') = Len(msgq) - 1
    BY <1>1, <1>2, <1>3, RemoveAtType
  <2> QED
    BY <1>1, <1>2, <1>3, <2>1
<1>5. TypeOK'
  BY <1>1, <1>4 DEF TypeOK, netVars, counters
<1>6. StreamInv'
  BY <1>1 DEF StreamInv, netVars
<1>7. ~coalesced => got' = want /\ NoneOnItsWay'
  <2>1. SUFFICES ASSUME ~coalesced PROVE got' = want /\ NoneOnItsWay'
    OBVIOUS
  <2>2. msgq # <<>>
    BY <1>2, <1>4
  <2>3. asked = <<>> /\ RepliesIn(stream) = {} /\ msgq = <<want>>
    BY <1>1, <2>1, <2>2 DEF WayInv, OneOnItsWay, NoneOnItsWay
  <2>4. Len(msgq) = 1 /\ msgq[1] = want
    BY <2>3, OneMessage
  <2>5. i = 1 /\ Len(msgq') = 0
    BY <1>3, <1>4, <2>4
  <2>6. msgq' = <<>>
    BY <1>4, <2>5
  <2> QED
    BY <1>1, <2>3, <2>4, <2>5, <2>6 DEF NoneOnItsWay, netVars
<1>8. WayInv' /\ OwnReply'
  BY <1>1, <1>7 DEF WayInv, OwnReply
<1> QED
  BY <1>5, <1>6, <1>8
-----------------------------------------------------------------------------
\* The helper thread.

\* The replies behind the first frame are one place ahead.
LEMMA RepliesBehind ==
  ASSUME NEW s \in Seq(Messages), s # <<>>
  PROVE  /\ s[1].type \notin Types => RepliesIn(Tail(s)) = {i - 1 : i \in RepliesIn(s)}
         /\ \A i \in RepliesIn(s) : i # 1 => Tail(s)[i - 1] = s[i] /\ i - 1 \in DOMAIN Tail(s)
         /\ s[1].type \in Types => 1 \in RepliesIn(s)
<1> DEFINE n == Len(s)
           u == Tail(s)
<1>1. /\ n \in Nat \ {0} /\ u \in Seq(Messages) /\ Len(u) = n - 1
      /\ \A i \in 1..(n - 1) : u[i] = s[i + 1]
      /\ DOMAIN s = 1..n /\ DOMAIN u = 1..(n - 1)
  BY Behind
<1> HIDE DEF n, u
<1>2. \A i \in 2..n : i - 1 \in 1..(n - 1) /\ (i - 1) + 1 = i
  BY <1>1
<1>3. \A i \in 1..(n - 1) : i + 1 \in 2..n /\ (i + 1) - 1 = i
  BY <1>1
<1>4. \A i \in 1..n : i = 1 \/ i \in 2..n
  BY <1>1
<1>5. \A i \in 2..n : u[i - 1] = s[i]
  BY <1>1, <1>2
<1>6. s[1].type \notin Types => RepliesIn(u) = {i - 1 : i \in RepliesIn(s)}
  <2>1. SUFFICES ASSUME s[1].type \notin Types PROVE RepliesIn(u) = {i - 1 : i \in RepliesIn(s)}
    OBVIOUS
  <2>2. ASSUME NEW j \in RepliesIn(u) PROVE j \in {i - 1 : i \in RepliesIn(s)}
    <3>1. j \in 1..(n - 1) /\ u[j].type \in Types
      BY <1>1, <2>2 DEF RepliesIn
    <3>2. j + 1 \in 1..n /\ s[j + 1].type \in Types /\ (j + 1) - 1 = j
      BY <1>1, <3>1
    <3>3. j + 1 \in RepliesIn(s)
      BY <1>1, <3>2 DEF RepliesIn
    <3> QED
      BY <3>2, <3>3
  <2>3. ASSUME NEW i \in RepliesIn(s) PROVE i - 1 \in RepliesIn(u)
    <3>1. i \in 1..n /\ s[i].type \in Types
      BY <1>1, <2>3 DEF RepliesIn
    <3>2. i \in 2..n
      BY <1>4, <2>1, <3>1
    <3> QED
      BY <1>1, <1>2, <1>5, <3>1, <3>2 DEF RepliesIn
  <2> QED
    BY <2>2, <2>3
<1>7. \A i \in RepliesIn(s) : i # 1 => u[i - 1] = s[i] /\ i - 1 \in DOMAIN u
  BY <1>1, <1>2, <1>4, <1>5 DEF RepliesIn
<1>8. s[1].type \in Types => 1 \in RepliesIn(s)
  BY <1>1 DEF RepliesIn
<1> QED
  BY <1>6, <1>7, <1>8 DEF u

\* Without its first frame, which is no reply, a stream has the same replies to come.
LEMMA PassedOver ==
  ASSUME stream \in Seq(Messages), stream # <<>>, stream' = Tail(stream),
         stream[1].type \notin Types, UNCHANGED <<asked, msgq, want>>
  PROVE  (NoneOnItsWay => NoneOnItsWay') /\ (OneOnItsWay => OneOnItsWay')
<1>1. /\ RepliesIn(stream') = {i - 1 : i \in RepliesIn(stream)}
      /\ \A i \in RepliesIn(stream) : i # 1 => stream'[i - 1] = stream[i] /\ i - 1 \in DOMAIN stream'
  BY RepliesBehind
<1>2. RepliesIn(stream) = {} => RepliesIn(stream') = {}
  BY <1>1
<1>3. ASSUME NEW i \in DOMAIN stream, RepliesIn(stream) = {i}, stream[i] = want
      PROVE  \E j \in DOMAIN stream' : RepliesIn(stream') = {j} /\ stream'[j] = want
  <2>1. i \in RepliesIn(stream) /\ i # 1
    BY <1>3 DEF RepliesIn
  <2>2. RepliesIn(stream') = {i - 1} /\ stream'[i - 1] = want /\ i - 1 \in DOMAIN stream'
    BY <1>1, <1>3, <2>1
  <2> QED
    BY <2>2
<1>4. OneOnItsWay => OneOnItsWay'
  BY <1>2, <1>3 DEF OneOnItsWay
<1> QED
  BY <1>2, <1>4 DEF NoneOnItsWay

LEMMA HelperHelloKeepsIInv == ASSUME IInv, HelperHello PROVE IInv'
<1> USE DEF IInv, HelperHello, counters
<1>1. stream \in Seq(Messages) /\ stream # <<>> /\ stream[1] = Hello
  BY DEF TypeOK, StreamInv
<1>2. /\ Len(stream) \in Nat \ {0} /\ stream' \in Seq(Messages) /\ Len(stream') = Len(stream) - 1
      /\ \A i \in 1..(Len(stream) - 1) : stream'[i] = stream[i + 1] /\ i + 1 \in 2..Len(stream)
  BY <1>1, Behind
<1>3. TypeOK'
  BY <1>2 DEF TypeOK
<1>4. StreamInv'
  <2>1. \A i \in 2..Len(stream) : stream[i].type \in Passed
    BY DEF StreamInv
  <2>2. \A i \in 1..Len(stream') : stream'[i].type \in Passed
    BY <1>2, <2>1
  <2> QED
    BY <2>2 DEF StreamInv
<1>5. WayInv'
  <2>1. stream[1].type \notin Types
    BY <1>1, ClientTypes DEF Hello, Reply
  <2> QED
    BY <1>1, <2>1, PassedOver DEF WayInv, OneOnItsWay, NoneOnItsWay
<1>6. OwnReply'
  BY DEF OwnReply
<1> QED
  BY <1>3, <1>4, <1>5, <1>6

\* A frame that is a reply was the one on its way.
LEMMA HelperRecvKeepsIInv == ASSUME IInv, HelperRecv PROVE IInv'
<1> USE DEF IInv, counters, procVars
<1>1. PICK m \in Taken : msgq' = IF m.type = "repost" THEN msgq ELSE Append(msgq, m)
  BY DEF HelperRecv
<1>2. /\ alive /\ helper = "loop" /\ stream # <<>> /\ stream' = Tail(stream)
      /\ UNCHANGED <<alive, procVars, asked, counters, up, fresh, fate>>
  BY DEF HelperRecv
<1>3. stream \in Seq(Messages) /\ msgq \in Seq(Messages)
  BY DEF TypeOK
<1>4. /\ Len(stream) \in Nat \ {0} /\ stream' \in Seq(Messages) /\ Len(stream') = Len(stream) - 1
      /\ Head(stream) = stream[1] /\ stream[1] \in Messages
      /\ \A i \in 1..(Len(stream) - 1) : stream'[i] = stream[i + 1] /\ i + 1 \in 2..Len(stream)
  BY <1>2, <1>3, Behind
<1>5. m \in Messages /\ (~coalesced => m = stream[1])
  BY <1>4, Counters DEF Taken, Reply, Messages
<1>6. \A i \in 1..Len(stream) : stream[i].type \in Passed
  BY <1>2 DEF StreamInv
<1>7. msgq' \in Seq(Messages)
  BY <1>1, <1>3, <1>5, Appended
<1>8. TypeOK'
  BY <1>2, <1>4, <1>7 DEF TypeOK
<1>9. StreamInv'
  <2>1. \A i \in 1..Len(stream') : stream'[i].type \in Passed
    BY <1>4, <1>6
  <2> QED
    BY <1>2, <2>1 DEF StreamInv
<1>10. WayInv'
  <2>1. SUFFICES ASSUME ~coalesced
                 PROVE  (NoneOnItsWay => NoneOnItsWay') /\ (OneOnItsWay => OneOnItsWay')
    BY <1>2 DEF WayInv
  <2>2. stream[1].type \in Passed /\ m = stream[1]
    BY <1>4, <1>5, <1>6, <2>1
  <2>3. CASE m.type = "repost"
    <3>1. stream[1].type \notin Types /\ msgq' = msgq
      BY <1>1, <2>2, <2>3, ClientTypes
    <3> QED
      BY <1>2, <1>3, <3>1, PassedOver
  <2>4. CASE m.type # "repost"
    <3>1. 1 \in RepliesIn(stream) /\ msgq' = Append(msgq, m)
      BY <1>1, <1>2, <1>3, <2>2, <2>4, RepliesBehind DEF Passed
    <3>2. ~NoneOnItsWay
      BY <3>1 DEF NoneOnItsWay
    <3>3. ASSUME OneOnItsWay PROVE OneOnItsWay'
      <4>1. asked = <<>> /\ RepliesIn(stream) = {1} /\ stream[1] = want /\ msgq = <<>>
        BY <3>1, <3>3 DEF OneOnItsWay
      <4>2. msgq' = <<want>>
        BY <1>3, <1>5, <2>2, <3>1, <4>1, Appended
      <4>3. RepliesIn(stream') = {}
        <5>1. ASSUME NEW j \in RepliesIn(stream') PROVE FALSE
          <6>1. j \in 1..(Len(stream) - 1) /\ stream'[j].type \in Types
            BY <1>4, <5>1 DEF RepliesIn
          <6>2. j + 1 \in DOMAIN stream /\ stream[j + 1].type \in Types /\ j + 1 # 1
            BY <1>3, <1>4, <6>1
          <6> QED
            BY <4>1, <6>2 DEF RepliesIn
        <5> QED
          BY <5>1
      <4> QED
        BY <1>2, <4>1, <4>2, <4>3 DEF OneOnItsWay
    <3> QED
      BY <3>2, <3>3
  <2> QED
    BY <2>3, <2>4
<1>11. OwnReply'
  BY <1>2 DEF OwnReply
<1> QED
  BY <1>8, <1>9, <1>10, <1>11

-----------------------------------------------------------------------------
\* The server.

\* A frame put at the end of the stream.
LEMMA RepliesAfterAppend ==
  ASSUME NEW s \in Seq(Messages), NEW m \in Messages
  PROVE  /\ m.type \notin Types => RepliesIn(Append(s, m)) = RepliesIn(s)
         /\ m.type \in Types => RepliesIn(Append(s, m)) = RepliesIn(s) \cup {Len(s) + 1}
         /\ \A i \in RepliesIn(s) : Append(s, m)[i] = s[i] /\ i \in DOMAIN Append(s, m)
<1> DEFINE n == Len(s)
           u == Append(s, m)
<1>1. /\ n \in Nat /\ Len(u) = n + 1 /\ u[n + 1] = m /\ \A i \in 1..n : u[i] = s[i]
      /\ DOMAIN s = 1..n /\ DOMAIN u = 1..(n + 1)
  BY Appended
<1> HIDE DEF n, u
<1>2. \A i : i \in 1..(n + 1) <=> i \in 1..n \/ i = n + 1
  BY <1>1
<1>3. n + 1 \notin 1..n
  BY <1>1
<1> QED
  BY <1>1, <1>2, <1>3 DEF RepliesIn, u, n

LEMMA AppendKeepsStream ==
  ASSUME StreamInv, alive, helper # "none", NEW m \in Messages, m.type \in Passed,
         stream \in Seq(Messages), stream' = Append(stream, m), UNCHANGED <<alive, helper>>,
         \A i \in 1..Len(asked') : asked'[i].type \in Types
  PROVE  StreamInv'
<1> DEFINE n == Len(stream)
<1>1. /\ n \in Nat /\ Len(stream') = n + 1 /\ stream'[n + 1] = m /\ stream' # <<>>
      /\ \A i \in 1..n : stream'[i] = stream[i]
  BY Appended
<1>2. stream # <<>> => n # 0
  BY <1>1
<1> HIDE DEF n
<1>3. \A i \in 1..(n + 1) : i \in 1..n \/ i = n + 1
  BY <1>1
<1>4. \A i \in 2..(n + 1) : i \in 2..n \/ i = n + 1
  BY <1>1
<1>5. \A i \in 2..n : i \in 1..n
  BY <1>1
<1>6. n # 0 => 1 \in 1..n
  BY <1>1
<1> QED
  BY <1>1, <1>2, <1>3, <1>4, <1>5, <1>6 DEF StreamInv, n

LEMMA AnswerKeepsIInv == ASSUME IInv, Answer PROVE IInv'
<1> DEFINE m == Head(asked)
<1> USE DEF IInv, counters, procVars
<1>1. /\ up /\ asked # <<>> /\ stream' = Append(stream, m) /\ asked' = Tail(asked)
      /\ fresh' = FALSE /\ UNCHANGED <<msgq, alive, procVars, counters, up, fate>>
  BY DEF Answer
<1>2. stream \in Seq(Messages) /\ asked \in Seq(Messages)
  BY DEF TypeOK
<1>3. /\ Len(asked) \in Nat \ {0} /\ asked' \in Seq(Messages) /\ Len(asked') = Len(asked) - 1
      /\ m = asked[1] /\ m \in Messages
      /\ \A i \in 1..(Len(asked) - 1) : asked'[i] = asked[i + 1] /\ i + 1 \in 2..Len(asked)
  BY <1>1, <1>2, Behind
<1>4. m.type \in Types /\ \A i \in 1..Len(asked') : asked'[i].type \in Types
  BY <1>3 DEF StreamInv
<1> HIDE DEF m
<1>5. alive /\ helper # "none"
  BY <1>1 DEF StreamInv
<1>6. TypeOK'
  <2>1. stream' \in Seq(Messages)
    BY <1>1, <1>2, <1>3, Appended
  <2> QED
    BY <1>1, <1>3, <2>1 DEF TypeOK
<1>7. StreamInv'
  BY <1>1, <1>2, <1>3, <1>4, <1>5, AppendKeepsStream DEF Passed
<1>8. WayInv'
  <2>1. SUFFICES ASSUME ~coalesced
                 PROVE  (NoneOnItsWay => NoneOnItsWay') /\ (OneOnItsWay => OneOnItsWay')
    BY <1>1 DEF WayInv
  <2>2. ~NoneOnItsWay
    BY <1>1 DEF NoneOnItsWay
  <2>3. ASSUME OneOnItsWay PROVE OneOnItsWay'
    <3>1. asked = <<want>> /\ RepliesIn(stream) = {} /\ msgq = <<>>
      BY <1>1, <2>3 DEF OneOnItsWay
    <3>2. m = want /\ asked' = <<>>
      BY <1>1, <3>1, OneMessage DEF m
    <3>3. RepliesIn(stream') = {Len(stream) + 1}
      BY <1>1, <1>2, <1>3, <1>4, <3>1, RepliesAfterAppend
    <3>4. stream'[Len(stream) + 1] = want
      BY <1>1, <1>2, <1>3, <3>2, Appended
    <3>5. Len(stream) + 1 \in DOMAIN stream'
      BY <3>3 DEF RepliesIn
    <3> QED
      BY <1>1, <3>1, <3>2, <3>3, <3>4, <3>5 DEF OneOnItsWay
  <2> QED
    BY <2>2, <2>3
<1>9. OwnReply'
  BY <1>1 DEF OwnReply
<1> QED
  BY <1>6, <1>7, <1>8, <1>9

LEMMA IgnoreKeepsIInv == ASSUME IInv, Ignore PROVE IInv'
<1> USE DEF IInv, Ignore, counters, procVars
<1>1. asked \in Seq(Messages) /\ asked # <<>>
  BY DEF TypeOK
<1>2. /\ Len(asked) \in Nat \ {0} /\ asked' \in Seq(Messages) /\ Len(asked') = Len(asked) - 1
      /\ \A i \in 1..(Len(asked) - 1) : asked'[i] = asked[i + 1] /\ i + 1 \in 2..Len(asked)
  BY <1>1, Behind
<1>3. TypeOK'
  BY <1>2 DEF TypeOK
<1>4. StreamInv'
  <2>1. \A i \in 1..Len(asked') : asked'[i].type \in Types
    BY <1>2 DEF StreamInv
  <2> QED
    BY <1>1, <2>1 DEF StreamInv
<1>5. WayInv'
  <2>1. SUFFICES ASSUME alive, ~coalesced PROVE NoneOnItsWay'
    BY DEF WayInv
  <2>2. asked = <<want>> /\ RepliesIn(stream) = {} /\ msgq = <<>>
    BY <1>1, <2>1 DEF WayInv, OneOnItsWay, NoneOnItsWay
  <2>3. asked' = <<>>
    BY <2>2, OneMessage
  <2> QED
    BY <2>2, <2>3 DEF NoneOnItsWay
<1>6. OwnReply'
  BY DEF OwnReply
<1> QED
  BY <1>3, <1>4, <1>5, <1>6

LEMMA SendRepostKeepsIInv == ASSUME IInv, SendRepost PROVE IInv'
<1> USE DEF IInv, SendRepost, procVars
<1>1. stream \in Seq(Messages) /\ Repost \in Messages /\ helper # "none"
  BY Counters DEF TypeOK
<1>2. Repost.type = "repost" /\ "repost" \notin Types
  BY ClientTypes DEF Repost, Reply
<1>3. TypeOK'
  <2>1. stream' \in Seq(Messages)
    BY <1>1, Appended
  <2> QED
    BY <2>1, Counters DEF TypeOK
<1>4. StreamInv'
  <2>1. \A i \in 1..Len(asked') : asked'[i].type \in Types
    BY DEF StreamInv
  <2> QED
    BY <1>1, <1>2, <2>1, AppendKeepsStream DEF Passed
<1>5. WayInv'
  <2>1. /\ RepliesIn(stream') = RepliesIn(stream)
        /\ \A i \in RepliesIn(stream) : stream'[i] = stream[i] /\ i \in DOMAIN stream'
    BY <1>1, <1>2, RepliesAfterAppend
  <2> QED
    BY <2>1 DEF WayInv, OneOnItsWay, NoneOnItsWay
<1>6. OwnReply'
  BY DEF OwnReply
<1> QED
  BY <1>3, <1>4, <1>5, <1>6

LEMMA ServerEndsKeepsIInv == ASSUME IInv, ServerEnds PROVE IInv'
<1> USE DEF IInv, ServerEnds, procVars, counters
<1>1. TypeOK'
  BY Counters DEF TypeOK
<1>2. StreamInv'
  <2>1. \A i \in 1..Len(asked') : FALSE
    BY OneMessage
  <2> QED
    BY <2>1 DEF StreamInv
<1>3. WayInv'
  <2>1. SUFFICES ASSUME alive, ~coalesced
                 PROVE  IF user = "wait" /\ fate' = "due" THEN OneOnItsWay' ELSE NoneOnItsWay'
    BY DEF WayInv
  <2>2. CASE asked = <<>>
    BY <2>1, <2>2 DEF WayInv, OneOnItsWay, NoneOnItsWay
  <2>3. CASE asked # <<>>
    <3>1. RepliesIn(stream) = {} /\ msgq = <<>>
      BY <2>1, <2>3 DEF WayInv, OneOnItsWay, NoneOnItsWay
    <3> QED
      BY <2>3, <3>1 DEF NoneOnItsWay
  <2> QED
    BY <2>2, <2>3
<1>4. OwnReply'
  BY DEF OwnReply
<1> QED
  BY <1>1, <1>2, <1>3, <1>4

-----------------------------------------------------------------------------
LEMMA NextKeepsIInv == IInv /\ [Next]_vars => IInv'
<1> SUFFICES ASSUME IInv, [Next]_vars PROVE IInv'
  OBVIOUS
<1>1. CASE UNCHANGED vars
  BY <1>1 DEF IInv, vars, procVars, netVars, counters, TypeOK, StreamInv, WayInv, OwnReply,
     OneOnItsWay, NoneOnItsWay
<1>2. CASE Next
  BY <1>1, <1>2, StartKeepsIInv, EndsKeepsIInv, MsgRcvKeepsIInv, ConnectServerKeepsIInv,
     DisconnectServerKeepsIInv, RequestKeepsIInv, HelperHelloKeepsIInv, HelperRecvKeepsIInv,
     AnswerKeepsIInv, IgnoreKeepsIInv, SendRepostKeepsIInv, ServerEndsKeepsIInv
     DEF Next, Kill, User, RequestUnconnected, Done, ServerTurn, Idle
<1> QED
  BY <1>1, <1>2

THEOREM Invariance == Spec => []IInv
BY InitIInv, NextKeepsIInv, PTL DEF Spec

LEMMA EndInvariance == Spec => []EndInv
<1>1. Init => EndInv
  BY DEF Init, EndInv
<1>2. EndInv /\ [Next]_vars => EndInv'
  <2> SUFFICES ASSUME EndInv, [Next]_vars PROVE EndInv'
    OBVIOUS
  <2>1. CASE Start \/ Kill \/ User \/ ServerEnds
    BY <2>1 DEF EndInv, Start, NewProcess, Kill, Ends, User, MsgRcv, ConnectServer,
       DisconnectServer, Request, RequestUnconnected, Done, Menu, ServerEnds, netVars, procVars
  <2>2. CASE HelperHello \/ HelperRecv \/ ServerTurn \/ SendRepost \/ Idle \/ UNCHANGED vars
    BY <2>2 DEF EndInv, HelperHello, HelperRecv, ServerTurn, Answer, Ignore, SendRepost, Idle,
       vars, netVars, procVars
  <2> QED
    BY <2>1, <2>2 DEF Next
<1> QED
  BY <1>1, <1>2, PTL DEF Spec

\* msgrcv never returns what an earlier request, or an earlier process on the host, has
\* left in the queue: for any number of processes, kills, requests and reposts.
THEOREM RepliesAreOwn == Spec => []OwnReply
<1>1. IInv => OwnReply
  BY DEF IInv
<1> QED
  BY <1>1, Invariance, PTL

\* Between the server, the helper and the queue no reply is lost, doubled or left over, and
\* there is none only if the server ignored the first request of a connection, one byte, or
\* ended before it answered (client.cpp:31-48, server.cpp:32-41).
THEOREM RepliesAreNotLost == Spec => []OneReplyOnItsWay
<1>1. IInv /\ EndInv => OneReplyOnItsWay
  BY DEF IInv, EndInv, WayInv, OneReplyOnItsWay, TypeOK
<1> QED
  BY <1>1, Invariance, EndInvariance, PTL

-----------------------------------------------------------------------------
(***************************************************************************)
(* How the reply comes nearer: where it is, whose step takes it on, and    *)
(* that this step can be taken until it is.                                *)
(***************************************************************************)
\* The user waits for a reply that is to come; also when the server has ended behind it.
Awaited == alive /\ user = "wait" /\ fate = "due" /\ ~coalesced

Stage == IF asked # <<>> THEN "server" ELSE IF msgq = <<>> THEN "helper" ELSE "user"

\* How far the helper has to read.
Place == IF Stage = "helper" THEN CHOOSE i \in DOMAIN stream : RepliesIn(stream) = {i} ELSE 0

Onward == CASE Stage = "server" -> Answer
            [] Stage = "helper" -> HelperHello \/ HelperRecv
            [] Stage = "user" -> MsgRcv

OnwardReady == CASE Stage = "server" -> up /\ asked # <<>>
                 [] Stage = "helper" -> alive /\ helper # "none" /\ stream # <<>>
                 [] Stage = "user" -> /\ alive /\ user = "wait"
                                      /\ \E i \in DOMAIN msgq : msgq[i].type = want.type

Nearer == \/ Stage = "server" /\ Stage' # "server"
          \/ Stage = "helper" /\ Stage' = "helper" /\ Place' < Place
          \/ Stage = "helper" /\ Stage' = "user"

InHelper == /\ Place \in DOMAIN stream /\ RepliesIn(stream) = {Place} /\ stream[Place] = want
            /\ \A i \in DOMAIN stream : RepliesIn(stream) = {i} => i = Place

\* The reply awaited is in one of the three places.
LEMMA WhereReplyIs ==
  ASSUME IInv, Awaited
  PROVE  /\ Stage = "server" => asked = <<want>> /\ RepliesIn(stream) = {} /\ msgq = <<>>
         /\ Stage = "helper" => asked = <<>> /\ msgq = <<>> /\ InHelper
         /\ Stage = "user" => asked = <<>> /\ RepliesIn(stream) = {} /\ msgq = <<want>>
         /\ Stage \in {"server", "helper", "user"}
<1>1. OneOnItsWay
  BY DEF IInv, WayInv, Awaited
<1>2. Stage = "helper" => InHelper
  <2> SUFFICES ASSUME Stage = "helper" PROVE InHelper
    OBVIOUS
  <2>1. asked = <<>> /\ msgq = <<>>
    BY DEF Stage
  <2>2. PICK i \in DOMAIN stream : RepliesIn(stream) = {i} /\ stream[i] = want
    BY <1>1, <2>1, OneMessage DEF OneOnItsWay
  <2>3. Place \in DOMAIN stream /\ RepliesIn(stream) = {Place}
    BY <2>2 DEF Place
  <2>4. Place = i
    BY <2>2, <2>3
  <2> QED
    BY <2>2, <2>3, <2>4 DEF InHelper
<1> QED
  BY <1>1, <1>2, OneMessage DEF Stage, OneOnItsWay

\* The same of the next state.
HelperHasIt == Stage = "helper" => InHelper

LEMMA HelperHolds == IInv /\ Awaited => HelperHasIt
BY WhereReplyIs DEF HelperHasIt

LEMMA HelperAfter ==
  ASSUME IInv', Awaited', Stage' = "helper"
  PROVE  Place' \in DOMAIN stream' /\ RepliesIn(stream') = {Place'}
<1>1. IInv' /\ Awaited' => HelperHasIt'
  BY HelperHolds, PTL
<1> QED
  BY <1>1 DEF HelperHasIt, InHelper, RepliesIn

\* Behind the one reply of a stream there is none.
LEMMA NoneBehind ==
  ASSUME NEW s \in Seq(Messages), s # <<>>, RepliesIn(s) = {1}
  PROVE  RepliesIn(Tail(s)) = {}
<1>1. SUFFICES ASSUME NEW j \in RepliesIn(Tail(s)) PROVE FALSE
  OBVIOUS
<1>2. j \in 1..(Len(s) - 1) /\ Tail(s)[j].type \in Types
  BY Behind DEF RepliesIn
<1>3. s[j + 1].type \in Types /\ j + 1 \in 1..Len(s) /\ j + 1 # 1
  BY <1>2, Behind
<1> QED
  BY <1>3 DEF RepliesIn

LEMMA QueueGrows == ASSUME HelperRecv, IInv, msgq # <<>> PROVE msgq' # <<>>
<1>1. PICK m \in Taken : msgq' = IF m.type = "repost" THEN msgq ELSE Append(msgq, m)
  BY DEF HelperRecv
<1>2. msgq \in Seq(Messages)
  BY DEF IInv, TypeOK
<1>3. Append(msgq, m) # <<>>
  BY <1>2
<1> QED
  BY <1>1, <1>3

LEMMA OnwardIsReady == ASSUME IInv, EndInv, Awaited PROVE OnwardReady
<1>1. CASE Stage = "server"
  BY <1>1, WhereReplyIs, OneMessage DEF OnwardReady, EndInv
<1>2. CASE Stage = "helper"
  <2>1. Place \in DOMAIN stream /\ stream \in Seq(Messages)
    BY <1>2, WhereReplyIs DEF InHelper, IInv, TypeOK
  <2>2. stream # <<>>
    BY <2>1
  <2>3. helper # "none"
    BY <2>2 DEF IInv, StreamInv
  <2> QED
    BY <1>2, <2>2, <2>3 DEF OnwardReady, Awaited
<1>3. CASE Stage = "user"
  <2>1. msgq = <<want>>
    BY <1>3, WhereReplyIs
  <2>2. 1 \in DOMAIN msgq /\ msgq[1].type = want.type
    BY <2>1
  <2> QED
    BY <1>3, <2>2 DEF OnwardReady, Awaited
<1> QED
  BY <1>1, <1>2, <1>3, WhereReplyIs

\* While the reply is awaited nothing else happens to it.
LEMMA OnlyThese ==
  ASSUME Awaited, Awaited', [Next]_vars
  PROVE  \/ HelperHello \/ HelperRecv \/ Answer \/ SendRepost \/ UNCHANGED vars
         \/ asked = <<>> /\ UNCHANGED <<stream, asked, msgq>>
BY DEF Awaited, Next, Start, NewProcess, Kill, Ends, User, MsgRcv, ConnectServer, DisconnectServer,
   Request, RequestUnconnected, Done, Menu, ServerTurn, Ignore, ServerEnds, Idle

LEMMA TheOtherSteps ==
  ASSUME IInv, IInv', Awaited, Awaited', [Next]_vars, ~Onward
  PROVE  Stage' = Stage /\ Place' = Place
<1>1. CASE Stage = "server"
  <2>1. ~Answer
    BY <1>1 DEF Onward
  <2>2. asked' = asked
    BY <2>1, OnlyThese DEF HelperHello, HelperRecv, SendRepost, vars, netVars
  <2>3. Stage' = Stage
    BY <1>1, <2>2 DEF Stage
  <2> QED
    BY <1>1, <2>3 DEF Place
<1>2. CASE Stage = "helper"
  <2>1. ~HelperHello /\ ~HelperRecv
    BY <1>2 DEF Onward
  <2>2. ~Answer
    BY <1>2, WhereReplyIs DEF Answer
  <2>3. asked' = asked /\ msgq' = msgq
    BY <2>1, <2>2, OnlyThese DEF SendRepost, vars, netVars
  <2>4. Stage' = Stage
    BY <2>3 DEF Stage
  <2>5. Place' \in DOMAIN stream' /\ RepliesIn(stream') = {Place'}
    BY <1>2, <2>4, HelperAfter
  <2>6. RepliesIn(stream') = RepliesIn(stream)
    <3>1. CASE SendRepost
      <4>1. stream' = Append(stream, Repost) /\ stream \in Seq(Messages) /\ Repost \in Messages
        BY <3>1, Counters DEF SendRepost, IInv, TypeOK
      <4>2. Repost.type \notin Types
        BY ClientTypes DEF Repost, Reply
      <4> QED
        BY <4>1, <4>2, RepliesAfterAppend
    <3>2. CASE UNCHANGED vars
      BY <3>2 DEF vars, netVars
    <3>3. CASE UNCHANGED stream
      BY <3>3
    <3> QED
      BY <2>1, <2>2, <3>1, <3>2, <3>3, OnlyThese
  <2>7. RepliesIn(stream) = {Place}
    BY <1>2, WhereReplyIs DEF InHelper
  <2> QED
    BY <2>4, <2>5, <2>6, <2>7
<1>3. CASE Stage = "user"
  <2>1. ~Answer /\ msgq # <<>>
    BY <1>3, WhereReplyIs, OneMessage DEF Answer
  <2>2. asked' = asked
    BY <2>1, OnlyThese DEF HelperHello, HelperRecv, SendRepost, vars, netVars
  <2>3. msgq' # <<>>
    BY <2>1, OnlyThese, QueueGrows DEF HelperHello, SendRepost, vars
  <2>4. Stage' = Stage
    BY <1>3, <2>1, <2>2, <2>3 DEF Stage
  <2> QED
    BY <1>3, <2>4 DEF Place
<1> QED
  BY <1>1, <1>2, <1>3, WhereReplyIs

LEMMA TheStepOnward ==
  ASSUME IInv, IInv', Awaited, Awaited', Onward
  PROVE  Nearer
<1>1. CASE Stage = "server"
  <2>1. asked = <<want>> /\ asked' = Tail(asked)
    BY <1>1, WhereReplyIs DEF Onward, Answer
  <2>2. asked' = <<>>
    BY <2>1, OneMessage
  <2> QED
    BY <1>1, <2>2 DEF Nearer, Stage
<1>2. CASE Stage = "helper"
  <2>1. /\ asked = <<>> /\ asked' = asked /\ stream # <<>> /\ stream' = Tail(stream)
        /\ stream \in Seq(Messages)
    BY <1>2, WhereReplyIs DEF Onward, HelperHello, HelperRecv, IInv, TypeOK
  <2>2. Stage' # "server"
    BY <2>1 DEF Stage
  <2>3. CASE Stage' = "helper"
    <3>1. Place' \in DOMAIN stream' /\ RepliesIn(stream') = {Place'} /\ stream' \in Seq(Messages)
      BY <2>3, HelperAfter DEF IInv, TypeOK
    <3>2. InHelper
      BY <1>2, WhereReplyIs
    <3>3. Place \in 1..Len(stream) /\ stream[Place].type \in Types
      BY <2>1, <3>2 DEF InHelper, RepliesIn
    <3>4. 1 \notin RepliesIn(stream) => stream[1].type \notin Types
      BY <2>1, RepliesBehind
    <3>5. CASE Place = 1
      <4>1. RepliesIn(stream') = {}
        BY <2>1, <3>2, <3>5, NoneBehind DEF InHelper
      <4> QED
        BY <3>1, <4>1
    <3>6. CASE Place # 1
      <4>1. stream[1].type \notin Types
        BY <3>2, <3>4, <3>6 DEF InHelper
      <4>2. RepliesIn(stream') = {i - 1 : i \in RepliesIn(stream)}
        BY <2>1, <4>1, RepliesBehind
      <4>3. Place' = Place - 1
        BY <3>1, <3>2, <4>2 DEF InHelper
      <4> QED
        BY <1>2, <2>3, <3>3, <4>3 DEF Nearer
    <3> QED
      BY <3>5, <3>6
  <2> QED
    BY <1>2, <2>2, <2>3 DEF Nearer, Stage
<1>3. CASE Stage = "user"
  BY <1>3 DEF Onward, MsgRcv, Awaited
<1> QED
  BY <1>1, <1>2, <1>3, WhereReplyIs

\* A user who waits for a reply that is to come: the reply is with the server, in the
\* connection or in the queue; the server, the helper or the user can take it on, no step of
\* anybody else takes it back or keeps the one who has it from taking it on, and every step
\* on brings it nearer (client.cpp:160-215), for any number of requests, reposts, processes
\* and kills.  It ceases to come only when the server ignores the request or ends before it
\* has answered, the process ends, or hello is read with more.
THEOREM RepliesComeNearer ==
  Spec => /\ [](Awaited => OnwardReady /\ Place \in Nat)
          /\ [][Awaited => ~Awaited' \/ IF Onward THEN Nearer
                                        ELSE Stage' = Stage /\ Place' = Place]_vars
<1>1. IInv /\ EndInv => (Awaited => OnwardReady /\ Place \in Nat)
  <2> SUFFICES ASSUME IInv, EndInv, Awaited PROVE OnwardReady /\ Place \in Nat
    OBVIOUS
  <2>1. Stage = "helper" => Place \in DOMAIN stream /\ stream \in Seq(Messages)
    BY WhereReplyIs DEF InHelper, IInv, TypeOK
  <2>2. Place \in Nat
    BY <2>1 DEF Place
  <2> QED
    BY <2>2, OnwardIsReady
<1>2. IInv /\ IInv' /\ [Next]_vars =>
        [Awaited => ~Awaited' \/ IF Onward THEN Nearer ELSE Stage' = Stage /\ Place' = Place]_vars
  BY TheOtherSteps, TheStepOnward
<1> QED
  BY <1>1, <1>2, Invariance, EndInvariance, PTL DEF Spec
=============================================================================

--------------------------- MODULE MyRedisProofs ---------------------------
(***************************************************************************)
(* Proofs about the programs of my_redis.  First MiniRedis, for any number *)
(* of processes of client.rs, with any tasks, any number of other programs *)
(* and of crashes of the server: its invariant, that it implements         *)
(* KeyValueStore, that no client hangs and what it has left to do.  Then   *)
(* EchoClient, for any lines cut anywhere, likewise.                       *)
(***************************************************************************)
EXTENDS MiniRedis, EchoClient, SequenceTheorems, FiniteSetTheorems, WellFoundedInduction, TLAPS

Frames == KV!Requests \cup {[op |-> "other"]}
FramesInv == /\ \A t \in Tasks : req[t] \in KV!Requests
             /\ toServer \in [Conns -> Seq(Frames)]
             /\ toClient \in [Conns -> Seq(Replies)]

\* A command in the channel is that of a task of the process, which waits for it or was
\* cancelled; it is there once, it was not executed and has no result.
Pending == {t \in Tasks : /\ task[t] \in {"await", "cancelled"} /\ oneshot[t] = "open"
                          /\ reply[t] = None}
ChanInv == \A p \in Procs :
  /\ \A i \in 1..Len(chan[p]) : chan[p][i] \in TasksOf(p) \cap Pending
  /\ \A i, j \in 1..Len(chan[p]) : chan[p][i] = chan[p][j] => i = j
  /\ \A i \in 1..Len(chan[p]) : chan[p][i] # cur[p]

\* A task has no result before it is done, and none is computed before it has sent.
TaskInv == \A t \in Tasks :
  /\ task[t] # "done" => result[t] = None
  /\ task[t] \in {"send", "unsent", "panicked"} => oneshot[t] = "open" /\ reply[t] = None
  /\ oneshot[t] \in Replies => oneshot[t] = reply[t]

\* The manager is in the middle of a command only in a call, or cancelled there.
ManagerInv == \A p \in Procs :
  /\ manager[p] = "connect" => link[p] = "none"
  /\ manager[p] \in {"recv", "call"} => link[p] # "none"
  /\ manager[p] = "call" => cur[p] # None
  /\ cur[p] # None => /\ manager[p] \in {"call", "cancelled"} /\ link[p] # "none"
                      /\ cur[p] \in TasksOf(p) /\ oneshot[cur[p]] = "open"
                      /\ task[cur[p]] \in {"await", "cancelled"}
  \* Only a crash cuts the connection of a manager that still uses it.
  /\ manager[p] \in {"recv", "call"} /\ link[p] = "closed" => process[p] = "ended"

\* Where the frame of a connection is: in flight to the server, executed, in flight back,
\* or nowhere.
Requested(c) == /\ toServer[c] = <<req[Sender(c)]>> /\ toClient[c] = <<>>
                /\ process[c] \in {"none", "read"} /\ response[c] = None
                /\ reply[Sender(c)] = None
Executed(c) == /\ toServer[c] = <<>> /\ toClient[c] = <<>> /\ process[c] = "write"
               /\ response[c] = reply[Sender(c)] /\ reply[Sender(c)] \in Replies
Answered(c) == /\ toServer[c] = <<>> /\ toClient[c] = <<reply[Sender(c)]>>
               /\ process[c] # "write" /\ response[c] = None
               /\ reply[Sender(c)] \in Replies
Quiet(c) == /\ toServer[c] = <<>> /\ toClient[c] = <<>>
            /\ process[c] # "write" /\ response[c] = None
InFlight(c) == \/ Requested(c) \/ Executed(c) \/ Answered(c)
               \/ Quiet(c) /\ link[c] = "closed"
ConnInv ==
  /\ \A c \in Conns : /\ link[c] = "none" => process[c] = "none"
                      /\ link[c] = "open" => process[c] # "ended"
  /\ \A p \in Procs : IF cur[p] = None THEN Quiet(p) ELSE InFlight(p)
  /\ \A s \in Strangers :
       IF link[s] = "none" THEN Quiet(s) /\ reply[s] = None ELSE InFlight(s)

\* As long as the server lives a manager ends only after all its tasks are done, and
\* only then its connection.
FaultInv == crashes = 0 =>
  /\ up
  /\ \A t \in Tasks : oneshot[t] \notin {"dropped", Error}
  /\ \A p \in Procs : /\ manager[p] \notin {"panicked", "cancelled"}
                      /\ link[p] = "closed" => manager[p] = "done"
                      /\ manager[p] = "done" => \A t \in TasksOf(p) : task[t] = "done"

IInv == /\ TypeOK /\ FramesInv /\ ChanInv /\ TaskInv /\ ManagerInv /\ ConnInv
        /\ FaultInv /\ FaultsHaveACause

-----------------------------------------------------------------------------
\* A task belongs to the process that spawned it.
LEMMA OwnerOfTask ==
  /\ \A t \in Tasks : Owner(t) \in Procs /\ t \in TasksOf(Owner(t))
  /\ \A p \in Procs : \A t \in TasksOf(p) : t \in Tasks /\ Owner(t) = p
<1>1. ASSUME NEW p \in Procs, NEW t \in TasksOf(p) PROVE t \in Tasks /\ Owner(t) = p
  <2>1. t \in Tasks
    BY DEF Tasks
  <2>2. Owner(t) \in Procs /\ t \in TasksOf(Owner(t))
    BY DEF Owner
  <2>3. TasksOf(p) \cap TasksOf(Owner(t)) # {}
    BY <2>2
  <2> QED
    BY <2>1, <2>2, <2>3, RedisTasks
<1>2. ASSUME NEW t \in Tasks PROVE Owner(t) \in Procs /\ t \in TasksOf(Owner(t))
  <2>1. PICK p \in Procs : t \in TasksOf(p)
    BY DEF Tasks
  <2> QED
    BY <1>1, <2>1
<1> QED
  BY <1>1, <1>2

LEMMA InitIInv == Init => IInv
<1> SUFFICES ASSUME Init PROVE IInv
  OBVIOUS
<1>1. TypeOK
  <2>1. \A p \in Procs : Len(TaskSeq[p]) \in Nat
    BY RedisActors
  <2> QED
    BY <2>1, RedisBounds, RedisActors DEF Init, TypeOK, KV!Empty, Ended, Replies, Conns
<1>2. FramesInv /\ ChanInv /\ TaskInv /\ ManagerInv
  BY RedisResults, RedisActors DEF Init, FramesInv, ChanInv, TaskInv, ManagerInv, Conns, Sessions
<1>3. ConnInv
  BY RedisActors DEF Init, ConnInv, Quiet, Conns, Sessions
<1>4. FaultInv /\ FaultsHaveACause
  BY RedisResults, RedisActors DEF Init, FaultInv, FaultsHaveACause, Conns, Replies
<1> QED
  BY <1>1, <1>2, <1>3, <1>4 DEF IInv
-----------------------------------------------------------------------------
\* The tasks.

LEMMA SendCommandKeepsIInv == ASSUME NEW t \in Tasks, IInv, SendCommand(t) PROVE IInv'
<1> DEFINE p == Owner(t)
<1>1. p \in Procs /\ t \in TasksOf(p) /\ \A q \in Procs : t \in TasksOf(q) => q = p
  BY OwnerOfTask
<1> HIDE DEF p
<1>2. /\ task[t] = "send" /\ manager[p] \notin Ended /\ Len(chan[p]) < Capacity
      /\ chan' = [chan EXCEPT ![p] = Append(chan[p], t)]
      /\ task' = [task EXCEPT ![t] = "await"]
      /\ UNCHANGED <<req, oneshot, result, main, joined, manager, cur, netVars, serverVars>>
  BY DEF SendCommand, p
<1> USE DEF IInv, netVars, serverVars
<1>3. /\ chan \in [Procs -> Seq(Tasks)] /\ task \in [Tasks -> {"send", "await"} \cup Ended]
      /\ chan[p] \in Seq(Tasks) /\ Len(chan[p]) \in Nat
  BY <1>1 DEF TypeOK
<1>4. TypeOK'
  <2>1. Append(chan[p], t) \in Seq(Tasks) /\ Len(Append(chan[p], t)) = Len(chan[p]) + 1
    BY <1>3
  <2>2. Len(chan[p]) + 1 <= Capacity
    BY <1>2, <1>3, RedisBounds
  <2>3. chan' \in [Procs -> Seq(Tasks)] /\ \A q \in Procs : Len(chan'[q]) <= Capacity
    BY <1>1, <1>2, <1>3, <2>1, <2>2 DEF TypeOK
  <2>4. task' \in [Tasks -> {"send", "await"} \cup Ended]
    BY <1>2, <1>3
  <2> QED
    BY <1>2, <2>3, <2>4 DEF TypeOK
<1>5. ChanInv'
  <2>1. /\ oneshot[t] = "open" /\ reply[t] = None /\ cur[p] # t
        /\ \A q \in Procs : \A i \in 1..Len(chan[q]) : chan[q][i] # t
    <3>1. oneshot[t] = "open" /\ reply[t] = None
      BY <1>2 DEF TaskInv
    <3>2. cur[p] # t
      BY <1>1, <1>2, RedisActors DEF ManagerInv, Sessions
    <3>3. t \notin Pending
      BY <1>2 DEF Pending
    <3> QED
      BY <3>1, <3>2, <3>3 DEF ChanInv
  <2>2. Pending' = Pending \cup {t}
    BY <1>2, <1>3, <2>1 DEF Pending
  <2>3. /\ Len(chan'[p]) = Len(chan[p]) + 1 /\ chan'[p][Len(chan[p]) + 1] = t
        /\ \A i \in 1..Len(chan[p]) : chan'[p][i] = chan[p][i]
    BY <1>1, <1>2, <1>3
  <2>4. ASSUME NEW q \in Procs
        PROVE  /\ \A i \in 1..Len(chan'[q]) : chan'[q][i] \in TasksOf(q) \cap Pending'
               /\ \A i, j \in 1..Len(chan'[q]) : chan'[q][i] = chan'[q][j] => i = j
               /\ \A i \in 1..Len(chan'[q]) : chan'[q][i] # cur[q]
    <3>1. CASE q = p
      <4> DEFINE n == Len(chan[p])
      <4>1. /\ \A i \in 1..n : chan[p][i] \in TasksOf(p) \cap Pending /\ chan[p][i] # cur[p]
            /\ \A i, j \in 1..n : chan[p][i] = chan[p][j] => i = j
            /\ \A i \in 1..n : chan[p][i] # t
        BY <1>1, <2>1 DEF ChanInv
      <4>2. /\ n \in Nat /\ Len(chan'[p]) = n + 1 /\ chan'[p][n + 1] = t
            /\ \A i \in 1..n : chan'[p][i] = chan[p][i]
        BY <1>3, <2>3
      <4> HIDE DEF n
      <4>3. \A i \in 1..(n + 1) : i \in 1..n \/ i = n + 1
        BY <4>2
      <4> QED
        BY <1>1, <2>1, <2>2, <3>1, <4>1, <4>2, <4>3
    <3>2. CASE q # p
      BY <1>2, <1>3, <2>2, <3>2 DEF ChanInv
    <3> QED
      BY <3>1, <3>2
  <2> QED
    BY <1>2, <2>4 DEF ChanInv
<1>6. TaskInv' /\ ManagerInv'
  BY <1>2, <1>3 DEF TaskInv, ManagerInv
<1>7. FramesInv' /\ ConnInv'
  BY <1>2 DEF FramesInv, ConnInv, InFlight, Requested, Executed, Answered, Quiet, Sender
<1>8. FaultInv' /\ FaultsHaveACause'
  BY <1>1, <1>2, <1>3 DEF FaultInv, FaultsHaveACause, Ended
<1> QED
  BY <1>4, <1>5, <1>6, <1>7, <1>8

LEMMA SendFailsKeepsIInv == ASSUME NEW t \in Tasks, IInv, SendFails(t) PROVE IInv'
<1> USE DEF IInv, netVars, serverVars
<1>1. task \in [Tasks -> {"send", "await"} \cup Ended]
  BY DEF TypeOK
<1>2. crashes # 0
  <2>1. Owner(t) \in Procs /\ t \in TasksOf(Owner(t))
    BY OwnerOfTask
  <2>2. task[t] = "send" /\ manager[Owner(t)] \in Ended
    BY DEF SendFails
  <2> QED
    BY <2>1, <2>2 DEF FaultInv, Ended, TypeOK
<1>3. TypeOK'
  BY <1>1 DEF SendFails, TypeOK, Ended
<1>4. ChanInv' /\ TaskInv' /\ ManagerInv'
  BY <1>1, OwnerOfTask DEF SendFails, ChanInv, Pending, TaskInv, ManagerInv
<1>5. FramesInv' /\ ConnInv'
  BY DEF SendFails, FramesInv, ConnInv, InFlight, Requested, Executed, Answered, Quiet, Sender
<1>6. FaultInv' /\ FaultsHaveACause'
  BY <1>2 DEF SendFails, FaultInv, FaultsHaveACause
<1> QED
  BY <1>3, <1>4, <1>5, <1>6

LEMMA AwaitResponseKeepsIInv == ASSUME NEW t \in Tasks, IInv, AwaitResponse(t) PROVE IInv'
<1> USE DEF IInv, netVars, serverVars
<1>1. task \in [Tasks -> {"send", "await"} \cup Ended] /\ result \in [Tasks -> {None, Error} \cup Replies]
      /\ oneshot[t] \in {"open", "dropped", Error} \cup Replies
  BY DEF TypeOK
<1>2. TypeOK'
  BY <1>1 DEF AwaitResponse, TypeOK, Ended
<1>3. ChanInv' /\ TaskInv' /\ ManagerInv'
  BY <1>1, OwnerOfTask DEF AwaitResponse, ChanInv, Pending, TaskInv, ManagerInv
<1>4. FramesInv' /\ ConnInv'
  BY DEF AwaitResponse, FramesInv, ConnInv, InFlight, Requested, Executed, Answered, Quiet, Sender
<1>5. FaultInv' /\ FaultsHaveACause'
  BY <1>1, RedisResults DEF AwaitResponse, FaultInv, FaultsHaveACause
<1> QED
  BY <1>2, <1>3, <1>4, <1>5
-----------------------------------------------------------------------------
\* The manager and main.

LEMMA ConnectKeepsIInv == ASSUME NEW p \in Procs, IInv, Connect(p) PROVE IInv'
<1> USE DEF IInv, Connect, netVars, serverVars
<1>1. p \in Conns /\ link \in [Conns -> {"none", "open", "closed"}]
      /\ manager \in [Procs -> {"connect", "recv", "call"} \cup (Ended \ {"unsent"})]
  BY DEF TypeOK, Conns
<1>2. link[p] = "none" /\ process[p] = "none"
  BY <1>1 DEF ManagerInv, ConnInv
<1>3. cur[p] = None
  BY DEF ManagerInv
<1>4. TypeOK'
  BY <1>1 DEF TypeOK
<1>5. FramesInv' /\ ChanInv' /\ TaskInv'
  BY DEF FramesInv, ChanInv, Pending, TaskInv
<1>6. ManagerInv'
  BY <1>1, <1>3 DEF ManagerInv
<1>7. ConnInv'
  <2>1. \A c \in Conns : link'[c] = IF c = p THEN "open" ELSE link[c]
    BY <1>1
  <2>2. \A s \in Strangers : s # p
    BY RedisActors
  <2>3. \A c \in Conns : c # p => (InFlight(c) <=> InFlight(c)')
    BY <2>1 DEF InFlight, Requested, Executed, Answered, Quiet, Sender
  <2>4. \A c \in Conns : Quiet(c) <=> Quiet(c)'
    BY DEF Quiet
  <2> QED
    BY <1>1, <1>2, <1>3, <2>1, <2>2, <2>3, <2>4 DEF ConnInv, Conns
<1>8. FaultInv' /\ FaultsHaveACause'
  BY <1>1 DEF FaultInv, FaultsHaveACause
<1> QED
  BY <1>4, <1>5, <1>6, <1>7, <1>8

LEMMA ConnectRefusedKeepsIInv == ASSUME NEW p \in Procs, IInv, ConnectRefused(p) PROVE IInv'
<1> USE DEF IInv, ConnectRefused, netVars, serverVars
<1>1. /\ manager \in [Procs -> {"connect", "recv", "call"} \cup (Ended \ {"unsent"})]
      /\ chan \in [Procs -> Seq(Tasks)]
      /\ oneshot \in [Tasks -> {"open", "dropped", Error} \cup Replies]
  BY DEF TypeOK
<1>2. crashes # 0
  BY DEF FaultInv
<1>3. cur[p] = None
  BY DEF ManagerInv
<1>4. TypeOK'
  <2>1. \A q \in Procs : chan'[q] = IF q = p THEN <<>> ELSE chan[q]
    BY <1>1
  <2>2. chan' \in [Procs -> Seq(Tasks)] /\ \A q \in Procs : Len(chan'[q]) <= Capacity
    BY <1>1, <2>1, RedisBounds DEF TypeOK
  <2>3. oneshot' \in [Tasks -> {"open", "dropped", Error} \cup Replies]
    BY <1>1
  <2>4. manager' \in [Procs -> {"connect", "recv", "call"} \cup (Ended \ {"unsent"})]
    BY <1>1 DEF Ended
  <2> QED
    BY <2>2, <2>3, <2>4 DEF TypeOK
\* The dropped commands are those of the channel of p: no other channel, no other
\* manager and no task that has not sent holds one of them.
<1>5. \A t \in Tasks : oneshot'[t] # oneshot[t] =>
        t \in TasksOf(p) \cap Pending /\ oneshot'[t] = "dropped"
  BY <1>1 DEF ChanInv
<1>6. ChanInv'
  <2>1. ASSUME NEW q \in Procs, q # p
        PROVE  \A i \in 1..Len(chan[q]) : chan[q][i] \in TasksOf(q) \cap Pending'
    <3>1. ASSUME NEW i \in 1..Len(chan[q]) PROVE chan[q][i] \in TasksOf(q) \cap Pending'
      <4>1. chan[q][i] \in TasksOf(q) \cap Pending
        BY <3>1 DEF ChanInv
      <4>2. chan[q][i] \in Tasks /\ chan[q][i] \notin TasksOf(p)
        BY <2>1, <4>1, OwnerOfTask
      <4> QED
        BY <1>5, <4>1, <4>2 DEF Pending
    <3> QED
      BY <3>1
  <2>2. \A q \in Procs : chan'[q] = IF q = p THEN <<>> ELSE chan[q]
    BY <1>1
  <2> QED
    BY <2>1, <2>2 DEF ChanInv
<1>7. TaskInv'
  BY <1>5, RedisResults DEF TaskInv, Pending
<1>8. ManagerInv'
  <2>1. \A q \in Procs : cur[q] # None => oneshot'[cur[q]] = oneshot[cur[q]]
    <3>1. ASSUME NEW q \in Procs, cur[q] # None PROVE oneshot'[cur[q]] = oneshot[cur[q]]
      <4>1. q # p /\ cur[q] \in TasksOf(q)
        BY <1>3, <3>1 DEF ManagerInv
      <4>2. cur[q] \in Tasks /\ cur[q] \notin TasksOf(p)
        BY <4>1, OwnerOfTask
      <4> QED
        BY <1>5, <4>2
    <3> QED
      BY <3>1
  <2> QED
    BY <1>1, <1>3, <2>1 DEF ManagerInv
<1>9. FramesInv' /\ ConnInv'
  BY DEF FramesInv, ConnInv, InFlight, Requested, Executed, Answered, Quiet, Sender
<1>10. FaultInv' /\ FaultsHaveACause'
  BY <1>2 DEF FaultInv, FaultsHaveACause
<1> QED
  BY <1>4, <1>6, <1>7, <1>8, <1>9, <1>10

\* A sequence of at most one frame.
LEMMA OneFrame ==
  /\ \A x : Append(<<>>, x) = <<x>> /\ Head(<<x>>) = x /\ Tail(<<x>>) = <<>> /\ <<x>> # <<>>
            /\ Len(<<x>>) = 1
  /\ Len(<<>>) = 0
  /\ \A x, y : <<x>> = <<y>> => x = y
OBVIOUS

LEMMA RecvKeepsIInv == ASSUME NEW p \in Procs, IInv, Recv(p) PROVE IInv'
<1> DEFINE t == Head(chan[p])
<1> DEFINE n == Len(chan[p])
<1>1. /\ manager[p] = "recv" /\ chan[p] # <<>>
      /\ cur' = [cur EXCEPT ![p] = t] /\ chan' = [chan EXCEPT ![p] = Tail(chan[p])]
      /\ manager' = [manager EXCEPT ![p] = "call"]
      /\ toServer' = IF link[p] = "open" THEN [toServer EXCEPT ![p] = Append(toServer[p], req[t])]
                     ELSE toServer
      /\ UNCHANGED <<req, task, oneshot, result, main, joined, link, toClient, serverVars>>
  BY DEF Recv
<1> USE DEF IInv, serverVars
<1>2. /\ chan \in [Procs -> Seq(Tasks)] /\ chan[p] \in Seq(Tasks)
      /\ cur \in [Procs -> Tasks \cup {None}] /\ p \in Conns
      /\ toServer \in [Conns -> Seq(Frames)]
      /\ manager \in [Procs -> {"connect", "recv", "call"} \cup (Ended \ {"unsent"})]
  BY DEF TypeOK, FramesInv, Conns
<1>3. /\ n \in Nat \ {0} /\ t = chan[p][1] /\ Tail(chan[p]) \in Seq(Tasks)
      /\ Len(Tail(chan[p])) = n - 1 /\ \A i \in 1..(n - 1) : Tail(chan[p])[i] = chan[p][i + 1]
  BY <1>1, <1>2
<1>4. t \in TasksOf(p) \cap Pending /\ t \in Tasks
  BY <1>3, OwnerOfTask DEF ChanInv
<1> HIDE DEF t, n
<1>5. cur[p] = None /\ link[p] # "none" /\ Quiet(p)
      /\ (link[p] = "open" => process[p] \in {"none", "read"})
  BY <1>1, <1>2 DEF ManagerInv, ConnInv, Quiet, TypeOK
<1>6. req[t] \in Frames /\ t # None
  BY <1>4, RedisActors DEF TypeOK, Frames, Sessions
<1>7. /\ \A c \in Conns : c # p => toServer'[c] = toServer[c]
      /\ toServer'[p] = IF link[p] = "open" THEN <<req[t]>> ELSE <<>>
      /\ toServer' \in [Conns -> Seq(Frames)]
  BY <1>1, <1>2, <1>5, <1>6, OneFrame DEF Quiet
<1>8. TypeOK'
  <2>1. \A q \in Procs : Len(chan'[q]) <= Capacity
    BY <1>1, <1>2, <1>3, RedisBounds DEF TypeOK, n
  <2>2. chan' \in [Procs -> Seq(Tasks)] /\ cur' \in [Procs -> Tasks \cup {None}]
        /\ manager' \in [Procs -> {"connect", "recv", "call"} \cup (Ended \ {"unsent"})]
    BY <1>1, <1>2, <1>3, <1>4
  <2>3. \A c \in Conns : Len(toServer'[c]) + Len(toClient[c]) <= 1
    <3>1. ASSUME NEW c \in Conns, c # p PROVE Len(toServer'[c]) + Len(toClient[c]) <= 1
      BY <1>7, <3>1 DEF TypeOK
    <3>2. toClient[p] = <<>> /\ (toServer'[p] = <<>> \/ toServer'[p] = <<req[t]>>)
      BY <1>5, <1>7 DEF Quiet
    <3>3. Len(toServer'[p]) + Len(toClient[p]) <= 1
      <4>1. Len(toClient[p]) = 0 /\ (Len(toServer'[p]) = 0 \/ Len(toServer'[p]) = 1)
        BY <3>2, OneFrame
      <4>2. \A i, j : (i = 0 \/ i = 1) /\ j = 0 => i + j <= 1
        OBVIOUS
      <4> HIDE DEF IInv
      <4> QED
        BY <4>1, <4>2
    <3> QED
      BY <3>1, <3>3
  <2> QED
    BY <1>1, <2>1, <2>2, <2>3 DEF TypeOK
<1>9. FramesInv' /\ TaskInv'
  BY <1>1, <1>7 DEF FramesInv, TaskInv
<1>10. ChanInv'
  <2>1. Pending' = Pending
    BY <1>1 DEF Pending
  <2>2. ASSUME NEW q \in Procs
        PROVE  /\ \A i \in 1..Len(chan'[q]) : chan'[q][i] \in TasksOf(q) \cap Pending
               /\ \A i, j \in 1..Len(chan'[q]) : chan'[q][i] = chan'[q][j] => i = j
               /\ \A i \in 1..Len(chan'[q]) : chan'[q][i] # cur'[q]
    <3>1. CASE q = p
      <4>1. /\ \A i \in 1..n : chan[p][i] \in TasksOf(p) \cap Pending
            /\ \A i, j \in 1..n : chan[p][i] = chan[p][j] => i = j
        BY DEF ChanInv, n
      <4>2. /\ Len(chan'[p]) = n - 1 /\ cur'[p] = chan[p][1]
            /\ \A i \in 1..(n - 1) : chan'[p][i] = chan[p][i + 1]
        BY <1>1, <1>2, <1>3
      <4>3. \A i \in 1..(n - 1) : i + 1 \in 1..n /\ i + 1 # 1 /\ i \in Nat
        BY <1>3
      <4>4. \A i, j \in 1..(n - 1) : chan'[p][i] = chan'[p][j] => i = j
        <5>1. \A i, j \in 1..(n - 1) : chan'[p][i] = chan'[p][j] => i + 1 = j + 1
          BY <4>1, <4>2, <4>3
        <5> QED
          BY <4>3, <5>1
      <4>5. 1 \in 1..n
        BY <1>3
      <4>6. \A i \in 1..(n - 1) : /\ chan'[p][i] \in TasksOf(p) \cap Pending
                                  /\ chan'[p][i] # cur'[p]
        BY <4>1, <4>2, <4>3, <4>5
      <4> QED
        BY <3>1, <4>2, <4>4, <4>6
    <3>2. CASE q # p
      BY <1>1, <1>2, <3>2 DEF ChanInv
    <3> QED
      BY <3>1, <3>2
  <2> QED
    BY <2>1, <2>2 DEF ChanInv
<1>11. ManagerInv'
  <2>1. \A q \in Procs : q # p => cur'[q] = cur[q] /\ manager'[q] = manager[q]
    BY <1>1, <1>2
  <2>2. /\ cur'[p] = t /\ manager'[p] = "call"
        /\ oneshot[t] = "open" /\ task[t] \in {"await", "cancelled"} /\ t # None
    BY <1>1, <1>2, <1>4, <1>6 DEF Pending
  <2>3. link[p] = "closed" => process[p] = "ended"
    BY <1>1 DEF ManagerInv
  <2> QED
    BY <1>1, <1>4, <1>5, <2>1, <2>2, <2>3 DEF ManagerInv
<1>12. ConnInv'
  <2>1. \A c \in Conns : c # p => (InFlight(c) <=> InFlight(c)') /\ (Quiet(c) <=> Quiet(c)')
    BY <1>1, <1>2, <1>7 DEF InFlight, Requested, Executed, Answered, Quiet, Sender
  <2>2. InFlight(p)'
    <3>1. Sender(p)' = t /\ reply[t] = None
      BY <1>1, <1>2, <1>4 DEF Sender, Pending
    <3>2. CASE link[p] = "open"
      <4>1. Requested(p)'
        BY <1>1, <1>5, <1>7, <3>1, <3>2 DEF Requested, Quiet
      <4> QED
        BY <4>1 DEF InFlight
    <3>3. CASE link[p] # "open"
      BY <1>1, <1>2, <1>5, <1>7, <3>3 DEF InFlight, Quiet, TypeOK
    <3> QED
      BY <3>2, <3>3
  <2>3. \A s \in Strangers : s # p
    BY RedisActors
  <2>4. \A q \in Procs : q # p => cur'[q] = cur[q]
    BY <1>1, <1>2
  <2> QED
    BY <1>1, <1>2, <1>6, <2>1, <2>2, <2>3, <2>4 DEF ConnInv, Conns
<1>13. FaultInv' /\ FaultsHaveACause'
  BY <1>1, <1>2 DEF FaultInv, FaultsHaveACause
<1> QED
  BY <1>8, <1>9, <1>10, <1>11, <1>12, <1>13
LEMMA RespondKeepsIInv == ASSUME NEW p \in Procs, IInv, Respond(p) PROVE IInv'
<1> DEFINE t == cur[p]
<1> DEFINE n == Len(chan[p])
<1> DEFINE r == IF toClient[p] # <<>> THEN Head(toClient[p]) ELSE Error
<1>1. /\ manager[p] = "call"
      /\ toClient[p] = <<>> => link[p] = "closed"
      /\ oneshot' = [oneshot EXCEPT ![t] = r]
      /\ toClient' = IF toClient[p] # <<>> THEN [toClient EXCEPT ![p] = Tail(toClient[p])]
                     ELSE toClient
      /\ manager' = [manager EXCEPT ![p] = "recv"]
      /\ cur' = [cur EXCEPT ![p] = None]
      /\ UNCHANGED <<req, task, result, main, joined, chan, link, toServer, serverVars>>
  BY DEF Respond
<1> HIDE DEF r, t
<1> USE DEF IInv, serverVars
<1>2. /\ p \in Conns /\ cur \in [Procs -> Tasks \cup {None}]
      /\ manager \in [Procs -> {"connect", "recv", "call"} \cup (Ended \ {"unsent"})]
      /\ oneshot \in [Tasks -> {"open", "dropped", Error} \cup Replies]
      /\ toClient \in [Conns -> Seq(Replies)]
  BY DEF TypeOK, FramesInv, Conns
<1>3. /\ t \in TasksOf(p) /\ t \in Tasks /\ oneshot[t] = "open" /\ link[p] # "none" /\ t # None
      /\ task[t] \in {"await", "cancelled"} /\ Sender(p) = t /\ t = cur[p]
  BY <1>1, OwnerOfTask DEF ManagerInv, Sender, t
\* The reply is the one computed for the command, and the connection has no other frame;
\* with a closed connection the request is nowhere.
<1>4. /\ Quiet(p) \/ Answered(p)
      /\ link[p] = "closed" => process[p] = "ended"
  <2>1. InFlight(p) /\ (link[p] = "closed" => process[p] = "ended")
    BY <1>1, <1>3 DEF ConnInv, ManagerInv
  <2>2. toClient[p] = <<>> => Quiet(p)
    BY <1>1, <2>1, OneFrame DEF InFlight, Requested, Executed, Answered
  <2>3. toClient[p] # <<>> => Answered(p)
    BY <2>1 DEF InFlight, Requested, Executed, Quiet
  <2> QED
    BY <2>1, <2>2, <2>3
<1>5. r \in Replies => r = reply[t]
  BY <1>3, <1>4, OneFrame, RedisResults DEF r, Answered, Quiet
<1>6. r \in Replies \cup {Error} /\ (r = Error => crashes # 0)
  <2>1. toClient[p] # <<>> => r \in Replies
    BY <1>3, <1>4, OneFrame DEF r, Answered, Quiet
  <2>2. toClient[p] = <<>> => crashes # 0
    BY <1>1 DEF FaultInv
  <2> QED
    BY <2>1, <2>2, RedisResults DEF r
<1>7. /\ toClient' \in [Conns -> Seq(Replies)] /\ toClient'[p] = <<>>
      /\ \A c \in Conns : c # p => toClient'[c] = toClient[c]
  BY <1>1, <1>2, <1>4, OneFrame DEF Answered, Quiet
<1>8. TypeOK'
  <2>1. oneshot' \in [Tasks -> {"open", "dropped", Error} \cup Replies]
        /\ cur' \in [Procs -> Tasks \cup {None}]
        /\ manager' \in [Procs -> {"connect", "recv", "call"} \cup (Ended \ {"unsent"})]
    BY <1>1, <1>2, <1>3, <1>6
  <2>2. \A c \in Conns : Len(toServer[c]) + Len(toClient'[c]) <= 1
    <3>1. toServer[p] = <<>>
      BY <1>4 DEF Quiet, Answered
    <3>2. Len(toServer[p]) + Len(toClient'[p]) <= 1
      BY <1>7, <3>1, OneFrame
    <3> QED
      BY <1>7, <3>2 DEF TypeOK
  <2> QED
    BY <1>1, <2>1, <2>2 DEF TypeOK
<1>9. FramesInv'
  BY <1>1, <1>7 DEF FramesInv
<1>10. ChanInv'
  <2>1. \A s \in Pending : s # t => s \in Pending'
    BY <1>1, <1>2, <1>3 DEF Pending
  <2>2. \A q \in Procs : cur'[q] = IF q = p THEN None ELSE cur[q]
    BY <1>1, <1>2
  <2>3. ASSUME NEW q \in Procs, NEW i \in 1..Len(chan[q])
        PROVE  chan[q][i] \in TasksOf(q) \cap Pending /\ chan[q][i] # t
    <3>1. chan[q][i] \in TasksOf(q) \cap Pending /\ chan[q][i] # cur[q]
      BY <2>3 DEF ChanInv
    <3>2. q # p => chan[q][i] # t
      BY <1>3, <3>1, OwnerOfTask
    <3> QED
      BY <1>3, <3>1, <3>2
  <2>4. None \notin Pending
    BY RedisActors DEF Pending, Sessions
  <2> QED
    BY <1>1, <2>1, <2>2, <2>3, <2>4 DEF ChanInv
<1>11. TaskInv'
  <2>1. \A s \in Tasks : s # t => oneshot'[s] = oneshot[s]
    BY <1>1, <1>2
  <2>2. oneshot'[t] = r
    BY <1>1, <1>2, <1>3
  <2> QED
    BY <1>1, <1>3, <1>5, <2>1, <2>2 DEF TaskInv
<1>12. ManagerInv'
  <2>1. \A q \in Procs : q # p => /\ cur'[q] = cur[q] /\ manager'[q] = manager[q]
                                  /\ (cur[q] # None => oneshot'[cur[q]] = oneshot[cur[q]])
    <3>1. ASSUME NEW q \in Procs, q # p, cur[q] # None PROVE cur[q] \in Tasks /\ cur[q] # t
      <4>1. cur[q] \in TasksOf(q)
        BY <3>1 DEF ManagerInv
      <4> QED
        BY <1>3, <3>1, <4>1, OwnerOfTask
    <3> QED
      BY <1>1, <1>2, <3>1
  <2>2. cur'[p] = None /\ manager'[p] = "recv"
    BY <1>1, <1>2
  <2> QED
    BY <1>1, <1>3, <1>4, <2>1, <2>2 DEF ManagerInv
<1>13. ConnInv'
  <2>1. \A c \in Conns : c # p => (InFlight(c) <=> InFlight(c)') /\ (Quiet(c) <=> Quiet(c)')
    BY <1>1, <1>2, <1>7 DEF InFlight, Requested, Executed, Answered, Quiet, Sender
  <2>2. Quiet(p)'
    BY <1>1, <1>4, <1>7 DEF Quiet, Answered
  <2>3. \A s \in Strangers : s # p
    BY RedisActors
  <2>4. \A q \in Procs : cur'[q] = IF q = p THEN None ELSE cur[q]
    BY <1>1, <1>2
  <2> QED
    BY <1>1, <1>2, <2>1, <2>2, <2>3, <2>4 DEF ConnInv, Conns
<1>14. FaultInv' /\ FaultsHaveACause'
  <2>1. \A s \in Tasks : oneshot'[s] = IF s = t THEN r ELSE oneshot[s]
    BY <1>1, <1>2
  <2>2. \A q \in Procs : manager'[q] = IF q = p THEN "recv" ELSE manager[q]
    BY <1>1, <1>2
  <2>3. crashes = 0 => r \in Replies
    BY <1>6
  <2> QED
    BY <1>1, <2>1, <2>2, <2>3, RedisResults DEF FaultInv, FaultsHaveACause
<1> QED
  BY <1>8, <1>9, <1>10, <1>11, <1>12, <1>13, <1>14
LEMMA ChannelClosedKeepsIInv == ASSUME NEW p \in Procs, IInv, ChannelClosed(p) PROVE IInv'
<1> USE DEF IInv, ChannelClosed, serverVars
<1>1. /\ p \in Conns /\ link \in [Conns -> {"none", "open", "closed"}]
      /\ manager \in [Procs -> {"connect", "recv", "call"} \cup (Ended \ {"unsent"})]
  BY DEF TypeOK, Conns
<1>2. cur[p] = None
  BY DEF ManagerInv
<1>3. TypeOK'
  BY <1>1 DEF TypeOK, Ended
<1>4. FramesInv' /\ ChanInv' /\ TaskInv'
  <2>1. UNCHANGED <<req, task, oneshot, result, chan, cur, toServer, toClient, response, reply,
                    process>>
    OBVIOUS
  <2>2. FramesInv' /\ TaskInv'
    BY <2>1 DEF FramesInv, TaskInv
  <2>3. Pending' = Pending
    BY <2>1 DEF Pending
  <2> QED
    BY <2>1, <2>2, <2>3 DEF ChanInv
<1>5. ManagerInv'
  BY <1>1, <1>2 DEF ManagerInv
<1>6. ConnInv'
  <2>1. \A c \in Conns : link'[c] = IF c = p THEN "closed" ELSE link[c]
    BY <1>1
  <2>2. \A c \in Conns : InFlight(c) /\ c # p => InFlight(c)'
    BY <2>1 DEF InFlight, Requested, Executed, Answered, Quiet, Sender
  <2>3. \A c \in Conns : Quiet(c) => Quiet(c)'
    BY DEF Quiet
  <2>4. \A s \in Strangers : s # p
    BY RedisActors
  <2> QED
    BY <1>1, <1>2, <2>1, <2>2, <2>3, <2>4 DEF ConnInv, Conns
<1>7. FaultInv' /\ FaultsHaveACause'
  <2>1. crashes = 0 => \A t \in TasksOf(p) : task[t] = "done"
    BY OwnerOfTask DEF FaultsHaveACause, Ended
  <2> QED
    BY <1>1, <2>1 DEF FaultInv, FaultsHaveACause
<1> QED
  BY <1>3, <1>4, <1>5, <1>6, <1>7

LEMMA AwaitKeepsIInv == ASSUME NEW p \in Procs, IInv, Await(p) PROVE IInv'
<1> USE DEF IInv, Await, netVars, serverVars
<1>1. TypeOK'
  <2>1. /\ joined \in [Procs -> Nat] /\ joined[p] <= Len(TaskSeq[p])
        /\ Len(TaskSeq[p]) \in Nat
    BY RedisActors DEF TypeOK
  <2>2. joined[p] # Len(TaskSeq[p]) => joined[p] + 1 <= Len(TaskSeq[p])
    BY <2>1
  <2>3. /\ joined' \in [Procs -> Nat]
        /\ \A q \in Procs : joined'[q] <= Len(TaskSeq[q])
    <3>1. CASE joined[p] = Len(TaskSeq[p])
      BY <3>1 DEF TypeOK
    <3>2. CASE joined[p] # Len(TaskSeq[p])
      <4>1. joined' = [joined EXCEPT ![p] = joined[p] + 1] /\ joined[p] + 1 \in Nat
        BY <2>1, <3>2
      <4>2. \A q \in Procs : joined'[q] = IF q = p THEN joined[p] + 1 ELSE joined[q]
        BY <2>1, <4>1
      <4> QED
        BY <2>1, <2>2, <3>2, <4>1, <4>2 DEF TypeOK
    <3> QED
      BY <3>1, <3>2
  <2> QED
    BY <2>3 DEF TypeOK
<1>2. UNCHANGED <<req, task, oneshot, result, chan, manager, cur, link, toServer, toClient,
                  process, response, db, up, crashes, reply>>
  OBVIOUS
<1>3. FramesInv' /\ TaskInv'
  BY <1>2 DEF FramesInv, TaskInv
<1>4. ChanInv' /\ ManagerInv'
  <2>1. Pending' = Pending
    BY <1>2 DEF Pending
  <2> QED
    BY <1>2, <2>1 DEF ChanInv, ManagerInv
<1>5. ConnInv'
  BY DEF ConnInv, InFlight, Requested, Executed, Answered, Quiet, Sender
<1>6. FaultInv' /\ FaultsHaveACause'
  BY DEF FaultInv, FaultsHaveACause, TypeOK
<1> QED
  BY <1>1, <1>3, <1>4, <1>5, <1>6

LEMMA AwaitPanicsKeepsIInv == ASSUME NEW p \in Procs, IInv, AwaitPanics(p) PROVE IInv'
<1> USE DEF IInv, AwaitPanics, serverVars
<1>1. /\ p \in Conns /\ link \in [Conns -> {"none", "open", "closed"}]
      /\ manager \in [Procs -> {"connect", "recv", "call"} \cup (Ended \ {"unsent"})]
      /\ task \in [Tasks -> {"send", "await"} \cup Ended]
  BY DEF TypeOK, Conns
<1>2. crashes # 0
  <2>1. CASE joined[p] < Len(TaskSeq[p])
    <3>1. joined[p] + 1 \in 1..Len(TaskSeq[p]) /\ TaskSeq[p] \in Seq(Tasks)
      <4>1. TaskSeq[p] \in Seq(Tasks) /\ joined[p] \in Nat
        BY RedisActors DEF TypeOK
      <4> QED
        BY <2>1, <4>1
    <3>2. TaskSeq[p][joined[p] + 1] \in Tasks
      BY <3>1
    <3> QED
      BY <2>1, <3>2 DEF Joined, FaultsHaveACause
  <2>2. CASE ~(joined[p] < Len(TaskSeq[p]))
    BY <2>2 DEF Joined, FaultsHaveACause
  <2> QED
    BY <2>1, <2>2
<1>3. \A t \in Tasks : \/ task'[t] = task[t]
                       \/ task[t] = "send" /\ task'[t] = "unsent"
                       \/ task[t] = "await" /\ task'[t] = "cancelled"
  BY <1>1
<1>4. TypeOK'
  <2>1. task' \in [Tasks -> {"send", "await"} \cup Ended]
    BY <1>1 DEF Ended
  <2> QED
    BY <1>1, <2>1 DEF TypeOK, Ended
<1>5. FramesInv'
  BY DEF FramesInv
<1>6. ChanInv'
  <2>1. Pending \subseteq Pending'
    BY <1>3 DEF Pending
  <2> QED
    BY <2>1 DEF ChanInv
<1>7. TaskInv'
  BY <1>3 DEF TaskInv
<1>8. ManagerInv'
  <2>1. \A q \in Procs : /\ manager'[q] = manager[q] \/ manager'[q] = "cancelled"
                         /\ q # p => manager'[q] = manager[q]
                         /\ manager'[p] \in Ended
    BY <1>1 DEF Ended
  <2>2. \A c \in Conns : /\ c # p => link'[c] = link[c]
                         /\ link'[c] = "none" <=> link[c] = "none"
    BY <1>1
  <2>3. \A q \in Procs : cur[q] # None => task'[cur[q]] \in {"await", "cancelled"}
    BY <1>3, OwnerOfTask DEF ManagerInv
  <2> QED
    BY <2>1, <2>2, <2>3 DEF ManagerInv, Conns, Ended
<1>9. ConnInv'
  <2>1. \A c \in Conns : \/ link'[c] = link[c]
                         \/ link[c] = "open" /\ link'[c] = "closed"
    BY <1>1
  <2>2. \A c \in Conns : /\ InFlight(c) => InFlight(c)'
                         /\ Quiet(c) => Quiet(c)'
    BY <2>1 DEF InFlight, Requested, Executed, Answered, Quiet, Sender
  <2> QED
    BY <2>1, <2>2 DEF ConnInv, Conns
<1>10. FaultInv' /\ FaultsHaveACause'
  BY <1>2 DEF FaultInv, FaultsHaveACause
<1> QED
  BY <1>4, <1>5, <1>6, <1>7, <1>8, <1>9, <1>10

-----------------------------------------------------------------------------
\* Another program.

LEMMA StrangerSendsKeepsIInv == ASSUME NEW s \in Strangers, IInv, StrangerSends(s) PROVE IInv'
<1> USE DEF IInv, StrangerSends, clientVars, serverVars
<1>1. /\ s \in Conns /\ s \notin Procs /\ req[s] \in Frames
      /\ link \in [Conns -> {"none", "open", "closed"}] /\ toServer \in [Conns -> Seq(Frames)]
  BY RedisActors DEF TypeOK, FramesInv, Conns, Frames, Sessions
<1>2. Quiet(s) /\ reply[s] = None /\ process[s] = "none"
  BY <1>1 DEF ConnInv
<1>3. \A c \in Conns : /\ toServer'[c] = IF c = s THEN <<req[s]>> ELSE toServer[c]
                       /\ link'[c] = IF c = s THEN "open" ELSE link[c]
  BY <1>1
<1>4. TypeOK'
  <2>1. ASSUME NEW c \in Conns PROVE Len(toServer'[c]) + Len(toClient[c]) <= 1
    <3>1. c = s => Len(toServer'[c]) = 1 /\ Len(toClient[c]) = 0
      BY <1>2, <1>3, OneFrame DEF Quiet
    <3>2. c # s => Len(toServer'[c]) + Len(toClient[c]) <= 1
      BY <1>3 DEF TypeOK
    <3>3. \A i, j : i = 1 /\ j = 0 => i + j <= 1
      OBVIOUS
    <3> HIDE DEF IInv
    <3> QED
      BY <3>1, <3>2, <3>3
  <2> QED
    BY <1>1, <2>1 DEF TypeOK
<1>5. FramesInv'
  BY <1>1 DEF FramesInv
<1>6. ChanInv' /\ TaskInv' /\ ManagerInv'
  BY <1>1, <1>3 DEF ChanInv, Pending, TaskInv, ManagerInv, Conns
<1>7. ConnInv'
  <2>1. \A c \in Conns : c # s => (InFlight(c) <=> InFlight(c)') /\ (Quiet(c) <=> Quiet(c)')
    BY <1>3 DEF InFlight, Requested, Executed, Answered, Quiet, Sender
  <2>2. Requested(s)'
    BY <1>1, <1>2, <1>3 DEF Requested, Quiet, Sender
  <2>3. InFlight(s)'
    BY <2>2 DEF InFlight
  <2> QED
    BY <1>1, <1>2, <1>3, <2>1, <2>3 DEF ConnInv, Conns
<1>8. FaultInv' /\ FaultsHaveACause'
  BY <1>1, <1>3 DEF FaultInv, FaultsHaveACause, Conns
<1> QED
  BY <1>4, <1>5, <1>6, <1>7, <1>8

LEMMA StrangerLeavesKeepsIInv == ASSUME NEW s \in Strangers, IInv, StrangerLeaves(s) PROVE IInv'
<1> USE DEF IInv, StrangerLeaves, clientVars, serverVars
<1>1. s \in Conns /\ s \notin Procs /\ link \in [Conns -> {"none", "open", "closed"}]
  BY RedisActors DEF TypeOK, Conns
<1>2. \A c \in Conns : link'[c] = IF c = s THEN "closed" ELSE link[c]
  BY <1>1
<1>3. TypeOK' /\ FramesInv'
  BY <1>1 DEF TypeOK, FramesInv
<1>4. ChanInv' /\ TaskInv' /\ ManagerInv'
  BY <1>1, <1>2 DEF ChanInv, Pending, TaskInv, ManagerInv, Conns
<1>5. ConnInv'
  <2>1. \A c \in Conns : (InFlight(c) => InFlight(c)') /\ (Quiet(c) => Quiet(c)')
    BY <1>2 DEF InFlight, Requested, Executed, Answered, Quiet, Sender
  <2> QED
    BY <1>1, <1>2, <2>1 DEF ConnInv, Conns
<1>6. FaultInv' /\ FaultsHaveACause'
  BY <1>1, <1>2 DEF FaultInv, FaultsHaveACause, Conns
<1> QED
  BY <1>3, <1>4, <1>5, <1>6
-----------------------------------------------------------------------------
\* The server.

\* Two connections never carry the frame of one session.
LEMMA SendersDiffer ==
  ASSUME IInv, NEW c \in Conns, NEW d \in Conns, c # d, Sender(c) = Sender(d)
  PROVE  Sender(c) = None
<1>1. \A p \in Procs : cur[p] # None => cur[p] \in TasksOf(p) /\ cur[p] \in Tasks
  BY OwnerOfTask DEF IInv, ManagerInv
<1> QED
  BY <1>1, OwnerOfTask, RedisActors DEF Sender, Conns

LEMMA AcceptKeepsIInv == ASSUME NEW c \in Conns, IInv, Accept(c) PROVE IInv'
<1> USE DEF IInv, Accept, clientVars, netVars
<1>1. /\ process \in [Conns -> {"none", "read", "write", "ended"}]
      /\ \A d \in Conns : process'[d] = IF d = c THEN "read" ELSE process[d]
  BY DEF TypeOK
<1>2. TypeOK' /\ FramesInv'
  BY <1>1 DEF TypeOK, FramesInv
<1>3. ChanInv' /\ TaskInv' /\ ManagerInv'
  BY <1>1 DEF ChanInv, Pending, TaskInv, ManagerInv, Conns
<1>4. ConnInv'
  <2>1. \A d \in Conns : (InFlight(d) => InFlight(d)') /\ (Quiet(d) => Quiet(d)')
    BY <1>1 DEF InFlight, Requested, Executed, Answered, Quiet, Sender
  <2> QED
    BY <1>1, <2>1 DEF ConnInv, Conns
<1>5. FaultInv' /\ FaultsHaveACause'
  BY DEF FaultInv, FaultsHaveACause
<1> QED
  BY <1>2, <1>3, <1>4, <1>5

LEMMA EndOfStreamKeepsIInv == ASSUME NEW c \in Conns, IInv, EndOfStream(c) PROVE IInv'
<1> USE DEF IInv, EndOfStream, clientVars, netVars
<1>1. /\ process \in [Conns -> {"none", "read", "write", "ended"}]
      /\ \A d \in Conns : process'[d] = IF d = c THEN "ended" ELSE process[d]
  BY DEF TypeOK
<1>2. TypeOK' /\ FramesInv'
  BY <1>1 DEF TypeOK, FramesInv
<1>3. ChanInv' /\ TaskInv' /\ ManagerInv'
  BY <1>1 DEF ChanInv, Pending, TaskInv, ManagerInv, Conns
<1>4. ConnInv'
  <2>1. \A d \in Conns : (InFlight(d) => InFlight(d)') /\ (Quiet(d) => Quiet(d)')
    BY <1>1, OneFrame DEF InFlight, Requested, Executed, Answered, Quiet, Sender
  <2> QED
    BY <1>1, <2>1 DEF ConnInv, Conns
<1>5. FaultInv' /\ FaultsHaveACause'
  BY DEF FaultInv, FaultsHaveACause
<1> QED
  BY <1>2, <1>3, <1>4, <1>5

\* The frame a process reads is the request of the session on its connection, and no
\* reply to that was computed.
LEMMA FrameRead ==
  ASSUME IInv, NEW c \in Conns, process[c] = "read", toServer[c] # <<>>
  PROVE  /\ Requested(c) /\ Head(toServer[c]) = req[Sender(c)] /\ Tail(toServer[c]) = <<>>
         /\ Sender(c) \in Sessions /\ Sender(c) # None
         /\ c \in Procs => Sender(c) = cur[c] /\ Sender(c) \in TasksOf(c) /\ Sender(c) \in Tasks
         /\ c \in Strangers => Sender(c) = c /\ link[c] # "none" /\ Sender(c) \notin Tasks
<1>1. CASE c \in Procs
  <2>1. cur[c] # None /\ InFlight(c)
    BY <1>1 DEF IInv, ConnInv, Quiet
  <2>2. Requested(c)
    BY <2>1 DEF InFlight, Executed, Answered, Quiet
  <2>3. cur[c] \in TasksOf(c) /\ cur[c] \in Tasks /\ Sender(c) = cur[c]
    BY <1>1, <2>1, OwnerOfTask DEF IInv, ManagerInv, Sender
  <2> QED
    BY <1>1, <2>1, <2>2, <2>3, OneFrame, RedisActors DEF Requested, Sessions
<1>2. CASE c \in Strangers
  <2>1. link[c] # "none" /\ InFlight(c)
    BY <1>2 DEF IInv, ConnInv, Quiet
  <2>2. Requested(c)
    BY <2>1 DEF InFlight, Executed, Answered, Quiet
  <2>3. Sender(c) = c /\ c \notin Procs /\ c \notin Tasks
    BY <1>2, RedisActors DEF Sender
  <2> QED
    BY <1>2, <2>1, <2>2, <2>3, OneFrame, RedisActors DEF Requested, Sessions
<1> QED
  BY <1>1, <1>2 DEF Conns

\* What a request of get or set replies and leaves.
LEMMA Replying ==
  ASSUME NEW r \in KV!Requests, NEW map \in [Keys -> Values \cup {Nil}]
  PROVE  /\ KV!ReplyTo(r, map) \in Replies /\ KV!ReplyTo(r, map) # None
         /\ KV!MapAfter(r, map) \in [Keys -> Values \cup {Nil}]
<1>1. \/ r.op = "get" /\ r.key \in Keys
      \/ r.op = "set" /\ r.key \in Keys /\ r.val \in Values
  BY DEF KV!Requests
<1>2. KV!ReplyTo(r, map) \in Replies
  BY <1>1 DEF KV!ReplyTo, Replies
<1> QED
  BY <1>1, <1>2, RedisResults DEF KV!MapAfter

LEMMA ExecuteKeepsIInv == ASSUME NEW c \in Conns, IInv, Execute(c) PROVE IInv'
<1> DEFINE s == Sender(c)
<1> DEFINE v == KV!ReplyTo(req[s], db)
<1>1. /\ Requested(c) /\ Head(toServer[c]) = req[s] /\ Tail(toServer[c]) = <<>>
      /\ s \in Sessions /\ s # None
      /\ c \in Procs => s = cur[c] /\ s \in TasksOf(c) /\ s \in Tasks
      /\ c \in Strangers => s = c /\ link[c] # "none" /\ s \notin Tasks
  BY FrameRead DEF Execute
<1>2. /\ up /\ process[c] = "read" /\ req[s].op # "other"
      /\ toServer' = [toServer EXCEPT ![c] = <<>>]
      /\ db' = KV!MapAfter(req[s], db)
      /\ response' = [response EXCEPT ![c] = v]
      /\ reply' = [reply EXCEPT ![s] = v]
      /\ process' = [process EXCEPT ![c] = "write"]
      /\ UNCHANGED <<req, clientVars, link, toClient, up, crashes>>
  BY <1>1 DEF Execute
<1> USE DEF IInv, clientVars
<1>3. /\ process \in [Conns -> {"none", "read", "write", "ended"}]
      /\ toServer \in [Conns -> Seq(Frames)] /\ response \in [Conns -> Replies \cup {None}]
      /\ reply \in [Sessions -> Replies \cup {None}]
      /\ db \in [Keys -> Values \cup {Nil}]
  BY DEF TypeOK, FramesInv
<1>4. req[s] \in KV!Requests
  <2>1. req[s] \in KV!Requests \cup {[op |-> "other"]}
    BY <1>1 DEF TypeOK
  <2> QED
    BY <1>2, <2>1
<1>5. v \in Replies /\ v # None /\ db' \in [Keys -> Values \cup {Nil}]
  BY <1>2, <1>3, <1>4, Replying
<1> HIDE DEF v
<1>6. /\ \A d \in Conns : /\ toServer'[d] = IF d = c THEN <<>> ELSE toServer[d]
                          /\ process'[d] = IF d = c THEN "write" ELSE process[d]
                          /\ response'[d] = IF d = c THEN v ELSE response[d]
      /\ \A x \in Sessions : reply'[x] = IF x = s THEN v ELSE reply[x]
  BY <1>2, <1>3
<1>7. TypeOK'
  <2>1. /\ process' \in [Conns -> {"none", "read", "write", "ended"}]
        /\ response' \in [Conns -> Replies \cup {None}]
        /\ reply' \in [Sessions -> Replies \cup {None}]
    BY <1>2, <1>3, <1>5
  <2>2. ASSUME NEW d \in Conns PROVE Len(toServer'[d]) + Len(toClient[d]) <= 1
    <3>1. d = c => Len(toServer'[d]) = 0 /\ Len(toClient[d]) = 0
      BY <1>1, <1>6, OneFrame DEF Requested
    <3>2. d # c => Len(toServer'[d]) + Len(toClient[d]) <= 1
      BY <1>6 DEF TypeOK
    <3>3. \A i, j : i = 0 /\ j = 0 => i + j <= 1
      OBVIOUS
    <3> HIDE DEF IInv
    <3> QED
      BY <3>1, <3>2, <3>3
  <2> QED
    BY <1>2, <1>5, <2>1, <2>2 DEF TypeOK
<1>8. FramesInv'
  <2>1. toServer' \in [Conns -> Seq(Frames)]
    BY <1>2, <1>3
  <2> QED
    BY <1>2, <2>1 DEF FramesInv
<1>9. ChanInv'
  <2>1. \A x \in Pending : x # s => x \in Pending'
    BY <1>2, <1>6 DEF Pending
  <2>2. ASSUME NEW q \in Procs, NEW i \in 1..Len(chan[q])
        PROVE  chan[q][i] \in TasksOf(q) \cap Pending /\ chan[q][i] # s
    <3>1. chan[q][i] \in TasksOf(q) \cap Pending /\ chan[q][i] # cur[q]
      BY <2>2 DEF ChanInv
    <3>2. CASE c \in Procs
      BY <1>1, <3>1, <3>2, OwnerOfTask
    <3>3. CASE c \in Strangers
      BY <1>1, <3>1, <3>3 DEF Pending
    <3> QED
      BY <3>1, <3>2, <3>3 DEF Conns
  <2> QED
    BY <1>2, <2>1, <2>2 DEF ChanInv
<1>10. TaskInv'
  <2>1. s \in Tasks => oneshot[s] = "open" /\ task[s] \in {"await", "cancelled"}
    BY <1>1 DEF ManagerInv, Conns
  <2> QED
    BY <1>2, <1>6, <2>1, RedisResults DEF TaskInv
<1>11. ManagerInv'
  BY <1>2, <1>6 DEF ManagerInv, Conns
<1>12. ConnInv'
  <2>1. \A d \in Conns : d # c => (Quiet(d) => Quiet(d)')
    BY <1>2, <1>6 DEF Quiet
  <2>2. ASSUME NEW d \in Conns, d # c, Sender(d) \in Sessions, InFlight(d)
        PROVE  InFlight(d)'
    <3>1. reply'[Sender(d)] = reply[Sender(d)] /\ Sender(d)' = Sender(d)
      BY <1>1, <1>2, <1>6, <2>2, SendersDiffer DEF Sender
    <3> QED
      BY <1>2, <1>6, <2>2, <3>1 DEF InFlight, Requested, Executed, Answered, Quiet
  <2>3. InFlight(c)'
    <3>1. Sender(c)' = s /\ reply'[s] = v
      BY <1>1, <1>2, <1>6 DEF Sender
    <3>2. Executed(c)'
      BY <1>1, <1>2, <1>5, <1>6, <3>1 DEF Executed, Requested
    <3> QED
      BY <3>2 DEF InFlight
  <2>4. \A q \in Procs : cur[q] # None => Sender(q) \in Sessions
    BY OwnerOfTask DEF ManagerInv, Sender, Sessions
  <2>5. \A x \in Strangers : Sender(x) = x /\ (x # c => x # s)
    BY <1>1, RedisActors DEF Sender, Conns
  <2>6. \A q \in Procs : q = c => cur[q] # None
    BY <1>1
  <2> QED
    BY <1>1, <1>2, <1>6, <2>1, <2>2, <2>3, <2>4, <2>5, <2>6 DEF ConnInv, Conns, Sessions
<1>13. FaultInv' /\ FaultsHaveACause'
  BY <1>2 DEF FaultInv, FaultsHaveACause
<1> QED
  BY <1>7, <1>8, <1>9, <1>10, <1>11, <1>12, <1>13
LEMMA UnimplementedKeepsIInv == ASSUME NEW c \in Conns, IInv, Unimplemented(c) PROVE IInv'
<1>1. /\ Requested(c) /\ Head(toServer[c]) = req[Sender(c)] /\ Tail(toServer[c]) = <<>>
      /\ c \in Procs => Sender(c) \in Tasks
      /\ c \in Strangers => link[c] # "none"
  BY FrameRead DEF Unimplemented
<1>2. /\ up /\ process[c] = "read" /\ req[Sender(c)].op = "other"
      /\ toServer' = [toServer EXCEPT ![c] = <<>>]
      /\ process' = [process EXCEPT ![c] = "ended"]
      /\ link' = [link EXCEPT ![c] = "closed"]
      /\ UNCHANGED <<req, clientVars, toClient, response, db, up, crashes, reply>>
  BY <1>1 DEF Unimplemented
\* No task sends such a frame.
<1>3. c \in Strangers /\ c \notin Procs /\ link[c] # "none"
  BY <1>1, <1>2, RedisActors DEF IInv, FramesInv, KV!Requests, Conns
<1> USE DEF IInv, clientVars
<1>4. /\ process \in [Conns -> {"none", "read", "write", "ended"}]
      /\ toServer \in [Conns -> Seq(Frames)] /\ link \in [Conns -> {"none", "open", "closed"}]
  BY DEF TypeOK, FramesInv
<1>5. \A d \in Conns : /\ toServer'[d] = IF d = c THEN <<>> ELSE toServer[d]
                       /\ process'[d] = IF d = c THEN "ended" ELSE process[d]
                       /\ link'[d] = IF d = c THEN "closed" ELSE link[d]
  BY <1>2, <1>4
<1>6. TypeOK'
  <2>1. ASSUME NEW d \in Conns PROVE Len(toServer'[d]) + Len(toClient[d]) <= 1
    <3>1. d = c => Len(toServer'[d]) = 0 /\ Len(toClient[d]) = 0
      BY <1>1, <1>5, OneFrame DEF Requested
    <3>2. d # c => Len(toServer'[d]) + Len(toClient[d]) <= 1
      BY <1>5 DEF TypeOK
    <3>3. \A i, j : i = 0 /\ j = 0 => i + j <= 1
      OBVIOUS
    <3> HIDE DEF IInv
    <3> QED
      BY <3>1, <3>2, <3>3
  <2>2. process' \in [Conns -> {"none", "read", "write", "ended"}]
        /\ link' \in [Conns -> {"none", "open", "closed"}]
    BY <1>2, <1>4
  <2> QED
    BY <1>2, <2>1, <2>2 DEF TypeOK
<1>7. FramesInv'
  BY <1>2, <1>4 DEF FramesInv
<1>8. ChanInv' /\ TaskInv' /\ ManagerInv'
  BY <1>2, <1>3, <1>5 DEF ChanInv, Pending, TaskInv, ManagerInv, Conns
<1>9. ConnInv'
  <2>1. \A d \in Conns : d # c => (InFlight(d) => InFlight(d)') /\ (Quiet(d) => Quiet(d)')
    BY <1>2, <1>5 DEF InFlight, Requested, Executed, Answered, Quiet, Sender
  <2>2. Quiet(c)' /\ InFlight(c)'
    BY <1>1, <1>2, <1>5 DEF InFlight, Quiet, Requested
  <2> QED
    BY <1>2, <1>3, <1>5, <2>1, <2>2 DEF ConnInv, Conns
<1>10. FaultInv' /\ FaultsHaveACause'
  BY <1>2, <1>3, <1>5 DEF FaultInv, FaultsHaveACause, Conns
<1> QED
  BY <1>6, <1>7, <1>8, <1>9, <1>10

\* A response is written on a connection whose request was executed.
LEMMA WriteFrameKeepsIInv == ASSUME NEW c \in Conns, IInv, WriteFrame(c) PROVE IInv'
<1> USE DEF IInv, clientVars
<1>1. /\ up /\ process[c] = "write" /\ link[c] # "none"
      /\ response' = [response EXCEPT ![c] = None]
      /\ UNCHANGED <<req, clientVars, link, toServer, db, up, crashes, reply>>
  BY DEF WriteFrame
<1>2. /\ process \in [Conns -> {"none", "read", "write", "ended"}]
      /\ response \in [Conns -> Replies \cup {None}]
      /\ toClient \in [Conns -> Seq(Replies)]
  BY DEF TypeOK, FramesInv
<1>3. Executed(c)
  <2>1. InFlight(c)
    BY <1>1 DEF ConnInv, Quiet, Conns
  <2> QED
    BY <1>1, <2>1 DEF InFlight, Requested, Answered, Quiet
<1>4. /\ \A d \in Conns : d # c => /\ process'[d] = process[d] /\ response'[d] = response[d]
                                   /\ toClient'[d] = toClient[d]
      /\ response'[c] = None
      /\ \/ link[c] = "open" /\ process'[c] = "read" /\ toClient'[c] = <<response[c]>>
         \/ link[c] = "closed" /\ process'[c] \in {"read", "ended"} /\ toClient'[c] = <<>>
      /\ process' \in [Conns -> {"none", "read", "write", "ended"}]
      /\ response' \in [Conns -> Replies \cup {None}]
      /\ toClient' \in [Conns -> Seq(Replies)]
  <2>1. CASE /\ link[c] = "open"
             /\ toClient' = [toClient EXCEPT ![c] = Append(toClient[c], response[c])]
             /\ process' = [process EXCEPT ![c] = "read"]
    <3>1. Append(toClient[c], response[c]) = <<response[c]>> /\ response[c] \in Replies
      BY <1>3, OneFrame DEF Executed
    <3>2. <<response[c]>> \in Seq(Replies)
      BY <3>1
    <3> QED
      BY <1>1, <1>2, <2>1, <3>1, <3>2
  <2>2. CASE /\ link[c] = "closed" /\ toClient' = toClient
             /\ process' \in {[process EXCEPT ![c] = "read"], [process EXCEPT ![c] = "ended"]}
    <3>1. toClient[c] = <<>>
      BY <1>3 DEF Executed
    <3> QED
      BY <1>1, <1>2, <2>2, <3>1
  <2> QED
    BY <2>1, <2>2 DEF WriteFrame
<1>5. TypeOK'
  <2>1. ASSUME NEW d \in Conns PROVE Len(toServer[d]) + Len(toClient'[d]) <= 1
    <3>1. d = c => Len(toServer[d]) = 0 /\ (Len(toClient'[d]) = 0 \/ Len(toClient'[d]) = 1)
      <4>1. Len(<<response[c]>>) = 1 /\ Len(<<>>) = 0
        BY OneFrame
      <4>2. toClient'[c] = <<response[c]>> \/ toClient'[c] = <<>>
        BY <1>4
      <4> QED
        BY <1>3, <4>1, <4>2 DEF Executed
    <3>2. d # c => Len(toServer[d]) + Len(toClient'[d]) <= 1
      BY <1>4 DEF TypeOK
    <3>3. \A i, j : i = 0 /\ (j = 0 \/ j = 1) => i + j <= 1
      OBVIOUS
    <3> HIDE DEF IInv
    <3> QED
      BY <3>1, <3>2, <3>3
  <2> QED
    BY <1>1, <1>4, <2>1 DEF TypeOK
<1>6. FramesInv'
  BY <1>1, <1>4 DEF FramesInv
<1>7. ChanInv' /\ TaskInv'
  BY <1>1 DEF ChanInv, Pending, TaskInv
<1>8. ManagerInv'
  <2>1. c \in Procs /\ manager[c] \in {"recv", "call"} => link[c] # "closed"
    BY <1>1 DEF ManagerInv
  <2> QED
    BY <1>1, <1>4, <2>1 DEF ManagerInv, Conns
<1>9. ConnInv'
  <2>1. \A d \in Conns : d # c => (InFlight(d) => InFlight(d)') /\ (Quiet(d) => Quiet(d)')
    BY <1>1, <1>4 DEF InFlight, Requested, Executed, Answered, Quiet, Sender
  <2>2. InFlight(c)'
    <3>1. toServer'[c] = <<>> /\ process'[c] # "write" /\ response'[c] = None
      BY <1>1, <1>3, <1>4 DEF Executed
    <3>2. Sender(c)' = Sender(c) /\ reply[Sender(c)] \in Replies /\ response[c] = reply[Sender(c)]
          /\ reply' = reply /\ link'[c] = link[c]
      BY <1>1, <1>3 DEF Sender, Executed
    <3> QED
      BY <1>4, <3>1, <3>2 DEF InFlight, Answered, Quiet
  <2>3. c \in Procs => cur[c] # None
    BY <1>1 DEF ConnInv, Quiet
  <2> QED
    BY <1>1, <1>4, <2>1, <2>2, <2>3 DEF ConnInv, Conns
<1>10. FaultInv' /\ FaultsHaveACause'
  BY <1>1 DEF FaultInv, FaultsHaveACause
<1> QED
  BY <1>5, <1>6, <1>7, <1>8, <1>9, <1>10

LEMMA CrashKeepsIInv == ASSUME IInv, Crash PROVE IInv'
<1> USE DEF IInv, Crash, clientVars
<1>1. /\ link \in [Conns -> {"none", "open", "closed"}]
      /\ toClient \in [Conns -> Seq(Replies)] /\ crashes \in 0..MaxCrashes
  BY DEF TypeOK, FramesInv
<1>2. crashes' \in 0..MaxCrashes /\ crashes' # 0
  BY <1>1, RedisBounds
<1>3. \A c \in Conns :
        /\ link'[c] = IF link[c] = "open" THEN "closed" ELSE link[c]
        /\ process'[c] = IF link[c] = "none" THEN "none" ELSE "ended"
        /\ response'[c] = None /\ toServer'[c] = <<>>
        /\ toClient'[c] = toClient[c] \/ toClient'[c] = <<>>
  OBVIOUS
<1>4. toClient' \in [Conns -> Seq(Replies)] /\ toServer' \in [Conns -> Seq(Frames)]
  <2>1. <<>> \in Seq(Replies) /\ <<>> \in Seq(Frames)
    OBVIOUS
  <2> QED
    BY <1>1, <2>1
<1>5. TypeOK'
  <2>1. ASSUME NEW c \in Conns PROVE Len(toServer'[c]) + Len(toClient'[c]) <= 1
    <3>1. Len(toServer'[c]) = 0
      BY <1>3, OneFrame
    <3>2. Len(toClient[c]) \in Nat /\ Len(toServer[c]) \in Nat
      BY <1>1 DEF FramesInv
    <3>3. Len(toClient[c]) <= 1
      <4>1. Len(toServer[c]) + Len(toClient[c]) <= 1
        BY DEF TypeOK
      <4>2. \A i, j \in Nat : i + j <= 1 => j <= 1
        OBVIOUS
      <4> QED
        BY <3>2, <4>1, <4>2
    <3>4. Len(toClient'[c]) = Len(toClient[c]) \/ Len(toClient'[c]) = 0
      BY <1>3, OneFrame
    <3>5. \A i, j, k : i = 0 /\ (j = k \/ j = 0) /\ k \in Nat /\ k <= 1 => i + j <= 1
      OBVIOUS
    <3> HIDE DEF IInv, Crash
    <3> QED
      BY <3>1, <3>2, <3>3, <3>4, <3>5
  <2>2. process' \in [Conns -> {"none", "read", "write", "ended"}]
        /\ link' \in [Conns -> {"none", "open", "closed"}]
        /\ response' \in [Conns -> Replies \cup {None}]
        /\ db' \in [Keys -> Values \cup {Nil}]
    BY <1>1 DEF KV!Empty
  <2> QED
    BY <1>2, <2>1, <2>2 DEF TypeOK
<1>6. FramesInv'
  BY <1>4 DEF FramesInv
<1>7. ChanInv' /\ TaskInv'
  BY DEF ChanInv, Pending, TaskInv
<1>8. ManagerInv'
  <2>1. \A p \in Procs : /\ link'[p] = "none" <=> link[p] = "none"
                         /\ link[p] # "none" => process'[p] = "ended"
    BY <1>1, <1>3 DEF Conns
  <2> QED
    BY <2>1 DEF ManagerInv
<1>9. ConnInv'
  <2>1. \A c \in Conns : Quiet(c) => Quiet(c)'
    BY <1>3 DEF Quiet
  <2>2. ASSUME NEW c \in Conns, link[c] # "none", InFlight(c) PROVE InFlight(c)'
    <3>1. link'[c] = "closed" /\ process'[c] = "ended"
      BY <1>1, <1>3, <2>2
    <3>2. CASE toClient'[c] = <<>>
      BY <1>3, <3>1, <3>2 DEF InFlight, Quiet
    <3>3. CASE toClient'[c] # <<>>
      <4>1. Answered(c) /\ toClient'[c] = toClient[c]
        BY <1>3, <2>2, <3>3 DEF InFlight, Requested, Executed, Quiet
      <4>2. Answered(c)'
        BY <1>3, <3>1, <4>1 DEF Answered, Sender
      <4> QED
        BY <4>2 DEF InFlight
    <3> QED
      BY <3>2, <3>3
  <2>3. \A p \in Procs : cur[p] # None => link[p] # "none"
    BY DEF ManagerInv
  <2> QED
    BY <1>1, <1>3, <2>1, <2>2, <2>3 DEF ConnInv, Conns
<1>10. FaultInv' /\ FaultsHaveACause'
  BY <1>2 DEF FaultInv, FaultsHaveACause
<1> QED
  BY <1>5, <1>6, <1>7, <1>8, <1>9, <1>10

LEMMA RestartKeepsIInv == ASSUME IInv, Restart PROVE IInv'
<1> USE DEF IInv, Restart, clientVars, netVars
<1>1. TypeOK' /\ FramesInv' /\ ChanInv' /\ TaskInv' /\ ManagerInv'
  BY DEF TypeOK, FramesInv, ChanInv, Pending, TaskInv, ManagerInv
<1>2. ConnInv'
  BY DEF ConnInv, InFlight, Requested, Executed, Answered, Quiet, Sender
<1>3. FaultInv' /\ FaultsHaveACause'
  BY DEF FaultInv, FaultsHaveACause
<1> QED
  BY <1>1, <1>2, <1>3

LEMMA UnchangedKeepsIInv == ASSUME IInv, UNCHANGED vars PROVE IInv'
BY DEF vars, clientVars, netVars, serverVars, IInv, TypeOK, FramesInv, ChanInv, Pending,
       TaskInv, ManagerInv, ConnInv, InFlight, Requested, Executed, Answered, Quiet, Sender,
       FaultInv, FaultsHaveACause
LEMMA NextKeepsIInv == IInv /\ [Next]_vars => IInv'
<1> SUFFICES ASSUME IInv, [Next]_vars PROVE IInv'
  OBVIOUS
<1>1. ASSUME NEW t \in Tasks, TaskStep(t) PROVE IInv'
  BY <1>1, SendCommandKeepsIInv, SendFailsKeepsIInv, AwaitResponseKeepsIInv DEF TaskStep
<1>2. ASSUME NEW p \in Procs, ManagerStep(p) \/ MainStep(p) PROVE IInv'
  BY <1>2, ConnectKeepsIInv, ConnectRefusedKeepsIInv, RecvKeepsIInv, RespondKeepsIInv,
     ChannelClosedKeepsIInv, AwaitKeepsIInv, AwaitPanicsKeepsIInv DEF ManagerStep, MainStep
<1>3. ASSUME NEW s \in Strangers, StrangerSends(s) \/ StrangerLeaves(s) PROVE IInv'
  BY <1>3, StrangerSendsKeepsIInv, StrangerLeavesKeepsIInv
<1>4. ASSUME NEW c \in Conns, ServerStep(c) PROVE IInv'
  BY <1>4, AcceptKeepsIInv, ExecuteKeepsIInv, UnimplementedKeepsIInv, WriteFrameKeepsIInv,
     EndOfStreamKeepsIInv DEF ServerStep
<1>5. CASE Crash \/ Restart
  BY <1>5, CrashKeepsIInv, RestartKeepsIInv
<1>6. CASE UNCHANGED vars
  BY <1>6, UnchangedKeepsIInv
<1> QED
  BY <1>1, <1>2, <1>3, <1>4, <1>5, <1>6 DEF Next, Finished

\* What the clients and the server rely on, in every state: each connection carries one
\* frame at most, each command is in one place, and each reply is that of its request.
THEOREM Invariance == Spec => []IInv
BY InitIInv, NextKeepsIInv, PTL DEF Spec

\* The types, with at most one frame in flight on a connection and at most Capacity
\* commands in a channel.
THEOREM TypeCorrectness == Spec => []TypeOK
<1>1. IInv => TypeOK
  BY DEF IInv
<1> QED
  BY <1>1, Invariance, PTL

\* No client of client.rs is told of an error, panics or is cancelled while the server
\* lives, whatever other programs send and whenever they leave.
THEOREM OnlyCrashesHurt == Spec => []FaultsHaveACause
<1>1. IInv => FaultsHaveACause
  BY DEF IInv
<1> QED
  BY <1>1, Invariance, PTL
-----------------------------------------------------------------------------
\* The refinement of KeyValueStore: a request is called when it is sent, takes effect
\* when the server executes it, and is answered when its task has the response.

Mapped == <<db, Called, reply, Told>>

LEMMA InitRefines == Init => KV!Init
BY RedisActors DEF Init, KV!Init, Called, Told, Conns, Sessions

LEMMA SendCommandCalls == ASSUME NEW t \in Tasks, IInv, SendCommand(t) PROVE KV!Call(t)
<1>1. /\ task \in [Tasks -> {"send", "await"} \cup Ended] /\ req[t] \in KV!Requests
  BY DEF IInv, TypeOK, FramesInv
<1>2. /\ task[t] = "send" /\ task' = [task EXCEPT ![t] = "await"]
      /\ UNCHANGED <<req, result, link, db, reply>>
  BY DEF SendCommand, netVars, serverVars
<1>3. Called[t] = None /\ Called' = [Called EXCEPT ![t] = req[t]]
  BY <1>1, <1>2 DEF Called, Sessions
<1>4. Told' = Told
  BY <1>2 DEF Told
<1> QED
  BY <1>1, <1>2, <1>3, <1>4 DEF KV!Call

LEMMA StrangerSendsCalls ==
  ASSUME NEW s \in Strangers, IInv, StrangerSends(s)
  PROVE  KV!Call(s) \/ UNCHANGED Mapped
<1>1. /\ link \in [Conns -> {"none", "open", "closed"}] /\ s \notin Tasks /\ s \in Conns
      /\ req[s] \in KV!Requests \cup {[op |-> "other"]} /\ Strangers \subseteq Conns
  BY RedisActors DEF IInv, TypeOK, Conns, Sessions
<1>2. /\ link[s] = "none" /\ link' = [link EXCEPT ![s] = "open"]
      /\ UNCHANGED <<req, result, task, db, reply>>
  BY DEF StrangerSends, clientVars, serverVars
<1>3. Told' = Told
  BY <1>2 DEF Told
<1>4. CASE req[s].op = "other"
  <2>1. Called' = Called
    BY <1>1, <1>2, <1>4 DEF Called, Sessions
  <2> QED
    BY <1>2, <1>3, <2>1 DEF Mapped
<1>5. CASE req[s].op # "other"
  <2>1. req[s] \in KV!Requests
    BY <1>1, <1>5
  <2>2. Called[s] = None /\ Called' = [Called EXCEPT ![s] = req[s]]
    BY <1>1, <1>2, <1>5 DEF Called, Sessions
  <2> QED
    BY <1>2, <1>3, <2>1, <2>2 DEF KV!Call
<1> QED
  BY <1>4, <1>5

LEMMA ExecuteApplies == ASSUME NEW c \in Conns, IInv, Execute(c) PROVE KV!Apply(Sender(c))
<1> DEFINE s == Sender(c)
<1>1. /\ Requested(c) /\ Head(toServer[c]) = req[s] /\ s \in Sessions
      /\ c \in Procs => s = cur[c] /\ s \in TasksOf(c) /\ s \in Tasks
      /\ c \in Strangers => s = c /\ link[c] # "none" /\ s \notin Tasks
  BY FrameRead DEF Execute
<1>2. /\ req[s].op # "other" /\ reply[s] = None
      /\ reply' = [reply EXCEPT ![s] = KV!ReplyTo(req[s], db)]
      /\ db' = KV!MapAfter(req[s], db)
      /\ UNCHANGED <<req, task, result, link>>
  BY <1>1 DEF Execute, Requested, clientVars
<1>3. req[s] # None
  BY <1>1, <1>2, RedisFrames DEF IInv, TypeOK
<1>4. Called[s] = req[s]
  <2>1. c \in Procs => task[s] \in {"await", "cancelled"}
    BY <1>1, RedisActors DEF IInv, ManagerInv, Sessions
  <2> QED
    BY <1>1, <1>2, <2>1 DEF Called, Conns
<1>5. Called' = Called /\ Told' = Told
  BY <1>2 DEF Called, Told
<1> HIDE DEF s
<1> QED
  BY <1>2, <1>3, <1>4, <1>5 DEF KV!Apply, s

LEMMA AwaitResponseReturns ==
  ASSUME NEW t \in Tasks, IInv, AwaitResponse(t)
  PROVE  KV!Return(t) \/ KV!Fail(t)
<1>1. /\ task \in [Tasks -> {"send", "await"} \cup Ended]
      /\ result \in [Tasks -> {None, Error} \cup Replies]
      /\ oneshot[t] \in {"open", "dropped", Error} \cup Replies
      /\ req[t] \in KV!Requests /\ t \in Sessions
  BY DEF IInv, TypeOK, FramesInv, Sessions
<1>2. /\ task[t] = "await" /\ oneshot[t] # "open" /\ task' = [task EXCEPT ![t] = "done"]
      /\ result' = [result EXCEPT ![t] = IF oneshot[t] = "dropped" THEN Error ELSE oneshot[t]]
      /\ UNCHANGED <<req, link, db, reply>>
  BY DEF AwaitResponse, netVars, serverVars
<1>3. Called' = Called /\ Called[t] # None
  BY <1>1, <1>2, RedisFrames DEF Called, Sessions
<1>4. Told[t] = None /\ Told' = [Told EXCEPT ![t] = result'[t]]
  <2>1. result[t] = None
    BY <1>2 DEF IInv, TaskInv
  <2> QED
    BY <1>1, <1>2, <2>1 DEF Told, Sessions
<1>5. CASE oneshot[t] \in Replies
  <2>1. result'[t] = reply[t] /\ reply[t] # None
    BY <1>1, <1>2, <1>5, RedisResults DEF IInv, TaskInv
  <2> QED
    BY <1>2, <1>3, <1>4, <2>1 DEF KV!Return
<1>6. CASE oneshot[t] \notin Replies
  <2>1. result'[t] = Error
    BY <1>1, <1>2, <1>6
  <2> QED
    BY <1>2, <1>3, <1>4, <2>1 DEF KV!Fail
<1> QED
  BY <1>5, <1>6

\* A server that is killed loses the map and nothing else of what the sessions see.
LEMMA CrashLoses == ASSUME IInv, Crash PROVE KV!Lose
<1>1. \A s \in Strangers : link'[s] = "none" <=> link[s] = "none"
  BY DEF Crash, IInv, TypeOK, Conns
<1>2. Called' = Called /\ Told' = Told
  BY <1>1 DEF Crash, clientVars, Called, Told, Sessions
<1> QED
  BY <1>2 DEF Crash, KV!Lose

\* The other steps move what is in flight.
LEMMA SendFailsStutters == ASSUME IInv, NEW t \in Tasks, SendFails(t) PROVE UNCHANGED Mapped
<1>1. task \in [Tasks -> {"send", "await"} \cup Ended]
  BY DEF IInv, TypeOK
<1>2. Called' = Called /\ Told' = Told
  BY <1>1 DEF SendFails, Called, Told, Sessions, netVars
<1> QED
  BY <1>2 DEF SendFails, Mapped, serverVars

LEMMA ManagerAndMainStutter ==
  ASSUME IInv, NEW p \in Procs, ManagerStep(p) \/ MainStep(p)
  PROVE  UNCHANGED Mapped
<1> USE DEF ManagerStep, MainStep, Connect, ConnectRefused, Recv, Respond, ChannelClosed, Await,
            AwaitPanics
<1>1. /\ link \in [Conns -> {"none", "open", "closed"}] /\ p \notin Strangers
      /\ task \in [Tasks -> {"send", "await"} \cup Ended]
  BY RedisActors DEF IInv, TypeOK
<1>2. UNCHANGED <<req, result, db, reply>>
  BY DEF netVars, serverVars
<1>3. \A s \in Strangers : link'[s] = link[s]
  BY <1>1 DEF netVars, Conns
<1>4. \A s \in Tasks : task'[s] \in {"send", "panicked", "unsent"}
                         <=> task[s] \in {"send", "panicked", "unsent"}
  BY <1>1
<1>5. Called' = Called /\ Told' = Told
  BY <1>2, <1>3, <1>4 DEF Called, Told, Sessions
<1> QED
  BY <1>2, <1>5 DEF Mapped

LEMMA StrangerLeavesStutters ==
  ASSUME IInv, NEW s \in Strangers, StrangerLeaves(s) PROVE UNCHANGED Mapped
<1>1. link \in [Conns -> {"none", "open", "closed"}]
  BY DEF IInv, TypeOK
<1>2. \A x \in Strangers : link'[x] = "none" <=> link[x] = "none"
  BY <1>1 DEF StrangerLeaves, Conns
<1>3. Called' = Called /\ Told' = Told
  BY <1>2 DEF StrangerLeaves, Called, Told, Sessions, clientVars
<1> QED
  BY <1>3 DEF StrangerLeaves, Mapped, serverVars

LEMMA ServerStutters ==
  ASSUME IInv, NEW c \in Conns,
         Accept(c) \/ Unimplemented(c) \/ WriteFrame(c) \/ EndOfStream(c)
  PROVE  UNCHANGED Mapped
<1>1. link \in [Conns -> {"none", "open", "closed"}]
  BY DEF IInv, TypeOK
<1>2. UNCHANGED <<req, task, result, db, reply>>
  BY DEF Accept, Unimplemented, WriteFrame, EndOfStream, clientVars
<1>3. \A x \in Strangers : link'[x] = "none" <=> link[x] = "none"
  <2>1. CASE Unimplemented(c)
    <3>1. c \in Strangers => link[c] # "none"
      BY <2>1, FrameRead DEF Unimplemented
    <3> QED
      BY <1>1, <2>1, <3>1 DEF Unimplemented, Conns
  <2>2. CASE ~Unimplemented(c)
    BY <1>1, <2>2 DEF Accept, WriteFrame, EndOfStream, netVars, Conns
  <2> QED
    BY <2>1, <2>2
<1>4. Called' = Called /\ Told' = Told
  BY <1>2, <1>3 DEF Called, Told, Sessions
<1> QED
  BY <1>2, <1>4 DEF Mapped

LEMMA StepRefines == IInv /\ [Next]_vars => [KV!Next]_Mapped
<1> SUFFICES ASSUME IInv, [Next]_vars PROVE [KV!Next]_Mapped
  OBVIOUS
<1>1. ASSUME NEW t \in Tasks, TaskStep(t) PROVE [KV!Next]_Mapped
  BY <1>1, SendCommandCalls, SendFailsStutters, AwaitResponseReturns
     DEF TaskStep, KV!Next, Sessions
<1>2. ASSUME NEW p \in Procs, ManagerStep(p) \/ MainStep(p) PROVE [KV!Next]_Mapped
  BY <1>2, ManagerAndMainStutter
<1>3. ASSUME NEW s \in Strangers, StrangerSends(s) \/ StrangerLeaves(s) PROVE [KV!Next]_Mapped
  BY <1>3, StrangerSendsCalls, StrangerLeavesStutters DEF KV!Next, Sessions
<1>4. ASSUME NEW c \in Conns, ServerStep(c) PROVE [KV!Next]_Mapped
  <2>1. CASE Execute(c)
    <3>1. KV!Apply(Sender(c)) /\ Sender(c) \in Sessions
      BY <2>1, ExecuteApplies, FrameRead DEF Execute
    <3> QED
      BY <3>1 DEF KV!Next
  <2>2. CASE ~Execute(c)
    BY <1>4, <2>2, ServerStutters DEF ServerStep
  <2> QED
    BY <2>1, <2>2
<1>5. CASE Crash
  BY <1>5, CrashLoses DEF KV!Next
<1>6. CASE Restart \/ UNCHANGED vars
  BY <1>6 DEF Restart, vars, clientVars, netVars, serverVars, Mapped, Called, Told
<1> QED
  BY <1>1, <1>2, <1>3, <1>4, <1>5, <1>6 DEF Next, Finished

\* The requests of all programs take effect one after another, each at most once, and a
\* task is told the reply to its own request or an error: for any number of programs,
\* tasks, connections and crashes.
THEOREM LinearizableStore == Spec => Linearizable
BY InitRefines, StepRefines, Invariance, PTL DEF Spec, KV!Spec, Linearizable, Mapped

-----------------------------------------------------------------------------
(***************************************************************************)
(* Progress of the clients.  What keeps them going: a command that is not  *)
(* answered is in the channel or in the manager's call; only main's end    *)
(* cancels; the channel of a manager that has ended is empty; and the      *)
(* connections end with the server.                                        *)
(***************************************************************************)
Held(t) == cur[Owner(t)] = t \/ \E i \in 1..Len(chan[Owner(t)]) : chan[Owner(t)][i] = t

WaitInv == \A t \in Tasks : task[t] = "await" /\ oneshot[t] = "open" => Held(t)
RunInv == \A p \in Procs :
  /\ manager[p] \in {"done", "panicked"} => chan[p] = <<>>
  /\ main[p] = "run" => /\ manager[p] # "cancelled"
                        /\ \A t \in TasksOf(p) : task[t] \notin {"cancelled", "unsent"}
UpInv == \A c \in Conns : link[c] = "open" => up
LiveInv == WaitInv /\ RunInv /\ UpInv

LEMMA InitLiveInv == Init => LiveInv
BY OwnerOfTask, RedisActors DEF Init, LiveInv, WaitInv, RunInv, UpInv, Conns, Ended

LEMMA TaskKeepsLiveInv == ASSUME NEW t \in Tasks, IInv, LiveInv, TaskStep(t) PROVE LiveInv'
<1> DEFINE p == Owner(t)
<1>1. p \in Procs /\ t \in TasksOf(p) /\ \A q \in Procs : t \in TasksOf(q) => q = p
  BY OwnerOfTask
<1>2. \A s \in Tasks : Owner(s) \in Procs
  BY OwnerOfTask
<1> HIDE DEF p
<1>3. /\ chan \in [Procs -> Seq(Tasks)] /\ task \in [Tasks -> {"send", "await"} \cup Ended]
      /\ chan[p] \in Seq(Tasks) /\ Len(chan[p]) \in Nat
  BY <1>1 DEF IInv, TypeOK
<1>4. CASE SendCommand(t)
  <2>1. /\ manager[p] \notin Ended
        /\ chan' = [chan EXCEPT ![p] = Append(chan[p], t)]
        /\ task' = [task EXCEPT ![t] = "await"]
        /\ UNCHANGED <<oneshot, main, manager, cur, link, up>>
    BY <1>4 DEF SendCommand, p, netVars, serverVars
  <2>2. /\ Len(chan'[p]) = Len(chan[p]) + 1 /\ chan'[p][Len(chan[p]) + 1] = t
        /\ \A i \in 1..Len(chan[p]) : chan'[p][i] = chan[p][i] /\ i \in 1..Len(chan'[p])
        /\ Len(chan[p]) + 1 \in 1..Len(chan'[p])
    BY <1>1, <1>3, <2>1
  <2>3. WaitInv'
    <3> SUFFICES ASSUME NEW s \in Tasks, task'[s] = "await", oneshot'[s] = "open"
                 PROVE  Held(s)'
      BY DEF WaitInv
    <3>1. CASE s = t
      BY <2>2, <3>1 DEF Held, p
    <3>2. CASE s # t
      <4>1. Held(s)
        BY <1>3, <2>1, <3>2 DEF LiveInv, WaitInv
      <4>2. CASE Owner(s) = p
        BY <2>1, <2>2, <4>1, <4>2 DEF Held
      <4>3. CASE Owner(s) # p
        <5>1. chan'[Owner(s)] = chan[Owner(s)]
          BY <1>2, <1>3, <2>1, <4>3
        <5> QED
          BY <2>1, <4>1, <5>1 DEF Held
      <4> QED
        BY <4>2, <4>3
    <3> QED
      BY <3>1, <3>2
  <2>4. RunInv'
    BY <1>1, <1>3, <2>1 DEF LiveInv, RunInv, Ended
  <2> QED
    BY <2>1, <2>3, <2>4 DEF LiveInv, UpInv
<1>5. CASE SendFails(t) \/ AwaitResponse(t)
  <2>1. /\ \E e \in {"panicked", "done"} : task' = [task EXCEPT ![t] = e]
        /\ UNCHANGED <<oneshot, main, manager, chan, cur, link, up>>
    BY <1>5 DEF SendFails, AwaitResponse, netVars, serverVars
  <2>2. \A s \in Tasks : /\ task'[s] = "await" => task[s] = "await"
                         /\ task'[s] \in {"cancelled", "unsent"} => task'[s] = task[s]
    BY <1>3, <2>1
  <2>3. \A s \in Tasks : Held(s)' <=> Held(s)
    BY <2>1 DEF Held
  <2>4. RunInv'
    <3>1. \A q \in Procs : \A s \in TasksOf(q) : s \in Tasks
      BY OwnerOfTask
    <3> QED
      BY <2>1, <2>2, <3>1 DEF LiveInv, RunInv
  <2>5. WaitInv'
    BY <2>1, <2>2, <2>3 DEF LiveInv, WaitInv
  <2> QED
    BY <2>1, <2>4, <2>5 DEF LiveInv, UpInv
<1> QED
  BY <1>4, <1>5 DEF TaskStep

LEMMA ManagerKeepsLiveInv == ASSUME NEW p \in Procs, IInv, LiveInv, ManagerStep(p) PROVE LiveInv'
<1>1. /\ chan \in [Procs -> Seq(Tasks)] /\ chan[p] \in Seq(Tasks) /\ Len(chan[p]) \in Nat
      /\ manager \in [Procs -> {"connect", "recv", "call"} \cup (Ended \ {"unsent"})]
      /\ oneshot \in [Tasks -> {"open", "dropped", Error} \cup Replies]
      /\ cur \in [Procs -> Tasks \cup {None}] /\ p \in Conns
      /\ link \in [Conns -> {"none", "open", "closed"}]
  BY DEF IInv, TypeOK, Conns
<1>2. \A s \in Tasks : Owner(s) \in Procs
  BY OwnerOfTask
<1>3. CASE Connect(p) \/ ChannelClosed(p)
  <2>1. /\ UNCHANGED <<task, oneshot, main, chan, cur, up>>
        /\ \/ manager' = [manager EXCEPT ![p] = "recv"] /\ link' = [link EXCEPT ![p] = "open"] /\ up
           \/ /\ manager' = [manager EXCEPT ![p] = "done"] /\ link' = [link EXCEPT ![p] = "closed"]
              /\ chan[p] = <<>>
    BY <1>3 DEF Connect, ChannelClosed, serverVars
  <2>2. \A s \in Tasks : Held(s)' <=> Held(s)
    BY <2>1 DEF Held
  <2>3. WaitInv'
    BY <2>1, <2>2 DEF LiveInv, WaitInv
  <2>4. RunInv'
    BY <1>1, <2>1 DEF LiveInv, RunInv
  <2>5. UpInv'
    BY <1>1, <2>1 DEF LiveInv, UpInv
  <2> QED
    BY <2>3, <2>4, <2>5 DEF LiveInv
<1>4. CASE ConnectRefused(p)
  <2>1. /\ manager' = [manager EXCEPT ![p] = "panicked"]
        /\ oneshot' = [t \in Tasks |-> IF \E i \in DOMAIN chan[p] : chan[p][i] = t
                                       THEN "dropped" ELSE oneshot[t]]
        /\ chan' = [chan EXCEPT ![p] = <<>>]
        /\ UNCHANGED <<task, main, cur, link, up>>
    BY <1>4 DEF ConnectRefused, netVars, serverVars
  <2>2. WaitInv'
    <3> SUFFICES ASSUME NEW s \in Tasks, task'[s] = "await", oneshot'[s] = "open"
                 PROVE  Held(s)'
      BY DEF WaitInv
    <3>1. oneshot[s] = "open" /\ ~\E i \in 1..Len(chan[p]) : chan[p][i] = s
      BY <1>1, <2>1
    <3>2. Held(s)
      BY <2>1, <3>1 DEF LiveInv, WaitInv
    <3>3. CASE Owner(s) = p
      BY <2>1, <3>1, <3>2, <3>3 DEF Held
    <3>4. CASE Owner(s) # p
      <4>1. chan'[Owner(s)] = chan[Owner(s)]
        BY <1>1, <1>2, <2>1, <3>4
      <4> QED
        BY <2>1, <3>2, <4>1 DEF Held
    <3> QED
      BY <3>3, <3>4
  <2>3. RunInv'
    BY <1>1, <2>1 DEF LiveInv, RunInv
  <2> QED
    BY <2>1, <2>2, <2>3 DEF LiveInv, UpInv
<1>5. CASE Recv(p)
  <2> DEFINE h == Head(chan[p])
  <2>1. /\ manager[p] = "recv" /\ chan[p] # <<>>
        /\ cur' = [cur EXCEPT ![p] = h]
        /\ chan' = [chan EXCEPT ![p] = Tail(chan[p])]
        /\ manager' = [manager EXCEPT ![p] = "call"]
        /\ UNCHANGED <<task, oneshot, main, link, up>>
    BY <1>5 DEF Recv, serverVars
  <2>2. cur[p] = None
    BY <2>1 DEF IInv, ManagerInv
  <2>3. /\ h = chan[p][1] /\ Len(chan'[p]) = Len(chan[p]) - 1
        /\ \A i \in 1..Len(chan'[p]) : chan'[p][i] = chan[p][i + 1]
    BY <1>1, <2>1
  <2> HIDE DEF h
  <2>4. WaitInv'
    <3> SUFFICES ASSUME NEW s \in Tasks, task'[s] = "await", oneshot'[s] = "open"
                 PROVE  Held(s)'
      BY DEF WaitInv
    <3>1. Held(s)
      BY <2>1 DEF LiveInv, WaitInv
    <3>2. CASE Owner(s) = p
      <4>1. s # None
        BY RedisActors DEF Sessions
      <4>2. PICK i \in 1..Len(chan[p]) : chan[p][i] = s
        BY <2>2, <3>1, <3>2, <4>1 DEF Held
      <4>3. CASE i = 1
        <5>1. cur'[p] = s
          BY <1>1, <2>1, <2>3, <4>2, <4>3
        <5> QED
          BY <3>2, <5>1 DEF Held
      <4>4. CASE i # 1
        <5>1. i - 1 \in 1..Len(chan'[p]) /\ chan'[p][i - 1] = s
          <6>1. i - 1 \in 1..Len(chan'[p]) /\ (i - 1) + 1 = i
            BY <1>1, <2>3, <4>4
          <6> QED
            BY <2>3, <4>2, <6>1
        <5> QED
          BY <3>2, <5>1 DEF Held
      <4> QED
        BY <4>3, <4>4
    <3>3. CASE Owner(s) # p
      <4>1. chan'[Owner(s)] = chan[Owner(s)] /\ cur'[Owner(s)] = cur[Owner(s)]
        BY <1>1, <1>2, <2>1, <3>3
      <4> QED
        BY <3>1, <4>1 DEF Held
    <3> QED
      BY <3>2, <3>3
  <2>5. RunInv'
    BY <1>1, <2>1 DEF LiveInv, RunInv
  <2> QED
    BY <2>1, <2>4, <2>5 DEF LiveInv, UpInv
<1>6. CASE Respond(p)
  <2>1. /\ manager' = [manager EXCEPT ![p] = "recv"]
        /\ cur' = [cur EXCEPT ![p] = None]
        /\ UNCHANGED <<task, main, chan, link, up>>
        /\ \E r \in Replies \cup {Error} : oneshot' = [oneshot EXCEPT ![cur[p]] = r]
    <3>1. /\ manager' = [manager EXCEPT ![p] = "recv"]
          /\ cur' = [cur EXCEPT ![p] = None]
          /\ UNCHANGED <<task, main, chan, link, up>>
      BY <1>6 DEF Respond, serverVars
    <3>2. toClient[p] # <<>> => Head(toClient[p]) \in Replies
      BY <1>1, HeadTailProperties DEF IInv, FramesInv
    <3>3. \E r \in Replies \cup {Error} : oneshot' = [oneshot EXCEPT ![cur[p]] = r]
      BY <1>6, <3>2 DEF Respond
    <3> QED
      BY <3>1, <3>3
  <2>2. WaitInv'
    <3> SUFFICES ASSUME NEW s \in Tasks, task'[s] = "await", oneshot'[s] = "open"
                 PROVE  Held(s)'
      BY DEF WaitInv
    <3>1. s # cur[p]
      BY <1>1, <2>1, RedisResults
    <3>2. oneshot[s] = "open"
      BY <1>1, <2>1, <3>1
    <3>3. Held(s)
      BY <2>1, <3>2 DEF LiveInv, WaitInv
    <3>4. cur[Owner(s)] = s => cur'[Owner(s)] = s
      BY <1>1, <1>2, <2>1, <3>1
    <3> QED
      BY <2>1, <3>3, <3>4 DEF Held
  <2>3. RunInv'
    BY <1>1, <2>1 DEF LiveInv, RunInv
  <2> QED
    BY <2>1, <2>2, <2>3 DEF LiveInv, UpInv
<1> QED
  BY <1>3, <1>4, <1>5, <1>6 DEF ManagerStep

LEMMA OtherStepsKeepLiveInv ==
  ASSUME IInv, LiveInv,
         \/ \E p \in Procs : MainStep(p)
         \/ \E c \in Strangers : StrangerSends(c) \/ StrangerLeaves(c)
         \/ \E c \in Conns : ServerStep(c)
         \/ Crash \/ Restart \/ UNCHANGED vars
  PROVE  LiveInv'
<1>1. /\ main \in [Procs -> {"run", "done", "panicked"}]
      /\ manager \in [Procs -> {"connect", "recv", "call"} \cup (Ended \ {"unsent"})]
      /\ task \in [Tasks -> {"send", "await"} \cup Ended]
      /\ link \in [Conns -> {"none", "open", "closed"}]
  BY DEF IInv, TypeOK
<1>2. /\ \A s \in Tasks : task'[s] = "await" => task[s] = "await"
      /\ UNCHANGED <<oneshot, chan, cur>>
      /\ \A c \in Conns : link'[c] = "open" => up'
      /\ \A p \in Procs :
           /\ manager'[p] = manager[p] \/ (manager'[p] = "cancelled" /\ main'[p] # "run")
           /\ main'[p] = "run" => main[p] = "run" /\ \A t \in TasksOf(p) : task'[t] = task[t]
  <2>1. ASSUME NEW p \in Procs, AwaitPanics(p)
        PROVE  /\ \A s \in Tasks : task'[s] = "await" => task[s] = "await"
               /\ UNCHANGED <<oneshot, chan, cur, up>>
               /\ \A c \in Conns : link'[c] = "open" => link[c] = "open"
               /\ \A q \in Procs :
                    /\ manager'[q] = manager[q] \/ (manager'[q] = "cancelled" /\ main'[q] # "run")
                    /\ main'[q] = "run" => main[q] = "run" /\ \A t \in TasksOf(q) : task'[t] = task[t]
    <3>1. \A q \in Procs : \A t \in TasksOf(q) : t \in Tasks /\ (t \in TasksOf(p) => q = p)
      BY OwnerOfTask
    <3>2. /\ \A s \in Tasks : task'[s] = "await" => task[s] = "await"
          /\ UNCHANGED <<oneshot, chan, cur, up>>
          /\ \A c \in Conns : link'[c] = "open" => link[c] = "open"
      BY <1>1, <2>1 DEF AwaitPanics, serverVars
    <3>3. \A q \in Procs :
             manager'[q] = manager[q] \/ (manager'[q] = "cancelled" /\ main'[q] # "run")
      BY <1>1, <2>1 DEF AwaitPanics
    <3>4. \A q \in Procs : main'[q] = "run" => main[q] = "run" /\ q # p
      BY <1>1, <2>1 DEF AwaitPanics
    <3>5. \A q \in Procs \ {p} : \A t \in TasksOf(q) : task'[t] = task[t]
      BY <2>1, <3>1 DEF AwaitPanics
    <3> QED
      BY <3>2, <3>3, <3>4, <3>5
  <2>2. ASSUME NEW p \in Procs, Await(p)
        PROVE  /\ UNCHANGED <<oneshot, chan, cur, up, link, task, manager>>
               /\ \A q \in Procs : main'[q] = "run" => main[q] = "run"
    BY <1>1, <2>2 DEF Await, netVars, serverVars
  <2>3. ASSUME NEW c \in Strangers, StrangerSends(c) \/ StrangerLeaves(c)
        PROVE  UNCHANGED clientVars /\ \A d \in Conns : link'[d] = "open" => up'
    BY <1>1, <2>3 DEF StrangerSends, StrangerLeaves, serverVars, LiveInv, UpInv, Conns
  <2>4. ASSUME NEW c \in Conns, ServerStep(c)
        PROVE  UNCHANGED clientVars /\ \A d \in Conns : link'[d] = "open" => up'
    BY <1>1, <2>4 DEF ServerStep, Accept, Execute, Unimplemented, WriteFrame, EndOfStream, netVars,
       LiveInv, UpInv
  <2>5. ASSUME Crash \/ Restart
        PROVE  UNCHANGED clientVars /\ \A d \in Conns : link'[d] = "open" => up'
    BY <1>1, <2>5 DEF Crash, Restart, netVars, LiveInv, UpInv
  <2>6. ASSUME UNCHANGED vars
        PROVE  UNCHANGED clientVars /\ \A d \in Conns : link'[d] = "open" => up'
    BY <2>6 DEF vars, netVars, serverVars, LiveInv, UpInv
  <2>7. CASE UNCHANGED clientVars /\ \A d \in Conns : link'[d] = "open" => up'
    BY <2>7 DEF clientVars
  <2>8. CASE \E p \in Procs : MainStep(p)
    <3>1. \A c \in Conns : link[c] = "open" => up
      BY DEF LiveInv, UpInv
    <3> QED
      BY <2>1, <2>2, <2>8, <3>1 DEF MainStep
  <2> QED
    BY <2>3, <2>4, <2>5, <2>6, <2>7, <2>8
<1>3. WaitInv'
  <2>1. \A s \in Tasks : Held(s)' <=> Held(s)
    BY <1>2 DEF Held
  <2> QED
    BY <1>2, <2>1 DEF LiveInv, WaitInv
<1>4. RunInv'
  BY <1>2 DEF LiveInv, RunInv
<1> QED
  BY <1>2, <1>3, <1>4 DEF LiveInv, UpInv

LEMMA LiveInvariance == Spec => [](IInv /\ LiveInv)
<1>1. IInv /\ LiveInv /\ [Next]_vars => (IInv /\ LiveInv)'
  BY NextKeepsIInv, TaskKeepsLiveInv, ManagerKeepsLiveInv, OtherStepsKeepLiveInv DEF Next, Finished
<1> QED
  BY <1>1, InitIInv, InitLiveInv, PTL DEF Spec

-----------------------------------------------------------------------------
\* The guards of the steps that are scheduled.

TaskReady(t) ==
  \/ task[t] = "send" /\ (manager[Owner(t)] \in Ended \/ Len(chan[Owner(t)]) < Capacity)
  \/ task[t] = "await" /\ oneshot[t] # "open"

ManagerReady(p) ==
  \/ manager[p] = "connect"
  \/ manager[p] = "recv" /\ (chan[p] # <<>> \/ \A t \in TasksOf(p) : task[t] \in Ended)
  \/ manager[p] = "call" /\ (toClient[p] # <<>> \/ link[p] = "closed")

MainReady(p) == main[p] = "run" /\ Joined(p) \in {"done", "panicked"}

ServerReady(c) ==
  /\ up
  /\ \/ process[c] = "none" /\ link[c] # "none"
     \/ process[c] = "read" /\ (toServer[c] # <<>> \/ link[c] = "closed")
     \/ process[c] = "write"

\* A manager in a call: its reply is there, or the server has its frame, or the server
\* that had it is gone and with it the connection.
LEMMA CallGoesOn ==
  ASSUME IInv, LiveInv, NEW p \in Procs, manager[p] = "call"
  PROVE  ManagerReady(p) \/ ServerReady(p)
<1> SUFFICES ASSUME toClient[p] = <<>>, link[p] # "closed" PROVE ServerReady(p)
  BY DEF ManagerReady
<1>1. p \in Conns /\ link[p] = "open" /\ up
  <2>1. p \in Conns
    BY DEF Conns
  <2>2. link[p] \in {"none", "open", "closed"} /\ link[p] # "none"
    BY <2>1 DEF IInv, TypeOK, ManagerInv
  <2> QED
    BY <2>1, <2>2 DEF LiveInv, UpInv
<1>2. Requested(p) \/ Executed(p)
  <2>1. InFlight(p)
    BY DEF IInv, ManagerInv, ConnInv
  <2> QED
    BY <1>1, <2>1, OneFrame DEF InFlight, Answered
<1>3. CASE Requested(p)
  BY <1>1, <1>3, OneFrame DEF Requested, ServerReady
<1>4. CASE Executed(p)
  BY <1>1, <1>4 DEF Executed, ServerReady
<1> QED
  BY <1>2, <1>3, <1>4

\* A task that waits without being held by the channel or the manager's call.
LEMMA NobodyWaits ==
  ASSUME IInv, LiveInv, NEW p \in Procs, chan[p] = <<>>, manager[p] # "call",
         NEW t \in TasksOf(p), main[p] = "run", task[t] \notin Ended
  PROVE  TaskReady(t)
<1>1. t \in Tasks /\ Owner(t) = p
  BY OwnerOfTask
<1>2. Len(chan[p]) = 0 /\ Capacity >= 1
  BY RedisBounds
<1>3. cur[p] # t
  <2>1. t # None
    BY <1>1, RedisActors DEF Sessions
  <2>2. cur[p] # None => manager[p] = "cancelled"
    BY DEF IInv, ManagerInv
  <2>3. manager[p] # "cancelled"
    BY DEF LiveInv, RunInv
  <2> QED
    BY <2>1, <2>2, <2>3
<1>4. task[t] = "await" => oneshot[t] # "open"
  <2>1. ~Held(t)
    BY <1>1, <1>2, <1>3 DEF Held
  <2> QED
    BY <1>1, <2>1 DEF LiveInv, WaitInv
<1>5. task[t] \in {"send", "await"}
  BY <1>1 DEF IInv, TypeOK
<1>6. Len(chan[p]) < Capacity
  BY <1>2, RedisBounds
<1>7. CASE task[t] = "send"
  BY <1>1, <1>6, <1>7 DEF TaskReady
<1>8. CASE task[t] = "await"
  BY <1>4, <1>8 DEF TaskReady
<1> QED
  BY <1>5, <1>7, <1>8

LEMMA ClientGoesOn ==
  ASSUME IInv, LiveInv, NEW p \in Procs, main[p] = "run"
  PROVE  (\E t \in TasksOf(p) : TaskReady(t)) \/ ManagerReady(p) \/ MainReady(p) \/ ServerReady(p)
<1> SUFFICES ASSUME \A t \in TasksOf(p) : ~TaskReady(t), ~ManagerReady(p), ~ServerReady(p)
             PROVE  MainReady(p)
  OBVIOUS
<1>1. manager[p] \in {"recv", "done", "panicked"}
  <2>1. manager[p] \in {"connect", "recv", "call", "done", "panicked", "cancelled"}
    BY DEF IInv, TypeOK, Ended
  <2>2. manager[p] # "cancelled"
    BY DEF LiveInv, RunInv
  <2>3. manager[p] # "call"
    BY CallGoesOn
  <2> QED
    BY <2>1, <2>2, <2>3 DEF ManagerReady
<1>2. chan[p] = <<>>
  BY <1>1 DEF ManagerReady, LiveInv, RunInv
<1>3. \A t \in TasksOf(p) : task[t] \in {"done", "panicked"}
  <2> SUFFICES ASSUME NEW t \in TasksOf(p) PROVE task[t] \in {"done", "panicked"}
    OBVIOUS
  <2>1. task[t] \in Ended
    BY <1>1, <1>2, NobodyWaits
  <2>2. task[t] \notin {"cancelled", "unsent"}
    BY DEF LiveInv, RunInv
  <2> QED
    BY <2>1, <2>2 DEF Ended
<1>4. manager[p] \in {"done", "panicked"}
  BY <1>1, <1>3 DEF ManagerReady, Ended
<1>5. joined[p] < Len(TaskSeq[p]) => TaskSeq[p][joined[p] + 1] \in TasksOf(p)
  <2>1. joined[p] \in Nat /\ TaskSeq[p] \in Seq(Tasks) /\ Len(TaskSeq[p]) \in Nat
    BY RedisActors DEF IInv, TypeOK
  <2>2. joined[p] < Len(TaskSeq[p]) => joined[p] + 1 \in DOMAIN TaskSeq[p]
    BY <2>1
  <2> QED
    BY <2>2 DEF TasksOf
<1>6. Joined(p) \in {"done", "panicked"}
  BY <1>3, <1>4, <1>5 DEF Joined
<1> QED
  BY <1>6 DEF MainReady

\* A client never hangs, for any number of clients, tasks, other programs and crashes of
\* the server: until its main() has returned or panicked, one of its tasks, its manager,
\* main() itself or the server's task for its connection can take a step (client.rs:22-81,
\* server.rs:18-56); none of them waits for a response, for room or for a sender in vain.
THEOREM ClientsNeverStall ==
  Spec => [](\A p \in Procs : main[p] = "run" =>
               (\E t \in TasksOf(p) : TaskReady(t)) \/ ManagerReady(p) \/ MainReady(p) \/ ServerReady(p))
<1>1. IInv /\ LiveInv =>
        \A p \in Procs : main[p] = "run" =>
          (\E t \in TasksOf(p) : TaskReady(t)) \/ ManagerReady(p) \/ MainReady(p) \/ ServerReady(p)
  BY ClientGoesOn
<1> QED
  BY <1>1, LiveInvariance, PTL

-----------------------------------------------------------------------------
(***************************************************************************)
(* What a client still has to do.  A command that is not sent counts 8, in *)
(* the channel and awaited 7, with the manager and the server what is left *)
(* of its way there and back; main has its tasks to await.                 *)
(***************************************************************************)
Sending(p) == {t \in TasksOf(p) : task[t] = "send"}
Awaiting(p) == {t \in TasksOf(p) : task[t] = "await"}
ManagerLeft(m) == IF m \in {"connect", "call"} THEN 2 ELSE IF m = "recv" THEN 1 ELSE 0
ProcessLeft(s) == CASE s = "none" -> 2 [] s = "read" -> 1 [] s = "write" -> 3 [] OTHER -> 0
MainLeft(p) == (Len(TaskSeq[p]) - joined[p]) + IF main[p] = "run" THEN 1 ELSE 0

Weight(send, wait, queued, m, there, back, s, run) ==
  8 * send + wait + 6 * queued + m + 3 * there + back + s + run

ToDo(p) ==
  Weight(Cardinality(Sending(p)), Cardinality(Awaiting(p)), Len(chan[p]), ManagerLeft(manager[p]),
         Len(toServer[p]), Len(toClient[p]), ProcessLeft(process[p]), MainLeft(p))

\* The steps of a client and of the server's task for it.
StepFor(p) == (\E t \in TasksOf(p) : TaskStep(t)) \/ ManagerStep(p) \/ MainStep(p) \/ ServerStep(p)

LEMMA TasksAreFinite == ASSUME NEW p \in Procs PROVE IsFiniteSet(TasksOf(p))
<1>1. TaskSeq[p] \in Seq(Tasks) /\ Len(TaskSeq[p]) \in Nat /\ DOMAIN TaskSeq[p] = 1..Len(TaskSeq[p])
  BY RedisActors
<1>2. IsFiniteSet(1..Len(TaskSeq[p]))
  BY <1>1, FS_Interval
<1> DEFINE f == [i \in 1..Len(TaskSeq[p]) |-> TaskSeq[p][i]]
<1>3. f \in Surjection(1..Len(TaskSeq[p]), TasksOf(p))
  BY <1>1 DEF Surjection, TasksOf
<1> HIDE DEF f
<1> QED
  BY <1>2, <1>3, FS_Surjection

\* The parts of the weight are numbers, now and after a step.
Parts(p) ==
  /\ IsFiniteSet(Sending(p)) /\ Cardinality(Sending(p)) \in Nat
  /\ IsFiniteSet(Awaiting(p)) /\ Cardinality(Awaiting(p)) \in Nat
  /\ Len(chan[p]) \in Nat /\ ManagerLeft(manager[p]) \in Nat
  /\ Len(toServer[p]) \in Nat /\ Len(toClient[p]) \in Nat
  /\ ProcessLeft(process[p]) \in Nat /\ MainLeft(p) \in Nat

LEMMA PartsAreNumbers == ASSUME IInv, NEW p \in Procs PROVE Parts(p)
<1>1. IsFiniteSet(Sending(p)) /\ IsFiniteSet(Awaiting(p))
  <2>1. Sending(p) \subseteq TasksOf(p) /\ Awaiting(p) \subseteq TasksOf(p)
    BY DEF Sending, Awaiting
  <2> QED
    BY <2>1, TasksAreFinite, FS_Subset
<1>2. Cardinality(Sending(p)) \in Nat /\ Cardinality(Awaiting(p)) \in Nat
  BY <1>1, FS_CardinalityType
<1>3. Len(chan[p]) \in Nat /\ Len(toServer[p]) \in Nat /\ Len(toClient[p]) \in Nat
  <2>1. chan[p] \in Seq(Tasks) /\ toServer[p] \in Seq(Frames) /\ toClient[p] \in Seq(Replies)
    BY DEF IInv, TypeOK, FramesInv, Conns
  <2> QED
    BY <2>1, LenProperties
<1>4. ManagerLeft(manager[p]) \in Nat
  BY DEF ManagerLeft
<1>5. ProcessLeft(process[p]) \in Nat
  BY DEF ProcessLeft
<1>6. MainLeft(p) \in Nat
  <2>1. joined[p] \in Nat /\ joined[p] <= Len(TaskSeq[p]) /\ Len(TaskSeq[p]) \in Nat
    BY RedisActors DEF IInv, TypeOK
  <2> QED
    BY <2>1 DEF MainLeft
<1> QED
  BY <1>1, <1>2, <1>3, <1>4, <1>5, <1>6 DEF Parts

\* A step in which nothing grows.
LEMMA NothingGrows ==
  ASSUME IInv, IInv', NEW p \in Procs,
         Sending(p)' \subseteq Sending(p), Awaiting(p)' \subseteq Awaiting(p),
         Len(chan'[p]) <= Len(chan[p]), ManagerLeft(manager'[p]) <= ManagerLeft(manager[p]),
         Len(toServer'[p]) <= Len(toServer[p]), Len(toClient'[p]) <= Len(toClient[p]),
         ProcessLeft(process'[p]) <= ProcessLeft(process[p]), MainLeft(p)' <= MainLeft(p)
  PROVE  /\ ToDo(p)' <= ToDo(p)
         /\ \/ Sending(p)' # Sending(p) \/ Awaiting(p)' # Awaiting(p)
            \/ ManagerLeft(manager'[p]) < ManagerLeft(manager[p])
            \/ Len(toServer'[p]) < Len(toServer[p])
            \/ ProcessLeft(process'[p]) < ProcessLeft(process[p]) \/ MainLeft(p)' < MainLeft(p)
            => ToDo(p)' < ToDo(p)
<1>1. Parts(p) /\ Parts(p)'
  <2>1. Parts(p)
    BY PartsAreNumbers
  <2>2. IInv' => Parts(p)'
    BY PartsAreNumbers, PTL
  <2> QED
    BY <2>1, <2>2
<1>2. /\ Cardinality(Sending(p)') <= Cardinality(Sending(p))
      /\ Sending(p)' # Sending(p) => Cardinality(Sending(p)') # Cardinality(Sending(p))
  BY <1>1, FS_Subset DEF Parts
<1>3. /\ Cardinality(Awaiting(p)') <= Cardinality(Awaiting(p))
      /\ Awaiting(p)' # Awaiting(p) => Cardinality(Awaiting(p)') # Cardinality(Awaiting(p))
  BY <1>1, FS_Subset DEF Parts
<1> DEFINE a == Cardinality(Sending(p))       a2 == Cardinality(Sending(p))'
           b == Cardinality(Awaiting(p))      b2 == Cardinality(Awaiting(p))'
           c == Len(chan[p])                  c2 == Len(chan'[p])
           d == ManagerLeft(manager[p])       d2 == ManagerLeft(manager'[p])
           e == Len(toServer[p])              e2 == Len(toServer'[p])
           f == Len(toClient[p])              f2 == Len(toClient'[p])
           g == ProcessLeft(process[p])       g2 == ProcessLeft(process'[p])
           h == MainLeft(p)                   h2 == MainLeft(p)'
           differ == Sending(p)' # Sending(p) \/ Awaiting(p)' # Awaiting(p)
<1>4. /\ a \in Nat /\ b \in Nat /\ c \in Nat /\ d \in Nat /\ e \in Nat /\ f \in Nat /\ g \in Nat
      /\ h \in Nat
      /\ a2 \in Nat /\ b2 \in Nat /\ c2 \in Nat /\ d2 \in Nat /\ e2 \in Nat /\ f2 \in Nat /\ g2 \in Nat
      /\ h2 \in Nat
  BY <1>1 DEF Parts
<1>5. /\ a2 <= a /\ b2 <= b /\ c2 <= c /\ d2 <= d /\ e2 <= e /\ f2 <= f /\ g2 <= g /\ h2 <= h
      /\ differ => a2 # a \/ b2 # b
  BY <1>2, <1>3
<1>6. /\ ToDo(p) = Weight(a, b, c, d, e, f, g, h)
      /\ ToDo(p)' = Weight(a2, b2, c2, d2, e2, f2, g2, h2)
  BY DEF ToDo
<1> HIDE DEF a, b, c, d, e, f, g, h, a2, b2, c2, d2, e2, f2, g2, h2, differ
<1>7. /\ ToDo(p)' <= ToDo(p)
      /\ differ \/ d2 < d \/ e2 < e \/ g2 < g \/ h2 < h => ToDo(p)' < ToDo(p)
  BY <1>4, <1>5, <1>6 DEF Weight
<1> QED
  BY <1>7 DEF differ, d, d2, e, e2, g, g2, h, h2

\* The steps that move a command on: it is sent, received and written, executed, answered.
MovesOn(p) ==
  \/ /\ Cardinality(Sending(p))' = Cardinality(Sending(p)) - 1
     /\ Cardinality(Awaiting(p))' = Cardinality(Awaiting(p)) + 1
     /\ Len(chan'[p]) = Len(chan[p]) + 1
     /\ ManagerLeft(manager'[p]) = ManagerLeft(manager[p])
     /\ Len(toServer'[p]) = Len(toServer[p]) /\ Len(toClient'[p]) = Len(toClient[p])
     /\ ProcessLeft(process'[p]) = ProcessLeft(process[p])
  \/ /\ Cardinality(Sending(p))' = Cardinality(Sending(p))
     /\ Cardinality(Awaiting(p))' = Cardinality(Awaiting(p))
     /\ \/ /\ Len(chan'[p]) = Len(chan[p]) - 1
           /\ ManagerLeft(manager'[p]) = ManagerLeft(manager[p]) + 1
           /\ Len(toServer'[p]) <= Len(toServer[p]) + 1 /\ Len(toClient'[p]) = Len(toClient[p])
           /\ ProcessLeft(process'[p]) = ProcessLeft(process[p])
        \/ /\ Len(chan'[p]) = Len(chan[p])
           /\ ManagerLeft(manager'[p]) = ManagerLeft(manager[p])
           /\ Len(toServer'[p]) = Len(toServer[p]) - 1 /\ Len(toClient'[p]) = Len(toClient[p])
           /\ ProcessLeft(process'[p]) <= ProcessLeft(process[p]) + 2
        \/ /\ Len(chan'[p]) = Len(chan[p])
           /\ ManagerLeft(manager'[p]) = ManagerLeft(manager[p])
           /\ Len(toServer'[p]) = Len(toServer[p]) /\ Len(toClient'[p]) <= Len(toClient[p]) + 1
           /\ ProcessLeft(process'[p]) <= ProcessLeft(process[p]) - 2

LEMMA CommandMovesOn ==
  ASSUME IInv, IInv', NEW p \in Procs, MovesOn(p), MainLeft(p)' = MainLeft(p)
  PROVE  ToDo(p)' < ToDo(p)
<1>1. Parts(p) /\ Parts(p)'
  <2>1. Parts(p)
    BY PartsAreNumbers
  <2>2. IInv' => Parts(p)'
    BY PartsAreNumbers, PTL
  <2> QED
    BY <2>1, <2>2
<1> DEFINE a == Cardinality(Sending(p))       a2 == Cardinality(Sending(p))'
           b == Cardinality(Awaiting(p))      b2 == Cardinality(Awaiting(p))'
           c == Len(chan[p])                  c2 == Len(chan'[p])
           d == ManagerLeft(manager[p])       d2 == ManagerLeft(manager'[p])
           e == Len(toServer[p])              e2 == Len(toServer'[p])
           f == Len(toClient[p])              f2 == Len(toClient'[p])
           g == ProcessLeft(process[p])       g2 == ProcessLeft(process'[p])
           h == MainLeft(p)                   h2 == MainLeft(p)'
<1>2. /\ a \in Nat /\ b \in Nat /\ c \in Nat /\ d \in Nat /\ e \in Nat /\ f \in Nat /\ g \in Nat
      /\ h \in Nat
      /\ a2 \in Nat /\ b2 \in Nat /\ c2 \in Nat /\ d2 \in Nat /\ e2 \in Nat /\ f2 \in Nat /\ g2 \in Nat
      /\ h2 \in Nat
  BY <1>1 DEF Parts
<1>3. /\ \/ a2 = a - 1 /\ b2 = b + 1 /\ c2 = c + 1 /\ d2 = d /\ e2 = e /\ f2 = f /\ g2 = g
         \/ a2 = a /\ b2 = b /\ c2 = c - 1 /\ d2 = d + 1 /\ e2 <= e + 1 /\ f2 = f /\ g2 = g
         \/ a2 = a /\ b2 = b /\ c2 = c /\ d2 = d /\ e2 = e - 1 /\ f2 = f /\ g2 <= g + 2
         \/ a2 = a /\ b2 = b /\ c2 = c /\ d2 = d /\ e2 = e /\ f2 <= f + 1 /\ g2 <= g - 2
      /\ h2 = h
  BY DEF MovesOn
<1>4. /\ ToDo(p) = Weight(a, b, c, d, e, f, g, h)
      /\ ToDo(p)' = Weight(a2, b2, c2, d2, e2, f2, g2, h2)
  BY DEF ToDo
<1> HIDE DEF a, b, c, d, e, f, g, h, a2, b2, c2, d2, e2, f2, g2, h2
<1> QED
  BY <1>2, <1>3, <1>4 DEF Weight

LEMMA TaskStepLightens ==
  ASSUME IInv, IInv', NEW p \in Procs, NEW t \in TasksOf(p), TaskStep(t)
  PROVE  ToDo(p)' < ToDo(p)
<1>1. t \in Tasks /\ Owner(t) = p /\ \A s \in TasksOf(p) : s \in Tasks
  BY OwnerOfTask
<1>2. /\ chan \in [Procs -> Seq(Tasks)] /\ task \in [Tasks -> {"send", "await"} \cup Ended]
      /\ chan[p] \in Seq(Tasks)
  BY DEF IInv, TypeOK
<1>3. Parts(p)
  BY PartsAreNumbers
<1>4. CASE SendCommand(t)
  <2>1. /\ task[t] = "send" /\ chan' = [chan EXCEPT ![p] = Append(chan[p], t)]
        /\ task' = [task EXCEPT ![t] = "await"]
        /\ UNCHANGED <<main, joined, manager, toServer, toClient, process>>
    BY <1>1, <1>4 DEF SendCommand, netVars, serverVars
  <2>2. /\ Sending(p)' = Sending(p) \ {t} /\ t \in Sending(p)
        /\ Awaiting(p)' = Awaiting(p) \cup {t} /\ t \notin Awaiting(p)
    BY <1>1, <1>2, <2>1 DEF Sending, Awaiting
  <2>3. /\ Cardinality(Sending(p)') = Cardinality(Sending(p)) - 1
        /\ Cardinality(Awaiting(p)') = Cardinality(Awaiting(p)) + 1
    <3>1. IsFiniteSet(Sending(p)) /\ IsFiniteSet(Awaiting(p))
      BY <1>3 DEF Parts
    <3>2. Cardinality(Sending(p) \ {t}) = Cardinality(Sending(p)) - 1
      BY <2>2, <3>1, FS_RemoveElement
    <3>3. Cardinality(Awaiting(p) \cup {t}) = Cardinality(Awaiting(p)) + 1
      BY <2>2, <3>1, FS_AddElement
    <3> QED
      BY <2>2, <3>2, <3>3
  <2>4. Len(chan'[p]) = Len(chan[p]) + 1
    BY <1>2, <2>1, AppendProperties
  <2>5. MainLeft(p)' = MainLeft(p)
    BY <2>1 DEF MainLeft
  <2> QED
    BY <2>1, <2>3, <2>4, <2>5, CommandMovesOn DEF MovesOn
<1>5. CASE SendFails(t) \/ AwaitResponse(t)
  <2>1. /\ task[t] \in {"send", "await"}
        /\ \E e \in {"panicked", "done"} : task' = [task EXCEPT ![t] = e]
        /\ UNCHANGED <<chan, main, joined, manager, toServer, toClient, process>>
    BY <1>5 DEF SendFails, AwaitResponse, netVars, serverVars
  <2>2. /\ Sending(p)' = Sending(p) \ {t} /\ Awaiting(p)' = Awaiting(p) \ {t}
        /\ t \in Sending(p) \/ t \in Awaiting(p)
    BY <1>1, <1>2, <2>1 DEF Sending, Awaiting
  <2>3. /\ Sending(p)' \subseteq Sending(p) /\ Awaiting(p)' \subseteq Awaiting(p)
        /\ Sending(p)' # Sending(p) \/ Awaiting(p)' # Awaiting(p)
    BY <2>2
  <2>4. MainLeft(p)' = MainLeft(p)
    BY <2>1 DEF MainLeft
  <2>5. /\ Len(chan'[p]) <= Len(chan[p]) /\ ManagerLeft(manager'[p]) <= ManagerLeft(manager[p])
        /\ Len(toServer'[p]) <= Len(toServer[p]) /\ Len(toClient'[p]) <= Len(toClient[p])
        /\ ProcessLeft(process'[p]) <= ProcessLeft(process[p]) /\ MainLeft(p)' <= MainLeft(p)
    BY <1>3, <2>1, <2>4 DEF Parts
  <2> QED
    BY <2>3, <2>5, NothingGrows
<1> QED
  BY <1>4, <1>5 DEF TaskStep

LEMMA ManagerStepLightens ==
  ASSUME IInv, IInv', NEW p \in Procs, ManagerStep(p)
  PROVE  ToDo(p)' < ToDo(p)
<1>1. /\ chan \in [Procs -> Seq(Tasks)] /\ chan[p] \in Seq(Tasks) /\ p \in Conns
      /\ manager \in [Procs -> {"connect", "recv", "call"} \cup (Ended \ {"unsent"})]
      /\ toServer \in [Conns -> Seq(Frames)] /\ toServer[p] \in Seq(Frames)
      /\ toClient \in [Conns -> Seq(Replies)] /\ toClient[p] \in Seq(Replies)
      /\ \A t \in Tasks : req[t] \in Frames
  BY DEF IInv, TypeOK, FramesInv, Conns, Frames
<1>2. Parts(p)
  BY PartsAreNumbers
<1>3. UNCHANGED <<task, main, joined, process>>
  BY DEF ManagerStep, Connect, ConnectRefused, Recv, Respond, ChannelClosed, serverVars
<1>4. Sending(p)' = Sending(p) /\ Awaiting(p)' = Awaiting(p) /\ MainLeft(p)' = MainLeft(p)
  BY <1>3 DEF Sending, Awaiting, MainLeft
<1>5. CASE Recv(p)
  <2>1. /\ chan[p] # <<>> /\ chan'[p] = Tail(chan[p]) /\ manager[p] = "recv" /\ manager'[p] = "call"
        /\ toServer'[p] = toServer[p] \/ toServer'[p] = Append(toServer[p], req[Head(chan[p])])
        /\ toClient' = toClient
    BY <1>1, <1>5 DEF Recv
  <2>2. Len(chan'[p]) = Len(chan[p]) - 1 /\ Head(chan[p]) \in Tasks
    BY <1>1, <2>1, HeadTailProperties
  <2>3. Len(toServer'[p]) <= Len(toServer[p]) + 1
    <3>1. Len(Append(toServer[p], req[Head(chan[p])])) = Len(toServer[p]) + 1
      BY <1>1, <2>2, AppendProperties
    <3> QED
      BY <1>2, <2>1, <3>1 DEF Parts
  <2>4. ManagerLeft(manager'[p]) = ManagerLeft(manager[p]) + 1
    BY <2>1 DEF ManagerLeft
  <2> QED
    BY <1>3, <1>4, <2>1, <2>2, <2>3, <2>4, CommandMovesOn DEF MovesOn
<1>6. CASE ~Recv(p)
  <2>1. /\ \/ manager[p] = "connect" /\ manager'[p] \in {"recv", "panicked"}
           \/ manager[p] = "call" /\ manager'[p] = "recv"
           \/ manager[p] = "recv" /\ manager'[p] = "done"
        /\ chan'[p] = chan[p] \/ chan'[p] = <<>>
        /\ toServer' = toServer
        /\ toClient'[p] = toClient[p] \/ (toClient[p] # <<>> /\ toClient'[p] = Tail(toClient[p]))
    BY <1>1, <1>6 DEF ManagerStep, Connect, ConnectRefused, Respond, ChannelClosed, netVars
  <2>2. ManagerLeft(manager'[p]) < ManagerLeft(manager[p])
    BY <2>1 DEF ManagerLeft
  <2>3. Len(chan'[p]) <= Len(chan[p])
    BY <1>2, <2>1, EmptySeq DEF Parts
  <2>4. Len(toClient'[p]) <= Len(toClient[p])
    <3>1. Len(toClient[p]) \in Nat
      BY <1>2 DEF Parts
    <3>2. toClient[p] # <<>> => Len(Tail(toClient[p])) = Len(toClient[p]) - 1
      BY <1>1, HeadTailProperties
    <3>3. CASE toClient'[p] = toClient[p]
      BY <3>1, <3>3
    <3>4. CASE toClient[p] # <<>> /\ toClient'[p] = Tail(toClient[p])
      BY <3>1, <3>2, <3>4
    <3> QED
      BY <2>1, <3>3, <3>4
  <2>5. /\ ManagerLeft(manager'[p]) <= ManagerLeft(manager[p])
        /\ Len(toServer'[p]) <= Len(toServer[p])
        /\ ProcessLeft(process'[p]) <= ProcessLeft(process[p]) /\ MainLeft(p)' <= MainLeft(p)
        /\ Sending(p)' \subseteq Sending(p) /\ Awaiting(p)' \subseteq Awaiting(p)
    <3>1. ManagerLeft(manager'[p]) \in Nat
      BY DEF ManagerLeft
    <3> QED
      BY <1>2, <1>3, <1>4, <2>1, <2>2, <3>1 DEF Parts
  <2> QED
    BY <2>2, <2>3, <2>4, <2>5, NothingGrows
<1> QED
  BY <1>5, <1>6

LEMMA MainStepLightens ==
  ASSUME IInv, IInv', NEW p \in Procs, MainStep(p)
  PROVE  ToDo(p)' < ToDo(p)
<1>1. /\ main \in [Procs -> {"run", "done", "panicked"}] /\ task \in [Tasks -> {"send", "await"} \cup Ended]
      /\ manager \in [Procs -> {"connect", "recv", "call"} \cup (Ended \ {"unsent"})]
      /\ joined \in [Procs -> Nat] /\ Len(TaskSeq[p]) \in Nat /\ joined[p] \in Nat
  BY RedisActors DEF IInv, TypeOK
<1>2. Parts(p) /\ \A t \in TasksOf(p) : t \in Tasks
  BY PartsAreNumbers, OwnerOfTask
<1>3. UNCHANGED <<chan, toServer, toClient, process>>
  BY DEF MainStep, Await, AwaitPanics, netVars, serverVars
<1>4. MainLeft(p)' < MainLeft(p)
  <2>1. /\ main[p] = "run"
        /\ \/ main'[p] = "run" /\ joined'[p] = joined[p] + 1
           \/ main'[p] # "run" /\ joined'[p] = joined[p]
    BY <1>1 DEF MainStep, Await, AwaitPanics
  <2> QED
    BY <1>1, <2>1 DEF MainLeft
<1>5. Sending(p)' \subseteq Sending(p) /\ Awaiting(p)' \subseteq Awaiting(p)
  <2>1. \A t \in TasksOf(p) : task'[t] \in {"send", "await"} => task'[t] = task[t]
    BY <1>2 DEF MainStep, Await, AwaitPanics
  <2> QED
    BY <2>1 DEF Sending, Awaiting
<1>6. ManagerLeft(manager'[p]) <= ManagerLeft(manager[p])
  <2>1. manager'[p] = manager[p] \/ manager'[p] = "cancelled"
    BY <1>1 DEF MainStep, Await, AwaitPanics
  <2>2. ManagerLeft("cancelled") = 0
    BY DEF ManagerLeft
  <2> QED
    BY <1>2, <2>1, <2>2 DEF Parts
<1>7. /\ Len(chan'[p]) <= Len(chan[p])
      /\ Len(toServer'[p]) <= Len(toServer[p]) /\ Len(toClient'[p]) <= Len(toClient[p])
      /\ ProcessLeft(process'[p]) <= ProcessLeft(process[p])
  BY <1>2, <1>3 DEF Parts
<1>8. MainLeft(p)' <= MainLeft(p)
  <2>1. IInv' => Parts(p)'
    BY PartsAreNumbers, PTL
  <2>2. MainLeft(p)' \in Nat /\ MainLeft(p) \in Nat
    BY <1>2, <2>1 DEF Parts
  <2> QED
    BY <1>4, <2>2
<1> QED
  BY <1>4, <1>5, <1>6, <1>7, <1>8, NothingGrows

LEMMA ServerStepLightens ==
  ASSUME IInv, IInv', NEW p \in Procs, ServerStep(p)
  PROVE  ToDo(p)' < ToDo(p)
<1>1. /\ p \in Conns /\ process \in [Conns -> {"none", "read", "write", "ended"}]
      /\ toServer \in [Conns -> Seq(Frames)] /\ toServer[p] \in Seq(Frames)
      /\ toClient \in [Conns -> Seq(Replies)] /\ toClient[p] \in Seq(Replies)
  BY DEF IInv, TypeOK, FramesInv, Conns
<1>2. Parts(p)
  BY PartsAreNumbers
<1>3. UNCHANGED <<task, chan, main, joined, manager>>
  BY DEF ServerStep, Accept, Execute, Unimplemented, WriteFrame, EndOfStream, clientVars
<1>4. Sending(p)' = Sending(p) /\ Awaiting(p)' = Awaiting(p) /\ MainLeft(p)' = MainLeft(p)
  BY <1>3 DEF Sending, Awaiting, MainLeft
<1>5. CASE Execute(p)
  <2>1. /\ toServer[p] # <<>> /\ toServer'[p] = Tail(toServer[p]) /\ toClient' = toClient
        /\ process[p] = "read" /\ process'[p] = "write"
    BY <1>1, <1>5 DEF Execute
  <2>2. Len(toServer'[p]) = Len(toServer[p]) - 1
    BY <1>1, <2>1, HeadTailProperties
  <2>3. ProcessLeft(process'[p]) <= ProcessLeft(process[p]) + 2
    BY <2>1 DEF ProcessLeft
  <2> QED
    BY <1>3, <1>4, <2>1, <2>2, <2>3, CommandMovesOn DEF MovesOn
<1>6. CASE WriteFrame(p)
  <2>1. /\ process[p] = "write" /\ process'[p] \in {"read", "ended"} /\ toServer' = toServer
        /\ toClient'[p] = toClient[p] \/ toClient'[p] = Append(toClient[p], response[p])
    BY <1>1, <1>6 DEF WriteFrame
  <2>2. response[p] \in Replies
    <3>1. cur[p] # None /\ Executed(p)
      BY <1>1, <2>1 DEF IInv, ConnInv, Quiet, InFlight, Requested, Answered
    <3> QED
      BY <3>1 DEF Executed
  <2>3. Len(toClient'[p]) <= Len(toClient[p]) + 1
    <3>1. Len(Append(toClient[p], response[p])) = Len(toClient[p]) + 1
      BY <1>1, <2>2, AppendProperties
    <3> QED
      BY <1>2, <2>1, <3>1 DEF Parts
  <2>4. ProcessLeft(process'[p]) <= ProcessLeft(process[p]) - 2
    BY <2>1 DEF ProcessLeft
  <2> QED
    BY <1>3, <1>4, <2>1, <2>3, <2>4, CommandMovesOn DEF MovesOn
<1>7. CASE Accept(p) \/ Unimplemented(p) \/ EndOfStream(p)
  <2>1. /\ \/ process[p] = "none" /\ process'[p] = "read"
           \/ process[p] = "read" /\ process'[p] = "ended"
        /\ toServer'[p] = toServer[p] \/ (toServer[p] # <<>> /\ toServer'[p] = Tail(toServer[p]))
        /\ toClient' = toClient
    BY <1>1, <1>7 DEF Accept, Unimplemented, EndOfStream, netVars
  <2>2. ProcessLeft(process'[p]) < ProcessLeft(process[p])
        /\ ProcessLeft(process'[p]) <= ProcessLeft(process[p])
    BY <2>1 DEF ProcessLeft
  <2>3. Len(toServer'[p]) <= Len(toServer[p])
    <3>1. Len(toServer[p]) \in Nat
      BY <1>2 DEF Parts
    <3>2. toServer[p] # <<>> => Len(Tail(toServer[p])) = Len(toServer[p]) - 1
      BY <1>1, HeadTailProperties
    <3>3. CASE toServer'[p] = toServer[p]
      BY <3>1, <3>3
    <3>4. CASE toServer[p] # <<>> /\ toServer'[p] = Tail(toServer[p])
      BY <3>1, <3>2, <3>4
    <3> QED
      BY <2>1, <3>3, <3>4
  <2>4. /\ Len(chan'[p]) <= Len(chan[p]) /\ ManagerLeft(manager'[p]) <= ManagerLeft(manager[p])
        /\ Len(toClient'[p]) <= Len(toClient[p]) /\ MainLeft(p)' <= MainLeft(p)
        /\ Sending(p)' \subseteq Sending(p) /\ Awaiting(p)' \subseteq Awaiting(p)
    BY <1>2, <1>3, <1>4, <2>1 DEF Parts
  <2> QED
    BY <2>2, <2>3, <2>4, NothingGrows
<1> QED
  BY <1>5, <1>6, <1>7 DEF ServerStep

\* Another client's step, or that of another program, leaves what is this client's alone.
LEMMA OtherClientsLeaveAlone ==
  ASSUME IInv, NEW p \in Procs, ~StepFor(p),
         \/ \E t \in Tasks : TaskStep(t)
         \/ \E q \in Procs : ManagerStep(q) \/ MainStep(q)
  PROVE  ToDo(p)' = ToDo(p)
<1>1. /\ chan \in [Procs -> Seq(Tasks)] /\ main \in [Procs -> {"run", "done", "panicked"}]
      /\ task \in [Tasks -> {"send", "await"} \cup Ended] /\ joined \in [Procs -> Nat]
      /\ manager \in [Procs -> {"connect", "recv", "call"} \cup (Ended \ {"unsent"})]
      /\ toServer \in [Conns -> Seq(Frames)] /\ toClient \in [Conns -> Seq(Replies)]
      /\ p \in Conns
  BY DEF IInv, TypeOK, FramesInv, Conns
<1>2. \A s \in TasksOf(p) : s \in Tasks
  BY OwnerOfTask
<1>3. process' = process
  BY DEF TaskStep, SendCommand, SendFails, AwaitResponse, ManagerStep, Connect, ConnectRefused, Recv,
     Respond, ChannelClosed, MainStep, Await, AwaitPanics, serverVars
<1> DEFINE Same == /\ \A s \in TasksOf(p) : task'[s] = task[s]
                   /\ chan'[p] = chan[p] /\ manager'[p] = manager[p]
                   /\ main'[p] = main[p] /\ joined'[p] = joined[p]
                   /\ toServer'[p] = toServer[p] /\ toClient'[p] = toClient[p]
<1>4. Same
  <2>1. ASSUME NEW t \in Tasks, TaskStep(t) PROVE Same
    <3>1. Owner(t) \in Procs /\ Owner(t) # p /\ t \notin TasksOf(p)
      BY <2>1, OwnerOfTask DEF StepFor
    <3> QED
      BY <1>1, <1>2, <2>1, <3>1 DEF TaskStep, SendCommand, SendFails, AwaitResponse, netVars
  <2>2. ASSUME NEW q \in Procs \ {p}, ManagerStep(q) PROVE Same
    BY <1>1, <2>2 DEF ManagerStep, Connect, ConnectRefused, Recv, Respond, ChannelClosed, netVars
  <2>3. ASSUME NEW q \in Procs \ {p}, MainStep(q) PROVE Same
    <3>1. \A s \in TasksOf(p) : s \notin TasksOf(q)
      BY RedisTasks
    <3> QED
      BY <1>1, <1>2, <2>3, <3>1 DEF MainStep, Await, AwaitPanics, netVars
  <2> QED
    BY <2>1, <2>2, <2>3 DEF StepFor
<1>5. Sending(p)' = Sending(p) /\ Awaiting(p)' = Awaiting(p)
  BY <1>4 DEF Sending, Awaiting
<1>6. MainLeft(p)' = MainLeft(p)
  BY <1>4 DEF MainLeft
<1> QED
  BY <1>3, <1>4, <1>5, <1>6 DEF ToDo

\* The server's other tasks, other programs, the server's end and its return.
LEMMA OthersAddNothing ==
  ASSUME IInv, IInv', NEW p \in Procs,
         \/ \E c \in Strangers : StrangerSends(c) \/ StrangerLeaves(c)
         \/ \E c \in Conns \ {p} : ServerStep(c)
         \/ Crash \/ Restart \/ UNCHANGED vars
  PROVE  ToDo(p)' <= ToDo(p)
<1>1. /\ toServer \in [Conns -> Seq(Frames)] /\ toClient \in [Conns -> Seq(Replies)]
      /\ process \in [Conns -> {"none", "read", "write", "ended"}] /\ p \in Conns
      /\ p \notin Strangers
  BY RedisActors DEF IInv, TypeOK, FramesInv, Conns
<1>2. Parts(p)
  BY PartsAreNumbers
<1>3. UNCHANGED clientVars
  BY DEF StrangerSends, StrangerLeaves, ServerStep, Accept, Execute, Unimplemented, WriteFrame,
     EndOfStream, Crash, Restart, vars
<1>4. Sending(p)' = Sending(p) /\ Awaiting(p)' = Awaiting(p) /\ MainLeft(p)' = MainLeft(p)
  BY <1>3 DEF Sending, Awaiting, MainLeft, clientVars
<1>5. /\ toServer'[p] = toServer[p] \/ toServer'[p] = <<>>
      /\ toClient'[p] = toClient[p] \/ toClient'[p] = <<>>
      /\ process'[p] = process[p] \/ process'[p] = "ended"
  <2>1. CASE \E c \in Strangers : StrangerSends(c) \/ StrangerLeaves(c)
    BY <1>1, <2>1 DEF StrangerSends, StrangerLeaves, serverVars, Conns
  <2>2. CASE \E c \in Conns \ {p} : ServerStep(c)
    BY <1>1, <2>2 DEF ServerStep, Accept, Execute, Unimplemented, WriteFrame, EndOfStream, netVars
  <2>3. CASE Crash
    <3>1. link[p] = "none" => process[p] = "none"
      BY <1>1 DEF IInv, ConnInv
    <3> QED
      BY <1>1, <2>3, <3>1 DEF Crash
  <2>4. CASE Restart \/ UNCHANGED vars
    BY <2>4 DEF Restart, vars, netVars, serverVars
  <2> QED
    BY <2>1, <2>2, <2>3, <2>4
<1>6. /\ Len(toServer'[p]) <= Len(toServer[p]) /\ Len(toClient'[p]) <= Len(toClient[p])
      /\ Len(chan'[p]) <= Len(chan[p]) /\ ManagerLeft(manager'[p]) <= ManagerLeft(manager[p])
  <2>1. /\ Len(toServer[p]) \in Nat /\ Len(toClient[p]) \in Nat /\ Len(chan[p]) \in Nat
        /\ ManagerLeft(manager[p]) \in Nat
    BY <1>2 DEF Parts
  <2>2. Len(toServer'[p]) <= Len(toServer[p])
    BY <1>5, <2>1, EmptySeq
  <2>3. Len(toClient'[p]) <= Len(toClient[p])
    BY <1>5, <2>1, EmptySeq
  <2> QED
    BY <1>3, <2>1, <2>2, <2>3 DEF clientVars
<1>7. ProcessLeft(process'[p]) <= ProcessLeft(process[p])
  <2>1. ProcessLeft(process[p]) \in Nat /\ ProcessLeft("ended") = 0
    BY <1>2 DEF Parts, ProcessLeft
  <2> QED
    BY <1>5, <2>1
<1>8. MainLeft(p)' <= MainLeft(p) /\ Sending(p)' \subseteq Sending(p) /\ Awaiting(p)' \subseteq Awaiting(p)
  BY <1>2, <1>4 DEF Parts
<1> QED
  BY <1>6, <1>7, <1>8, NothingGrows

\* Each step of a client's tasks, of its manager, of its main() and of the server for it
\* brings the end of main() nearer, and no other program, no crash and no restart of the
\* server puts it off: a client takes boundedly many steps (client.rs:22-81).
THEOREM ClientsComeNearer ==
  Spec => /\ [](\A p \in Procs : ToDo(p) \in Nat)
          /\ [][\A p \in Procs : IF StepFor(p) THEN ToDo(p)' < ToDo(p) ELSE ToDo(p)' <= ToDo(p)]_vars
<1>1. IInv => \A p \in Procs : ToDo(p) \in Nat
  <2> SUFFICES ASSUME IInv, NEW p \in Procs PROVE ToDo(p) \in Nat
    OBVIOUS
  <2>1. \A a, b, c, d, e, f, g, h \in Nat : Weight(a, b, c, d, e, f, g, h) \in Nat
    BY DEF Weight
  <2>2. Parts(p)
    BY PartsAreNumbers
  <2> QED
    BY <2>1, <2>2 DEF Parts, ToDo
<1>2. IInv /\ IInv' /\ [Next]_vars =>
        [\A p \in Procs : IF StepFor(p) THEN ToDo(p)' < ToDo(p) ELSE ToDo(p)' <= ToDo(p)]_vars
  <2> SUFFICES ASSUME IInv, IInv', Next, NEW p \in Procs
               PROVE  IF StepFor(p) THEN ToDo(p)' < ToDo(p) ELSE ToDo(p)' <= ToDo(p)
    OBVIOUS
  <2>1. CASE StepFor(p)
    BY <2>1, TaskStepLightens, ManagerStepLightens, MainStepLightens, ServerStepLightens DEF StepFor
  <2>2. CASE ~StepFor(p)
    <3>1. CASE \/ \E t \in Tasks : TaskStep(t)
               \/ \E q \in Procs : ManagerStep(q) \/ MainStep(q)
      <4>1. ToDo(p)' = ToDo(p) /\ ToDo(p) \in Nat
        BY <1>1, <2>2, <3>1, OtherClientsLeaveAlone
      <4> QED
        BY <2>2, <4>1
    <3>2. CASE \/ \E c \in Strangers : StrangerSends(c) \/ StrangerLeaves(c)
               \/ \E c \in Conns : ServerStep(c)
               \/ Crash \/ Restart \/ UNCHANGED vars
      <4>1. ToDo(p)' <= ToDo(p)
        BY <2>2, <3>2, OthersAddNothing DEF StepFor
      <4> QED
        BY <2>2, <4>1
    <3> QED
      BY <3>1, <3>2 DEF Next, Finished
  <2> QED
    BY <2>1, <2>2
<1> QED
  BY <1>1, <1>2, Invariance, PTL DEF Spec

-----------------------------------------------------------------------------
\* The echo client.  The text that has been written, line by line.

\* Induction over the numbers, for a set of them.
LEMMA InductionOverNat ==
  ASSUME NEW S,
         \A n \in Nat : (\A m \in Nat : m < n => m \in S) => n \in S
  PROVE  \A n \in Nat : n \in S
<1> DEFINE R == {ss \in Nat \X Nat : ss[1] < ss[2]}
           T == {n \in Nat : n \notin S}
<1>1. IsWellFoundedOn(R, Nat)
  BY NatLessThanWellFounded DEF OpToRel
<1>2. \A y, z \in Nat : y < z => <<y, z>> \in R
  OBVIOUS
<1>3. ASSUME T # {} PROVE FALSE
  <2>1. T \in SUBSET Nat
    OBVIOUS
  <2>2. PICK x \in T : \A y \in T : ~(<<y, x>> \in R)
    <3> HIDE DEF R, T
    <3> QED
      BY <1>1, <1>3, <2>1, WFMin
  <2>3. \A m \in Nat : m < x => m \in S
    <3> SUFFICES ASSUME NEW m \in Nat, m < x, m \notin S PROVE FALSE
      OBVIOUS
    <3>1. m \in T /\ x \in Nat
      OBVIOUS
    <3>2. <<m, x>> \in R
      <4> HIDE DEF R
      <4> QED
        BY <1>2, <3>1
    <3> QED
      BY <2>2, <3>1, <3>2, Zenon
  <2> QED
    BY <2>3
<1> QED
  BY <1>3

\* What FlattenSeq says of the first k lines, given what it says of one line less.
TextStep(f, k) == IF k = 1 THEN Lines[1] ELSE f[k - 1] \o Lines[k]
Text(n) == CHOOSE f : f = [k \in 1..n |-> TextStep(f, k)]

LEMMA TextIs ==
  ASSUME NEW n \in Nat
  PROVE  Text(n) = [k \in 1..n |-> TextStep(Text(n), k)]
<1> DEFINE S == {m \in Nat : \E f : f = [k \in 1..m |-> TextStep(f, k)]}
<1>1. ASSUME NEW m \in Nat, \A l \in Nat : l < m => l \in S
      PROVE  \E f : f = [k \in 1..m |-> TextStep(f, k)]
  <2>1. CASE m = 0
    <3> DEFINE g == [k \in 1..m |-> <<>>]
    <3>1. g = [k \in 1..m |-> TextStep(g, k)]
      BY <2>1
    <3> QED
      BY <3>1
  <2>2. CASE m # 0
    <3>1. PICK f : f = [k \in 1..(m - 1) |-> TextStep(f, k)]
      <4>1. m - 1 \in S
        BY <1>1, <2>2
      <4> QED
        BY <4>1
    <3> DEFINE g == [k \in 1..m |-> IF k < m THEN f[k] ELSE TextStep(f, m)]
    <3>2. \A k \in 1..m : TextStep(g, k) = TextStep(f, k)
      <4> SUFFICES ASSUME NEW k \in 1..m, k # 1 PROVE g[k - 1] = f[k - 1]
        BY DEF TextStep
      <4>1. k - 1 \in 1..m /\ k - 1 < m
        OBVIOUS
      <4> QED
        BY <4>1
    <3>3. \A k \in 1..m : g[k] = TextStep(f, k)
      BY <3>1
    <3>4. g = [k \in 1..m |-> TextStep(g, k)]
      BY <3>2, <3>3
    <3> QED
      BY <3>4
  <2> QED
    BY <2>1, <2>2
<1>2. n \in S
  <2>1. \A m \in Nat : (\A l \in Nat : l < m => l \in S) => m \in S
    BY <1>1
  <2> HIDE DEF S
  <2> QED
    BY <2>1, InductionOverNat
<1>3. \E f : f = [k \in 1..n |-> TextStep(f, k)]
  BY <1>2
<1> QED
  BY <1>3 DEF Text

LEMMA LinesType ==
  /\ Len(Lines) \in Nat
  /\ \A k \in 1..Len(Lines) : Lines[k] \in Seq(Pieces)
BY LinesArePieces

\* The text of the first k lines does not depend on how many follow.
LEMMA TextAgrees ==
  ASSUME NEW m \in 0..Len(Lines), NEW n \in 0..Len(Lines), m <= n
  PROVE  \A k \in Nat : k \in 1..m => Text(m)[k] = Text(n)[k] /\ Text(m)[k] \in Seq(Pieces)
<1> USE LinesType
<1> DEFINE S == {k \in Nat : k \in 1..m => Text(m)[k] = Text(n)[k] /\ Text(m)[k] \in Seq(Pieces)}
<1>1. ASSUME NEW k \in Nat, \A l \in Nat : l < k => l \in S, k \in 1..m
      PROVE  Text(m)[k] = Text(n)[k] /\ Text(m)[k] \in Seq(Pieces)
  <2>1. Text(m)[k] = TextStep(Text(m), k) /\ Text(n)[k] = TextStep(Text(n), k)
    <3>1. k \in 1..n /\ m \in Nat /\ n \in Nat
      BY <1>1
    <3>2. Text(m) = [l \in 1..m |-> TextStep(Text(m), l)]
      BY <3>1, TextIs
    <3>3. Text(n) = [l \in 1..n |-> TextStep(Text(n), l)]
      BY <3>1, TextIs
    <3> HIDE DEF S
    <3>4. Text(m)[k] = TextStep(Text(m), k)
      BY <1>1, <3>2
    <3>5. Text(n)[k] = TextStep(Text(n), k)
      BY <3>1, <3>3
    <3> QED
      BY <3>4, <3>5
  <2>2. CASE k = 1
    BY <1>1, <2>1, <2>2 DEF TextStep
  <2>3. CASE k # 1
    <3>1. k - 1 \in S /\ k - 1 \in 1..m /\ k \in 1..Len(Lines)
      BY <1>1, <2>3
    <3>2. Text(m)[k - 1] = Text(n)[k - 1] /\ Text(m)[k - 1] \in Seq(Pieces)
      BY <3>1
    <3>3. Lines[k] \in Seq(Pieces)
      BY <3>1
    <3> HIDE DEF S
    <3> QED
      BY <2>1, <2>3, <3>2, <3>3, ConcatProperties DEF TextStep
  <2> QED
    BY <2>2, <2>3
<1>2. \A k \in Nat : (\A l \in Nat : l < k => l \in S) => k \in S
  BY <1>1
<1>3. \A k \in Nat : k \in S
  <2> HIDE DEF S
  <2> QED
    BY <1>2, InductionOverNat
<1> QED
  BY <1>3

\* What has been written after n lines.
Written(n) == FlattenSeq(SubSeq(Lines, 1, n))

LEMMA WrittenIs ==
  ASSUME NEW n \in 0..Len(Lines)
  PROVE  Written(n) = IF n = 0 THEN <<>> ELSE Text(n)[n]
<1> USE LinesType
<1> DEFINE s == SubSeq(Lines, 1, n)
<1>1. s \in Seq(Seq(Pieces)) /\ Len(s) = n /\ \A k \in 1..n : s[k] = Lines[k]
  BY LinesArePieces, SubSeqProperties
<1>2. n = 0 => s = <<>>
  BY <1>1
<1>3. Written(n) = FlattenSeq(s)
  BY DEF Written
<1> HIDE DEF s
<1>4. CASE n = 0
  BY <1>1, <1>2, <1>3, <1>4 DEF FlattenSeq
<1>5. CASE n # 0
  <2>1. \A f : [k \in 1..Len(s) |-> IF k = 1 THEN s[k] ELSE f[k - 1] \o s[k]]
             = [k \in 1..n |-> TextStep(f, k)]
    BY <1>1, <1>5 DEF TextStep
  <2>2. (CHOOSE f : f = [k \in 1..Len(s) |-> IF k = 1 THEN s[k] ELSE f[k - 1] \o s[k]])
          = Text(n)
    BY <2>1 DEF Text
  <2>3. FlattenSeq(s)
          = (CHOOSE f : f = [k \in 1..Len(s) |-> IF k = 1 THEN s[k] ELSE f[k - 1] \o s[k]])[Len(s)]
    BY <1>1, <1>5 DEF FlattenSeq
  <2> QED
    BY <1>1, <1>3, <1>5, <2>2, <2>3
<1> QED
  BY <1>4, <1>5

\* Each line follows what was written before it.
LEMMA WriteAppends ==
  /\ Written(0) = <<>> /\ Written(Len(Lines)) = All
  /\ \A n \in 0..Len(Lines) : Written(n) \in Seq(Pieces)
  /\ \A n \in 0..Len(Lines) : n < Len(Lines) =>
       n + 1 \in 0..Len(Lines) /\ Written(n + 1) = Written(n) \o Lines[n + 1]
<1> USE LinesType
<1>1. 0 \in 0..Len(Lines) /\ Len(Lines) \in 0..Len(Lines)
  OBVIOUS
<1>2. Written(0) = <<>>
  BY <1>1, WrittenIs
<1>3. SubSeq(Lines, 1, Len(Lines)) = Lines
  BY LinesArePieces, SubSeqFull
<1>4. ASSUME NEW n \in 0..Len(Lines) PROVE Written(n) \in Seq(Pieces)
  <2>1. CASE n = 0
    BY <1>2, <2>1, EmptySeq
  <2>2. CASE n # 0
    <3>1. n \in 1..n /\ n \in Nat
      BY <2>2
    <3>2. Text(n)[n] \in Seq(Pieces)
      BY <3>1, TextAgrees
    <3> QED
      BY <2>2, <3>2, WrittenIs
  <2> QED
    BY <2>1, <2>2
<1>5. ASSUME NEW n \in 0..Len(Lines), n < Len(Lines)
      PROVE  n + 1 \in 0..Len(Lines) /\ Written(n + 1) = Written(n) \o Lines[n + 1]
  <2>1. n + 1 \in 0..Len(Lines) /\ n + 1 \in 1..(n + 1) /\ n + 1 # 0
    BY <1>5
  <2>2. Written(n + 1) = TextStep(Text(n + 1), n + 1)
    <3>1. Written(n + 1) = Text(n + 1)[n + 1]
      BY <2>1, WrittenIs
    <3>2. Text(n + 1) = [k \in 1..(n + 1) |-> TextStep(Text(n + 1), k)]
      BY TextIs
    <3> QED
      BY <2>1, <3>1, <3>2
  <2>3. CASE n = 0
    <3>1. Lines[1] \in Seq(Pieces) /\ Written(n + 1) = Lines[1] /\ Written(n) = <<>>
      BY <1>2, <1>5, <2>2, <2>3 DEF TextStep
    <3> QED
      BY <2>1, <2>3, <3>1, ConcatEmptySeq
  <2>4. CASE n # 0
    <3>1. n \in 1..n /\ n <= n + 1 /\ n \in Nat
      BY <2>4
    <3>2. Text(n)[n] = Text(n + 1)[n]
      BY <2>1, <3>1, TextAgrees
    <3>3. Written(n) = Text(n)[n]
      BY <2>4, WrittenIs
    <3>4. Written(n + 1) = Text(n + 1)[n] \o Lines[n + 1]
      <4>1. n + 1 # 1 /\ (n + 1) - 1 = n
        BY <2>4
      <4> QED
        BY <2>2, <4>1 DEF TextStep
    <3> QED
      BY <2>1, <3>2, <3>3, <3>4
  <2> QED
    BY <2>3, <2>4
<1> QED
  BY <1>2, <1>3, <1>4, <1>5 DEF Written, All

-----------------------------------------------------------------------------
\* The text that is on its way.

LEMMA PrefixIs ==
  ASSUME NEW s \in Seq(Pieces), NEW t \in Seq(Pieces)
  PROVE  IsPrefix(s, t) <=> Len(s) <= Len(t) /\ \A k \in 1..Len(s) : s[k] = t[k]
<1>1. Len(s) \in Nat /\ Len(t) \in Nat
  OBVIOUS
<1>2. SubSeq(s, 1, Len(s)) = s
  BY SubSeqFull
<1>3. ASSUME Len(s) <= Len(t)
      PROVE  SubSeq(t, 1, Len(s)) = s <=> \A k \in 1..Len(s) : s[k] = t[k]
  <2> DEFINE u == SubSeq(t, 1, Len(s))
  <2>1. u \in Seq(Pieces) /\ Len(u) = Len(s) /\ \A k \in 1..Len(s) : u[k] = t[k]
    <3>1. \A k \in 1..Len(s) : t[k] \in Pieces
      BY <1>1, <1>3
    <3> QED
      BY <1>1, <1>3, <3>1, SubSeqProperties
  <2> HIDE DEF u
  <2>2. (\A k \in 1..Len(s) : s[k] = t[k]) => u = s
    BY <2>1, SeqEqual
  <2> QED
    BY <2>1, <2>2 DEF u
<1> QED
  BY <1>1, <1>2, <1>3 DEF IsPrefix

\* A prefix stays one when its end is cut off or the text goes on.
LEMMA PrefixKeeps ==
  ASSUME NEW s \in Seq(Pieces), NEW u \in Seq(Pieces), NEW t \in Seq(Pieces),
         NEW v \in Seq(Pieces), IsPrefix(s \o u, t)
  PROVE  IsPrefix(s, t \o v)
<1>1. /\ s \o u \in Seq(Pieces) /\ Len(s \o u) = Len(s) + Len(u)
      /\ \A k \in 1..Len(s) : (s \o u)[k] = s[k]
      /\ Len(s) \in Nat /\ Len(u) \in Nat /\ Len(t) \in Nat /\ Len(v) \in Nat
  BY ConcatProperties
<1>2. /\ t \o v \in Seq(Pieces) /\ Len(t \o v) = Len(t) + Len(v)
      /\ \A k \in 1..Len(t) : (t \o v)[k] = t[k]
  BY <1>1, ConcatProperties
<1>3. Len(s) + Len(u) <= Len(t) /\ \A k \in 1..(Len(s) + Len(u)) : (s \o u)[k] = t[k]
  <2> DEFINE w == s \o u
  <2>1. w \in Seq(Pieces) /\ IsPrefix(w, t) /\ Len(w) = Len(s) + Len(u)
    BY <1>1
  <2> HIDE DEF w
  <2>2. Len(w) <= Len(t) /\ \A k \in 1..Len(w) : w[k] = t[k]
    BY <2>1, PrefixIs
  <2> QED
    BY <2>1, <2>2 DEF w
<1>4. \A k \in 1..Len(s) : k \in 1..(Len(s) + Len(u)) /\ k \in 1..Len(t)
  BY <1>1, <1>3
<1>5. Len(s) <= Len(t \o v) /\ \A k \in 1..Len(s) : s[k] = (t \o v)[k]
  BY <1>1, <1>2, <1>3, <1>4
<1> QED
  BY <1>2, <1>5, PrefixIs

LEMMA Associative == \A s, t, u \in Seq(Pieces) : (s \o t) \o u = s \o (t \o u)
<1> SUFFICES ASSUME NEW s \in Seq(Pieces), NEW t \in Seq(Pieces), NEW u \in Seq(Pieces)
             PROVE  (s \o t) \o u = s \o (t \o u)
  OBVIOUS
<1> QED
  BY ConcatAssociative

LEMMA EqualIsPrefix ==
  ASSUME NEW s \in Seq(Pieces)
  PROVE  IsPrefix(s, s)
BY PrefixIs

\* To move pieces from the front of one sequence to the end of another changes nothing.
LEMMA Moved ==
  ASSUME NEW s \in Seq(Pieces), NEW t \in Seq(Pieces), NEW n \in 1..Len(t)
  PROVE  /\ s \o SubSeq(t, 1, n) \in Seq(Pieces) /\ SubSeq(t, n + 1, Len(t)) \in Seq(Pieces)
         /\ (s \o SubSeq(t, 1, n)) \o SubSeq(t, n + 1, Len(t)) = s \o t
<1> DEFINE a == SubSeq(t, 1, n)
           b == SubSeq(t, n + 1, Len(t))
<1>1. Len(t) \in Nat /\ \A k \in 1..Len(t) : t[k] \in Pieces
  OBVIOUS
<1>2. a \in Seq(Pieces) /\ Len(a) = n /\ \A k \in 1..n : a[k] = t[k]
  BY <1>1, SubSeqProperties
<1>3. /\ b \in Seq(Pieces) /\ Len(b) = Len(t) - n
      /\ \A k \in 1..(Len(t) - n) : b[k] = t[n + k]
  <2>1. \A k \in (n + 1)..Len(t) : t[k] \in Pieces
    BY <1>1
  <2>2. /\ b \in Seq(Pieces)
        /\ Len(b) = IF n + 1 <= Len(t) THEN Len(t) - (n + 1) + 1 ELSE 0
        /\ \A k \in 1..(Len(t) - (n + 1) + 1) : b[k] = t[n + 1 + k - 1]
    BY <1>1, <2>1, SubSeqProperties
  <2>3. Len(b) = Len(t) - n
    BY <1>1, <2>2
  <2>4. ASSUME NEW k \in 1..(Len(t) - n) PROVE b[k] = t[n + k]
    <3>1. k \in 1..(Len(t) - (n + 1) + 1) /\ n + 1 + k - 1 = n + k
      BY <1>1
    <3> QED
      BY <2>2, <3>1
  <2> QED
    BY <2>2, <2>3, <2>4
<1> HIDE DEF a, b
<1>4. a \o b = t
  <2>1. /\ a \o b \in Seq(Pieces) /\ Len(a \o b) = Len(a) + Len(b)
        /\ \A k \in 1..(Len(a) + Len(b)) : (a \o b)[k] = IF k <= Len(a) THEN a[k] ELSE b[k - Len(a)]
    BY <1>2, <1>3, ConcatProperties
  <2>2. Len(a \o b) = Len(t)
    BY <1>1, <1>2, <1>3, <2>1
  <2>3. \A k \in 1..Len(t) : (a \o b)[k] = t[k]
    <3> SUFFICES ASSUME NEW k \in 1..Len(t) PROVE (a \o b)[k] = t[k]
      OBVIOUS
    <3>1. CASE k <= n
      BY <1>1, <1>2, <1>3, <2>1, <3>1
    <3>2. CASE ~(k <= n)
      <4>1. k - n \in 1..(Len(t) - n) /\ n + (k - n) = k
        BY <1>1, <3>2
      <4>2. b[k - n] = t[k]
        BY <1>3, <4>1
      <4> QED
        BY <1>1, <1>2, <1>3, <2>1, <3>2, <4>2
    <3> QED
      BY <3>1, <3>2
  <2> QED
    BY <2>1, <2>2, <2>3, SeqEqual
<1>5. (s \o a) \o b = s \o (a \o b)
  BY <1>2, <1>3, Associative
<1>6. s \o a \in Seq(Pieces)
  BY <1>2, ConcatProperties
<1> QED
  BY <1>2, <1>3, <1>4, <1>5, <1>6 DEF a, b

-----------------------------------------------------------------------------
\* While the server lives nothing is lost; without a server there is no connection.
Way == got \o echoed \o sent
EchoIInv ==
  /\ EchoTypes
  /\ IsPrefix(Way, Written(written))
  /\ peer = "up" => Way = Written(written)
  /\ peer # "up" => sent = <<>>
  /\ rd = "connect" => wr = "none" /\ written = 0
  /\ wr = "ended" /\ peer = "up" => written = Len(Lines)
  /\ rd \in {"done", "failed"} => peer # "up"

LEMMA InitEchoIInv == EchoInit => EchoIInv
<1> SUFFICES ASSUME EchoInit PROVE EchoIInv
  OBVIOUS
<1>1. /\ rd = "connect" /\ wr = "none" /\ written = 0 /\ peer \in {"up", "down"}
      /\ sent = <<>> /\ echoed = <<>> /\ got = <<>>
  BY DEF EchoInit
<1>2. Way = <<>> /\ Written(written) = <<>> /\ <<>> \in Seq(Pieces)
  <2>1. <<>> \in Seq(Pieces)
    BY EmptySeq
  <2>2. <<>> \o <<>> = <<>>
    BY <2>1, ConcatEmptySeq
  <2> QED
    BY <1>1, <2>1, <2>2, WriteAppends DEF Way
<1>3. EchoTypes
  BY <1>1, <1>2, LinesType DEF EchoTypes
<1> QED
  BY <1>1, <1>2, <1>3, EqualIsPrefix DEF EchoIInv

LEMMA WayType ==
  ASSUME EchoTypes
  PROVE  /\ got \in Seq(Pieces) /\ echoed \in Seq(Pieces) /\ sent \in Seq(Pieces)
         /\ got \o echoed \in Seq(Pieces) /\ Way \in Seq(Pieces)
         /\ Way = got \o (echoed \o sent)
         /\ written \in 0..Len(Lines)
         /\ Written(written) \in Seq(Pieces)
<1>1. /\ got \in Seq(Pieces) /\ echoed \in Seq(Pieces) /\ sent \in Seq(Pieces)
      /\ written \in 0..Len(Lines)
  BY DEF EchoTypes
<1>2. got \o echoed \in Seq(Pieces)
  BY <1>1, ConcatProperties
<1>3. Way \in Seq(Pieces)
  BY <1>1, <1>2, ConcatProperties DEF Way
<1>4. Way = got \o (echoed \o sent)
  BY <1>1, Associative DEF Way
<1>5. Written(written) \in Seq(Pieces)
  BY <1>1, WriteAppends
<1> QED
  BY <1>1, <1>2, <1>3, <1>4, <1>5

LEMMA WriteKeeps == ASSUME EchoIInv, Write PROVE EchoIInv'
<1>1. /\ wr = "writing" /\ written < Len(Lines) /\ peer # "reset" /\ written' = written + 1
      /\ rd' = rd /\ wr' = wr /\ echoed' = echoed /\ got' = got
      /\ EchoTypes /\ rd # "connect"
  BY DEF Write, EchoIInv
<1>2. /\ written + 1 \in 0..Len(Lines) /\ Written(written + 1) = Written(written) \o Lines[written + 1]
      /\ Lines[written + 1] \in Seq(Pieces)
  <2>1. written \in 0..Len(Lines) /\ written + 1 \in 1..Len(Lines)
    BY <1>1, WayType, LinesType
  <2> QED
    BY <1>1, <2>1, WriteAppends, LinesType
<1>3. CASE peer = "up" /\ sent' = sent \o Lines[written + 1] /\ peer' = peer
  <2>1. Way' = Way \o Lines[written + 1] /\ sent' \in Seq(Pieces)
    <3>1. /\ sent \in Seq(Pieces) /\ got \o echoed \in Seq(Pieces)
          /\ Way = (got \o echoed) \o sent
      BY <1>1, WayType DEF Way
    <3>2. sent' \in Seq(Pieces)
      BY <1>2, <1>3, <3>1, ConcatProperties
    <3>3. Way' = (got \o echoed) \o (sent \o Lines[written + 1])
      BY <1>1, <1>3 DEF Way
    <3> QED
      BY <1>2, <3>1, <3>2, <3>3, Associative
  <2>2. Way' = Written(written)' /\ Way' \in Seq(Pieces)
    <3>1. Way = Written(written)
      BY <1>3 DEF EchoIInv
    <3>2. Written(written)' = Written(written + 1)
      BY <1>1 DEF Written
    <3> QED
      BY <1>1, <1>2, <2>1, <3>1, <3>2, WayType, ConcatProperties
  <2>3. IsPrefix(Way, Written(written))'
    BY <2>2, EqualIsPrefix
  <2>4. EchoTypes'
    BY <1>1, <1>2, <1>3, <2>1 DEF EchoTypes
  <2> QED
    BY <1>1, <1>3, <2>2, <2>3, <2>4 DEF EchoIInv
<1>4. CASE peer # "up" /\ peer' = "reset" /\ sent' = sent
  <2>1. Way' = Way
    BY <1>1, <1>4 DEF Way
  <2>2. IsPrefix(Way, Written(written + 1))
    <3>1. IsPrefix(Way \o <<>>, Written(written)) /\ <<>> \in Seq(Pieces)
      BY <1>1, WayType, ConcatEmptySeq, EmptySeq DEF EchoIInv
    <3> QED
      BY <1>1, <1>2, <3>1, WayType, PrefixKeeps
  <2>3. IsPrefix(Way, Written(written))'
    BY <1>1, <2>1, <2>2 DEF Written
  <2>4. EchoTypes'
    BY <1>1, <1>2, <1>4 DEF EchoTypes
  <2> QED
    BY <1>1, <1>4, <2>3, <2>4 DEF EchoIInv
<1> QED
  BY <1>1, <1>3, <1>4 DEF Write

LEMMA ReadKeeps == ASSUME EchoIInv, Read PROVE EchoIInv'
<1>1. /\ rd = "read" /\ UNCHANGED <<rd, written, wr, sent, peer>> /\ EchoTypes
      /\ \E n \in 1..Len(echoed) : /\ got' = got \o SubSeq(echoed, 1, n)
                                  /\ echoed' = SubSeq(echoed, n + 1, Len(echoed))
  BY DEF Read, PrintRead, EchoIInv
<1>2. PICK n \in 1..Len(echoed) : /\ got' = got \o SubSeq(echoed, 1, n)
                                  /\ echoed' = SubSeq(echoed, n + 1, Len(echoed))
  BY <1>1
<1>3. got' \in Seq(Pieces) /\ echoed' \in Seq(Pieces) /\ got' \o echoed' = got \o echoed
  BY <1>1, <1>2, WayType, Moved
<1>4. Way' = Way /\ Written(written)' = Written(written)
  BY <1>1, <1>3 DEF Way, Written
<1>5. EchoTypes'
  BY <1>1, <1>3 DEF EchoTypes
<1> QED
  BY <1>1, <1>4, <1>5 DEF EchoIInv

LEMMA EchoKeeps == ASSUME EchoIInv, Echo PROVE EchoIInv'
<1>1. /\ peer = "up" /\ UNCHANGED <<rd, written, wr, peer, got>> /\ EchoTypes
      /\ \E n \in 1..Len(sent) : /\ echoed' = echoed \o SubSeq(sent, 1, n)
                                /\ sent' = SubSeq(sent, n + 1, Len(sent))
  BY DEF Echo, EchoIInv
<1>2. PICK n \in 1..Len(sent) : /\ echoed' = echoed \o SubSeq(sent, 1, n)
                                /\ sent' = SubSeq(sent, n + 1, Len(sent))
  BY <1>1
<1>3. echoed' \in Seq(Pieces) /\ sent' \in Seq(Pieces) /\ echoed' \o sent' = echoed \o sent
  BY <1>1, <1>2, WayType, Moved
<1>4. EchoTypes'
  BY <1>1, <1>3 DEF EchoTypes
<1>5. Way' = Way /\ Written(written)' = Written(written)
  <2>1. Way' = got' \o (echoed' \o sent')
    <3>1. got' \in Seq(Pieces)
      BY <1>1, WayType
    <3> QED
      BY <1>3, <3>1, Associative DEF Way
  <2> QED
    BY <1>1, <1>3, <2>1, WayType DEF Written
<1> QED
  BY <1>1, <1>4, <1>5 DEF EchoIInv

LEMMA ServerEndsKeeps == ASSUME EchoIInv, ServerEnds PROVE EchoIInv'
<1>1. /\ peer = "up" /\ peer' \in {"down", "closed", "reset"} /\ sent' = <<>>
      /\ UNCHANGED <<rd, written, wr, echoed, got>> /\ EchoTypes
  BY DEF ServerEnds, EchoIInv
<1>2. <<>> \in Seq(Pieces)
  BY EmptySeq
<1>3. EchoTypes'
  BY <1>1, <1>2 DEF EchoTypes
<1>4. Way' = got \o echoed
  BY <1>1, WayType, ConcatEmptySeq DEF Way
<1>5. IsPrefix(got \o echoed, Written(written))
  <2>1. IsPrefix(got \o echoed, Written(written) \o <<>>)
    BY <1>1, <1>2, WayType, PrefixKeeps DEF EchoIInv, Way
  <2> QED
    BY <1>1, <2>1, WayType, ConcatEmptySeq
<1>6. IsPrefix(Way, Written(written))'
  BY <1>1, <1>4, <1>5 DEF Written
<1> QED
  BY <1>1, <1>3, <1>6 DEF EchoIInv

LEMMA OthersKeep ==
  ASSUME EchoIInv, ConnectEcho \/ TaskEnds \/ ReadEnds \/ UNCHANGED echoVars
  PROVE  EchoIInv'
<1>1. UNCHANGED <<written, sent, echoed, peer, got>>
  BY DEF ConnectEcho, TaskEnds, ReadEnds, echoVars
<1>2. EchoTypes'
  BY <1>1 DEF EchoIInv, EchoTypes, ConnectEcho, TaskEnds, ReadEnds, echoVars
<1>3. Way' = Way /\ Written(written)' = Written(written)
  BY <1>1 DEF Way, Written
<1> QED
  BY <1>1, <1>2, <1>3
     DEF EchoIInv, ConnectEcho, TaskEnds, ReadEnds, echoVars

LEMMA NextKeepsEchoIInv == EchoIInv /\ [EchoNext]_echoVars => EchoIInv'
BY WriteKeeps, ReadKeeps, EchoKeeps, ServerEndsKeeps, OthersKeep DEF EchoNext, Idle

LEMMA EchoInvariance == EchoSpec => []EchoIInv
BY InitEchoIInv, NextKeepsEchoIInv, PTL DEF EchoSpec

-----------------------------------------------------------------------------
\* For any lines, however TCP and the reads cut them and whenever the server is killed:
\* what main prints is the beginning of what the task writes, each piece once and in
\* order, and all of it once main waits for a server that waits for it
\* (echo-server-copy.rs:10-28).
THEOREM EchoedInOrder == EchoSpec => []EchoInOrder
<1>1. EchoIInv => EchoInOrder
  <2> SUFFICES ASSUME EchoIInv PROVE EchoInOrder
    OBVIOUS
  <2>1. EchoTypes /\ IsPrefix(got \o echoed \o sent, FlattenSeq(SubSeq(Lines, 1, written)))
    BY DEF EchoIInv, Way, Written
  <2>2. ASSUME Waiting PROVE got = All
    <3>1. /\ sent = <<>> /\ echoed = <<>> /\ written = Len(Lines)
          /\ Way = Written(written)
      BY <2>2 DEF Waiting, EchoIInv
    <3>2. Way = got
      BY <2>1, <3>1, WayType, ConcatEmptySeq DEF Way
    <3> QED
      BY <3>1, <3>2, WriteAppends
  <2> QED
    BY <2>1, <2>2 DEF EchoInOrder
<1> QED
  BY <1>1, EchoInvariance, PTL

-----------------------------------------------------------------------------
(***************************************************************************)
(* Progress of the echo client: the guards of the steps that are           *)
(* scheduled, and how far every piece has yet to go.                       *)
(***************************************************************************)
ReaderReady == rd = "read" /\ (echoed # <<>> \/ peer \in {"closed", "reset"})
EchoReady == peer = "up" /\ sent # <<>>
SomeoneReady == rd = "connect" \/ wr = "writing" \/ ReaderReady \/ EchoReady

\* A client that reads is connected, and its task was spawned.
ReadInv == rd = "read" => peer # "down" /\ wr # "none"

LEMMA ReadInvariance == EchoSpec => []ReadInv
<1>1. EchoInit => ReadInv
  BY DEF EchoInit, ReadInv
<1>2. ReadInv /\ [EchoNext]_echoVars => ReadInv'
  BY DEF ReadInv, EchoNext, ConnectEcho, Write, TaskEnds, Read, ReadEnds, Echo, ServerEnds, Idle, echoVars
<1> QED
  BY <1>1, <1>2, PTL DEF EchoSpec

\* Until everything has come back, or the server is gone and main has returned, one of
\* the two tasks or the server can take a step, however TCP and the reads cut the lines
\* (echo-server-copy.rs:5-30).
THEOREM EchoNeverStalls ==
  EchoSpec => [](rd \notin {"done", "failed"} /\ (got # All \/ peer # "up") => SomeoneReady)
<1>1. EchoIInv /\ EchoInOrder /\ ReadInv =>
        (rd \notin {"done", "failed"} /\ (got # All \/ peer # "up") => SomeoneReady)
  <2> SUFFICES ASSUME EchoIInv, EchoInOrder, ReadInv, rd \notin {"done", "failed"}, ~SomeoneReady,
                      got # All \/ peer # "up"
               PROVE  FALSE
    OBVIOUS
  <2>1. rd = "read" /\ wr = "ended"
    BY DEF EchoIInv, EchoTypes, SomeoneReady, ReadInv
  <2>2. peer = "up" /\ echoed = <<>>
    BY <2>1 DEF EchoIInv, EchoTypes, SomeoneReady, ReaderReady, ReadInv
  <2>3. sent = <<>>
    BY <2>2 DEF SomeoneReady, EchoReady
  <2>4. Waiting
    BY <2>1, <2>2, <2>3 DEF Waiting
  <2> QED
    BY <2>2, <2>4 DEF EchoInOrder
<1> QED
  BY <1>1, EchoInvariance, EchoedInOrder, ReadInvariance, PTL

\* Three moves for a piece that is not written, two for one that is sent, one for one
\* that is on its way back; and what the tasks do besides.
Moves(unwritten, there, back, lines, writer, reader) ==
  3 * unwritten + 2 * there + back + lines + writer + reader

WriterLeft == IF wr = "writing" THEN 1 ELSE 0
ReaderLeft == CASE rd = "connect" -> 3 [] rd = "read" -> 1 [] OTHER -> 0
MovesLeft ==
  Moves(Len(All) - Len(Written(written)), Len(sent), Len(echoed), Len(Lines) - written,
        WriterLeft, ReaderLeft)

LEMMA LineFollows ==
  ASSUME NEW n \in 0..Len(Lines), n < Len(Lines)
  PROVE  /\ Len(Written(n + 1)) = Len(Written(n)) + Len(Lines[n + 1])
         /\ Len(Written(n)) <= Len(Written(n + 1))
         /\ Lines[n + 1] \in Seq(Pieces) /\ Len(Lines[n + 1]) \in Nat \ {0}
<1>1. n + 1 \in 1..Len(Lines)
  BY LinesType
<1>2. Lines[n + 1] \in Seq(Pieces) /\ Lines[n + 1] # <<>>
  BY <1>1, LinesArePieces
<1>3. Len(Lines[n + 1]) \in Nat \ {0}
  BY <1>2, LenProperties, EmptySeq
<1>4. Written(n + 1) = Written(n) \o Lines[n + 1] /\ Written(n) \in Seq(Pieces)
  BY WriteAppends
<1>5. Len(Written(n) \o Lines[n + 1]) = Len(Written(n)) + Len(Lines[n + 1])
  BY <1>2, <1>4, ConcatProperties
<1>6. Len(Written(n)) \in Nat
  BY <1>4, LenProperties
<1> QED
  BY <1>2, <1>3, <1>4, <1>5, <1>6

LEMMA WrittenIsPart == \A n \in 0..Len(Lines) : Len(Written(n)) \in Nat /\ Len(Written(n)) <= Len(All)
<1> DEFINE S == {m \in Nat : m <= Len(Lines) => Len(Written(Len(Lines) - m)) <= Len(All)}
<1>1. \A n \in 0..Len(Lines) : Len(Written(n)) \in Nat
  BY WriteAppends, LenProperties
<1>2. ASSUME NEW m \in Nat, \A k \in Nat : k < m => k \in S PROVE m \in S
  <2> SUFFICES ASSUME m <= Len(Lines) PROVE Len(Written(Len(Lines) - m)) <= Len(All)
    OBVIOUS
  <2> DEFINE n == Len(Lines) - m
  <2>1. n \in 0..Len(Lines) /\ Len(All) \in Nat
    <3>1. Len(All) \in Nat
      BY WriteAppends, LenProperties, LinesType
    <3> QED
      BY <3>1, LinesType
  <2>2. CASE m = 0
    <3>1. n = Len(Lines)
      BY <2>2, LinesType
    <3> QED
      BY <2>1, <3>1, WriteAppends
  <2>3. CASE m # 0
    <3>1. m - 1 \in Nat /\ m - 1 < m /\ m - 1 <= Len(Lines) /\ Len(Lines) - (m - 1) = n + 1 /\ n < Len(Lines)
      BY <2>3, LinesType
    <3>2. Len(Written(n + 1)) <= Len(All)
      BY <1>2, <3>1
    <3> HIDE DEF n
    <3>3. Len(Written(n)) <= Len(Written(n + 1)) /\ n + 1 \in 0..Len(Lines)
      BY <2>1, <3>1, LineFollows, LinesType
    <3>4. Len(Written(n)) \in Nat /\ Len(Written(n + 1)) \in Nat
      BY <1>1, <2>1, <3>3
    <3>5. Len(Written(n)) <= Len(All)
      BY <2>1, <3>2, <3>3, <3>4
    <3> QED
      BY <3>5 DEF n
  <2> QED
    BY <2>2, <2>3
<1>3. \A m \in Nat : m \in S
  <2> HIDE DEF S
  <2> QED
    BY <1>2, InductionOverNat
<1>4. ASSUME NEW n \in 0..Len(Lines) PROVE Len(Written(n)) <= Len(All)
  <2>1. Len(Lines) - n \in Nat /\ Len(Lines) - n <= Len(Lines) /\ Len(Lines) - (Len(Lines) - n) = n
    BY LinesType
  <2> QED
    BY <1>3, <2>1
<1> QED
  BY <1>1, <1>4

\* What the steps do to the parts of the measure.
LEMMA MovesFall ==
  ASSUME NEW a \in Nat, NEW b \in Nat, NEW c \in Nat, NEW d \in Nat, NEW e \in Nat, NEW f \in Nat,
         NEW a2 \in Nat, NEW b2 \in Nat, NEW c2 \in Nat, NEW d2 \in Nat, NEW e2 \in Nat, NEW f2 \in Nat,
         \/ a2 = a /\ b2 = b /\ c2 = c /\ d2 = d /\ e2 <= e + 1 /\ f2 <= f - 2
         \/ a2 = a /\ b2 = b /\ c2 = c /\ d2 = d /\ e2 <= e /\ f2 <= f /\ e2 + f2 < e + f
         \/ a2 <= a /\ b2 - b <= a - a2 /\ c2 = c /\ d2 = d - 1 /\ e2 = e /\ f2 = f
         \/ a2 = a /\ b2 = b /\ c2 < c /\ d2 = d /\ e2 = e /\ f2 = f
         \/ a2 = a /\ b2 < b /\ c2 - c <= b - b2 /\ d2 = d /\ e2 = e /\ f2 = f
  PROVE  Moves(a2, b2, c2, d2, e2, f2) < Moves(a, b, c, d, e, f)
BY DEF Moves

EchoParts ==
  /\ Len(All) - Len(Written(written)) \in Nat /\ Len(sent) \in Nat /\ Len(echoed) \in Nat
  /\ Len(Lines) - written \in Nat /\ WriterLeft \in Nat /\ ReaderLeft \in Nat
  /\ MovesLeft \in Nat

LEMMA MovesAreNumbers == EchoTypes => EchoParts
<1> SUFFICES ASSUME EchoTypes PROVE EchoParts
  OBVIOUS
<1>1. written \in 0..Len(Lines) /\ sent \in Seq(Pieces) /\ echoed \in Seq(Pieces)
  BY DEF EchoTypes
<1>2. Len(Written(written)) \in Nat /\ Len(Written(written)) <= Len(All)
  BY <1>1, WrittenIsPart
<1>3. Len(All) \in Nat
  BY LinesType, WriteAppends, LenProperties
<1>4. WriterLeft \in Nat
  BY DEF WriterLeft
<1>5. ReaderLeft \in Nat
  BY DEF ReaderLeft
<1>6. Len(All) - Len(Written(written)) \in Nat
  BY <1>2, <1>3
<1>7. Len(sent) \in Nat /\ Len(echoed) \in Nat /\ Len(Lines) - written \in Nat
  BY <1>1, LinesType, LenProperties
<1>8. \A a, b, c, d, e, f \in Nat : Moves(a, b, c, d, e, f) \in Nat
  BY DEF Moves
<1> QED
  BY <1>4, <1>5, <1>6, <1>7, <1>8 DEF MovesLeft, EchoParts

LEMMA CutOff ==
  ASSUME NEW s \in Seq(Pieces), NEW n \in 1..Len(s)
  PROVE  /\ Len(SubSeq(s, 1, n)) = n /\ Len(SubSeq(s, n + 1, Len(s))) = Len(s) - n
         /\ SubSeq(s, 1, n) \in Seq(Pieces)
BY SubSeqProperties

LEMMA MovesLeftFalls ==
  ASSUME EchoIInv, EchoIInv', ConnectEcho \/ Write \/ TaskEnds \/ Read \/ ReadEnds \/ Echo
  PROVE  MovesLeft' < MovesLeft
<1> DEFINE a == Len(All) - Len(Written(written))  a2 == Len(All) - Len(Written(written'))
           b == Len(sent)                         b2 == Len(sent')
           c == Len(echoed)                       c2 == Len(echoed')
           d == Len(Lines) - written              d2 == Len(Lines) - written'
           e == WriterLeft                        e2 == WriterLeft'
           f == ReaderLeft                        f2 == ReaderLeft'
<1>1. /\ a \in Nat /\ b \in Nat /\ c \in Nat /\ d \in Nat /\ e \in Nat /\ f \in Nat
      /\ a2 \in Nat /\ b2 \in Nat /\ c2 \in Nat /\ d2 \in Nat /\ e2 \in Nat /\ f2 \in Nat
  <2>1. /\ a \in Nat /\ b \in Nat /\ c \in Nat /\ d \in Nat /\ e \in Nat /\ f \in Nat
    BY MovesAreNumbers DEF EchoIInv, EchoParts
  <2>2. EchoTypes' => EchoParts'
    BY MovesAreNumbers, PTL
  <2>3. /\ a2 \in Nat /\ b2 \in Nat /\ c2 \in Nat /\ d2 \in Nat /\ e2 \in Nat /\ f2 \in Nat
    BY <2>2 DEF EchoIInv, EchoParts
  <2> QED
    BY <2>1, <2>3
<1>2. MovesLeft = Moves(a, b, c, d, e, f) /\ MovesLeft' = Moves(a2, b2, c2, d2, e2, f2)
  BY DEF MovesLeft, Written
<1>3. /\ sent \in Seq(Pieces) /\ echoed \in Seq(Pieces) /\ written \in 0..Len(Lines)
  BY DEF EchoIInv, EchoTypes
<1>4. CASE ConnectEcho \/ TaskEnds \/ ReadEnds
  <2>1. UNCHANGED <<written, sent, echoed>>
    BY <1>4 DEF ConnectEcho, TaskEnds, ReadEnds
  <2>2. a2 = a /\ b2 = b /\ c2 = c /\ d2 = d
    BY <2>1
  <2>3. \/ f = 3 /\ f2 \in {0, 1} /\ e2 <= e + 1
        \/ f2 = f /\ e = 1 /\ e2 = 0
        \/ f = 1 /\ f2 = 0 /\ e2 = 0
    <3>1. CASE ConnectEcho
      BY <3>1 DEF ConnectEcho, WriterLeft, ReaderLeft
    <3>2. CASE TaskEnds
      BY <3>2 DEF TaskEnds, WriterLeft, ReaderLeft
    <3>3. CASE ReadEnds
      BY <3>3 DEF ReadEnds, WriterLeft, ReaderLeft
    <3> QED
      BY <1>4, <3>1, <3>2, <3>3
  <2> HIDE DEF a, b, c, d, e, f, a2, b2, c2, d2, e2, f2
  <2>4. \/ e2 <= e + 1 /\ f2 <= f - 2
        \/ e2 <= e /\ f2 <= f /\ e2 + f2 < e + f
    BY <1>1, <2>3
  <2> QED
    BY <1>1, <1>2, <2>2, <2>4, MovesFall
<1>5. CASE Write
  <2>1. /\ written < Len(Lines) /\ written' = written + 1 /\ echoed' = echoed /\ rd' = rd /\ wr' = wr
        /\ sent' = sent \o Lines[written + 1] \/ sent' = sent
    BY <1>5 DEF Write
  <2> DEFINE l == Len(Lines[written + 1])
  <2>2. /\ Len(Written(written')) = Len(Written(written)) + l /\ l \in Nat
        /\ Lines[written + 1] \in Seq(Pieces)
    BY <1>3, <2>1, LineFollows
  <2>3. Len(sent \o Lines[written + 1]) = b + l
    BY <1>3, <2>2, ConcatProperties
  <2>4. Len(All) \in Nat /\ Len(Written(written)) \in Nat /\ Len(Lines) \in Nat
    BY <1>3, LinesType, WriteAppends, WrittenIsPart, LenProperties
  <2>5. e2 = e /\ f2 = f /\ c2 = c
    BY <2>1 DEF WriterLeft, ReaderLeft
  <2>6. d2 = d - 1
    BY <1>3, <2>1, <2>4
  <2>7. a2 = a - l
    BY <2>2, <2>4
  <2>8. b2 = b + l \/ b2 = b
    BY <2>1, <2>3
  <2>9. l \in Nat
    BY <2>2
  <2> HIDE DEF a, b, c, d, e, f, a2, b2, c2, d2, e2, f2, l
  <2>10. a2 <= a /\ b2 - b <= a - a2
    BY <1>1, <2>7, <2>8, <2>9
  <2> QED
    BY <1>1, <1>2, <2>5, <2>6, <2>10, MovesFall
<1>6. CASE Read
  <2>1. /\ UNCHANGED <<written, wr, sent, rd>>
        /\ \E n \in 1..Len(echoed) : echoed' = SubSeq(echoed, n + 1, Len(echoed))
    BY <1>6 DEF Read
  <2>2. a2 = a /\ b2 = b /\ d2 = d /\ e2 = e /\ f2 = f
    BY <2>1 DEF WriterLeft, ReaderLeft
  <2>3. c2 < c
    <3>1. PICK n \in 1..Len(echoed) : echoed' = SubSeq(echoed, n + 1, Len(echoed))
      BY <2>1
    <3>2. c2 = c - n
      BY <1>3, <3>1, CutOff
    <3> QED
      BY <1>1, <3>2
  <2> HIDE DEF a, b, c, d, e, f, a2, b2, c2, d2, e2, f2
  <2> QED
    BY <1>1, <1>2, <2>2, <2>3, MovesFall
<1>7. CASE Echo
  <2>1. /\ UNCHANGED <<written, wr, rd>>
        /\ \E n \in 1..Len(sent) : /\ echoed' = echoed \o SubSeq(sent, 1, n)
                                   /\ sent' = SubSeq(sent, n + 1, Len(sent))
    BY <1>7 DEF Echo
  <2>2. a2 = a /\ d2 = d /\ e2 = e /\ f2 = f
    BY <2>1 DEF WriterLeft, ReaderLeft
  <2>3. \E n \in Nat \ {0} : b2 = b - n /\ c2 = c + n
    <3>1. PICK n \in 1..Len(sent) : /\ echoed' = echoed \o SubSeq(sent, 1, n)
                                    /\ sent' = SubSeq(sent, n + 1, Len(sent))
      BY <2>1
    <3>2. b2 = b - n
      BY <1>3, <3>1, CutOff
    <3>3. Len(SubSeq(sent, 1, n)) = n /\ SubSeq(sent, 1, n) \in Seq(Pieces)
      BY <1>3, CutOff
    <3>4. c2 = c + n
      BY <1>3, <3>1, <3>3, ConcatProperties
    <3>5. n \in Nat \ {0}
      OBVIOUS
    <3> QED
      BY <3>2, <3>4, <3>5
  <2> HIDE DEF a, b, c, d, e, f, a2, b2, c2, d2, e2, f2
  <2>4. b2 < b /\ c2 - c <= b - b2
    BY <1>1, <2>3
  <2> QED
    BY <1>1, <1>2, <2>2, <2>4, MovesFall
<1> QED
  BY <1>4, <1>5, <1>6, <1>7

\* Each step of the two tasks and of the server moves a piece on or ends a task, and the
\* end of the server adds nothing: the client makes boundedly many steps before everything
\* has come back or main has returned (echo-server-copy.rs:5-30).
THEOREM EchoComesNearer ==
  EchoSpec => /\ [](MovesLeft \in Nat)
              /\ [][IF ConnectEcho \/ Write \/ TaskEnds \/ Read \/ ReadEnds \/ Echo
                    THEN MovesLeft' < MovesLeft ELSE MovesLeft' <= MovesLeft]_echoVars
<1>1. EchoIInv => MovesLeft \in Nat
  BY MovesAreNumbers DEF EchoIInv, EchoParts
<1>2. EchoIInv /\ EchoIInv' /\ [EchoNext]_echoVars =>
        [IF ConnectEcho \/ Write \/ TaskEnds \/ Read \/ ReadEnds \/ Echo
         THEN MovesLeft' < MovesLeft ELSE MovesLeft' <= MovesLeft]_echoVars
  <2> SUFFICES ASSUME EchoIInv, EchoIInv', EchoNext,
                      ~(ConnectEcho \/ Write \/ TaskEnds \/ Read \/ ReadEnds \/ Echo)
               PROVE  MovesLeft' <= MovesLeft
    BY MovesLeftFalls
  <2>1. CASE Idle
    <3>1. MovesLeft' = MovesLeft
      BY <2>1 DEF Idle, echoVars, MovesLeft, Written, WriterLeft, ReaderLeft
    <3> QED
      BY <1>1, <3>1
  <2>2. CASE ServerEnds
    <3> DEFINE a == Len(All) - Len(Written(written))
               b == Len(sent)
               c == Len(echoed)
               d == Len(Lines) - written
               e == WriterLeft
               f == ReaderLeft
    <3>1. a \in Nat /\ b \in Nat /\ c \in Nat /\ d \in Nat /\ e \in Nat /\ f \in Nat
      BY MovesAreNumbers DEF EchoIInv, EchoParts
    <3>2. Len(sent') = 0
      BY <2>2, EmptySeq DEF ServerEnds
    <3>3. MovesLeft = Moves(a, b, c, d, e, f) /\ MovesLeft' = Moves(a, 0, c, d, e, f)
      BY <2>2, <3>2 DEF ServerEnds, MovesLeft, Written, WriterLeft, ReaderLeft
    <3> HIDE DEF a, b, c, d, e, f
    <3> QED
      BY <3>1, <3>3 DEF Moves
  <2> QED
    BY <2>1, <2>2 DEF EchoNext
<1> QED
  BY <1>1, <1>2, EchoInvariance, PTL DEF EchoSpec
=============================================================================

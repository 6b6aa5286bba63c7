----------------------------- MODULE ChatServer ----------------------------
(***************************************************************************)
(* CSocket/server/server.cpp: main accepts connections and starts one      *)
(* detached thread for each; the threads share the vector `clients`, which *)
(* they, but not main, touch under `mtx`.  A connection stands for its     *)
(* address and port too.  The clients are those of client.cpp: one request *)
(* at a time, DISCONNECT followed by close at once, or no DISCONNECT when  *)
(* the process is killed.                                                  *)
(***************************************************************************)
EXTENDS Integers, Sequences, SequencesExt

CONSTANTS
  Conns,         \* the connections clients make; also names their threads
  None,          \* no connection, no owner
  Targets,       \* the addresses they send messages to (listed or not)
  MaxRequests    \* bound on the requests of a connection

ASSUME ChatConns == None \notin Conns /\ IsFiniteSet(Conns) /\ Targets \subseteq Conns
ASSUME ChatBounds == MaxRequests \in Nat

VARIABLES
  fd,        \* the open descriptors, each with its connection
  clients,   \* the vector: descriptor and address of each client
  clntSock,  \* the variable of main whose address every thread gets
  accepted,  \* the connection main is dealing with
  mpc,       \* where main is
  mtx,       \* the thread that holds the mutex, or None
  tpc,       \* where the thread of each connection is
  connFd,    \* its conn_fd
  mes,       \* its mes_rec
  inbox,     \* what the kernel holds for the server, per connection
  sent, got, \* what the client of a connection sent and was sent
  peer,      \* its end: "none", "open", "closed", "reset"
  up,        \* the server process lives
  late,      \* history: main accepted before a new thread had read clntSock
  raced      \* a push_back has overlapped a critical section

mainVars == <<clntSock, accepted, mpc>>
history == <<late, raced>>
vars == <<fd, clients, clntSock, accepted, mpc, mtx, tpc, connFd, mes, inbox, sent, got,
          peer, up, late, raced>>

Fds == 1..Cardinality(Conns)
Byte(type) == [type |-> type]
Requests == {Byte("ask")} \cup [type : {"send"}, to : Targets]
Bye == Byte("disconnect")
Unset == Byte("uninitialised")
Zero == Byte("zero")     \* any type the switch has no case for

Init ==
  /\ fd = [f \in Fds |-> None] /\ clients = <<>>
  /\ clntSock = 0 /\ accepted = None /\ mpc = "accept" /\ mtx = None
  /\ tpc = [t \in Conns |-> "none"]
  /\ connFd = [t \in Conns |-> 0]
  /\ mes = [t \in Conns |-> Unset]
  /\ inbox = [c \in Conns |-> <<>>]
  /\ sent = [c \in Conns |-> <<>>] /\ got = [c \in Conns |-> <<>>]
  /\ peer = [c \in Conns |-> "none"]
  /\ up = TRUE /\ late = FALSE /\ raced = FALSE

-----------------------------------------------------------------------------
\* The clients (client.cpp), as far as the server can tell while it lives.

\* Where the answers are in what a client was sent.
RepliesIn(s) == {k \in DOMAIN s : s[k].kind \in {"ask", "send"}}
Waiting(c) == Cardinality(RepliesIn(got[c])) < Len(sent[c])

Connect(c) ==
  /\ up /\ peer[c] = "none"
  /\ peer' = [peer EXCEPT ![c] = "open"]
  /\ UNCHANGED <<fd, clients, mainVars, mtx, tpc, connFd, mes, inbox, sent, got, up, history>>

Request(c) ==
  /\ up /\ peer[c] = "open" /\ ~Waiting(c) /\ Len(sent[c]) < MaxRequests
  /\ \E r \in Requests :
       /\ sent' = [sent EXCEPT ![c] = Append(@, r)]
       /\ inbox' = [inbox EXCEPT ![c] = Append(@, r)]
  /\ UNCHANGED <<fd, clients, mainVars, mtx, tpc, connFd, mes, got, peer, up, history>>

Leave(c) ==
  /\ up /\ peer[c] = "open"
  /\ \/ ~Waiting(c) /\ inbox' = [inbox EXCEPT ![c] = Append(@, Bye)]
     \/ UNCHANGED inbox
  /\ peer' = [peer EXCEPT ![c] = "closed"]
  /\ UNCHANGED <<fd, clients, mainVars, mtx, tpc, connFd, mes, sent, got, up, history>>

-----------------------------------------------------------------------------
\* main

Backlog == {c \in Conns : peer[c] # "none" /\ tpc[c] = "none" /\ c \notin {fd[f] : f \in Fds}}
Starting == {t \in Conns : tpc[t] = "start"}

\* accept takes the lowest descriptor that is free.
Accept ==
  /\ up /\ mpc = "accept"
  /\ \E c \in Backlog, f \in Fds :
       /\ fd[f] = None /\ \A g \in Fds : g < f => fd[g] # None
       /\ fd' = [fd EXCEPT ![f] = c]
       /\ clntSock' = f /\ accepted' = c
  /\ mpc' = "push"
  /\ late' = (late \/ Starting # {})
  /\ UNCHANGED <<clients, mtx, tpc, connFd, mes, inbox, sent, got, peer, up, raced>>

\* push_back without the mutex: it may run while a thread in its critical section
\* walks the vector or erases from it.  Nothing can be said of the vector after that:
\* `clients` is kept no longer, and who reads it may find anything or crash.
Touching(t) == tpc[t] = "switch" /\ mes[t] \notin {Zero, Unset}
PushBack ==
  /\ up /\ mpc = "push" /\ mpc' = "create"
  /\ raced' = (raced \/ \E t \in Conns : Touching(t))
  /\ clients' = IF raced' THEN <<>>
                ELSE Append(clients, [sock |-> clntSock, addr |-> accepted])
  /\ UNCHANGED <<fd, clntSock, accepted, mtx, tpc, connFd, mes, inbox, sent, got, peer, up,
                 late>>

Crash ==
  /\ up /\ raced /\ (mpc = "push" \/ \E t \in Conns : Touching(t))
  /\ up' = FALSE
  /\ UNCHANGED <<fd, clients, mainVars, mtx, tpc, connFd, mes, inbox, sent, got, peer, history>>

CreateThread ==
  /\ up /\ mpc = "create" /\ mpc' = "accept"
  /\ tpc' = [tpc EXCEPT ![accepted] = "start"]
  /\ accepted' = None
  /\ UNCHANGED <<fd, clients, clntSock, mtx, connFd, mes, inbox, sent, got, peer, up, history>>

-----------------------------------------------------------------------------
\* thread_handle

Goto(t, from, to) == up /\ tpc[t] = from /\ tpc' = [tpc EXCEPT ![t] = to]

\* send(f, m) on the state s of the network: an error if f is not open; the first
\* send to a client that has closed is answered by a reset, the next is SIGPIPE.
Net == [got |-> got, peer |-> peer, up |-> up]
Send(s, f, m) ==
  LET c == fd[f] IN
  CASE c = None -> s
    [] c # None /\ s.peer[c] = "open" -> [s EXCEPT !.got[c] = Append(@, m)]
    [] c # None /\ s.peer[c] = "closed" -> [s EXCEPT !.peer[c] = "reset"]
    [] c # None /\ s.peer[c] = "reset" -> [s EXCEPT !.up = FALSE]
BecomeNet(s) == got' = s.got /\ peer' = s.peer /\ up' = s.up

\* int conn_fd = *(int *)cfd
ReadArgument(t) ==
  /\ Goto(t, "start", "hello")
  /\ connFd' = [connFd EXCEPT ![t] = clntSock]
  /\ UNCHANGED <<fd, clients, mainVars, mtx, mes, inbox, sent, got, peer, up, history>>

SayHello(t) ==
  /\ Goto(t, "hello", "recv")
  /\ BecomeNet(Send(Net, connFd[t], [kind |-> "hello"]))
  /\ UNCHANGED <<fd, clients, mainVars, mtx, connFd, mes, inbox, sent, history>>

\* recv: a request of one byte sets the lowest byte of mes_rec.type and leaves the
\* others, which nothing has set before the first memset; at the end of the stream
\* it returns 0 and leaves all of mes_rec.  (A descriptor that is not open gives
\* -1 and another turn of the loop, which changes nothing.)
Recv(t) ==
  /\ Goto(t, "recv", "lock")
  /\ LET c == fd[connFd[t]] IN
     /\ c # None
     /\ \/ /\ inbox[c] # <<>>
           /\ \/ mes' = [mes EXCEPT ![t] = Head(inbox[c])]
              \/ /\ mes[t] = Unset /\ Head(inbox[c]).type # "send"
                 /\ mes' = [mes EXCEPT ![t] = Zero]
           /\ inbox' = [inbox EXCEPT ![c] = Tail(@)]
        \/ /\ inbox[c] = <<>> /\ peer[c] # "open"
           /\ UNCHANGED <<mes, inbox>>
  /\ UNCHANGED <<fd, clients, mainVars, mtx, connFd, sent, got, peer, up, history>>

Lock(t) ==
  /\ Goto(t, "lock", "switch") /\ mtx = None
  /\ mtx' = t
  /\ UNCHANGED <<fd, clients, mainVars, connFd, mes, inbox, sent, got, peer, up, history>>

\* Three ways to get the case DISCONNECT wrong: the entry stays, the descriptor
\* stays open, and close(it->sock) after the erase, when `it` is the next entry.
DisconnectWithoutErase(t) ==
  /\ mes[t].type = "disconnect" /\ Goto(t, "switch", "leave")
  /\ fd' = [fd EXCEPT ![connFd[t]] = None]
  /\ UNCHANGED <<clients, mainVars, mtx, connFd, mes, inbox, sent, got, peer, up, history>>

DisconnectClosingNext(t) ==
  /\ mes[t].type = "disconnect" /\ Goto(t, "switch", "leave")
  /\ LET i == SelectInSeq(clients, LAMBDA e : e.sock = connFd[t])
         next == IF i \in 1..(Len(clients) - 1) THEN clients[i + 1].sock ELSE connFd[t]
     IN /\ clients' = IF i = 0 THEN clients ELSE RemoveAt(clients, i)
        /\ fd' = [fd EXCEPT ![next] = None]
  /\ UNCHANGED <<mainVars, mtx, connFd, mes, inbox, sent, got, peer, up, history>>

\* The first entry with the thread's descriptor goes, then the descriptor.
Disconnect(t) ==
  /\ mes[t].type = "disconnect" /\ Goto(t, "switch", "leave")
  /\ clients' = LET i == SelectInSeq(clients, LAMBDA e : e.sock = connFd[t])
                IN IF i = 0 THEN clients ELSE RemoveAt(clients, i)
  /\ fd' = [fd EXCEPT ![connFd[t]] = None]
  /\ UNCHANGED <<mainVars, mtx, connFd, mes, inbox, sent, got, peer, up, history>>

\* GET_TIME, GET_NAME and GET_CLIENT_LIST: one message back, whose text no
\* property reads.
Answer(t) ==
  /\ mes[t].type = "ask" /\ Goto(t, "switch", "unlock")
  /\ BecomeNet(Send(Net, connFd[t], [kind |-> "ask"]))
  /\ UNCHANGED <<fd, clients, mainVars, mtx, connFd, mes, inbox, sent, history>>

\* A REPOST to the descriptor f (0: to none), then the answer, whose text no property
\* reads either.
Repost(t, f) ==
  LET s == IF f = 0 THEN Net ELSE Send(Net, f, [kind |-> "repost", to |-> mes[t].to])
  IN BecomeNet(IF s.up THEN Send(s, connFd[t], [kind |-> "send"]) ELSE s)

\* The message is forwarded to the client that asked.
ForwardToSender(t) ==
  /\ mes[t].type = "send" /\ Goto(t, "switch", "unlock")
  /\ LET i == SelectInSeq(clients, LAMBDA e : e.addr = mes[t].to)
     IN Repost(t, IF i = 0 THEN 0 ELSE connFd[t])
  /\ UNCHANGED <<fd, clients, mainVars, mtx, connFd, mes, inbox, sent, history>>

\* SEND_MSG: to the first entry with the address; to anyone when the vector is undefined.
Forward(t) ==
  /\ mes[t].type = "send" /\ Goto(t, "switch", "unlock")
  /\ LET i == SelectInSeq(clients, LAMBDA e : e.addr = mes[t].to)
     IN \/ Repost(t, IF i = 0 THEN 0 ELSE clients[i].sock)
        \/ raced /\ \E f \in {0} \cup Fds : Repost(t, f)
  /\ UNCHANGED <<fd, clients, mainVars, mtx, connFd, mes, inbox, sent, history>>

\* No case of the switch.
Ignore(t) ==
  /\ mes[t] \in {Zero, Unset} /\ Goto(t, "switch", "unlock")
  /\ UNCHANGED <<fd, clients, mainVars, mtx, connFd, mes, inbox, sent, got, peer, up, history>>

\* The thread that ends keeps the mutex.
UnlockOnlyInLoop(t) ==
  /\ \/ Goto(t, "unlock", "recv") /\ mtx' = None
     \/ Goto(t, "leave", "gone") /\ UNCHANGED mtx
  /\ mes' = [mes EXCEPT ![t] = Zero]
  /\ UNCHANGED <<fd, clients, mainVars, connFd, inbox, sent, got, peer, up, history>>

\* memset, unlock, and the test of flag.
Unlock(t) ==
  /\ Goto(t, "unlock", "recv") \/ Goto(t, "leave", "gone")
  /\ mes' = [mes EXCEPT ![t] = Zero]
  /\ mtx' = None
  /\ UNCHANGED <<fd, clients, mainVars, connFd, inbox, sent, got, peer, up, history>>

-----------------------------------------------------------------------------
Main == Accept \/ PushBack \/ CreateThread
Switch(t) == Disconnect(t) \/ Answer(t) \/ Forward(t) \/ Ignore(t)
Thread(t) == ReadArgument(t) \/ SayHello(t) \/ Recv(t) \/ Lock(t) \/ Switch(t) \/ Unlock(t)
Client(c) == Connect(c) \/ Request(c) \/ Leave(c)

\* A server waits in accept and recv when no client has anything to say.
Quiet == UNCHANGED vars

Next == Main \/ Crash \/ (\E t \in Conns : Thread(t) \/ Client(t)) \/ Quiet

\* The threads of the server are scheduled.  The mutex promises no order: a thread gets
\* it when it is free for good, and may be passed over as long as others come back to
\* it.  The clients do as they please.
Spec == Init /\ [][Next]_vars /\ WF_vars(Main) /\ \A t \in Conns : WF_vars(Thread(t))

-----------------------------------------------------------------------------
\* Types.
Messages == [kind : {"hello", "ask", "send"}] \cup [kind : {"repost"}, to : Conns]
TypeOK ==
  /\ fd \in [Fds -> Conns \cup {None}]
  /\ clients \in Seq([sock : Fds, addr : Conns])
  /\ clntSock \in {0} \cup Fds
  /\ accepted \in Conns \cup {None}
  /\ mpc \in {"accept", "push", "create"}
  /\ mtx \in Conns \cup {None}
  /\ tpc \in [Conns -> {"none", "start", "hello", "recv", "lock", "switch", "unlock",
                        "leave", "gone"}]
  /\ connFd \in [Conns -> {0} \cup Fds]
  /\ mes \in [Conns -> Requests \cup {Bye, Unset, Zero}]
  /\ inbox \in [Conns -> Seq(Requests \cup {Bye})]
  /\ sent \in [Conns -> Seq(Requests)]
  /\ got \in [Conns -> Seq(Messages)]
  /\ peer \in [Conns -> {"none", "open", "closed", "reset"}]
  /\ up \in BOOLEAN /\ late \in BOOLEAN /\ raced \in BOOLEAN

\* A thread serves the connection it was started for (server.cpp:27, :175): not so in
\* the code.
Serving == {"hello", "recv", "lock", "switch", "unlock"}
OwnConnection == \A t \in Conns : tpc[t] \in Serving => fd[connFd[t]] = t

\* It does as long as main has never been back from accept before a new thread had
\* read its argument: nothing else mixes the connections up, whatever becomes of the
\* list, and though descriptors are reused.
OwnUnlessLate == ~late => OwnConnection

\* Types, and until main and a thread have touched the vector at once: a listed
\* client's descriptor is open and is that of its address.  Once a thread has ended its
\* client is neither listed nor connected, whatever the others did meanwhile.
Listed(e) == fd[e.sock] = e.addr /\ tpc[e.addr] # "gone"
ListedAreOpen ==
  /\ TypeOK
  /\ ~late /\ ~raced => \A i \in DOMAIN clients : Listed(clients[i])
  /\ ~late => \A f \in Fds : fd[f] # None => tpc[fd[f]] # "gone"

\* A client sees the answers to its own requests, in order, no more of them than it
\* made; and of the messages that are passed on only those addressed to it, until main
\* and a thread have touched the vector at once.
Answers(s, requests) == \A k \in RepliesIn(s) :
  LET n == Cardinality({i \in RepliesIn(s) : i <= k})
  IN n <= Len(requests) /\ s[k].kind = requests[n].type
Reposts(c) == \A i \in DOMAIN got[c] : got[c][i].kind = "repost" => got[c][i].to = c
AnswersMatch == ~late => \A c \in Conns :
  Answers(got[c], sent[c]) /\ (raced \/ Reposts(c))

\* The thread of a client that vanished without a DISCONNECT reads the end of the
\* stream for ever, and takes the mutex every time.
Turning(t) == tpc[t] \in Serving /\ inbox[t] = <<>> /\ peer[t] # "open" /\ mes[t] # Bye

\* A client that waits for an answer gets it, unless the server dies, the client leaves
\* or a vanished client's thread keeps taking the mutex.  A first request of one byte
\* is left out: its type may have garbage in the upper bytes, and no answer comes.
FirstIsWhole(c) == Len(sent[c]) > 1 \/ (sent[c] # <<>> /\ sent[c][1].type = "send")
RequestsAnswered == \A c \in Conns :
  (FirstIsWhole(c) /\ Waiting(c))
    ~> (~Waiting(c) \/ peer[c] # "open" \/ ~up \/ late \/ \E t \in Conns : Turning(t))
=============================================================================

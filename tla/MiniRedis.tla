------------------------------ MODULE MiniRedis -----------------------------
(***************************************************************************)
(* my_redis: processes of client.rs, each with tasks that pass commands    *)
(* through a bounded channel to a manager task that owns the connection,   *)
(* and server.rs, which runs one task per connection on a map in memory.   *)
(* Other programs (redis-cli) connect too.  tokio and mini_redis are       *)
(* modelled by what client.rs and server.rs use of them.                   *)
(***************************************************************************)
EXTENDS Integers, Sequences

CONSTANTS
  Procs,       \* processes of client.rs
  TaskSeq,     \* the tasks of each, in the order main awaits them
  Strangers,   \* connections of other programs, one frame each
  Keys, Values,
  Capacity,    \* of the channel (32 in the code)
  MaxCrashes,  \* bound on the crashes of the server
  None, Nil, Error

TasksOf(p) == {TaskSeq[p][i] : i \in DOMAIN TaskSeq[p]}
Tasks == UNION {TasksOf(p) : p \in Procs}
Conns == Procs \cup Strangers
Sessions == Tasks \cup Strangers
Replies == Values \cup {Nil, "OK"}

ASSUME RedisActors ==
  /\ TaskSeq \in [Procs -> Seq(Tasks)] /\ None \notin Sessions
  /\ Procs \cap Strangers = {} /\ Tasks \cap Strangers = {}
\* A task is spawned by one process.
ASSUME RedisTasks == \A p, q \in Procs : TasksOf(p) \cap TasksOf(q) # {} => p = q
ASSUME RedisResults == {None, Error, "open", "dropped"} \cap Replies = {}
                       /\ Error \notin {None, "open", "dropped"}
ASSUME RedisBounds == Capacity \in Nat \ {0} /\ MaxCrashes \in Nat

VARIABLES
  req,       \* the frame of each task and stranger
  task,      \* where each task is
  oneshot,   \* the response channel of its command: "open", "dropped" or a result
  result,    \* what the task prints, or None
  main,      \* where main is: "run", "done" or "panicked"
  joined,    \* how many of the tasks it has awaited
  chan,      \* the mpsc channel: tasks whose command is in it
  manager,   \* where the manager is
  cur,       \* the task whose command it is executing
  link,      \* a connection: "none", "open" or "closed"
  toServer, toClient,  \* the frames in flight
  process,   \* where the server's task for a connection is
  response,  \* the frame it is about to write
  db, up, crashes,     \* the server's map, whether it runs
  reply      \* history: the reply computed for each frame, or None

clientVars == <<task, oneshot, result, main, joined, chan, manager, cur>>
netVars == <<link, toServer, toClient>>
serverVars == <<process, response, db, up, crashes, reply>>
vars == <<req, clientVars, netVars, serverVars>>

\* What a session has called and been told: its command is sent, its response printed.
Called == [s \in Sessions |->
             IF s \in Tasks
             THEN IF task[s] \in {"send", "panicked", "unsent"} THEN None ELSE req[s]
             ELSE IF link[s] = "none" \/ req[s].op = "other" THEN None ELSE req[s]]
Told == [s \in Sessions |-> IF s \in Tasks THEN result[s] ELSE None]

KV == INSTANCE KeyValueStore WITH store <- db, call <- Called, result <- Told

ASSUME RedisFrames == None \notin KV!Requests

Owner(t) == CHOOSE p \in Procs : t \in TasksOf(p)
Sender(c) == IF c \in Procs THEN cur[c] ELSE c
Ended == {"done", "panicked", "cancelled", "unsent"}

Init ==
  /\ req \in {f \in [Sessions -> KV!Requests \cup {[op |-> "other"]}] :
                \A t \in Tasks : f[t].op # "other"}
  /\ task = [t \in Tasks |-> "send"]
  /\ oneshot = [t \in Tasks |-> "open"]
  /\ result = [t \in Tasks |-> None]
  /\ main = [p \in Procs |-> "run"] /\ joined = [p \in Procs |-> 0]
  /\ chan = [p \in Procs |-> <<>>]
  /\ manager = [p \in Procs |-> "connect"]
  /\ cur = [p \in Procs |-> None]
  /\ link = [c \in Conns |-> "none"]
  /\ toServer = [c \in Conns |-> <<>>] /\ toClient = [c \in Conns |-> <<>>]
  /\ process = [c \in Conns |-> "none"]
  /\ response = [c \in Conns |-> None]
  /\ db = KV!Empty /\ up = TRUE /\ crashes = 0
  /\ reply = [s \in Sessions |-> None]

-----------------------------------------------------------------------------
\* The tasks of client.rs.

\* A channel without a bound.
SendUnbounded(t) ==
  LET p == Owner(t) IN
  /\ task[t] = "send" /\ manager[p] \notin Ended
  /\ chan' = [chan EXCEPT ![p] = Append(@, t)]
  /\ task' = [task EXCEPT ![t] = "await"]
  /\ UNCHANGED <<req, oneshot, result, main, joined, manager, cur, netVars, serverVars>>

\* tx.send(cmd).await waits for room; it fails when the manager has ended.
SendCommand(t) ==
  LET p == Owner(t) IN
  /\ task[t] = "send" /\ manager[p] \notin Ended /\ Len(chan[p]) < Capacity
  /\ chan' = [chan EXCEPT ![p] = Append(@, t)]
  /\ task' = [task EXCEPT ![t] = "await"]
  /\ UNCHANGED <<req, oneshot, result, main, joined, manager, cur, netVars, serverVars>>

SendFails(t) ==
  /\ task[t] = "send" /\ manager[Owner(t)] \in Ended
  /\ task' = [task EXCEPT ![t] = "panicked"]
  /\ UNCHANGED <<req, oneshot, result, main, joined, chan, manager, cur, netVars, serverVars>>

AwaitResponse(t) ==
  /\ task[t] = "await" /\ oneshot[t] # "open"
  /\ result' = [result EXCEPT ![t] = IF oneshot[t] = "dropped" THEN Error ELSE oneshot[t]]
  /\ task' = [task EXCEPT ![t] = "done"]
  /\ UNCHANGED <<req, oneshot, main, joined, chan, manager, cur, netVars, serverVars>>

-----------------------------------------------------------------------------
\* The manager.

Connect(p) ==
  /\ manager[p] = "connect" /\ up
  /\ manager' = [manager EXCEPT ![p] = "recv"]
  /\ link' = [link EXCEPT ![p] = "open"]
  /\ UNCHANGED <<req, task, oneshot, result, main, joined, chan, cur, toServer, toClient, serverVars>>

\* connect(..).await.unwrap(): the panic drops the receiver and the commands in it.
ConnectRefused(p) ==
  /\ manager[p] = "connect" /\ ~up
  /\ manager' = [manager EXCEPT ![p] = "panicked"]
  /\ oneshot' = [t \in Tasks |-> IF \E i \in DOMAIN chan[p] : chan[p][i] = t
                                 THEN "dropped" ELSE oneshot[t]]
  /\ chan' = [chan EXCEPT ![p] = <<>>]
  /\ UNCHANGED <<req, task, result, main, joined, cur, netVars, serverVars>>

\* rx.recv() and the frame that client.get or client.set writes.
Recv(p) ==
  /\ manager[p] = "recv" /\ chan[p] # <<>>
  /\ cur' = [cur EXCEPT ![p] = Head(chan[p])]
  /\ chan' = [chan EXCEPT ![p] = Tail(@)]
  /\ manager' = [manager EXCEPT ![p] = "call"]
  /\ toServer' = IF link[p] = "open"
                 THEN [toServer EXCEPT ![p] = Append(@, req[Head(chan[p])])] ELSE toServer
  /\ UNCHANGED <<req, task, oneshot, result, main, joined, link, toClient, serverVars>>

\* resp.send(res), of the frame that came back or of the error.
Respond(p) ==
  /\ manager[p] = "call"
  /\ \/ /\ toClient[p] # <<>>
        /\ oneshot' = [oneshot EXCEPT ![cur[p]] = Head(toClient[p])]
        /\ toClient' = [toClient EXCEPT ![p] = Tail(@)]
     \/ /\ toClient[p] = <<>> /\ link[p] = "closed"
        /\ oneshot' = [oneshot EXCEPT ![cur[p]] = Error]
        /\ UNCHANGED toClient
  /\ manager' = [manager EXCEPT ![p] = "recv"]
  /\ cur' = [cur EXCEPT ![p] = None]
  /\ UNCHANGED <<req, task, result, main, joined, chan, link, toServer, serverVars>>

\* main keeps a sender: the tasks have clones of it.
ChannelClosedAfterMain(p) ==
  /\ manager[p] = "recv" /\ chan[p] = <<>> /\ main[p] \in Ended
  /\ \A t \in TasksOf(p) : task[t] \in Ended
  /\ manager' = [manager EXCEPT ![p] = "done"]
  /\ link' = [link EXCEPT ![p] = "closed"]
  /\ UNCHANGED <<req, task, oneshot, result, main, joined, chan, cur, toServer, toClient, serverVars>>

\* recv gives None when every task has dropped its sender; the connection goes.
ChannelClosed(p) ==
  /\ manager[p] = "recv" /\ chan[p] = <<>> /\ \A t \in TasksOf(p) : task[t] \in Ended
  /\ manager' = [manager EXCEPT ![p] = "done"]
  /\ link' = [link EXCEPT ![p] = "closed"]
  /\ UNCHANGED <<req, task, oneshot, result, main, joined, chan, cur, toServer, toClient, serverVars>>

\* main awaits each task in turn, then the manager; unwrap panics if it did.
Joined(p) ==
  IF joined[p] < Len(TaskSeq[p]) THEN task[TaskSeq[p][joined[p] + 1]] ELSE manager[p]

Await(p) ==
  /\ main[p] = "run" /\ Joined(p) = "done"
  /\ IF joined[p] = Len(TaskSeq[p])
     THEN main' = [main EXCEPT ![p] = "done"] /\ UNCHANGED joined
     ELSE joined' = [joined EXCEPT ![p] = @ + 1] /\ UNCHANGED main
  /\ UNCHANGED <<req, task, oneshot, result, chan, manager, cur, netVars, serverVars>>

\* The runtime ends with main and takes every other task along, one that waits for
\* room in the channel with its command unsent.
AwaitPanics(p) ==
  /\ main[p] = "run" /\ Joined(p) = "panicked"
  /\ main' = [main EXCEPT ![p] = "panicked"]
  /\ task' = [t \in Tasks |-> IF t \in TasksOf(p) /\ task[t] \notin Ended
                              THEN IF task[t] = "send" THEN "unsent" ELSE "cancelled"
                              ELSE task[t]]
  /\ manager' = [manager EXCEPT ![p] = IF @ \in Ended THEN @ ELSE "cancelled"]
  /\ link' = [link EXCEPT ![p] = IF @ = "open" THEN "closed" ELSE @]
  /\ UNCHANGED <<req, oneshot, result, joined, chan, cur, toServer, toClient, serverVars>>

-----------------------------------------------------------------------------
\* Another program.

StrangerSends(c) ==
  /\ link[c] = "none" /\ up
  /\ link' = [link EXCEPT ![c] = "open"]
  /\ toServer' = [toServer EXCEPT ![c] = <<req[c]>>]
  /\ UNCHANGED <<req, clientVars, toClient, serverVars>>

StrangerLeaves(c) ==
  /\ link[c] = "open"
  /\ link' = [link EXCEPT ![c] = "closed"]
  /\ UNCHANGED <<req, clientVars, toServer, toClient, serverVars>>

-----------------------------------------------------------------------------
\* server.rs

Accept(c) ==
  /\ up /\ link[c] # "none" /\ process[c] = "none"
  /\ process' = [process EXCEPT ![c] = "read"]
  /\ UNCHANGED <<req, clientVars, netVars, response, db, up, crashes, reply>>

\* process gets a clone of the map, not of the Arc.
ExecuteOnClone(c) ==
  /\ up /\ process[c] = "read" /\ toServer[c] # <<>> /\ Head(toServer[c]).op # "other"
  /\ toServer' = [toServer EXCEPT ![c] = Tail(@)]
  /\ response' = [response EXCEPT ![c] = KV!ReplyTo(Head(toServer[c]), db)]
  /\ reply' = [reply EXCEPT ![Sender(c)] = KV!ReplyTo(Head(toServer[c]), db)]
  /\ process' = [process EXCEPT ![c] = "write"]
  /\ UNCHANGED <<req, clientVars, link, toClient, db, up, crashes>>

\* A frame is read and executed under the mutex: nothing is awaited meanwhile, and
\* the guard is gone before the response is written.
Execute(c) ==
  /\ up /\ process[c] = "read" /\ toServer[c] # <<>> /\ Head(toServer[c]).op # "other"
  /\ toServer' = [toServer EXCEPT ![c] = Tail(@)]
  /\ db' = KV!MapAfter(Head(toServer[c]), db)
  /\ response' = [response EXCEPT ![c] = KV!ReplyTo(Head(toServer[c]), db)]
  /\ reply' = [reply EXCEPT ![Sender(c)] = KV!ReplyTo(Head(toServer[c]), db)]
  /\ process' = [process EXCEPT ![c] = "write"]
  /\ UNCHANGED <<req, clientVars, link, toClient, up, crashes>>

\* A panic that aborts the server.
UnimplementedAborts(c) ==
  /\ up /\ process[c] = "read" /\ toServer[c] # <<>> /\ Head(toServer[c]).op = "other"
  /\ up' = FALSE
  /\ link' = [d \in Conns |-> IF link[d] = "open" THEN "closed" ELSE link[d]]
  /\ process' = [d \in Conns |-> IF link[d] = "none" THEN "none" ELSE "ended"]
  /\ toServer' = [d \in Conns |-> <<>>]
  /\ UNCHANGED <<req, clientVars, toClient, response, db, crashes, reply>>

\* panic!("unimplemented ..") ends the task and drops its connection.
Unimplemented(c) ==
  /\ up /\ process[c] = "read" /\ toServer[c] # <<>> /\ Head(toServer[c]).op = "other"
  /\ toServer' = [toServer EXCEPT ![c] = Tail(@)]
  /\ process' = [process EXCEPT ![c] = "ended"]
  /\ link' = [link EXCEPT ![c] = "closed"]
  /\ UNCHANGED <<req, clientVars, toClient, response, db, up, crashes, reply>>

\* write_frame; to a connection that is closed it may fail, and unwrap panics.
WriteFrame(c) ==
  /\ up /\ process[c] = "write"
  /\ \/ /\ link[c] = "open"
        /\ toClient' = [toClient EXCEPT ![c] = Append(@, response[c])]
        /\ process' = [process EXCEPT ![c] = "read"]
     \/ /\ link[c] = "closed"
        /\ process' \in {[process EXCEPT ![c] = "read"], [process EXCEPT ![c] = "ended"]}
        /\ UNCHANGED toClient
  /\ response' = [response EXCEPT ![c] = None]
  /\ UNCHANGED <<req, clientVars, link, toServer, db, up, crashes, reply>>

EndOfStream(c) ==
  /\ up /\ process[c] = "read" /\ toServer[c] = <<>> /\ link[c] = "closed"
  /\ process' = [process EXCEPT ![c] = "ended"]
  /\ UNCHANGED <<req, clientVars, netVars, response, db, up, crashes, reply>>

\* The server is killed: its connections end, what they had sent may still arrive.
Crash ==
  /\ up /\ crashes < MaxCrashes
  /\ up' = FALSE /\ crashes' = crashes + 1
  /\ db' = KV!Empty
  /\ link' = [c \in Conns |-> IF link[c] = "open" THEN "closed" ELSE link[c]]
  /\ process' = [c \in Conns |-> IF link[c] = "none" THEN "none" ELSE "ended"]
  /\ response' = [c \in Conns |-> None]
  /\ toServer' = [c \in Conns |-> <<>>]
  /\ toClient' \in {toClient, [c \in Conns |-> <<>>]}
  /\ UNCHANGED <<req, clientVars, reply>>

Restart ==
  /\ ~up /\ up' = TRUE
  /\ UNCHANGED <<req, clientVars, netVars, process, response, db, crashes, reply>>

-----------------------------------------------------------------------------
TaskStep(t) == SendCommand(t) \/ SendFails(t) \/ AwaitResponse(t)
ManagerStep(p) == Connect(p) \/ ConnectRefused(p) \/ Recv(p) \/ Respond(p) \/ ChannelClosed(p)
MainStep(p) == Await(p) \/ AwaitPanics(p)
ServerStep(c) == Accept(c) \/ Execute(c) \/ Unimplemented(c) \/ WriteFrame(c) \/ EndOfStream(c)

\* The server goes on waiting when everybody has left.
Finished ==
  /\ \A p \in Procs : main[p] \in Ended
  /\ UNCHANGED vars

Next ==
  \/ \E t \in Tasks : TaskStep(t)
  \/ \E p \in Procs : ManagerStep(p) \/ MainStep(p)
  \/ \E c \in Strangers : StrangerSends(c) \/ StrangerLeaves(c)
  \/ \E c \in Conns : ServerStep(c)
  \/ Crash \/ Restart \/ Finished

\* tokio polls every task that can go on, in both programs.  Strangers need not
\* come or go; the server need not crash or restart.
Spec ==
  /\ Init /\ [][Next]_vars
  /\ \A t \in Tasks : WF_vars(TaskStep(t))
  /\ \A p \in Procs : WF_vars(ManagerStep(p)) /\ WF_vars(MainStep(p))
  /\ \A c \in Conns : WF_vars(ServerStep(c))

-----------------------------------------------------------------------------
\* Types, with what is in flight: one request of a connection at a time, and a
\* manager in a call has its request somewhere or the connection is lost.
TypeOK ==
  /\ req \in [Sessions -> KV!Requests \cup {[op |-> "other"]}]
  /\ task \in [Tasks -> {"send", "await"} \cup Ended]
  /\ oneshot \in [Tasks -> {"open", "dropped", Error} \cup Replies]
  /\ result \in [Tasks -> {None, Error} \cup Replies]
  /\ main \in [Procs -> {"run", "done", "panicked"}]
  /\ joined \in [Procs -> Nat] /\ \A p \in Procs : joined[p] <= Len(TaskSeq[p])
  /\ chan \in [Procs -> Seq(Tasks)] /\ \A p \in Procs : Len(chan[p]) <= Capacity
  /\ manager \in [Procs -> {"connect", "recv", "call"} \cup (Ended \ {"unsent"})]
  /\ cur \in [Procs -> Tasks \cup {None}]
  /\ link \in [Conns -> {"none", "open", "closed"}]
  /\ \A c \in Conns : Len(toServer[c]) + Len(toClient[c]) <= 1
  /\ process \in [Conns -> {"none", "read", "write", "ended"}]
  /\ response \in [Conns -> Replies \cup {None}]
  /\ db \in [Keys -> Values \cup {Nil}] /\ up \in BOOLEAN /\ crashes \in 0..MaxCrashes
  /\ reply \in [Sessions -> Replies \cup {None}]

\* The requests of all programs take effect one after another, each once at most,
\* and a task that is not told of an error is told the reply to its own request.
Linearizable == KV!Spec

\* As long as the server lives nobody is told of an error, no task of a client
\* panics or is cancelled and no client's main panics, whatever other programs do.
FaultsHaveACause == crashes = 0 =>
  /\ \A t \in Tasks : result[t] # Error /\ task[t] \notin {"panicked", "cancelled", "unsent"}
  /\ \A p \in Procs : main[p] # "panicked" /\ manager[p] # "panicked"

\* main of client.rs always returns or panics: no task waits for ever for room, for a
\* response or for a sender that nobody drops, even if the server dies half-way.
MainEnds == <>(\A p \in Procs : main[p] \in Ended)
=============================================================================

----------------------------- MODULE ChatClient -----------------------------
(***************************************************************************)
(* CSocket/client/client.cpp: the user's thread sends a request and waits  *)
(* in msgrcv; the helper thread reads the connection and passes replies on *)
(* through a System V queue that belongs to the host and outlives the      *)
(* process.  One process runs at a time; it may be killed and started      *)
(* again.  The server is the one of ChatServer, seen from a connection     *)
(* that its own thread serves.                                             *)
(***************************************************************************)
EXTENDS Integers, Sequences, SequencesExt

CONSTANTS
  Types,        \* GET_TIME, GET_NAME, GET_CLIENT_LIST and SEND_MSG
  ByteTypes,    \* those whose request is one byte: all but SEND_MSG
  MaxStarts,    \* bound on the processes, one after the other
  MaxRequests,  \* bound on the requests of all of them
  MaxReposts    \* bound on the messages of other clients

ASSUME ClientBounds == MaxStarts \in Nat /\ MaxRequests \in Nat /\ MaxReposts \in Nat
ASSUME ClientTypes ==
  ByteTypes \subseteq Types /\ Types \cap {"hello", "repost", "none", "other"} = {}

VARIABLES
  msgq,       \* the System V queue
  starts,     \* how many processes there have been
  alive,      \* one of them is running
  user,       \* its user's thread: "menu" or "wait" in msgrcv
  want,       \* the request it waits for the reply to, or was last replied to
  got,        \* the reply msgrcv gave it
  sockfd,     \* "none" (-1), "open", or "failed": a socket that did not connect
  helper,     \* "none", "hello" before the first recv, "loop"
  coalesced,  \* this process' helper has read hello and more in one recv
  stream,     \* what the server has sent
  asked,      \* the requests the server has not answered
  fresh,      \* the server has read nothing of this connection yet
  fate,       \* history: what becomes of the last request, "due" to be answered,
              \* "ignored" by the server or "gone" with it
  serial, reposts,
  up          \* a server is listening

procVars == <<user, want, got, sockfd, helper, coalesced>>
netVars == <<stream, asked, fresh>>
counters == <<starts, serial, reposts>>
vars == <<msgq, alive, procVars, netVars, counters, up, fate>>

Reply(type, n) == [type |-> type, serial |-> n]
Hello == Reply("hello", 0)
Repost == Reply("repost", 0)
NoReply == Reply("none", 0)

Init ==
  /\ msgq = <<>> /\ alive = FALSE
  /\ user = "menu" /\ want = NoReply /\ got = NoReply
  /\ sockfd = "none" /\ helper = "none" /\ coalesced = FALSE
  /\ stream = <<>> /\ asked = <<>> /\ fresh = FALSE /\ fate = "due"
  /\ starts = 0 /\ serial = 0 /\ reposts = 0
  /\ up = TRUE

-----------------------------------------------------------------------------
\* The process.

NewProcess ==
  /\ ~alive /\ starts < MaxStarts
  /\ alive' = TRUE /\ starts' = starts + 1
  /\ user' = "menu" /\ want' = NoReply /\ got' = NoReply
  /\ sockfd' = "none" /\ helper' = "none" /\ coalesced' = FALSE
  /\ fate' = "due"
  /\ UNCHANGED <<netVars, serial, reposts, up>>

\* The constructor does not empty the queue.
StartWithoutDrain == NewProcess /\ UNCHANGED msgq

\* The constructor empties the queue.
Start == NewProcess /\ msgq' = <<>>

\* The end of the process takes its socket along, not the queue.
Ends ==
  /\ alive' = FALSE /\ stream' = <<>> /\ asked' = <<>>
  /\ UNCHANGED <<msgq, procVars, counters, up, fresh, fate>>

\* done(), and a signal at any time.
Done == alive /\ user = "menu" /\ Ends
Kill == alive /\ Ends

Menu(fd) == alive /\ user = "menu" /\ sockfd = fd

ConnectServer ==
  /\ Menu("none")
  /\ IF up THEN sockfd' = "open" /\ helper' = "hello" /\ stream' = <<Hello>> /\ fresh' = TRUE
     ELSE sockfd' = "failed" /\ UNCHANGED <<helper, stream, fresh>>
  /\ UNCHANGED <<msgq, alive, user, want, got, coalesced, asked, counters, up, fate>>

\* The helper is cancelled in its recv.
DisconnectServer ==
  /\ Menu("open")
  /\ sockfd' = "none" /\ helper' = "none" /\ stream' = <<>> /\ asked' = <<>>
  /\ UNCHANGED <<msgq, alive, user, want, got, coalesced, counters, up, fresh, fate>>

\* getServerTime, getServerName, getClientList and sendToOtherClient up to msgrcv.
Request ==
  /\ Menu("open") /\ serial < MaxRequests
  /\ \E type \in Types :
       /\ want' = Reply(type, serial + 1)
       /\ asked' = IF up THEN Append(asked, want') ELSE asked
  /\ serial' = serial + 1
  /\ user' = "wait" /\ fate' = IF up THEN "due" ELSE "gone"
  /\ UNCHANGED <<msgq, alive, got, sockfd, helper, coalesced, stream, fresh, starts, reposts, up>>

\* The send on a socket that never connected raises SIGPIPE.
RequestUnconnected == Menu("failed") /\ Ends

\* msgrcv with IPC_NOWAIT: the menu comes back without a reply.
MsgRcvNoWait ==
  /\ alive /\ user = "wait"
  /\ LET i == SelectInSeq(msgq, LAMBDA m : m.type = want.type) IN
     IF i = 0 THEN UNCHANGED <<msgq, got>> ELSE got' = msgq[i] /\ msgq' = RemoveAt(msgq, i)
  /\ user' = "menu"
  /\ UNCHANGED <<alive, want, sockfd, helper, coalesced, netVars, counters, up, fate>>

\* The first message of the type.
MsgRcv ==
  /\ alive /\ user = "wait"
  /\ LET i == SelectInSeq(msgq, LAMBDA m : m.type = want.type) IN
     /\ i # 0
     /\ got' = msgq[i]
     /\ msgq' = RemoveAt(msgq, i)
  /\ user' = "menu"
  /\ UNCHANGED <<alive, want, sockfd, helper, coalesced, netVars, counters, up, fate>>

-----------------------------------------------------------------------------
\* helper_thread

\* The first recv takes as much as it has room for: hello, and most of a message that
\* is there already.
HelperHello ==
  /\ alive /\ helper = "hello" /\ stream # <<>>
  /\ helper' = "loop"
  /\ coalesced' = (coalesced \/ Len(stream) > 1)
  /\ stream' = Tail(stream)
  /\ UNCHANGED <<msgq, alive, user, want, got, sockfd, asked, counters, up, fresh, fate>>

\* What the next recv takes for a message: the rest of one may have any type.
Taken == IF coalesced THEN {Reply(type, 0) : type \in Types \cup {"repost", "other"}}
         ELSE {Head(stream)}

\* A repost ends the loop: `break` for `continue`.
HelperStopsAtRepost ==
  /\ alive /\ helper = "loop" /\ stream # <<>>
  /\ stream' = Tail(stream)
  /\ IF Head(stream).type = "repost" THEN helper' = "none" /\ UNCHANGED msgq
     ELSE msgq' = Append(msgq, Head(stream)) /\ UNCHANGED helper
  /\ UNCHANGED <<alive, user, want, got, sockfd, coalesced, asked, counters, up, fresh, fate>>

\* A repost is printed, anything else goes to the queue.
HelperRecv ==
  /\ alive /\ helper = "loop" /\ stream # <<>>
  /\ stream' = Tail(stream)
  /\ \E m \in Taken : msgq' = IF m.type = "repost" THEN msgq ELSE Append(msgq, m)
  /\ UNCHANGED <<alive, procVars, asked, counters, up, fresh, fate>>

-----------------------------------------------------------------------------
\* The server.

Answer ==
  /\ up /\ asked # <<>>
  /\ stream' = Append(stream, Head(asked))
  /\ asked' = Tail(asked) /\ fresh' = FALSE
  /\ UNCHANGED <<msgq, alive, procVars, counters, up, fate>>

\* The first request of a connection, if it is one byte, may be of no type the server
\* knows: nothing has set the other bytes of its mes_rec.type.
Ignore ==
  /\ up /\ asked # <<>> /\ fresh /\ Head(asked).type \in ByteTypes
  /\ asked' = Tail(asked) /\ fresh' = FALSE
  /\ fate' = "ignored"
  /\ UNCHANGED <<msgq, alive, procVars, stream, counters, up>>

SendRepost ==
  /\ up /\ alive /\ sockfd = "open" /\ reposts < MaxReposts
  /\ stream' = Append(stream, Repost)
  /\ reposts' = reposts + 1
  /\ UNCHANGED <<msgq, alive, procVars, asked, fresh, starts, serial, up, fate>>

\* The server ends, taking the connection along: recv gives 0 from then on, and the
\* helper turns without anything to pass on.  It is not started again.
ServerEnds ==
  /\ up /\ up' = FALSE /\ asked' = <<>>
  /\ fate' = IF asked = <<>> THEN fate ELSE "gone"
  /\ UNCHANGED <<msgq, alive, procVars, stream, fresh, counters>>

-----------------------------------------------------------------------------
User == MsgRcv \/ ConnectServer \/ DisconnectServer \/ Request \/ RequestUnconnected \/ Done

ServerTurn == Answer \/ Ignore

\* The menu waits for a user, and nobody need start a process again.
Idle == UNCHANGED vars

Next == Start \/ Kill \/ User \/ HelperHello \/ HelperRecv
        \/ ServerTurn \/ SendRepost \/ ServerEnds \/ Idle

\* Threads are scheduled, and the server's thread gets to each request (its mutex is not
\* kept from it for ever); users do as they please.
Spec ==
  /\ Init /\ [][Next]_vars
  /\ WF_vars(MsgRcv) /\ WF_vars(HelperHello) /\ WF_vars(HelperRecv) /\ WF_vars(ServerTurn)

-----------------------------------------------------------------------------
\* Types, with the helper there exactly when the socket is connected.
Messages == [type : Types \cup {"hello", "repost", "none", "other"}, serial : 0..MaxRequests]
TypeOK ==
  /\ msgq \in Seq(Messages) /\ stream \in Seq(Messages) /\ asked \in Seq(Messages)
  /\ alive \in BOOLEAN /\ coalesced \in BOOLEAN /\ up \in BOOLEAN /\ fresh \in BOOLEAN
  /\ fate \in {"due", "ignored", "gone"}
  /\ user \in {"menu", "wait"} /\ want \in Messages /\ got \in Messages
  /\ sockfd \in {"none", "open", "failed"} /\ helper \in {"none", "hello", "loop"}
  /\ starts \in 0..MaxStarts /\ serial \in 0..MaxRequests /\ reposts \in 0..MaxReposts
  /\ (helper = "none") <=> (sockfd # "open")

\* What msgrcv returns is the reply to the request just made, not one that an earlier
\* request or process has left behind, unless hello was read together with more.
OwnReply == (alive /\ got # NoReply /\ user = "menu" /\ ~coalesced) => got = want

\* The user who waits has one reply somewhere on its way, unless the request is one that
\* gets none: the first of its connection in one byte, or one that the server had not
\* answered when it ended.  The user at the menu has none.  So no reply is lost or doubled
\* between the server, the helper and the queue, also when the server ends behind it.
\* (And types.)
RepliesIn(s) == {i \in DOMAIN s : s[i].type \in Types}
NoneOnItsWay == asked = <<>> /\ RepliesIn(stream) = {} /\ msgq = <<>>
OneOnItsWay ==
  \/ asked = <<want>> /\ RepliesIn(stream) = {} /\ msgq = <<>>
  \/ asked = <<>> /\ (\E i \in DOMAIN stream : RepliesIn(stream) = {i} /\ stream[i] = want)
     /\ msgq = <<>>
  \/ asked = <<>> /\ RepliesIn(stream) = {} /\ msgq = <<want>>
OneReplyOnItsWay ==
  /\ TypeOK
  /\ alive /\ ~coalesced =>
       IF user = "wait" /\ fate = "due" THEN OneOnItsWay ELSE NoneOnItsWay
  /\ alive /\ user = "wait" /\ fate = "gone" => ~up

\* A user who waits is replied to, however slow the helper and whatever reposts come
\* in between, also if the server ends behind the reply; unless the process ends, hello was
\* read with more, or the request is one that gets no reply.
Answered == (alive /\ user = "wait") ~> (user = "menu" \/ ~alive \/ coalesced \/ fate # "due")
=============================================================================

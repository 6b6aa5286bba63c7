----------------------------- MODULE EchoClient -----------------------------
(***************************************************************************)
(* my_redis/src/bin/echo-server-copy.rs: a client of an echo server.  One  *)
(* task writes two lines, main reads until the end of the stream.  The     *)
(* halves of io::split share one socket: dropping the write half does not  *)
(* shut the connection down.  The echo server is not in the repository; it *)
(* copies what it reads until it reads the end of the stream.  TCP may cut *)
(* a line anywhere: a line is a sequence of pieces.                        *)
(***************************************************************************)
EXTENDS Integers, Sequences, SequencesExt

CONSTANTS
  Pieces,   \* what TCP does not cut
  Lines     \* what write_all is called with, in order

ASSUME LinesArePieces == Lines \in Seq(Seq(Pieces) \ {<<>>})

VARIABLES
  rd,        \* main with its half: "connect", "read", "done" (Ok) or "failed" (Err)
  wr,        \* the spawned task with its half: "none", "writing", "ended"
  written,   \* how many lines it has written
  sent, echoed,   \* the two directions of the connection
  peer,      \* the server: "up", "closed" the connection, "reset" it, "down"
  got        \* what main has printed

echoVars == <<rd, wr, written, sent, echoed, peer, got>>

EchoInit ==
  /\ rd = "connect" /\ wr = "none" /\ written = 0
  /\ sent = <<>> /\ echoed = <<>> /\ got = <<>>
  /\ peer \in {"up", "down"}

\* connect(..).await?, split and spawn.
ConnectEcho ==
  /\ rd = "connect"
  /\ IF peer = "up" THEN rd' = "read" /\ wr' = "writing"
     ELSE rd' = "failed" /\ UNCHANGED wr
  /\ UNCHANGED <<written, sent, echoed, peer, got>>

\* write_all(line).await? : to a connection the server has closed the first line is
\* answered by a reset, the second fails and ends the task.
Write ==
  /\ wr = "writing" /\ written < Len(Lines) /\ peer # "reset"
  /\ written' = written + 1
  /\ IF peer = "up" THEN sent' = sent \o Lines[written + 1] /\ UNCHANGED peer
     ELSE peer' = "reset" /\ UNCHANGED sent
  /\ UNCHANGED <<rd, wr, echoed, got>>

\* The task ends, with an error that nobody looks at or behind the last line, and
\* drops its half.
TaskEnds ==
  /\ wr = "writing" /\ (written = Len(Lines) \/ peer = "reset")
  /\ wr' = "ended"
  /\ UNCHANGED <<rd, written, sent, echoed, peer, got>>

\* The whole buffer is printed, with what an earlier read has left in it.
PrintBuffer(n) == got' = got \o SubSeq(echoed, 1, n) \o SubSeq(got, n + 1, Len(got))

\* println!(&buf[..n])
PrintRead(n) == got' = got \o SubSeq(echoed, 1, n)

\* read(&mut buf).await? gives some of what has arrived.
Read ==
  /\ rd = "read" /\ echoed # <<>>
  /\ \E n \in 1..Len(echoed) : PrintRead(n) /\ echoed' = SubSeq(echoed, n + 1, Len(echoed))
  /\ UNCHANGED <<rd, written, wr, sent, peer>>

\* No break.
ReadOn == rd = "read" /\ echoed = <<>> /\ peer = "closed" /\ UNCHANGED echoVars

\* n == 0, or an error; with main's return the runtime drops the task.
ReadEnds ==
  /\ rd = "read" /\ echoed = <<>> /\ peer \in {"closed", "reset"}
  /\ rd' = IF peer = "closed" THEN "done" ELSE "failed"
  /\ wr' = "ended"
  /\ UNCHANGED <<written, sent, echoed, peer, got>>

-----------------------------------------------------------------------------
\* The server.  It reads the end of the stream only when the client's process is gone.
Echo ==
  /\ peer = "up" /\ sent # <<>>
  /\ \E n \in 1..Len(sent) :
       /\ echoed' = echoed \o SubSeq(sent, 1, n)
       /\ sent' = SubSeq(sent, n + 1, Len(sent))
  /\ UNCHANGED <<rd, written, wr, peer, got>>

\* It is killed: what it has not read makes the kernel reset the connection.
ServerEnds ==
  /\ peer = "up"
  /\ peer' = IF rd = "connect" THEN "down" ELSE IF sent = <<>> THEN "closed" ELSE "reset"
  /\ sent' = <<>>
  /\ UNCHANGED <<rd, written, wr, echoed, got>>

\* main has returned, or waits in read for a server that waits for it.
Waiting == rd = "read" /\ wr = "ended" /\ peer = "up" /\ sent = <<>> /\ echoed = <<>>
Idle == (Waiting \/ rd \in {"done", "failed"}) /\ UNCHANGED echoVars

EchoNext == ConnectEcho \/ Write \/ TaskEnds \/ Read \/ ReadEnds \/ Echo \/ ServerEnds \/ Idle

\* Both tasks are polled and a server that is up echoes; it need not ever end.
EchoSpec ==
  /\ EchoInit /\ [][EchoNext]_echoVars
  /\ WF_echoVars(ConnectEcho) /\ WF_echoVars(Write \/ TaskEnds)
  /\ WF_echoVars(Read \/ ReadEnds) /\ WF_echoVars(Echo)

-----------------------------------------------------------------------------
All == FlattenSeq(Lines)

\* Types.
EchoTypes ==
  /\ rd \in {"connect", "read", "done", "failed"} /\ wr \in {"none", "writing", "ended"}
  /\ written \in 0..Len(Lines) /\ peer \in {"up", "closed", "reset", "down"}
  /\ \A s \in {sent, echoed, got} : s \in Seq(Pieces)

\* What main prints is the beginning of what the task writes, each piece once and in
\* order however reads cut it, and it is complete once nothing is under way.  (And types.)
EchoInOrder ==
  /\ EchoTypes
  /\ IsPrefix(got \o echoed \o sent, FlattenSeq(SubSeq(Lines, 1, written)))
  /\ Waiting => got = All

\* Everything comes back unless the server ends, and if it ends main returns, also
\* when the task is in the middle of its lines.
EchoedOrEnded ==
  /\ (rd = "read") ~> (got = All \/ peer # "up")
  /\ (peer # "up") ~> (rd \in {"done", "failed"})
=============================================================================
